SPECIFICATION FairSpec
CONSTANTS
  o1=o1 e1=e1 e2=e2
  Eventables={o1}
  Maps={m1,m2}
  World=World
  Events={e1,e2}
  ObjectOf <- OneObject
  MapOnly={e2}
  OneShot={e2}
  Period <- Wait
  MaxMoves=2
  EarlyAdds=FALSE
  Out=Out
  Null=Null
  
PROPERTIES RunsAllowed EventsRun
CHECK_DEADLOCK FALSE
