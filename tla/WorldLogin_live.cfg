SPECIFICATION FairSpec
CONSTANTS
  s1=s1 s2=s2 s3=s3 a1=a1 a2=a2 a3=a3 w1=w1 w2=w2
  Sockets={s1,s2}
  Accounts={a1,a2,a3}
  AccountOf <- OwnAccounts
  GMs={a2}
  Workers={w1}
  World=World
  PlayerLimit=1
  QueueInterval=1
  LinkStates={"up", "broken", "none"}
  MaxRequests <- FirstTwice
  Null=Null
PROPERTIES HandlersEnd EveryLoginAnswered DeadSessionsDeleted QueueMoves
