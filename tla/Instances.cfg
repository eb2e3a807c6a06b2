SPECIFICATION Spec
CONSTANTS
  p1=p1 p2=p2 p3=p3 m1=m1 m2=m2
  Players={p1,p2,p3}
  Travellers={p1,p2}
  Managers={m1,m2}
  MaxInstances <- Ones
  Kinds={"nonraid","normal","raid","raidAtOnce"}
  MaxGroups <- Twos
  None=None
INVARIANTS Consistent IdleManagersEnd GroupsApart
PROPERTY PersistentKept
SYMMETRY Symmetric
CHECK_DEADLOCK FALSE
