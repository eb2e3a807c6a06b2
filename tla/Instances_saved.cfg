SPECIFICATION Spec
CONSTANTS
  p1=p1 p2=p2 p3=p3 m1=m1 m2=m2
  Players={p1,p2}
  Travellers={p1,p2}
  Managers={m1,m2}
  MaxInstances <- Twos
  Kinds={"raid"}
  MaxGroups <- Twos
  None=None
INVARIANT SavedIsUsed
SYMMETRY Symmetric
CHECK_DEADLOCK FALSE
