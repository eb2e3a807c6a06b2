SPECIFICATION FairSpec
CONSTANTS
  Threads={1,2,3}
  Tasks={k1,k2}
  k1=k1 k2=k2 k3=k3
  Null=Null
  Reserve=1
  Counting=TRUE
  LateTasks=TRUE
  MaxChecks=1
  MaxPosts=2
INVARIANTS TypeOK NoDanglingThread TasksKept
PROPERTIES TasksStart KnownThreadsEnd
