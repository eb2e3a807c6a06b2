SPECIFICATION FairSpec
CONSTANTS
  Null = Null
  Main = main
  ExecThread = exec
  QueryThread = query
  Clients = {k1}
  Connections = {c1, c2}
  Queries = {q1, q2}
  Buffers = {b1}
  Stopping = TRUE
  MaxFailures = 1
INVARIANTS ConnectionsHeld ItemsKept BufferAtomic
PROPERTIES Promised EveryItemRuns EndThreadsReturns
\* The workload is finite: when it is done, nobody has anything to do.
CHECK_DEADLOCK FALSE
