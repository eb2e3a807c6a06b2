----------------------------- MODULE Database_proofs -----------------------------
(***************************************************************************)
(* A connection has one user, a buffer is one transaction, no item is lost *)
(* or doubled, and Execute implements WriteQueue, for every number of      *)
(* callers, connections, queries and buffers, whatever statements fail.    *)
(***************************************************************************)
EXTENDS Database, SequenceTheorems, TLAPS

\* Steps at which a thread has an item in its hands, ...
Carrying == {"push", "connect", "connectInLoop", "send", "sendInLoop",
             "pushBack"}
\* ... sends it, ...
Sending == {"send", "sendInLoop"}
\* ... or has a connection; in "loop" it may have none.
Holding == {"loop", "send", "sendInLoop", "release"}

HandsFull == \A t \in Threads : pc[t] \in Carrying => item[t] # Null

\* A thread that waits for a connection has none: it would forget it.
Connected ==
    \A t \in Threads :
        /\ con[t] # Null => pc[t] \in Holding
        /\ pc[t] \in Holding \ {"loop"} => con[t] # Null

\* Only a thread that sends a buffer has sent a part of it.
Progress ==
    \A t \in Threads : at[t] # 0 => pc[t] \in Sending /\ item[t] \in Buffers

IInv ==
    /\ TypeOK /\ HandsFull /\ Connected /\ Progress
    /\ ConnectionsHeld

-------------------------------------------------------------------------------
LEMMA ThreadFacts ==
    /\ Main \in Threads /\ ExecThread \in Threads /\ QueryThread \in Threads
    /\ Main \notin Services /\ ExecThread # QueryThread
    /\ Callers \subseteq Threads /\ Services \subseteq Threads
    /\ Null \notin Threads /\ Null \notin Connections
    /\ Null \notin Queries /\ Null \notin Buffers
    /\ Queries \cap Buffers = {}
  <1>1. Main \notin Services /\ ExecThread # QueryThread
    BY DatabaseAssumption DEF DatabaseAssumption, Services
  <1> QED BY <1>1, DatabaseAssumption
          DEF DatabaseAssumption, Threads, Callers, Services

\* Both queue operations keep a queue a queue.
LEMMA QueueTypes ==
    ASSUME NEW S, NEW q \in Seq(S)
    PROVE  /\ \A x \in S : Push(q, x) \in Seq(S)
           /\ q # <<>> => Head(q) \in S /\ Popped(q) \in Seq(S)
  BY HeadTailProperties, AppendProperties DEF Push, Popped

-------------------------------------------------------------------------------
LEMMA InitIInv == Init => IInv
  <1> SUFFICES ASSUME Init PROVE IInv
    OBVIOUS
  <1> USE ThreadFacts DEF Init
  <1>1. TypeOK
    <2>1. /\ queries_queue \in Seq(Queries) /\ query_buffer \in Seq(Buffers)
          /\ submitted \in Seq(Queries) /\ executed \in Seq(Queries)
      BY EmptySeq
    <2>2. /\ Busy \in [Connections -> Threads \cup {Null}]
          /\ con \in [Threads -> Connections \cup {Null}]
      OBVIOUS
    <2>3. /\ pc \in [Threads -> PCs]
          /\ at \in [Threads -> 0..(BufferSize + 1)]
      BY DEF PCs, BufferSize
    <2>4. /\ item \in [Threads -> Queries \cup Buffers \cup {Null}]
          /\ fresh \subseteq Queries \cup Buffers
          /\ performed \subseteq Buffers /\ broken \subseteq Buffers
          /\ stored \subseteq Buffers \X (1..BufferSize)
          /\ refused \subseteq Buffers \X (1..BufferSize)
          /\ open \subseteq Connections
          /\ transaction \in [Connections -> SUBSET (Buffers \X (1..BufferSize))]
      OBVIOUS
    <2>5. /\ terminate \in BOOLEAN /\ ThreadRunning \in BOOLEAN /\ qt \in BOOLEAN
          /\ stopping \in {"no", "running", "returned"}
      OBVIOUS
    <2> QED BY <2>1, <2>2, <2>3, <2>4, <2>5 DEF TypeOK
  <1>2. HandsFull
    BY DEF HandsFull, Carrying
  <1>3. Connected
    BY DEF Connected, Holding, Services
  <1>4. Progress
    BY DEF Progress
  <1>5. ConnectionsHeld
    BY DEF ConnectionsHeld
  <1> QED BY <1>1, <1>2, <1>3, <1>4, <1>5 DEF IInv

-------------------------------------------------------------------------------
(* Steps that hand items around and touch no connection.                   *)

Handing(t) ==
    \/ Call(t) /\ t \in Callers
    \/ t \in Callers /\ PushItem(t)
    \/ t \in Services /\ (Take(t) \/ Drain(t) \/ Finish(t))
    \/ t = Main /\ (EndThreads \/ SpinBuffers \/ SpinQueries \/ PushBack \/ Join)

\* A thread handing an item around is at none of the steps between Connect
\* and Release, except that a service may keep its connection in its loop.
LEMMA HandingFrame ==
    ASSUME IInv, NEW t \in Threads, Handing(t)
    PROVE  /\ UNCHANGED <<Busy, con, at, bufferVars, executed>>
           /\ pc[t] \notin Sending \cup {"release"}
           /\ pc' \in [Threads -> PCs]
           /\ item' \in [Threads -> Queries \cup Buffers \cup {Null}]
           /\ \A u \in Threads : u # t => pc'[u] = pc[u] /\ item'[u] = item[u]
           /\ pc'[t] \in Carrying => item'[t] # Null
           /\ pc'[t] \in Holding \ {"loop"} => con[t] # Null
           /\ con[t] # Null => pc'[t] \in Holding
  <1> USE ThreadFacts DEF IInv
  <1>1. /\ pc \in [Threads -> PCs]
        /\ item \in [Threads -> Queries \cup Buffers \cup {Null}]
        /\ queries_queue \in Seq(Queries) /\ query_buffer \in Seq(Buffers)
    BY DEF TypeOK
  <1>2. /\ queries_queue # <<>> => Head(queries_queue) \in Queries
        /\ query_buffer # <<>> => Head(query_buffer) \in Buffers
    BY <1>1, QueueTypes
  <1>3. /\ con[t] # Null => pc[t] \in Holding
        /\ pc[t] \in Carrying => item[t] # Null
    BY DEF Connected, HandsFull
  <1> HIDE DEF IInv
  <1> USE DEF Goto, Hold, PCs, Sending, Carrying, Holding, dbVars
  <1>4. CASE Call(t) /\ t \in Callers
    BY <1>1, <1>3, <1>4 DEF Call, Execute, WaitExecute, AddQueryBuffer
  <1>5. CASE t \in Callers /\ PushItem(t)
    BY <1>1, <1>3, <1>5 DEF PushItem
  <1>6. CASE t \in Services /\ Take(t)
    BY <1>1, <1>2, <1>3, <1>6 DEF Take, Pop, OwnQueue
  <1>7. CASE t \in Services /\ Drain(t)
    BY <1>1, <1>2, <1>3, <1>7 DEF Drain, Pop, OwnQueue
  <1>8. CASE t \in Services /\ Finish(t)
    BY <1>1, <1>3, <1>8 DEF Finish
  <1>9. CASE t = Main /\ (EndThreads \/ Join)
    BY <1>1, <1>3, <1>9 DEF EndThreads, Join
  <1>10. CASE t = Main /\ (SpinBuffers \/ SpinQueries \/ PushBack)
    BY <1>1, <1>2, <1>3, <1>10 DEF SpinBuffers, SpinQueries, PushBack
  <1> QED BY <1>4, <1>5, <1>6, <1>7, <1>8, <1>9, <1>10 DEF Handing

\* The queues and the switches keep their types.
LEMMA HandingTypes ==
    ASSUME IInv, NEW t \in Threads, Handing(t)
    PROVE  /\ queries_queue' \in Seq(Queries) /\ query_buffer' \in Seq(Buffers)
           /\ submitted' \in Seq(Queries)
           /\ terminate' \in BOOLEAN /\ ThreadRunning' \in BOOLEAN
           /\ qt' \in BOOLEAN /\ stopping' \in {"no", "running", "returned"}
           /\ fresh' \subseteq Queries \cup Buffers
  <1> USE ThreadFacts DEF IInv
  <1>1. /\ item \in [Threads -> Queries \cup Buffers \cup {Null}]
        /\ queries_queue \in Seq(Queries) /\ query_buffer \in Seq(Buffers)
        /\ submitted \in Seq(Queries)
        /\ terminate \in BOOLEAN /\ ThreadRunning \in BOOLEAN /\ qt \in BOOLEAN
        /\ stopping \in {"no", "running", "returned"}
        /\ fresh \subseteq Queries \cup Buffers
    BY DEF TypeOK
  <1>2. /\ queries_queue # <<>> => Popped(queries_queue) \in Seq(Queries)
        /\ query_buffer # <<>> => Popped(query_buffer) \in Seq(Buffers)
        /\ \A q \in Queries : Push(queries_queue, q) \in Seq(Queries)
        /\ \A q \in Queries : Append(submitted, q) \in Seq(Queries)
        /\ \A b \in Buffers : Push(query_buffer, b) \in Seq(Buffers)
    BY <1>1, QueueTypes, AppendProperties
  <1>3. pc[t] \in Carrying => item[t] # Null
    BY DEF HandsFull
  <1> HIDE DEF IInv
  <1> USE DEF queueVars, stateVars, Carrying
  <1>4. CASE Call(t) /\ t \in Callers
    BY <1>1, <1>4 DEF Call, Execute, WaitExecute, AddQueryBuffer
  <1>5. CASE t \in Callers /\ PushItem(t)
    BY <1>1, <1>2, <1>3, <1>5 DEF PushItem
  <1>6. CASE t \in Services /\ (Take(t) \/ Drain(t))
    BY <1>1, <1>2, <1>6 DEF Take, Drain, Pop, OwnQueue
  <1>7. CASE t \in Services /\ Finish(t)
    BY <1>1, <1>7 DEF Finish, RunningAfter
  <1>8. CASE t = Main /\ (EndThreads \/ Join)
    BY <1>1, <1>8 DEF EndThreads, Join
  <1>9. CASE t = Main /\ (SpinBuffers \/ SpinQueries)
    BY <1>1, <1>2, <1>9 DEF SpinBuffers, SpinQueries
  <1>10. CASE t = Main /\ PushBack
    BY <1>1, <1>2, <1>3, <1>10 DEF PushBack
  <1> QED BY <1>4, <1>5, <1>6, <1>7, <1>8, <1>9, <1>10 DEF Handing

LEMMA HandingKeepsIInv ==
    ASSUME IInv, NEW t \in Threads, Handing(t)
    PROVE  IInv'
  <1> USE ThreadFacts, HandingFrame DEF IInv
  <1>1. TypeOK'
    BY HandingTypes, SMTT(30) DEF TypeOK, bufferVars
  <1>2. HandsFull'
    BY DEF HandsFull
  <1>3. Connected'
    BY DEF Connected
  <1>4. at[t] = 0
    BY DEF Progress, TypeOK
  <1>5. Progress'
    BY <1>4 DEF Progress
  <1>6. ConnectionsHeld'
    BY DEF ConnectionsHeld
  <1> QED BY <1>1, <1>2, <1>3, <1>5, <1>6

-------------------------------------------------------------------------------
(* Steps that take or give back a connection, between two transactions.    *)

LEMMA ConnectKeepsIInv ==
    ASSUME IInv, NEW t \in Threads, Connect(t)
    PROVE  IInv'
  <1> USE ThreadFacts DEF IInv
  <1>1. PICK c \in Connections :
            /\ Busy[c] = Null
            /\ Busy' = [Busy EXCEPT ![c] = t]
            /\ con' = [con EXCEPT ![t] = c]
    BY DEF Connect, IsFree
  <1>2. /\ UNCHANGED <<queueVars, stateVars, dbVars, item, at, fresh>>
        /\ pc[t] \in {"connect", "connectInLoop"}
        /\ pc' = [pc EXCEPT ![t] = IF pc[t] = "connect" THEN "send"
                                   ELSE "sendInLoop"]
    BY DEF Connect, Goto
  <1>3. con[t] = Null /\ at[t] = 0 /\ item[t] # Null
    BY <1>2 DEF Connected, Progress, HandsFull, Holding, Sending, Carrying
  <1> USE <1>1, <1>2, <1>3 DEF queueVars, stateVars, dbVars, bufferVars
  <1>4. TypeOK'
    BY DEF TypeOK, PCs
  <1>5. pc \in [Threads -> PCs] /\ con \in [Threads -> Connections \cup {Null}]
        /\ Busy \in [Connections -> Threads \cup {Null}]
    BY DEF TypeOK
  <1>6. HandsFull'
    BY <1>5 DEF HandsFull, Carrying
  <1>7. Connected'
    BY <1>5 DEF Connected, Holding
  <1>8. Progress'
    BY <1>5 DEF Progress
  <1>9. ConnectionsHeld'
    BY <1>5 DEF ConnectionsHeld
  <1> QED BY <1>4, <1>6, <1>7, <1>8, <1>9

Freeing(t) ==
    \/ Release(t)
    \/ t \in Services /\ (FindNone(t) \/ LeaveLoop(t))

\* A thread gives back the connection it has and no other.
LEMMA FreeingFrame ==
    ASSUME IInv, NEW t \in Threads, Freeing(t)
    PROVE  /\ UNCHANGED <<queueVars, stateVars, dbVars, item, at, fresh>>
           /\ pc[t] \in {"loop", "release"}
           /\ pc' \in [Threads -> PCs]
           /\ pc'[t] \in {"loop", "idle", "drain"}
           /\ \A u \in Threads : u # t => pc'[u] = pc[u]
           /\ con' = [con EXCEPT ![t] = Null]
           /\ Busy' = [c \in Connections |->
                         IF Busy[c] = t THEN Null ELSE Busy[c]]
  <1> USE ThreadFacts DEF IInv
  <1>1. /\ pc \in [Threads -> PCs]
        /\ con \in [Threads -> Connections \cup {Null}]
        /\ Busy \in [Connections -> Threads \cup {Null}]
    BY DEF TypeOK
  <1>2. CASE Release(t)
    <2>1. con[t] \in Connections
      BY <1>1, <1>2 DEF Release, Connected, Holding
    <2>2. \A c \in Connections : Busy[c] = t <=> con[t] = c
      BY DEF ConnectionsHeld
    <2>3. Busy' = [c \in Connections |-> IF Busy[c] = t THEN Null ELSE Busy[c]]
      BY <1>1, <1>2, <2>1, <2>2 DEF Release
    <2> QED BY <1>1, <1>2, <2>3 DEF Release, Goto, PCs
  <1>3. CASE t \in Services /\ FindNone(t)
    BY <1>1, <1>3 DEF FindNone, IdleRelease
  <1>4. CASE t \in Services /\ LeaveLoop(t)
    BY <1>1, <1>4 DEF LeaveLoop, IdleRelease, Goto, PCs
  <1> QED BY <1>2, <1>3, <1>4 DEF Freeing

LEMMA FreeingKeepsIInv ==
    ASSUME IInv, NEW t \in Threads, Freeing(t)
    PROVE  IInv'
  <1> USE ThreadFacts, FreeingFrame DEF IInv
  <1>1. /\ pc \in [Threads -> PCs]
        /\ con \in [Threads -> Connections \cup {Null}]
        /\ Busy \in [Connections -> Threads \cup {Null}]
    BY DEF TypeOK
  <1>2. at[t] = 0
    BY DEF Progress, Sending
  <1>3. TypeOK'
    <2>1. /\ Busy' \in [Connections -> Threads \cup {Null}]
          /\ con' \in [Threads -> Connections \cup {Null}]
      BY <1>1
    <2>2. UNCHANGED <<queries_queue, query_buffer, submitted, terminate,
                      ThreadRunning, qt, stopping, executed, bufferVars, item,
                      at, fresh>>
      BY DEF queueVars, stateVars, dbVars
    <2> QED BY <2>1, <2>2 DEF TypeOK, bufferVars
  <1> USE DEF dbVars, bufferVars
  <1>4. HandsFull'
    BY DEF HandsFull, Carrying
  <1>5. Connected'
    BY <1>1 DEF Connected, Holding
  <1>6. Progress'
    BY <1>2 DEF Progress
  <1>7. ConnectionsHeld'
    BY <1>1 DEF ConnectionsHeld
  <1> QED BY <1>3, <1>4, <1>5, <1>6, <1>7

-------------------------------------------------------------------------------
(* Steps on the connection.                                                *)

LEMMA SendQueryKeepsIInv ==
    ASSUME IInv, NEW t \in Threads, SendQuery(t)
    PROVE  IInv'
  <1> USE ThreadFacts DEF IInv
  <1>1. /\ UNCHANGED <<queueVars, stateVars, bufferVars, Busy, con, at, fresh>>
        /\ pc[t] \in Sending /\ item[t] \in Queries
        /\ executed' = Append(executed, item[t])
        /\ item' = [item EXCEPT ![t] = Null]
        /\ pc' = [pc EXCEPT ![t] = Done(t)]
        /\ Done(t) \in {"loop", "release"}
    BY DEF SendQuery, Hold, Goto, Done, Sending
  <1>2. at[t] = 0 /\ con[t] # Null
    BY <1>1 DEF Progress, Connected, Sending, Holding
  <1>3. /\ pc \in [Threads -> PCs] /\ executed' \in Seq(Queries)
        /\ item \in [Threads -> Queries \cup Buffers \cup {Null}]
        /\ Busy \in [Connections -> Threads \cup {Null}]
    BY <1>1, AppendProperties DEF TypeOK
  <1> USE <1>1, <1>2, <1>3 DEF queueVars, stateVars, bufferVars
  <1>4. TypeOK'
    BY DEF TypeOK, PCs
  <1>5. HandsFull'
    BY DEF HandsFull, Carrying
  <1>6. Connected'
    BY DEF Connected, Holding
  <1>7. Progress'
    BY DEF Progress
  <1>8. ConnectionsHeld'
    BY DEF ConnectionsHeld
  <1> QED BY <1>4, <1>5, <1>6, <1>7, <1>8

\* The connection of a thread that has one.
LEMMA OwnConnection ==
    ASSUME IInv, NEW t \in Threads, con[t] # Null
    PROVE  /\ con[t] \in Connections /\ Busy[con[t]] = t
           /\ \A c \in Connections : c # con[t] => Busy[c] # t
  BY DEF IInv, TypeOK, ConnectionsHeld

BufferStep(t) == Begin(t) \/ SendStatement(t) \/ Commit(t)

\* A step of PerformQueryBuffer leaves everything but the statements alone;
\* the last one drops the buffer.
LEMMA BufferFrame ==
    ASSUME IInv, NEW t \in Threads, BufferStep(t)
    PROVE  /\ UNCHANGED <<queueVars, stateVars, executed, Busy, con, fresh>>
           /\ con[t] \in Connections /\ Busy[con[t]] = t
           /\ pc[t] \in Sending /\ item[t] \in Buffers
           /\ at' \in [Threads -> 0..(BufferSize + 1)]
           /\ \A u \in Threads : u # t => at'[u] = at[u]
           /\ \/ UNCHANGED <<item, pc, performed>>
              \/ /\ item' = [item EXCEPT ![t] = Null] /\ at'[t] = 0
                 /\ pc' = [pc EXCEPT ![t] = Done(t)]
                 /\ Done(t) \in {"loop", "release"}
                 /\ performed' = performed \cup {item[t]}
  <1>1. /\ pc[t] \in Sending /\ item[t] \in Buffers
        /\ Done(t) \in {"loop", "release"}
    BY DEF BufferStep, Begin, SendStatement, Commit, SendingBuffer, Sending, Done
  <1>2. con[t] # Null
    BY <1>1 DEF IInv, Connected, Sending, Holding
  <1>3. con[t] \in Connections /\ Busy[con[t]] = t
    BY <1>2, OwnConnection
  <1>4. at \in [Threads -> 0..(BufferSize + 1)]
    BY DEF IInv, TypeOK
  <1>5. CASE Begin(t)
    BY <1>1, <1>3, <1>4, <1>5 DEF Begin, BufferSize
  <1>6. CASE SendStatement(t)
    <2>1. at[t] + 1 \in 0..(BufferSize + 1)
      BY <1>4, <1>6 DEF SendStatement, AllSent, BufferSize
    <2> QED BY <1>1, <1>3, <1>4, <1>6, <2>1 DEF SendStatement
  <1>7. CASE Commit(t)
    BY <1>1, <1>3, <1>4, <1>7 DEF Commit, Hold, Goto, BufferSize
  <1> QED BY <1>5, <1>6, <1>7 DEF BufferStep

\* The sets of statements keep their types.
LEMMA BufferTypes ==
    ASSUME IInv, NEW t \in Threads, BufferStep(t)
    PROVE  /\ performed' \subseteq Buffers /\ broken' \subseteq Buffers
           /\ stored' \subseteq Buffers \X (1..BufferSize)
           /\ refused' \subseteq Buffers \X (1..BufferSize)
           /\ open' \subseteq Connections
           /\ transaction' \in [Connections -> SUBSET (Buffers \X (1..BufferSize))]
  <1> DEFINE c == con[t]
  <1>1. /\ performed \subseteq Buffers /\ broken \subseteq Buffers
        /\ stored \subseteq Buffers \X (1..BufferSize)
        /\ refused \subseteq Buffers \X (1..BufferSize)
        /\ open \subseteq Connections
        /\ transaction \in [Connections -> SUBSET (Buffers \X (1..BufferSize))]
        /\ at \in [Threads -> 0..(BufferSize + 1)]
    BY DEF IInv, TypeOK
  <1>2. c \in Connections /\ item[t] \in Buffers
    BY BufferFrame
  <1>3. transaction[c] \subseteq Buffers \X (1..BufferSize)
    BY <1>1, <1>2
  <1> HIDE DEF c
  <1>4. CASE Begin(t)
    BY <1>1, <1>2, <1>3, <1>4 DEF Begin, Break, c
  <1>5. CASE SendStatement(t)
    <2> DEFINE s == <<item[t], at[t]>>
    <2>1. s \in Buffers \X (1..BufferSize)
      BY <1>1, <1>2, <1>5 DEF SendStatement, AllSent, BufferSize
    <2>2. /\ stored' \in {stored, stored \cup {s}}
          /\ refused' \in {refused, refused \cup {s}}
          /\ broken' \in {broken, broken \cup {item[t]}}
          /\ open' \in {open, open \ {c}} /\ performed' = performed
          /\ \/ transaction' = [transaction EXCEPT ![c] = {}]
             \/ transaction' = [transaction EXCEPT ![c] = @ \cup {s}]
             \/ transaction' = transaction
      BY <1>5 DEF SendStatement, Break, c
    <2> HIDE DEF s
    <2> QED BY <1>1, <1>2, <1>3, <2>1, <2>2
  <1>6. CASE Commit(t)
    BY <1>1, <1>2, <1>3, <1>6 DEF Commit, Break, c
  <1> QED BY <1>4, <1>5, <1>6 DEF BufferStep

LEMMA BufferKeepsIInv ==
    ASSUME IInv, NEW t \in Threads, BufferStep(t)
    PROVE  IInv'
  <1> USE ThreadFacts, BufferFrame DEF IInv
  <1>1. /\ pc \in [Threads -> PCs]
        /\ item \in [Threads -> Queries \cup Buffers \cup {Null}]
    BY DEF TypeOK
  <1>2. TypeOK'
    <2>1. /\ pc' \in [Threads -> PCs]
          /\ item' \in [Threads -> Queries \cup Buffers \cup {Null}]
      BY <1>1 DEF PCs
    <2>2. UNCHANGED <<queries_queue, query_buffer, submitted, terminate,
                      ThreadRunning, qt, stopping, executed, Busy, con, fresh>>
      BY DEF queueVars, stateVars
    <2> QED BY <2>1, <2>2, BufferTypes DEF TypeOK
  <1>3. HandsFull'
    BY <1>1 DEF HandsFull, Carrying
  <1>4. Connected'
    BY <1>1 DEF Connected, Holding
  <1>5. Progress'
    BY <1>1 DEF Progress
  <1>6. ConnectionsHeld'
    BY DEF ConnectionsHeld
  <1> QED BY <1>2, <1>3, <1>4, <1>5, <1>6

-------------------------------------------------------------------------------
LEMMA StutterKeepsIInv == IInv /\ UNCHANGED vars => IInv'
  <1> SUFFICES ASSUME IInv, UNCHANGED vars PROVE IInv'
    OBVIOUS
  <1> USE DEF IInv, vars, queueVars, stateVars, dbVars, bufferVars
  <1>1. TypeOK'
    BY DEF TypeOK
  <1>2. HandsFull' /\ Connected' /\ Progress'
    BY DEF HandsFull, Connected, Progress
  <1>3. ConnectionsHeld'
    BY DEF ConnectionsHeld
  <1> QED BY <1>1, <1>2, <1>3

\* Every step is one of the above.
LEMMA StepKinds ==
    ASSUME Next
    PROVE  \E t \in Threads :
              \/ Handing(t) \/ Connect(t) \/ Freeing(t)
              \/ SendQuery(t) \/ BufferStep(t)
  <1>1. CASE \E t \in Callers : Call(t)
    BY <1>1, ThreadFacts DEF Handing
  <1>2. CASE EndThreads
    BY <1>2, ThreadFacts DEF Handing
  <1>3. CASE \E t \in Threads : Work(t)
    BY <1>3 DEF Work, Handing, Freeing, BufferStep
  <1> QED BY <1>1, <1>2, <1>3 DEF Next

LEMMA NextKeepsIInv == IInv /\ [Next]_vars => IInv'
  <1> SUFFICES ASSUME IInv, Next PROVE IInv'
    BY StutterKeepsIInv
  <1> QED BY StepKinds, HandingKeepsIInv, ConnectKeepsIInv, FreeingKeepsIInv,
             SendQueryKeepsIInv, BufferKeepsIInv

\* The inductive invariant of the database layer: who has which connection.
THEOREM Invariance == Spec => []IInv
  <1> QED BY InitIInv, NextKeepsIInv, PTL DEF Spec

\* The queues, the connection pool and the threads' hands hold values of
\* their kind.
THEOREM TypeCorrectness == Spec => []TypeOK
  <1>1. IInv => TypeOK
    BY DEF IInv
  <1> QED BY <1>1, Invariance, PTL

\* The connection pool and the threads agree at any time on who has which
\* connection: AttemptAcquire and Release are balanced on every path,
\* through the drains of the shutdown as well.
THEOREM ConnectionSafety == Spec => []ConnectionsHeld
  <1>1. IInv => ConnectionsHeld
    BY DEF IInv
  <1> QED BY <1>1, Invariance, PTL

-----------------------------------------------------------------------------
HandsEmpty == \A t \in Threads : pc[t] \notin Carrying => item[t] = Null

\* Main handles queues and waits only while the server shuts down.
MainCloses ==
    pc[Main] \in {"spinBuffers", "spinQueries", "pushBack", "join"}
        => stopping # "no"

\* What has been submitted has run, or is in its queue, or in the hands of
\* one of the two threads that pop that queue.
InMainsHands == IF pc[Main] = "pushBack" THEN {item[Main]} ELSE {}

SubmittedStay ==
    Elements(submitted)
        \subseteq Elements(executed) \cup Elements(queries_queue)
                    \cup {item[ExecThread]} \cup InMainsHands

\* How many queries have been popped, until EndThreads pops and pushes back.
Passed == Len(submitted) - Len(queries_queue)

\* Until then the queue is the rest of what has been submitted, and all
\* before it has run, but the query the execute thread has in hand.
InOrder ==
    stopping = "no" =>
        /\ Passed \in Nat
        /\ \A i \in 1..Len(queries_queue) :
              queries_queue[i] = submitted[Passed + i]
        /\ item[ExecThread] # Null
              => Passed > 0 /\ item[ExecThread] = submitted[Passed]
        /\ \A i \in 1..Passed :
              \/ submitted[i] \in Elements(executed)
              \/ i = Passed /\ item[ExecThread] # Null

Kept == HandsEmpty /\ OnePlace
Order == MainCloses /\ SubmittedStay /\ InOrder

-----------------------------------------------------------------------------------
(* Sequences without repetitions, and the threads' hands.                  *)

LEMMA AppendElements ==
    ASSUME NEW S, NEW q \in Seq(S), NEW x \in S
    PROVE  /\ Elements(Append(q, x)) = Elements(q) \cup {x}
           /\ Distinct(q) /\ x \notin Elements(q) => Distinct(Append(q, x))
  <1>1. /\ Len(Append(q, x)) = Len(q) + 1 /\ Len(q) \in Nat
        /\ \A i \in 1..Len(q) : Append(q, x)[i] = q[i]
        /\ Append(q, x)[Len(q) + 1] = x
    BY AppendProperties, LenProperties
  <1>2. 1..(Len(q) + 1) = (1..Len(q)) \cup {Len(q) + 1}
    BY <1>1
  <1>3. Elements(Append(q, x)) = Elements(q) \cup {x}
    BY <1>1, <1>2 DEF Elements
  <1>4. ASSUME Distinct(q), x \notin Elements(q) PROVE Distinct(Append(q, x))
    BY <1>1, <1>2, <1>4 DEF Elements, Distinct
  <1> QED BY <1>3, <1>4

LEMMA TailElements ==
    ASSUME NEW S, NEW q \in Seq(S), q # <<>>
    PROVE  /\ Head(q) \in Elements(q) /\ Head(q) \in S
           /\ Elements(q) = Elements(Tail(q)) \cup {Head(q)}
           /\ Distinct(q) => /\ Elements(Tail(q)) = Elements(q) \ {Head(q)}
                             /\ Distinct(Tail(q))
  <1>1. /\ Len(q) \in Nat /\ Len(q) > 0 /\ Head(q) = q[1] /\ Head(q) \in S
        /\ Len(Tail(q)) = Len(q) - 1
        /\ \A i \in 1..Len(Tail(q)) : Tail(q)[i] = q[i + 1]
    BY HeadTailProperties, LenProperties, EmptySeq
  <1>2. Head(q) \in Elements(q)
    BY <1>1 DEF Elements
  <1>3. Elements(q) = Elements(Tail(q)) \cup {Head(q)}
    <2>1. ASSUME NEW i \in 1..Len(q), i # 1
          PROVE  i - 1 \in 1..Len(Tail(q)) /\ q[i] = Tail(q)[i - 1]
      <3>1. i - 1 \in 1..Len(Tail(q)) /\ (i - 1) + 1 = i
        BY <1>1, <2>1
      <3> QED BY <1>1, <3>1
    <2>2. \A i \in 1..Len(Tail(q)) : i + 1 \in 1..Len(q) /\ Tail(q)[i] = q[i + 1]
      BY <1>1
    <2>3. Elements(Tail(q)) \subseteq Elements(q)
      BY <2>2 DEF Elements
    <2>4. \A i \in 1..Len(q) : q[i] \in Elements(Tail(q)) \cup {Head(q)}
      BY <1>1, <2>1 DEF Elements
    <2>5. Elements(q) \subseteq Elements(Tail(q)) \cup {Head(q)}
      BY <2>4 DEF Elements
    <2> QED BY <1>2, <2>3, <2>5
  <1>4. ASSUME Distinct(q)
        PROVE  Head(q) \notin Elements(Tail(q)) /\ Distinct(Tail(q))
    BY <1>1, <1>4 DEF Elements, Distinct
  <1> QED BY <1>1, <1>2, <1>3, <1>4

LEMMA HandsPick ==
    ASSUME OnePlace, TypeOK, NEW t \in Threads, item[t] = Null,
           NEW x \in Queries \cup Buffers, x \notin Hands,
           item' = [item EXCEPT ![t] = x]
    PROVE  /\ Hands' = Hands \cup {x}
           /\ \A u, v \in Threads : u # v => item'[u] # item'[v] \/ item'[u] = Null
  <1>1. item \in [Threads -> Queries \cup Buffers \cup {Null}] /\ x # Null
    BY ThreadFacts DEF TypeOK
  <1>2. \A u \in Threads : item'[u] = IF u = t THEN x ELSE item[u]
    BY <1>1
  <1>3. Hands' = Hands \cup {x}
    BY <1>1, <1>2 DEF Hands
  <1>4. \A u \in Threads : item[u] # x
    BY <1>1 DEF Hands
  <1>5. \A u, v \in Threads : u # v => item[u] # item[v] \/ item[u] = Null
    BY DEF OnePlace
  <1> QED BY <1>2, <1>3, <1>4, <1>5

LEMMA HandsDrop ==
    ASSUME OnePlace, TypeOK, NEW t \in Threads, item[t] # Null,
           item' = [item EXCEPT ![t] = Null]
    PROVE  /\ item[t] \in Hands /\ Hands' = Hands \ {item[t]}
           /\ \A u, v \in Threads : u # v => item'[u] # item'[v] \/ item'[u] = Null
  <1>1. item \in [Threads -> Queries \cup Buffers \cup {Null}]
    BY DEF TypeOK
  <1>2. \A u \in Threads : item'[u] = IF u = t THEN Null ELSE item[u]
    BY <1>1
  <1>3. \A u, v \in Threads : u # v => item[u] # item[v] \/ item[u] = Null
    BY DEF OnePlace
  <1>4. item[t] \in Hands /\ Hands' = Hands \ {item[t]}
    BY <1>2, <1>3 DEF Hands
  <1> QED BY <1>2, <1>3, <1>4

-----------------------------------------------------------------------------------
(* An item moves.                                                          *)

\* A step that leaves the items alone.
LEMMA NothingMoves ==
    ASSUME OnePlace,
           UNCHANGED <<item, queries_queue, query_buffer, executed, performed, fresh>>
    PROVE  OnePlace'
  <1>1. Hands' = Hands /\ Queued' = Queued /\ Ran' = Ran
    BY DEF Hands, Queued, Ran
  <1> QED BY <1>1 DEF OnePlace

\* Into a thread's hands, by its caller, ...
LEMMA CallMoves ==
    ASSUME OnePlace, TypeOK, NEW t \in Threads, item[t] = Null,
           NEW x \in fresh, fresh' = fresh \ {x},
           item' = [item EXCEPT ![t] = x],
           UNCHANGED <<queries_queue, query_buffer, executed, performed>>
    PROVE  OnePlace'
  <1>1. x \in Queries \cup Buffers /\ x \notin Hands \cup Queued \cup Ran
    BY DEF OnePlace
  <1>2. /\ Hands' = Hands \cup {x}
        /\ \A u, v \in Threads : u # v => item'[u] # item'[v] \/ item'[u] = Null
    BY <1>1, HandsPick
  <1>3. Queued' = Queued /\ Ran' = Ran
    BY DEF Queued, Ran
  <1>4. Distinct(queries_queue)' /\ Distinct(query_buffer)' /\ Distinct(executed)'
    BY DEF OnePlace
  <1> QED BY <1>1, <1>2, <1>3, <1>4 DEF OnePlace

\* ... from its hands into a queue, ...
LEMMA PushMoves ==
    ASSUME OnePlace, TypeOK, NEW t \in Threads, item[t] # Null,
           item' = [item EXCEPT ![t] = Null],
           IF item[t] \in Queries
           THEN /\ queries_queue' = Append(queries_queue, item[t])
                /\ query_buffer' = query_buffer
           ELSE /\ query_buffer' = Append(query_buffer, item[t])
                /\ queries_queue' = queries_queue,
           UNCHANGED <<executed, performed, fresh>>
    PROVE  OnePlace'
  <1> DEFINE x == item[t]
  <1>1. /\ queries_queue \in Seq(Queries) /\ query_buffer \in Seq(Buffers)
        /\ x \in Queries \cup Buffers
    BY DEF TypeOK
  <1>2. /\ x \in Hands /\ Hands' = Hands \ {x}
        /\ \A u, v \in Threads : u # v => item'[u] # item'[v] \/ item'[u] = Null
    BY HandsDrop
  <1>3. x \notin Queued \cup Ran \cup fresh
    BY <1>2 DEF OnePlace
  <1>4. x \notin Elements(queries_queue) /\ x \notin Elements(query_buffer)
    BY <1>3 DEF Queued
  <1>5. /\ Queued' = Queued \cup {x}
        /\ Distinct(queries_queue)' /\ Distinct(query_buffer)'
    <2>1. CASE x \in Queries
      <3>1. queries_queue' = Append(queries_queue, x) /\ query_buffer' = query_buffer
        BY <2>1
      <3>2. Distinct(queries_queue) /\ Distinct(query_buffer) /\ x \in Queries
        BY <1>1, <2>1 DEF OnePlace
      <3> HIDE DEF x
      <3>3. /\ Elements(Append(queries_queue, x)) = Elements(queries_queue) \cup {x}
            /\ Distinct(Append(queries_queue, x))
        BY <1>1, <1>4, <3>2, AppendElements
      <3> QED BY <3>1, <3>2, <3>3 DEF Queued
    <2>2. CASE x \notin Queries
      <3>1. query_buffer' = Append(query_buffer, x) /\ queries_queue' = queries_queue
        BY <2>2
      <3>2. Distinct(query_buffer) /\ Distinct(queries_queue) /\ x \in Buffers
        BY <1>1, <2>2 DEF OnePlace
      <3> HIDE DEF x
      <3>3. /\ Elements(Append(query_buffer, x)) = Elements(query_buffer) \cup {x}
            /\ Distinct(Append(query_buffer, x))
        BY <1>1, <1>4, <3>2, AppendElements
      <3> QED BY <3>1, <3>2, <3>3 DEF Queued
    <2> QED BY <2>1, <2>2
  <1>6. Ran' = Ran /\ Distinct(executed)'
    BY DEF Ran, OnePlace
  <1> HIDE DEF x
  <1> QED BY <1>2, <1>3, <1>5, <1>6 DEF OnePlace

\* ... from a queue into the hands of the thread that pops it, ...
LEMMA PopMoves ==
    ASSUME OnePlace, TypeOK, NEW t \in Threads, item[t] = Null,
           \/ /\ queries_queue # <<>>
              /\ item' = [item EXCEPT ![t] = Head(queries_queue)]
              /\ queries_queue' = Tail(queries_queue)
              /\ query_buffer' = query_buffer
           \/ /\ query_buffer # <<>>
              /\ item' = [item EXCEPT ![t] = Head(query_buffer)]
              /\ query_buffer' = Tail(query_buffer)
              /\ queries_queue' = queries_queue,
           UNCHANGED <<executed, performed, fresh>>
    PROVE  OnePlace'
  <1>1. /\ queries_queue \in Seq(Queries) /\ query_buffer \in Seq(Buffers)
        /\ Distinct(queries_queue) /\ Distinct(query_buffer)
    BY DEF TypeOK, OnePlace
  <1>2. Elements(queries_queue) \cap Elements(query_buffer) = {}
    <2>1. /\ Elements(queries_queue) \subseteq Queries
          /\ Elements(query_buffer) \subseteq Buffers
      BY <1>1, ElementOfSeq DEF Elements
    <2> QED BY <2>1, ThreadFacts
  <1>3. \E x \in Queries \cup Buffers :
            /\ x \in Queued /\ Queued' = Queued \ {x}
            /\ item' = [item EXCEPT ![t] = x]
            /\ Distinct(queries_queue)' /\ Distinct(query_buffer)'
    <2>1. CASE queries_queue # <<>> /\ item' = [item EXCEPT ![t] = Head(queries_queue)]
               /\ queries_queue' = Tail(queries_queue) /\ query_buffer' = query_buffer
      <3> DEFINE x == Head(queries_queue)
      <3>1. /\ x \in Elements(queries_queue) /\ x \in Queries
            /\ Elements(Tail(queries_queue)) = Elements(queries_queue) \ {x}
            /\ Distinct(Tail(queries_queue))
        BY <1>1, <2>1, TailElements
      <3>2. Queued' = Queued \ {x} /\ x \in Queued
        BY <1>2, <2>1, <3>1 DEF Queued
      <3>3. Distinct(queries_queue)' /\ Distinct(query_buffer)'
        BY <1>1, <2>1, <3>1
      <3> QED BY <2>1, <3>1, <3>2, <3>3
    <2>2. CASE query_buffer # <<>> /\ item' = [item EXCEPT ![t] = Head(query_buffer)]
               /\ query_buffer' = Tail(query_buffer) /\ queries_queue' = queries_queue
      <3> DEFINE x == Head(query_buffer)
      <3>1. /\ x \in Elements(query_buffer) /\ x \in Buffers
            /\ Elements(Tail(query_buffer)) = Elements(query_buffer) \ {x}
            /\ Distinct(Tail(query_buffer))
        BY <1>1, <2>2, TailElements
      <3>2. Queued' = Queued \ {x} /\ x \in Queued
        BY <1>2, <2>2, <3>1 DEF Queued
      <3>3. Distinct(queries_queue)' /\ Distinct(query_buffer)'
        BY <1>1, <2>2, <3>1
      <3> QED BY <2>2, <3>1, <3>2, <3>3
    <2> QED BY <2>1, <2>2
  <1>4. PICK x \in Queries \cup Buffers :
            /\ x \in Queued /\ Queued' = Queued \ {x}
            /\ item' = [item EXCEPT ![t] = x]
            /\ Distinct(queries_queue)' /\ Distinct(query_buffer)'
    BY <1>3
  <1>5. x \notin Hands \cup Ran \cup fresh
    BY <1>4 DEF OnePlace
  <1>6. /\ Hands' = Hands \cup {x}
        /\ \A u, v \in Threads : u # v => item'[u] # item'[v] \/ item'[u] = Null
    BY <1>4, <1>5, HandsPick
  <1>7. Ran' = Ran /\ Distinct(executed)'
    BY DEF Ran, OnePlace
  <1> QED BY <1>4, <1>5, <1>6, <1>7 DEF OnePlace

\* ... and from its hands to what has run.
LEMMA RunMoves ==
    ASSUME OnePlace, TypeOK, NEW t \in Threads, item[t] # Null,
           item' = [item EXCEPT ![t] = Null],
           \/ /\ item[t] \in Queries /\ executed' = Append(executed, item[t])
              /\ performed' = performed
           \/ /\ performed' = performed \cup {item[t]}
              /\ executed' = executed,
           UNCHANGED <<queries_queue, query_buffer, fresh>>
    PROVE  OnePlace'
  <1> DEFINE x == item[t]
  <1>1. executed \in Seq(Queries)
    BY DEF TypeOK
  <1>2. /\ x \in Hands /\ Hands' = Hands \ {x}
        /\ \A u, v \in Threads : u # v => item'[u] # item'[v] \/ item'[u] = Null
    BY HandsDrop
  <1>3. x \notin Queued \cup Ran \cup fresh
    BY <1>2 DEF OnePlace
  <1>4. Ran' = Ran \cup {x} /\ Distinct(executed)'
    <2>1. CASE x \in Queries /\ executed' = Append(executed, x)
                 /\ performed' = performed
      <3>1. x \notin Elements(executed) /\ Distinct(executed)
        BY <1>3 DEF Ran, OnePlace
      <3>2. /\ Elements(executed)' = Elements(executed) \cup {x}
            /\ Distinct(executed)'
        BY <1>1, <2>1, <3>1, AppendElements
      <3> QED BY <2>1, <3>2 DEF Ran
    <2>2. CASE performed' = performed \cup {x} /\ executed' = executed
      BY <2>2 DEF Ran, OnePlace
    <2> QED BY <2>1, <2>2
  <1>5. Queued' = Queued /\ Distinct(queries_queue)' /\ Distinct(query_buffer)'
    BY DEF Queued, OnePlace
  <1> HIDE DEF x
  <1> QED BY <1>2, <1>3, <1>4, <1>5 DEF OnePlace
-----------------------------------------------------------------------------------
(* What a step of thread t does with the items.                            *)

Calls(t) ==
    /\ t \in Callers /\ item[t] = Null /\ pc'[t] \in Carrying
    /\ \E x \in fresh : fresh' = fresh \ {x} /\ item' = [item EXCEPT ![t] = x]
    /\ UNCHANGED <<queries_queue, query_buffer, submitted, executed, performed,
                   stopping>>

ToQueue(t) ==
    /\ item[t] # Null /\ pc'[t] \notin Carrying
    /\ item' = [item EXCEPT ![t] = Null]
    /\ IF item[t] \in Queries
       THEN /\ queries_queue' = Append(queries_queue, item[t])
            /\ query_buffer' = query_buffer
       ELSE /\ query_buffer' = Append(query_buffer, item[t])
            /\ queries_queue' = queries_queue
    /\ UNCHANGED <<executed, performed, fresh, stopping>>

Pushes(t) ==
    /\ t \in Callers /\ pc[t] = "push" /\ ToQueue(t)
    /\ submitted' = IF item[t] \in Queries THEN Append(submitted, item[t])
                    ELSE submitted

PushesBack(t) ==
    /\ t = Main /\ pc[t] = "pushBack" /\ ToQueue(t)
    /\ stopping # "no" /\ UNCHANGED submitted

Pops(t) ==
    /\ item[t] = Null /\ pc'[t] \in Carrying
    /\ \/ /\ t \in {ExecThread, Main} /\ queries_queue # <<>>
          /\ item' = [item EXCEPT ![t] = Head(queries_queue)]
          /\ queries_queue' = Tail(queries_queue)
          /\ query_buffer' = query_buffer
       \/ /\ t # ExecThread /\ query_buffer # <<>>
          /\ item' = [item EXCEPT ![t] = Head(query_buffer)]
          /\ query_buffer' = Tail(query_buffer)
          /\ queries_queue' = queries_queue
    /\ t = Main => pc'[t] = "pushBack" /\ stopping # "no"
    /\ UNCHANGED <<submitted, executed, performed, fresh, stopping>>

Runs(t) ==
    /\ item[t] # Null /\ pc[t] \in Sending /\ pc'[t] \notin Carrying
    /\ item' = [item EXCEPT ![t] = Null]
    /\ \/ /\ item[t] \in Queries /\ executed' = Append(executed, item[t])
          /\ performed' = performed
       \/ /\ item[t] \in Buffers /\ performed' = performed \cup {item[t]}
          /\ executed' = executed
    /\ UNCHANGED <<queries_queue, query_buffer, submitted, fresh, stopping>>

Rests(t) ==
    /\ pc'[t] \notin Carrying => item[t] = Null
    /\ pc[t] # "pushBack"
    /\ UNCHANGED <<item, queries_queue, query_buffer, submitted, executed, performed,
                   fresh>>
    /\ stopping' = "no" => stopping = "no"

Effect(t) ==
    /\ \/ Calls(t) \/ Pushes(t) \/ PushesBack(t) \/ Pops(t) \/ Runs(t) \/ Rests(t)
    /\ \A u \in Threads : u # t => pc'[u] = pc[u]

LEMMA HandingEffect ==
    ASSUME IInv, HandsEmpty, MainCloses, NEW t \in Threads, Handing(t)
    PROVE  Effect(t)
  <1>1. /\ UNCHANGED <<performed, executed>> /\ pc' \in [Threads -> PCs]
        /\ \A u \in Threads : u # t => pc'[u] = pc[u]
    BY HandingFrame DEF bufferVars
  <1>2. /\ item \in [Threads -> Queries \cup Buffers \cup {Null}]
        /\ pc \in [Threads -> PCs]
    BY DEF IInv, TypeOK
  <1>3. /\ pc[t] \in Carrying => item[t] # Null
        /\ pc[t] \notin Carrying => item[t] = Null
    BY DEF IInv, HandsFull, HandsEmpty
  <1> USE <1>1, <1>2, <1>3 DEF Goto, Hold, Carrying, dbVars, bufferVars, queueVars,
                                     stateVars
  <1>4. CASE Call(t) /\ t \in Callers
    <2>1. Calls(t)
      BY <1>4 DEF Call, Execute, WaitExecute, AddQueryBuffer, Calls
    <2> QED BY <2>1 DEF Effect
  <1>5. CASE t \in Callers /\ PushItem(t)
    <2>1. Pushes(t)
      BY <1>5 DEF PushItem, Push, Pushes, ToQueue
    <2> QED BY <2>1 DEF Effect
  <1>6. CASE t \in Services /\ (Take(t) \/ Drain(t))
    <2>1. t # Main /\ t \in {ExecThread, QueryThread}
      BY <1>6, ThreadFacts DEF Services
    <2>2. CASE Take(t) \/ (Drain(t) /\ OwnQueue(t) # <<>>)
      <3>1. Pops(t)
        BY <1>6, <2>1, <2>2, ThreadFacts DEF Take, Drain, Pop, Popped, OwnQueue, Pops
      <3> QED BY <3>1 DEF Effect
    <2>3. CASE Drain(t) /\ OwnQueue(t) = <<>>
      <3>1. Rests(t)
        BY <1>6, <2>1, <2>3 DEF Drain, Rests
      <3> QED BY <3>1 DEF Effect
    <2> QED BY <1>6, <2>2, <2>3
  <1>7. CASE t \in Services /\ Finish(t)
    <2>1. Rests(t)
      BY <1>7 DEF Finish, Rests
    <2> QED BY <2>1 DEF Effect
  <1>8. CASE t = Main /\ (EndThreads \/ Join)
    <2>1. Rests(t)
      BY <1>8 DEF EndThreads, Join, Rests
    <2> QED BY <2>1 DEF Effect
  <1>9. CASE t = Main /\ PushBack
    <2>1. PushesBack(t)
      BY <1>9 DEF PushBack, Push, PushesBack, ToQueue, MainCloses
    <2> QED BY <2>1 DEF Effect
  <1>10. CASE t = Main /\ (SpinBuffers \/ SpinQueries)
    <2>1. CASE SpinBuffers /\ query_buffer # <<>>
      <3>1. Pops(t)
        <4>1. /\ pc[t] = "spinBuffers" /\ stopping # "no" /\ pc'[t] = "pushBack"
              /\ item' = [item EXCEPT ![t] = Head(query_buffer)]
              /\ query_buffer' = Tail(query_buffer)
          BY <1>10, <2>1 DEF SpinBuffers, Popped, MainCloses
        <4>2. UNCHANGED <<queries_queue, submitted, fresh, stopping>>
          BY <2>1 DEF SpinBuffers
        <4>3. item[t] = Null /\ pc'[t] \in Carrying /\ t # ExecThread
          BY <1>10, <4>1, ThreadFacts DEF Services
        <4> QED BY <2>1, <4>1, <4>2, <4>3 DEF Pops
      <3> QED BY <3>1 DEF Effect
    <2>2. CASE SpinQueries /\ queries_queue # <<>>
      <3>1. Pops(t)
        BY <1>10, <2>2, ThreadFacts DEF SpinQueries, Popped, Pops, MainCloses
      <3> QED BY <3>1 DEF Effect
    <2>3. CASE \/ SpinBuffers /\ query_buffer = <<>>
               \/ SpinQueries /\ queries_queue = <<>>
      <3>1. Rests(t)
        BY <1>10, <2>3 DEF SpinBuffers, SpinQueries, Rests
      <3> QED BY <3>1 DEF Effect
    <2> QED BY <1>10, <2>1, <2>2, <2>3
  <1> QED BY <1>4, <1>5, <1>6, <1>7, <1>8, <1>9, <1>10 DEF Handing

LEMMA StepEffect ==
    ASSUME IInv, HandsEmpty, MainCloses, Next
    PROVE  \E t \in Threads : Effect(t)
  <1>1. PICK t \in Threads :
              \/ Handing(t) \/ Connect(t) \/ Freeing(t)
              \/ SendQuery(t) \/ BufferStep(t)
    BY StepKinds
  <1>2. /\ item \in [Threads -> Queries \cup Buffers \cup {Null}]
        /\ pc \in [Threads -> PCs]
    BY DEF IInv, TypeOK
  <1>3. /\ pc[t] \in Carrying => item[t] # Null
        /\ pc[t] \notin Carrying => item[t] = Null
    BY DEF IInv, HandsFull, HandsEmpty
  <1>4. CASE Handing(t)
    BY <1>4, HandingEffect
  <1>5. CASE Connect(t)
    <2>1. Rests(t)
      BY <1>2, <1>3, <1>5
         DEF Connect, Goto, Rests, Carrying, dbVars, bufferVars, queueVars,
             stateVars
    <2>2. \A u \in Threads : u # t => pc'[u] = pc[u]
      BY <1>2, <1>5 DEF Connect, Goto
    <2> QED BY <2>1, <2>2 DEF Effect
  <1>6. CASE Freeing(t)
    <2>1. Rests(t) /\ \A u \in Threads : u # t => pc'[u] = pc[u]
      BY <1>3, <1>6, FreeingFrame
         DEF Rests, Carrying, dbVars, bufferVars, queueVars, stateVars
    <2> QED BY <2>1 DEF Effect
  <1>7. CASE SendQuery(t)
    <2>1. Runs(t)
      BY <1>2, <1>3, <1>7, ThreadFacts
         DEF SendQuery, Done, Goto, Hold, Runs, Carrying, Sending, bufferVars,
             queueVars, stateVars
    <2>2. \A u \in Threads : u # t => pc'[u] = pc[u]
      BY <1>2, <1>7 DEF SendQuery, Goto
    <2> QED BY <2>1, <2>2 DEF Effect
  <1>8. CASE BufferStep(t)
    <2>1. Runs(t) \/ Rests(t)
      BY <1>2, <1>3, <1>8, BufferFrame, ThreadFacts
         DEF Runs, Rests, Carrying, Sending, queueVars, stateVars
    <2>2. \A u \in Threads : u # t => pc'[u] = pc[u]
      BY <1>2, <1>8, BufferFrame
    <2> QED BY <2>1, <2>2 DEF Effect
  <1> QED BY <1>1, <1>4, <1>5, <1>6, <1>7, <1>8
-----------------------------------------------------------------------------------
(* The items are kept.                                                     *)

LEMMA EffectKeeps ==
    ASSUME IInv, IInv', Kept, NEW t \in Threads, Effect(t)
    PROVE  Kept'
  <1>1. /\ TypeOK /\ OnePlace /\ HandsEmpty
        /\ item \in [Threads -> Queries \cup Buffers \cup {Null}]
        /\ queries_queue \in Seq(Queries) /\ query_buffer \in Seq(Buffers)
    BY DEF IInv, TypeOK, Kept
  <1>2. \A u \in Threads : u # t => pc'[u] = pc[u]
    BY DEF Effect
  <1>3. HandsEmpty'
    <2>1. CASE Rests(t)
      BY <1>1, <1>2, <2>1 DEF Rests, HandsEmpty
    <2>2. CASE ~Rests(t)
      <3>1. /\ \A u \in Threads : u # t => item'[u] = item[u]
            /\ pc'[t] \notin Carrying => item'[t] = Null
        BY <1>1, <2>2 DEF Effect, Calls, Pushes, PushesBack, ToQueue, Pops, Runs
      <3> QED BY <1>1, <1>2, <3>1 DEF HandsEmpty
    <2> QED BY <2>1, <2>2
  <1>4. OnePlace'
    <2>1. CASE Calls(t)
      BY <1>1, <2>1, CallMoves DEF Calls
    <2>2. CASE Pushes(t) \/ PushesBack(t)
      BY <1>1, <2>2, PushMoves DEF Pushes, PushesBack, ToQueue
    <2>3. CASE Pops(t)
      BY <1>1, <2>3, PopMoves DEF Pops
    <2>4. CASE Runs(t)
      BY <1>1, <2>4, RunMoves DEF Runs
    <2>5. CASE Rests(t)
      BY <1>1, <2>5, NothingMoves DEF Rests
    <2> QED BY <2>1, <2>2, <2>3, <2>4, <2>5 DEF Effect
  <1> QED BY <1>3, <1>4 DEF Kept

LEMMA InitKept == Init => Kept
  <1> SUFFICES ASSUME Init PROVE Kept
    OBVIOUS
  <1>1. HandsEmpty
    BY DEF Init, HandsEmpty
  <1>2. Hands = {} /\ Queued = {} /\ Ran = {}
    BY DEF Init, Hands, Queued, Ran, Elements
  <1>3. Distinct(queries_queue) /\ Distinct(query_buffer) /\ Distinct(executed)
    BY DEF Init, Distinct
  <1>4. fresh = Queries \cup Buffers /\ \A t \in Threads : item[t] = Null
    BY DEF Init
  <1> QED BY <1>1, <1>2, <1>3, <1>4 DEF Kept, OnePlace

-----------------------------------------------------------------------------------
(* The order of the queries.                                               *)

LEMMA NextMainCloses ==
    ASSUME IInv, MainCloses, Next
    PROVE  MainCloses'
  <1>1. PICK t \in Threads :
              \/ Handing(t) \/ Connect(t) \/ Freeing(t)
              \/ SendQuery(t) \/ BufferStep(t)
    BY StepKinds
  <1>2. pc \in [Threads -> PCs] /\ Main \in Threads /\ Main \notin Services
    BY ThreadFacts DEF IInv, TypeOK
  <1> USE DEF MainCloses, Goto, stateVars
  <1>3. CASE Handing(t)
    <2>1. CASE t = Main /\ (EndThreads \/ SpinBuffers \/ SpinQueries \/ PushBack \/ Join)
      BY <1>2, <2>1 DEF EndThreads, SpinBuffers, SpinQueries, PushBack, Join
    <2>2. CASE Call(t)
      BY <1>2, <2>2 DEF Call, Execute, WaitExecute, AddQueryBuffer
    <2>3. CASE PushItem(t)
      BY <1>2, <2>3 DEF PushItem
    <2>4. CASE t \in Services /\ (Take(t) \/ Drain(t) \/ Finish(t))
      BY <1>2, <2>4 DEF Take, Drain, Finish
    <2> QED BY <1>3, <2>1, <2>2, <2>3, <2>4 DEF Handing
  <1>4. CASE Connect(t)
    BY <1>2, <1>4 DEF Connect
  <1>5. CASE Freeing(t)
    BY <1>2, <1>5, FreeingFrame
  <1>6. CASE SendQuery(t)
    BY <1>2, <1>6 DEF SendQuery, Done
  <1>7. CASE BufferStep(t)
    BY <1>2, <1>7, BufferFrame DEF stateVars
  <1> QED BY <1>1, <1>3, <1>4, <1>5, <1>6, <1>7

LEMMA EffectSubmittedStay ==
    ASSUME IInv, SubmittedStay, NEW t \in Threads, Effect(t)
    PROVE  SubmittedStay'
  <1>1. /\ item \in [Threads -> Queries \cup Buffers \cup {Null}]
        /\ queries_queue \in Seq(Queries) /\ submitted \in Seq(Queries)
        /\ executed \in Seq(Queries)
        /\ \A u \in Threads : u # t => pc'[u] = pc[u]
    BY DEF IInv, TypeOK, Effect
  <1>2. Main \in Threads /\ ExecThread \in Threads /\ Main # ExecThread
        /\ ExecThread \notin Callers
    BY ThreadFacts, DatabaseAssumption DEF Services, Callers, DatabaseAssumption
  <1>3. Elements(submitted) \subseteq Queries
    BY <1>1, ElementOfSeq DEF Elements
  <1>4. CASE Calls(t)
    <2>1. UNCHANGED <<submitted, queries_queue, executed>>
      BY <1>4 DEF Calls
    <2>2. t # ExecThread /\ item[t] = Null
      BY <1>2, <1>4 DEF Calls
    <2>3. item'[ExecThread] = item[ExecThread]
      BY <1>1, <1>2, <1>4, <2>2 DEF Calls
    <2>4. InMainsHands \subseteq InMainsHands' \cup {Null}
      BY <1>1, <1>2, <1>4, <2>2 DEF Calls, InMainsHands
    <2> QED BY <1>3, <2>1, <2>3, <2>4, ThreadFacts DEF SubmittedStay
  <1>5. CASE Pushes(t)
    <2>1. t # ExecThread /\ executed' = executed /\ pc[t] # "pushBack"
      BY <1>2, <1>5 DEF Pushes, ToQueue
    <2>2. /\ item'[ExecThread] = item[ExecThread]
          /\ InMainsHands \subseteq InMainsHands'
      BY <1>1, <1>2, <1>5, <2>1 DEF Pushes, ToQueue, InMainsHands
    <2>3. \/ UNCHANGED <<submitted, queries_queue>>
          \/ \E q \in Queries : /\ submitted' = Append(submitted, q)
                                /\ queries_queue' = Append(queries_queue, q)
      BY <1>5 DEF Pushes, ToQueue
    <2>4. CASE UNCHANGED <<submitted, queries_queue>>
      BY <2>1, <2>2, <2>4 DEF SubmittedStay
    <2>5. ASSUME NEW q \in Queries, submitted' = Append(submitted, q),
                 queries_queue' = Append(queries_queue, q)
          PROVE  SubmittedStay'
      <3>1. /\ Elements(Append(submitted, q)) = Elements(submitted) \cup {q}
            /\ Elements(Append(queries_queue, q)) = Elements(queries_queue) \cup {q}
        BY <1>1, AppendElements
      <3> QED BY <2>1, <2>2, <2>5, <3>1 DEF SubmittedStay
    <2> QED BY <2>3, <2>4, <2>5
  <1>6. CASE PushesBack(t)
    <2>1. /\ t = Main /\ pc[Main] = "pushBack" /\ UNCHANGED <<submitted, executed>>
          /\ item' = [item EXCEPT ![Main] = Null]
      BY <1>6 DEF PushesBack, ToQueue
    <2>2. item'[ExecThread] = item[ExecThread]
      BY <1>1, <1>2, <2>1
    <2>3. CASE item[Main] \in Queries
      <3>1. queries_queue' = Append(queries_queue, item[Main])
        BY <1>6, <2>1, <2>3 DEF PushesBack, ToQueue
      <3>2. Elements(Append(queries_queue, item[Main]))
              = Elements(queries_queue) \cup {item[Main]}
        BY <1>1, <2>3, AppendElements
      <3> QED BY <2>1, <2>2, <3>1, <3>2 DEF SubmittedStay, InMainsHands
    <2>4. CASE item[Main] \notin Queries
      <3>1. queries_queue' = queries_queue
        BY <1>6, <2>1, <2>4 DEF PushesBack, ToQueue
      <3> QED BY <1>3, <2>1, <2>2, <2>4, <3>1 DEF SubmittedStay, InMainsHands
    <2> QED BY <2>3, <2>4
  <1>7. CASE Pops(t)
    <2>1. UNCHANGED <<submitted, executed>> /\ item[t] = Null
      BY <1>7 DEF Pops
    <2>2. CASE /\ t \in {ExecThread, Main} /\ queries_queue # <<>>
               /\ item' = [item EXCEPT ![t] = Head(queries_queue)]
               /\ queries_queue' = Tail(queries_queue)
      <3>1. Elements(queries_queue)
              = Elements(Tail(queries_queue)) \cup {Head(queries_queue)}
        BY <1>1, <2>2, TailElements
      <3>2. t = Main => pc'[Main] = "pushBack"
        BY <1>7 DEF Pops
      <3>3. /\ item[ExecThread] \in {item'[ExecThread], Null}
            /\ InMainsHands \subseteq InMainsHands' \cup {Null}
            /\ Head(queries_queue) \in {item'[ExecThread]} \cup InMainsHands'
        BY <1>1, <1>2, <2>1, <2>2, <3>2 DEF InMainsHands
      <3> QED BY <1>3, <2>1, <2>2, <3>1, <3>3, ThreadFacts DEF SubmittedStay
    <2>3. CASE t # ExecThread /\ queries_queue' = queries_queue
      <3>1. \A u \in Threads : u # t => item'[u] = item[u]
        BY <1>1, <1>7, <2>3 DEF Pops
      <3>2. /\ item'[ExecThread] = item[ExecThread]
            /\ InMainsHands \subseteq InMainsHands' \cup {Null}
        BY <1>1, <1>2, <2>1, <2>3, <3>1 DEF InMainsHands
      <3> QED BY <1>3, <2>1, <2>3, <3>2, ThreadFacts DEF SubmittedStay
    <2> QED BY <1>7, <2>2, <2>3 DEF Pops
  <1>8. CASE Runs(t)
    <2>1. /\ UNCHANGED <<submitted, queries_queue>> /\ pc[t] # "pushBack"
          /\ item' = [item EXCEPT ![t] = Null]
      BY <1>8 DEF Runs, Sending
    <2>2. InMainsHands \subseteq InMainsHands'
      BY <1>1, <1>2, <2>1 DEF InMainsHands
    <2>3. CASE item[t] \in Queries /\ executed' = Append(executed, item[t])
      <3>1. Elements(Append(executed, item[t])) = Elements(executed) \cup {item[t]}
        BY <1>1, <2>3, AppendElements
      <3>2. item[ExecThread] \in {item'[ExecThread], item[t]}
        BY <1>1, <1>2, <2>1
      <3> QED BY <2>1, <2>2, <2>3, <3>1, <3>2 DEF SubmittedStay
    <2>4. CASE item[t] \in Buffers /\ executed' = executed
      <3>1. item[ExecThread] \in {item'[ExecThread]} \cup Buffers
        BY <1>1, <1>2, <2>1, <2>4
      <3> QED BY <1>3, <2>1, <2>2, <2>4, <3>1, ThreadFacts DEF SubmittedStay
    <2> QED BY <1>8, <2>3, <2>4 DEF Runs
  <1>9. CASE Rests(t)
    <2>1. UNCHANGED <<submitted, queries_queue, executed, item>> /\ pc[t] # "pushBack"
      BY <1>9 DEF Rests
    <2>2. InMainsHands \subseteq InMainsHands'
      BY <1>1, <1>2, <2>1 DEF InMainsHands
    <2> QED BY <2>1, <2>2 DEF SubmittedStay
  <1> QED BY <1>4, <1>5, <1>6, <1>7, <1>8, <1>9 DEF Effect
LEMMA EffectInOrder ==
    ASSUME IInv, OnePlace, InOrder, NEW t \in Threads, Effect(t)
    PROVE  InOrder'
  <1> SUFFICES ASSUME stopping' = "no" PROVE InOrder'
    BY DEF InOrder
  <1>1. /\ item \in [Threads -> Queries \cup Buffers \cup {Null}]
        /\ queries_queue \in Seq(Queries) /\ submitted \in Seq(Queries)
        /\ executed \in Seq(Queries)
        /\ Len(queries_queue) \in Nat /\ Len(submitted) \in Nat
    BY LenProperties DEF IInv, TypeOK
  <1>2. Main \in Threads /\ ExecThread \in Threads /\ Main # ExecThread
        /\ ExecThread \notin Callers
    BY ThreadFacts, DatabaseAssumption DEF Services, Callers, DatabaseAssumption
  <1>3. stopping = "no"
    BY DEF Effect, Calls, Pushes, PushesBack, ToQueue, Pops, Runs, Rests
  <1>4. /\ Passed \in Nat
        /\ \A i \in 1..Len(queries_queue) : queries_queue[i] = submitted[Passed + i]
        /\ item[ExecThread] # Null
              => Passed > 0 /\ item[ExecThread] = submitted[Passed]
        /\ \A i \in 1..Passed :
              \/ submitted[i] \in Elements(executed)
              \/ i = Passed /\ item[ExecThread] # Null
    BY <1>3 DEF InOrder
  <1>5. \A i \in 1..Len(submitted) : submitted[i] \in Queries
    BY <1>1, ElementOfSeq
  <1>6. ASSUME UNCHANGED <<submitted, queries_queue>>,
               item'[ExecThread] = item[ExecThread],
               Elements(executed) \subseteq Elements(executed')
        PROVE  InOrder'
    <2>1. Passed' = Passed
      BY <1>6 DEF Passed
    <2> QED BY <1>4, <1>6, <2>1 DEF InOrder
  <1>7. CASE Calls(t) \/ Rests(t)
    <2>1. UNCHANGED <<submitted, queries_queue, executed>>
      BY <1>7 DEF Calls, Rests
    <2>2. item'[ExecThread] = item[ExecThread]
      BY <1>1, <1>2, <1>7 DEF Calls, Rests
    <2> QED BY <1>6, <2>1, <2>2
  <1>8. CASE Pushes(t)
    <2>1. executed' = executed /\ item'[ExecThread] = item[ExecThread]
      BY <1>1, <1>2, <1>8 DEF Pushes, ToQueue
    <2>2. \/ UNCHANGED <<submitted, queries_queue>>
          \/ \E q \in Queries : /\ submitted' = Append(submitted, q)
                                /\ queries_queue' = Append(queries_queue, q)
      BY <1>8 DEF Pushes, ToQueue
    <2>3. CASE UNCHANGED <<submitted, queries_queue>>
      BY <1>6, <2>1, <2>3
    <2>4. ASSUME NEW q \in Queries, submitted' = Append(submitted, q),
                 queries_queue' = Append(queries_queue, q)
          PROVE  InOrder'
      <3>1. /\ Len(submitted') = Len(submitted) + 1
            /\ Len(queries_queue') = Len(queries_queue) + 1
            /\ submitted'[Len(submitted) + 1] = q
            /\ queries_queue'[Len(queries_queue) + 1] = q
            /\ \A i \in 1..Len(submitted) : submitted'[i] = submitted[i]
            /\ \A i \in 1..Len(queries_queue) : queries_queue'[i] = queries_queue[i]
        BY <1>1, <2>4, AppendProperties
      <3>2. Passed' = Passed /\ Passed <= Len(submitted)
            /\ Passed + Len(queries_queue) = Len(submitted)
        BY <1>1, <3>1 DEF Passed
      <3>3. ASSUME NEW i \in 1..Len(queries_queue')
            PROVE  queries_queue'[i] = submitted'[Passed + i]
        <4>1. CASE i = Len(queries_queue) + 1
          <5>1. Passed + i = Len(submitted) + 1
            <6>1. Passed \in Nat /\ Len(queries_queue) \in Nat /\ Len(submitted) \in Nat
              BY <1>1, <1>4
            <6> QED BY <3>2, <4>1, <6>1
          <5> QED BY <3>1, <4>1, <5>1
        <4>2. CASE i # Len(queries_queue) + 1
          <5>1. i \in 1..Len(queries_queue) /\ Passed + i \in 1..Len(submitted)
            BY <1>1, <1>4, <3>1, <3>2, <4>2
          <5> QED BY <1>4, <3>1, <5>1
        <4> QED BY <4>1, <4>2
      <3>4. \A i \in 1..Passed : i \in 1..Len(submitted)
        BY <1>1, <1>4, <3>2
      <3>5. \A i \in 1..Passed : submitted'[i] = submitted[i]
        BY <3>1, <3>4
      <3>6. Passed > 0 => submitted'[Passed] = submitted[Passed]
        BY <1>4, <3>5
      <3> QED BY <1>4, <2>1, <3>2, <3>3, <3>5, <3>6 DEF InOrder
    <2> QED BY <2>2, <2>3, <2>4
  <1>9. CASE PushesBack(t)
    BY <1>3, <1>9 DEF PushesBack
  <1>10. CASE Pops(t)
    <2>1. /\ UNCHANGED <<submitted, executed>> /\ item[t] = Null /\ t # Main
      BY <1>3, <1>10 DEF Pops
    <2>2. CASE t # ExecThread /\ queries_queue' = queries_queue
      <3>1. item'[ExecThread] = item[ExecThread]
        BY <1>1, <1>2, <1>10, <2>2 DEF Pops
      <3> QED BY <1>6, <2>1, <2>2, <3>1
    <2>3. CASE /\ t = ExecThread /\ queries_queue # <<>>
               /\ item' = [item EXCEPT ![t] = Head(queries_queue)]
               /\ queries_queue' = Tail(queries_queue)
      <3>1. /\ Len(queries_queue') = Len(queries_queue) - 1 /\ Len(queries_queue) > 0
            /\ item'[ExecThread] = queries_queue[1]
            /\ \A i \in 1..Len(queries_queue') : queries_queue'[i] = queries_queue[i + 1]
        BY <1>1, <1>2, <2>3, HeadTailProperties, EmptySeq
      <3>2. Passed' = Passed + 1
        BY <1>1, <2>1, <3>1 DEF Passed
      <3>3. item'[ExecThread] = submitted[Passed + 1]
        BY <1>1, <1>4, <3>1
      <3>4. ASSUME NEW i \in 1..Len(queries_queue')
            PROVE  queries_queue'[i] = submitted[Passed' + i]
        <4>1. i + 1 \in 1..Len(queries_queue) /\ Passed' + i = Passed + (i + 1)
          BY <1>1, <1>4, <3>1, <3>2
        <4> QED BY <1>4, <3>1, <4>1
      <3>5. ASSUME NEW i \in 1..Passed
            PROVE  submitted[i] \in Elements(executed)
        BY <1>4, <2>1, <2>3
      <3>6. \A i \in 1..Passed' : i \in 1..Passed \/ i = Passed + 1
        BY <1>4, <3>2
      <3>7. item'[ExecThread] # Null
        BY <1>1, <1>2, <2>3, TailElements, ThreadFacts
      <3> QED BY <1>4, <2>1, <3>2, <3>3, <3>4, <3>5, <3>6, <3>7 DEF InOrder
    <2> QED BY <1>10, <2>1, <2>2, <2>3 DEF Pops
  <1>11. CASE Runs(t)
    <2>1. /\ UNCHANGED <<submitted, queries_queue>>
          /\ item' = [item EXCEPT ![t] = Null] /\ item[t] # Null
      BY <1>11 DEF Runs
    <2>2. /\ Elements(executed) \subseteq Elements(executed')
          /\ item[t] \in Elements(executed') \cup Buffers
      <3>1. CASE item[t] \in Queries /\ executed' = Append(executed, item[t])
        <4>1. Elements(Append(executed, item[t])) = Elements(executed) \cup {item[t]}
          BY <1>1, <3>1, AppendElements
        <4> QED BY <3>1, <4>1
      <3>2. CASE item[t] \in Buffers /\ executed' = executed
        BY <3>2
      <3> QED BY <1>11, <3>1, <3>2 DEF Runs
    <2>4. CASE t # ExecThread
      <3>1. item'[ExecThread] = item[ExecThread]
        BY <1>1, <1>2, <2>1, <2>4
      <3> QED BY <1>6, <2>1, <2>2, <3>1
    <2>5. CASE t = ExecThread
      <3>1. Passed \in 1..Len(submitted)
        BY <1>1, <1>4, <2>1, <2>5 DEF Passed
      <3>2. item[t] \in Queries
        BY <1>4, <1>5, <2>1, <2>5, <3>1
      <3>3. /\ Elements(executed) \subseteq Elements(executed')
            /\ item[t] \in Elements(executed')
        BY <2>2, <3>2, ThreadFacts
      <3>4. Passed' = Passed /\ item'[ExecThread] = Null
        BY <1>1, <2>1, <2>5 DEF Passed
      <3> QED BY <1>4, <2>1, <2>5, <3>3, <3>4 DEF InOrder
    <2> QED BY <2>4, <2>5
  <1> QED BY <1>7, <1>8, <1>9, <1>10, <1>11 DEF Effect

LEMMA InitOrder == Init => Order
  <1> SUFFICES ASSUME Init PROVE Order
    OBVIOUS
  <1>1. Len(submitted) = 0 /\ Len(queries_queue) = 0 /\ submitted = <<>>
    BY DEF Init
  <1>2. MainCloses
    BY ThreadFacts DEF Init, MainCloses
  <1>3. SubmittedStay
    BY <1>1 DEF SubmittedStay, Elements
  <1>4. InOrder
    BY <1>1, ThreadFacts DEF Init, InOrder, Passed
  <1> QED BY <1>2, <1>3, <1>4 DEF Order
LEMMA NextOrder ==
    ASSUME IInv, IInv', Kept, Order, [Next]_vars
    PROVE  Kept' /\ Order'
  <1>1. CASE Next
    <2>1. PICK t \in Threads : Effect(t)
      BY <1>1, StepEffect DEF Kept, Order
    <2>2. Kept'
      BY <2>1, EffectKeeps
    <2>3. MainCloses'
      BY <1>1, NextMainCloses DEF Order
    <2>4. SubmittedStay' /\ InOrder'
      BY <2>1, EffectSubmittedStay, EffectInOrder DEF Kept, Order
    <2> QED BY <2>2, <2>3, <2>4 DEF Order
  <1>2. CASE UNCHANGED vars
    <2>1. HandsEmpty' /\ OnePlace'
      BY <1>2, NothingMoves DEF Kept, HandsEmpty, vars, queueVars, dbVars, bufferVars
    <2>2. MainCloses' /\ SubmittedStay'
      BY <1>2 DEF Order, MainCloses, SubmittedStay, InMainsHands, vars, queueVars,
                  dbVars, stateVars
    <2>3. Passed' = Passed
      BY <1>2 DEF Passed, vars, queueVars
    <2>4. InOrder'
      BY <1>2, <2>3 DEF Order, InOrder, vars, queueVars, dbVars, stateVars
    <2> QED BY <2>1, <2>2, <2>4 DEF Kept, Order
  <1> QED BY <1>1, <1>2

\* The invariant of the items: each is in one place, and the submitted
\* queries are where their order says.
THEOREM ItemsInvariance == Spec => [](IInv /\ Kept /\ Order)
  <1> QED BY Invariance, InitKept, InitOrder, NextOrder, PTL DEF Spec

\* Of what callers hand to Execute and AddQueryBuffer nothing is lost or run
\* twice, through the pops and pushes of EndThreads as well.
THEOREM Conservation == Spec => []ItemsKept
  <1>1. IInv /\ Kept => ItemsKept
    BY DEF IInv, Kept, ItemsKept
  <1> QED BY <1>1, ItemsInvariance, PTL

-----------------------------------------------------------------------------------
(* A buffer is saved as a whole.                                           *)

\* What has been sent of a buffer: START TRANSACTION, then its statements.
Sent(b, n) == {<<b, i>> : i \in 1..(n - 1)}

\* What is open on a connection is what its user has sent so far without
\* what was refused; only a transaction that broke is not open any more.
OpenAt(c) ==
    /\ c \in open => Busy[c] # Null /\ at[Busy[c]] # 0
    /\ transaction[c] = IF c \in open
                        THEN Sent(item[Busy[c]], at[Busy[c]]) \ refused
                        ELSE {}
    /\ Busy[c] # Null /\ at[Busy[c]] # 0 /\ c \notin open
          => item[Busy[c]] \in broken

OpenTransactions == \A c \in Connections : OpenAt(c)

\* Nothing is refused before it is sent.
RefusedSent ==
    \A b \in Buffers, n \in 1..BufferSize :
        <<b, n>> \in refused =>
            b \in performed \/ \E t \in Threads : item[t] = b /\ n < at[t]

\* Nothing is stored before the commit, but of a buffer that broke.
Unstored ==
    \A b \in Buffers \ (performed \cup broken) : Statements(b) \cap stored = {}

Atomic == OpenTransactions /\ RefusedSent /\ Unstored /\ BufferAtomic

\* A buffer's statements, from none to all.
LEMMA SentSteps ==
    ASSUME NEW b, NEW n \in Nat
    PROVE  /\ Sent(b, 0) = {} /\ Sent(b, 1) = {}
           /\ n # 0 => Sent(b, n + 1) = Sent(b, n) \cup {<<b, n>>}
           /\ Sent(b, BufferSize + 1) = Statements(b)
  <1>1. 1..(0 - 1) = {} /\ 1..(1 - 1) = {}
    OBVIOUS
  <1>2. n # 0 => 1..((n + 1) - 1) = (1..(n - 1)) \cup {n}
    OBVIOUS
  <1>3. Sent(b, 0) = {} /\ Sent(b, 1) = {}
    BY <1>1 DEF Sent
  <1>4. n # 0 => Sent(b, n + 1) = Sent(b, n) \cup {<<b, n>>}
    BY <1>2 DEF Sent
  <1>5. Sent(b, BufferSize + 1) = Statements(b)
    BY DEF Sent, Statements, BufferSize
  <1> QED BY <1>3, <1>4, <1>5

\* Steps of a thread that is not sending a buffer.
LEMMA BetweenBuffers ==
    ASSUME IInv, Atomic, NEW t \in Threads, at[t] = 0,
           UNCHANGED <<at, bufferVars>>,
           \A u \in Threads : u # t => item'[u] = item[u],
           \A c \in Connections :
              \/ Busy'[c] = Busy[c]
              \/ Busy[c] \in {t, Null} /\ Busy'[c] \in {t, Null}
    PROVE  Atomic'
  <1> USE DEF Atomic, bufferVars
  <1>1. Busy \in [Connections -> Threads \cup {Null}]
    BY DEF IInv, TypeOK
  <1>2. OpenTransactions'
    <2> SUFFICES ASSUME NEW c \in Connections
                 PROVE  OpenAt(c)'
      BY DEF OpenTransactions
    <2>1. OpenAt(c)
      BY DEF OpenTransactions
    <2>2. CASE Busy[c] \in {t, Null} /\ Busy'[c] \in {t, Null}
      <3>1. c \notin open /\ transaction[c] = {}
        BY <2>1, <2>2 DEF OpenAt
      <3> QED BY <2>2, <3>1, ThreadFacts DEF OpenAt
    <2>3. CASE ~(Busy[c] \in {t, Null} /\ Busy'[c] \in {t, Null})
      <3>1. Busy'[c] = Busy[c] /\ Busy[c] # t /\ Busy[c] \in Threads
        BY <1>1, <2>3
      <3>2. item'[Busy[c]] = item[Busy[c]]
        BY <3>1
      <3> QED BY <2>1, <3>1, <3>2 DEF OpenAt
    <2> QED BY <2>2, <2>3
  <1>3. RefusedSent'
    <2> SUFFICES ASSUME NEW b \in Buffers, NEW n \in 1..BufferSize,
                        <<b, n>> \in refused, b \notin performed
                 PROVE  \E u \in Threads : item'[u] = b /\ n < at[u]
      BY DEF RefusedSent
    <2>1. PICK u \in Threads : item[u] = b /\ n < at[u]
      BY DEF RefusedSent
    <2>2. u # t
      BY <2>1 DEF BufferSize
    <2> QED BY <2>1, <2>2
  <1>4. Unstored' /\ BufferAtomic'
    BY DEF Unstored, BufferAtomic
  <1> QED BY <1>2, <1>3, <1>4

\* What a step on a buffer has to keep: the connection it works on, and its
\* own buffer's statements.
LEMMA OneBuffer ==
    ASSUME IInv, OnePlace, Atomic, NEW t \in Threads, BufferStep(t),
           NEW b \in Buffers, b = item[t], NEW c \in Connections, c = con[t],
           open' \ {c} = open \ {c},
           \A d \in Connections : d # c => transaction'[d] = transaction[d],
           refused \subseteq refused', broken \subseteq broken',
           \A d \in Buffers, n \in 1..BufferSize :
              <<d, n>> \in refused' =>
                 \/ <<d, n>> \in refused
                 \/ d = b /\ (b \in performed' \/ n < at'[t]),
           b \in performed' \/ (item'[t] = b /\ at[t] <= at'[t]),
           \A s \in Buffers \X (1..BufferSize) :
              s[1] # b => (s \in stored' <=> s \in stored),
           OpenAt(c)',
           b \notin performed' \cup broken' => Statements(b) \cap stored' = {},
           b \notin broken' =>
              Statements(b) \cap stored' \in {{}, Statements(b) \ refused'}
    PROVE  Atomic'
  <1> USE DEF Atomic
  <1>1. /\ Busy \in [Connections -> Threads \cup {Null}] /\ Busy' = Busy
        /\ Busy[c] = t /\ at \in [Threads -> 0..(BufferSize + 1)]
        /\ at' \in [Threads -> 0..(BufferSize + 1)]
        /\ item \in [Threads -> Queries \cup Buffers \cup {Null}]
        /\ \A d \in Connections : d # c => Busy[d] # t
    BY BufferFrame DEF IInv, TypeOK, ConnectionsHeld
  <1>2. \A u \in Threads : u # t => /\ item'[u] = item[u] /\ at'[u] = at[u]
                                    /\ item[u] # b
    BY <1>1, BufferFrame, ThreadFacts DEF OnePlace
  <1>3. performed' \in {performed, performed \cup {b}}
    BY BufferFrame
  <1>4. OpenTransactions'
    <2> SUFFICES ASSUME NEW d \in Connections, d # c
                 PROVE  OpenAt(d)'
      BY DEF OpenTransactions
    <2>1. /\ OpenAt(d) /\ transaction'[d] = transaction[d]
          /\ d \in open' <=> d \in open
      BY DEF OpenTransactions
    <2>2. CASE Busy[d] = Null
      BY <1>1, <2>1, <2>2 DEF OpenAt
    <2>3. CASE Busy[d] # Null /\ at[Busy[d]] = 0
      <3>1. Busy[d] \in Threads /\ at'[Busy[d]] = 0
        BY <1>1, <1>2, <2>3
      <3> QED BY <1>1, <2>1, <2>3, <3>1 DEF OpenAt
    <2>4. CASE Busy[d] # Null /\ at[Busy[d]] # 0
      <3> DEFINE u == Busy[d]
      <3>1. /\ u \in Threads /\ u # t /\ item'[u] = item[u]
            /\ at'[u] = at[u] /\ item[u] # b
        BY <1>1, <1>2, <2>4
      <3>2. item[u] \in Buffers /\ at[u] \in 1..(BufferSize + 1)
        BY <1>1, <2>4, <3>1 DEF IInv, Progress, BufferSize
      <3>3. \A i \in 1..(at[u] - 1) :
                <<item[u], i>> \in refused' <=> <<item[u], i>> \in refused
        <4>1. \A i \in 1..(at[u] - 1) : i \in 1..BufferSize
          BY <3>2 DEF BufferSize
        <4> HIDE DEF u
        <4> QED BY <3>1, <3>2, <4>1
      <3>4. Sent(item[u], at[u]) \ refused' = Sent(item[u], at[u]) \ refused
        BY <3>3 DEF Sent
      <3> QED BY <1>1, <2>1, <3>1, <3>4 DEF OpenAt
    <2> QED BY <1>1, <2>2, <2>3, <2>4
  <1>5. RefusedSent'
    <2> SUFFICES ASSUME NEW d \in Buffers, NEW n \in 1..BufferSize,
                        <<d, n>> \in refused', d \notin performed'
                 PROVE  \E u \in Threads : item'[u] = d /\ n < at'[u]
      BY DEF RefusedSent
    <2>1. CASE <<d, n>> \notin refused
      BY <2>1
    <2>2. CASE <<d, n>> \in refused
      <3>1. PICK u \in Threads : item[u] = d /\ n < at[u]
        BY <1>3, <2>2 DEF RefusedSent
      <3>2. CASE u = t
        BY <1>1, <3>1, <3>2 DEF BufferSize
      <3>3. CASE u # t
        BY <1>2, <3>1, <3>3
      <3> QED BY <3>2, <3>3
    <2> QED BY <2>1, <2>2
  <1>6. ASSUME NEW d \in Buffers, d # b
        PROVE  Statements(d) \cap stored' = Statements(d) \cap stored
    <2>1. \A s \in Statements(d) : s \in Buffers \X (1..BufferSize) /\ s[1] = d
      BY DEF Statements
    <2> QED BY <1>6, <2>1
  <1>7. Unstored'
    BY <1>3, <1>6 DEF Unstored
  <1>8. BufferAtomic'
    <2> SUFFICES ASSUME NEW d \in Buffers, d \notin broken', d # b
                 PROVE  Statements(d) \cap stored'
                           \in {{}, Statements(d) \ refused'}
      BY DEF BufferAtomic
    <2>1. Statements(d) \ refused' = Statements(d) \ refused
      BY DEF Statements
    <2> QED BY <1>6, <2>1 DEF BufferAtomic
  <1> QED BY <1>4, <1>5, <1>7, <1>8

LEMMA BeginKeepsAtomic ==
    ASSUME IInv, OnePlace, Atomic, NEW t \in Threads, Begin(t)
    PROVE  Atomic'
  <1>a. BufferStep(t) /\ con[t] \in Connections /\ item[t] \in Buffers
    BY BufferFrame DEF BufferStep
  <1>b. PICK c \in Connections, b \in Buffers : c = con[t] /\ b = item[t]
    BY <1>a
  <1>1. /\ Busy[c] = t /\ Busy' = Busy /\ item' = item /\ refused' = refused
        /\ performed' = performed /\ at[t] = 0 /\ at'[t] = 1
    <2>1. at \in [Threads -> 0..(BufferSize + 1)]
      BY DEF IInv, TypeOK
    <2> QED BY <1>a, <1>b, <2>1, BufferFrame DEF Begin
  <1>2. transaction[c] = {} /\ c \notin open
    BY <1>1 DEF Atomic, OpenTransactions, OpenAt
  <1>3. /\ stored' = stored /\ transaction' = [transaction EXCEPT ![c] = {}]
        /\ transaction \in [Connections -> SUBSET (Buffers \X (1..BufferSize))]
        /\ \/ open' = open \cup {c} /\ broken' = broken
           \/ open' = open \ {c} /\ broken' = broken \cup {b}
    BY <1>b, <1>2 DEF Begin, Break, IInv, TypeOK
  <1>4. OpenAt(c)'
    <2>1. Sent(b, 1) = {}
      BY SentSteps
    <2>2. t # Null /\ transaction'[c] = {} /\ Busy'[c] = t
      BY <1>1, <1>3, ThreadFacts
    <2>3. item'[t] = b /\ at'[t] = 1
      BY <1>b, <1>1
    <2>4. CASE open' = open \cup {c}
      BY <2>1, <2>2, <2>3, <2>4 DEF OpenAt
    <2>5. CASE c \notin open' /\ b \in broken'
      BY <2>2, <2>3, <2>5 DEF OpenAt
    <2> QED BY <1>3, <2>4, <2>5
  <1>5. /\ b \notin performed' \cup broken' => Statements(b) \cap stored' = {}
        /\ b \notin broken' =>
              Statements(b) \cap stored' \in {{}, Statements(b) \ refused'}
    BY <1>1, <1>3 DEF Atomic, Unstored, BufferAtomic
  <1>6. /\ open' \ {c} = open \ {c} /\ broken \subseteq broken'
        /\ \A d \in Connections : d # c => transaction'[d] = transaction[d]
    BY <1>3
  <1>7. item'[t] = b /\ at[t] <= at'[t]
    BY <1>b, <1>1
  <1> QED BY <1>a, <1>b, <1>1, <1>3, <1>4, <1>5, <1>6, <1>7, OneBuffer

LEMMA SendStatementKeepsAtomic ==
    ASSUME IInv, OnePlace, Atomic, NEW t \in Threads, SendStatement(t)
    PROVE  Atomic'
  <1>a. BufferStep(t) /\ con[t] \in Connections /\ item[t] \in Buffers
    BY BufferFrame DEF BufferStep
  <1>c. at[t] \in 1..BufferSize /\ at'[t] = at[t] + 1
    <2>1. at \in [Threads -> 0..(BufferSize + 1)]
      BY DEF IInv, TypeOK
    <2>2. at[t] > 0 /\ at[t] # BufferSize + 1 /\ at' = [at EXCEPT ![t] = @ + 1]
      BY DEF SendStatement, AllSent
    <2> QED BY <2>1, <2>2 DEF BufferSize
  <1>b. PICK c \in Connections, b \in Buffers, n \in 1..BufferSize :
              c = con[t] /\ b = item[t] /\ n = at[t]
    BY <1>a, <1>c
  <1>d. PICK s : s = <<b, n>>
    OBVIOUS
  <1>1. /\ Busy[c] = t /\ Busy' = Busy /\ item' = item
        /\ performed' = performed /\ at'[t] = n + 1
    BY <1>a, <1>b, <1>c, BufferFrame DEF SendStatement
  <1>2. s \notin refused /\ b \notin performed
    <2>1. b \notin performed
      BY <1>b, ThreadFacts DEF OnePlace, Hands, Ran
    <2>2. \A u \in Threads : item[u] = b => u = t
      BY <1>b, ThreadFacts DEF OnePlace
    <2>3. ~(n < n)
      BY DEF BufferSize
    <2> QED BY <1>b, <1>d, <2>1, <2>2, <2>3 DEF Atomic, RefusedSent
  <1>3. OpenAt(c) /\ Sent(b, n + 1) = Sent(b, n) \cup {s}
    BY <1>d, SentSteps DEF Atomic, OpenTransactions, BufferSize
  <1>4. Statements(b) \cap stored = {} \/ b \in broken
    BY <1>2 DEF Atomic, Unstored
  <1>5. transaction \in [Connections -> SUBSET (Buffers \X (1..BufferSize))]
    BY DEF IInv, TypeOK
  <1> SUFFICES
        /\ open' \ {c} = open \ {c}
        /\ \A d \in Connections : d # c => transaction'[d] = transaction[d]
        /\ refused' \in {refused, refused \cup {s}}
        /\ stored' \in {stored, stored \cup {s}}
        /\ broken \subseteq broken' /\ OpenAt(c)'
        /\ b \in broken' \/ stored' = stored
    <2>1. \A d \in Buffers, m \in 1..BufferSize :
              <<d, m>> \in {s} => d = b /\ m < at'[t]
      BY <1>1, <1>d DEF BufferSize
    <2>2. b \in broken' \/ Statements(b) \cap stored' = {}
      BY <1>4
    <2>3. \A x \in Buffers \X (1..BufferSize) :
              x[1] # b => (x \in stored' <=> x \in stored)
      BY <1>d
    <2>4. at[t] <= at'[t] /\ item'[t] = b
      BY <1>b, <1>1 DEF BufferSize
    <2>6. refused \subseteq refused'
      OBVIOUS
    <2>7. \A d \in Buffers, m \in 1..BufferSize :
              <<d, m>> \in refused' => <<d, m>> \in refused
                                       \/ (d = b /\ m < at'[t])
      BY <2>1
    <2>8. b \notin broken' =>
             Statements(b) \cap stored' \in {{}, Statements(b) \ refused'}
      BY <2>2
    <2> QED BY <1>a, <1>b, <2>2, <2>3, <2>4, <2>6, <2>7, <2>8, OneBuffer
  <1>6. t # Null /\ at'[t] # 0
    BY <1>b, <1>1, ThreadFacts DEF BufferSize
  <1>7. CASE /\ c \in open
             /\ transaction' = [transaction EXCEPT ![c] = @ \cup {s}]
             /\ UNCHANGED <<stored, open, refused, broken>>
    <2>1. transaction'[c] = (Sent(b, n) \ refused) \cup {s}
      BY <1>b, <1>1, <1>3, <1>5, <1>7 DEF OpenAt
    <2>2. transaction'[c] = Sent(b, n + 1) \ refused
      BY <1>d, <1>2, <1>3, <2>1
    <2> QED BY <1>b, <1>1, <1>5, <1>6, <1>7, <2>2 DEF OpenAt
  <1>8. CASE /\ c \notin open /\ stored' = stored \cup {s}
             /\ UNCHANGED <<open, transaction, refused, broken>>
    <2>1. b \in broken /\ transaction[c] = {}
      BY <1>b, <1>1, <1>3, <1>6, <1>8 DEF OpenAt, BufferSize
    <2> QED BY <1>b, <1>1, <1>6, <1>8, <2>1 DEF OpenAt
  <1>9. CASE /\ refused' = refused \cup {s}
             /\ UNCHANGED <<stored, open, transaction, broken>>
    <2>1. Sent(b, n + 1) \ refused' = Sent(b, n) \ refused
      <3>1. s \notin Sent(b, n)
        BY <1>d DEF Sent, BufferSize
      <3> QED BY <1>3, <1>9, <3>1
    <2>2. c \notin open => b \in broken
      BY <1>b, <1>1, <1>3, <1>6 DEF OpenAt, BufferSize
    <2> QED BY <1>b, <1>1, <1>3, <1>6, <1>9, <2>1, <2>2 DEF OpenAt
  <1>10. CASE /\ Break(c) /\ stored' \in {stored, stored \cup {s}}
              /\ broken' = broken \cup {b} /\ UNCHANGED refused
    <2>1. transaction'[c] = {} /\ c \notin open'
      BY <1>b, <1>1, <1>5, <1>10 DEF Break
    <2> QED BY <1>b, <1>1, <1>5, <1>6, <1>10, <2>1 DEF Break, OpenAt
  <1> QED BY <1>b, <1>d, <1>7, <1>8, <1>9, <1>10 DEF SendStatement

LEMMA CommitKeepsAtomic ==
    ASSUME IInv, OnePlace, Atomic, NEW t \in Threads, Commit(t)
    PROVE  Atomic'
  <1>a. BufferStep(t) /\ con[t] \in Connections /\ item[t] \in Buffers
    BY BufferFrame DEF BufferStep
  <1>b. PICK c \in Connections, b \in Buffers : c = con[t] /\ b = item[t]
    BY <1>a
  <1>1. /\ Busy[c] = t /\ Busy' = Busy /\ refused' = refused
        /\ broken' = broken /\ performed' = performed \cup {b}
        /\ at[t] = BufferSize + 1 /\ at'[t] = 0
    <2>1. at \in [Threads -> 0..(BufferSize + 1)]
      BY DEF IInv, TypeOK
    <2> QED BY <1>a, <1>b, <2>1, BufferFrame DEF Commit, AllSent
  <1>2. /\ open' = open \ {c} /\ transaction' = [transaction EXCEPT ![c] = {}]
        /\ transaction \in [Connections -> SUBSET (Buffers \X (1..BufferSize))]
        /\ stored' \in {stored, stored \cup transaction[c]}
    BY <1>b DEF Commit, Break, IInv, TypeOK
  <1>3. b \notin performed
    BY <1>b, <1>1, ThreadFacts DEF OnePlace, Hands, Ran
  <1>4. Statements(b) \cap stored = {} \/ b \in broken
    BY <1>b, <1>1, <1>3 DEF Atomic, Unstored
  <1>5. OpenAt(c) /\ Sent(b, BufferSize + 1) = Statements(b)
    BY <1>b, <1>1, SentSteps DEF Atomic, OpenTransactions, BufferSize
  <1>6. /\ transaction[c] \subseteq Statements(b)
        /\ b \in broken \/ transaction[c] = Statements(b) \ refused
    BY <1>b, <1>1, <1>5, ThreadFacts DEF OpenAt, BufferSize
  <1>7. OpenAt(c)'
    <2>1. transaction'[c] = {} /\ c \notin open'
      BY <1>b, <1>1, <1>2
    <2> QED BY <1>b, <1>1, <2>1 DEF OpenAt
  <1>8. b \notin broken' =>
            Statements(b) \cap stored' \in {{}, Statements(b) \ refused'}
    BY <1>b, <1>1, <1>2, <1>4, <1>6
  <1>9. \A s \in Buffers \X (1..BufferSize) :
            s[1] # b => (s \in stored' <=> s \in stored)
    <2>1. \A s \in Statements(b) : s[1] = b
      BY DEF Statements
    <2> QED BY <1>2, <1>6, <2>1
  <1>10. /\ open' \ {c} = open \ {c}
         /\ \A d \in Connections : d # c => transaction'[d] = transaction[d]
         /\ refused \subseteq refused' /\ broken \subseteq broken'
         /\ refused' = refused /\ b \in performed'
    BY <1>b, <1>1, <1>2
  <1> QED BY <1>a, <1>b, <1>1, <1>7, <1>8, <1>9, <1>10, OneBuffer

LEMMA InitAtomic == Init => Atomic
  <1> SUFFICES ASSUME Init PROVE Atomic
    OBVIOUS
  <1>1. \A c \in Connections :
           /\ transaction[c] = {} /\ c \notin open
           /\ Busy[c] \in Threads \cup {Null}
    BY ThreadFacts DEF Init
  <1>2. \A t \in Threads : at[t] = 0
    BY DEF Init
  <1>3. OpenTransactions
    BY <1>1, <1>2 DEF OpenTransactions, OpenAt
  <1>4. stored = {} /\ refused = {}
    BY DEF Init
  <1>5. RefusedSent /\ Unstored /\ BufferAtomic
    BY <1>4 DEF RefusedSent, Unstored, BufferAtomic
  <1> QED BY <1>3, <1>5 DEF Atomic

LEMMA NextAtomic ==
    ASSUME IInv, Kept, Atomic, [Next]_vars
    PROVE  Atomic'
  <1>1. CASE Next
    <2>1. PICK t \in Threads :
              \/ Handing(t) \/ Connect(t) \/ Freeing(t)
              \/ SendQuery(t) \/ BufferStep(t)
      BY <1>1, StepKinds
    <2>2. /\ Busy \in [Connections -> Threads \cup {Null}]
          /\ item \in [Threads -> Queries \cup Buffers \cup {Null}]
      BY DEF IInv, TypeOK
    <2>3. pc[t] \notin Sending \/ item[t] \notin Buffers => at[t] = 0
      BY DEF IInv, Progress
    <2>4. CASE Handing(t)
      <3>1. at[t] = 0
        BY <2>3, <2>4, HandingFrame
      <3> QED BY <2>4, <3>1, HandingFrame, BetweenBuffers
    <2>5. CASE Connect(t)
      <3>1. at[t] = 0
        BY <2>3, <2>5 DEF Connect, Sending
      <3>2. \A c \in Connections : Busy'[c] = Busy[c]
                                   \/ (Busy[c] = Null /\ Busy'[c] = t)
        BY <2>2, <2>5 DEF Connect, IsFree
      <3> QED BY <2>5, <3>1, <3>2, BetweenBuffers DEF Connect, dbVars
    <2>6. CASE Freeing(t)
      <3>1. at[t] = 0
        BY <2>3, <2>6, FreeingFrame DEF Sending
      <3> QED BY <2>2, <2>6, <3>1, FreeingFrame, BetweenBuffers DEF dbVars
    <2>7. CASE SendQuery(t)
      <3>1. at[t] = 0
        BY <2>3, <2>7, ThreadFacts DEF SendQuery
      <3> QED BY <2>2, <2>7, <3>1, BetweenBuffers DEF SendQuery, Hold
    <2>8. CASE BufferStep(t)
      BY <2>8, BeginKeepsAtomic, SendStatementKeepsAtomic, CommitKeepsAtomic
         DEF BufferStep, Kept
    <2> QED BY <2>1, <2>4, <2>5, <2>6, <2>7, <2>8
  <1>2. CASE UNCHANGED vars
    BY <1>2 DEF vars, dbVars, bufferVars, Atomic, OpenTransactions, OpenAt,
                RefusedSent, Unstored, BufferAtomic
  <1> QED BY <1>1, <1>2

\* Whatever statements fail and whenever connections break: of a buffer whose
\* own transaction was not lost on the way, all that the database did not
\* refuse is committed or nothing, whoever runs it (the query thread, a
\* caller after qt has gone, or the drain).
THEOREM Atomicity == Spec => []BufferAtomic
  <1>1. Atomic => BufferAtomic
    BY DEF Atomic
  <1>2. Spec => []Atomic
    BY InitAtomic, NextAtomic, ItemsInvariance, PTL DEF Spec
  <1> QED BY <1>1, <1>2, PTL

-----------------------------------------------------------------------------------
(* Execute implements WriteQueue.                                          *)

LEMMA PromiseSets ==
    Promise!Accepted = Elements(submitted) /\ Promise!Applied = Elements(executed)
  BY DEF Promise!Accepted, Promise!Applied, Elements

\* Where a query in a thread's hands can be if it has been submitted.
LEMMA SubmittedInHands ==
    ASSUME IInv, OnePlace, SubmittedStay, NEW t \in Threads, item[t] # Null,
           item[t] \in Elements(submitted)
    PROVE  t = ExecThread \/ (t = Main /\ pc[Main] = "pushBack")
  <1>1. item[t] \in Hands
    BY DEF Hands
  <1>2. item[t] \notin Queued \cup Ran
    BY <1>1 DEF OnePlace
  <1>3. item[t] \notin Elements(executed) \cup Elements(queries_queue)
    BY <1>2 DEF Queued, Ran
  <1>4. item[t] \in {item[ExecThread]} \cup InMainsHands
    BY <1>3 DEF SubmittedStay
  <1>5. \A u \in Threads : u # t => item[t] # item[u]
    BY DEF OnePlace
  <1> QED BY <1>4, <1>5, ThreadFacts DEF InMainsHands

LEMMA StepImplements ==
    ASSUME IInv, Kept, Order, NEW t \in Threads, Effect(t)
    PROVE  [Promise!Next]_<<submitted, executed, stopping # "no">>
  <1>1. /\ queries_queue \in Seq(Queries) /\ submitted \in Seq(Queries)
        /\ executed \in Seq(Queries) /\ OnePlace /\ SubmittedStay
        /\ item \in [Threads -> Queries \cup Buffers \cup {Null}]
    BY DEF IInv, TypeOK, Kept, Order
  <1>2. t \in Callers => t # ExecThread
    BY DatabaseAssumption DEF DatabaseAssumption, Callers
  <1>3. CASE Calls(t) \/ Pops(t) \/ PushesBack(t)
    BY <1>3 DEF Calls, Pops, PushesBack, ToQueue
  <1>4. CASE Rests(t)
    <2>1. UNCHANGED <<submitted, executed>>
      BY <1>4 DEF Rests
    <2>2. CASE stopping = "no" /\ stopping' # "no"
      <3>1. Promise!Close
        BY <2>1, <2>2 DEF Promise!Close
      <3> QED BY <3>1 DEF Promise!Next
    <2>3. CASE ~(stopping = "no" /\ stopping' # "no")
      <3>1. (stopping' # "no") <=> (stopping # "no")
        BY <1>4, <2>3 DEF Rests
      <3> QED BY <2>1, <3>1
    <2> QED BY <2>2, <2>3
  <1>5. CASE Pushes(t)
    <2>1. executed' = executed /\ stopping' = stopping /\ item[t] # Null
          /\ t \in Callers /\ pc[t] = "push"
      BY <1>5 DEF Pushes, ToQueue
    <2>2. CASE item[t] \in Queries
      <3>1. submitted' = Append(submitted, item[t])
        BY <1>5, <2>2 DEF Pushes
      <3>2. item[t] \notin Elements(submitted)
        BY <1>1, <1>2, <2>1, SubmittedInHands
      <3>3. item[t] \notin Elements(executed)
        BY <1>1, <2>1 DEF OnePlace, Hands, Ran
      <3>4. Promise!Accept(item[t])
        BY <2>1, <3>1, <3>2, <3>3, PromiseSets DEF Promise!Accept
      <3> QED BY <2>2, <3>4 DEF Promise!Next
    <2>3. CASE item[t] \notin Queries
      BY <1>5, <2>1, <2>3 DEF Pushes
    <2> QED BY <2>2, <2>3
  <1>6. CASE Runs(t)
    <2>1. /\ UNCHANGED <<submitted, stopping>> /\ item[t] # Null
          /\ pc[t] # "pushBack"
      BY <1>6 DEF Runs, Sending
    <2>2. CASE item[t] \in Queries /\ executed' = Append(executed, item[t])
      <3>1. item[t] \notin Elements(executed)
        BY <1>1, <2>1 DEF OnePlace, Hands, Ran
      <3>2. CASE item[t] \notin Elements(submitted)
        <4>1. Promise!ApplyNow(item[t])
          BY <2>1, <2>2, <3>1, <3>2, PromiseSets DEF Promise!ApplyNow
        <4> QED BY <2>2, <4>1 DEF Promise!Next
      <3>3. CASE item[t] \in Elements(submitted) /\ stopping # "no"
        <4>1. Promise!ApplyClosing
          BY <2>1, <2>2, <3>1, <3>3, PromiseSets DEF Promise!ApplyClosing
        <4> QED BY <4>1 DEF Promise!Next
      <3>4. CASE item[t] \in Elements(submitted) /\ stopping = "no"
        <4>1. t = ExecThread
          BY <1>1, <2>1, <3>4, SubmittedInHands
        <4>2. /\ Passed \in Nat /\ Passed > 0 /\ item[t] = submitted[Passed]
              /\ \A i \in 1..Passed :
                    i # Passed => submitted[i] \in Elements(executed)
          BY <2>1, <3>4, <4>1 DEF Order, InOrder
        <4>3. Passed \in 1..Len(submitted)
          BY <1>1, <4>2, LenProperties DEF Passed
        <4>4. \A j \in 1..(Passed - 1) : j \in 1..Passed /\ j # Passed
          BY <4>2
        <4>5. \E i \in 1..Len(submitted) :
                 /\ submitted[i] \notin Elements(executed)
                 /\ \A j \in 1..(i - 1) : submitted[j] \in Elements(executed)
                 /\ executed' = Append(executed, submitted[i])
          <5>1. \A j \in 1..(Passed - 1) : submitted[j] \in Elements(executed)
            BY <4>2, <4>4
          <5> QED BY <2>2, <3>1, <4>2, <4>3, <5>1
        <4>6. Promise!Apply
          BY <2>1, <3>4, <4>5, PromiseSets DEF Promise!Apply
        <4> QED BY <4>6 DEF Promise!Next
      <3> QED BY <3>2, <3>3, <3>4
    <2>3. CASE executed' = executed
      BY <2>1, <2>3
    <2> QED BY <1>6, <2>2, <2>3 DEF Runs
  <1> QED BY <1>3, <1>4, <1>5, <1>6 DEF Effect
\* What callers are promised of Execute: a query is accepted at once and run
\* once, in the order of acceptance until the shutdown (Database::Execute,
\* run, EndThreads).
THEOREM PromiseKept == Spec => Promised
  <1>1. Init => Promise!Init
    BY DEF Init, Promise!Init
  <1>2. IInv /\ Kept /\ Order /\ [Next]_vars
          => [Promise!Next]_<<submitted, executed, stopping # "no">>
    <2> SUFFICES ASSUME IInv, Kept, Order, [Next]_vars
                 PROVE  [Promise!Next]_<<submitted, executed, stopping # "no">>
      OBVIOUS
    <2>1. CASE Next
      BY <2>1, StepEffect, StepImplements DEF Kept, Order
    <2>2. CASE UNCHANGED vars
      BY <2>2 DEF vars, queueVars, dbVars, stateVars
    <2> QED BY <2>1, <2>2
  <1> QED BY <1>1, <1>2, ItemsInvariance, PTL DEF Spec, Promised, Promise!Spec

===============================================================================
