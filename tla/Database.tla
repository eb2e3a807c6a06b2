------------------------------- MODULE Database -------------------------------
(***************************************************************************)
(* The asynchronous side of Database (shared/Database): queries are run by *)
(* the caller on a free connection (WaitExecute, Query), by the execute    *)
(* thread from queries_queue (Execute), or, as a transaction, by the query *)
(* thread from query_buffer (AddQueryBuffer); EndThreads stops the two     *)
(* threads when the server shuts down.                                     *)
(*                                                                         *)
(* A query and a buffer are used once, so they name themselves.  Query and *)
(* AsyncQuery::Perform take a connection and give it back as WaitExecute   *)
(* does.                                                                   *)
(*                                                                         *)
(* The database may refuse a statement, and a connection may break, which  *)
(* rolls back what is open on it; then _SendQuery connects again and sends *)
(* the statement once more, now outside of a transaction, or gives up.     *)
(* PerformQueryBuffer goes on whatever _SendQuery returns.  What the       *)
(* database makes of a single query is not modelled.                       *)
(***************************************************************************)
EXTENDS Naturals, Sequences, FiniteSets

CONSTANTS
    Clients,      \* threads of the server that use the database
    Main,         \* the thread that calls EndThreads, a client as well
    ExecThread,   \* runs Database::run
    QueryThread,  \* runs thread_proc_query
    Connections,
    Queries,
    Buffers,
    Stopping,     \* whether EndThreads may be called
    MaxFailures,  \* how often a statement fails (bound)
    Null

ASSUME DatabaseAssumption ==
    /\ Main \notin {ExecThread, QueryThread} /\ ExecThread # QueryThread
    /\ {Main, ExecThread, QueryThread} \cap Clients = {}
    /\ Queries \cap Buffers = {}
    /\ Null \notin Clients \cup {Main, ExecThread, QueryThread}
                     \cup Connections \cup Queries \cup Buffers
    /\ Stopping \in BOOLEAN /\ MaxFailures \in Nat
    /\ IsFiniteSet(Connections)

Callers == Clients \cup {Main}
Services == {ExecThread, QueryThread}
Threads == Callers \cup Services

VARIABLES
    queries_queue,
    query_buffer,
    terminate,      \* ThreadState = THREADSTATE_TERMINATE
    ThreadRunning,
    qt,             \* qt # NULL
    Busy,           \* connection -> the thread that has it
    \* threads
    pc,
    con,            \* the connection a thread has
    item,           \* the query or buffer in its hands
    at,             \* 0, or one more than the statements of the buffer it has
                    \* sent: START TRANSACTION comes first
    stopping,       \* EndThreads: "no", "running", "returned"
    \* history
    fresh,          \* queries and buffers nobody has submitted yet
    submitted,      \* the queries of queries_queue, in the order of the pushes
    executed,       \* the queries sent to the database, in order
    performed,      \* the buffers PerformQueryBuffer is through with
    stored,         \* the statements of buffers the database has committed
    open,           \* the connections with an open transaction
    transaction,    \* connection -> the statements of its open transaction
    refused,        \* the statements the database has refused
    broken          \* the buffers that were without a transaction for a while

queueVars == <<queries_queue, query_buffer, submitted>>
stateVars == <<terminate, ThreadRunning, qt, stopping>>
bufferVars == <<performed, stored, open, transaction, refused, broken>>
dbVars == <<executed, bufferVars>>
vars == <<queueVars, stateVars, dbVars, Busy, pc, con, item, at, fresh>>

BufferSize == 2
Statements(b) == {b} \X (1..BufferSize)

Goto(t, l) == pc' = [pc EXCEPT ![t] = l]
Hold(t, x) == item' = [item EXCEPT ![t] = x]

Elements(q) == {q[i] : i \in 1..Len(q)}

\* Operators named ..._bug are the mistakes the properties are tested
\* against; no specification uses them.

\* FQueue::push
Push_bug(q, x) == <<x>> \o q                    \* links the item in front
Push(q, x) == Append(q, x)

\* FQueue::pop
Popped_bug(q) == IF Len(q) = 1 THEN q ELSE Tail(q)  \* keeps the last item
Popped(q) == Tail(q)

\* Busy.AttemptAcquire
IsFree(c) == Busy[c] = Null

\* The execute thread gives its connection back when it finds no query.
IdleRelease_bug(t) == Busy                      \* keeps it
IdleRelease(t) == [c \in Connections |-> IF Busy[c] = t THEN Null ELSE Busy[c]]

\* ThreadRunning after thread t has ended.
RunningAfter_bug(t) == ThreadRunning            \* never cleared
RunningAfter(t) == ThreadRunning /\ t # ExecThread

\* PerformQueryBuffer is through with the buffer.
AllSent_early_bug(t) == at[t] > 1               \* commits after the first
AllSent(t) == at[t] = BufferSize + 1

-------------------------------------------------------------------------------
(* The threads have started: the execute thread sleeps without a           *)
(* connection, the query thread has one.                                   *)

Init ==
    /\ queries_queue = <<>> /\ query_buffer = <<>> /\ submitted = <<>>
    /\ terminate = FALSE /\ ThreadRunning = TRUE /\ qt = TRUE
    /\ stopping = "no"
    /\ executed = <<>> /\ performed = {} /\ stored = {} /\ open = {}
    /\ transaction = [c \in Connections |-> {}]
    /\ refused = {} /\ broken = {}
    /\ \E c \in Connections :
          /\ Busy = [d \in Connections |-> IF d = c THEN QueryThread ELSE Null]
          /\ con = [t \in Threads |-> IF t = QueryThread THEN c ELSE Null]
    /\ pc = [t \in Threads |-> IF t \in Services THEN "loop" ELSE "idle"]
    /\ item = [t \in Threads |-> Null]
    /\ at = [t \in Threads |-> 0]
    /\ fresh = Queries \cup Buffers

-------------------------------------------------------------------------------
(* Callers.  ThreadRunning and qt are read without a lock, the item is     *)
(* pushed or run afterwards.                                               *)

Execute(t, q) ==
    /\ pc[t] = "idle" /\ q \in fresh
    /\ fresh' = fresh \ {q}
    /\ Hold(t, q)
    /\ Goto(t, IF ThreadRunning THEN "push" ELSE "connect")
    /\ UNCHANGED <<queueVars, stateVars, dbVars, Busy, con, at>>

WaitExecute(t, q) ==
    /\ pc[t] = "idle" /\ q \in fresh
    /\ fresh' = fresh \ {q}
    /\ Hold(t, q)
    /\ Goto(t, "connect")
    /\ UNCHANGED <<queueVars, stateVars, dbVars, Busy, con, at>>

AddQueryBuffer(t, b) ==
    /\ pc[t] = "idle" /\ b \in fresh
    /\ fresh' = fresh \ {b}
    /\ Hold(t, b)
    /\ Goto(t, IF qt THEN "push" ELSE "connect")
    /\ UNCHANGED <<queueVars, stateVars, dbVars, Busy, con, at>>

PushItem(t) ==
    /\ pc[t] = "push"
    /\ IF item[t] \in Queries
       THEN /\ queries_queue' = Push(queries_queue, item[t])
            /\ submitted' = Append(submitted, item[t])
            /\ UNCHANGED query_buffer
       ELSE /\ query_buffer' = Push(query_buffer, item[t])
            /\ UNCHANGED <<queries_queue, submitted>>
    /\ Hold(t, Null)
    /\ Goto(t, "idle")
    /\ UNCHANGED <<stateVars, dbVars, Busy, con, at, fresh>>

-------------------------------------------------------------------------------
(* Running an item on a connection, by any thread.  A thread that ran it   *)
(* in its loop keeps the connection.                                       *)

\* GetFreeConnection.  The execute thread, which released its connection
\* before it slept, takes one inside its loop.
Connect(t) ==
    /\ pc[t] \in {"connect", "connectInLoop"}
    /\ \E c \in Connections :
          /\ IsFree(c)
          /\ Busy' = [Busy EXCEPT ![c] = t]
          /\ con' = [con EXCEPT ![t] = c]
    /\ Goto(t, IF pc[t] = "connect" THEN "send" ELSE "sendInLoop")
    /\ UNCHANGED <<queueVars, stateVars, dbVars, item, at, fresh>>

\* Where a thread goes on when its item has been run.
Done_bug(t) == "release"                        \* leaves its loop after one item
Done(t) == IF pc[t] = "sendInLoop" THEN "loop" ELSE "release"

SendQuery(t) ==
    /\ pc[t] \in {"send", "sendInLoop"} /\ item[t] \in Queries
    /\ executed' = Append(executed, item[t])
    /\ Hold(t, Null)
    /\ Goto(t, Done(t))
    /\ UNCHANGED <<queueVars, stateVars, bufferVars, Busy, con, at, fresh>>

SendingBuffer(t) == pc[t] \in {"send", "sendInLoop"} /\ item[t] \in Buffers

MayFail == Cardinality(refused) + Cardinality(broken) < MaxFailures

\* Connection c breaks; with another one of the same name there is no
\* transaction.
Break(c) ==
    /\ open' = open \ {c}
    /\ transaction' = [transaction EXCEPT ![c] = {}]

\* _BeginTransaction.  It commits what is open; after a break it works on
\* the new connection, or is lost.
Begin(t) ==
    LET c == con[t] IN
    /\ SendingBuffer(t) /\ at[t] = 0
    /\ \/ /\ open' = open \cup {c}
          /\ stored' = stored \cup transaction[c]
          /\ transaction' = [transaction EXCEPT ![c] = {}]
          /\ UNCHANGED broken
       \/ /\ MayFail
          /\ Break(c) /\ UNCHANGED stored
          /\ broken' = broken \cup {item[t]}
    /\ at' = [at EXCEPT ![t] = 1]
    /\ UNCHANGED <<queueVars, stateVars, executed, performed, refused, Busy, pc,
                   con, item, fresh>>

\* One turn of PerformQueryBuffer's loop: _SendQuery works, or the statement
\* is refused, or the connection breaks, and the statement is sent again on
\* the new one or lost.
SendStatement(t) ==
    LET b == item[t]
        c == con[t]
        s == <<b, at[t]>> IN
    /\ SendingBuffer(t) /\ at[t] > 0 /\ ~AllSent(t)
    /\ \/ /\ c \in open
          /\ transaction' = [transaction EXCEPT ![c] = @ \cup {s}]
          /\ UNCHANGED <<stored, open, refused, broken>>
       \/ /\ c \notin open
          /\ stored' = stored \cup {s}
          /\ UNCHANGED <<open, transaction, refused, broken>>
       \/ /\ MayFail
          /\ refused' = refused \cup {s}
          /\ UNCHANGED <<stored, open, transaction, broken>>
       \/ /\ MayFail
          /\ Break(c)
          /\ stored' \in {stored, stored \cup {s}}
          /\ broken' = broken \cup {b}
          /\ UNCHANGED refused
    /\ at' = [at EXCEPT ![t] = @ + 1]
    /\ UNCHANGED <<queueVars, stateVars, executed, performed, Busy, pc, con,
                   item, fresh>>

\* _EndTransaction.  When the connection breaks, the COMMIT that is sent
\* again finds nothing open.
Commit(t) ==
    LET c == con[t] IN
    /\ SendingBuffer(t) /\ AllSent(t)
    /\ \/ stored' = stored \cup transaction[c]
       \/ MayFail /\ UNCHANGED stored
    /\ Break(c)
    /\ performed' = performed \cup {item[t]}
    /\ at' = [at EXCEPT ![t] = 0]
    /\ Hold(t, Null)
    /\ Goto(t, Done(t))
    /\ UNCHANGED <<queueVars, stateVars, executed, refused, broken, Busy, con,
                   fresh>>

\* Busy.Release: a caller returns, a service goes on emptying its queue.
Release(t) ==
    /\ pc[t] = "release"
    /\ Busy' = [Busy EXCEPT ![con[t]] = Null]
    /\ con' = [con EXCEPT ![t] = Null]
    /\ Goto(t, IF t \in Services THEN "drain" ELSE "idle")
    /\ UNCHANGED <<queueVars, stateVars, dbVars, item, at, fresh>>

-------------------------------------------------------------------------------
(* The loops of Database::run and thread_proc_query.  The look at the      *)
(* thread's state and the pop that follows are one step: an EndThreads     *)
(* between them is noticed one item later and changes nothing else.        *)

OwnQueue(t) == IF t = ExecThread THEN queries_queue ELSE query_buffer

Pop(t) ==
    /\ Hold(t, Head(OwnQueue(t)))
    /\ IF t = ExecThread
       THEN queries_queue' = Popped(queries_queue) /\ UNCHANGED query_buffer
       ELSE query_buffer' = Popped(query_buffer) /\ UNCHANGED queries_queue

Take(t) ==
    /\ pc[t] = "loop" /\ ~terminate /\ OwnQueue(t) # <<>>
    /\ Pop(t)
    /\ Goto(t, IF con[t] = Null THEN "connectInLoop" ELSE "sendInLoop")
    /\ UNCHANGED <<stateVars, dbVars, submitted, Busy, con, at, fresh>>

FindNone(t) ==
    /\ pc[t] = "loop" /\ ~terminate /\ OwnQueue(t) = <<>>
    /\ t = ExecThread /\ con[t] # Null
    /\ Busy' = IdleRelease(t)
    /\ con' = [con EXCEPT ![t] = Null]
    /\ UNCHANGED <<queueVars, stateVars, dbVars, pc, item, at, fresh>>

LeaveLoop(t) ==
    /\ pc[t] = "loop" /\ terminate
    /\ Busy' = IdleRelease(t)
    /\ con' = [con EXCEPT ![t] = Null]
    /\ Goto(t, "drain")
    /\ UNCHANGED <<queueVars, stateVars, dbVars, item, at, fresh>>

\* "execute all the remaining queries"
Drain(t) ==
    /\ pc[t] = "drain"
    /\ IF OwnQueue(t) # <<>>
       THEN Pop(t) /\ Goto(t, "connect")
       ELSE Goto(t, "finish") /\ UNCHANGED <<queries_queue, query_buffer, item>>
    /\ UNCHANGED <<stateVars, dbVars, submitted, Busy, con, at, fresh>>

\* ThreadRunning = false; ~QueryThread sets qt to NULL.
Finish(t) ==
    /\ pc[t] = "finish"
    /\ ThreadRunning' = RunningAfter(t)
    /\ qt' = (qt /\ t # QueryThread)
    /\ Goto(t, "ended")
    /\ UNCHANGED <<queueVars, terminate, stopping, dbVars, Busy, con, item, at,
                   fresh>>

-------------------------------------------------------------------------------
(* EndThreads: an item is popped from each queue and pushed back until     *)
(* there is none, then the threads are told to end and waited for.         *)

EndThreads ==
    /\ Stopping /\ stopping = "no" /\ pc[Main] = "idle"
    /\ stopping' = "running"
    /\ Goto(Main, "spinBuffers")
    /\ UNCHANGED <<queueVars, terminate, ThreadRunning, qt, dbVars, Busy, con,
                   item, at, fresh>>

SpinBuffers ==
    /\ pc[Main] = "spinBuffers"
    /\ IF query_buffer = <<>>
       THEN Goto(Main, "spinQueries") /\ UNCHANGED <<item, query_buffer>>
       ELSE /\ Hold(Main, Head(query_buffer))
            /\ query_buffer' = Popped(query_buffer)
            /\ Goto(Main, "pushBack")
    /\ UNCHANGED <<queries_queue, submitted, stateVars, dbVars, Busy, con, at,
                   fresh>>

SpinQueries ==
    /\ pc[Main] = "spinQueries"
    /\ IF queries_queue = <<>>
       THEN /\ terminate' = TRUE
            /\ Goto(Main, "join")
            /\ UNCHANGED <<item, queries_queue>>
       ELSE /\ Hold(Main, Head(queries_queue))
            /\ queries_queue' = Popped(queries_queue)
            /\ Goto(Main, "pushBack")
            /\ UNCHANGED terminate
    /\ UNCHANGED <<query_buffer, submitted, ThreadRunning, qt, stopping, dbVars,
                   Busy, con, at, fresh>>

PushBack ==
    /\ pc[Main] = "pushBack"
    /\ IF item[Main] \in Queries
       THEN /\ queries_queue' = Push(queries_queue, item[Main])
            /\ Goto(Main, "spinQueries")
            /\ UNCHANGED query_buffer
       ELSE /\ query_buffer' = Push(query_buffer, item[Main])
            /\ Goto(Main, "spinBuffers")
            /\ UNCHANGED queries_queue
    /\ Hold(Main, Null)
    /\ UNCHANGED <<submitted, stateVars, dbVars, Busy, con, at, fresh>>

Join ==
    /\ pc[Main] = "join" /\ ~ThreadRunning
    /\ stopping' = "returned"
    /\ Goto(Main, "idle")
    /\ UNCHANGED <<queueVars, terminate, ThreadRunning, qt, dbVars, Busy, con,
                   item, at, fresh>>

-------------------------------------------------------------------------------
Call(t) ==
    \/ \E q \in Queries : Execute(t, q) \/ WaitExecute(t, q)
    \/ \E b \in Buffers : AddQueryBuffer(t, b)

\* What a thread does on its own.
Work(t) ==
    \/ Connect(t) \/ SendQuery(t) \/ Begin(t) \/ SendStatement(t) \/ Commit(t)
    \/ Release(t)
    \/ t \in Callers /\ PushItem(t)
    \/ t \in Services /\ \/ Take(t) \/ FindNone(t) \/ LeaveLoop(t)
                         \/ Drain(t) \/ Finish(t)
    \/ t = Main /\ (SpinBuffers \/ SpinQueries \/ PushBack \/ Join)

Next == (\E t \in Callers : Call(t)) \/ EndThreads \/ (\E t \in Threads : Work(t))

Spec == Init /\ [][Next]_vars

\* Threads are scheduled.  GetFreeConnection and the loop of EndThreads spin
\* without a lock; strong fairness says that what they wait for is not
\* missed for ever (a connection is found free again and again; the services
\* wake every 10 ms and see the queue while EndThreads has put its item back).
Fairness ==
    /\ \A t \in Threads : WF_vars(Work(t)) /\ SF_vars(Connect(t))
    /\ \A t \in Services : SF_vars(Take(t))

FairSpec == Spec /\ Fairness

-------------------------------------------------------------------------------
PCs == {"idle", "push", "connect", "send", "release", "loop", "connectInLoop",
        "sendInLoop", "drain", "finish", "ended", "spinBuffers", "spinQueries",
        "pushBack", "join"}

\* Every variable holds a value of its kind; a queue holds items of its kind.
TypeOK ==
    /\ queries_queue \in Seq(Queries) /\ query_buffer \in Seq(Buffers)
    /\ submitted \in Seq(Queries) /\ executed \in Seq(Queries)
    /\ terminate \in BOOLEAN /\ ThreadRunning \in BOOLEAN /\ qt \in BOOLEAN
    /\ stopping \in {"no", "running", "returned"}
    /\ Busy \in [Connections -> Threads \cup {Null}]
    /\ pc \in [Threads -> PCs]
    /\ con \in [Threads -> Connections \cup {Null}]
    /\ item \in [Threads -> Queries \cup Buffers \cup {Null}]
    /\ at \in [Threads -> 0..(BufferSize + 1)]
    /\ fresh \subseteq Queries \cup Buffers
    /\ performed \subseteq Buffers /\ broken \subseteq Buffers
    /\ stored \subseteq Buffers \X (1..BufferSize)
    /\ refused \subseteq Buffers \X (1..BufferSize)
    /\ open \subseteq Connections
    /\ transaction \in [Connections -> SUBSET (Buffers \X (1..BufferSize))]

\* A connection is in the hands of the thread that made it busy, and no
\* thread keeps one it no longer knows of.
ConnectionsHeld ==
    \A c \in Connections, t \in Threads : Busy[c] = t <=> con[t] = c

\* A player is saved in one transaction: the statements of a buffer are
\* committed together, without those the database refuses, whoever runs it
\* and whatever else fails on the connection before; unless the buffer's own
\* transaction was lost on the way, and what came after it saved alone.
BufferAtomic ==
    \A b \in Buffers \ broken :
        Statements(b) \cap stored \in {{}, Statements(b) \ refused}

\* Where the items are: in a thread's hands, in a queue, or run.
Hands == {item[t] : t \in Threads} \ {Null}
Queued == Elements(queries_queue) \cup Elements(query_buffer)
Ran == Elements(executed) \cup performed

Distinct(q) == \A i, j \in 1..Len(q) : q[i] = q[j] => i = j

\* An item is in one of these places, and there once.
OnePlace ==
    /\ fresh \cup Hands \cup Queued \cup Ran = Queries \cup Buffers
    /\ fresh \cap (Hands \cup Queued \cup Ran) = {}
    /\ Hands \cap (Queued \cup Ran) = {} /\ Queued \cap Ran = {}
    /\ \A t, u \in Threads : t # u => item[t] # item[u] \/ item[t] = Null
    /\ Distinct(queries_queue) /\ Distinct(query_buffer) /\ Distinct(executed)

\* No item is lost or doubled.
ItemsKept == TypeOK /\ OnePlace

\* Execute implements the promise of WriteQueue.
Promise == INSTANCE WriteQueue WITH accepted <- submitted,
              applied <- executed, closing <- (stopping # "no")
Promised == Promise!Spec

-------------------------------------------------------------------------------
\* Until the server shuts down, every query a caller hands over is run in
\* the end, and every buffer, whatever becomes of its statements.
EveryItemRuns ==
    /\ \A q \in Queries :
          (q \notin fresh) ~> (q \in Elements(executed) \/ stopping # "no")
    /\ \A b \in Buffers :
          (b \notin fresh) ~> (b \in performed \/ stopping # "no")

\* EndThreads returns, however the queues are used meanwhile.
EndThreadsReturns == (stopping = "running") ~> (stopping = "returned")
===============================================================================
