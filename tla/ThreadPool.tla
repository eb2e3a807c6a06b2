------------------------------ MODULE ThreadPool ------------------------------
(***************************************************************************)
(* CThreadPool: the threads every long-lived task of both servers runs on  *)
(* (socket workers, the world thread, map threads, database workers).      *)
(*                                                                         *)
(* Pooled threads run thread_proc; any thread may call ExecuteTask; the    *)
(* main thread calls IntegrityCheck every few minutes and Shutdown at the  *)
(* end.  Each operation of the pool holds _mutex from its first line to    *)
(* its last, so it is one step.  What thread_proc does between two         *)
(* operations is not protected: it reads and clears ExecutionTarget, which *)
(* the operations write.                                                   *)
(*                                                                         *)
(* A thread suspends itself on a semaphore (Counting: a Resume that comes  *)
(* early is remembered) or, on Windows, with SuspendThread (~Counting: a   *)
(* Resume of a thread that is not suspended does nothing).                 *)
(***************************************************************************)
EXTENDS Integers, FiniteSets

CONSTANTS
    Threads,    \* addresses of Thread objects; a set of Thread* is ordered
    Tasks,      \* ThreadBase objects, each submitted once
    Null,
    Reserve,    \* THREAD_RESERVE
    Counting,   \* how ThreadController suspends, see above
    LateTasks,  \* may tasks still be submitted once Shutdown has begun?
    MaxChecks,  \* bound: calls of IntegrityCheck
    MaxPosts    \* bound: unanswered Resumes of one thread by Shutdown's loop

ASSUME PoolAssumption ==
    /\ Threads \subseteq Nat /\ IsFiniteSet(Threads)
    /\ Null \notin Tasks
    /\ Reserve \in Nat /\ Reserve <= Cardinality(Threads)
    /\ Counting \in BOOLEAN /\ LateTasks \in BOOLEAN
    /\ MaxChecks \in Nat /\ MaxPosts \in Nat

VARIABLES
    m_activeThreads,
    m_freeThreads,
    threadsToExit,    \* _threadsToExit
    threadsEaten,     \* _threadsEaten
    pc,               \* where each thread is in thread_proc
    target,           \* ExecutionTarget
    deleteAfterExit,  \* DeleteAfterExit
    posts,            \* Resumes its semaphore or suspend count holds
    task,             \* "new", "given", "running", "deleted"
    told,             \* tasks whose OnShutdown was called
    phase,            \* the main thread: "running", "stopping", "again",
                      \* "stopped"
    checks,           \* calls of IntegrityCheck so far
    fault             \* a deleted or missing task was used

poolVars == <<m_activeThreads, m_freeThreads, threadsToExit, threadsEaten>>
thrVars  == <<pc, target, deleteAfterExit, posts>>
taskVars == <<task, told>>
mainVars == <<phase, checks>>
vars == <<poolVars, thrVars, taskVars, mainVars, fault>>

PCs == {"absent", "check", "call", "run", "clear", "exit", "suspend", "asleep"}

Live == {t \in Threads : pc[t] # "absent"}
First(S) == CHOOSE t \in S : \A u \in S : t <= u

\* The n first elements of S, or all of them.
FirstOf(S, n) == {t \in S : Cardinality({u \in S : u < t}) < n}

\* ControlInterface.Resume() for each thread of S.
Resumed_bug(S) == posts                      \* forgets to wake them
Resumed(S) ==
    [t \in Threads |->
        IF t \notin S THEN posts[t]
        ELSE IF Counting THEN posts[t] + 1
        ELSE IF pc[t] = "asleep" THEN 1 ELSE posts[t]]

\* What is left of the free threads when t, which is to die, was one.
Survivors_bug(t) == m_freeThreads            \* leaves the dead one in
Survivors(t) == IF deleteAfterExit[t] THEN m_freeThreads \ {t}
                ELSE m_freeThreads

\* The free threads without the one a task is given to.
StillFree_bug(t) == m_freeThreads            \* gives it out again
StillFree(t) == m_freeThreads \ {t}

MustExit_bug == threadsToExit >= 0           \* one too many
MustExit == threadsToExit > 0

\* Tokens that make every thread the pool knows exit.
ExitTokens_bug == threadsToExit + Cardinality(m_freeThreads)
ExitTokens == threadsToExit + Cardinality(m_freeThreads)
                            + Cardinality(m_activeThreads)

-------------------------------------------------------------------------------
\* The pool after Startup: Reserve threads have been started without a task.
Init ==
    /\ m_activeThreads = {} /\ m_freeThreads = {}
    /\ threadsToExit = 0 /\ threadsEaten = 0
    /\ \E S \in SUBSET Threads :
          /\ Cardinality(S) = Reserve
          /\ pc = [t \in Threads |-> IF t \in S THEN "check" ELSE "absent"]
    /\ target = [t \in Threads |-> Null]
    /\ deleteAfterExit = [t \in Threads |-> FALSE]
    /\ posts = [t \in Threads |-> 0]
    /\ task = [k \in Tasks |-> "new"] /\ told = {}
    /\ phase = "running" /\ checks = 0 /\ fault = FALSE

Goto(t, l) == pc' = [pc EXCEPT ![t] = l]

\* StartThread for each thread of S, with task k or Null.
StartThreads(S, k) ==
    /\ pc' = [t \in Threads |-> IF t \in S THEN "check" ELSE pc[t]]
    /\ target' = [t \in Threads |-> IF t \in S THEN k ELSE target[t]]
    /\ deleteAfterExit' = [t \in Threads |-> t \notin S /\ deleteAfterExit[t]]
    /\ posts' = [t \in Threads |-> IF t \in S THEN 0 ELSE posts[t]]

-------------------------------------------------------------------------------
(* thread_proc.                                                            *)

CheckTarget(t) ==
    /\ pc[t] = "check"
    /\ Goto(t, IF target[t] # Null THEN "call" ELSE "exit")
    /\ UNCHANGED <<poolVars, target, deleteAfterExit, posts, taskVars,
                   mainVars, fault>>

\* t->ExecutionTarget->run(): the target is read again.
CallRun(t) ==
    /\ pc[t] = "call"
    /\ IF target[t] = Null \/ (target[t] # Null /\ task[target[t]] = "deleted")
       THEN fault' = TRUE /\ UNCHANGED <<pc, task>>
       ELSE /\ task' = [task EXCEPT ![target[t]] = "running"]
            /\ Goto(t, "run")
            /\ UNCHANGED fault
    /\ UNCHANGED <<poolVars, target, deleteAfterExit, posts, told, mainVars>>

\* run() returned true: whatever is the target now is deleted.
RunEnds(t) ==
    /\ pc[t] = "run"
    /\ task' = [k \in Tasks |-> IF k = target[t] THEN "deleted" ELSE task[k]]
    /\ Goto(t, "clear")
    /\ UNCHANGED <<poolVars, target, deleteAfterExit, posts, told, mainVars,
                   fault>>

ClearTarget(t) ==
    /\ pc[t] = "clear"
    /\ target' = [target EXCEPT ![t] = Null]
    /\ Goto(t, "exit")
    /\ UNCHANGED <<poolVars, deleteAfterExit, posts, taskVars, mainVars, fault>>

\* The thread is deleted if threads have to exit, whether or not it is one
\* of those that were chosen; otherwise it enters the free pool.  Nothing
\* reads _threadsEaten once Shutdown has begun, so it then stays.
ThreadExit(t) ==
    /\ pc[t] = "exit"
    /\ m_activeThreads' = m_activeThreads \ {t}
    /\ IF MustExit
       THEN /\ threadsToExit' = threadsToExit - 1
            /\ m_freeThreads' = Survivors(t)
            /\ Goto(t, "absent")
            /\ target' = [target EXCEPT ![t] = Null]
            /\ deleteAfterExit' = [deleteAfterExit EXCEPT ![t] = FALSE]
            /\ posts' = [posts EXCEPT ![t] = 0]
            /\ UNCHANGED threadsEaten
       ELSE /\ threadsEaten' = IF phase = "running" THEN threadsEaten + 1
                              ELSE threadsEaten
            /\ m_freeThreads' = m_freeThreads \cup {t}
            /\ Goto(t, "suspend")
            /\ UNCHANGED <<threadsToExit, target, deleteAfterExit, posts>>
    /\ UNCHANGED <<taskVars, mainVars, fault>>

Suspend(t) ==
    /\ pc[t] = "suspend"
    /\ Goto(t, "asleep")
    /\ UNCHANGED <<poolVars, target, deleteAfterExit, posts, taskVars,
                   mainVars, fault>>

WakeUp(t) ==
    /\ pc[t] = "asleep" /\ posts[t] > 0
    /\ posts' = [posts EXCEPT ![t] = @ - 1]
    /\ Goto(t, "check")
    /\ UNCHANGED <<poolVars, target, deleteAfterExit, taskVars, mainVars,
                   fault>>

-------------------------------------------------------------------------------
(* Any thread.                                                             *)

ExecuteTask(k) ==
    /\ task[k] = "new"
    /\ phase = "running" \/ (LateTasks /\ phase # "stopped")
    /\ task' = [task EXCEPT ![k] = "given"]
    /\ threadsEaten' = IF phase = "running" THEN threadsEaten - 1
                       ELSE threadsEaten
    /\ \/ /\ m_freeThreads # {}
          /\ LET t == First(m_freeThreads) IN
             /\ m_freeThreads' = StillFree(t)
             /\ m_activeThreads' = m_activeThreads \cup {t}
             /\ target' = [target EXCEPT ![t] = k]
             /\ posts' = Resumed({t})
             /\ UNCHANGED <<pc, deleteAfterExit>>
       \/ /\ m_freeThreads = {}
          /\ \E t \in Threads \ Live :
                /\ StartThreads({t}, k)
                /\ m_activeThreads' = m_activeThreads \cup {t}
                /\ UNCHANGED m_freeThreads
    /\ UNCHANGED <<threadsToExit, told, mainVars, fault>>

-------------------------------------------------------------------------------
(* The main thread.                                                        *)

\* KillFreeThreads(n): the threads stay in m_freeThreads until they exit.
KillFreeThreads(n) ==
    LET S == FirstOf(m_freeThreads, n) IN
    /\ target' = [t \in Threads |-> IF t \in S THEN Null ELSE target[t]]
    /\ deleteAfterExit' = [t \in Threads |-> t \in S \/ deleteAfterExit[t]]
    /\ threadsToExit' = threadsToExit + Cardinality(S)
    /\ posts' = Resumed(S)

IntegrityCheck ==
    LET gobbled == threadsEaten
        Spawn(n) == \E S \in SUBSET (Threads \ Live) :
                        Cardinality(S) = n /\ StartThreads(S, Null)
    IN
    /\ phase = "running" /\ checks < MaxChecks
    /\ checks' = checks + 1
    /\ \/ /\ gobbled < 0
          /\ Spawn(Reserve - gobbled)
          /\ threadsEaten' = 0
          /\ UNCHANGED threadsToExit
       \/ /\ gobbled \in 0..(Reserve - 1)
          /\ Spawn(Reserve - gobbled)
          /\ UNCHANGED <<threadsEaten, threadsToExit>>
       \/ /\ gobbled > Reserve
          /\ KillFreeThreads(gobbled - Reserve)
          /\ threadsEaten' = Reserve
          /\ UNCHANGED pc
       \/ /\ gobbled = Reserve
          /\ UNCHANGED <<threadsEaten, threadsToExit, thrVars>>
    /\ UNCHANGED <<m_activeThreads, m_freeThreads, taskVars, phase, fault>>

\* Shutdown up to its loop: free threads are killed, active ones are to exit
\* when their task ends, and the tasks are told to.
Shutdown ==
    LET idle == {t \in m_activeThreads : target[t] = Null}
        busy == m_activeThreads \ idle
    IN
    /\ phase = "running"
    /\ IF \E t \in busy : task[target[t]] = "deleted"
       THEN fault' = TRUE /\ UNCHANGED <<threadsToExit, thrVars, told, phase>>
       ELSE /\ phase' = "stopping"
            /\ threadsToExit' = ExitTokens
            /\ told' = told \cup {target[t] : t \in busy}
            /\ target' = [t \in Threads |->
                             IF t \in m_freeThreads THEN Null ELSE target[t]]
            /\ deleteAfterExit' = [t \in Threads |->
                             t \in m_freeThreads \/ deleteAfterExit[t]]
            /\ posts' = Resumed(m_freeThreads \cup idle)
            /\ UNCHANGED <<pc, fault>>
    /\ UNCHANGED <<m_activeThreads, m_freeThreads, threadsEaten, task, checks>>

\* One turn of the loop, every second; the first one resumes nobody.
AwaitThreads ==
    /\ phase \in {"stopping", "again"}
    /\ \/ /\ m_activeThreads \cup m_freeThreads # {}
          /\ phase' = "again"
          /\ IF phase = "again"
             THEN /\ \A t \in m_freeThreads : posts[t] < MaxPosts
                  /\ posts' = Resumed(m_freeThreads)
             ELSE UNCHANGED posts
       \/ /\ m_activeThreads \cup m_freeThreads = {}
          /\ phase' = "stopped"
          /\ UNCHANGED posts
    /\ UNCHANGED <<poolVars, pc, target, deleteAfterExit, taskVars, checks,
                   fault>>

-------------------------------------------------------------------------------
ThreadStep(t) ==
    \/ CheckTarget(t) \/ CallRun(t) \/ ClearTarget(t) \/ ThreadExit(t)
    \/ Suspend(t) \/ WakeUp(t)

Next ==
    \/ /\ ~fault
       /\ \/ \E t \in Threads : ThreadStep(t) \/ RunEnds(t)
          \/ \E k \in Tasks : ExecuteTask(k)
          \/ IntegrityCheck \/ Shutdown \/ AwaitThreads
    \/ (fault \/ phase = "stopped") /\ UNCHANGED vars

Spec == Init /\ [][Next]_vars

\* Every thread is scheduled and a task ends once it has been told to.
Fairness ==
    /\ \A t \in Threads :
          /\ WF_vars(~fault /\ ThreadStep(t))
          /\ WF_vars(~fault /\ target[t] \in told /\ RunEnds(t))
    /\ WF_vars(~fault /\ AwaitThreads)

FairSpec == Spec /\ Fairness

-------------------------------------------------------------------------------
\* Every variable holds a value of its kind.
TypeOK ==
    /\ m_activeThreads \subseteq Threads
    /\ m_freeThreads \subseteq Threads
    /\ threadsToExit \in Nat
    /\ threadsEaten \in Int
    /\ pc \in [Threads -> PCs]
    /\ target \in [Threads -> Tasks \cup {Null}]
    /\ deleteAfterExit \in [Threads -> BOOLEAN]
    /\ posts \in [Threads -> Nat]
    /\ task \in [Tasks -> {"new", "given", "running", "deleted"}]
    /\ told \subseteq Tasks
    /\ phase \in {"running", "stopping", "again", "stopped"}
    /\ checks \in Nat
    /\ fault \in BOOLEAN

(* Safety *)

\* A thread that deletes itself is in no set of the pool when it does, with
\* whatever tokens, marks and wake-ups it got there, and no thread is both
\* free and active: the pool never resumes or hands out a deleted Thread.
NoDanglingThread ==
    /\ m_activeThreads \cup m_freeThreads \subseteq Live
    /\ m_activeThreads \cap m_freeThreads = {}

\* "resume the thread, and it should start working": a task submitted before
\* Shutdown stays the target of a thread until it runs, and a thread that runs
\* one is active, as Shutdown calls OnShutdown for the active threads only.
\* KillFreeThreads may take a task's thread away, so it is said as long as no
\* check has been made.
TasksKept ==
    checks = 0 =>
        /\ \A k \in Tasks :
              (task[k] = "given" /\ (phase = "running" \/ k \in told))
                  => \E t \in Live : target[t] = k
        /\ \A t \in Threads :
              (phase = "running" /\ pc[t] \in {"call", "run", "clear"})
                  => t \in m_activeThreads

(* Liveness; each says "or the process has died". *)

\* "resume the thread, and it should start working": a task submitted before
\* Shutdown runs, if no check is ever made.
TasksStart ==
    [](checks = 0) =>
        \A k \in Tasks : (task[k] = "given" /\ phase = "running")
                            ~> (task[k] # "given" \/ fault)

\* "All we need to do is to resume it": Shutdown ends.
ShutdownEnds == phase = "stopping" ~> (phase = "stopped" \/ fault)

\* It does if every thread there is was known to the pool when it began and
\* no task was submitted after.
KnownThreadsEnd ==
    [](phase # "running" =>
           /\ Live \subseteq m_activeThreads \cup m_freeThreads
           /\ \A k \in Tasks : task[k] \in {"given", "running"} => k \in told)
        => ShutdownEnds
===============================================================================
