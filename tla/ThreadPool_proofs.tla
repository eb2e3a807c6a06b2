--------------------------- MODULE ThreadPool_proofs ---------------------------
(***************************************************************************)
(* The pool's sets hold live threads only, and no task is lost before an   *)
(* integrity check, for every number of threads and tasks and both kinds   *)
(* of suspension.                                                          *)
(***************************************************************************)
EXTENDS ThreadPool, FiniteSetTheorems, WellFoundedInduction, TLAPS

Suspending == {"suspend", "asleep"}

\* Before Shutdown, a thread that was not chosen to die is awake with no
\* wake-up left over, suspended in the free pool with none, or suspended
\* with the one its new task came with.  So only a marked thread, which
\* takes itself out of the free pool, can reach ThreadExit while in it.
Unmarked(t) ==
    /\ pc[t] \notin Suspending => posts[t] = 0 /\ t \notin m_freeThreads
    /\ t \in m_freeThreads => posts[t] = 0
    /\ posts[t] <= 1

UnmarkedQuiet ==
    phase = "running" => \A t \in Threads : deleteAfterExit[t] \/ Unmarked(t)

\* After it, an unmarked thread is in the free pool only when no thread has
\* to exit any more.
TokensSpent ==
    phase # "running" =>
        \A t \in m_freeThreads : deleteAfterExit[t] \/ threadsToExit = 0

IInv == TypeOK /\ NoDanglingThread /\ UnmarkedQuiet /\ TokensSpent

-------------------------------------------------------------------------------
\* A set of threads that is not empty has a first one.
LEMMA FirstIn ==
    ASSUME NEW S, S \subseteq Threads, S # {}
    PROVE  First(S) \in S
  <1>1. S \subseteq Nat
    BY PoolAssumption DEF PoolAssumption
  <1>2. PICK t \in S : \A u \in S : ~ (<<u, t>> \in OpToRel(<, Nat))
    BY <1>1, NatLessThanWellFounded, WFMin
  <1>3. ASSUME NEW u \in S PROVE t <= u
    <2>1. u \in Nat /\ t \in Nat
      BY <1>1
    <2>2. ~ (u < t)
      BY <1>2, <2>1 DEF OpToRel
    <2> QED BY <2>1, <2>2
  <1> QED BY <1>3 DEF First

\* The pool's sets can be counted.
LEMMA Countable ==
    ASSUME NEW S, S \subseteq Threads
    PROVE  IsFiniteSet(S) /\ Cardinality(S) \in Nat
  BY PoolAssumption, FS_Subset, FS_CardinalityType DEF PoolAssumption

\* Resume posts at most one more wake-up, and only to the threads named.
LEMMA ResumedType ==
    ASSUME TypeOK, NEW S
    PROVE  /\ Resumed(S) \in [Threads -> Nat]
           /\ \A t \in Threads : t \notin S => Resumed(S)[t] = posts[t]
           /\ \A t \in Threads : posts[t] = 0 => Resumed(S)[t] <= 1
  BY PoolAssumption DEF TypeOK, Resumed, PoolAssumption

LEMMA FirstOfType == \A S, n : FirstOf(S, n) \subseteq S
  BY DEF FirstOf

-------------------------------------------------------------------------------
\* The pool starts with live threads in no set.
LEMMA InitIInv == Init => IInv
  <1> SUFFICES ASSUME Init PROVE IInv
    OBVIOUS
  <1> USE DEF Init
  <1>1. TypeOK
    <2>1. pc \in [Threads -> PCs]
      BY DEF PCs
    <2>2. /\ m_activeThreads = {} /\ m_freeThreads = {} /\ told = {}
          /\ threadsToExit = 0 /\ threadsEaten = 0 /\ checks = 0
          /\ fault \in BOOLEAN /\ phase = "running"
      BY Zenon
    <2>3. /\ target \in [Threads -> Tasks \cup {Null}]
          /\ deleteAfterExit \in [Threads -> BOOLEAN]
          /\ posts \in [Threads -> Nat]
          /\ task \in [Tasks -> {"new", "given", "running", "deleted"}]
      OBVIOUS
    <2> HIDE DEF Init
    <2> QED BY <2>1, <2>2, <2>3 DEF TypeOK
  <1>2. NoDanglingThread
    BY DEF NoDanglingThread
  <1>3. UnmarkedQuiet
    BY DEF UnmarkedQuiet, Unmarked
  <1>4. TokensSpent
    BY DEF TokensSpent
  <1> QED BY <1>1, <1>2, <1>3, <1>4 DEF IInv

\* Steps that touch neither the pool's sets nor its tokens nor a mark, and
\* leave every post where it is or take one from a thread that wakes up.
LEMMA OutsideKeepsIInv ==
    ASSUME IInv, NEW t \in Threads,
           CheckTarget(t) \/ CallRun(t) \/ RunEnds(t) \/ ClearTarget(t)
             \/ Suspend(t) \/ WakeUp(t)
    PROVE  IInv'
  <1> USE DEF IInv
  <1> DEFINE Steps == CheckTarget(t) \/ CallRun(t) \/ RunEnds(t)
                        \/ ClearTarget(t) \/ Suspend(t) \/ WakeUp(t)
  <1>a. UNCHANGED <<m_activeThreads, m_freeThreads, threadsToExit,
                    deleteAfterExit, phase>>
    BY DEF CheckTarget, CallRun, RunEnds, ClearTarget, Suspend, WakeUp,
           poolVars, mainVars
  <1>b. pc[t] # "absent" /\ pc' \in [Threads -> PCs]
        /\ \A u \in Threads : u # t => pc'[u] = pc[u]
    BY DEF CheckTarget, CallRun, RunEnds, ClearTarget, Suspend, WakeUp, Goto,
           TypeOK, PCs
  <1>c. pc'[t] # "absent"
    BY DEF CheckTarget, CallRun, RunEnds, ClearTarget, Suspend, WakeUp, Goto,
           TypeOK, PCs
  <1>1. TypeOK'
    <2>1. posts' \in [Threads -> Nat]
      BY DEF CheckTarget, CallRun, RunEnds, ClearTarget, Suspend, WakeUp,
             TypeOK
    <2>2. target' \in [Threads -> Tasks \cup {Null}]
      BY DEF CheckTarget, CallRun, RunEnds, ClearTarget, Suspend, WakeUp,
             TypeOK, thrVars
    <2>3. task' \in [Tasks -> {"new", "given", "running", "deleted"}]
          /\ told' \subseteq Tasks
      BY DEF CheckTarget, CallRun, RunEnds, ClearTarget, Suspend, WakeUp,
             TypeOK, taskVars
    <2>4. threadsEaten' \in Int /\ checks' \in Nat /\ fault' \in BOOLEAN
      BY DEF CheckTarget, CallRun, RunEnds, ClearTarget, Suspend, WakeUp,
             TypeOK, poolVars, mainVars
    <2> QED BY <1>a, <1>b, <2>1, <2>2, <2>3, <2>4 DEF TypeOK
  <1>2. NoDanglingThread'
    BY <1>a, <1>b, <1>c DEF NoDanglingThread, Live, TypeOK
  <1>3. UnmarkedQuiet'
    <2> SUFFICES ASSUME phase = "running", NEW u \in Threads,
                        ~deleteAfterExit[u]
                 PROVE  Unmarked(u)'
      BY <1>a DEF UnmarkedQuiet
    <2>1. Unmarked(u)
      BY DEF UnmarkedQuiet
    <2>2. CASE u # t
      <3>1. posts'[u] = posts[u]
        BY <2>2 DEF CheckTarget, CallRun, RunEnds, ClearTarget, Suspend,
                    WakeUp, TypeOK
      <3> QED BY <1>a, <1>b, <2>1, <2>2, <3>1 DEF Unmarked
    <2>3. CASE u = t /\ WakeUp(t)
      <3>1. posts'[t] = posts[t] - 1 /\ posts[t] > 0 /\ posts[t] \in Nat
        BY <2>3 DEF WakeUp, TypeOK
      <3> QED BY <1>a, <2>1, <2>3, <3>1 DEF Unmarked, Suspending
    <2>4. CASE u = t /\ ~WakeUp(t)
      <3>1. posts'[t] = posts[t]
        BY <2>4 DEF CheckTarget, CallRun, RunEnds, ClearTarget, Suspend
      <3>2. pc[t] \in Suspending => pc'[t] \in Suspending
        BY <2>4 DEF CheckTarget, CallRun, RunEnds, ClearTarget, Suspend,
                    Goto, Suspending, TypeOK
      <3> QED BY <1>a, <2>1, <2>4, <3>1, <3>2 DEF Unmarked
    <2> QED BY <2>2, <2>3, <2>4
  <1>4. TokensSpent'
    BY <1>a DEF TokensSpent
  <1> QED BY <1>1, <1>2, <1>3, <1>4

LEMMA ThreadExitKeepsIInv ==
    ASSUME IInv, NEW t \in Threads, ThreadExit(t)
    PROVE  IInv'
  <1> USE DEF IInv
  <1>a. /\ pc[t] = "exit" /\ m_activeThreads' = m_activeThreads \ {t}
        /\ phase' = phase /\ pc' \in [Threads -> PCs]
        /\ \A u \in Threads : u # t => pc'[u] = pc[u]
    BY DEF ThreadExit, Goto, TypeOK, PCs, mainVars
  <1>1. CASE threadsToExit > 0
    <2>a. /\ threadsToExit' = threadsToExit - 1 /\ threadsToExit' \in Nat
          /\ m_freeThreads' = Survivors(t) /\ pc'[t] = "absent"
          /\ deleteAfterExit' = [deleteAfterExit EXCEPT ![t] = FALSE]
          /\ posts' = [posts EXCEPT ![t] = 0]
          /\ target' = [target EXCEPT ![t] = Null]
          /\ UNCHANGED <<threadsEaten, taskVars, mainVars, fault>>
      BY <1>1 DEF ThreadExit, MustExit, Goto, TypeOK
    <2>b. m_freeThreads' = m_freeThreads \ {t}
      <3>1. CASE deleteAfterExit[t]
        BY <2>a, <3>1 DEF Survivors
      <3>2. CASE ~deleteAfterExit[t]
        <4>1. t \notin m_freeThreads
          BY <1>1, <1>a, <3>2
             DEF UnmarkedQuiet, TokensSpent, Unmarked, Suspending, TypeOK
        <4> QED BY <2>a, <3>2, <4>1 DEF Survivors
      <3> QED BY <3>1, <3>2
    <2>1. TypeOK'
      BY <1>a, <2>a, <2>b DEF TypeOK, taskVars, mainVars
    <2>2. NoDanglingThread'
      BY <1>a, <2>a, <2>b DEF NoDanglingThread, Live, TypeOK
    <2>3. UnmarkedQuiet'
      BY <1>a, <2>a, <2>b DEF UnmarkedQuiet, Unmarked, Suspending, TypeOK
    <2>4. TokensSpent'
      BY <1>1, <1>a, <2>a, <2>b DEF TokensSpent, TypeOK
    <2> QED BY <2>1, <2>2, <2>3, <2>4
  <1>2. CASE ~(threadsToExit > 0)
    <2>a. /\ m_freeThreads' = m_freeThreads \cup {t} /\ pc'[t] = "suspend"
          /\ UNCHANGED <<threadsToExit, target, deleteAfterExit, posts,
                         taskVars, mainVars, fault>>
      BY <1>2 DEF ThreadExit, MustExit, Goto, TypeOK
    <2>b. threadsEaten' \in Int /\ threadsToExit = 0
      BY <1>2 DEF ThreadExit, MustExit, TypeOK
    <2>1. TypeOK'
      BY <1>a, <2>a, <2>b DEF TypeOK, taskVars, mainVars
    <2>2. NoDanglingThread'
      BY <1>a, <2>a DEF NoDanglingThread, Live, TypeOK
    <2>3. UnmarkedQuiet'
      BY <1>a, <2>a DEF UnmarkedQuiet, Unmarked, Suspending, TypeOK
    <2>4. TokensSpent'
      BY <1>a, <2>a, <2>b DEF TokensSpent, TypeOK
    <2> QED BY <2>1, <2>2, <2>3, <2>4
  <1> QED BY <1>1, <1>2

LEMMA ExecuteTaskKeepsIInv ==
    ASSUME IInv, NEW k \in Tasks, ExecuteTask(k)
    PROVE  IInv'
  <1> USE DEF IInv
  <1>a. /\ threadsEaten' \in Int
        /\ task' \in [Tasks -> {"new", "given", "running", "deleted"}]
        /\ UNCHANGED <<threadsToExit, told, mainVars, fault>>
    BY DEF ExecuteTask, TypeOK
  <1>1. CASE m_freeThreads # {}
    <2> DEFINE t == First(m_freeThreads)
    <2>a. t \in m_freeThreads /\ t \in Threads
      BY <1>1, FirstIn DEF TypeOK
    <2>b. /\ m_freeThreads' = m_freeThreads \ {t}
          /\ m_activeThreads' = m_activeThreads \cup {t}
          /\ target' = [target EXCEPT ![t] = k]
          /\ posts' = Resumed({t})
          /\ UNCHANGED <<pc, deleteAfterExit>>
      BY <1>1 DEF ExecuteTask, StillFree
    <2> HIDE DEF t
    <2>c. /\ posts' \in [Threads -> Nat]
          /\ \A u \in Threads : u # t => posts'[u] = posts[u]
          /\ posts[t] = 0 => posts'[t] <= 1
      BY <2>a, <2>b, ResumedType
    <2>1. TypeOK'
      BY <1>a, <2>a, <2>b, <2>c DEF TypeOK, mainVars
    <2>2. NoDanglingThread'
      BY <2>a, <2>b DEF NoDanglingThread, Live, TypeOK
    <2>3. UnmarkedQuiet'
      BY <1>a, <2>a, <2>b, <2>c DEF UnmarkedQuiet, Unmarked, TypeOK, mainVars
    <2>4. TokensSpent'
      BY <1>a, <2>a, <2>b DEF TokensSpent, TypeOK, mainVars
    <2> QED BY <2>1, <2>2, <2>3, <2>4
  <1>2. CASE m_freeThreads = {}
    <2>a. PICK t \in Threads \ Live :
                  /\ StartThreads({t}, k)
                  /\ m_activeThreads' = m_activeThreads \cup {t}
                  /\ UNCHANGED m_freeThreads
      BY <1>2 DEF ExecuteTask
    <2>1. TypeOK'
      BY <1>a, <2>a DEF TypeOK, StartThreads, PCs, mainVars
    <2>2. NoDanglingThread'
      BY <1>2, <2>a DEF NoDanglingThread, Live, StartThreads, TypeOK
    <2>3. UnmarkedQuiet'
      BY <1>a, <1>2, <2>a
         DEF UnmarkedQuiet, Unmarked, Suspending, StartThreads, TypeOK,
             mainVars
    <2>4. TokensSpent'
      BY <1>2, <2>a DEF TokensSpent
    <2> QED BY <2>1, <2>2, <2>3, <2>4
  <1> QED BY <1>1, <1>2

\* A step that leaves every thread where it is, keeps the pool's sets and
\* marks at least the free threads it resumes.
LEMMA MarkingKeepsIInv ==
    ASSUME IInv, TypeOK', NEW S, phase = "running",
           UNCHANGED <<m_activeThreads, m_freeThreads, pc>>,
           \A t \in Threads : deleteAfterExit[t] => deleteAfterExit'[t],
           \A t \in Threads : t \notin S => posts'[t] = posts[t],
           \/ phase' = phase /\ \A t \in S : t \in Threads => deleteAfterExit'[t]
           \/ phase' # "running" /\ \A t \in m_freeThreads : deleteAfterExit'[t]
    PROVE  IInv'
  <1> USE DEF IInv
  <1>1. NoDanglingThread'
    BY DEF NoDanglingThread, Live
  <1>2. UnmarkedQuiet'
    <2> SUFFICES ASSUME phase' = "running", NEW t \in Threads,
                        ~deleteAfterExit'[t]
                 PROVE  Unmarked(t)'
      BY DEF UnmarkedQuiet
    <2>1. t \notin S /\ ~deleteAfterExit[t]
      OBVIOUS
    <2>2. posts'[t] = posts[t]
      BY <2>1
    <2>3. Unmarked(t)
      BY <2>1 DEF UnmarkedQuiet
    <2> QED BY <2>2, <2>3 DEF Unmarked
  <1>3. TokensSpent'
    BY DEF TokensSpent, TypeOK
  <1> QED BY <1>1, <1>2, <1>3

LEMMA IntegrityCheckKeepsIInv ==
    ASSUME IInv, IntegrityCheck
    PROVE  IInv'
  <1> USE DEF IInv
  <1>a. /\ phase = "running" /\ checks' \in Nat
        /\ UNCHANGED <<m_activeThreads, m_freeThreads, taskVars, phase, fault>>
    BY DEF IntegrityCheck, TypeOK
  <1>1. ASSUME NEW S \in SUBSET (Threads \ Live), StartThreads(S, Null),
               threadsEaten' \in Int, UNCHANGED threadsToExit
        PROVE  IInv'
    <2>1. TypeOK'
      BY <1>a, <1>1 DEF TypeOK, StartThreads, PCs, taskVars
    <2>2. NoDanglingThread'
      BY <1>a, <1>1 DEF NoDanglingThread, Live, StartThreads, TypeOK
    <2>3. UnmarkedQuiet'
      BY <1>a, <1>1 DEF UnmarkedQuiet, Unmarked, Suspending, StartThreads,
                        TypeOK, NoDanglingThread, Live
    <2>4. TokensSpent'
      BY <1>a DEF TokensSpent
    <2> QED BY <2>1, <2>2, <2>3, <2>4
  <1>2. CASE threadsEaten > Reserve
    <2> DEFINE S == FirstOf(m_freeThreads, threadsEaten - Reserve)
    <2>a. /\ target' = [t \in Threads |-> IF t \in S THEN Null ELSE target[t]]
          /\ deleteAfterExit' = [t \in Threads |-> t \in S \/ deleteAfterExit[t]]
          /\ threadsToExit' = threadsToExit + Cardinality(S)
          /\ posts' = Resumed(S)
          /\ threadsEaten' = Reserve /\ UNCHANGED pc
      BY <1>2, PoolAssumption
         DEF IntegrityCheck, KillFreeThreads, TypeOK, PoolAssumption
    <2>b. S \subseteq Threads
      BY FirstOfType DEF TypeOK
    <2> HIDE DEF S
    <2>c. Cardinality(S) \in Nat
      BY <2>b, Countable
    <2>d. /\ posts' \in [Threads -> Nat]
          /\ \A t \in Threads : t \notin S => posts'[t] = posts[t]
      BY <2>a, ResumedType
    <2>1. TypeOK'
      BY <1>a, <2>a, <2>c, <2>d, PoolAssumption
         DEF TypeOK, taskVars, PoolAssumption
    <2> QED BY <1>a, <2>a, <2>d, <2>1, MarkingKeepsIInv DEF TypeOK
  <1>3. CASE threadsEaten = Reserve
    <2>1. UNCHANGED <<threadsEaten, threadsToExit, thrVars>>
      BY <1>3, PoolAssumption DEF IntegrityCheck, TypeOK, PoolAssumption
    <2>2. TypeOK'
      BY <1>a, <2>1 DEF TypeOK, taskVars, thrVars
    <2>3. NoDanglingThread' /\ UnmarkedQuiet' /\ TokensSpent'
      BY <1>a, <2>1 DEF NoDanglingThread, Live, UnmarkedQuiet, Unmarked,
                        TokensSpent, thrVars
    <2> QED BY <2>2, <2>3
  <1>4. CASE threadsEaten < Reserve
    <2>1. PICK S \in SUBSET (Threads \ Live) : StartThreads(S, Null)
      BY <1>4, PoolAssumption DEF IntegrityCheck, TypeOK, PoolAssumption
    <2>2. threadsEaten' \in Int /\ UNCHANGED threadsToExit
      BY <1>4, PoolAssumption DEF IntegrityCheck, TypeOK, PoolAssumption
    <2> QED BY <1>1, <2>1, <2>2
  <1> QED BY <1>2, <1>3, <1>4, PoolAssumption DEF TypeOK, PoolAssumption

LEMMA ShutdownKeepsIInv ==
    ASSUME IInv, Shutdown
    PROVE  IInv'
  <1> USE DEF IInv
  <1> DEFINE idle == {t \in m_activeThreads : target[t] = Null}
             busy == m_activeThreads \ idle
  <1>a. /\ phase = "running"
        /\ UNCHANGED <<m_activeThreads, m_freeThreads, threadsEaten, task, checks>>
    BY DEF Shutdown
  <1>1. CASE \E t \in busy : task[target[t]] = "deleted"
    <2>1. fault' = TRUE
          /\ UNCHANGED <<threadsToExit, thrVars, told, phase>>
      BY <1>1 DEF Shutdown
    <2>2. fault' \in BOOLEAN
      BY <2>1
    <2>3. TypeOK'
      BY <1>a, <2>1, <2>2 DEF TypeOK, thrVars
    <2> QED BY <1>a, <2>1, <2>3
            DEF NoDanglingThread, Live, UnmarkedQuiet, Unmarked, TokensSpent,
                thrVars
  <1>2. CASE ~(\E t \in busy : task[target[t]] = "deleted")
    <2>a. /\ phase' = "stopping" /\ threadsToExit' = ExitTokens
          /\ told' = told \cup {target[t] : t \in busy}
          /\ target' = [t \in Threads |->
                           IF t \in m_freeThreads THEN Null ELSE target[t]]
          /\ deleteAfterExit' = [t \in Threads |->
                           t \in m_freeThreads \/ deleteAfterExit[t]]
          /\ posts' = Resumed(m_freeThreads \cup idle)
          /\ UNCHANGED <<pc, fault>>
      BY <1>2 DEF Shutdown
    <2>b. threadsToExit' \in Nat
      BY <2>a, Countable DEF ExitTokens, TypeOK
    <2>c. \A t \in busy : target[t] \in Tasks
      BY DEF TypeOK
    <2>d. /\ posts' \in [Threads -> Nat]
          /\ \A t \in Threads : t \notin m_freeThreads \cup idle
                                 => posts'[t] = posts[t]
      BY <2>a, ResumedType
    <2>1. TypeOK'
      <3>1. told' \subseteq Tasks
        BY <2>a, <2>c DEF TypeOK
      <3> HIDE DEF idle, busy
      <3> QED BY <1>a, <2>a, <2>b, <2>d, <3>1 DEF TypeOK
    <2> HIDE DEF idle, busy
    <2> QED BY <1>a, <2>a, <2>d, <2>1, MarkingKeepsIInv DEF TypeOK
  <1> QED BY <1>1, <1>2

LEMMA AwaitThreadsKeepsIInv ==
    ASSUME IInv, AwaitThreads
    PROVE  IInv'
  <1> USE DEF IInv
  <1>a. /\ phase # "running" /\ phase' \in {"again", "stopped"}
        /\ UNCHANGED <<poolVars, pc, target, deleteAfterExit, taskVars, checks,
                       fault>>
    BY DEF AwaitThreads
  <1>b. posts' \in [Threads -> Nat]
    BY ResumedType DEF AwaitThreads, TypeOK
  <1>1. TypeOK'
    BY <1>a, <1>b DEF TypeOK, poolVars, taskVars
  <1>2. NoDanglingThread' /\ UnmarkedQuiet' /\ TokensSpent'
    BY <1>a DEF NoDanglingThread, Live, UnmarkedQuiet, TokensSpent, poolVars
  <1> QED BY <1>1, <1>2

LEMMA StutterKeepsIInv ==
    ASSUME IInv, UNCHANGED vars
    PROVE  IInv'
  BY DEF IInv, TypeOK, NoDanglingThread, Live, UnmarkedQuiet, Unmarked,
         TokensSpent, vars, poolVars, thrVars, taskVars, mainVars

\* IInv holds in every state of the pool.
THEOREM Invariance == Spec => []IInv
  <1>1. ASSUME IInv, [Next]_vars
        PROVE  IInv'
    <2>1. ASSUME NEW t \in Threads, ThreadStep(t) \/ RunEnds(t)
          PROVE  IInv'
      BY <1>1, <2>1, OutsideKeepsIInv, ThreadExitKeepsIInv DEF ThreadStep
    <2>2. ASSUME NEW k \in Tasks, ExecuteTask(k)
          PROVE  IInv'
      BY <1>1, <2>2, ExecuteTaskKeepsIInv
    <2>3. CASE IntegrityCheck
      BY <1>1, <2>3, IntegrityCheckKeepsIInv
    <2>4. CASE Shutdown
      BY <1>1, <2>4, ShutdownKeepsIInv
    <2>5. CASE AwaitThreads
      BY <1>1, <2>5, AwaitThreadsKeepsIInv
    <2>6. CASE UNCHANGED vars
      BY <1>1, <2>6, StutterKeepsIInv
    <2> QED BY <1>1, <2>1, <2>2, <2>3, <2>4, <2>5, <2>6 DEF Next
  <1> QED BY InitIInv, <1>1, PTL DEF Spec

\* Every variable of the pool always holds a value of its kind; in
\* particular _threadsToExit never wraps below zero.
THEOREM TypeCorrectness == Spec => []TypeOK
  <1>1. IInv => TypeOK
    BY DEF IInv
  <1> QED BY Invariance, <1>1, PTL

\* The pool never holds, resumes or hands out a deleted Thread, and no
\* thread is free and active at once.
THEOREM DanglingFreedom == Spec => []NoDanglingThread
  <1>1. IInv => NoDanglingThread
    BY DEF IInv
  <1> QED BY Invariance, <1>1, PTL

-------------------------------------------------------------------------------
(* No submitted task is lost while no check has been made.                 *)

Awaiting == {"check", "call", "suspend", "asleep"}

\* Before Shutdown no thread is marked; a thread with a task, or between the
\* task and its end, is active, and one about to exit has none.
HoldersActive ==
    (phase = "running" /\ checks = 0) =>
        \A t \in Threads :
            /\ ~deleteAfterExit[t]
            /\ target[t] # Null \/ pc[t] \in {"call", "run", "clear"}
                 => t \in m_activeThreads
            /\ pc[t] = "exit" => target[t] = Null

\* An active thread that has not begun a task yet holds each given task that
\* was submitted before Shutdown or told to end by it.
GivenAwaits ==
    checks = 0 =>
        \A k \in Tasks :
            (task[k] = "given" /\ (phase = "running" \/ k \in told))
                => \E t \in m_activeThreads :
                       target[t] = k /\ pc[t] \in Awaiting

\* A thread's target and a task told to end have been submitted.
Submitted ==
    /\ \A t \in Threads : target[t] # Null => task[target[t]] # "new"
    /\ \A k \in told : task[k] # "new"

KInv == HoldersActive /\ GivenAwaits /\ Submitted

LEMMA InitKInv == Init => KInv
  BY PoolAssumption
     DEF Init, KInv, HoldersActive, GivenAwaits, Submitted, PoolAssumption

\* The steps of one thread outside the pool's operations.
LEMMA OutsideKeepsKInv ==
    ASSUME IInv, KInv, NEW t \in Threads,
           CheckTarget(t) \/ CallRun(t) \/ RunEnds(t) \/ ClearTarget(t)
             \/ Suspend(t) \/ WakeUp(t)
    PROVE  KInv'
  <1> USE DEF KInv
  <1>a. /\ UNCHANGED <<m_activeThreads, m_freeThreads, deleteAfterExit, phase,
                       checks, told>>
        /\ TypeOK
    BY DEF CheckTarget, CallRun, RunEnds, ClearTarget, Suspend, WakeUp,
           poolVars, mainVars, taskVars, IInv
  <1>b. /\ \A u \in Threads : u # t => pc'[u] = pc[u] /\ target'[u] = target[u]
        /\ target'[t] = target[t]
             \/ (pc[t] = "clear" /\ pc'[t] = "exit" /\ target'[t] = Null)
    BY DEF CheckTarget, CallRun, RunEnds, ClearTarget, Suspend, WakeUp, Goto,
           TypeOK, IInv, thrVars
  <1>c. /\ pc'[t] \in {"call", "run", "clear"}
             => pc[t] \in {"call", "run", "clear"} \/ target[t] # Null
        /\ pc'[t] = "exit" => target'[t] = Null
    BY <1>a DEF CheckTarget, CallRun, RunEnds, ClearTarget, Suspend, WakeUp,
                Goto, TypeOK
  <1>d. \A k \in Tasks : /\ task'[k] = "given" => task[k] = "given"
                         /\ task[k] # "new" => task'[k] # "new"
    BY <1>a DEF CheckTarget, CallRun, RunEnds, ClearTarget, Suspend, WakeUp,
                TypeOK, taskVars, Submitted
  <1>e. ASSUME NEW k \in Tasks, task'[k] = "given", target[t] = k,
               pc[t] \in Awaiting
        PROVE  target'[t] = k /\ pc'[t] \in Awaiting
    <2>1. k # Null
      BY PoolAssumption DEF PoolAssumption
    <2> QED BY <1>a, <1>e, <2>1
            DEF CheckTarget, CallRun, RunEnds, ClearTarget, Suspend, WakeUp,
                Goto, TypeOK, Awaiting
  <1>1. HoldersActive'
    BY <1>a, <1>b, <1>c DEF HoldersActive
  <1>2. GivenAwaits'
    <2> SUFFICES ASSUME checks = 0, NEW k \in Tasks, task'[k] = "given",
                        phase = "running" \/ k \in told
                 PROVE  \E u \in m_activeThreads :
                            target'[u] = k /\ pc'[u] \in Awaiting
      BY <1>a DEF GivenAwaits
    <2>1. PICK u \in m_activeThreads : target[u] = k /\ pc[u] \in Awaiting
      BY <1>d DEF GivenAwaits
    <2>2. u \in Threads
      BY <1>a DEF TypeOK
    <2> QED BY <1>b, <1>e, <2>1, <2>2
  <1>3. Submitted'
    BY <1>a, <1>b, <1>d DEF Submitted, TypeOK
  <1> QED BY <1>1, <1>2, <1>3

\* A thread exits with no task that waits for it.
LEMMA ThreadExitKeepsKInv ==
    ASSUME IInv, KInv, NEW t \in Threads, ThreadExit(t)
    PROVE  KInv'
  <1> USE DEF KInv
  <1>a. /\ pc[t] = "exit" /\ m_activeThreads' = m_activeThreads \ {t}
        /\ pc'[t] \in {"absent", "suspend"}
        /\ \A u \in Threads : u # t => pc'[u] = pc[u]
        /\ UNCHANGED <<taskVars, mainVars>>
        /\ TypeOK
    BY DEF ThreadExit, Goto, TypeOK, IInv
  <1>b. /\ \A u \in Threads :
              /\ u # t => target'[u] = target[u]
              /\ deleteAfterExit'[u] => deleteAfterExit[u]
        /\ target'[t] = target[t] \/ target'[t] = Null
    BY <1>a DEF ThreadExit, TypeOK
  <1>1. HoldersActive'
    BY <1>a, <1>b DEF HoldersActive, mainVars
  <1>2. GivenAwaits'
    <2> SUFFICES ASSUME checks = 0, NEW k \in Tasks, task[k] = "given",
                        phase = "running" \/ k \in told
                 PROVE  \E u \in m_activeThreads' :
                            target'[u] = k /\ pc'[u] \in Awaiting
      BY <1>a DEF GivenAwaits, mainVars, taskVars
    <2>1. PICK u \in m_activeThreads : target[u] = k /\ pc[u] \in Awaiting
      BY DEF GivenAwaits
    <2>2. u \in Threads /\ u # t
      BY <1>a, <2>1 DEF TypeOK, Awaiting
    <2> QED BY <1>a, <1>b, <2>1, <2>2
  <1>3. Submitted'
    BY <1>a, <1>b DEF Submitted, taskVars
  <1> QED BY <1>1, <1>2, <1>3

\* A task is given to a suspended thread, or to a new one.
LEMMA ExecuteTaskKeepsKInv ==
    ASSUME IInv, KInv, NEW k \in Tasks, ExecuteTask(k)
    PROVE  KInv'
  <1> USE DEF KInv
  <1>a. /\ task[k] = "new" /\ task' = [task EXCEPT ![k] = "given"]
        /\ UNCHANGED <<told, phase, checks>> /\ k # Null
        /\ TypeOK /\ NoDanglingThread
    BY PoolAssumption DEF ExecuteTask, mainVars, IInv, PoolAssumption
  <1>b. k \notin told
    BY <1>a DEF Submitted
  <1>1. PICK t \in Threads :
           /\ t \notin m_activeThreads
           /\ m_activeThreads' = m_activeThreads \cup {t}
           /\ target'[t] = k
           /\ \A u \in Threads \ {t} : /\ target'[u] = target[u]
                                       /\ pc'[u] = pc[u]
           /\ \A u \in Threads : deleteAfterExit'[u] => deleteAfterExit[u]
           /\ phase = "running" /\ checks = 0 =>
                 pc'[t] \in {"check", "suspend", "asleep"}
    <2>1. CASE m_freeThreads # {}
      <3> DEFINE t == First(m_freeThreads)
      <3>a. t \in m_freeThreads /\ t \in Threads /\ t \notin m_activeThreads
        BY <1>a, <2>1, FirstIn DEF TypeOK, NoDanglingThread
      <3>b. /\ m_activeThreads' = m_activeThreads \cup {t}
            /\ target' = [target EXCEPT ![t] = k]
            /\ UNCHANGED <<pc, deleteAfterExit>>
        BY <2>1 DEF ExecuteTask
      <3> HIDE DEF t
      <3>c. phase = "running" /\ checks = 0 => pc[t] \in Suspending
        BY <3>a DEF IInv, UnmarkedQuiet, Unmarked, HoldersActive
      <3> QED BY <1>a, <3>a, <3>b, <3>c DEF TypeOK, Suspending
    <2>2. CASE m_freeThreads = {}
      <3>a. PICK t \in Threads \ Live :
                    /\ StartThreads({t}, k)
                    /\ m_activeThreads' = m_activeThreads \cup {t}
        BY <2>2 DEF ExecuteTask
      <3>b. t \notin m_activeThreads
        BY <1>a, <3>a DEF NoDanglingThread
      <3> QED BY <1>a, <3>a, <3>b DEF StartThreads, TypeOK
    <2> QED BY <2>1, <2>2
  <1>2. HoldersActive'
    BY <1>a, <1>1 DEF HoldersActive
  <1>3. GivenAwaits'
    <2> SUFFICES ASSUME checks = 0, NEW j \in Tasks, task'[j] = "given",
                        phase = "running" \/ j \in told
                 PROVE  \E u \in m_activeThreads' :
                            target'[u] = j /\ pc'[u] \in Awaiting
      BY <1>a DEF GivenAwaits
    <2>1. CASE j = k
      BY <1>b, <1>1, <2>1 DEF Awaiting
    <2>2. CASE j # k
      <3>1. task[j] = "given"
        BY <1>a, <2>2 DEF TypeOK
      <3>2. PICK u \in m_activeThreads : target[u] = j /\ pc[u] \in Awaiting
        BY <3>1 DEF GivenAwaits
      <3> QED BY <1>a, <1>1, <3>2 DEF TypeOK
    <2> QED BY <2>1, <2>2
  <1>4. Submitted'
    BY <1>a, <1>1 DEF Submitted, TypeOK
  <1> QED BY <1>2, <1>3, <1>4

\* Shutdown tells the targets of active threads only.
LEMMA ShutdownKeepsKInv ==
    ASSUME IInv, KInv, Shutdown
    PROVE  KInv'
  <1> USE DEF KInv
  <1> DEFINE idle == {t \in m_activeThreads : target[t] = Null}
             busy == m_activeThreads \ idle
  <1>a. /\ phase = "running" /\ TypeOK /\ NoDanglingThread
        /\ UNCHANGED <<m_activeThreads, task, checks>>
    BY DEF Shutdown, IInv
  <1>1. CASE \E t \in busy : task[target[t]] = "deleted"
    BY <1>a, <1>1 DEF Shutdown, HoldersActive, GivenAwaits, Submitted, thrVars
  <1>2. CASE ~(\E t \in busy : task[target[t]] = "deleted")
    <2>a. /\ phase' = "stopping" /\ pc' = pc
          /\ told' = told \cup {target[t] : t \in busy}
          /\ target' = [t \in Threads |->
                           IF t \in m_freeThreads THEN Null ELSE target[t]]
      BY <1>2 DEF Shutdown
    <2>1. HoldersActive'
      BY <2>a DEF HoldersActive
    <2>2. GivenAwaits'
      BY <1>a, <2>a DEF GivenAwaits, NoDanglingThread, TypeOK
    <2>3. Submitted'
      BY <1>a, <2>a DEF Submitted, TypeOK
    <2> QED BY <2>1, <2>2, <2>3
  <1> QED BY <1>1, <1>2

\* A check ends what the invariant promises; every new target is Null.
LEMMA IntegrityCheckKeepsKInv ==
    ASSUME IInv, KInv, IntegrityCheck
    PROVE  KInv'
  <1>a. checks' # 0 /\ UNCHANGED taskVars /\ TypeOK
    BY DEF IntegrityCheck, TypeOK, IInv
  <1>1. \A t \in Threads : target'[t] = target[t] \/ target'[t] = Null
    BY <1>a, PoolAssumption
       DEF IntegrityCheck, StartThreads, KillFreeThreads, TypeOK, thrVars,
           PoolAssumption
  <1> QED BY <1>a, <1>1
          DEF KInv, HoldersActive, GivenAwaits, Submitted, taskVars

LEMMA RestKeepsKInv ==
    ASSUME KInv, AwaitThreads \/ UNCHANGED vars
    PROVE  KInv'
  BY DEF KInv, HoldersActive, GivenAwaits, Submitted, AwaitThreads, vars,
         poolVars, thrVars, taskVars, mainVars

\* A task submitted before Shutdown stays with an active thread until it
\* runs, and the threads that run one are active, as long as no check has
\* been made.
THEOREM NoTaskLost == Spec => []TasksKept
  <1>1. ASSUME IInv, KInv, [Next]_vars
        PROVE  KInv'
    <2>1. ASSUME NEW t \in Threads, ThreadStep(t) \/ RunEnds(t)
          PROVE  KInv'
      BY <1>1, <2>1, OutsideKeepsKInv, ThreadExitKeepsKInv DEF ThreadStep
    <2>2. ASSUME NEW k \in Tasks, ExecuteTask(k)
          PROVE  KInv'
      BY <1>1, <2>2, ExecuteTaskKeepsKInv
    <2> QED BY <1>1, <2>1, <2>2, IntegrityCheckKeepsKInv, ShutdownKeepsKInv,
               RestKeepsKInv DEF Next
  <1>2. IInv /\ KInv => TasksKept
    BY DEF IInv, NoDanglingThread, KInv, HoldersActive, GivenAwaits, TasksKept
  <1> QED BY InitKInv, Invariance, <1>1, <1>2, PTL DEF Spec
===============================================================================
