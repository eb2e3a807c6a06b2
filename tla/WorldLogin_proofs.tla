--------------------------- MODULE WorldLogin_proofs ---------------------------
(***************************************************************************)
(* For any number of sockets, accounts, requests and socket workers: no    *)
(* freed session can be reached from the registry or the update set, the   *)
(* player limit is overshot by one at most, an updated session is the one  *)
(* of its account that a second login finds, unless that account has been  *)
(* let in twice through the login queue, and threads wait for each other   *)
(* in one circle only.  With one worker, as with epoll, the only pointers  *)
(* to freed sockets are those of clients that send CMSG_AUTH_SESSION again.*)
(***************************************************************************)
EXTENDS WorldLogin, FiniteSetTheorems, TLAPS

Disconnecting(t, l) == pc[t] \in DisconnectPCs /\ dret[t] = l

InCallback(w) ==
    pc[w] \in CallbackPCs \/ Disconnecting(w, "kicked") \/ Disconnecting(w, "end")

\* In the callback, before the session is made.
Early(w) ==
    pc[w] \in {"callback", "kick", "kicked", "create"} \/ Disconnecting(w, "kicked")

\* What reaches a worker from the network.
Arrival(w, s) ==
    \/ Drop(w, s) \/ HandleAuthSession(w, s)
    \/ \E n \in Nat : HandleSessionInfo(w, s, n)

\* A thread that is letting its current socket in.
Entering(t) ==
    pc[t] \in AuthenticatePCs \cup (IF t = World THEN {"lockSession"}
                                    ELSE {"admit", "enqueue"})

\* A session on its way in: with the thread that lets its socket in, or in
\* the login queue.
OnTheWay(s) == Queued(s) \/ \E t \in Threads : Entering(t) /\ cur[t] = s

\* What a handler works on is there while it works on it.
CursorsSet ==
    \A t \in Threads :
        /\ pc[t] \in DisconnectPCs => drop[t] \in Sockets
        /\ pc[t] \in {"setRequest", "setPacket", "lockSession", "unlockSession",
                      "pinged"} \cup CallbackPCs => cur[t] \in Sockets
        /\ pc[t] \in DisconnectPCs /\ dret[t] # "idle" => cur[t] \in Sockets
        /\ pc[t] \in {"kick", "kicked"} \/ Disconnecting(t, "kicked")
               => found[t] \in Sockets

\* Callbacks exclude each other, and run for a socket once.
CallbacksExclude ==
    /\ \A w \in Workers : InCallback(w) => pendingLock = w /\ authed[cur[w]]
    /\ \A w \in Workers : Early(w) => session[cur[w]] = "none"
    /\ \A s \in Sockets : ~authed[s] => session[s] = "none"

\* A session on its way in is not yet in the world, and is on one way only.
OneWayIn ==
    /\ \A s \in Sockets : OnTheWay(s) =>
          session[s] = "live" /\ s \notin updateSet \cup erasable
    /\ \A t \in Threads : Entering(t) => ~Queued(cur[t])
    /\ \A w \in Workers : Entering(w) /\ Entering(World) => cur[w] # cur[World]
    /\ \A i, j \in 1..Len(queue) : queue[i] = queue[j] => i = j

\* The sets the world thread walks, and the registry.
Bookkeeping ==
    /\ todo \subseteq updateSet
    /\ updateSet \cap erasable = {}
    /\ \A a \in Accounts : m_sessions[a] # Null => AccountOf[m_sessions[a]] = a
    /\ pc[World] = "deleteSessions" =>
          \A a \in Accounts : m_sessions[a] \notin erasable

IInv ==
    /\ TypeOK
    /\ CursorsSet
    /\ CallbacksExclude
    /\ OneWayIn
    /\ Bookkeeping
    /\ NoDanglingSession

-------------------------------------------------------------------------------
USE LoginAssumption DEF LoginAssumption, Threads, Goto, AuthenticatePCs,
    CallbackPCs, DisconnectPCs, QueuePCs, PassPCs,
    sockVars, sessVars, reqVars, regVars, queVars, thrVars

\* Withdrawing a flag from a socket leaves a flag.
LEMMA Booleans ==
    ASSUME NEW f \in [Sockets -> BOOLEAN], NEW s \in Sockets, NEW P
    PROVE  [f EXCEPT ![s] = @ /\ ~P] \in [Sockets -> BOOLEAN]
  <1>1. (f[s] /\ ~P) \in BOOLEAN
    OBVIOUS
  <1> QED BY <1>1

\* The first of a queue is a socket, and so are the others.
LEMMA QueueHead ==
    ASSUME queue \in Seq(Sockets), queue # <<>>
    PROVE  Head(queue) \in Sockets /\ Tail(queue) \in Seq(Sockets)
  OBVIOUS

\* The admission starts with nothing on its way.
LEMMA InitIInv == Init => IInv
  <1> SUFFICES ASSUME Init PROVE IInv
    OBVIOUS
  <1> USE DEF Init
  <1>1. TypeOK
    <2>1. /\ queue \in Seq(Sockets) /\ queueTimer \in Nat
          /\ pc \in [Threads -> PCs]
      BY DEF PCs
    <2>2. /\ deleteMutex \in [Sockets -> Threads \cup {Null}]
          /\ m_sessions \in [Accounts -> Sockets \cup {Null}]
          /\ cur \in [Threads -> Sockets \cup {Null}]
          /\ found \in [Threads -> Sockets \cup {Null}]
          /\ drop \in [Threads -> Sockets \cup {Null}]
          /\ dret \in [Threads -> {"idle", "kicked", "end", "pinged"}]
      OBVIOUS
    <2>3. RequestsTyped
      BY DEF RequestsTyped
    <2> QED BY <2>1, <2>2, <2>3 DEF TypeOK, Faults
  <1>2. CursorsSet
    BY DEF CursorsSet, Disconnecting
  <1>3. CallbacksExclude
    BY DEF CallbacksExclude, InCallback, Early, Disconnecting
  <1>4. OneWayIn
    BY DEF OneWayIn, OnTheWay, Entering, Queued
  <1>5. Bookkeeping
    BY DEF Bookkeeping
  <1>6. NoDanglingSession
    BY DEF NoDanglingSession
  <1> QED BY <1>1, <1>2, <1>3, <1>4, <1>5, <1>6 DEF IInv

\* What says nothing of the requests leaves them typed.
LEMMA Typed == TypeOK => RequestsTyped
  BY DEF TypeOK

LEMMA RequestsKept ==
    ASSUME TypeOK,
           UNCHANGED <<requests, requestID, answer, pending, asked, requestid>>
    PROVE  RequestsTyped'
  BY Typed DEF RequestsTyped

\* A socket is sent one more answer.
LEMMA AnswerGiven ==
    ASSUME TypeOK, NEW s \in Sockets, NEW a \in {"failed", "queued", "in"}
    PROVE  [answer EXCEPT ![s] = @ \cup {a}]
               \in [Sockets -> SUBSET {"failed", "queued", "in"}]
  <1>1. answer \in [Sockets -> SUBSET {"failed", "queued", "in"}]
    BY Typed DEF RequestsTyped
  <1> QED BY <1>1

\* A process that dies leaves everything as it was.
LEMMA CrashKeepsIInv ==
    ASSUME IInv, NEW f \in Faults, Crash(f)
    PROVE  IInv'
  <1> USE DEF IInv, Crash
  <1>t. RequestsTyped'
    BY RequestsKept
  <1>1. TypeOK'
    BY <1>t DEF TypeOK
  <1>2. CursorsSet' /\ CallbacksExclude'
    BY DEF CursorsSet, CallbacksExclude, InCallback, Early, Disconnecting
  <1>3. OneWayIn' /\ Bookkeeping' /\ NoDanglingSession'
    BY DEF OneWayIn, OnTheWay, Entering, Queued, Bookkeeping,
           NoDanglingSession
  <1> QED BY <1>1, <1>2, <1>3

\* While nobody starts to let a socket in, no way in is added.
LEMMA NobodyEnters ==
    ASSUME OneWayIn, UNCHANGED <<queue, session>>,
           updateSet' \subseteq updateSet, erasable' \subseteq erasable,
           \A t \in Threads : Entering(t)' => Entering(t) /\ cur'[t] = cur[t]
    PROVE  OneWayIn'
  <1>1. \A s \in Sockets : OnTheWay(s)' => OnTheWay(s)
    BY DEF OnTheWay, Queued
  <1> QED BY <1>1 DEF OneWayIn, Queued

\* Disconnecting a socket, whatever its state, is well typed.
LEMMA DisconnectTypes ==
    ASSUME TypeOK, NEW t \in Threads, NEW s \in Sockets,
           NEW l \in {"idle", "kicked", "end", "pinged"}, Disconnect(t, s, l)
    PROVE  /\ net' \in [Sockets -> {"new", "open", "closing", "gc", "freed"}]
           /\ pc' \in [Threads -> PCs]
           /\ drop' \in [Threads -> Sockets \cup {Null}]
           /\ dret' \in [Threads -> {"idle", "kicked", "end", "pinged"}]
  <1>1. CASE net[s] = "open"
    <2>1. pc' \in [Threads -> PCs]
      BY <1>1 DEF Disconnect, TypeOK, PCs
    <2>2. net' \in [Sockets -> {"new", "open", "closing", "gc", "freed"}]
      BY <1>1, SMTT(30) DEF Disconnect, TypeOK
    <2>3. drop' \in [Threads -> Sockets \cup {Null}]
      BY <1>1 DEF Disconnect, TypeOK
    <2>4. dret' \in [Threads -> {"idle", "kicked", "end", "pinged"}]
      BY <1>1, SMTT(30) DEF Disconnect, TypeOK
    <2> QED BY <2>1, <2>2, <2>3, <2>4
  <1>2. CASE net[s] # "open"
    BY <1>2 DEF Disconnect, TypeOK, PCs
  <1> QED BY <1>1, <1>2

\* Taking a socket out of the queue keeps the order of the others.
LEMMA ShorterQueue ==
    ASSUME queue \in Seq(Sockets), NEW s \in Sockets
    PROVE  /\ WithoutSocket(s) \in Seq(Sockets)
           /\ \A i \in 1..Len(WithoutSocket(s)) :
                 \E k \in 1..Len(queue) : WithoutSocket(s)[i] = queue[k]
           /\ (\A i, j \in 1..Len(queue) : queue[i] = queue[j] => i = j) =>
                 \A i, j \in 1..Len(WithoutSocket(s)) :
                    WithoutSocket(s)[i] = WithoutSocket(s)[j] => i = j
  <1> DEFINE q == WithoutSocket(s)
  <1>1. CASE ~Queued(s)
    BY <1>1 DEF WithoutSocket
  <1>2. CASE Queued(s)
    <2> DEFINE before(i) == \A j \in 1..i : queue[j] # s
               at(i) == IF before(i) THEN i ELSE i + 1
    <2>1. Len(queue) \in Nat /\ Len(queue) > 0
      BY <1>2 DEF Queued
    <2>2. q = [i \in 1..(Len(queue) - 1) |->
                 IF before(i) THEN queue[i] ELSE queue[i + 1]]
      BY <1>2 DEF WithoutSocket
    <2>3. q \in Seq(Sockets) /\ Len(q) = Len(queue) - 1
      BY <2>1, <2>2
    <2>4. \A i \in 1..Len(q) : at(i) \in 1..Len(queue) /\ q[i] = queue[at(i)]
      BY <2>1, <2>2, <2>3
    <2>5. \A i, j \in 1..Len(q) : at(i) = at(j) => i = j
      BY <2>1, <2>3
    <2> HIDE DEF q, at
    <2> QED BY <2>3, <2>4, <2>5 DEF q
  <1> QED BY <1>1, <1>2

\* OnDisconnect forgets the pending request.
LEMMA CancelRequestKeepsIInv ==
    ASSUME IInv, NEW t \in Threads, CancelRequest(t)
    PROVE  IInv'
  <1> USE DEF IInv, CancelRequest, WithoutRequest
  <1>t. RequestsTyped'
    <2>1. UNCHANGED <<requests, answer, asked, requestid>> /\ pending' \subseteq pending
      OBVIOUS
    <2>2. requestID' = [requestID EXCEPT ![drop[t]] = 0]
      OBVIOUS
    <2> HIDE DEF CancelRequest
    <2> QED BY <2>1, <2>2, Typed DEF RequestsTyped
  <1>1. TypeOK'
    BY <1>t DEF TypeOK, Faults, PCs
  <1>2. CursorsSet'
    BY DEF CursorsSet, TypeOK, Disconnecting
  <1>3. CallbacksExclude'
    BY DEF CallbacksExclude, CursorsSet, InCallback, Early,
             Disconnecting, TypeOK
  <1>4. OneWayIn'
    BY DEF OneWayIn, OnTheWay, Entering, Queued, TypeOK, CursorsSet,
             Bookkeeping
  <1>5. Bookkeeping'
    BY DEF Bookkeeping, OneWayIn, OnTheWay, Entering, CursorsSet, TypeOK
  <1>6. NoDanglingSession'
    BY DEF NoDanglingSession, OneWayIn, OnTheWay, Entering, Bookkeeping,
             CursorsSet, TypeOK
  <1> QED BY <1>1, <1>2, <1>3, <1>4, <1>5, <1>6

\* The worker stores the request number.
LEMMA SetRequestKeepsIInv ==
    ASSUME IInv, NEW w \in Workers, SetRequest(w)
    PROVE  IInv'
  <1> USE DEF IInv, SetRequest
  <1>t. RequestsTyped'
    <2>1. UNCHANGED <<requests, answer, pending, asked, requestid>>
      OBVIOUS
    <2>2. requestID' = [requestID EXCEPT ![cur[w]] = requests[cur[w]]]
      OBVIOUS
    <2>3. cur[w] \in Sockets
      BY DEF CursorsSet
    <2> HIDE DEF SetRequest
    <2> QED BY <2>1, <2>2, <2>3, Typed DEF RequestsTyped
  <1>1. TypeOK'
    BY <1>t DEF TypeOK, Faults, PCs
  <1>2. CursorsSet'
    BY DEF CursorsSet, TypeOK, Disconnecting
  <1>3. CallbacksExclude'
    BY DEF CallbacksExclude, CursorsSet, InCallback, Early,
             Disconnecting, TypeOK
  <1>4. OneWayIn'
    BY DEF OneWayIn, OnTheWay, Entering, Queued, TypeOK, CursorsSet,
             Bookkeeping
  <1>5. Bookkeeping'
    BY DEF Bookkeeping, OneWayIn, OnTheWay, Entering, CursorsSet, TypeOK
  <1>6. NoDanglingSession'
    BY DEF NoDanglingSession, OneWayIn, OnTheWay, Entering, Bookkeeping,
             CursorsSet, TypeOK
  <1> QED BY <1>1, <1>2, <1>3, <1>4, <1>5, <1>6

\* The worker keeps the packet for the callback.
LEMMA SetPacketKeepsIInv ==
    ASSUME IInv, NEW w \in Workers, SetPacket(w)
    PROVE  IInv'
  <1> USE DEF IInv, SetPacket
  <1>t. RequestsTyped'
    BY RequestsKept
  <1>1. TypeOK'
    BY <1>t DEF TypeOK, Faults, PCs
  <1>2. CursorsSet'
    BY DEF CursorsSet, TypeOK, Disconnecting
  <1>3. CallbacksExclude'
    BY DEF CallbacksExclude, CursorsSet, InCallback, Early,
             Disconnecting, TypeOK
  <1>4. OneWayIn'
    BY DEF OneWayIn, OnTheWay, Entering, Queued, TypeOK, CursorsSet,
             Bookkeeping
  <1>5. Bookkeeping'
    BY DEF Bookkeeping, OneWayIn, OnTheWay, Entering, CursorsSet, TypeOK
  <1>6. NoDanglingSession'
    BY DEF NoDanglingSession, OneWayIn, OnTheWay, Entering, Bookkeeping,
             CursorsSet, TypeOK
  <1> QED BY <1>1, <1>2, <1>3, <1>4, <1>5, <1>6

\* The session is made for a socket that had none, so it is nowhere yet.
LEMMA CreateSessionKeepsIInv ==
    ASSUME IInv, NEW w \in Workers, CreateSession(w)
    PROVE  IInv'
  <1> USE DEF IInv, CreateSession
  <1>t. RequestsTyped'
    BY RequestsKept
  <1>1. TypeOK'
    BY <1>t DEF TypeOK, Faults, PCs
  <1>2. CursorsSet'
    BY DEF CursorsSet, TypeOK, Disconnecting
  <1>3. CallbacksExclude'
    BY DEF CallbacksExclude, CursorsSet, InCallback, Early,
             Disconnecting, TypeOK
  <1>4. OneWayIn'
    <2>1. cur[w] \in Sockets /\ session[cur[w]] = "none"
      BY DEF CursorsSet, CallbacksExclude, Early
    <2>2. ~OnTheWay(cur[w]) /\ cur[w] \notin updateSet \cup erasable
      BY <2>1 DEF OneWayIn, NoDanglingSession
    <2>3. \A u \in Threads : Entering(u)' => u = w \/ Entering(u)
      BY DEF Entering, TypeOK
    <2>4. \A s \in Sockets : OnTheWay(s)' => s = cur[w] \/ OnTheWay(s)
      BY <2>3 DEF OnTheWay, Queued
    <2>5. \A s \in Sockets : OnTheWay(s)' =>
              session'[s] = "live" /\ s \notin updateSet' \cup erasable'
      BY <2>1, <2>2, <2>4 DEF OneWayIn, TypeOK
    <2>6. \A u \in Threads : Entering(u)' => ~Queued(cur[u])'
      BY <2>2, <2>3 DEF OneWayIn, OnTheWay, Queued
    <2>7. \A v \in Workers : (Entering(v) /\ Entering(World))' => cur'[v] # cur'[World]
      BY <2>2, <2>3 DEF OneWayIn, OnTheWay
    <2> QED BY <2>5, <2>6, <2>7 DEF OneWayIn
  <1>5. Bookkeeping'
    BY DEF Bookkeeping, OneWayIn, OnTheWay, Entering, CursorsSet, TypeOK
  <1>6. NoDanglingSession'
    BY DEF NoDanglingSession, OneWayIn, OnTheWay, Entering, Bookkeeping,
             CursorsSet, TypeOK
  <1> QED BY <1>1, <1>2, <1>3, <1>4, <1>5, <1>6

\* Let in, queued or refused: the session is still on its way, or off it.
LEMMA AdmitKeepsIInv ==
    ASSUME IInv, NEW w \in Workers, Admit(w)
    PROVE  IInv'
  <1> USE DEF IInv, Admit, AuthFailed, Disconnect
  <1>t. RequestsTyped'
    <2>1. UNCHANGED <<requests, requestID, pending, asked, requestid>>
      OBVIOUS
    <2>2. answer' = answer \/ answer' = [answer EXCEPT ![cur[w]] = @ \cup {"failed"}]
      OBVIOUS
    <2>3. cur[w] \in Sockets
      BY DEF CursorsSet, Disconnecting
    <2>4. answer' \in [Sockets -> SUBSET {"failed", "queued", "in"}]
      <3> HIDE DEF Admit
      <3> QED BY <2>2, <2>3, AnswerGiven, Typed DEF RequestsTyped
    <2> QED BY <2>1, <2>4, Typed DEF RequestsTyped
  <1>1. TypeOK'
    <2> HIDE DEF Disconnect
    <2>1. /\ net' \in [Sockets -> {"new", "open", "closing", "gc", "freed"}]
          /\ pc' \in [Threads -> PCs]
          /\ drop' \in [Threads -> Sockets \cup {Null}]
          /\ dret' \in [Threads -> {"idle", "kicked", "end", "pinged"}]
      <3>1. CASE Disconnect(w, cur[w], "end")
        BY <3>1, DisconnectTypes DEF CursorsSet
      <3>2. CASE ~Disconnect(w, cur[w], "end")
        BY <3>2 DEF TypeOK, PCs
      <3> QED BY <3>1, <3>2
    <2> QED BY <1>t, <2>1 DEF TypeOK, Faults
  <1>2. CursorsSet'
    BY DEF CursorsSet, TypeOK, Disconnecting
  <1>3. CallbacksExclude'
    BY DEF CallbacksExclude, CursorsSet, InCallback, Early,
             Disconnecting, TypeOK
  <1>4. OneWayIn'
    <2>1. \A u \in Threads : Entering(u)' => Entering(u) /\ cur'[u] = cur[u]
      BY DEF Entering, TypeOK, CursorsSet
    <2> QED BY <2>1, NobodyEnters
  <1>5. Bookkeeping'
    BY DEF Bookkeeping, OneWayIn, OnTheWay, Entering, CursorsSet, TypeOK
  <1>6. NoDanglingSession'
    BY DEF NoDanglingSession, OneWayIn, OnTheWay, Entering, Bookkeeping,
             CursorsSet, TypeOK
  <1> QED BY <1>1, <1>2, <1>3, <1>4, <1>5, <1>6

\* The socket whose worker queues it was on its way, and nobody else is added.
LEMMA QueueingAddsNobody ==
    ASSUME IInv, NEW w \in Workers, AddQueuedSocket(w)
    PROVE  /\ cur[w] \in Sockets /\ Entering(w) /\ ~Queued(cur[w])
           /\ Len(queue') = Len(queue) + 1 /\ Len(queue) \in Nat
           /\ \A i \in 1..Len(queue) : queue'[i] = queue[i]
           /\ queue'[Len(queue) + 1] = cur[w]
           /\ \A s : Queued(s)' => Queued(s) \/ s = cur[w]
           /\ \A u \in Threads : Entering(u)' => Entering(u) /\ u # w
           /\ \A s \in Sockets : OnTheWay(s)' => OnTheWay(s)
  <1> USE DEF IInv, AddQueuedSocket
  <1>1. cur[w] \in Sockets /\ Entering(w) /\ ~Queued(cur[w])
    BY DEF CursorsSet, Entering, OneWayIn
  <1>2. /\ Len(queue') = Len(queue) + 1 /\ Len(queue) \in Nat
        /\ \A i \in 1..Len(queue) : queue'[i] = queue[i]
        /\ queue'[Len(queue) + 1] = cur[w]
    BY <1>1 DEF TypeOK
  <1>3. \A s : Queued(s)' => Queued(s) \/ s = cur[w]
    BY <1>2 DEF Queued
  <1>4. \A u \in Threads : Entering(u)' => Entering(u) /\ u # w
    BY DEF Entering, TypeOK
  <1>5. \A s \in Sockets : OnTheWay(s)' => OnTheWay(s)
    BY <1>1, <1>3, <1>4 DEF OnTheWay
  <1> QED BY <1>1, <1>2, <1>3, <1>4, <1>5

\* The way in moves from the worker to the queue.
LEMMA AddQueuedSocketKeepsIInv ==
    ASSUME IInv, NEW w \in Workers, AddQueuedSocket(w)
    PROVE  IInv'
  <1> USE DEF IInv, AddQueuedSocket
  <1>t. RequestsTyped'
    BY RequestsKept
  <1>1. TypeOK'
    <2>1. queue' \in Seq(Sockets)
      BY DEF TypeOK, CursorsSet
    <2>2. pc' \in [Threads -> PCs]
      BY DEF TypeOK, PCs
    <2> QED BY <1>t, <2>1, <2>2 DEF TypeOK, Faults
  <1>2. CursorsSet'
    BY DEF CursorsSet, TypeOK, Disconnecting
  <1>3. CallbacksExclude'
    BY DEF CallbacksExclude, CursorsSet, InCallback, Early,
             Disconnecting, TypeOK
  <1>4. OneWayIn'
    <2>1. cur[w] \in Sockets /\ Entering(w) /\ ~Queued(cur[w])
      BY QueueingAddsNobody
    <2>2. /\ Len(queue') = Len(queue) + 1 /\ Len(queue) \in Nat
          /\ \A i \in 1..Len(queue) : queue'[i] = queue[i]
          /\ queue'[Len(queue) + 1] = cur[w]
      BY QueueingAddsNobody
    <2>3. \A s : Queued(s)' => Queued(s) \/ s = cur[w]
      BY QueueingAddsNobody
    <2>4. \A u \in Threads : Entering(u)' => Entering(u) /\ u # w
      BY QueueingAddsNobody
    <2>5. \A s \in Sockets : OnTheWay(s)' => OnTheWay(s)
      BY QueueingAddsNobody
    <2>6. \A u \in Threads : Entering(u) /\ u # w => cur[u] # cur[w]
      BY <2>1 DEF OneWayIn, CallbacksExclude, Entering, InCallback
    <2>7. \A u \in Threads : Entering(u)' => ~Queued(cur[u])'
      BY <2>3, <2>4, <2>6 DEF OneWayIn
    <2>8. \A i, j \in 1..Len(queue') : queue'[i] = queue'[j] => i = j
      BY <2>1, <2>2 DEF OneWayIn, Queued
    <2> QED BY <2>4, <2>5, <2>7, <2>8 DEF OneWayIn
  <1>5. Bookkeeping'
    BY DEF Bookkeeping, OneWayIn, OnTheWay, Entering, CursorsSet, TypeOK
  <1>6. NoDanglingSession'
    BY DEF NoDanglingSession, OneWayIn, OnTheWay, Entering, Bookkeeping,
             CursorsSet, TypeOK
  <1> QED BY <1>1, <1>2, <1>3, <1>4, <1>5, <1>6

\* mQueued is not what the way in is known by.
LEMMA MarkQueuedKeepsIInv ==
    ASSUME IInv, NEW w \in Workers, MarkQueued(w)
    PROVE  IInv'
  <1> USE DEF IInv, MarkQueued
  <1>t. RequestsTyped'
    <2>1. UNCHANGED <<requests, requestID, pending, asked, requestid>>
      OBVIOUS
    <2>2. answer' = answer \/ answer' = [answer EXCEPT ![cur[w]] = @ \cup {"queued"}]
      OBVIOUS
    <2>3. cur[w] \in Sockets
      BY DEF CursorsSet, Disconnecting
    <2>4. answer' \in [Sockets -> SUBSET {"failed", "queued", "in"}]
      <3> HIDE DEF MarkQueued
      <3> QED BY <2>2, <2>3, AnswerGiven, Typed DEF RequestsTyped
    <2> QED BY <2>1, <2>4, Typed DEF RequestsTyped
  <1>1. TypeOK'
    BY <1>t DEF TypeOK, Faults, PCs
  <1>2. CursorsSet'
    BY DEF CursorsSet, TypeOK, Disconnecting
  <1>3. CallbacksExclude'
    BY DEF CallbacksExclude, CursorsSet, InCallback, Early,
             Disconnecting, TypeOK
  <1>4. OneWayIn'
    BY DEF OneWayIn, OnTheWay, Entering, Queued, TypeOK, CursorsSet,
             Bookkeeping
  <1>5. Bookkeeping'
    BY DEF Bookkeeping, OneWayIn, OnTheWay, Entering, CursorsSet, TypeOK
  <1>6. NoDanglingSession'
    BY DEF NoDanglingSession, OneWayIn, OnTheWay, Entering, Bookkeeping,
             CursorsSet, TypeOK
  <1> QED BY <1>1, <1>2, <1>3, <1>4, <1>5, <1>6

\* The callback lets go of its locks.
LEMMA EndCallbackKeepsIInv ==
    ASSUME IInv, NEW w \in Workers, EndCallback(w)
    PROVE  IInv'
  <1> USE DEF IInv, EndCallback
  <1>t. RequestsTyped'
    BY Typed DEF RequestsTyped
  <1>1. TypeOK'
    BY <1>t DEF TypeOK, Faults, PCs
  <1>2. CursorsSet'
    BY DEF CursorsSet, TypeOK, Disconnecting
  <1>3. CallbacksExclude'
    BY DEF CallbacksExclude, CursorsSet, InCallback, Early,
             Disconnecting, TypeOK
  <1>4. OneWayIn'
    BY DEF OneWayIn, OnTheWay, Entering, Queued, TypeOK, CursorsSet,
             Bookkeeping
  <1>5. Bookkeeping'
    BY DEF Bookkeeping, OneWayIn, OnTheWay, Entering, CursorsSet, TypeOK
  <1>6. NoDanglingSession'
    BY DEF NoDanglingSession, OneWayIn, OnTheWay, Entering, Bookkeeping,
             CursorsSet, TypeOK
  <1> QED BY <1>1, <1>2, <1>3, <1>4, <1>5, <1>6

\* The first look at mSession.
LEMMA AuthenticateKeepsIInv ==
    ASSUME IInv, NEW t \in Threads, Authenticate(t)
    PROVE  IInv'
  <1> USE DEF IInv, Authenticate, AfterAuthenticate
  <1>t. RequestsTyped'
    BY RequestsKept
  <1>1. TypeOK'
    BY <1>t DEF TypeOK, Faults, PCs
  <1>2. CursorsSet'
    BY DEF CursorsSet, TypeOK, Disconnecting
  <1>3. CallbacksExclude'
    BY DEF CallbacksExclude, CursorsSet, InCallback, Early,
             Disconnecting, TypeOK
  <1>4. OneWayIn'
    BY DEF OneWayIn, OnTheWay, Entering, Queued, TypeOK, CursorsSet,
             Bookkeeping
  <1>5. Bookkeeping'
    BY DEF Bookkeeping, OneWayIn, OnTheWay, Entering, CursorsSet, TypeOK
  <1>6. NoDanglingSession'
    BY DEF NoDanglingSession, OneWayIn, OnTheWay, Entering, Bookkeeping,
             CursorsSet, TypeOK
  <1> QED BY <1>1, <1>2, <1>3, <1>4, <1>5, <1>6

\* The queue timer, or the start of the loop over the queue.
LEMMA UpdateQueuedSessionsKeepsIInv ==
    ASSUME IInv, UpdateQueuedSessions
    PROVE  IInv'
  <1> USE DEF IInv, UpdateQueuedSessions, QueueTimerRuns
  <1>t. RequestsTyped'
    BY RequestsKept
  <1>1. TypeOK'
    <2>1. queueTimer' \in Nat
      BY DEF TypeOK, PCs
    <2>2. queueMutex' \in {World, Null}
      BY DEF TypeOK, PCs
    <2>3. pc' \in [Threads -> PCs]
      BY DEF TypeOK, PCs
    <2> QED BY <1>t, <2>1, <2>2, <2>3 DEF TypeOK, Faults
  <1>2. CursorsSet'
    BY DEF CursorsSet, TypeOK, Disconnecting
  <1>3. CallbacksExclude'
    BY DEF CallbacksExclude, CursorsSet, InCallback, Early,
             Disconnecting, TypeOK
  <1>4. OneWayIn'
    BY DEF OneWayIn, OnTheWay, Entering, Queued, TypeOK, CursorsSet,
             Bookkeeping
  <1>5. Bookkeeping'
    BY DEF Bookkeeping, OneWayIn, OnTheWay, Entering, CursorsSet, TypeOK
  <1>6. NoDanglingSession'
    BY DEF NoDanglingSession, OneWayIn, OnTheWay, Entering, Bookkeeping,
             CursorsSet, TypeOK
  <1> QED BY <1>1, <1>2, <1>3, <1>4, <1>5, <1>6

\* The pass visits sessions of the update set only.
LEMMA StartPassKeepsIInv ==
    ASSUME IInv, StartPass
    PROVE  IInv'
  <1> USE DEF IInv, StartPass
  <1>t. RequestsTyped'
    BY RequestsKept
  <1>1. TypeOK'
    BY <1>t DEF TypeOK, Faults, PCs
  <1>2. CursorsSet'
    BY DEF CursorsSet, TypeOK, Disconnecting
  <1>3. CallbacksExclude'
    BY DEF CallbacksExclude, CursorsSet, InCallback, Early,
             Disconnecting, TypeOK
  <1>4. OneWayIn'
    BY DEF OneWayIn, OnTheWay, Entering, Queued, TypeOK, CursorsSet,
             Bookkeeping
  <1>5. Bookkeeping'
    BY DEF Bookkeeping, OneWayIn, OnTheWay, Entering, CursorsSet, TypeOK
  <1>6. NoDanglingSession'
    BY DEF NoDanglingSession, OneWayIn, OnTheWay, Entering, Bookkeeping,
             CursorsSet, TypeOK
  <1> QED BY <1>1, <1>2, <1>3, <1>4, <1>5, <1>6

\* A session goes from the update set to the erasable ones.
LEMMA UpdateSessionKeepsIInv ==
    ASSUME IInv, NEW s \in Sockets, UpdateSession(s)
    PROVE  IInv'
  <1> USE DEF IInv, UpdateSession, StartLogoutTimer, Disconnect
  <1>t. RequestsTyped'
    BY RequestsKept
  <1>1. TypeOK'
    <2> HIDE DEF Disconnect
    <2>1. /\ net' \in [Sockets -> {"new", "open", "closing", "gc", "freed"}]
          /\ pc' \in [Threads -> PCs]
          /\ drop' \in [Threads -> Sockets \cup {Null}]
          /\ dret' \in [Threads -> {"idle", "kicked", "end", "pinged"}]
      <3>1. CASE Disconnect(World, s, "pinged")
        BY <3>1, DisconnectTypes
      <3>2. CASE ~Disconnect(World, s, "pinged")
        BY <3>2 DEF TypeOK
      <3> QED BY <3>1, <3>2
    <2>2. logout' \in [Sockets -> {"off", "armed", "due"}]
      <3>1. \/ logout' = logout
            \/ logout' = [logout EXCEPT ![s] = IF @ = "off" THEN "armed" ELSE @]
            \/ logout' = [logout EXCEPT ![s] = "off"]
        OBVIOUS
      <3> HIDE DEF UpdateSession
      <3> QED BY <3>1 DEF TypeOK
    <2>3. cur' \in [Threads -> Sockets \cup {Null}]
      BY DEF TypeOK
    <2>4. todo' \subseteq Sockets /\ erasable' \subseteq Sockets /\ updateSet' \subseteq Sockets
      BY DEF TypeOK
    <2> QED BY <1>t, <2>1, <2>2, <2>3, <2>4 DEF TypeOK
  <1>2. CursorsSet'
    BY DEF CursorsSet, TypeOK, Disconnecting
  <1>3. CallbacksExclude'
    <2>1. \A v \in Workers : /\ pc'[v] = pc[v] /\ cur'[v] = cur[v]
                             /\ drop'[v] = drop[v] /\ dret'[v] = dret[v]
      BY DEF TypeOK
    <2>2. UNCHANGED <<pendingLock, authed, session>>
      OBVIOUS
    <2> HIDE DEF UpdateSession
    <2> QED BY <2>1, <2>2 DEF CallbacksExclude, InCallback, Early, Disconnecting
  <1>4. OneWayIn'
    BY DEF OneWayIn, OnTheWay, Entering, Queued, TypeOK, CursorsSet,
             Bookkeeping
  <1>5. Bookkeeping'
    BY DEF Bookkeeping, OneWayIn, OnTheWay, Entering, CursorsSet, TypeOK
  <1>6. NoDanglingSession'
    BY DEF NoDanglingSession, OneWayIn, OnTheWay, Entering, Bookkeeping,
             CursorsSet, TypeOK
  <1> QED BY <1>1, <1>2, <1>3, <1>4, <1>5, <1>6

\* The session loses its socket.
LEMMA PingTimedOutKeepsIInv ==
    ASSUME IInv, PingTimedOut
    PROVE  IInv'
  <1> USE DEF IInv, PingTimedOut, StartLogoutTimer
  <1>t. RequestsTyped'
    BY RequestsKept
  <1>1. TypeOK'
    BY <1>t DEF TypeOK, Faults, PCs
  <1>2. CursorsSet'
    BY DEF CursorsSet, TypeOK, Disconnecting
  <1>3. CallbacksExclude'
    BY DEF CallbacksExclude, CursorsSet, InCallback, Early,
             Disconnecting, TypeOK
  <1>4. OneWayIn'
    BY DEF OneWayIn, OnTheWay, Entering, Queued, TypeOK, CursorsSet,
             Bookkeeping
  <1>5. Bookkeeping'
    BY DEF Bookkeeping, OneWayIn, OnTheWay, Entering, CursorsSet, TypeOK
  <1>6. NoDanglingSession'
    BY DEF NoDanglingSession, OneWayIn, OnTheWay, Entering, Bookkeeping,
             CursorsSet, TypeOK
  <1> QED BY <1>1, <1>2, <1>3, <1>4, <1>5, <1>6

\* The accounts of all erasable sessions leave the registry.
LEMMA EndPassKeepsIInv ==
    ASSUME IInv, EndPass
    PROVE  IInv'
  <1> USE DEF IInv, EndPass, Unregister
  <1>t. RequestsTyped'
    BY RequestsKept
  <1>1. TypeOK'
    BY <1>t DEF TypeOK, Faults, PCs
  <1>2. CursorsSet'
    BY DEF CursorsSet, TypeOK, Disconnecting
  <1>3. CallbacksExclude'
    BY DEF CallbacksExclude, CursorsSet, InCallback, Early,
             Disconnecting, TypeOK
  <1>4. OneWayIn'
    BY DEF OneWayIn, OnTheWay, Entering, Queued, TypeOK, CursorsSet,
             Bookkeeping
  <1>5. Bookkeeping'
    BY DEF Bookkeeping, OneWayIn, OnTheWay, Entering, CursorsSet, TypeOK
  <1>6. NoDanglingSession'
    BY DEF NoDanglingSession, OneWayIn, OnTheWay, Entering, Bookkeeping,
             CursorsSet, TypeOK
  <1> QED BY <1>1, <1>2, <1>3, <1>4, <1>5, <1>6

\* An erasable session is on no way in and not in the registry.
LEMMA DeleteSessionsKeepsIInv ==
    ASSUME IInv, DeleteSessions
    PROVE  IInv'
  <1> USE DEF IInv, DeleteSessions
  <1>t. RequestsTyped'
    BY RequestsKept
  <1>1. TypeOK'
    <2>1. mSession' \in [Sockets -> BOOLEAN]
      <3>1. CASE mSession' = mSession
        BY <3>1 DEF TypeOK
      <3>2. ASSUME NEW s \in Sockets,
                   mSession' = [mSession EXCEPT ![s] = @ /\ ~socketOf[s]]
            PROVE  mSession' \in [Sockets -> BOOLEAN]
        BY <3>2, Booleans DEF TypeOK
      <3> QED BY <3>1, <3>2 DEF TypeOK
    <2>2. session' \in [Sockets -> {"none", "live", "freed"}]
      BY DEF TypeOK, PCs
    <2>3. pc' \in [Threads -> PCs]
      BY DEF TypeOK, PCs
    <2>4. updateSet' \subseteq Sockets /\ erasable' \subseteq Sockets
            /\ todo' \subseteq Sockets
      BY DEF TypeOK
    <2> QED BY <1>t, <2>1, <2>2, <2>3, <2>4 DEF TypeOK, Faults
  <1>2. CursorsSet'
    BY DEF CursorsSet, TypeOK, Disconnecting
  <1>3. CallbacksExclude'
    <2>1. \A s \in Sockets : session[s] = "none" => session'[s] = "none"
      BY DEF NoDanglingSession, TypeOK
    <2>2. \A v \in Workers : /\ InCallback(v)' => InCallback(v)
                             /\ Early(v)' => Early(v) /\ cur[v] \in Sockets
      BY DEF InCallback, Early, Disconnecting, TypeOK, CursorsSet
    <2> QED BY <2>1, <2>2 DEF CallbacksExclude
  <1>4. OneWayIn'
    BY DEF OneWayIn, OnTheWay, Entering, Queued, TypeOK, CursorsSet,
             Bookkeeping
  <1>5. Bookkeeping'
    BY DEF Bookkeeping, OneWayIn, OnTheWay, Entering, CursorsSet, TypeOK
  <1>6. NoDanglingSession'
    <2>1. UNCHANGED <<m_sessions, updateSet, todo>> /\ todo \subseteq updateSet
      BY DEF Bookkeeping
    <2>2. CASE UNCHANGED <<session, erasable>>
      BY <2>1, <2>2 DEF NoDanglingSession
    <2>3. ASSUME NEW s \in erasable, erasable' = erasable \ {s},
                 session' = [session EXCEPT ![s] = "freed"]
          PROVE  NoDanglingSession'
      <3>1. s \notin updateSet /\ \A a \in Accounts : m_sessions[a] # s
        BY DEF Bookkeeping
      <3>2. \A u \in Sockets : u # s => session'[u] = session[u]
        BY <2>3 DEF TypeOK
      <3> QED BY <2>1, <2>3, <3>1, <3>2 DEF NoDanglingSession
    <2> QED BY <2>2, <2>3
  <1> QED BY <1>1, <1>2, <1>3, <1>4, <1>5, <1>6

\* A connection comes in.
LEMMA AcceptKeepsIInv ==
    ASSUME IInv, NEW s \in Sockets, Accept(s)
    PROVE  IInv'
  <1> USE DEF IInv, Accept
  <1>t. RequestsTyped'
    BY RequestsKept
  <1>1. TypeOK'
    BY <1>t DEF TypeOK, Faults, PCs
  <1>2. CursorsSet'
    BY DEF CursorsSet, TypeOK, Disconnecting
  <1>3. CallbacksExclude'
    BY DEF CallbacksExclude, CursorsSet, InCallback, Early,
             Disconnecting, TypeOK
  <1>4. OneWayIn'
    BY DEF OneWayIn, OnTheWay, Entering, Queued, TypeOK, CursorsSet,
             Bookkeeping
  <1>5. Bookkeeping'
    BY DEF Bookkeeping, OneWayIn, OnTheWay, Entering, CursorsSet, TypeOK
  <1>6. NoDanglingSession'
    BY DEF NoDanglingSession, OneWayIn, OnTheWay, Entering, Bookkeeping,
             CursorsSet, TypeOK
  <1> QED BY <1>1, <1>2, <1>3, <1>4, <1>5, <1>6

\* A socket is freed; its session stays.
LEMMA FreeSocketKeepsIInv ==
    ASSUME IInv, NEW s \in Sockets, FreeSocket(s)
    PROVE  IInv'
  <1> USE DEF IInv, FreeSocket
  <1>t. RequestsTyped'
    BY RequestsKept
  <1>1. TypeOK'
    BY <1>t DEF TypeOK, Faults, PCs
  <1>2. CursorsSet'
    BY DEF CursorsSet, TypeOK, Disconnecting
  <1>3. CallbacksExclude'
    BY DEF CallbacksExclude, CursorsSet, InCallback, Early,
             Disconnecting, TypeOK
  <1>4. OneWayIn'
    BY DEF OneWayIn, OnTheWay, Entering, Queued, TypeOK, CursorsSet,
             Bookkeeping
  <1>5. Bookkeeping'
    BY DEF Bookkeeping, OneWayIn, OnTheWay, Entering, CursorsSet, TypeOK
  <1>6. NoDanglingSession'
    BY DEF NoDanglingSession, OneWayIn, OnTheWay, Entering, Bookkeeping,
             CursorsSet, TypeOK
  <1> QED BY <1>1, <1>2, <1>3, <1>4, <1>5, <1>6

\* A delay ends.
LEMMA LogoutDelayEndsKeepsIInv ==
    ASSUME IInv, NEW s \in Sockets, LogoutDelayEnds(s)
    PROVE  IInv'
  <1> USE DEF IInv, LogoutDelayEnds
  <1>t. RequestsTyped'
    BY RequestsKept
  <1>1. TypeOK'
    BY <1>t DEF TypeOK, Faults, PCs
  <1>2. CursorsSet'
    BY DEF CursorsSet, TypeOK, Disconnecting
  <1>3. CallbacksExclude'
    BY DEF CallbacksExclude, CursorsSet, InCallback, Early,
             Disconnecting, TypeOK
  <1>4. OneWayIn'
    BY DEF OneWayIn, OnTheWay, Entering, Queued, TypeOK, CursorsSet,
             Bookkeeping
  <1>5. Bookkeeping'
    BY DEF Bookkeeping, OneWayIn, OnTheWay, Entering, CursorsSet, TypeOK
  <1>6. NoDanglingSession'
    BY DEF NoDanglingSession, OneWayIn, OnTheWay, Entering, Bookkeeping,
             CursorsSet, TypeOK
  <1> QED BY <1>1, <1>2, <1>3, <1>4, <1>5, <1>6

\* A socket that leaves the queue takes nobody else's place.
LEMMA LeavingAddsNobody ==
    ASSUME IInv, NEW t \in Threads, LeaveQueue(t)
    PROVE  /\ \A s : Queued(s)' => Queued(s)
           /\ \A i, j \in 1..Len(queue') : queue'[i] = queue'[j] => i = j
           /\ \A u \in Threads : Entering(u)' => Entering(u)
           /\ \A s \in Sockets : OnTheWay(s)' => OnTheWay(s)
  <1> USE DEF IInv, LeaveQueue
  <1>1. /\ \A s : Queued(s)' => Queued(s)
        /\ \A i, j \in 1..Len(queue') : queue'[i] = queue'[j] => i = j
    <2>1. drop[t] \in Sockets /\ queue \in Seq(Sockets)
      BY DEF CursorsSet, TypeOK
    <2>2. CASE queue' = queue
      BY <2>2 DEF Queued, OneWayIn
    <2>3. CASE queue' = WithoutSocket(drop[t])
      <3> HIDE DEF LeaveQueue
      <3>1. \A i \in 1..Len(queue') : \E k \in 1..Len(queue) : queue'[i] = queue[k]
        <4> DEFINE q == WithoutSocket(drop[t])
        <4>1. \A i \in 1..Len(q) : \E k \in 1..Len(queue) : q[i] = queue[k]
          BY <2>1, ShorterQueue
        <4> QED BY <4>1, <2>3
      <3>2. \A i, j \in 1..Len(queue') : queue'[i] = queue'[j] => i = j
        BY <2>1, <2>3, ShorterQueue DEF OneWayIn
      <3> QED BY <3>1, <3>2 DEF Queued
    <2> QED BY <2>2, <2>3
  <1>2. \A u \in Threads : Entering(u)' => Entering(u)
    BY DEF Entering, TypeOK
  <1>3. \A s \in Sockets : OnTheWay(s)' => OnTheWay(s)
    BY <1>1, <1>2 DEF OnTheWay
  <1> QED BY <1>1, <1>2, <1>3

\* OnDisconnect takes the socket out of the queue.
LEMMA LeaveQueueKeepsIInv ==
    ASSUME IInv, NEW t \in Threads, LeaveQueue(t)
    PROVE  IInv'
  <1> USE DEF IInv, LeaveQueue
  <1>t. RequestsTyped'
    BY RequestsKept
  <1>1. TypeOK'
    <2>1. queue' \in Seq(Sockets)
      BY ShorterQueue DEF TypeOK, CursorsSet
    <2>2. net' \in [Sockets -> {"new", "open", "closing", "gc", "freed"}]
      BY DEF TypeOK, PCs
    <2>3. drop' \in [Threads -> Sockets \cup {Null}]
      BY DEF TypeOK, PCs
    <2>4. pc' \in [Threads -> PCs]
      BY DEF TypeOK, PCs
    <2> QED BY <1>t, <2>1, <2>2, <2>3, <2>4 DEF TypeOK, Faults
  <1>2. CursorsSet'
    BY DEF CursorsSet, TypeOK, Disconnecting
  <1>3. CallbacksExclude'
    BY DEF CallbacksExclude, CursorsSet, InCallback, Early,
             Disconnecting, TypeOK
  <1>4. OneWayIn'
    <2>1. /\ \A s : Queued(s)' => Queued(s)
          /\ \A i, j \in 1..Len(queue') : queue'[i] = queue'[j] => i = j
      BY LeavingAddsNobody
    <2>2. \A u \in Threads : Entering(u)' => Entering(u)
      BY LeavingAddsNobody
    <2>3. \A s \in Sockets : OnTheWay(s)' => OnTheWay(s)
      BY LeavingAddsNobody
    <2> QED BY <2>1, <2>2, <2>3 DEF OneWayIn
  <1>5. Bookkeeping'
    BY DEF Bookkeeping, OneWayIn, OnTheWay, Entering, CursorsSet, TypeOK
  <1>6. NoDanglingSession'
    BY DEF NoDanglingSession, OneWayIn, OnTheWay, Entering, Bookkeeping,
             CursorsSet, TypeOK
  <1> QED BY <1>1, <1>2, <1>3, <1>4, <1>5, <1>6

\* The request is checked and the account looked up.
LEMMA CallbackKeepsIInv ==
    ASSUME IInv, NEW w \in Workers, Callback(w)
    PROVE  IInv'
  <1> USE DEF IInv, Callback, AuthFailed, FindSession,
             WithDoubles, Overlooked
  <1>1. TypeOK'
    <2>1. requestID' = requestID \/ requestID' = [requestID EXCEPT ![cur[w]] = 0]
      OBVIOUS
    <2>2. found' = found \/ found' = [found EXCEPT ![w] = m_sessions[AccountOf[cur[w]]]]
      OBVIOUS
    <2>3. answer' = answer \/ answer' = [answer EXCEPT ![cur[w]] = @ \cup {"failed"}]
      OBVIOUS
    <2>4. \/ pc' = [pc EXCEPT ![w] = "end"] \/ pc' = [pc EXCEPT ![w] = "kick"]
          \/ pc' = [pc EXCEPT ![w] = "create"]
      OBVIOUS
    <2>10. doubles' \subseteq Sockets
      BY DEF TypeOK, CursorsSet
    <2>5. cur[w] \in Sockets
      BY DEF CursorsSet
    <2> HIDE DEF Callback
    <2>6. RequestsTyped'
      <3>1. requestID' \in [Sockets -> Nat]
        BY <2>1, Typed DEF RequestsTyped
      <3>2. answer' \in [Sockets -> SUBSET {"failed", "queued", "in"}]
        BY <2>3, <2>5, AnswerGiven, Typed DEF RequestsTyped
      <3>3. UNCHANGED <<requests, pending, asked, requestid>>
        BY DEF Callback
      <3> QED BY <3>1, <3>2, <3>3, Typed DEF RequestsTyped
    <2>7. found' \in [Threads -> Sockets \cup {Null}]
      BY <2>2, <2>5 DEF TypeOK
    <2>9. pc' \in [Threads -> PCs]
      <3>1. {"end", "kick", "create"} \subseteq PCs
        BY DEF PCs
      <3> QED BY <2>4, <3>1 DEF TypeOK
    <2> USE DEF Callback
    <2> QED BY <2>6, <2>7, <2>9, <2>10 DEF TypeOK
  <1>2. CursorsSet'
    BY DEF CursorsSet, TypeOK, Disconnecting
  <1>3. CallbacksExclude'
    BY DEF CallbacksExclude, CursorsSet, InCallback, Early,
             Disconnecting, TypeOK
  <1>4. OneWayIn'
    <2>1. \A u \in Threads : Entering(u)' => Entering(u) /\ cur'[u] = cur[u]
      BY DEF Entering, TypeOK, CursorsSet
    <2> QED BY <2>1, NobodyEnters
  <1>5. Bookkeeping'
    BY DEF Bookkeeping, OneWayIn, OnTheWay, Entering, CursorsSet, TypeOK
  <1>6. NoDanglingSession'
    BY DEF NoDanglingSession, OneWayIn, OnTheWay, Entering, Bookkeeping,
             CursorsSet, TypeOK
  <1> QED BY <1>1, <1>2, <1>3, <1>4, <1>5, <1>6

\* A client disconnects.
LEMMA DropKeepsIInv ==
    ASSUME IInv, NEW w \in Workers, NEW s \in Sockets, Drop(w, s)
    PROVE  IInv'
  <1> USE DEF IInv, Drop, Disconnect
  <1>t. RequestsTyped'
    BY RequestsKept
  <1>1. TypeOK'
    <2> HIDE DEF Disconnect
    <2>1. /\ net' \in [Sockets -> {"new", "open", "closing", "gc", "freed"}]
          /\ pc' \in [Threads -> PCs]
          /\ drop' \in [Threads -> Sockets \cup {Null}]
          /\ dret' \in [Threads -> {"idle", "kicked", "end", "pinged"}]
      BY DisconnectTypes
    <2> QED BY <1>t, <2>1 DEF TypeOK, Faults
  <1>2. CursorsSet'
    BY DEF CursorsSet, TypeOK, Disconnecting
  <1>3. CallbacksExclude'
    <2>1. \A v \in Workers : /\ InCallback(v)' => InCallback(v) /\ cur'[v] = cur[v]
                             /\ Early(v)' => Early(v) /\ cur'[v] = cur[v]
      BY DEF InCallback, Early, Disconnecting, TypeOK
    <2>2. UNCHANGED <<pendingLock, authed, session>>
      OBVIOUS
    <2> HIDE DEF Drop
    <2> QED BY <2>1, <2>2 DEF CallbacksExclude
  <1>4. OneWayIn'
    <2>1. \A u \in Threads : Entering(u)' => Entering(u) /\ cur'[u] = cur[u]
      BY DEF Entering, TypeOK, CursorsSet
    <2> QED BY <2>1, NobodyEnters
  <1>5. Bookkeeping'
    BY DEF Bookkeeping, OneWayIn, OnTheWay, Entering, CursorsSet, TypeOK
  <1>6. NoDanglingSession'
    BY DEF NoDanglingSession, OneWayIn, OnTheWay, Entering, Bookkeeping,
             CursorsSet, TypeOK
  <1> QED BY <1>1, <1>2, <1>3, <1>4, <1>5, <1>6

\* A client asks to log in.
LEMMA HandleAuthSessionKeepsIInv ==
    ASSUME IInv, NEW w \in Workers, NEW s \in Sockets,
           HandleAuthSession(w, s)
    PROVE  IInv'
  <1> USE DEF IInv, HandleAuthSession, Disconnect
  <1>t. RequestsTyped'
    <2>1. requests[s] + 1 \in Nat
      BY Typed DEF RequestsTyped
    <2>2. /\ requests' = [requests EXCEPT ![s] = requests[s] + 1]
          /\ \/ requestID' = requestID
             \/ requestID' = [requestID EXCEPT ![s] = requests[s] + 1]
          /\ pending' \subseteq pending \cup {<<s, requests[s] + 1>>}
          /\ asked' \subseteq asked \cup {<<s, requests[s] + 1>>}
          /\ UNCHANGED <<answer, requestid>>
      OBVIOUS
    <2> HIDE DEF HandleAuthSession
    <2> QED BY <2>1, <2>2, Typed DEF RequestsTyped
  <1>1. TypeOK'
    <2> HIDE DEF Disconnect
    <2>1. /\ net' \in [Sockets -> {"new", "open", "closing", "gc", "freed"}]
          /\ pc' \in [Threads -> PCs]
          /\ drop' \in [Threads -> Sockets \cup {Null}]
          /\ dret' \in [Threads -> {"idle", "kicked", "end", "pinged"}]
      <3>1. CASE Disconnect(w, s, "idle")
        BY <3>1, DisconnectTypes
      <3>2. CASE ~Disconnect(w, s, "idle")
        BY <3>2 DEF TypeOK, PCs
      <3> QED BY <3>1, <3>2
    <2>2. cur' \in [Threads -> Sockets \cup {Null}]
      BY DEF TypeOK
    <2> QED BY <1>t, <2>1, <2>2 DEF TypeOK
  <1>2. CursorsSet'
    BY DEF CursorsSet, TypeOK, Disconnecting
  <1>3. CallbacksExclude'
    <2>1. \A v \in Workers : /\ InCallback(v)' => InCallback(v) /\ cur'[v] = cur[v]
                             /\ Early(v)' => Early(v) /\ cur'[v] = cur[v]
      BY DEF InCallback, Early, Disconnecting, TypeOK
    <2>2. UNCHANGED <<pendingLock, authed, session>>
      OBVIOUS
    <2> HIDE DEF HandleAuthSession
    <2>4. \A v \in Workers : InCallback(v)' => (pendingLock = v /\ authed[cur[v]])'
      BY <2>1, <2>2 DEF CallbacksExclude
    <2>5. \A v \in Workers : Early(v)' => (session[cur[v]] = "none")'
      BY <2>1, <2>2 DEF CallbacksExclude
    <2>6. \A v \in Sockets : (~authed[v] => session[v] = "none")'
      BY <2>2 DEF CallbacksExclude
    <2> QED BY <2>4, <2>5, <2>6 DEF CallbacksExclude
  <1>4. OneWayIn'
    <2>1. \A u \in Threads : Entering(u)' => Entering(u) /\ cur'[u] = cur[u]
      BY DEF Entering, TypeOK, CursorsSet
    <2> QED BY <2>1, NobodyEnters
  <1>5. Bookkeeping'
    BY DEF Bookkeeping, OneWayIn, OnTheWay, Entering, CursorsSet, TypeOK
  <1>6. NoDanglingSession'
    BY DEF NoDanglingSession, OneWayIn, OnTheWay, Entering, Bookkeeping,
             CursorsSet, TypeOK
  <1> QED BY <1>1, <1>2, <1>3, <1>4, <1>5, <1>6

\* OnDisconnect takes the pointers of session and socket back.
LEMMA UnlinkSessionKeepsIInv ==
    ASSUME IInv, NEW t \in Threads, UnlinkSession(t)
    PROVE  IInv'
  <1> USE DEF IInv
  <1> SUFFICES ASSUME ~(mSession[drop[t]] /\ session[drop[t]] = "freed") PROVE IInv'
    BY CrashKeepsIInv DEF Faults, UnlinkSession, Unlink
  <1>0. /\ pc[t] = "unlinkSession"
        /\ pc' = [pc EXCEPT ![t] = "cancelRequest"]
        /\ socketOf' = [socketOf EXCEPT ![drop[t]] = @ /\ ~mSession[drop[t]]]
        /\ mSession' = [mSession EXCEPT ![drop[t]] = FALSE]
        /\ UNCHANGED <<net, requests, requestID, authPacket, authed,
              mQueued, answer, session, logout, deleteMutex, reqVars,
              regVars, queVars, cur, found, drop, dret, fault>>
    BY ZenonT(30) DEF UnlinkSession, Unlink
  <1> USE <1>0
  <1>t. RequestsTyped'
    BY RequestsKept
  <1>1. TypeOK'
    <2>1. socketOf' \in [Sockets -> BOOLEAN]
      BY Booleans DEF TypeOK, CursorsSet
    <2>2. mSession' \in [Sockets -> BOOLEAN]
      BY DEF TypeOK
    <2>3. pc' \in [Threads -> PCs]
      BY DEF TypeOK, PCs
    <2> QED BY <1>t, <2>1, <2>2, <2>3 DEF TypeOK, Faults
  <1>2. CursorsSet'
    BY DEF CursorsSet, TypeOK, Disconnecting
  <1>3. CallbacksExclude'
    BY DEF CallbacksExclude, CursorsSet, InCallback, Early,
             Disconnecting, TypeOK
  <1>4. OneWayIn'
    <2>1. \A u \in Threads : Entering(u)' => Entering(u) /\ cur'[u] = cur[u]
      BY DEF Entering, TypeOK, CursorsSet
    <2> QED BY <2>1, NobodyEnters
  <1>5. Bookkeeping'
    BY DEF Bookkeeping, OneWayIn, OnTheWay, Entering, CursorsSet, TypeOK
  <1>6. NoDanglingSession'
    BY DEF NoDanglingSession, OneWayIn, OnTheWay, Entering, Bookkeeping,
             CursorsSet, TypeOK
  <1> QED BY <1>1, <1>2, <1>3, <1>4, <1>5, <1>6

\* Only the holder of pendingLock enters the callback.
LEMMA HandleSessionInfoKeepsIInv ==
    ASSUME IInv, NEW w \in Workers, NEW s \in Sockets, NEW n \in Nat,
           HandleSessionInfo(w, s, n)
    PROVE  IInv'
  <1> USE DEF IInv
  <1> SUFFICES ASSUME ~(<<s, n>> \in pending /\ net[s] = "freed") PROVE IInv'
    BY CrashKeepsIInv DEF Faults, HandleSessionInfo, WithoutRequest
  <1>0. /\ pc[w] = "idle" /\ pendingLock = Null
        /\ asked' \subseteq asked /\ pending' \subseteq pending
        /\ \/ /\ ~authed[s]
              /\ authed' = [authed EXCEPT ![s] = TRUE]
              /\ pendingLock' = w
              /\ requestid' = n
              /\ cur' = [cur EXCEPT ![w] = s]
              /\ pc' = [pc EXCEPT ![w] = "callback"]
           \/ UNCHANGED <<authed, pendingLock, requestid, cur, pc>>
        /\ UNCHANGED <<net, requests, requestID, authPacket, mSession,
              mQueued, answer, sessVars, regVars, queVars, found, drop,
              dret, fault>>
    BY ZenonT(30) DEF HandleSessionInfo, WithoutRequest
  <1> USE <1>0
  <1>t. RequestsTyped'
    <2>1. requestid' \in Nat
      BY Typed DEF RequestsTyped
    <2> QED BY <2>1, Typed DEF RequestsTyped
  <1>1. TypeOK'
    <2>1. authed' \in [Sockets -> BOOLEAN]
      BY ZenonT(40) DEF TypeOK
    <2>2. pc' \in [Threads -> PCs]
      BY DEF TypeOK, PCs
    <2>3. cur' \in [Threads -> Sockets \cup {Null}]
      BY SMTT(30) DEF TypeOK
    <2>4. pendingLock' \in Threads \cup {Null}
      BY DEF TypeOK
    <2> QED BY <1>t, <2>1, <2>2, <2>3, <2>4 DEF TypeOK, Faults
  <1>2. CursorsSet'
    BY DEF CursorsSet, TypeOK, Disconnecting
  <1>3. CallbacksExclude'
    BY SMTT(60) DEF CallbacksExclude, CursorsSet, InCallback, Early,
             Disconnecting, TypeOK
  <1>4. OneWayIn'
    <2>1. \A u \in Threads : Entering(u)' => Entering(u) /\ cur'[u] = cur[u]
      BY DEF Entering, TypeOK, CursorsSet
    <2> QED BY <2>1, NobodyEnters
  <1>5. Bookkeeping'
    BY DEF Bookkeeping, OneWayIn, OnTheWay, Entering, CursorsSet, TypeOK
  <1>6. NoDanglingSession'
    BY DEF NoDanglingSession, OneWayIn, OnTheWay, Entering, Bookkeeping,
             CursorsSet, TypeOK
  <1> QED BY <1>1, <1>2, <1>3, <1>4, <1>5, <1>6

\* The other session of the account is disconnected.
LEMMA KickKeepsIInv ==
    ASSUME IInv, NEW w \in Workers, Kick(w)
    PROVE  IInv'
  <1> USE DEF IInv, Kick, Disconnect
  <1> SUFFICES ASSUME session[found[w]] # "freed" PROVE IInv'
    BY CrashKeepsIInv DEF Faults
  <1> USE DEF Crash
  <1>t. RequestsTyped'
    BY RequestsKept
  <1>1. TypeOK'
    <2> HIDE DEF Disconnect
    <2>1. /\ net' \in [Sockets -> {"new", "open", "closing", "gc", "freed"}]
          /\ pc' \in [Threads -> PCs]
          /\ drop' \in [Threads -> Sockets \cup {Null}]
          /\ dret' \in [Threads -> {"idle", "kicked", "end", "pinged"}]
      <3>1. CASE Disconnect(w, found[w], "kicked")
        BY <3>1, DisconnectTypes DEF CursorsSet
      <3>2. CASE ~Disconnect(w, found[w], "kicked")
        BY <3>2 DEF TypeOK, PCs
      <3> QED BY <3>1, <3>2
    <2> QED BY <1>t, <2>1 DEF TypeOK
  <1>2. CursorsSet'
    BY DEF CursorsSet, TypeOK, Disconnecting
  <1>3. CallbacksExclude'
    BY DEF CallbacksExclude, CursorsSet, InCallback, Early,
             Disconnecting, TypeOK
  <1>4. OneWayIn'
    <2>1. \A u \in Threads : Entering(u)' => Entering(u) /\ cur'[u] = cur[u]
      BY DEF Entering, TypeOK, CursorsSet
    <2> QED BY <2>1, NobodyEnters
  <1>5. Bookkeeping'
    BY DEF Bookkeeping, OneWayIn, OnTheWay, Entering, CursorsSet, TypeOK
  <1>6. NoDanglingSession'
    BY DEF NoDanglingSession, OneWayIn, OnTheWay, Entering, Bookkeeping,
             CursorsSet, TypeOK
  <1> QED BY <1>1, <1>2, <1>3, <1>4, <1>5, <1>6

\* Its timer is set, and this login refused.
LEMMA KickedKeepsIInv ==
    ASSUME IInv, NEW w \in Workers, Kicked(w)
    PROVE  IInv'
  <1> USE DEF IInv, Kicked, AuthFailed
  <1> SUFFICES ASSUME session[found[w]] # "freed" PROVE IInv'
    BY CrashKeepsIInv DEF Faults
  <1> USE DEF Crash
  <1>t. RequestsTyped'
    <2>1. UNCHANGED <<requests, requestID, pending, asked, requestid>>
      OBVIOUS
    <2>2. answer' = answer \/ answer' = [answer EXCEPT ![cur[w]] = @ \cup {"failed"}]
      OBVIOUS
    <2>3. cur[w] \in Sockets
      BY DEF CursorsSet, Disconnecting
    <2>4. answer' \in [Sockets -> SUBSET {"failed", "queued", "in"}]
      <3> HIDE DEF Kicked
      <3> QED BY <2>2, <2>3, AnswerGiven, Typed DEF RequestsTyped
    <2> QED BY <2>1, <2>4, Typed DEF RequestsTyped
  <1>1. TypeOK'
    <2>1. UNCHANGED <<net, requests, requestID, authPacket, authed, mSession,
                      mQueued, session, socketOf, deleteMutex, pending,
                      pendingLock, asked, requestid, m_sessions, updateSet, sessionsMutex,
                      todo, erasable, queue, queueMutex, queueTimer, doubles, cur, found,
                      drop, dret, fault>>
      OBVIOUS
    <2>2. logout' \in [Sockets -> {"off", "armed", "due"}]
      BY DEF TypeOK, CursorsSet
    <2>4. pc' \in [Threads -> PCs]
      BY DEF TypeOK, PCs
    <2> QED BY <1>t, <2>1, <2>2, <2>4 DEF TypeOK, Faults
  <1>2. CursorsSet'
    BY DEF CursorsSet, TypeOK, Disconnecting
  <1>3. CallbacksExclude'
    BY DEF CallbacksExclude, CursorsSet, InCallback, Early,
             Disconnecting, TypeOK
  <1>4. OneWayIn'
    <2>1. \A u \in Threads : Entering(u)' => Entering(u) /\ cur'[u] = cur[u]
      BY DEF Entering, TypeOK, CursorsSet
    <2> QED BY <2>1, NobodyEnters
  <1>5. Bookkeeping'
    BY DEF Bookkeeping, OneWayIn, OnTheWay, Entering, CursorsSet, TypeOK
  <1>6. NoDanglingSession'
    BY DEF NoDanglingSession, OneWayIn, OnTheWay, Entering, Bookkeeping,
             CursorsSet, TypeOK
  <1> QED BY <1>1, <1>2, <1>3, <1>4, <1>5, <1>6

\* The session that enters the registry is live and not erasable.
LEMMA AddSessionKeepsIInv ==
    ASSUME IInv, NEW t \in Threads, AddSession(t)
    PROVE  IInv'
  <1> USE DEF IInv, AddSession
  <1> SUFFICES ASSUME mSession[cur[t]] PROVE IInv'
    BY CrashKeepsIInv DEF Faults
  <1> USE DEF Crash
  <1>t. RequestsTyped'
    <2>1. UNCHANGED <<requests, requestID, pending, asked, requestid>>
      OBVIOUS
    <2>2. answer' = answer \/ answer' = [answer EXCEPT ![cur[t]] = @ \cup {"in"}]
      OBVIOUS
    <2>3. cur[t] \in Sockets
      BY DEF CursorsSet, Disconnecting
    <2>4. answer' \in [Sockets -> SUBSET {"failed", "queued", "in"}]
      <3> HIDE DEF AddSession
      <3> QED BY <2>2, <2>3, AnswerGiven, Typed DEF RequestsTyped
    <2> QED BY <2>1, <2>4, Typed DEF RequestsTyped
  <1>1. TypeOK'
    <2>1. UNCHANGED <<net, requests, requestID, authed, mSession, mQueued,
                      session, socketOf, logout, deleteMutex, pending,
                      pendingLock, asked, requestid, updateSet,
                      sessionsMutex, todo, erasable, queue, queueMutex, queueTimer, doubles, cur, found, drop,
                      dret, fault>>
      OBVIOUS
    <2>3. pc' \in [Threads -> PCs]
      BY DEF TypeOK, PCs
    <2>4. authPacket' \in [Sockets -> BOOLEAN]
      <3>1. authPacket' = [authPacket EXCEPT ![cur[t]] = FALSE]
        OBVIOUS
      <3> HIDE DEF AddSession
      <3> QED BY <3>1 DEF TypeOK
    <2>5. m_sessions' \in [Accounts -> Sockets \cup {Null}]
      <3>1. m_sessions' = [m_sessions EXCEPT ![AccountOf[cur[t]]] = cur[t]]
        OBVIOUS
      <3>2. cur[t] \in Sockets
        BY DEF CursorsSet
      <3> HIDE DEF AddSession
      <3> QED BY <3>1, <3>2 DEF TypeOK
    <2> QED BY <1>t, <2>1, <2>3, <2>4, <2>5 DEF TypeOK, Faults
  <1>2. CursorsSet'
    BY DEF CursorsSet, TypeOK, Disconnecting
  <1>3. CallbacksExclude'
    BY DEF CallbacksExclude, CursorsSet, InCallback, Early,
             Disconnecting, TypeOK
  <1>4. OneWayIn'
    <2>1. \A u \in Threads : Entering(u)' => Entering(u) /\ cur'[u] = cur[u]
      BY DEF Entering, TypeOK, CursorsSet
    <2> QED BY <2>1, NobodyEnters
  <1>5. Bookkeeping'
    <2>1. cur[t] \in Sockets /\ cur[t] \notin erasable
      BY DEF CursorsSet, OneWayIn, OnTheWay, Entering
    <2>2. \A a \in Accounts : m_sessions'[a] = m_sessions[a]
                                \/ (m_sessions'[a] = cur[t] /\ a = AccountOf[cur[t]])
      BY <2>1 DEF TypeOK
    <2>3. pc'[World] = "deleteSessions" => pc[World] = "deleteSessions"
      BY DEF TypeOK
    <2>4. UNCHANGED <<todo, updateSet, erasable>>
      OBVIOUS
    <2> HIDE DEF AddSession
    <2> QED BY <2>1, <2>2, <2>3, <2>4 DEF Bookkeeping
  <1>6. NoDanglingSession'
    BY DEF NoDanglingSession, OneWayIn, OnTheWay, Entering, Bookkeeping,
             CursorsSet, TypeOK
  <1> QED BY <1>1, <1>2, <1>3, <1>4, <1>5, <1>6

\* The way in ends in the update set.
LEMMA AddGlobalSessionKeepsIInv ==
    ASSUME IInv, NEW t \in Threads, AddGlobalSession(t)
    PROVE  IInv'
  <1> USE DEF IInv, AddGlobalSession, AfterAuthenticate
  <1> SUFFICES ASSUME mSession[cur[t]] PROVE IInv'
    BY CrashKeepsIInv DEF Faults
  <1> USE DEF Crash
  <1>t. RequestsTyped'
    BY RequestsKept
  <1>1. TypeOK'
    <2>1. UNCHANGED <<net, requests, requestID, authPacket, authed, mSession,
                      mQueued, answer, session, socketOf, logout, deleteMutex,
                      pending, pendingLock, asked, requestid, m_sessions, sessionsMutex,
                      todo, erasable, queue, queueMutex, queueTimer, doubles, cur, found,
                      drop, dret, fault>>
      OBVIOUS
    <2>2. pc' \in [Threads -> PCs]
      BY DEF TypeOK, PCs
    <2>3. updateSet' \subseteq Sockets /\ erasable' \subseteq Sockets
            /\ todo' \subseteq Sockets
      BY DEF TypeOK, CursorsSet
    <2> QED BY <1>t, <2>1, <2>2, <2>3 DEF TypeOK, Faults
  <1>2. CursorsSet'
    BY DEF CursorsSet, TypeOK, Disconnecting
  <1>3. CallbacksExclude'
    BY DEF CallbacksExclude, CursorsSet, InCallback, Early,
             Disconnecting, TypeOK
  <1>4. OneWayIn'
    <2>1. cur[t] \in Sockets /\ Entering(t) /\ ~Queued(cur[t])
      BY DEF CursorsSet, Entering, OneWayIn
    <2>2. \A u \in Threads : Entering(u)' => Entering(u) /\ u # t
      BY DEF Entering, TypeOK
    <2>3. \A u \in Threads : Entering(u) /\ u # t => cur[u] # cur[t]
      BY <2>1 DEF OneWayIn, CallbacksExclude, Entering, InCallback
    <2>4. \A s \in Sockets : OnTheWay(s)' => OnTheWay(s) /\ s # cur[t]
      BY <2>1, <2>2, <2>3 DEF OnTheWay, Queued
    <2> QED BY <2>1, <2>2, <2>4 DEF OneWayIn, Queued
  <1>5. Bookkeeping'
    <2>1. cur[t] \in Sockets /\ cur[t] \notin erasable
      BY DEF CursorsSet, OneWayIn, OnTheWay, Entering
    <2>2. pc'[World] = "deleteSessions" => pc[World] = "deleteSessions"
      BY DEF TypeOK
    <2> QED BY <2>1, <2>2 DEF Bookkeeping
  <1>6. NoDanglingSession'
    BY DEF NoDanglingSession, OneWayIn, OnTheWay, Entering, Bookkeeping,
             CursorsSet, TypeOK
  <1> QED BY <1>1, <1>2, <1>3, <1>4, <1>5, <1>6

\* The first socket leaves the queue, and is with the world thread or nowhere.
LEMMA PoppingAddsNobody ==
    ASSUME IInv, pc[World] = "queue", queue # <<>>, queue' = Tail(queue),
           \/ /\ cur' = [cur EXCEPT ![World] = Head(queue)]
              /\ pc' = [pc EXCEPT ![World] = "lockSession"]
           \/ UNCHANGED <<cur, pc>>
    PROVE  /\ Len(queue') = Len(queue) - 1 /\ Len(queue) \in Nat
           /\ \A i \in 1..Len(queue') : queue'[i] = queue[i + 1]
           /\ \A s : s = queue[1] => ~Queued(s)'
           /\ \A s : Queued(s)' => Queued(s)
           /\ \A u \in Threads : Entering(u)' =>
                  \/ Entering(u) /\ cur'[u] = cur[u] /\ cur[u] # queue[1]
                  \/ u = World /\ cur'[u] = queue[1]
           /\ \A s \in Sockets : OnTheWay(s)' => OnTheWay(s)
  <1> USE DEF IInv
  <1>1. /\ Len(queue') = Len(queue) - 1 /\ Len(queue) \in Nat
        /\ \A i \in 1..Len(queue') : queue'[i] = queue[i + 1]
        /\ Len(queue) > 0 /\ Head(queue) = queue[1] /\ queue[1] \in Sockets
    BY DEF TypeOK
  <1>2. Queued(queue[1]) /\ \A s : s = queue[1] => ~Queued(s)'
    BY <1>1 DEF Queued, OneWayIn
  <1>3. \A s : Queued(s)' => Queued(s)
    BY <1>1 DEF Queued
  <1>4. \A u \in Threads : Entering(u)' =>
            \/ Entering(u) /\ cur'[u] = cur[u] /\ cur[u] # queue[1]
            \/ u = World /\ cur'[u] = queue[1]
    <2>1. \A u \in Threads : Entering(u)' =>
              \/ Entering(u) /\ cur'[u] = cur[u]
              \/ u = World /\ cur'[u] = queue[1]
      <3>1. CASE UNCHANGED <<cur, pc>>
        BY <3>1 DEF Entering
      <3>2. CASE /\ cur' = [cur EXCEPT ![World] = queue[1]]
                 /\ pc' = [pc EXCEPT ![World] = "lockSession"]
        BY <3>2 DEF Entering, TypeOK
      <3> QED BY <1>1, <3>1, <3>2
    <2>2. \A u \in Threads : Entering(u) => cur[u] # queue[1]
      BY <1>2 DEF OneWayIn
    <2> QED BY <2>1, <2>2
  <1>5. \A s \in Sockets : OnTheWay(s)' => OnTheWay(s)
    BY <1>2, <1>3, <1>4 DEF OnTheWay
  <1> QED BY <1>1, <1>2, <1>3, <1>4, <1>5

\* The way in moves from the queue to the world thread.
LEMMA PopQueueKeepsIInv ==
    ASSUME IInv, PopQueue
    PROVE  IInv'
  <1> USE DEF IInv
  <1> SUFFICES ASSUME IF QueueHasRoom /\ queue # <<>>
                      THEN net[Head(queue)] # "freed"
                      ELSE \A s \in Sockets : Queued(s) => net[s] # "freed"
               PROVE IInv'
    BY CrashKeepsIInv DEF Faults, PopQueue, QueueHasRoom, ReleaseQueueMutex
  <1>0. /\ pc[World] = "queue"
        /\ \/ /\ queue # <<>> /\ queue' = Tail(queue)
              /\ \/ /\ cur' = [cur EXCEPT ![World] = Head(queue)]
                    /\ pc' = [pc EXCEPT ![World] = "lockSession"]
                 \/ UNCHANGED <<cur, pc>>
              /\ queueMutex' = queueMutex
           \/ /\ queueMutex' = Null
              /\ pc' = [pc EXCEPT ![World] = "startPass"]
              /\ UNCHANGED <<queue, cur>>
        /\ UNCHANGED <<net, sockVars, sessVars, reqVars, regVars, queueTimer, doubles,
              found, drop, dret, fault>>
    BY ZenonT(30) DEF PopQueue, QueueHasRoom, ReleaseQueueMutex
  <1> USE <1>0
  <1>t. RequestsTyped'
    BY RequestsKept
  <1>1. TypeOK'
    <2>1. queue' \in Seq(Sockets)
      BY QueueHead, ZenonT(40) DEF TypeOK
    <2>2. pc' \in [Threads -> PCs]
      BY DEF TypeOK, PCs
    <2>3. cur' \in [Threads -> Sockets \cup {Null}]
      BY QueueHead DEF TypeOK
    <2> QED BY <1>t, <2>1, <2>2, <2>3 DEF TypeOK, Faults
  <1>2. CursorsSet'
    BY DEF CursorsSet, TypeOK, Disconnecting
  <1>3. CallbacksExclude'
    BY SMTT(30) DEF CallbacksExclude, CursorsSet, InCallback, Early,
             Disconnecting, TypeOK
  <1>4. OneWayIn'
    <2>1. CASE queue' = queue
      <3>1. \A u \in Threads : Entering(u)' => Entering(u) /\ cur'[u] = cur[u]
        BY <2>1 DEF Entering, TypeOK, CursorsSet
      <3> QED BY <2>1, <3>1, NobodyEnters
    <2>2. CASE /\ queue # <<>> /\ queue' = Tail(queue)
               /\ \/ /\ cur' = [cur EXCEPT ![World] = Head(queue)]
                     /\ pc' = [pc EXCEPT ![World] = "lockSession"]
                  \/ UNCHANGED <<cur, pc>>
      <3>1. /\ Len(queue') = Len(queue) - 1 /\ Len(queue) \in Nat
            /\ \A i \in 1..Len(queue') : queue'[i] = queue[i + 1]
        BY <2>2, PoppingAddsNobody
      <3>2. \A s : s = queue[1] => ~Queued(s)'
        BY <2>2, PoppingAddsNobody
      <3>3. \A s : Queued(s)' => Queued(s)
        BY <2>2, PoppingAddsNobody
      <3>4. \A u \in Threads : Entering(u)' =>
                \/ Entering(u) /\ cur'[u] = cur[u] /\ cur[u] # queue[1]
                \/ u = World /\ cur'[u] = queue[1]
        BY <2>2, PoppingAddsNobody
      <3>5. \A s \in Sockets : OnTheWay(s)' => OnTheWay(s)
        BY <2>2, PoppingAddsNobody
      <3>6. \A s \in Sockets : OnTheWay(s)' =>
                session'[s] = "live" /\ s \notin updateSet' \cup erasable'
        BY <3>5 DEF OneWayIn
      <3>7. \A u \in Threads : Entering(u)' => ~Queued(cur[u])'
        BY <3>2, <3>3, <3>4 DEF OneWayIn
      <3>8. \A v \in Workers : (Entering(v) /\ Entering(World))' => cur'[v] # cur'[World]
        BY <3>4 DEF OneWayIn
      <3>9. \A i, j \in 1..Len(queue') : queue'[i] = queue'[j] => i = j
        BY <3>1 DEF OneWayIn
      <3> QED BY <3>6, <3>7, <3>8, <3>9 DEF OneWayIn
    <2> QED BY <2>1, <2>2
  <1>5. Bookkeeping'
    BY DEF Bookkeeping, OneWayIn, OnTheWay, Entering, CursorsSet, TypeOK
  <1>6. NoDanglingSession'
    BY DEF NoDanglingSession, OneWayIn, OnTheWay, Entering, Bookkeeping,
             CursorsSet, TypeOK
  <1> QED BY <1>1, <1>2, <1>3, <1>4, <1>5, <1>6

\* The world thread takes the deleteMutex of the session it lets in.
LEMMA LockSessionKeepsIInv ==
    ASSUME IInv, LockSession
    PROVE  IInv'
  <1> USE DEF IInv, LockSession
  <1> SUFFICES ASSUME mSession[cur[World]] PROVE IInv'
    BY CrashKeepsIInv DEF Faults
  <1> USE DEF Crash
  <1>t. RequestsTyped'
    BY RequestsKept
  <1>1. TypeOK'
    <2>1. UNCHANGED <<net, requests, requestID, authPacket, authed, mSession,
                      mQueued, answer, session, socketOf, logout, pending,
                      pendingLock, asked, requestid, m_sessions, updateSet, sessionsMutex,
                      todo, erasable, queue, queueMutex, queueTimer, doubles, cur, found,
                      drop, dret, fault>>
      OBVIOUS
    <2>2. deleteMutex' \in [Sockets -> Threads \cup {Null}]
      BY SMTT(30) DEF TypeOK, CursorsSet
    <2>3. pc' \in [Threads -> PCs]
      BY DEF TypeOK, PCs
    <2> QED BY <1>t, <2>1, <2>2, <2>3 DEF TypeOK, Faults
  <1>2. CursorsSet'
    BY DEF CursorsSet, TypeOK, Disconnecting
  <1>3. CallbacksExclude'
    BY DEF CallbacksExclude, CursorsSet, InCallback, Early,
             Disconnecting, TypeOK
  <1>4. OneWayIn'
    <2>1. \A u \in Threads : Entering(u)' => Entering(u) /\ cur'[u] = cur[u]
      BY DEF Entering, TypeOK, CursorsSet
    <2> QED BY <2>1, NobodyEnters
  <1>5. Bookkeeping'
    BY DEF Bookkeeping, OneWayIn, OnTheWay, Entering, CursorsSet, TypeOK
  <1>6. NoDanglingSession'
    BY DEF NoDanglingSession, OneWayIn, OnTheWay, Entering, Bookkeeping,
             CursorsSet, TypeOK
  <1> QED BY <1>1, <1>2, <1>3, <1>4, <1>5, <1>6

\* The world thread is done with the session.
LEMMA UnlockSessionKeepsIInv ==
    ASSUME IInv, UnlockSession
    PROVE  IInv'
  <1> USE DEF IInv, UnlockSession
  <1> SUFFICES ASSUME mSession[cur[World]] PROVE IInv'
    BY CrashKeepsIInv DEF Faults
  <1> USE DEF Crash
  <1>t. RequestsTyped'
    BY RequestsKept
  <1>1. TypeOK'
    <2>1. UNCHANGED <<net, requests, requestID, authPacket, authed, mSession,
                      mQueued, answer, session, socketOf, logout, pending,
                      pendingLock, asked, requestid, m_sessions, updateSet, sessionsMutex,
                      todo, erasable, queue, queueMutex, queueTimer, doubles, found,
                      drop, dret, fault>>
      OBVIOUS
    <2>2. deleteMutex' \in [Sockets -> Threads \cup {Null}]
      <3>1. deleteMutex' = [deleteMutex EXCEPT ![cur[World]] = Null]
        OBVIOUS
      <3>2. cur[World] \in Sockets
        BY DEF CursorsSet
      <3> HIDE DEF UnlockSession
      <3> QED BY <3>1, <3>2 DEF TypeOK
    <2>3. pc' \in [Threads -> PCs]
      BY DEF TypeOK, PCs
    <2>4. cur' \in [Threads -> Sockets \cup {Null}]
      BY DEF TypeOK, PCs
    <2> QED BY <1>t, <2>1, <2>2, <2>3, <2>4 DEF TypeOK, Faults
  <1>2. CursorsSet'
    BY DEF CursorsSet, TypeOK, Disconnecting
  <1>3. CallbacksExclude'
    BY DEF CallbacksExclude, CursorsSet, InCallback, Early,
             Disconnecting, TypeOK
  <1>4. OneWayIn'
    <2>1. \A u \in Threads : Entering(u)' => Entering(u) /\ cur'[u] = cur[u]
      BY DEF Entering, TypeOK, CursorsSet
    <2> QED BY <2>1, NobodyEnters
  <1>5. Bookkeeping'
    BY DEF Bookkeeping, OneWayIn, OnTheWay, Entering, CursorsSet, TypeOK
  <1>6. NoDanglingSession'
    BY DEF NoDanglingSession, OneWayIn, OnTheWay, Entering, Bookkeeping,
             CursorsSet, TypeOK
  <1> QED BY <1>1, <1>2, <1>3, <1>4, <1>5, <1>6

\* OnDisconnect, on any thread.
LEMMA DisconnectStepKeepsIInv ==
    ASSUME IInv, NEW t \in Threads, DisconnectStep(t)
    PROVE  IInv'
  BY UnlinkSessionKeepsIInv, CancelRequestKeepsIInv, LeaveQueueKeepsIInv
     DEF DisconnectStep

\* Authenticate, on any thread.
LEMMA AuthenticateStepKeepsIInv ==
    ASSUME IInv, NEW t \in Threads, AuthenticateStep(t)
    PROVE  IInv'
  BY AuthenticateKeepsIInv, AddSessionKeepsIInv, AddGlobalSessionKeepsIInv
     DEF AuthenticateStep

\* The steps of one socket worker.
LEMMA WorkerStepKeepsIInv ==
    ASSUME IInv, NEW w \in Workers, WorkerStep(w)
    PROVE  IInv'
  <1>1. w \in Threads
    OBVIOUS
  <1> QED BY <1>1, SetRequestKeepsIInv, SetPacketKeepsIInv, CallbackKeepsIInv,
             KickKeepsIInv, KickedKeepsIInv, CreateSessionKeepsIInv,
             AdmitKeepsIInv, AddQueuedSocketKeepsIInv, MarkQueuedKeepsIInv,
             EndCallbackKeepsIInv, DisconnectStepKeepsIInv,
             AuthenticateStepKeepsIInv
          DEF WorkerStep

\* The steps of the world thread.
LEMMA WorldStepKeepsIInv ==
    ASSUME IInv, WorldStep
    PROVE  IInv'
  <1>1. World \in Threads
    OBVIOUS
  <1> QED BY <1>1, UpdateQueuedSessionsKeepsIInv, PopQueueKeepsIInv,
             LockSessionKeepsIInv, UnlockSessionKeepsIInv, StartPassKeepsIInv,
             UpdateSessionKeepsIInv, PingTimedOutKeepsIInv, EndPassKeepsIInv,
             DeleteSessionsKeepsIInv, DisconnectStepKeepsIInv,
             AuthenticateStepKeepsIInv
          DEF WorldStep

\* A step that changes nothing.
LEMMA StutterKeepsIInv ==
    ASSUME IInv, UNCHANGED vars
    PROVE  IInv'
  <1> USE DEF IInv, vars
  <1>t. RequestsTyped'
    BY RequestsKept
  <1>1. TypeOK'
    BY <1>t DEF TypeOK
  <1>2. CursorsSet' /\ CallbacksExclude'
    BY DEF CursorsSet, CallbacksExclude, InCallback, Early, Disconnecting
  <1>3. OneWayIn' /\ Bookkeeping' /\ NoDanglingSession'
    BY DEF OneWayIn, OnTheWay, Entering, Queued, Bookkeeping,
           NoDanglingSession
  <1> QED BY <1>1, <1>2, <1>3

\* The steps there are.
LEMMA Steps ==
    ASSUME [Next]_vars
    PROVE  \/ /\ fault = "none"
              /\ \/ \E w \in Workers :
                       WorkerStep(w) \/ \E s \in Sockets : Arrival(w, s)
                 \/ WorldStep
                 \/ \E s \in Sockets :
                       Accept(s) \/ FreeSocket(s) \/ LogoutDelayEnds(s)
           \/ UNCHANGED vars
  <1>1. ASSUME NEW s \in Sockets, Answered(s)
        PROVE  \E w \in Workers : Arrival(w, s)
    <2>1. PICK w \in Workers, n \in 1..requests[s] : HandleSessionInfo(w, s, n)
      BY <1>1 DEF Answered
    <2>2. n \in Nat
      OBVIOUS
    <2> QED BY <2>1, <2>2 DEF Arrival
  <1>2. ASSUME NEW w \in Workers, NEW s \in Sockets,
               Drop(w, s) \/ HandleAuthSession(w, s)
        PROVE  Arrival(w, s)
    BY <1>2 DEF Arrival
  <1> QED BY <1>1, <1>2 DEF Next

\* Every step of every thread preserves the strengthened invariant.
LEMMA NextKeepsIInv == IInv /\ [Next]_vars => IInv'
  <1> SUFFICES ASSUME IInv, [Next]_vars PROVE IInv'
    OBVIOUS
  <1>1. ASSUME NEW w \in Workers, WorkerStep(w) PROVE IInv'
    BY <1>1, WorkerStepKeepsIInv
  <1>2. ASSUME NEW w \in Workers, NEW s \in Sockets, Arrival(w, s) PROVE IInv'
    BY <1>2, DropKeepsIInv, HandleAuthSessionKeepsIInv,
       HandleSessionInfoKeepsIInv DEF Arrival
  <1>3. CASE WorldStep
    BY <1>3, WorldStepKeepsIInv
  <1>4. ASSUME NEW s \in Sockets, Accept(s) \/ FreeSocket(s) \/ LogoutDelayEnds(s)
        PROVE  IInv'
    BY <1>4, AcceptKeepsIInv, FreeSocketKeepsIInv, LogoutDelayEndsKeepsIInv
  <1>5. CASE UNCHANGED vars
    BY <1>5, StutterKeepsIInv
  <1> QED BY <1>1, <1>2, <1>3, <1>4, <1>5, Steps

-------------------------------------------------------------------------------
\* The strengthened invariant holds in every reachable state of the
\* admission of clients (WorldSocket.cpp, LogonCommHandler.cpp, World.cpp),
\* whatever the number of connections, accounts and socket workers.
THEOREM Invariance == Spec => []IInv
  BY InitIInv, NextKeepsIInv, PTL DEF Spec

\* The variables of WorldSocket, WorldSession, LogonCommHandler and World
\* hold values of their kinds, and mutexes are owned by threads.
THEOREM TypeCorrectness == Spec => []TypeOK
  <1>1. IInv => TypeOK
    BY DEF IInv
  <1> QED BY <1>1, Invariance, PTL

\* World::DeleteSessions frees no session that FindSession can return or
\* that UpdateSessions visits, however many workers register and disconnect
\* sessions meanwhile.
THEOREM RegistrySafety == Spec => []NoDanglingSession
  <1>1. IInv => NoDanglingSession
    BY DEF IInv
  <1> QED BY <1>1, Invariance, PTL

\* InformationRetreiveCallback never runs on two workers at once:
\* HandleSessionInfo holds pendingLock around it, and no return of the
\* callback, no disconnection inside it, lets go of it too early.
THEOREM CallbacksAlone ==
    Spec => [](\A v, w \in Workers : InCallback(v) /\ InCallback(w) => v = w)
  <1>1. IInv => \A v, w \in Workers : InCallback(v) /\ InCallback(w) => v = w
    BY DEF IInv, CallbacksExclude
  <1> QED BY <1>1, Invariance, PTL

-------------------------------------------------------------------------------
(* The player limit.                                                       *)

\* The accounts the limit is for that have a session.
Players == {a \in Accounts \ GMs : m_sessions[a] # Null}

\* Past the check of the limit, and not registered yet.
PastCheck(t) ==
    /\ pc[t] \in {"authenticate", "register"}
                  \cup (IF t = World THEN {"lockSession"} ELSE {})
    /\ AccountOf[cur[t]] \notin GMs

\* Each thread past the check still has a place: the one beyond the limit is
\* for the second of the two that can be there.
LimitInv ==
    /\ PlayerLimit = 0 => Players = {} /\ \A t \in Threads : ~PastCheck(t)
    /\ PlayerLimit > 0 =>
         /\ Cardinality(Players) <= PlayerLimit + 1
         /\ \A t \in Threads : PastCheck(t) => Cardinality(Players) <= PlayerLimit
         /\ \A w \in Workers : PastCheck(w) /\ PastCheck(World)
                               => Cardinality(Players) <= PlayerLimit - 1

\* Players can be counted, and there is none who has no session.
LEMMA PlayersCounted ==
    /\ IsFiniteSet(Players) /\ Cardinality(Players) \in Nat
    /\ SessionCount \in Nat /\ Cardinality(Players) <= SessionCount
  <1>1. Players \subseteq {a \in Accounts : m_sessions[a] # Null}
    BY DEF Players
  <1>2. IsFiniteSet({a \in Accounts : m_sessions[a] # Null})
    BY FS_Subset
  <1> QED BY <1>1, <1>2, FS_Subset, FS_CardinalityType DEF SessionCount

\* A step that registers no player and lets no thread past the check.
LEMMA ShrinkingKeepsLimit ==
    ASSUME LimitInv, Players' \subseteq Players,
           \A t \in Threads : PastCheck(t)' => PastCheck(t)
    PROVE  LimitInv'
  <1>1. /\ Cardinality(Players') <= Cardinality(Players)
        /\ Cardinality(Players') \in Nat /\ Cardinality(Players) \in Nat
    BY PlayersCounted, FS_Subset, FS_CardinalityType
  <1>2. World \in Threads /\ Workers \subseteq Threads
    OBVIOUS
  <1>3. PlayerLimit = 0 => Players' = {} /\ \A t \in Threads : ~PastCheck(t)'
    BY DEF LimitInv
  <1>4. CASE PlayerLimit > 0
    <2> DEFINE n == Cardinality(Players)
               m == Cardinality(Players')
    <2>1. m <= n /\ m \in Nat /\ n \in Nat
      BY <1>1
    <2>2. /\ n <= PlayerLimit + 1
          /\ \A t \in Threads : PastCheck(t) => n <= PlayerLimit
          /\ \A w \in Workers : PastCheck(w) /\ PastCheck(World)
                                => n <= PlayerLimit - 1
      BY <1>4 DEF LimitInv
    <2> HIDE DEF n, m
    <2>3. /\ m <= PlayerLimit + 1
          /\ \A t \in Threads : PastCheck(t)' => m <= PlayerLimit
          /\ \A w \in Workers : PastCheck(w)' /\ PastCheck(World)'
                                => m <= PlayerLimit - 1
      BY <1>2, <2>1, <2>2
    <2> QED BY <1>3, <2>3 DEF LimitInv, m
  <1>5. CASE ~(PlayerLimit > 0)
    BY <1>3, <1>5 DEF LimitInv
  <1> QED BY <1>4, <1>5

\* A step that lets one thread past the check when there is room.
LEMMA PassingKeepsLimit ==
    ASSUME IInv, LimitInv, UNCHANGED m_sessions, SessionCount < PlayerLimit
    PROVE  LimitInv'
  <1>1. Players' = Players
    BY DEF Players
  <1>2. Cardinality(Players) <= PlayerLimit - 1 /\ Cardinality(Players) \in Nat
        /\ PlayerLimit > 0
    BY PlayersCounted
  <1> QED BY <1>1, <1>2 DEF LimitInv

\* The other handlers of a socket register nobody and let nobody past the
\* check.
LEMMA HandlersAdmitNobody ==
    ASSUME IInv, NEW t \in Threads,
           \/ SetRequest(t) \/ SetPacket(t) \/ Callback(t) \/ Kick(t)
           \/ Kicked(t) \/ CreateSession(t) \/ AddQueuedSocket(t)
           \/ MarkQueued(t) \/ EndCallback(t) \/ DisconnectStep(t)
           \/ Authenticate(t) \/ AddGlobalSession(t)
           \/ \E s \in Sockets : Arrival(t, s)
    PROVE  UNCHANGED m_sessions /\ \A u \in Threads : PastCheck(u)' => PastCheck(u)
  <1>a. /\ pc \in [Threads -> PCs] /\ cur \in [Threads -> Sockets \cup {Null}]
        /\ dret \in [Threads -> {"idle", "kicked", "end", "pinged"}]
    BY DEF IInv, TypeOK
  <1> USE <1>a DEF PastCheck, Crash, AfterAuthenticate
  <1>1. CASE SetRequest(t)
    BY <1>1 DEF SetRequest
  <1>2. CASE SetPacket(t)
    BY <1>2 DEF SetPacket
  <1>3. CASE Callback(t)
    BY <1>3 DEF Callback
  <1>4. CASE Kick(t)
    <2>1. /\ UNCHANGED <<m_sessions, cur>>
          /\ \/ pc' = pc
             \/ pc' = [pc EXCEPT ![t] = "kicked"]
             \/ pc' = [pc EXCEPT ![t] = "unlinkSession"]
      BY <1>4 DEF Kick, Disconnect, Crash
    <2> QED BY <2>1
  <1>5. CASE Kicked(t)
    BY <1>5 DEF Kicked
  <1>6. CASE CreateSession(t)
    BY <1>6 DEF CreateSession
  <1>7. CASE AddQueuedSocket(t)
    BY <1>7 DEF AddQueuedSocket
  <1>8. CASE MarkQueued(t)
    BY <1>8 DEF MarkQueued
  <1>9. CASE EndCallback(t)
    BY <1>9 DEF EndCallback
  <1>10. CASE UnlinkSession(t)
    <2>1. /\ UNCHANGED <<m_sessions, cur>>
          /\ \/ pc' = pc
             \/ pc' = [pc EXCEPT ![t] = "cancelRequest"]
      BY <1>10 DEF UnlinkSession, Crash
    <2> QED BY <2>1
  <1>11. CASE CancelRequest(t)
    BY <1>11 DEF CancelRequest
  <1>12. CASE LeaveQueue(t)
    BY <1>12 DEF LeaveQueue
  <1>13. CASE Authenticate(t)
    BY <1>13 DEF Authenticate
  <1>14. CASE AddGlobalSession(t)
    <2>1. /\ UNCHANGED <<m_sessions, cur>>
          /\ \/ pc' = pc
             \/ pc' = [pc EXCEPT ![t] = "end"]
             \/ pc' = [pc EXCEPT ![t] = "unlockSession"]
      BY <1>14 DEF AddGlobalSession, Crash
    <2> QED BY <2>1
  <1>15. ASSUME NEW s \in Sockets, Drop(t, s)
         PROVE  UNCHANGED m_sessions /\ \A u \in Threads : PastCheck(u)' => PastCheck(u)
    BY <1>15 DEF Drop, Disconnect
  <1>16. ASSUME NEW s \in Sockets, HandleAuthSession(t, s)
         PROVE  UNCHANGED m_sessions /\ \A u \in Threads : PastCheck(u)' => PastCheck(u)
    BY <1>16 DEF HandleAuthSession, Disconnect
  <1>17. ASSUME NEW s \in Sockets, NEW n \in Nat, HandleSessionInfo(t, s, n)
         PROVE  UNCHANGED m_sessions /\ \A u \in Threads : PastCheck(u)' => PastCheck(u)
    BY <1>17 DEF HandleSessionInfo
  <1> QED BY <1>1, <1>2, <1>3, <1>4, <1>5, <1>6, <1>7, <1>8, <1>9, <1>10,
             <1>11, <1>12, <1>13, <1>14, <1>15, <1>16, <1>17
          DEF DisconnectStep, Arrival

\* Nor do the other steps of the world thread.
LEMMA WorldAdmitsNobody ==
    ASSUME IInv,
           \/ UpdateQueuedSessions \/ LockSession \/ UnlockSession \/ StartPass
           \/ (\E s \in Sockets : UpdateSession(s)) \/ PingTimedOut
           \/ DeleteSessions
    PROVE  UNCHANGED m_sessions /\ \A u \in Threads : PastCheck(u)' => PastCheck(u)
  <1>a. pc \in [Threads -> PCs] /\ cur \in [Threads -> Sockets \cup {Null}]
    BY DEF IInv, TypeOK
  <1> USE <1>a DEF PastCheck, Crash
  <1>1. CASE UpdateQueuedSessions
    BY <1>1 DEF UpdateQueuedSessions
  <1>2. CASE LockSession
    <2>1. /\ UNCHANGED <<m_sessions, cur>> /\ pc[World] = "lockSession"
          /\ \/ pc' = pc
             \/ pc' = [pc EXCEPT ![World] = "authenticate"]
      BY <1>2 DEF LockSession, Crash
    <2> QED BY <2>1
  <1>3. CASE UnlockSession
    <2>1. /\ UNCHANGED m_sessions
          /\ \/ UNCHANGED <<pc, cur>>
             \/ /\ pc' = [pc EXCEPT ![World] = "queue"]
                /\ cur' = [cur EXCEPT ![World] = Null]
      BY <1>3 DEF UnlockSession, Crash
    <2> QED BY <2>1
  <1>4. CASE StartPass
    BY <1>4 DEF StartPass
  <1>5. ASSUME NEW s \in Sockets, UpdateSession(s)
        PROVE  UNCHANGED m_sessions /\ \A u \in Threads : PastCheck(u)' => PastCheck(u)
    BY <1>5 DEF UpdateSession, Disconnect
  <1>6. CASE PingTimedOut
    BY <1>6 DEF PingTimedOut
  <1>7. CASE DeleteSessions
    BY <1>7 DEF DeleteSessions
  <1> QED BY <1>1, <1>2, <1>3, <1>4, <1>5, <1>6, <1>7

\* Neither do connections, the garbage collector and the passing of time.
LEMMA TimeAdmitsNobody ==
    ASSUME \/ \E s \in Sockets : Accept(s) \/ FreeSocket(s) \/ LogoutDelayEnds(s)
           \/ UNCHANGED vars
    PROVE  UNCHANGED m_sessions /\ \A u \in Threads : PastCheck(u)' => PastCheck(u)
  BY DEF PastCheck, Accept, FreeSocket, LogoutDelayEnds, vars

LEMMA AdmitKeepsLimit ==
    ASSUME IInv, LimitInv, NEW w \in Workers, Admit(w)
    PROVE  LimitInv'
  <1>a. UNCHANGED <<m_sessions, cur>> /\ pc[w] = "admit" /\ TypeOK
    BY DEF Admit, IInv
  <1>1. CASE HasRoom(cur[w]) /\ AccountOf[cur[w]] \notin GMs
    BY <1>a, <1>1, PassingKeepsLimit DEF HasRoom
  <1>2. CASE ~HasRoom(cur[w]) \/ AccountOf[cur[w]] \in GMs
    <2>1. \A u \in Threads : PastCheck(u)' => PastCheck(u)
      BY <1>a, <1>2 DEF Admit, Disconnect, PastCheck, TypeOK
    <2> QED BY <1>a, <2>1, ShrinkingKeepsLimit DEF Players
  <1> QED BY <1>1, <1>2

LEMMA PopQueueKeepsLimit ==
    ASSUME IInv, LimitInv, PopQueue
    PROVE  LimitInv'
  <1>a. UNCHANGED m_sessions /\ TypeOK
    BY DEF PopQueue, Crash, IInv
  <1>1. CASE QueueHasRoom
    BY <1>a, <1>1, PassingKeepsLimit DEF QueueHasRoom
  <1>2. CASE ~QueueHasRoom
    <2>a. /\ UNCHANGED cur
          /\ pc' = pc \/ pc' = [pc EXCEPT ![World] = "startPass"]
      BY <1>2 DEF PopQueue, Crash
    <2>1. \A u \in Threads : PastCheck(u)' => PastCheck(u)
      BY <1>a, <2>a DEF PastCheck, TypeOK
    <2> QED BY <1>a, <2>1, ShrinkingKeepsLimit DEF Players
  <1> QED BY <1>1, <1>2

\* A player takes the place kept for the thread, which then is past the
\* check no more.
LEMMA AddSessionKeepsLimit ==
    ASSUME IInv, LimitInv, NEW t \in Threads, AddSession(t)
    PROVE  LimitInv'
  <1> DEFINE a == AccountOf[cur[t]]
  <1>a. /\ pc[t] = "register" /\ UNCHANGED cur /\ TypeOK
        /\ \A u \in Threads : u # t => pc'[u] = pc[u]
    BY ZenonT(40) DEF AddSession, Crash, IInv, TypeOK
  <1>b. cur[t] \in Sockets /\ a \in Accounts
    BY <1>a DEF IInv, CursorsSet
  <1>1. CASE ~mSession[cur[t]]
    <2>1. UNCHANGED <<m_sessions, pc>>
      BY <1>1 DEF AddSession, Crash
    <2> QED BY <1>a, <2>1, ShrinkingKeepsLimit DEF Players, PastCheck
  <1>2. CASE mSession[cur[t]]
    <2>a. m_sessions' = [m_sessions EXCEPT ![a] = cur[t]] /\ pc'[t] = "global"
      BY <1>2, <1>a DEF AddSession, TypeOK
    <2>b. \A u \in Threads : PastCheck(u)' => PastCheck(u) /\ u # t
      BY <1>a, <2>a DEF PastCheck
    <2>1. CASE a \in GMs
      <3>1. Players' \subseteq Players
        BY <1>a, <1>b, <2>a, <2>1 DEF Players, TypeOK
      <3> QED BY <2>b, <3>1, ShrinkingKeepsLimit
    <2>2. CASE a \notin GMs
      <3>1. PastCheck(t) /\ PlayerLimit > 0
        BY <1>a, <2>2 DEF PastCheck, LimitInv
      <3> DEFINE n == Cardinality(Players)
                 m == Cardinality(Players')
      <3>2. n \in Nat /\ m \in Nat /\ m <= n + 1
        <4>1. Players' \subseteq Players \cup {a}
          BY <1>a, <1>b, <2>a DEF Players, TypeOK
        <4>2. IsFiniteSet(Players) /\ n \in Nat
          BY PlayersCounted
        <4> HIDE DEF a
        <4>3. /\ IsFiniteSet(Players \cup {a})
              /\ Cardinality(Players \cup {a}) <= n + 1
              /\ Cardinality(Players \cup {a}) \in Nat
          <5>1. /\ IsFiniteSet(Players \cup {a})
                /\ \/ Cardinality(Players \cup {a}) = n
                   \/ Cardinality(Players \cup {a}) = n + 1
            BY <4>2, FS_AddElement
          <5> QED BY <4>2, <5>1
        <4> QED BY <4>1, <4>2, <4>3, FS_Subset, FS_CardinalityType
      <3>3. /\ n <= PlayerLimit
            /\ \A w \in Workers : PastCheck(w) /\ PastCheck(World)
                                  => n <= PlayerLimit - 1
        BY <3>1 DEF LimitInv
      <3>4. \A v, w \in Workers : PastCheck(v) /\ PastCheck(w) => v = w
        BY DEF PastCheck, IInv, CallbacksExclude, InCallback
      <3> HIDE DEF n, m
      <3>5. \A u \in Threads : PastCheck(u)' => m <= PlayerLimit
        <4> SUFFICES ASSUME NEW u \in Threads, PastCheck(u)'
                     PROVE  n <= PlayerLimit - 1
          BY <3>2
        <4>1. PastCheck(u) /\ u # t
          BY <2>b
        <4> QED BY <3>1, <3>3, <3>4, <4>1
      <3>6. ~(\E w \in Workers : PastCheck(w)' /\ PastCheck(World)')
        BY <2>b, <3>1, <3>4
      <3> QED BY <3>1, <3>2, <3>3, <3>5, <3>6 DEF LimitInv, m
    <2> QED BY <2>1, <2>2
  <1> QED BY <1>1, <1>2

LEMMA EndPassKeepsLimit ==
    ASSUME IInv, LimitInv, EndPass
    PROVE  LimitInv'
  <1>1. Players' \subseteq Players
    BY DEF EndPass, Unregister, Players
  <1>2. \A u \in Threads : PastCheck(u)' => PastCheck(u)
    BY DEF EndPass, PastCheck, IInv, TypeOK
  <1> QED BY <1>1, <1>2, ShrinkingKeepsLimit

LEMMA InitLimit == Init => LimitInv
  <1> SUFFICES ASSUME Init PROVE LimitInv
    OBVIOUS
  <1>1. Players = {} /\ \A t \in Threads : ~PastCheck(t)
    BY DEF Init, Players, PastCheck
  <1> QED BY <1>1, FS_EmptySet DEF LimitInv

\* World::m_playerLimit is exceeded by one player at most, GMs apart, however
\* many workers check it (WorldSocket.cpp) while the world thread lets queued
\* clients in (World.cpp); on a server with limit 0 there are only GMs.
THEOREM LimitSafety == Spec => []PlayerLimitKept
  <1>1. ASSUME IInv, LimitInv, [Next]_vars
        PROVE  LimitInv'
    <2>a. World \in Threads /\ Workers \subseteq Threads
      OBVIOUS
    <2>b. ASSUME UNCHANGED m_sessions,
                 \A u \in Threads : PastCheck(u)' => PastCheck(u)
          PROVE  LimitInv'
      BY <1>1, <2>b, ShrinkingKeepsLimit DEF Players
    <2>1. ASSUME NEW w \in Workers,
                 WorkerStep(w) \/ \E s \in Sockets : Arrival(w, s)
          PROVE  LimitInv'
      BY <1>1, <2>a, <2>b, <2>1, HandlersAdmitNobody, AdmitKeepsLimit,
         AddSessionKeepsLimit DEF WorkerStep, AuthenticateStep
    <2>2. CASE WorldStep
      BY <1>1, <2>a, <2>b, <2>2, HandlersAdmitNobody, WorldAdmitsNobody,
         PopQueueKeepsLimit, AddSessionKeepsLimit, EndPassKeepsLimit
         DEF WorldStep, AuthenticateStep
    <2>3. CASE UNCHANGED vars \/ \E s \in Sockets :
                   Accept(s) \/ FreeSocket(s) \/ LogoutDelayEnds(s)
      BY <2>b, <2>3, TimeAdmitsNobody
    <2> QED BY <1>1, <2>1, <2>2, <2>3, Steps
  <1>2. LimitInv => PlayerLimitKept
    <2> SUFFICES ASSUME LimitInv PROVE PlayerLimitKept
      OBVIOUS
    <2>1. CASE PlayerLimit = 0
      BY <2>1, FS_EmptySet DEF LimitInv, PlayerLimitKept, Players
    <2>2. CASE PlayerLimit > 0
      BY <2>2 DEF LimitInv, PlayerLimitKept, Players
    <2> QED BY <2>1, <2>2
  <1> QED BY InitLimit, Invariance, <1>1, <1>2, PTL DEF Spec

-------------------------------------------------------------------------------
(* Which session of an account is updated.                                 *)

\* A thread that has a session, or is about to make it, and will register it.
Bringing(t) == Entering(t) \/ (t # World /\ pc[t] = "create")

\* A session to be deleted whose account has not yet been taken out of the
\* registry.
Leaving(s) == s \in erasable /\ pc[World] # "deleteSessions"

\* A session that is or will be in the world, until it is deleted.
Active(s) ==
    \/ Queued(s) \/ s \in updateSet \/ Leaving(s)
    \/ \E t \in Threads : Bringing(t) /\ cur[t] = s

\* One that has been put in the registry.
Placed(s) ==
    \/ s \in updateSet \/ Leaving(s)
    \/ \E t \in Threads : pc[t] = "global" /\ cur[t] = s

\* An account has two such sessions only where one was in the login queue when
\* the other was made; the registry has lost no other.
UInv ==
    /\ \A r, s \in Sockets :
          Active(r) /\ Active(s) /\ r # s /\ AccountOf[r] = AccountOf[s]
              => r \in doubles
    /\ \A s \in Sockets :
          Placed(s) => m_sessions[AccountOf[s]] = s \/ s \in doubles

\* A step that brings no session on and leaves the registry alone.
LEMMA FewerKeepUInv ==
    ASSUME UInv, UNCHANGED <<m_sessions, doubles>>,
           \A s \in Sockets : (Active(s)' => Active(s)) /\ (Placed(s)' => Placed(s))
    PROVE  UInv'
  BY DEF UInv

\* A step of thread t that keeps its session, loses it, or had none.
LEMMA QuietKeepsUInv ==
    ASSUME UInv, NEW t \in Threads, pc[t] # "deleteSessions",
           UNCHANGED <<m_sessions, updateSet, erasable, queue, doubles>>,
           \A u \in Threads \ {t} : pc'[u] = pc[u] /\ cur'[u] = cur[u],
           \/ pc'[t] = pc[t] /\ cur'[t] = cur[t]
           \/ pc'[t] \notin {"create", "admit", "enqueue", "lockSession"}
                              \cup AuthenticatePCs
           \/ Bringing(t) /\ pc'[t] # "global" /\ cur'[t] = cur[t]
    PROVE  UInv'
  <1>1. \A u \in Threads : Bringing(u)' => Bringing(u) /\ cur'[u] = cur[u]
    BY DEF Bringing, Entering
  <1>2. \A u \in Threads : pc'[u] = "global" => pc[u] = "global" /\ cur'[u] = cur[u]
    OBVIOUS
  <1>3. \A s \in Sockets : (Queued(s)' => Queued(s)) /\ (Leaving(s)' => Leaving(s))
    BY DEF Queued, Leaving
  <1>4. \A s \in Sockets : (Active(s)' => Active(s)) /\ (Placed(s)' => Placed(s))
    BY <1>1, <1>2, <1>3 DEF Active, Placed
  <1> QED BY <1>4, FewerKeepUInv

\* The handlers of a socket that do not reach the registry.
LEMMA HandlersKeepUInv ==
    ASSUME IInv, UInv, NEW t \in Threads,
           \/ t \in Workers /\
              (\/ SetRequest(t) \/ SetPacket(t) \/ Kick(t) \/ Kicked(t)
               \/ CreateSession(t) \/ Admit(t) \/ MarkQueued(t)
               \/ EndCallback(t) \/ \E s \in Sockets : Arrival(t, s))
           \/ UnlinkSession(t) \/ CancelRequest(t) \/ Authenticate(t)
    PROVE  UInv'
  <1>a. /\ pc \in [Threads -> PCs] /\ cur \in [Threads -> Sockets \cup {Null}]
        /\ dret \in [Threads -> {"idle", "kicked", "end", "pinged"}]
    BY DEF IInv, TypeOK
  <1> DEFINE Quiet == UNCHANGED <<m_sessions, updateSet, erasable, queue, doubles>>
             Stays == UNCHANGED <<pc, cur>>
             Moves(S) == \E l \in S : pc' = [pc EXCEPT ![t] = l]
             Outside == {"idle", "setRequest", "setPacket", "callback", "kicked",
                         "end", "pinged", "unlinkSession", "cancelRequest",
                         "leaveQueue", "unlockSession"}
  <1>b. ASSUME Quiet, pc[t] # "deleteSessions",
               \/ Stays
               \/ Moves(Outside) /\ \A u \in Threads : u # t => cur'[u] = cur[u]
               \/ UNCHANGED cur /\ Bringing(t)
                  /\ Moves({"admit", "enqueue", "authenticate", "register"})
        PROVE  UInv'
    BY <1>a, <1>b, QuietKeepsUInv
  <1> HIDE DEF Quiet, Stays, Moves, Outside
  <1> USE <1>a DEF Quiet, Stays, Moves, Outside, Crash, AfterAuthenticate
  <1>1. CASE SetRequest(t)
    BY <1>1, <1>b DEF SetRequest
  <1>2. CASE SetPacket(t)
    BY <1>2, <1>b DEF SetPacket
  <1>4. CASE Kick(t)
    BY <1>4, <1>b DEF Kick, Disconnect
  <1>5. CASE Kicked(t)
    BY <1>5, <1>b DEF Kicked
  <1>6. CASE t \in Workers /\ CreateSession(t)
    <2>1. /\ Quiet /\ UNCHANGED cur /\ Bringing(t) /\ pc[t] = "create"
          /\ pc' = [pc EXCEPT ![t] = "admit"]
      BY <1>6 DEF CreateSession, Bringing
    <2> QED BY <1>b, <2>1
  <1>7. CASE t \in Workers /\ Admit(t)
    <2>1. /\ Quiet /\ UNCHANGED cur /\ Bringing(t) /\ pc[t] = "admit"
          /\ Moves({"authenticate", "enqueue"}) \/ Moves({"end", "unlinkSession"})
      BY <1>7 DEF Admit, Disconnect, Bringing, Entering
    <2> QED BY <1>b, <2>1
  <1>8. CASE MarkQueued(t)
    BY <1>8, <1>b DEF MarkQueued
  <1>9. CASE EndCallback(t)
    BY <1>9, <1>b DEF EndCallback
  <1>10. CASE UnlinkSession(t)
    BY <1>10, <1>b DEF UnlinkSession
  <1>11. CASE CancelRequest(t)
    BY <1>11, <1>b DEF CancelRequest
  <1>13. CASE Authenticate(t)
    <2>1. /\ Quiet /\ UNCHANGED cur /\ Bringing(t) /\ pc[t] = "authenticate"
          /\ Moves({"register"}) \/ Moves({"end", "unlockSession"})
      BY <1>13 DEF Authenticate, Bringing, Entering
    <2> QED BY <1>b, <2>1
  <1>15. ASSUME NEW s \in Sockets, Drop(t, s) PROVE UInv'
    BY <1>15, <1>b DEF Drop, Disconnect
  <1>16. ASSUME NEW s \in Sockets, HandleAuthSession(t, s) PROVE UInv'
    BY <1>16, <1>b DEF HandleAuthSession, Disconnect
  <1>17. ASSUME NEW s \in Sockets, NEW n \in Nat, HandleSessionInfo(t, s, n)
         PROVE  UInv'
    BY <1>17, <1>b DEF HandleSessionInfo
  <1> QED BY <1>1, <1>2, <1>4, <1>5, <1>6, <1>7, <1>8, <1>9, <1>10, <1>11,
             <1>13, <1>15, <1>16, <1>17
          DEF Arrival

\* A session that is not where it belongs has been overlooked before.
LEMMA UInvMeans ==
    ASSUME IInv, UInv, NEW r \in Sockets, Active(r),
           m_sessions[AccountOf[r]] # r
    PROVE  \/ r \in doubles /\ session[r] = "live"
           \/ \E t \in Threads : t # World /\ Bringing(t) /\ cur[t] = r
           \/ Waiting(r) /\ session[r] = "live"
  <1>1. CASE Queued(r)
    BY <1>1 DEF Waiting, IInv, OneWayIn, OnTheWay
  <1>2. CASE r \in updateSet \/ Leaving(r)
    BY <1>2 DEF UInv, Placed, Leaving, IInv, NoDanglingSession
  <1>3. CASE Bringing(World) /\ cur[World] = r
    <2>1. session[r] = "live"
      BY <1>3 DEF Bringing, IInv, OneWayIn, OnTheWay
    <2>2. CASE pc[World] = "global"
      BY <1>3, <2>1, <2>2 DEF UInv, Placed
    <2>3. CASE pc[World] # "global"
      BY <1>3, <2>1, <2>3 DEF Bringing, Entering, Waiting
    <2> QED BY <2>2, <2>3
  <1> QED BY <1>1, <1>2, <1>3 DEF Active

\* FindSession found no session of the account, or the login is refused.
LEMMA CallbackKeepsUInv ==
    ASSUME IInv, UInv, NEW w \in Workers, Callback(w)
    PROVE  UInv'
  <1> DEFINE s == cur[w]
  <1>a. /\ pc \in [Threads -> PCs] /\ pc[w] = "callback" /\ w # World
        /\ UNCHANGED <<queue, m_sessions, updateSet, erasable, cur>>
        /\ m_sessions \in [Accounts -> Sockets \cup {Null}]
    BY DEF Callback, IInv, TypeOK
  <1>b. \/ /\ pc' = [pc EXCEPT ![w] = "end"] \/ pc' = [pc EXCEPT ![w] = "kick"]
           /\ doubles' = doubles
        \/ /\ pc' = [pc EXCEPT ![w] = "create"]
           /\ doubles' = WithDoubles(s)
           /\ m_sessions[AccountOf[s]] = Null
    <2>1. \/ pc' = [pc EXCEPT ![w] = "end"] \/ pc' = [pc EXCEPT ![w] = "kick"]
          \/ /\ pc' = [pc EXCEPT ![w] = "create"]
             /\ m_sessions[AccountOf[s]] = Null
      BY DEF Callback, FindSession
    <2>2. doubles' = IF pc'[w] = "create" THEN WithDoubles(s) ELSE doubles
      BY DEF Callback
    <2> QED BY <1>a, <2>1, <2>2
  <1>c. s \in Sockets /\ Early(w)
    BY <1>a DEF IInv, CursorsSet, Early
  <1> HIDE DEF s
  <1>1. CASE UNCHANGED doubles /\ (\/ pc' = [pc EXCEPT ![w] = "end"]
                                   \/ pc' = [pc EXCEPT ![w] = "kick"])
    BY <1>a, <1>1, QuietKeepsUInv
  <1>2. CASE /\ pc' = [pc EXCEPT ![w] = "create"]
             /\ doubles' = WithDoubles(s)
             /\ m_sessions[AccountOf[s]] = Null
    <2>1. \A u \in Workers : ~Bringing(u)
      BY <1>a DEF IInv, CallbacksExclude, InCallback, Bringing, Entering
    <2>2. \A r \in Sockets : r # s /\ AccountOf[r] = AccountOf[s] /\ Active(r)
              => r \in Overlooked(s)
      <3> SUFFICES ASSUME NEW r \in Sockets, r # s, AccountOf[r] = AccountOf[s],
                          Active(r)
                   PROVE  r \in Overlooked(s)
        OBVIOUS
      <3>1. m_sessions[AccountOf[r]] # r
        BY <1>2
      <3> QED BY <2>1, <3>1, UInvMeans DEF Overlooked
    <2>3. \A r \in Sockets : (Queued(r)' => Queued(r)) /\ (Leaving(r)' => Leaving(r))
      BY <1>a, <1>2 DEF Queued, Leaving
    <2>4. \A u \in Threads : (Bringing(u)' => Bringing(u) \/ u = w)
                             /\ (pc'[u] = "global" => pc[u] = "global")
      BY <1>a, <1>2 DEF Bringing, Entering
    <2>5. \A r \in Sockets : (Active(r)' => Active(r) \/ r = s)
                             /\ (Placed(r)' => Placed(r))
      BY <1>a, <2>3, <2>4 DEF Active, Placed, s
    <2>6. doubles \subseteq doubles'
      BY <1>2 DEF WithDoubles
    <2>7. \A q, r \in Sockets :
              Active(q)' /\ Active(r)' /\ q # r /\ AccountOf[q] = AccountOf[r]
                  => q \in doubles'
      <3> SUFFICES ASSUME NEW q \in Sockets, NEW r \in Sockets, Active(q)',
                          Active(r)', q # r, AccountOf[q] = AccountOf[r]
                   PROVE  q \in doubles'
        OBVIOUS
      <3>1. CASE q = s \/ r = s
        <4>1. (IF q = s THEN r ELSE q) \in Overlooked(s)
          BY <2>2, <2>5, <3>1
        <4>2. doubles' = doubles \cup Overlooked(s) \cup {s}
          BY <1>2, <4>1 DEF WithDoubles
        <4> QED BY <3>1, <4>1, <4>2
      <3>2. CASE q # s /\ r # s
        BY <2>5, <2>6, <3>2 DEF UInv
      <3> QED BY <3>1, <3>2
    <2>8. \A r \in Sockets :
              Placed(r)' => m_sessions'[AccountOf[r]] = r \/ r \in doubles'
      BY <1>a, <2>5, <2>6 DEF UInv
    <2> QED BY <1>a, <2>7, <2>8 DEF UInv
  <1> QED BY <1>b, <1>1, <1>2

\* A session that loses its place to another was overlooked.
LEMMA AddSessionKeepsUInv ==
    ASSUME IInv, UInv, NEW t \in Threads, AddSession(t)
    PROVE  UInv'
  <1> DEFINE s == cur[t]
  <1>a. /\ pc \in [Threads -> PCs] /\ pc[t] = "register" /\ Entering(t)
        /\ UNCHANGED <<queue, updateSet, erasable, cur, doubles>>
        /\ m_sessions \in [Accounts -> Sockets \cup {Null}]
    BY DEF AddSession, Crash, IInv, TypeOK, Entering
  <1>b. s \in Sockets /\ AccountOf[s] \in Accounts
    BY <1>a DEF IInv, CursorsSet
  <1>c. \/ UNCHANGED <<pc, m_sessions>>
        \/ /\ pc' = [pc EXCEPT ![t] = "global"]
           /\ m_sessions' = [m_sessions EXCEPT ![AccountOf[s]] = s]
    BY DEF AddSession, Crash
  <1>d. Active(s)
    BY <1>a DEF Active, Bringing, s
  <1>e. cur[t] = s
    BY DEF s
  <1> HIDE DEF s
  <1>1. CASE UNCHANGED <<pc, m_sessions>>
    BY <1>a, <1>1, QuietKeepsUInv
  <1>2. CASE /\ pc' = [pc EXCEPT ![t] = "global"]
             /\ m_sessions' = [m_sessions EXCEPT ![AccountOf[s]] = s]
    <2>1. \A r \in Sockets : (Queued(r)' => Queued(r)) /\ (Leaving(r)' => Leaving(r))
      BY <1>a, <1>2 DEF Queued, Leaving
    <2>2. \A u \in Threads : (Bringing(u)' => Bringing(u))
                             /\ (pc'[u] = "global" => pc[u] = "global" \/ u = t)
      BY <1>a, <1>2 DEF Bringing, Entering
    <2>3. \A r \in Sockets : (Active(r)' => Active(r))
                             /\ (Placed(r)' => Placed(r) \/ r = s)
      BY <1>a, <1>e, <2>1, <2>2 DEF Active, Placed
    <2>4. \A r \in Sockets : Placed(r) => Active(r)
      BY DEF Placed, Active, Bringing, Entering
    <2>5. \A r \in Sockets :
              Placed(r)' => m_sessions'[AccountOf[r]] = r \/ r \in doubles'
      <3> SUFFICES ASSUME NEW r \in Sockets, Placed(r)'
                   PROVE  m_sessions'[AccountOf[r]] = r \/ r \in doubles'
        OBVIOUS
      <3>1. CASE r = s
        BY <1>a, <1>b, <1>2, <3>1
      <3>2. CASE r # s /\ AccountOf[r] = AccountOf[s]
        BY <1>a, <1>b, <1>d, <2>3, <2>4, <3>2 DEF UInv
      <3>3. CASE r # s /\ AccountOf[r] # AccountOf[s]
        BY <1>a, <1>b, <1>2, <2>3, <3>3 DEF UInv
      <3> QED BY <3>1, <3>2, <3>3
    <2>6. \A q, r \in Sockets :
              Active(q)' /\ Active(r)' /\ q # r /\ AccountOf[q] = AccountOf[r]
                  => q \in doubles'
      BY <1>a, <2>3 DEF UInv
    <2> QED BY <2>5, <2>6 DEF UInv
  <1> QED BY <1>c, <1>1, <1>2

\* The session enters the update set from its place in the registry.
LEMMA AddGlobalSessionKeepsUInv ==
    ASSUME IInv, UInv, NEW t \in Threads, AddGlobalSession(t)
    PROVE  UInv'
  <1>a. /\ pc \in [Threads -> PCs] /\ pc[t] = "global"
        /\ UNCHANGED <<queue, m_sessions, erasable, cur, doubles>>
    BY DEF AddGlobalSession, Crash, IInv, TypeOK
  <1>b. \/ UNCHANGED <<pc, updateSet>>
        \/ /\ pc' = [pc EXCEPT ![t] = "end"] \/ pc' = [pc EXCEPT ![t] = "unlockSession"]
           /\ updateSet' = updateSet \cup {cur[t]}
    BY <1>a DEF AddGlobalSession, Crash, AfterAuthenticate
  <1>1. \A r \in Sockets : (Queued(r)' => Queued(r)) /\ (Leaving(r)' => Leaving(r))
    BY <1>a, <1>b DEF Queued, Leaving
  <1>2. \A u \in Threads : (Bringing(u)' => Bringing(u))
                           /\ (pc'[u] = "global" => pc[u] = "global")
    BY <1>a, <1>b DEF Bringing, Entering
  <1>3. Bringing(t)
    BY <1>a DEF Bringing, Entering
  <1>4. \A r \in Sockets : (Active(r)' => Active(r)) /\ (Placed(r)' => Placed(r))
    BY <1>a, <1>b, <1>1, <1>2, <1>3 DEF Active, Placed
  <1> QED BY <1>a, <1>4, FewerKeepUInv

\* The steps of the queue bring no session that was not there.
LEMMA QueueKeepsUInv ==
    ASSUME IInv, UInv, UNCHANGED <<m_sessions, updateSet, erasable, doubles>>,
           \A s \in Sockets : OnTheWay(s)' => OnTheWay(s),
           \A u \in Threads :
              /\ pc'[u] \in {"create", "global"} => pc'[u] = pc[u] /\ cur'[u] = cur[u]
              /\ pc'[u] = "deleteSessions" <=> pc[u] = "deleteSessions"
    PROVE  UInv'
  <1>1. \A s \in Sockets : Leaving(s)' => Leaving(s)
    BY DEF Leaving
  <1>2. \A s \in Sockets : (Active(s)' => Active(s)) /\ (Placed(s)' => Placed(s))
    BY <1>1 DEF Active, Placed, Bringing, OnTheWay
  <1> QED BY <1>2, FewerKeepUInv

LEMMA LeaveQueueKeepsUInv ==
    ASSUME IInv, UInv, NEW t \in Threads, LeaveQueue(t)
    PROVE  UInv'
  <1>1. /\ pc \in [Threads -> PCs] /\ pc[t] = "leaveQueue"
        /\ dret[t] \in {"idle", "kicked", "end", "pinged"}
        /\ pc' = [pc EXCEPT ![t] = dret[t]]
        /\ UNCHANGED <<m_sessions, updateSet, erasable, doubles, cur>>
    BY DEF LeaveQueue, IInv, TypeOK
  <1> QED BY <1>1, LeavingAddsNobody, QueueKeepsUInv

LEMMA AddQueuedSocketKeepsUInv ==
    ASSUME IInv, UInv, NEW w \in Workers, AddQueuedSocket(w)
    PROVE  UInv'
  <1>1. /\ pc \in [Threads -> PCs] /\ pc[w] = "enqueue"
        /\ pc' = [pc EXCEPT ![w] = "markQueued"]
        /\ UNCHANGED <<m_sessions, updateSet, erasable, doubles, cur>>
    BY DEF AddQueuedSocket, IInv, TypeOK
  <1> QED BY <1>1, QueueingAddsNobody, QueueKeepsUInv

LEMMA PopQueueKeepsUInv ==
    ASSUME IInv, UInv, PopQueue
    PROVE  UInv'
  <1>a. /\ pc \in [Threads -> PCs] /\ cur \in [Threads -> Sockets \cup {Null}]
        /\ pc[World] = "queue"
        /\ UNCHANGED <<m_sessions, updateSet, erasable, doubles>>
    BY DEF PopQueue, Crash, IInv, TypeOK
  <1>b. \/ /\ queue # <<>> /\ queue' = Tail(queue)
           /\ \/ /\ cur' = [cur EXCEPT ![World] = Head(queue)]
                 /\ pc' = [pc EXCEPT ![World] = "lockSession"]
              \/ UNCHANGED <<cur, pc>>
        \/ UNCHANGED <<queue, cur, pc>>
        \/ UNCHANGED <<queue, cur>> /\ pc' = [pc EXCEPT ![World] = "startPass"]
    BY ZenonT(30) DEF PopQueue, Crash, Goto, thrVars, queVars
  <1>1. CASE /\ queue # <<>> /\ queue' = Tail(queue)
             /\ \/ /\ cur' = [cur EXCEPT ![World] = Head(queue)]
                   /\ pc' = [pc EXCEPT ![World] = "lockSession"]
                \/ UNCHANGED <<cur, pc>>
    <2>1. \A s \in Sockets : OnTheWay(s)' => OnTheWay(s)
      BY <1>a, <1>1, PoppingAddsNobody
    <2>2. \A u \in Threads :
              /\ pc'[u] \in {"create", "global"} => pc'[u] = pc[u] /\ cur'[u] = cur[u]
              /\ pc'[u] = "deleteSessions" <=> pc[u] = "deleteSessions"
      BY <1>a, <1>1
    <2> QED BY <1>a, <2>1, <2>2, QueueKeepsUInv
  <1>2. CASE UNCHANGED <<queue, cur, pc>>
    BY <1>a, <1>2, QuietKeepsUInv
  <1>3. CASE UNCHANGED <<queue, cur>> /\ pc' = [pc EXCEPT ![World] = "startPass"]
    BY <1>a, <1>3, QuietKeepsUInv
  <1> QED BY <1>b, <1>1, <1>2, <1>3

\* The other steps of the world thread outside DeleteSessions.
LEMMA WorldKeepsUInv ==
    ASSUME IInv, UInv,
           \/ UpdateQueuedSessions \/ LockSession \/ UnlockSession
           \/ StartPass \/ PingTimedOut
    PROVE  UInv'
  <1>a. pc \in [Threads -> PCs] /\ cur \in [Threads -> Sockets \cup {Null}]
    BY DEF IInv, TypeOK
  <1>1. CASE UpdateQueuedSessions
    BY <1>a, <1>1, QuietKeepsUInv DEF UpdateQueuedSessions
  <1>2. CASE StartPass
    BY <1>a, <1>2, QuietKeepsUInv DEF StartPass
  <1>3. CASE PingTimedOut
    BY <1>a, <1>3, QuietKeepsUInv DEF PingTimedOut
  <1>4. CASE LockSession
    <2>1. /\ UNCHANGED <<m_sessions, updateSet, erasable, queue, doubles, cur>>
          /\ Bringing(World) /\ pc[World] = "lockSession"
          /\ pc' = pc \/ pc' = [pc EXCEPT ![World] = "authenticate"]
      BY <1>4 DEF LockSession, Crash, Bringing, Entering
    <2> QED BY <1>a, <2>1, QuietKeepsUInv
  <1>5. CASE UnlockSession
    <2>1. /\ UNCHANGED <<m_sessions, updateSet, erasable, queue, doubles>>
          /\ pc[World] = "unlockSession"
          /\ \/ UNCHANGED <<pc, cur>>
             \/ /\ pc' = [pc EXCEPT ![World] = "queue"]
                /\ cur' = [cur EXCEPT ![World] = Null]
      BY <1>5 DEF UnlockSession, Crash
    <2> QED BY <1>a, <2>1, QuietKeepsUInv
  <1> QED BY <1>1, <1>2, <1>3, <1>4, <1>5

\* A session to be deleted leaves the update set from its place.
LEMMA UpdateSessionKeepsUInv ==
    ASSUME IInv, UInv, NEW s \in Sockets, UpdateSession(s)
    PROVE  UInv'
  <1>a. /\ pc \in [Threads -> PCs] /\ cur \in [Threads -> Sockets \cup {Null}]
        /\ UNCHANGED <<queue, m_sessions, doubles>> /\ pc[World] = "pass"
        /\ s \in updateSet
    BY DEF UpdateSession, IInv, TypeOK, Bookkeeping
  <1>b. \/ UNCHANGED <<updateSet, erasable, pc, cur>>
        \/ /\ UNCHANGED <<updateSet, erasable>>
           /\ cur' = [cur EXCEPT ![World] = s]
           /\ \/ pc' = [pc EXCEPT ![World] = "unlinkSession"]
              \/ pc' = [pc EXCEPT ![World] = "pinged"]
        \/ /\ erasable' = erasable \cup {s} /\ updateSet' = updateSet \ {s}
           /\ UNCHANGED <<pc, cur>>
    BY DEF UpdateSession, Disconnect
  <1>1. CASE UNCHANGED <<updateSet, erasable>>
    BY <1>a, <1>b, <1>1, QuietKeepsUInv
  <1>2. CASE /\ erasable' = erasable \cup {s} /\ updateSet' = updateSet \ {s}
             /\ UNCHANGED <<pc, cur>>
    <2>1. \A r \in Sockets : (Active(r)' => Active(r)) /\ (Placed(r)' => Placed(r))
      BY <1>a, <1>2 DEF Active, Placed, Leaving, Queued, Bringing, Entering
    <2> QED BY <1>a, <2>1, FewerKeepUInv
  <1> QED BY <1>b, <1>1, <1>2

\* The places that are cleared are not those of other sessions, unless they
\* were overlooked.
LEMMA EndPassKeepsUInv ==
    ASSUME IInv, UInv, EndPass
    PROVE  UInv'
  <1>a. /\ pc \in [Threads -> PCs] /\ pc[World] = "pass"
        /\ pc' = [pc EXCEPT ![World] = "deleteSessions"]
        /\ m_sessions' = Unregister(erasable)
        /\ UNCHANGED <<queue, updateSet, erasable, cur, doubles>>
        /\ erasable \subseteq Sockets
    BY DEF EndPass, IInv, TypeOK
  <1>1. \A u \in Threads : (Bringing(u)' => Bringing(u))
                           /\ (pc'[u] = "global" => pc[u] = "global")
    BY <1>a DEF Bringing, Entering
  <1>2. \A r \in Sockets : ~Leaving(r)' /\ (Queued(r)' => Queued(r))
    BY <1>a DEF Leaving, Queued
  <1>3. \A r \in Sockets : /\ Active(r)' => Active(r)
                           /\ Placed(r)' => Placed(r) /\ r \notin erasable /\ Active(r)
    <2>1. \A r \in Sockets : Active(r)' => Active(r)
      BY <1>a, <1>1, <1>2 DEF Active
    <2>2. \A r \in Sockets : Placed(r)' =>
              r \in updateSet \/ \E t \in Threads : pc[t] = "global" /\ cur[t] = r
      BY <1>a, <1>1, <1>2 DEF Placed
    <2>3. \A r \in Sockets : \A t \in Threads :
              pc[t] = "global" /\ cur[t] = r => r \notin erasable
      BY DEF IInv, OneWayIn, OnTheWay, Entering
    <2>4. \A r \in updateSet : r \notin erasable
      BY DEF IInv, Bookkeeping
    <2> QED BY <2>1, <2>2, <2>3, <2>4 DEF Placed, Active, Bringing, Entering
  <1>4. \A r \in Sockets :
            Placed(r)' => m_sessions'[AccountOf[r]] = r \/ r \in doubles'
    <2> SUFFICES ASSUME NEW r \in Sockets, Placed(r)'
                 PROVE  m_sessions'[AccountOf[r]] = r \/ r \in doubles'
      OBVIOUS
    <2>1. CASE \E s \in erasable : AccountOf[s] = AccountOf[r]
      <3>1. PICK s \in erasable : AccountOf[s] = AccountOf[r]
        BY <2>1
      <3>2. s \in Sockets /\ Active(s)
        BY <1>a, <3>1 DEF Active, Leaving
      <3> QED BY <1>a, <1>3, <3>1, <3>2 DEF UInv
    <2>2. CASE ~\E s \in erasable : AccountOf[s] = AccountOf[r]
      <3>1. m_sessions'[AccountOf[r]] = m_sessions[AccountOf[r]]
        BY <1>a, <2>2 DEF Unregister
      <3> QED BY <1>a, <1>3, <3>1 DEF UInv
    <2> QED BY <2>1, <2>2
  <1>5. \A q, r \in Sockets :
            Active(q)' /\ Active(r)' /\ q # r /\ AccountOf[q] = AccountOf[r]
                => q \in doubles'
    BY <1>a, <1>3 DEF UInv
  <1> QED BY <1>4, <1>5 DEF UInv

LEMMA DeleteSessionsKeepsUInv ==
    ASSUME IInv, UInv, DeleteSessions
    PROVE  UInv'
  <1>a. /\ pc \in [Threads -> PCs] /\ pc[World] = "deleteSessions"
        /\ UNCHANGED <<queue, m_sessions, updateSet, cur, doubles>>
        /\ \/ UNCHANGED pc
           \/ erasable' = {} /\ pc' = [pc EXCEPT ![World] = "idle"]
    BY DEF DeleteSessions, IInv, TypeOK
  <1>1. \A u \in Threads : (Bringing(u)' => Bringing(u))
                           /\ (pc'[u] = "global" => pc[u] = "global")
    BY <1>a DEF Bringing, Entering
  <1>2. \A r \in Sockets : ~Leaving(r)' /\ (Queued(r)' => Queued(r))
    BY <1>a DEF Leaving, Queued
  <1>3. \A r \in Sockets : (Active(r)' => Active(r)) /\ (Placed(r)' => Placed(r))
    BY <1>a, <1>1, <1>2 DEF Active, Placed
  <1> QED BY <1>a, <1>3, FewerKeepUInv

LEMMA TimeKeepsUInv ==
    ASSUME UInv,
           \/ \E s \in Sockets : Accept(s) \/ FreeSocket(s) \/ LogoutDelayEnds(s)
           \/ UNCHANGED vars
    PROVE  UInv'
  <1>1. UNCHANGED <<m_sessions, updateSet, erasable, queue, doubles, pc, cur>>
    BY DEF Accept, FreeSocket, LogoutDelayEnds, vars
  <1>2. \A r \in Sockets : (Active(r)' => Active(r)) /\ (Placed(r)' => Placed(r))
    BY <1>1 DEF Active, Placed, Leaving, Queued, Bringing, Entering
  <1> QED BY <1>1, <1>2, FewerKeepUInv

LEMMA InitUInv == Init => UInv
  BY DEF Init, UInv, Active, Placed, Leaving, Queued, Bringing, Entering

\* Every session UpdateSessions visits is the one FindSession returns for its
\* account, however many workers log the account in and however the deletion
\* of its last session interleaves: a second login can always disconnect it.
\* The one way to another state is the login queue: a session that waits in
\* it is not registered, and a second of the account is let in beside it.
THEOREM SecondLoginFindsFirst == Spec => []UpdatedIsRegistered
  <1>1. ASSUME IInv, UInv, [Next]_vars
        PROVE  UInv'
    <2>a. World \in Threads /\ Workers \subseteq Threads
      OBVIOUS
    <2>1. ASSUME NEW w \in Workers,
                 WorkerStep(w) \/ \E s \in Sockets : Arrival(w, s)
          PROVE  UInv'
      BY <1>1, <2>a, <2>1, HandlersKeepUInv, CallbackKeepsUInv,
         AddSessionKeepsUInv, AddGlobalSessionKeepsUInv,
         AddQueuedSocketKeepsUInv, LeaveQueueKeepsUInv
         DEF WorkerStep, AuthenticateStep, DisconnectStep
    <2>2. CASE WorldStep
      BY <1>1, <2>a, <2>2, HandlersKeepUInv, WorldKeepsUInv,
         PopQueueKeepsUInv, LeaveQueueKeepsUInv, AddSessionKeepsUInv,
         AddGlobalSessionKeepsUInv, UpdateSessionKeepsUInv,
         EndPassKeepsUInv, DeleteSessionsKeepsUInv
         DEF WorldStep, AuthenticateStep, DisconnectStep
    <2>3. CASE UNCHANGED vars \/ \E s \in Sockets :
                   Accept(s) \/ FreeSocket(s) \/ LogoutDelayEnds(s)
      BY <1>1, <2>3, TimeKeepsUInv
    <2> QED BY <1>1, <2>1, <2>2, <2>3, Steps
  <1>2. IInv /\ UInv => UpdatedIsRegistered
    BY DEF IInv, TypeOK, UInv, UpdatedIsRegistered, Placed
  <1> QED BY InitUInv, Invariance, <1>1, <1>2, PTL DEF Spec

-------------------------------------------------------------------------------
(* One socket worker, as with epoll: no pointer to a socket or a session    *)
(* outlives it.  With several workers a socket can be closed between two    *)
(* accesses of another worker's handler, and the invariant below fails.     *)

OneWorker == \A v, w \in Workers : v = w

\* In the callback of a client that has not been let in or queued.
Serving(w) ==
    \/ pc[w] \in {"callback", "kick", "kicked", "create", "admit", "enqueue"}
    \/ Disconnecting(w, "kicked")

Unlinking(t, s) == pc[t] = "unlinkSession" /\ drop[t] = s

\* A socket is closed by one thread only, which has taken the pointer of the
\* socket and the pending request back when it comes to the login queue.
ClosedOnce ==
    /\ \A t \in Threads : pc[t] \in DisconnectPCs => net[drop[t]] = "closing"
    /\ \A t, u \in Threads :
          pc[t] \in DisconnectPCs /\ pc[u] \in DisconnectPCs /\ t # u =>
             drop[t] # drop[u]
    /\ \A t \in Threads :
          pc[t] \in {"cancelRequest", "leaveQueue"} => ~mSession[drop[t]]
    /\ \A t \in Threads : pc[t] = "leaveQueue" /\ ~authed[drop[t]] =>
          <<drop[t], requests[drop[t]]>> \notin pending

\* Nobody closes the socket a callback is about.
Served ==
    \A w \in Workers :
        /\ Serving(w) => net[cur[w]] = "open"
        /\ pc[w] = "kick" => found[w] # cur[w]

\* The world thread closes sockets of sessions that are being updated.  When
\* it goes on after the ping timeout, the session is unlinked, or the worker
\* is about to unlink it.
TimedOut ==
    /\ pc[World] \in DisconnectPCs =>
          dret[World] = "pinged" /\ drop[World] = cur[World]
    /\ pc[World] \in DisconnectPCs \cup {"pinged"} => cur[World] \in updateSet
    /\ pc[World] = "pinged" /\ mSession[cur[World]] =>
          /\ logout[cur[World]] # "due"
          /\ \E w \in Workers : Unlinking(w, cur[World])

\* A socket with a session is open or about to be unlinked, and its session
\* is not to be deleted: it points back, or will be unlinked in time.
Pointers ==
    \A s \in Sockets : mSession[s] =>
        /\ session[s] = "live" /\ s \notin erasable
        /\ net[s] = "open" \/ \E t \in Threads : Unlinking(t, s)
        /\ \/ socketOf[s]
           \/ logout[s] # "due" /\ \E w \in Workers : Unlinking(w, s)

\* The last pending request of a socket that is not let in yet is known to the
\* socket, or will be before the worker does anything else.
Requests ==
    /\ \A s \in Sockets, n \in Nat : <<s, n>> \in pending => n \in 1..requests[s]
    /\ \A s \in Sockets : authed[s] =>
          requests[s] > 0 /\ (requests[s] = 1 => <<s, 1>> \notin pending)
    /\ \A s \in Sockets : ~authed[s] /\ <<s, requests[s]>> \in pending =>
          /\ net[s] \notin {"gc", "freed"}
          /\ \/ requestID[s] = requests[s]
             \/ \E w \in Workers : pc[w] = "setRequest" /\ cur[w] = s

\* So is a place in the login queue.
QueueMarked ==
    \A s \in Sockets : Queued(s) =>
        /\ net[s] \notin {"gc", "freed"}
        /\ mQueued[s] \/ \E w \in Workers : pc[w] = "markQueued" /\ cur[w] = s

\* Only the requests of a socket that makes several can be left behind.
NoFreedSocket ==
    fault = "freed socket" => \E s \in Sockets : requests[s] > 1

PInv ==
    /\ ClosedOnce
    /\ Served
    /\ TimedOut
    /\ Pointers
    /\ Requests
    /\ QueueMarked
    /\ NoFreedSocket

USE DEF Disconnecting, Serving, Unlinking

LEMMA InitPInv == Init => PInv
  BY DEF Init, PInv, ClosedOnce, Served, TimedOut, Pointers, Requests,
         QueueMarked, Queued, NoFreedSocket

\* A step that leaves sockets and sessions alone and starts or ends none of
\* the stretches of code the invariant speaks of.
LEMMA QuietKeepsPInv ==
    ASSUME PInv, updateSet \subseteq updateSet', NoFreedSocket',
           UNCHANGED <<net, requests, authed, requestID, mSession, mQueued,
                       session, socketOf, logout, pending, erasable, queue,
                       drop, dret>>,
           \A t \in Threads :
              \/ pc'[t] = pc[t] /\ cur'[t] = cur[t] /\ found'[t] = found[t]
              \/ /\ pc[t] \notin {"setRequest", "markQueued", "pinged"}
                                     \cup DisconnectPCs
                 /\ pc'[t] \notin {"pinged", "callback", "kick", "kicked",
                                   "create", "admit", "enqueue"}
                                      \cup DisconnectPCs
    PROVE  PInv'
  <1> USE DEF PInv
  <1>1. ClosedOnce' /\ Served' /\ TimedOut'
    BY ZenonT(40) DEF ClosedOnce, Served, TimedOut
  <1>a. /\ \A t \in Threads, s \in Sockets : Unlinking(t, s) => Unlinking(t, s)'
        /\ \A w \in Workers : pc[w] \in {"setRequest", "markQueued"} =>
              pc'[w] = pc[w] /\ cur'[w] = cur[w]
    <2>1. \A t \in Threads :
             pc[t] \in {"setRequest", "markQueued", "unlinkSession"} =>
                pc'[t] = pc[t] /\ cur'[t] = cur[t]
      OBVIOUS
    <2>2. Workers \subseteq Threads
      OBVIOUS
    <2> QED BY <2>1, <2>2
  <1> HIDE DEF Unlinking
  <1>2. Pointers'
    BY <1>a DEF Pointers
  <1>b. ASSUME NEW s, NEW l \in {"setRequest", "markQueued"},
               \E w \in Workers : pc[w] = l /\ cur[w] = s
        PROVE  \E w \in Workers : pc'[w] = l /\ cur'[w] = s
    BY <1>a, <1>b
  <1>3. Requests'
    BY <1>b DEF Requests
  <1>4. QueueMarked'
    <2>1. \A s : Queued(s)' <=> Queued(s)
      BY DEF Queued
    <2> QED BY <1>b, <2>1 DEF QueueMarked
  <1> QED BY <1>1, <1>2, <1>3, <1>4

LEMMA CrashKeepsPInv ==
    ASSUME PInv, NEW f, Crash(f),
           f # "freed socket" \/ \E s \in Sockets : requests[s] > 1
    PROVE  PInv'
  <1>1. UNCHANGED <<updateSet, net, requests, authed, requestID, mSession,
                    mQueued, session, socketOf, logout, pending, erasable,
                    queue, drop, dret, pc, cur, found>>
    BY DEF Crash
  <1>2. NoFreedSocket'
    BY DEF Crash, NoFreedSocket
  <1> QED BY <1>1, <1>2, QuietKeepsPInv

\* Steps that concern what a worker has done already.
LEMMA WorkerQuiet ==
    ASSUME IInv, PInv, fault = "none", NEW w \in Workers,
           SetPacket(w) \/ EndCallback(w)
    PROVE  PInv'
  <1>1. pc \in [Threads -> PCs] /\ cur \in [Threads -> Sockets \cup {Null}]
        /\ found \in [Threads -> Sockets \cup {Null}]
    BY DEF IInv, TypeOK
  <1>2. CASE SetPacket(w)
    BY <1>1, <1>2, QuietKeepsPInv DEF SetPacket, NoFreedSocket
  <1>3. CASE EndCallback(w)
    BY <1>1, <1>3, QuietKeepsPInv DEF EndCallback, NoFreedSocket
  <1> QED BY <1>2, <1>3

\* The steps of the world thread around letting in and updating.
LEMMA WorldQuiet ==
    ASSUME IInv, PInv, fault = "none",
           UpdateQueuedSessions \/ LockSession \/ UnlockSession \/ StartPass
           \/ EndPass
    PROVE  PInv'
  <1>1. pc \in [Threads -> PCs] /\ cur \in [Threads -> Sockets \cup {Null}]
    BY DEF IInv, TypeOK
  <1>2. ASSUME Crash("null session") PROVE PInv'
    BY <1>2, CrashKeepsPInv
  <1>3. CASE UpdateQueuedSessions
    BY <1>1, <1>3, QuietKeepsPInv DEF UpdateQueuedSessions, NoFreedSocket
  <1>4. CASE LockSession
    <2>1. CASE mSession[cur[World]]
      BY <1>1, <1>4, <2>1, QuietKeepsPInv DEF LockSession, NoFreedSocket
    <2> QED BY <1>2, <1>4, <2>1 DEF LockSession
  <1>5. CASE UnlockSession
    <2>1. CASE mSession[cur[World]]
      BY <1>1, <1>5, <2>1, QuietKeepsPInv DEF UnlockSession, NoFreedSocket
    <2> QED BY <1>2, <1>5, <2>1 DEF UnlockSession
  <1>6. CASE StartPass
    BY <1>1, <1>6, QuietKeepsPInv DEF StartPass, NoFreedSocket
  <1>7. CASE EndPass
    BY <1>1, <1>7, QuietKeepsPInv DEF EndPass, NoFreedSocket
  <1> QED BY <1>3, <1>4, <1>5, <1>6, <1>7

\* The session enters the registry, and the sessions to update.
LEMMA RegisteringKeepsPInv ==
    ASSUME IInv, PInv, fault = "none", NEW t \in Threads,
           AddSession(t) \/ AddGlobalSession(t)
    PROVE  PInv'
  <1>1. pc \in [Threads -> PCs] /\ cur \in [Threads -> Sockets \cup {Null}]
    BY DEF IInv, TypeOK
  <1>2. ASSUME Crash("null session") PROVE PInv'
    BY <1>2, CrashKeepsPInv
  <1>3. CASE AddSession(t)
    <2>1. CASE mSession[cur[t]]
      BY <1>1, <1>3, <2>1, QuietKeepsPInv DEF AddSession, NoFreedSocket
    <2> QED BY <1>2, <1>3, <2>1 DEF AddSession
  <1>4. CASE AddGlobalSession(t)
    <2>1. CASE mSession[cur[t]]
      BY <1>1, <1>4, <2>1, QuietKeepsPInv
         DEF AddGlobalSession, AfterAuthenticate, NoFreedSocket
    <2> QED BY <1>2, <1>4, <2>1 DEF AddGlobalSession
  <1> QED BY <1>3, <1>4

\* A socket that was in the queue once is not in it any more.
LEMMA LeftQueue ==
    ASSUME queue \in Seq(Sockets), NEW s \in Sockets,
           \A i, j \in 1..Len(queue) : queue[i] = queue[j] => i = j
    PROVE  \A i \in 1..Len(WithoutSocket(s)) : WithoutSocket(s)[i] # s
  <1>1. CASE ~Queued(s)
    BY <1>1 DEF WithoutSocket, Queued
  <1>2. CASE Queued(s)
    <2> DEFINE before(i) == \A j \in 1..i : queue[j] # s
               q == [i \in 1..(Len(queue) - 1) |->
                       IF before(i) THEN queue[i] ELSE queue[i + 1]]
    <2>1. PICK k \in 1..Len(queue) : queue[k] = s
      BY <1>2 DEF Queued
    <2>2. WithoutSocket(s) = q /\ Len(queue) \in Nat /\ Len(q) = Len(queue) - 1
      BY <1>2, <2>1 DEF WithoutSocket
    <2>3. ASSUME NEW i \in 1..(Len(queue) - 1) PROVE q[i] # s
      <3>1. CASE before(i)
        BY <2>2, <3>1
      <3>2. CASE ~before(i)
        <4>1. k <= i
          BY <2>1, <2>2, <3>2
        <4> QED BY <2>1, <2>2, <3>2, <4>1
      <3> QED BY <3>1, <3>2
    <2> QED BY <2>2, <2>3
  <1> QED BY <1>1, <1>2

\* OnDisconnect takes back the pointers of socket and session.
LEMMA UnlinkSessionKeepsPInv ==
    ASSUME OneWorker, IInv, PInv, fault = "none",
           NEW t \in Threads, UnlinkSession(t)
    PROVE  PInv'
  <1> USE DEF IInv, PInv, OneWorker
  <1>a. drop[t] \in Sockets /\ (mSession[drop[t]] => session[drop[t]] = "live")
    BY DEF Pointers, CursorsSet, UnlinkSession
  <1>b. /\ pc[t] = "unlinkSession" /\ pc' = [pc EXCEPT ![t] = "cancelRequest"]
        /\ socketOf' = [socketOf EXCEPT ![drop[t]] = @ /\ ~mSession[drop[t]]]
        /\ mSession' = [mSession EXCEPT ![drop[t]] = FALSE]
        /\ UNCHANGED <<net, requests, requestID, authPacket, authed,
              mQueued, answer, session, logout, deleteMutex, reqVars,
              regVars, queVars, cur, found, drop, dret, fault>>
    BY <1>a, ZenonT(30) DEF UnlinkSession, Unlink
  <1>1. ClosedOnce' /\ Served' /\ TimedOut'
    BY <1>a, <1>b DEF ClosedOnce, Served, TimedOut, TypeOK
  <1>2. Pointers' /\ QueueMarked'
    BY <1>a, <1>b DEF Pointers, QueueMarked, Queued, TypeOK
  <1>3. Requests'
    <2>1. \A w \in Workers : pc[w] = "setRequest" =>
             pc'[w] = pc[w] /\ cur'[w] = cur[w]
      BY <1>b DEF TypeOK
    <2> QED BY <1>b, <2>1 DEF Requests
  <1>4. NoFreedSocket'
    BY <1>a, <1>b DEF NoFreedSocket
  <1> QED BY <1>1, <1>2, <1>3, <1>4

\* The request, if any, is forgotten.
LEMMA CancelRequestKeepsPInv ==
    ASSUME OneWorker, IInv, PInv, fault = "none",
           NEW t \in Threads, CancelRequest(t)
    PROVE  PInv'
  <1> USE DEF IInv, PInv, OneWorker, CancelRequest, WithoutRequest
  <1>a. drop[t] \in Sockets
    BY DEF CursorsSet, CancelRequest
  <1>b. ~authed[drop[t]] => <<drop[t], requests[drop[t]]>> \notin pending'
    <2>1. CASE t = World
      <3>1. session[drop[t]] = "live"
        BY <2>1 DEF TimedOut, NoDanglingSession, CancelRequest, TypeOK
      <3>2. authed[drop[t]]
        BY <1>a, <3>1 DEF CallbacksExclude
      <3> QED BY <3>2
    <2>2. CASE t \in Workers
      <3>1. \A w \in Workers : pc[w] # "setRequest"
        BY <2>2
      <3>2. requests[drop[t]] \in Nat
        BY <1>a, Typed DEF RequestsTyped
      <3>3. <<drop[t], requests[drop[t]]>> \in pending => requests[drop[t]] > 0
        BY <1>a, <3>2 DEF Requests
      <3> QED BY <1>a, <3>1, <3>2, <3>3 DEF Requests
    <2> QED BY <2>1, <2>2
  <1>c. /\ pending' \subseteq pending
        /\ \A s \in Sockets : s # drop[t] =>
              requestID'[s] = requestID[s]
        /\ \A w \in Workers : pc[w] = "setRequest" =>
              pc'[w] = pc[w] /\ cur'[w] = cur[w]
        /\ UNCHANGED <<net, requests, authed>>
    BY Typed DEF RequestsTyped, TypeOK
  <1>1. ClosedOnce'
    BY <1>a, <1>b DEF ClosedOnce, TypeOK, CursorsSet, CancelRequest,
           WithoutRequest
  <1>2. Served' /\ TimedOut' /\ Pointers'
    BY DEF Served, TimedOut, Pointers, TypeOK
  <1>3. QueueMarked' /\ NoFreedSocket'
    BY DEF QueueMarked, Queued, NoFreedSocket, TypeOK
  <1>4. Requests'
    <2> HIDE DEF CancelRequest
    <2> QED BY <1>b, <1>c DEF Requests
  <1> QED BY <1>1, <1>2, <1>3, <1>4

\* The place in the queue, if any, is given up.
LEMMA LeaveQueueKeepsPInv ==
    ASSUME OneWorker, IInv, PInv, fault = "none",
           NEW t \in Threads, LeaveQueue(t)
    PROVE  PInv'
  <1> USE DEF IInv, PInv, OneWorker, LeaveQueue
  <1>a. drop[t] \in Sockets /\ queue \in Seq(Sockets)
    BY DEF CursorsSet, TypeOK, LeaveQueue
  <1>b. /\ pc[t] = "leaveQueue"
        /\ queue' = IF mQueued[drop[t]] THEN WithoutSocket(drop[t]) ELSE queue
    BY DEF LeaveQueue
  <1>c. \A s \in Sockets : Queued(s)' => Queued(s)
    <2>1. \A i \in 1..Len(WithoutSocket(drop[t])) :
             \E k \in 1..Len(queue) : WithoutSocket(drop[t])[i] = queue[k]
      BY <1>a, ShorterQueue
    <2> QED BY <1>b, <2>1 DEF Queued
  <1>d. \A i \in 1..Len(queue') : queue'[i] # drop[t]
    <2>1. CASE t = World
      <3>1. drop[t] \in updateSet
        BY <1>b, <2>1 DEF TimedOut
      <3>2. ~Queued(drop[t])
        BY <1>a, <3>1 DEF OneWayIn, OnTheWay
      <3> QED BY <1>a, <1>c, <3>2 DEF Queued
    <2>2. CASE t \in Workers
      <3>1. Queued(drop[t]) => mQueued[drop[t]]
        BY <1>a, <1>b, <2>2 DEF QueueMarked
      <3>2. \A i \in 1..Len(WithoutSocket(drop[t])) :
               WithoutSocket(drop[t])[i] # drop[t]
        BY <1>a, LeftQueue DEF OneWayIn
      <3> QED BY <1>a, <1>b, <3>1, <3>2 DEF Queued
    <2> QED BY <2>1, <2>2
  <1>1. ClosedOnce'
    BY SMTT(30) DEF ClosedOnce, CursorsSet, TypeOK
  <1>2. Served'
    BY DEF Served, ClosedOnce, CursorsSet, TypeOK
  <1>3. TimedOut'
    BY DEF TimedOut, ClosedOnce, CursorsSet, TypeOK
  <1>4. Pointers'
    BY DEF Pointers, ClosedOnce, CursorsSet, TypeOK
  <1>5. Requests'
    BY DEF Requests, ClosedOnce, CursorsSet, TypeOK
  <1>6. QueueMarked'
    <2>1. \A s \in Sockets :
             s # drop[t] => net'[s] = net[s] /\ mQueued'[s] = mQueued[s]
      BY DEF TypeOK, LeaveQueue
    <2>2. \A w \in Workers :
             pc[w] = "markQueued" => pc'[w] = pc[w] /\ cur'[w] = cur[w]
      BY <1>b DEF TypeOK, LeaveQueue
    <2>3. \A s \in Sockets : Queued(s)' => s # drop[t] /\ Queued(s)
      BY <1>a, <1>c, <1>d DEF Queued
    <2> HIDE DEF LeaveQueue
    <2> QED BY <2>1, <2>2, <2>3 DEF QueueMarked
  <1>7. NoFreedSocket'
    BY DEF NoFreedSocket
  <1> QED BY <1>1, <1>2, <1>3, <1>4, <1>5, <1>6, <1>7

\* A client connects.
LEMMA AcceptKeepsPInv ==
    ASSUME OneWorker, IInv, PInv, fault = "none", NEW s \in Sockets, Accept(s)
    PROVE  PInv'
  <1> USE DEF IInv, PInv, OneWorker, Accept
  <1>1. ClosedOnce' /\ Served' /\ TimedOut'
    BY DEF ClosedOnce, Served, TimedOut, TypeOK
  <1>2. Pointers' /\ Requests' /\ QueueMarked'
    BY DEF Pointers, Requests, QueueMarked, Queued, TypeOK
  <1>3. NoFreedSocket'
    BY DEF NoFreedSocket
  <1> QED BY <1>1, <1>2, <1>3

\* A client goes.
LEMMA DropKeepsPInv ==
    ASSUME OneWorker, IInv, PInv, fault = "none",
           NEW w \in Workers, NEW s \in Sockets, Drop(w, s)
    PROVE  PInv'
  <1> USE DEF IInv, PInv, OneWorker, Drop, Disconnect
  <1>1. ClosedOnce'
    BY DEF ClosedOnce, CursorsSet, TypeOK
  <1>2. Served'
    BY DEF Served, TypeOK
  <1>3. TimedOut'
    BY DEF TimedOut, TypeOK
  <1>4. Pointers'
    BY SMTT(30) DEF Pointers, TypeOK
  <1>5. Requests'
    BY SMTT(30) DEF Requests, TypeOK
  <1>6. QueueMarked'
    BY DEF QueueMarked, Queued, TypeOK
  <1>7. NoFreedSocket'
    BY DEF NoFreedSocket
  <1> QED BY <1>1, <1>2, <1>3, <1>4, <1>5, <1>6, <1>7

\* A client asks to log in.
LEMMA HandleAuthSessionKeepsPInv ==
    ASSUME OneWorker, IInv, PInv, fault = "none",
           NEW w \in Workers, NEW s \in Sockets, HandleAuthSession(w, s)
    PROVE  PInv'
  <1> USE DEF IInv, PInv, OneWorker
  <1>t. pc \in [Threads -> PCs] /\ cur \in [Threads -> Sockets \cup {Null}]
        /\ drop \in [Threads -> Sockets \cup {Null}]
        /\ net \in [Sockets -> {"new", "open", "closing", "gc", "freed"}]
        /\ dret \in [Threads -> {"idle", "kicked", "end", "pinged"}]
    BY DEF TypeOK
  <1>u. requests \in [Sockets -> Nat] /\ requestID \in [Sockets -> Nat]
    BY Typed DEF RequestsTyped
  <1>a. PICK n \in Nat : n = requests[s] + 1
    BY <1>u
  <1>b. /\ pc[w] = "idle" /\ net[s] = "open"
        /\ requests' = [requests EXCEPT ![s] = n]
        /\ \/ /\ requestID' = [requestID EXCEPT ![s] = n]
              /\ net' = [net EXCEPT ![s] = "closing"]
              /\ drop' = [drop EXCEPT ![w] = s]
              /\ dret' = [dret EXCEPT ![w] = "idle"]
              /\ pc' = [pc EXCEPT ![w] = "unlinkSession"]
              /\ UNCHANGED <<pending, cur>>
           \/ /\ pending' = pending \cup {<<s, n>>}
              /\ cur' = [cur EXCEPT ![w] = s]
              /\ pc' = [pc EXCEPT ![w] = "setRequest"]
              /\ UNCHANGED <<requestID, net, drop, dret>>
        /\ UNCHANGED <<authed, mSession, mQueued, session, socketOf, logout,
                       updateSet, erasable, queue, found, fault>>
    BY <1>a DEF HandleAuthSession, Disconnect
  <1>c. /\ \A u \in Sockets : u # s => requests'[u] = requests[u]
        /\ requests'[s] = n
        /\ <<s, n>> \notin pending
        /\ \A u \in Sockets : ~authed[u] => authed'[u] = authed[u]
    BY <1>a, <1>b, <1>u DEF Requests
  <1>1. ClosedOnce'
    <2>1. \A t \in Threads : pc[t] \in DisconnectPCs =>
             drop[t] \in Sockets /\ drop[t] # s
      BY <1>b DEF ClosedOnce, CursorsSet
    <2>2. \A t \in Threads : t # w =>
             pc'[t] = pc[t] /\ drop'[t] = drop[t]
      BY <1>b, <1>t
    <2>3. pc'[w] \notin {"cancelRequest", "leaveQueue"}
      BY <1>b, <1>t
    <2>4. pc'[w] \in DisconnectPCs => drop'[w] = s /\ net'[s] = "closing"
      BY <1>b, <1>t
    <2>5. \A u \in Sockets : u # s => net'[u] = net[u]
                              /\ (<<u, requests[u]>> \in pending'
                                    => <<u, requests[u]>> \in pending)
      BY <1>b, <1>t
    <2>6. \A t \in Threads : pc'[t] \in DisconnectPCs => net'[drop'[t]] = "closing"
      <3>1. ASSUME NEW t \in Threads, t # w, pc'[t] \in DisconnectPCs
            PROVE  net'[drop'[t]] = "closing"
        <4>1. drop'[t] = drop[t] /\ drop[t] \in Sockets /\ drop[t] # s
              /\ net[drop[t]] = "closing"
          BY <2>1, <2>2, <3>1 DEF ClosedOnce
        <4> QED BY <2>5, <4>1
      <3> QED BY <2>4, <3>1
    <2>7. \A t, u \in Threads :
             pc'[t] \in DisconnectPCs /\ pc'[u] \in DisconnectPCs /\ t # u =>
                drop'[t] # drop'[u]
      <3>1. \A t \in Threads : pc'[t] \in DisconnectPCs /\ t # w =>
               pc[t] \in DisconnectPCs /\ drop'[t] # s
        BY <2>1, <2>2
      <3> QED BY <2>2, <2>4, <3>1 DEF ClosedOnce
    <2>8. \A t \in Threads :
             pc'[t] \in {"cancelRequest", "leaveQueue"} => ~mSession'[drop'[t]]
      BY <1>b, <2>2, <2>3 DEF ClosedOnce
    <2>9. \A t \in Threads : pc'[t] = "leaveQueue" /\ ~authed'[drop'[t]] =>
             <<drop'[t], requests'[drop'[t]]>> \notin pending'
      BY <1>b, <1>c, <2>1, <2>2, <2>3, <2>5 DEF ClosedOnce
    <2> QED BY <2>6, <2>7, <2>8, <2>9 DEF ClosedOnce
  <1>2. Pointers'
    <2>1. \A t \in Threads, u \in Sockets : Unlinking(t, u) => Unlinking(t, u)'
      BY <1>b, <1>t
    <2>2. \A u \in Sockets : net[u] = "open" =>
              net'[u] = "open" \/ \E t \in Threads : Unlinking(t, u)'
      BY <1>b, <1>t
    <2> HIDE DEF Unlinking
    <2> QED BY <1>b, <2>1, <2>2 DEF Pointers
  <1>3. Served' /\ TimedOut'
    BY <1>b, <1>t DEF Served, TimedOut
  <1>4. Requests'
    <2>1. /\ \A u \in Sockets : u # s =>
                requestID'[u] = requestID[u] /\ net'[u] = net[u]
          /\ \A v \in Workers : pc[v] # "setRequest"
      BY <1>b, <1>t, <1>u
    <2>2. \A u \in Sockets, k \in Nat : <<u, k>> \in pending' =>
             <<u, k>> \in pending \/ (u = s /\ k = n)
      BY <1>b
    <2>3. \A u \in Sockets, k \in Nat : <<u, k>> \in pending' =>
             k \in 1..requests'[u]
      <3> SUFFICES ASSUME NEW u \in Sockets, NEW k \in Nat, <<u, k>> \in pending'
                   PROVE  k \in 1..requests'[u]
        OBVIOUS
      <3>1. CASE u = s /\ k = n
        BY <1>a, <1>c, <1>u, <3>1
      <3>2. CASE <<u, k>> \in pending
        BY <1>a, <1>c, <1>u, <3>2 DEF Requests
      <3> QED BY <2>2, <3>1, <3>2
    <2>4. ASSUME NEW u \in Sockets, authed'[u]
          PROVE  requests'[u] > 0 /\ (requests'[u] = 1 => <<u, 1>> \notin pending')
      <3>1. requests[u] > 0 /\ (requests[u] = 1 => <<u, 1>> \notin pending)
        BY <1>b, <2>4 DEF Requests
      <3>2. CASE u = s
        BY <1>a, <1>c, <1>u, <3>1, <3>2
      <3>3. CASE u # s
        BY <1>c, <2>2, <3>1, <3>3
      <3> QED BY <3>2, <3>3
    <2>5. ASSUME NEW u \in Sockets, ~authed'[u], <<u, requests'[u]>> \in pending'
          PROVE  /\ net'[u] \notin {"gc", "freed"}
                 /\ \/ requestID'[u] = requests'[u]
                    \/ \E v \in Workers : pc'[v] = "setRequest" /\ cur'[v] = u
      <3>1. CASE u = s
        BY <1>b, <1>c, <1>t, <2>5, <3>1
      <3>2. CASE u # s
        <4>1. <<u, requests[u]>> \in pending
          BY <1>b, <1>c, <2>5, <3>2
        <4> QED BY <1>b, <1>c, <2>1, <2>5, <3>2, <4>1 DEF Requests
      <3> QED BY <3>1, <3>2
    <2> QED BY <2>3, <2>4, <2>5 DEF Requests
  <1>5. QueueMarked'
    BY <1>b, <1>t DEF QueueMarked, Queued
  <1>6. NoFreedSocket'
    BY <1>b DEF NoFreedSocket
  <1> QED BY <1>1, <1>2, <1>3, <1>4, <1>5, <1>6

\* The request becomes known to its socket.
LEMMA SetRequestKeepsPInv ==
    ASSUME OneWorker, IInv, PInv, fault = "none",
           NEW w \in Workers, SetRequest(w)
    PROVE  PInv'
  <1> USE DEF IInv, PInv, OneWorker, SetRequest
  <1>1. ClosedOnce' /\ Served' /\ TimedOut'
    BY DEF ClosedOnce, Served, TimedOut, TypeOK
  <1>2. Pointers' /\ QueueMarked'
    BY DEF Pointers, QueueMarked, Queued, TypeOK
  <1>3. Requests'
    <2>1. /\ pc[w] = "setRequest" /\ cur[w] \in Sockets
          /\ requestID'[cur[w]] = requests[cur[w]]
          /\ \A u \in Sockets : u # cur[w] => requestID'[u] = requestID[u]
          /\ UNCHANGED <<net, requests, authed, pending>>
      BY Typed DEF CursorsSet, RequestsTyped
    <2> HIDE DEF SetRequest
    <2> QED BY <2>1 DEF Requests
  <1>4. NoFreedSocket'
    BY DEF NoFreedSocket
  <1> QED BY <1>1, <1>2, <1>3, <1>4

\* The answer finds a socket that is open, or one that has made more requests.
LEMMA HandleSessionInfoKeepsPInv ==
    ASSUME OneWorker, IInv, PInv, fault = "none",
           NEW w \in Workers, NEW s \in Sockets, NEW n \in Nat,
           HandleSessionInfo(w, s, n)
    PROVE  PInv'
  <1> USE DEF IInv, PInv, OneWorker
  <1>a. <<s, n>> \in pending /\ net[s] = "freed" => requests[s] > 1
    BY Typed DEF Requests, RequestsTyped
  <1>c. CASE <<s, n>> \in pending /\ net[s] = "freed"
    BY <1>a, <1>c, CrashKeepsPInv DEF HandleSessionInfo
  <1>d. CASE ~(<<s, n>> \in pending /\ net[s] = "freed")
    <2>b. /\ pc[w] = "idle"
          /\ \/ /\ <<s, n>> \in pending /\ ~authed[s] /\ net[s] = "open"
                /\ authed' = [authed EXCEPT ![s] = TRUE]
                /\ pending' = pending \ {<<s, n>>}
                /\ cur' = [cur EXCEPT ![w] = s]
                /\ pc' = [pc EXCEPT ![w] = "callback"]
             \/ UNCHANGED <<authed, pending, cur, pc>>
          /\ UNCHANGED <<net, requests, requestID, authPacket, mSession,
                mQueued, answer, sessVars, regVars, queVars, found, drop,
                dret, fault>>
      BY <1>d, ZenonT(30) DEF HandleSessionInfo, WithoutRequest
    <2>1. ClosedOnce'
      <3>1. /\ \A u \in Sockets : ~authed'[u] => ~authed[u]
            /\ pending' \subseteq pending
            /\ \A t \in Threads : pc'[t] \in DisconnectPCs => pc'[t] = pc[t]
            /\ UNCHANGED <<net, requests, mSession, drop>>
        BY <2>b DEF TypeOK
      <3>2. \A t \in Threads : pc'[t] \in DisconnectPCs => drop[t] \in Sockets
        BY <3>1 DEF CursorsSet
      <3> QED BY <3>1, <3>2 DEF ClosedOnce
    <2>2. Served'
      BY <2>b DEF Served, TypeOK
    <2>3. TimedOut'
      BY <2>b DEF TimedOut, TypeOK
    <2>4. Pointers'
      BY <2>b DEF Pointers, TypeOK
    <2>5. Requests'
      <3>1. /\ \A u \in Sockets : u # s => authed'[u] = authed[u]
            /\ authed'[s] => authed[s] \/ (<<s, n>> \in pending
                                            /\ pending' = pending \ {<<s, n>>})
            /\ ~authed'[s] => ~authed[s]
            /\ pending' \subseteq pending
            /\ UNCHANGED <<net, requests, requestID>>
            /\ \A v \in Workers : pc[v] # "setRequest"
        BY <2>b DEF TypeOK
      <3>2. requests \in [Sockets -> Nat]
        BY Typed DEF RequestsTyped
      <3>3. <<s, n>> \in pending => n \in 1..requests[s]
        BY DEF Requests
      <3>4. authed'[s] => requests[s] > 0 /\ (requests[s] = 1 => <<s, 1>> \notin pending')
        <4>1. CASE authed[s]
          BY <3>1, <4>1 DEF Requests
        <4>2. CASE <<s, n>> \in pending /\ pending' = pending \ {<<s, n>>}
          BY <3>2, <3>3, <4>2
        <4> QED BY <3>1, <4>1, <4>2
      <3> QED BY <3>1, <3>4 DEF Requests
    <2>6. QueueMarked'
      BY <2>b DEF QueueMarked, Queued, TypeOK
    <2>7. NoFreedSocket'
      BY <2>b DEF NoFreedSocket
    <2> QED BY <2>1, <2>2, <2>3, <2>4, <2>5, <2>6, <2>7
  <1> QED BY <1>c, <1>d

\* The session of the account that FindSession returns is another one.
LEMMA CallbackKeepsPInv ==
    ASSUME OneWorker, IInv, PInv, fault = "none", NEW w \in Workers, Callback(w)
    PROVE  PInv'
  <1> USE DEF IInv, PInv, OneWorker
  <1>a. /\ pc[w] = "callback" /\ cur[w] \in Sockets /\ authed[cur[w]]
        /\ session[cur[w]] = "none" /\ net[cur[w]] = "open"
    BY DEF CursorsSet, CallbacksExclude, InCallback, Early, Served, Callback
  <1>b. /\ \/ requestID' = requestID
           \/ requestID' = [requestID EXCEPT ![cur[w]] = 0]
        /\ \E l \in {"end", "kick", "create"} : pc' = [pc EXCEPT ![w] = l]
        /\ UNCHANGED <<net, requests, authed, pending, cur, mSession, updateSet,
                       erasable, session, socketOf, logout, mQueued, queue,
                       drop, dret, fault>>
    BY DEF Callback
  <1>c. \A v \in Workers : pc'[v] = "kick" => found'[v] # cur[v]
    <2> SUFFICES ASSUME pc'[w] = "kick" PROVE found'[w] # cur[w]
      BY <1>a
    <2>1. found'[w] = m_sessions[AccountOf[cur[w]]] /\ found'[w] # Null
      BY <1>a DEF Callback, TypeOK, FindSession
    <2> QED BY <1>a, <2>1 DEF NoDanglingSession, TypeOK
  <1>1. Served'
    BY <1>a, <1>b, <1>c DEF Served, TypeOK, ClosedOnce
  <1>2. Requests'
    <2>1. /\ \A u \in Sockets : ~authed[u] => requestID'[u] = requestID[u]
          /\ \A v \in Workers : pc[v] # "setRequest"
          /\ UNCHANGED <<net, requests, authed, pending>>
      BY <1>a, <1>b, Typed DEF RequestsTyped
    <2> QED BY <2>1 DEF Requests
  <1>3. ClosedOnce' /\ TimedOut' /\ Pointers'
    BY <1>a, <1>b DEF ClosedOnce, TimedOut, Pointers, TypeOK
  <1>4. QueueMarked' /\ NoFreedSocket'
    BY <1>a, <1>b DEF QueueMarked, Queued, NoFreedSocket, TypeOK
  <1> QED BY <1>1, <1>2, <1>3, <1>4

\* The older session of the account loses its socket.
LEMMA KickKeepsPInv ==
    ASSUME OneWorker, IInv, PInv, fault = "none", NEW w \in Workers, Kick(w)
    PROVE  PInv'
  <1> USE DEF IInv, PInv, OneWorker
  <1> SUFFICES ASSUME session[found[w]] # "freed" PROVE PInv'
    BY CrashKeepsPInv DEF Kick
  <1>a. pc[w] = "kick" /\ found[w] \in Sockets
    BY DEF Kick, CursorsSet
  <1>b. /\ \/ /\ net[found[w]] = "open"
              /\ net' = [net EXCEPT ![found[w]] = "closing"]
              /\ drop' = [drop EXCEPT ![w] = found[w]]
              /\ dret' = [dret EXCEPT ![w] = "kicked"]
              /\ pc' = [pc EXCEPT ![w] = "unlinkSession"]
           \/ /\ pc' = [pc EXCEPT ![w] = "kicked"]
              /\ UNCHANGED <<net, drop, dret>>
        /\ UNCHANGED <<sockVars, sessVars, reqVars, regVars, queVars,
                       cur, found, fault>>
    BY DEF Kick, Disconnect
  <1>1. ClosedOnce'
    BY <1>a, <1>b DEF ClosedOnce, CursorsSet, TypeOK
  <1>2. Served'
    BY <1>a, <1>b DEF Served, ClosedOnce, CursorsSet, TypeOK
  <1>3. Pointers'
    <2>1. \A t \in Threads, s \in Sockets : Unlinking(t, s) => Unlinking(t, s)'
      BY <1>a, <1>b DEF TypeOK
    <2>2. \A s \in Sockets : net[s] = "open" =>
              net'[s] = "open" \/ Unlinking(w, s)'
      BY <1>a, <1>b DEF TypeOK
    <2> QED BY <1>b, <2>1, <2>2 DEF Pointers
  <1>4. QueueMarked'
    BY <1>a, <1>b DEF QueueMarked, Queued, TypeOK
  <1>5. TimedOut'
    <2>1. /\ pc'[World] = pc[World] /\ drop'[World] = drop[World]
          /\ dret'[World] = dret[World]
          /\ \A v \in Workers : pc[v] # "unlinkSession"
          /\ UNCHANGED <<cur, updateSet, mSession, logout>>
      BY <1>a, <1>b DEF TypeOK
    <2> QED BY <2>1 DEF TimedOut
  <1>6. Requests'
    <2>1. /\ \A u \in Sockets :
                net'[u] \in {"gc", "freed"} => net[u] \in {"gc", "freed"}
          /\ \A v \in Workers : pc[v] # "setRequest"
          /\ UNCHANGED <<requestID, requests, authed, pending>>
      BY <1>a, <1>b DEF TypeOK
    <2> QED BY <2>1 DEF Requests
  <1>7. NoFreedSocket'
    BY <1>a, <1>b DEF NoFreedSocket
  <1> QED BY <1>1, <1>2, <1>3, <1>4, <1>5, <1>6, <1>7

\* Its timer is set to expire.
LEMMA KickedKeepsPInv ==
    ASSUME OneWorker, IInv, PInv, fault = "none", NEW w \in Workers, Kicked(w)
    PROVE  PInv'
  <1> USE DEF IInv, PInv, OneWorker
  <1> SUFFICES ASSUME session[found[w]] # "freed" PROVE PInv'
    BY CrashKeepsPInv DEF Kicked
  <1>a. /\ pc[w] = "kicked" /\ pc' = [pc EXCEPT ![w] = "end"]
        /\ logout' = [logout EXCEPT ![found[w]] = "due"]
        /\ UNCHANGED <<net, requests, requestID, authPacket, authed,
                  mSession, mQueued, session, socketOf, deleteMutex,
                  reqVars, regVars, queVars, cur, found, drop, dret, fault>>
    BY DEF Kicked
  <1>1. ClosedOnce' /\ Served' /\ TimedOut'
    BY <1>a DEF ClosedOnce, Served, TimedOut, TypeOK
  <1>2. Pointers' /\ Requests' /\ QueueMarked'
    BY <1>a DEF Pointers, Requests, QueueMarked, Queued, TypeOK
  <1>3. NoFreedSocket'
    BY <1>a DEF NoFreedSocket
  <1> QED BY <1>1, <1>2, <1>3

\* Socket and session point to each other.
LEMMA CreateSessionKeepsPInv ==
    ASSUME OneWorker, IInv, PInv, fault = "none",
           NEW w \in Workers, CreateSession(w)
    PROVE  PInv'
  <1> USE DEF IInv, PInv, OneWorker, CreateSession
  <1>a. /\ pc[w] = "create" /\ cur[w] \in Sockets
        /\ session[cur[w]] = "none" /\ net[cur[w]] = "open"
    BY DEF CursorsSet, CallbacksExclude, Early, Served, CreateSession
  <1>b. cur[w] \notin updateSet \cup erasable
    BY <1>a DEF NoDanglingSession
  <1>1. ClosedOnce'
    <2>1. /\ \A t \in Threads : pc'[t] \in DisconnectPCs => pc'[t] = pc[t]
          /\ \A u \in Sockets : u # cur[w] => mSession'[u] = mSession[u]
          /\ UNCHANGED <<net, drop, authed, requests, pending>>
      BY DEF TypeOK
    <2>2. \A t \in Threads : pc'[t] \in DisconnectPCs =>
             drop[t] \in Sockets /\ drop[t] # cur[w]
      BY <1>a, <2>1 DEF ClosedOnce, CursorsSet
    <2> HIDE DEF CreateSession
    <2> QED BY <2>1, <2>2 DEF ClosedOnce
  <1>2. TimedOut'
    BY <1>a, <1>b DEF TimedOut, TypeOK, CreateSession
  <1>3. Pointers'
    <2>1. \A t \in Threads, s \in Sockets : Unlinking(t, s) => Unlinking(t, s)'
      BY <1>a DEF TypeOK
    <2> QED BY <1>a, <1>b, <2>1 DEF Pointers, TypeOK
  <1>4. Served' /\ Requests' /\ QueueMarked'
    BY DEF Served, Requests, QueueMarked, Queued, TypeOK
  <1>5. NoFreedSocket'
    BY DEF NoFreedSocket
  <1> QED BY <1>1, <1>2, <1>3, <1>4, <1>5

\* Let in, queued or refused.
LEMMA AdmitKeepsPInv ==
    ASSUME OneWorker, IInv, PInv, fault = "none", NEW w \in Workers, Admit(w)
    PROVE  PInv'
  <1> USE DEF IInv, PInv, OneWorker, Admit, Disconnect
  <1>1. ClosedOnce'
    BY DEF ClosedOnce, CursorsSet, TypeOK
  <1>2. Pointers'
    BY DEF Pointers, ClosedOnce, CursorsSet, TypeOK
  <1>3. Served' /\ TimedOut' /\ Requests'
    BY DEF Served, TimedOut, Requests, TypeOK
  <1>4. QueueMarked' /\ NoFreedSocket'
    BY DEF QueueMarked, Queued, NoFreedSocket, TypeOK
  <1> QED BY <1>1, <1>2, <1>3, <1>4

\* A place in the queue.
LEMMA AddQueuedSocketKeepsPInv ==
    ASSUME OneWorker, IInv, PInv, fault = "none",
           NEW w \in Workers, AddQueuedSocket(w)
    PROVE  PInv'
  <1> USE DEF IInv, PInv, OneWorker, AddQueuedSocket
  <1>1. QueueMarked'
    BY DEF QueueMarked, Queued, ClosedOnce, Served, TypeOK, CursorsSet,
           TimedOut, OneWayIn, OnTheWay, Entering
  <1>2. ClosedOnce' /\ Served' /\ TimedOut'
    BY DEF ClosedOnce, Served, TimedOut, TypeOK
  <1>3. Pointers' /\ Requests' /\ NoFreedSocket'
    BY DEF Pointers, Requests, NoFreedSocket, TypeOK
  <1> QED BY <1>1, <1>2, <1>3

\* ... becomes known to the socket.
LEMMA MarkQueuedKeepsPInv ==
    ASSUME OneWorker, IInv, PInv, fault = "none",
           NEW w \in Workers, MarkQueued(w)
    PROVE  PInv'
  <1> USE DEF IInv, PInv, OneWorker, MarkQueued
  <1>1. ClosedOnce' /\ Served' /\ TimedOut'
    BY DEF ClosedOnce, Served, TimedOut, TypeOK
  <1>2. Pointers' /\ Requests' /\ QueueMarked'
    BY DEF Pointers, Requests, QueueMarked, Queued, TypeOK
  <1>3. NoFreedSocket'
    BY DEF NoFreedSocket
  <1> QED BY <1>1, <1>2, <1>3

\* Whoever is let in has no place in the queue.
LEMMA AuthenticateKeepsPInv ==
    ASSUME OneWorker, IInv, PInv, fault = "none",
           NEW t \in Threads, Authenticate(t)
    PROVE  PInv'
  <1> USE DEF IInv, PInv, OneWorker, Authenticate, AfterAuthenticate
  <1>1. QueueMarked'
    BY DEF QueueMarked, Queued, ClosedOnce, Served, TypeOK, CursorsSet,
           TimedOut, OneWayIn, OnTheWay, Entering
  <1>2. ClosedOnce' /\ Served' /\ TimedOut'
    BY DEF ClosedOnce, Served, TimedOut, TypeOK
  <1>3. Pointers' /\ Requests' /\ NoFreedSocket'
    BY DEF Pointers, Requests, NoFreedSocket, TypeOK
  <1> QED BY <1>1, <1>2, <1>3

\* The first of the queue is not freed.
LEMMA PopQueueKeepsPInv ==
    ASSUME OneWorker, IInv, PInv, fault = "none", PopQueue
    PROVE  PInv'
  <1> USE DEF IInv, PInv, OneWorker
  <1>a. queue # <<>> => /\ Head(queue) \in Sockets /\ Queued(Head(queue))
                        /\ \A i \in 1..Len(Tail(queue)) : Queued(Tail(queue)[i])
    BY DEF TypeOK, Queued
  <1>b. \A s \in Sockets : Queued(s) => net[s] # "freed"
    BY DEF QueueMarked
  <1>c. /\ pc[World] = "queue"
        /\ pc' = pc \/ \E l \in {"lockSession", "startPass"} :
                          pc' = [pc EXCEPT ![World] = l]
        /\ queue' = queue \/ (queue # <<>> /\ queue' = Tail(queue))
        /\ cur' = cur \/ cur' = [cur EXCEPT ![World] = Head(queue)]
        /\ UNCHANGED <<net, sockVars, sessVars, reqVars, regVars, found, drop,
                       dret, fault>>
    <2>1. CASE QueueHasRoom /\ queue # <<>>
      BY <1>a, <1>b, <2>1, ZenonT(30) DEF PopQueue
    <2>2. CASE ~QueueHasRoom \/ queue = <<>>
      BY <1>b, <2>2, ZenonT(30) DEF PopQueue, ReleaseQueueMutex
    <2> QED BY <2>1, <2>2
  <1>d. \A s \in Sockets : Queued(s)' => Queued(s)
    BY <1>a, <1>c DEF Queued
  <1>e. \A w \in Workers : cur'[w] = cur[w] /\ pc'[w] = pc[w]
    BY <1>c DEF TypeOK
  <1>1. QueueMarked'
    BY <1>c, <1>d, <1>e DEF QueueMarked
  <1>2. ClosedOnce' /\ Served' /\ TimedOut'
    BY <1>c, <1>e DEF ClosedOnce, Served, TimedOut, TypeOK
  <1>3. Pointers' /\ Requests' /\ NoFreedSocket'
    BY <1>c, <1>e DEF Pointers, Requests, NoFreedSocket, TypeOK
  <1> QED BY <1>1, <1>2, <1>3

\* The ping timeout goes on.
LEMMA PingTimedOutKeepsPInv ==
    ASSUME OneWorker, IInv, PInv, fault = "none", PingTimedOut
    PROVE  PInv'
  <1> USE DEF IInv, PInv, OneWorker, PingTimedOut, StartLogoutTimer
  <1>1. Pointers'
    BY DEF Pointers, ClosedOnce, Served, TypeOK, CursorsSet, CallbacksExclude,
           Early, TimedOut, Bookkeeping
  <1>2. ClosedOnce' /\ Served' /\ TimedOut'
    BY DEF ClosedOnce, Served, TimedOut, TypeOK
  <1>3. Requests' /\ QueueMarked' /\ NoFreedSocket'
    BY DEF Requests, QueueMarked, Queued, NoFreedSocket, TypeOK
  <1> QED BY <1>1, <1>2, <1>3

\* Nothing points to a session that is deleted.
LEMMA DeleteSessionsKeepsPInv ==
    ASSUME OneWorker, IInv, PInv, fault = "none", DeleteSessions
    PROVE  PInv'
  <1> USE DEF IInv, PInv, OneWorker, DeleteSessions
  <1>1. ClosedOnce'
    BY DEF ClosedOnce, CursorsSet, TypeOK
  <1>2. Served' /\ TimedOut' /\ Pointers'
    BY DEF Served, TimedOut, Pointers, TypeOK
  <1>3. Requests' /\ QueueMarked' /\ NoFreedSocket'
    BY DEF Requests, QueueMarked, Queued, NoFreedSocket, TypeOK
  <1> QED BY <1>1, <1>2, <1>3

\* A socket is freed.
LEMMA FreeSocketKeepsPInv ==
    ASSUME OneWorker, IInv, PInv, fault = "none",
           NEW s \in Sockets, FreeSocket(s)
    PROVE  PInv'
  <1> USE DEF IInv, PInv, OneWorker, FreeSocket
  <1>1. ClosedOnce' /\ Served' /\ TimedOut'
    BY DEF ClosedOnce, Served, TimedOut, TypeOK
  <1>2. Pointers' /\ Requests' /\ QueueMarked'
    BY DEF Pointers, Requests, QueueMarked, Queued, TypeOK
  <1>3. NoFreedSocket'
    BY DEF NoFreedSocket
  <1> QED BY <1>1, <1>2, <1>3

\* A logout delay ends.
LEMMA LogoutDelayEndsKeepsPInv ==
    ASSUME OneWorker, IInv, PInv, fault = "none",
           NEW s \in Sockets, LogoutDelayEnds(s)
    PROVE  PInv'
  <1> USE DEF IInv, PInv, OneWorker, LogoutDelayEnds
  <1>1. TimedOut'
    BY DEF TimedOut, ClosedOnce, CursorsSet, TypeOK
  <1>2. Pointers'
    BY DEF Pointers, ClosedOnce, CursorsSet, TypeOK
  <1>3. ClosedOnce' /\ Served' /\ Requests'
    BY DEF ClosedOnce, Served, Requests, TypeOK
  <1>4. QueueMarked' /\ NoFreedSocket'
    BY DEF QueueMarked, Queued, NoFreedSocket, TypeOK
  <1> QED BY <1>1, <1>2, <1>3, <1>4

\* A session is updated.
LEMMA UpdateSessionKeepsPInv ==
    ASSUME OneWorker, IInv, PInv, fault = "none",
           NEW s \in Sockets, UpdateSession(s)
    PROVE  PInv'
  <1> USE DEF IInv, PInv, OneWorker
  <1>a. pc[World] = "pass" /\ s \in updateSet
    BY DEF UpdateSession, Bookkeeping
  <1>b. session[s] = "live" /\ \A w \in Workers : Serving(w) => cur[w] # s
    BY <1>a DEF NoDanglingSession, CallbacksExclude, Early, OneWayIn, OnTheWay,
                Entering
  <1> DEFINE Same ==
               UNCHANGED <<sockVars, session, socketOf, pending, queue, found,
                           fault>>
             Closes ==
               /\ net[s] = "open" /\ net' = [net EXCEPT ![s] = "closing"]
               /\ drop' = [drop EXCEPT ![World] = s]
               /\ dret' = [dret EXCEPT ![World] = "pinged"]
               /\ pc' = [pc EXCEPT ![World] = "unlinkSession"]
               /\ cur' = [cur EXCEPT ![World] = s]
               /\ UNCHANGED <<logout, updateSet, erasable>>
             TimesOut ==
               /\ net[s] # "open" /\ logout[s] # "due"
               /\ pc' = [pc EXCEPT ![World] = "pinged"]
               /\ cur' = [cur EXCEPT ![World] = s]
               /\ UNCHANGED <<net, drop, dret, logout, updateSet, erasable>>
             Timer ==
               /\ \A u \in Sockets : logout'[u] = "due" => logout[u] = "due"
               /\ UNCHANGED <<net, drop, dret, pc, cur, updateSet, erasable>>
             Erases ==
               /\ ~socketOf[s] /\ logout[s] = "due"
               /\ erasable' = erasable \cup {s} /\ updateSet' = updateSet \ {s}
               /\ UNCHANGED <<net, drop, dret, pc, cur, logout>>
  <1>c. Same /\ (Closes \/ TimesOut \/ Timer \/ Erases)
    BY DEF UpdateSession, Disconnect, StartLogoutTimer, TypeOK
  <1> HIDE DEF Same, Closes, TimesOut, Timer, Erases
  <1>d. \A w \in Workers : /\ pc'[w] = pc[w]
                           /\ cur'[w] = cur[w] /\ drop'[w] = drop[w]
    BY <1>c DEF TypeOK, Closes, TimesOut, Timer, Erases
  <1> USE DEF Same, Closes, TimesOut, Timer, Erases
  <1>1. ClosedOnce'
    BY <1>a, <1>b, <1>c DEF ClosedOnce, CursorsSet, TypeOK
  <1>2. Served'
    BY <1>a, <1>b, <1>c DEF Served, ClosedOnce, CursorsSet, TypeOK
  <1>3. TimedOut'
    BY <1>a, <1>b, <1>c DEF TimedOut, ClosedOnce, Pointers, TypeOK, CursorsSet,
                            Bookkeeping
  <1>4. Pointers'
    <2>1. \A t \in Threads, u \in Sockets : Unlinking(t, u) => Unlinking(t, u)'
      BY <1>a, <1>c DEF TypeOK
    <2>2. \A u \in Sockets : net[u] = "open" =>
              net'[u] = "open" \/ Unlinking(World, u)'
      BY <1>a, <1>c DEF TypeOK
    <2>3. \A u \in Sockets :
             /\ u \in erasable' =>
                   u \in erasable \/ (~socketOf[u] /\ logout[u] = "due")
             /\ logout'[u] = "due" => logout[u] = "due"
      BY <1>c
    <2>4. UNCHANGED <<mSession, session, socketOf>>
      BY <1>c
    <2> HIDE DEF Same, Closes, TimesOut, Timer, Erases, Unlinking
    <2> QED BY <2>1, <2>2, <2>3, <2>4 DEF Pointers
  <1>5. Requests'
    BY <1>a, <1>b, <1>c, SMTT(30) DEF Requests, ClosedOnce, TypeOK, CursorsSet,
                            CallbacksExclude, TimedOut, NoDanglingSession
  <1>6. QueueMarked'
    <2>1. \A u \in Sockets :
             net'[u] \in {"gc", "freed"} => net[u] \in {"gc", "freed"}
      BY <1>c DEF TypeOK
    <2>2. UNCHANGED <<mQueued, queue>>
      BY <1>c
    <2> HIDE DEF Same, Closes, TimesOut, Timer, Erases
    <2> QED BY <1>d, <2>1, <2>2 DEF QueueMarked, Queued
  <1>7. NoFreedSocket'
    BY <1>a, <1>b, <1>c DEF NoFreedSocket
  <1> QED BY <1>1, <1>2, <1>3, <1>4, <1>5, <1>6, <1>7

\* Every step keeps it.
LEMMA NextKeepsPInv ==
    ASSUME OneWorker, IInv, PInv, [Next]_vars
    PROVE  PInv'
  <1>a. World \in Threads /\ Workers \subseteq Threads
    OBVIOUS
  <1>b. ASSUME NEW t \in Threads, fault = "none",
               DisconnectStep(t) \/ AuthenticateStep(t)
        PROVE  PInv'
    BY <1>b, UnlinkSessionKeepsPInv, CancelRequestKeepsPInv,
       LeaveQueueKeepsPInv, AuthenticateKeepsPInv, RegisteringKeepsPInv
       DEF DisconnectStep, AuthenticateStep
  <1>1. ASSUME NEW w \in Workers, fault = "none", WorkerStep(w) PROVE PInv'
    BY <1>a, <1>b, <1>1, SetRequestKeepsPInv, WorkerQuiet, CallbackKeepsPInv,
       KickKeepsPInv, KickedKeepsPInv, CreateSessionKeepsPInv, AdmitKeepsPInv,
       AddQueuedSocketKeepsPInv, MarkQueuedKeepsPInv DEF WorkerStep
  <1>2. ASSUME NEW w \in Workers, NEW s \in Sockets, fault = "none",
               Arrival(w, s)
        PROVE  PInv'
    BY <1>2, DropKeepsPInv, HandleAuthSessionKeepsPInv,
       HandleSessionInfoKeepsPInv DEF Arrival
  <1>3. CASE fault = "none" /\ WorldStep
    BY <1>a, <1>b, <1>3, WorldQuiet, PopQueueKeepsPInv, UpdateSessionKeepsPInv,
       PingTimedOutKeepsPInv, DeleteSessionsKeepsPInv DEF WorldStep
  <1>4. ASSUME NEW s \in Sockets, fault = "none",
               Accept(s) \/ FreeSocket(s) \/ LogoutDelayEnds(s)
        PROVE  PInv'
    BY <1>4, AcceptKeepsPInv, FreeSocketKeepsPInv, LogoutDelayEndsKeepsPInv
  <1>5. CASE UNCHANGED vars
    <2>1. UNCHANGED <<updateSet, net, requests, authed, requestID, mSession,
                      mQueued, session, socketOf, logout, pending, erasable,
                      queue, drop, dret, pc, cur, found>>
          /\ NoFreedSocket'
      BY <1>5 DEF vars, PInv, NoFreedSocket
    <2> QED BY <2>1, QuietKeepsPInv
  <1> QED BY <1>1, <1>2, <1>3, <1>4, <1>5, Steps

\* With one socket worker (SocketMgrLinux), no WorldSocket keeps a pointer to
\* a deleted session, the login queue none to a freed socket, and
\* pending_logons none that is the last of a client's requests and was made
\* before it was let in: OnDisconnect and the destructors always clean up in
\* time, whatever the world thread closes, deletes or lets in meanwhile.
THEOREM PointerSafety ==
    ASSUME \A v, w \in Workers : v = w
    PROVE  Spec => []NoStalePointer
  <1>1. IInv /\ PInv /\ [Next]_vars => PInv'
    BY NextKeepsPInv DEF OneWorker
  <1>2. IInv /\ PInv => NoStalePointer
    <2>1. IInv /\ PInv => PendingConnected
      BY Typed DEF IInv, PInv, Requests, PendingConnected, RequestsTyped
    <2>2. PInv => NoDanglingPointer /\ QueueConnected
      BY DEF PInv, Pointers, QueueMarked, NoDanglingPointer, QueueConnected
    <2> QED BY <2>1, <2>2 DEF NoStalePointer
  <1> QED BY InitPInv, Invariance, <1>1, <1>2, PTL DEF Spec

\* Nor does the process die of following one to a freed socket, in
\* HandleSessionInfo or in UpdateQueuedSessions, unless some client has sent
\* CMSG_AUTH_SESSION more than once (its mRequestID is overwritten).
THEOREM NoFreedSocketUsed ==
    ASSUME \A v, w \in Workers : v = w
    PROVE  Spec => [](fault = "freed socket" => \E s \in Sockets : requests[s] > 1)
  <1>1. IInv /\ PInv /\ [Next]_vars => PInv'
    BY NextKeepsPInv DEF OneWorker
  <1>2. PInv => (fault = "freed socket" => \E s \in Sockets : requests[s] > 1)
    BY DEF PInv, NoFreedSocket
  <1> QED BY InitPInv, Invariance, <1>1, <1>2, PTL DEF Spec

-------------------------------------------------------------------------------
(* The order of the locks: who waits in a circle.                          *)

HIDE DEF Disconnecting, Serving, Unlinking

\* t may not go on before u has released a mutex.  A worker that takes up
\* the next message is "idle"; the message may want pendingLock.
Waits(t, u) ==
    \/ pc[t] = "cancelRequest" /\ requestID[drop[t]] # 0 /\ pendingLock = u /\ u # t
    \/ pc[t] = "leaveQueue" /\ mQueued[drop[t]] /\ queueMutex = u /\ u # t
    \/ pc[t] = "global" /\ sessionsMutex = u
    \/ /\ t \in Workers
       /\ \/ pc[t] = "idle" /\ pendingLock = u
          \/ pc[t] = "enqueue" /\ queueMutex = u
    \/ /\ t = World
       /\ \/ pc[t] = "idle" /\ queueMutex = u /\ u # t
          \/ pc[t] = "startPass" /\ sessionsMutex = u
          \/ pc[t] = "lockSession" /\ deleteMutex[cur[t]] = u
          \/ pc[t] = "deleteSessions" /\ \E s \in erasable : deleteMutex[s] = u

\* Of three threads in a row, the third is not waiting.
ChainsEnd ==
    \A t, u, v, x \in Threads : ~(Waits(t, u) /\ Waits(u, v) /\ Waits(v, x))

\* The world thread's own mutexes are held in the loops they are taken for.
WorldLocks ==
    /\ queueMutex = World => pc[World] \in QueuePCs \cup AuthenticatePCs
    /\ sessionsMutex = World => pc[World] \in PassPCs \cup DisconnectPCs

\* pendingLock is held in callbacks only, a deleteMutex by whoever lets its
\* session in.
HandlerLocks ==
    /\ pendingLock # Null => pendingLock \in Workers /\ InCallback(pendingLock)
    /\ \A s \in Sockets :
          /\ deleteMutex[s] = World =>
                /\ cur[World] = s
                /\ pc[World] \in AuthenticatePCs \cup {"unlockSession"}
          /\ \A w \in Workers : deleteMutex[s] = w =>
                /\ cur[w] = s
                /\ \/ pc[w] \in {"admit", "enqueue", "markQueued", "end"}
                                   \cup AuthenticatePCs
                   \/ Disconnecting(w, "end")

\* A request is known to the socket, or a worker is about to tell it.
Requested(s) ==
    requestID[s] # 0 \/ \E v \in Workers : pc[v] = "setRequest" /\ cur[v] = s

\* If a socket asks once only, the request is over when its session is made.
Once(s) == ~(requests[s] > 1)
AskedOnce ==
    /\ \A s \in Sockets, n \in Nat :
          <<s, n>> \in pending => n > 0 /\ requests[s] > 0
    /\ \A s \in Sockets : authed[s] \/ Requested(s) => requests[s] > 0
    /\ \A w \in Workers : pc[w] = "callback" => requestid # 0
    /\ \A v, w \in Workers :
          /\ pc[v] = "setRequest" /\ Once(cur[v]) => requestID[cur[v]] = 0
          /\ pc[v] = "setRequest" /\ pc[w] = "setRequest" /\ v # w =>
                cur[v] # cur[w]
    /\ \A w \in Workers : pc[w] = "create" /\ Once(cur[w]) => ~Requested(cur[w])
    /\ \A s \in Sockets : session[s] # "none" /\ Once(s) => ~Requested(s)

\* A client is queued once; one that is refused was not.
MarkedOnce ==
    /\ \A s \in Sockets : mQueued[s] => session[s] # "none"
    /\ \A w \in Workers : pc[w] = "admit" => ~mQueued[cur[w]]
    /\ \A w \in Workers : pc[w] = "markQueued" => session[cur[w]] # "none"
    /\ \A w \in Workers : Disconnecting(w, "end") =>
          drop[w] = cur[w] /\ ~mQueued[drop[w]]

\* The world thread closes sockets during its pass, for the ping timeout.
WorldCloses ==
    pc[World] \in DisconnectPCs =>
        dret[World] = "pinged" /\ drop[World] \in updateSet

LInv ==
    /\ WorldLocks
    /\ HandlerLocks
    /\ AskedOnce
    /\ MarkedOnce
    /\ WorldCloses

LEMMA InitLInv == Init => LInv
  BY DEF Init, LInv, WorldLocks, HandlerLocks, AskedOnce, Requested, Once, MarkedOnce,
         WorldCloses, Disconnecting

\* A step that takes and releases no lock and moves no handler.
LEMMA QuietKeepsLInv ==
    ASSUME LInv,
           UNCHANGED <<queueMutex, sessionsMutex, deleteMutex, pendingLock,
                       requestID, requests, authed, pending, requestid,
                       session, mQueued, updateSet, pc, cur, drop, dret>>
    PROVE  LInv'
  <1> USE DEF LInv
  <1>1. WorldLocks' /\ HandlerLocks'
    BY DEF WorldLocks, HandlerLocks, InCallback, Disconnecting
  <1>2. AskedOnce'
    BY DEF AskedOnce, Requested, Once
  <1>3. MarkedOnce' /\ WorldCloses'
    BY DEF MarkedOnce, WorldCloses, Disconnecting
  <1> QED BY <1>1, <1>2, <1>3

LEMMA CrashKeepsLInv ==
    ASSUME LInv, NEW f, Crash(f)
    PROVE  LInv'
  <1>1. UNCHANGED <<queueMutex, sessionsMutex, deleteMutex, pendingLock,
                    requestID, requests, authed, pending, requestid,
                    session, mQueued, updateSet, pc, cur, drop, dret>>
    BY DEF Crash
  <1> QED BY <1>1, QuietKeepsLInv

\* A step that makes no request and no session, and starts no stretch of code
\* the invariant AskedOnce speaks of.
NothingAsked ==
    /\ UNCHANGED <<requests, authed>> /\ pending' \subseteq pending
    /\ requestid' = requestid \/ \A w \in Workers : pc'[w] # "callback"
    /\ \A s \in Sockets :
          /\ requestID[s] = 0 => requestID'[s] = 0
          /\ session'[s] # "none" => session[s] # "none"
    /\ \A w \in Workers : pc'[w] \in {"setRequest", "callback", "create"} =>
          pc'[w] = pc[w] /\ cur'[w] = cur[w]

LEMMA AskedStays ==
    ASSUME CursorsSet, AskedOnce, NothingAsked
    PROVE  AskedOnce'
  <1> USE DEF NothingAsked
  <1>1. \A s \in Sockets : (Requested(s)' => Requested(s)) /\ (Once(s)' <=> Once(s))
    BY DEF Requested, Once
  <1>2. \A w \in Workers : pc'[w] \in {"setRequest", "create"} => cur[w] \in Sockets
    BY DEF CursorsSet
  <1>3. /\ \A s \in Sockets, n \in Nat :
              <<s, n>> \in pending' => n > 0 /\ requests'[s] > 0
        /\ \A s \in Sockets : authed'[s] \/ Requested(s)' => requests'[s] > 0
        /\ \A s \in Sockets : session'[s] # "none" /\ Once(s)' => ~Requested(s)'
    BY <1>1 DEF AskedOnce
  <1>4. \A v \in Workers : pc'[v] = "callback" => requestid' # 0
    BY DEF AskedOnce
  <1>5. \A v, w \in Workers :
           /\ pc'[v] = "setRequest" /\ Once(cur[v])' => requestID'[cur'[v]] = 0
           /\ pc'[v] = "setRequest" /\ pc'[w] = "setRequest" /\ v # w =>
                 cur'[v] # cur'[w]
    BY <1>2 DEF AskedOnce, Once
  <1>6. \A w \in Workers : pc'[w] = "create" /\ Once(cur[w])' => ~Requested(cur[w])'
    <2> SUFFICES ASSUME NEW w \in Workers, pc'[w] = "create", Once(cur[w])'
                 PROVE  ~Requested(cur[w])'
      OBVIOUS
    <2>1. pc[w] = "create" /\ cur'[w] = cur[w] /\ cur[w] \in Sockets
      BY <1>2
    <2> HIDE DEF NothingAsked, Requested, Once
    <2>2. Once(cur[w])
      BY <2>1, <1>1
    <2>3. ~Requested(cur[w])
      BY <2>1, <2>2 DEF AskedOnce
    <2> QED BY <1>1, <2>1, <2>3
  <1> QED BY <1>3, <1>4, <1>5, <1>6 DEF AskedOnce

\* A step of the world thread alone.
LEMMA WorkersStay ==
    ASSUME AskedOnce, MarkedOnce,
           UNCHANGED <<pending, authed, requestID, requests, requestid, session,
                     mQueued>>,
           \A w \in Workers : /\ pc'[w] = pc[w] /\ cur'[w] = cur[w]
                              /\ drop'[w] = drop[w] /\ dret'[w] = dret[w]
    PROVE  AskedOnce' /\ MarkedOnce'
  <1>1. \A s : (Requested(s)' <=> Requested(s)) /\ (Once(s)' <=> Once(s))
    BY DEF Requested, Once
  <1>2. AskedOnce'
    BY <1>1 DEF AskedOnce
  <1>3. MarkedOnce'
    BY DEF MarkedOnce, Disconnecting
  <1> QED BY <1>2, <1>3

\* OnDisconnect takes back the pointers of socket and session.
LEMMA UnlinkSessionKeepsLInv ==
    ASSUME IInv, LInv, fault = "none", NEW t \in Threads, UnlinkSession(t)
    PROVE  LInv'
  <1> USE DEF IInv, LInv
  <1> SUFFICES ASSUME ~(mSession[drop[t]] /\ session[drop[t]] = "freed")
               PROVE  LInv'
    BY CrashKeepsLInv, ZenonT(30) DEF UnlinkSession
  <1>a. /\ pc[t] = "unlinkSession" /\ pc' = [pc EXCEPT ![t] = "cancelRequest"]
        /\ UNCHANGED <<net, requests, requestID, authPacket, authed,
              mQueued, answer, session, logout, deleteMutex, reqVars,
              regVars, queVars, cur, found, drop, dret, fault>>
    BY ZenonT(30) DEF UnlinkSession
  <1>1. WorldLocks' /\ HandlerLocks'
    BY <1>a DEF WorldLocks, HandlerLocks, InCallback, Disconnecting, TypeOK
  <1>2. MarkedOnce' /\ WorldCloses'
    BY <1>a DEF MarkedOnce, Disconnecting, WorldCloses, TypeOK
  <1>3. AskedOnce'
    <2>1. NothingAsked
      BY <1>a, Typed DEF NothingAsked, RequestsTyped, TypeOK
    <2> QED BY <2>1, AskedStays
  <1> QED BY <1>1, <1>2, <1>3

\* The request, if any, is forgotten.
LEMMA CancelRequestKeepsLInv ==
    ASSUME IInv, LInv, fault = "none", NEW t \in Threads, CancelRequest(t)
    PROVE  LInv'
  <1> USE DEF IInv, LInv, CancelRequest, WithoutRequest
  <1>1. WorldLocks' /\ HandlerLocks'
    BY DEF WorldLocks, HandlerLocks, InCallback, Disconnecting, TypeOK
  <1>2. MarkedOnce' /\ WorldCloses'
    BY DEF MarkedOnce, Disconnecting, WorldCloses, TypeOK
  <1>3. AskedOnce'
    <2>1. NothingAsked
      BY Typed DEF NothingAsked, RequestsTyped, TypeOK
    <2> QED BY <2>1, AskedStays
  <1> QED BY <1>1, <1>2, <1>3

\* The place in the queue, if any, is given up.
LEMMA LeaveQueueKeepsLInv ==
    ASSUME IInv, LInv, fault = "none", NEW t \in Threads, LeaveQueue(t)
    PROVE  LInv'
  <1> USE DEF IInv, LInv, LeaveQueue
  <1>1. WorldLocks'
    BY DEF WorldLocks, WorldCloses, TypeOK
  <1>2. MarkedOnce'
    BY DEF MarkedOnce, Disconnecting, CallbacksExclude, InCallback, CursorsSet,
           TypeOK
  <1>3. HandlerLocks' /\ WorldCloses'
    BY SMTT(30) DEF HandlerLocks, InCallback, Disconnecting, WorldCloses, TypeOK
  <1>4. AskedOnce'
    <2>1. NothingAsked
      BY Typed DEF NothingAsked, RequestsTyped, TypeOK
    <2> QED BY <2>1, AskedStays
  <1> QED BY <1>1, <1>2, <1>3, <1>4

\* A client goes.
LEMMA DropKeepsLInv ==
    ASSUME IInv, LInv, fault = "none",
           NEW w \in Workers, NEW s \in Sockets, Drop(w, s)
    PROVE  LInv'
  <1> USE DEF IInv, LInv, Drop, Disconnect
  <1>1. WorldLocks'
    BY DEF WorldLocks, TypeOK
  <1>2. HandlerLocks'
    BY SMTT(30) DEF HandlerLocks, InCallback, Disconnecting, TypeOK
  <1>3. MarkedOnce'
    BY DEF MarkedOnce, Disconnecting, TypeOK
  <1>4. WorldCloses'
    BY DEF WorldCloses, TypeOK
  <1>5. AskedOnce'
    <2>1. NothingAsked
      BY Typed DEF NothingAsked, RequestsTyped, TypeOK
    <2> QED BY <2>1, AskedStays
  <1> QED BY <1>1, <1>2, <1>3, <1>4, <1>5

\* A client asks to log in.
LEMMA HandleAuthSessionKeepsLInv ==
    ASSUME IInv, LInv, fault = "none",
           NEW w \in Workers, NEW s \in Sockets, HandleAuthSession(w, s)
    PROVE  LInv'
  <1> USE DEF IInv, LInv
  <1>t. requests \in [Sockets -> Nat] /\ requestID \in [Sockets -> Nat]
    BY Typed DEF RequestsTyped
  <1>n. PICK n \in Nat : n = requests[s] + 1
    BY <1>t
  <1>a. /\ pc[w] = "idle"
        /\ \A v \in Workers : pc[v] = "setRequest" => cur[v] # s
        /\ requests' = [requests EXCEPT ![s] = n]
        /\ \/ /\ requestID' = [requestID EXCEPT ![s] = n]
              /\ \/ /\ drop' = [drop EXCEPT ![w] = s]
                    /\ dret' = [dret EXCEPT ![w] = "idle"]
                    /\ pc' = [pc EXCEPT ![w] = "unlinkSession"]
                 \/ UNCHANGED <<pc, drop, dret>>
              /\ UNCHANGED <<pending, cur>>
           \/ /\ pending' = pending \cup {<<s, n>>}
              /\ cur' = [cur EXCEPT ![w] = s]
              /\ pc' = [pc EXCEPT ![w] = "setRequest"]
              /\ UNCHANGED <<requestID, drop, dret>>
        /\ UNCHANGED <<authed, mQueued, session, deleteMutex, pendingLock,
                       requestid, updateSet, sessionsMutex, queueMutex>>
    BY <1>n DEF HandleAuthSession, Authenticating, Disconnect, TypeOK
  <1>1. HandlerLocks'
    <2>1. /\ pc \in [Threads -> PCs] /\ cur \in [Threads -> Sockets \cup {Null}]
          /\ dret \in [Threads -> {"idle", "kicked", "end", "pinged"}]
      BY DEF TypeOK
    <2>2. ~InCallback(w) /\ World # w /\ World \in Threads
      BY <1>a DEF InCallback, Disconnecting
    <2>3. \A u \in Threads : u # w =>
             pc'[u] = pc[u] /\ cur'[u] = cur[u] /\ dret'[u] = dret[u]
      BY <1>a, <2>1
    <2>4. \A u \in Workers : u # w =>
             /\ InCallback(u) => InCallback(u)'
             /\ Disconnecting(u, "end") => Disconnecting(u, "end")'
      BY <2>3 DEF InCallback, Disconnecting
    <2>5. pendingLock # w /\ \A u \in Sockets : deleteMutex[u] # w
      BY <1>a, <2>2 DEF HandlerLocks, InCallback, Disconnecting
    <2>6. UNCHANGED <<pendingLock, deleteMutex>>
      BY <1>a
    <2> HIDE DEF IInv
    <2> QED BY <2>2, <2>3, <2>4, <2>5, <2>6 DEF HandlerLocks
  <1>2. AskedOnce'
    <2>1. Once(s)' => ~authed[s] /\ session[s] = "none" /\ ~Requested(s)
      <3>1. Once(s)' => requests[s] = 0
        BY <1>a, <1>n, <1>t DEF Once
      <3> HIDE DEF Requested
      <3> QED BY <1>t, <3>1 DEF AskedOnce, CallbacksExclude
    <2>2. \A u \in Sockets : u # s /\ Requested(u)' => Requested(u)
      <3>1. \A v \in Workers : pc'[v] = "setRequest" =>
               (v = w /\ cur'[v] = s) \/ (pc'[v] = pc[v] /\ cur'[v] = cur[v])
        BY <1>a DEF TypeOK
      <3>2. \A u \in Sockets : u # s => requestID'[u] = requestID[u]
        BY <1>a, <1>t
      <3> QED BY <3>1, <3>2 DEF Requested
    <2>3. /\ \A u \in Sockets : u # s => requests'[u] = requests[u]
          /\ requests'[s] = n /\ n > 0
          /\ \A u \in Sockets, k \in Nat : <<u, k>> \in pending' =>
                <<u, k>> \in pending \/ (u = s /\ k = n)
      BY <1>a, <1>n, <1>t
    <2>4. UNCHANGED <<authed, session, requestid>>
      BY <1>a
    <2>5. /\ \A v \in Workers : v # w => pc'[v] = pc[v] /\ cur'[v] = cur[v]
          /\ pc'[w] \notin {"create", "callback"}
          /\ pc'[w] = "setRequest" => cur'[w] = s /\ UNCHANGED requestID
      BY <1>a DEF TypeOK
    <2>6. \A v \in Workers : pc[v] \in {"setRequest", "create"} =>
             /\ cur[v] \in Sockets
             /\ pc[v] = "setRequest" => cur[v] # s
             /\ pc[v] = "create" => authed[cur[v]]
      BY <1>a DEF CursorsSet, CallbacksExclude, InCallback
    <2>7. \A u \in Sockets : u # s => /\ requestID'[u] = requestID[u]
                                      /\ Once(u)' <=> Once(u)
      BY <1>a, <1>t DEF Once
    <2>8. /\ \A u \in Sockets, k \in Nat :
                <<u, k>> \in pending' => k > 0 /\ requests'[u] > 0
          /\ \A u \in Sockets : authed'[u] \/ Requested(u)' => requests'[u] > 0
      <3> HIDE DEF Requested
      <3> QED BY <2>2, <2>3, <2>4 DEF AskedOnce
    <2>9. \A v, u \in Workers :
             /\ pc'[v] = "setRequest" /\ Once(cur[v])' => requestID'[cur'[v]] = 0
             /\ pc'[v] = "setRequest" /\ pc'[u] = "setRequest" /\ v # u =>
                   cur'[v] # cur'[u]
      <3>1. pc'[w] = "setRequest" /\ Once(cur[w])' => requestID'[cur'[w]] = 0
        BY <2>1, <2>5 DEF Requested
      <3> HIDE DEF Once
      <3> QED BY <2>5, <2>6, <2>7, <3>1 DEF AskedOnce
    <2>10. \A v \in Workers : pc'[v] = "create" /\ Once(cur[v])' => ~Requested(cur[v])'
      <3> HIDE DEF Requested, Once
      <3> QED BY <2>1, <2>2, <2>5, <2>6, <2>7 DEF AskedOnce
    <2>11. \A u \in Sockets : session'[u] # "none" /\ Once(u)' => ~Requested(u)'
      <3> HIDE DEF Requested, Once
      <3> QED BY <2>1, <2>2, <2>4, <2>7 DEF AskedOnce
    <2>12. \A v \in Workers : pc'[v] = "callback" => requestid' # 0
      BY <2>4, <2>5 DEF AskedOnce
    <2> QED BY <2>8, <2>9, <2>10, <2>11, <2>12 DEF AskedOnce
  <1>3. WorldLocks' /\ MarkedOnce' /\ WorldCloses'
    BY <1>a, SMTT(30) DEF WorldLocks, MarkedOnce, Disconnecting, WorldCloses, TypeOK
  <1> QED BY <1>1, <1>2, <1>3

\* The request becomes known to its socket.
LEMMA SetRequestKeepsLInv ==
    ASSUME IInv, LInv, fault = "none", NEW w \in Workers, SetRequest(w)
    PROVE  LInv'
  <1> USE DEF IInv, LInv, SetRequest
  <1>1. WorldLocks' /\ HandlerLocks'
    BY DEF WorldLocks, HandlerLocks, InCallback, Disconnecting, TypeOK
  <1>2. MarkedOnce' /\ WorldCloses'
    BY DEF MarkedOnce, Disconnecting, WorldCloses, TypeOK
  <1>3. AskedOnce'
    <2>1. /\ pc[w] = "setRequest" /\ cur[w] \in Sockets
          /\ \A u \in Sockets : u # cur[w] => requestID'[u] = requestID[u]
          /\ \A v \in Workers :
                pc'[v] \in {"setRequest", "callback", "create"} => pc'[v] = pc[v]
          /\ pc'[w] = "setPacket"
          /\ UNCHANGED <<requests, requestid, authed, pending, session, cur>>
      BY Typed DEF CursorsSet, RequestsTyped, TypeOK
    <2> HIDE DEF SetRequest
    <2>2. \A s \in Sockets : (Requested(s)' => Requested(s)) /\ (Once(s)' <=> Once(s))
      BY <2>1 DEF Requested, Once
    <2>3. \A v \in Workers : pc'[v] \in {"setRequest", "create"} => cur[v] \in Sockets
      BY <2>1 DEF CursorsSet
    <2>4. /\ \A s \in Sockets, n \in Nat :
                <<s, n>> \in pending' => n > 0 /\ requests'[s] > 0
          /\ \A s \in Sockets : authed'[s] \/ Requested(s)' => requests'[s] > 0
          /\ \A v \in Workers : pc'[v] = "callback" => requestid' # 0
          /\ \A s \in Sockets : session'[s] # "none" /\ Once(s)' => ~Requested(s)'
      BY <2>1, <2>2 DEF AskedOnce
    <2>5. \A v, u \in Workers :
             /\ pc'[v] = "setRequest" /\ Once(cur[v])' => requestID'[cur'[v]] = 0
             /\ pc'[v] = "setRequest" /\ pc'[u] = "setRequest" /\ v # u =>
                   cur'[v] # cur'[u]
      BY <2>1, <2>3 DEF AskedOnce, Once
    <2>6. \A v \in Workers : pc'[v] = "create" /\ Once(cur[v])' => ~Requested(cur[v])'
      <3> HIDE DEF Requested, Once
      <3> QED BY <2>1, <2>2, <2>3 DEF AskedOnce
    <2> QED BY <2>4, <2>5, <2>6 DEF AskedOnce
  <1> QED BY <1>1, <1>2, <1>3

\* The packet is kept.
LEMMA SetPacketKeepsLInv ==
    ASSUME IInv, LInv, fault = "none", NEW w \in Workers, SetPacket(w)
    PROVE  LInv'
  <1> USE DEF IInv, LInv, SetPacket
  <1>1. WorldLocks' /\ HandlerLocks'
    BY DEF WorldLocks, HandlerLocks, InCallback, Disconnecting, TypeOK
  <1>2. MarkedOnce' /\ WorldCloses'
    BY DEF MarkedOnce, Disconnecting, WorldCloses, TypeOK
  <1>3. AskedOnce'
    <2>1. NothingAsked
      BY Typed DEF NothingAsked, RequestsTyped, TypeOK
    <2> QED BY <2>1, AskedStays
  <1> QED BY <1>1, <1>2, <1>3

\* The callback begins with pendingLock held.
LEMMA HandleSessionInfoKeepsLInv ==
    ASSUME IInv, LInv, fault = "none",
           NEW w \in Workers, NEW s \in Sockets, NEW n \in Nat,
           HandleSessionInfo(w, s, n)
    PROVE  LInv'
  <1> USE DEF IInv, LInv
  <1> SUFFICES ASSUME ~(<<s, n>> \in pending /\ net[s] = "freed") PROVE LInv'
    BY CrashKeepsLInv, ZenonT(30) DEF HandleSessionInfo
  <1>a. /\ pc[w] = "idle" /\ pendingLock = Null
        /\ \/ /\ <<s, n>> \in pending /\ ~authed[s]
              /\ authed' = [authed EXCEPT ![s] = TRUE]
              /\ pending' = pending \ {<<s, n>>}
              /\ pendingLock' = w /\ requestid' = n
              /\ cur' = [cur EXCEPT ![w] = s]
              /\ pc' = [pc EXCEPT ![w] = "callback"]
           \/ UNCHANGED <<authed, pending, pendingLock, requestid, cur, pc>>
        /\ UNCHANGED <<net, requests, requestID, authPacket, mSession,
              mQueued, answer, sessVars, regVars, queVars, found, drop,
              dret, fault>>
    BY ZenonT(30) DEF HandleSessionInfo, WithoutRequest
  <1>1. AskedOnce'
    <2>1. /\ pending' \subseteq pending
          /\ \A u \in Sockets :
                authed'[u] => authed[u] \/ (u = s /\ <<s, n>> \in pending)
          /\ \A v \in Workers :
                /\ pc'[v] \in {"setRequest", "create"} =>
                      pc'[v] = pc[v] /\ cur'[v] = cur[v]
                /\ pc[v] = "setRequest" => pc'[v] = pc[v] /\ cur'[v] = cur[v]
          /\ UNCHANGED <<requests, requestID, session>>
      BY <1>a DEF TypeOK
    <2>2. \A v \in Workers : pc'[v] = "callback" => requestid' # 0
      <3>1. \A v \in Workers : pc[v] # "callback"
        BY <1>a DEF CallbacksExclude, InCallback
      <3>2. <<s, n>> \in pending => n # 0
        BY DEF AskedOnce
      <3> QED BY <1>a, <3>1, <3>2 DEF TypeOK
    <2>3. \A u : (Requested(u)' <=> Requested(u)) /\ (Once(u)' <=> Once(u))
      BY <2>1 DEF Requested, Once
    <2> HIDE DEF Requested, Once, IInv
    <2> QED BY <2>1, <2>2, <2>3 DEF AskedOnce
  <1>2. MarkedOnce'
    <2>1. \A u \in Workers :
             /\ pc'[u] \in {"admit", "markQueued"} =>
                   pc'[u] = pc[u] /\ cur'[u] = cur[u]
             /\ Disconnecting(u, "end")' =>
                   Disconnecting(u, "end") /\ cur'[u] = cur[u]
      BY <1>a DEF Disconnecting, TypeOK
    <2>2. UNCHANGED <<mQueued, session, drop>>
      BY <1>a
    <2> HIDE DEF Disconnecting
    <2> QED BY <2>1, <2>2 DEF MarkedOnce
  <1>3. WorldLocks' /\ HandlerLocks' /\ WorldCloses'
    BY <1>a, SMTT(30) DEF WorldLocks, HandlerLocks, InCallback, Disconnecting,
                WorldCloses, TypeOK
  <1> QED BY <1>1, <1>2, <1>3

\* The request is over.
LEMMA CallbackKeepsLInv ==
    ASSUME IInv, LInv, fault = "none", NEW w \in Workers, Callback(w)
    PROVE  LInv'
  <1> USE DEF IInv, LInv
  <1>r. requestID \in [Sockets -> Nat] /\ requestid # 0
    BY Typed DEF RequestsTyped, AskedOnce, Callback
  <1>a. /\ pc[w] = "callback" /\ cur[w] \in Sockets
        /\ \/ requestID' = requestID /\ pc'[w] = "end"
           \/ /\ requestID[cur[w]] # 0
              /\ requestID' = [requestID EXCEPT ![cur[w]] = 0]
              /\ pc'[w] \in {"end", "kick", "create"}
        /\ \A u \in Threads : u # w => pc'[u] = pc[u]
        /\ UNCHANGED <<net, requests, authed, pending, pendingLock, requestid,
                       cur, updateSet, session, deleteMutex, mQueued, queueMutex,
                       sessionsMutex, drop, dret>>
    BY <1>r DEF Callback, CursorsSet, TypeOK
  <1>1. HandlerLocks'
    <2>1. \A s \in Sockets : deleteMutex[s] # w
      BY <1>a DEF HandlerLocks, Disconnecting
    <2>2. pendingLock = w /\ InCallback(w)'
      BY <1>a DEF CallbacksExclude, InCallback
    <2>3. \A u \in Threads : u # w =>
             /\ pc'[u] = pc[u] /\ cur'[u] = cur[u]
             /\ Disconnecting(u, "end")' <=> Disconnecting(u, "end")
      BY <1>a DEF Disconnecting
    <2>4. /\ w # World /\ World \in Threads
          /\ UNCHANGED <<pendingLock, deleteMutex>>
      BY <1>a
    <2> HIDE DEF InCallback, Disconnecting
    <2> QED BY <2>1, <2>2, <2>3, <2>4 DEF HandlerLocks
  <1>2. AskedOnce'
    <2>1. \A s \in Sockets : Requested(s)' => Requested(s)
      BY <1>a, <1>r DEF Requested
    <2>2. pc'[w] = "create" /\ Once(cur[w])' => ~Requested(cur[w])'
      BY <1>a, <1>r, SMTT(30) DEF Requested, AskedOnce, Once
    <2>3. \A v \in Workers : pc'[v] \in {"setRequest", "create"} =>
             pc'[v] = pc[v] \/ (v = w /\ pc'[v] = "create")
      BY <1>a
    <2>4. \A s \in Sockets : requestID[s] = 0 => requestID'[s] = 0
      BY <1>a, <1>r
    <2>5. \A v \in Workers : cur[v] \in Sockets \/ cur[v] = Null
      BY DEF TypeOK
    <2>6. /\ UNCHANGED <<pending, authed, requests, requestid, cur, session>>
          /\ \A s : Once(s)' <=> Once(s)
      BY <1>a DEF Once
    <2> HIDE DEF Requested, Once
    <2>7. /\ \A s \in Sockets, n \in Nat :
                <<s, n>> \in pending' => n > 0 /\ requests'[s] > 0
          /\ \A s \in Sockets : authed'[s] \/ Requested(s)' => requests'[s] > 0
      BY <2>1, <2>6 DEF AskedOnce
    <2>8. \A v, u \in Workers :
             /\ pc'[v] = "setRequest" /\ Once(cur[v])' => requestID'[cur'[v]] = 0
             /\ pc'[v] = "setRequest" /\ pc'[u] = "setRequest" /\ v # u =>
                   cur'[v] # cur'[u]
      BY <1>a, <2>3, <2>4, <2>6 DEF AskedOnce, CursorsSet
    <2>9. \A v \in Workers : pc'[v] = "create" /\ Once(cur[v])' => ~Requested(cur[v])'
      BY <2>1, <2>2, <2>3, <2>5, <2>6 DEF AskedOnce, CursorsSet
    <2>10. \A s \in Sockets : session'[s] # "none" /\ Once(s)' => ~Requested(s)'
      BY <2>1, <2>6 DEF AskedOnce
    <2>11. \A v \in Workers : pc'[v] = "callback" => requestid' # 0
      BY <1>r, <2>6
    <2> QED BY <2>7, <2>8, <2>9, <2>10, <2>11 DEF AskedOnce
  <1>3. MarkedOnce'
    <2>1. \A u \in Workers :
             /\ pc'[u] \in {"admit", "markQueued"} => pc[u] = pc'[u]
             /\ Disconnecting(u, "end")' <=> Disconnecting(u, "end")
      BY <1>a DEF Disconnecting
    <2>2. UNCHANGED <<mQueued, session, cur, drop>>
      BY <1>a
    <2> HIDE DEF Disconnecting
    <2> QED BY <2>1, <2>2 DEF MarkedOnce
  <1>4. WorldLocks' /\ WorldCloses'
    BY <1>a DEF WorldLocks, WorldCloses, TypeOK
  <1> QED BY <1>1, <1>2, <1>3, <1>4

\* The older session of the account loses its socket.
LEMMA KickKeepsLInv ==
    ASSUME IInv, LInv, fault = "none", NEW w \in Workers, Kick(w)
    PROVE  LInv'
  <1> USE DEF IInv, LInv
  <1> SUFFICES ASSUME session[found[w]] # "freed" PROVE LInv'
    BY CrashKeepsLInv DEF Kick
  <1>a. /\ pc[w] = "kick"
        /\ \/ /\ dret' = [dret EXCEPT ![w] = "kicked"]
              /\ pc' = [pc EXCEPT ![w] = "unlinkSession"]
              /\ drop' = [drop EXCEPT ![w] = found[w]]
           \/ /\ pc' = [pc EXCEPT ![w] = "kicked"]
              /\ UNCHANGED <<drop, dret>>
        /\ UNCHANGED <<sockVars, sessVars, reqVars, regVars, queVars,
                       cur, found, fault>>
    BY DEF Kick, Disconnect
  <1>1. WorldLocks'
    BY <1>a DEF WorldLocks, TypeOK
  <1>2. HandlerLocks'
    <2>1. \A s \in Sockets : deleteMutex[s] # w
      BY <1>a DEF HandlerLocks, Disconnecting
    <2>2. InCallback(w)'
      BY <1>a DEF InCallback, Disconnecting, TypeOK
    <2>3. \A u \in Threads : u # w =>
             pc'[u] = pc[u] /\ drop'[u] = drop[u] /\ dret'[u] = dret[u]
      BY <1>a DEF TypeOK
    <2>4. w # World /\ World \in Threads
          /\ UNCHANGED <<pendingLock, deleteMutex, cur>>
      BY <1>a
    <2>5. \A u \in Workers : u # w =>
             /\ InCallback(u) => InCallback(u)'
             /\ Disconnecting(u, "end") => Disconnecting(u, "end")'
      BY <2>3 DEF InCallback, Disconnecting
    <2> HIDE DEF InCallback, Disconnecting
    <2> QED BY <2>1, <2>2, <2>3, <2>4, <2>5 DEF HandlerLocks
  <1>3. MarkedOnce'
    BY <1>a DEF MarkedOnce, Disconnecting, TypeOK
  <1>4. WorldCloses'
    BY <1>a DEF WorldCloses, TypeOK
  <1>5. AskedOnce'
    <2>1. NothingAsked
      BY <1>a, Typed DEF NothingAsked, RequestsTyped, TypeOK
    <2> QED BY <2>1, AskedStays
  <1> QED BY <1>1, <1>2, <1>3, <1>4, <1>5

\* Its timer is set to expire.
LEMMA KickedKeepsLInv ==
    ASSUME IInv, LInv, fault = "none", NEW w \in Workers, Kicked(w)
    PROVE  LInv'
  <1> USE DEF IInv, LInv
  <1> SUFFICES ASSUME session[found[w]] # "freed" PROVE LInv'
    BY CrashKeepsLInv DEF Kicked
  <1>a. /\ pc[w] = "kicked" /\ pc' = [pc EXCEPT ![w] = "end"]
        /\ UNCHANGED <<net, requests, requestID, authPacket, authed,
                  mSession, mQueued, session, socketOf, deleteMutex,
                  reqVars, regVars, queVars, cur, found, drop, dret, fault>>
    BY DEF Kicked
  <1>1. WorldLocks' /\ HandlerLocks'
    BY <1>a DEF WorldLocks, HandlerLocks, InCallback, Disconnecting, TypeOK
  <1>2. MarkedOnce' /\ WorldCloses'
    BY <1>a DEF MarkedOnce, Disconnecting, WorldCloses, TypeOK
  <1>3. AskedOnce'
    <2>1. NothingAsked
      BY <1>a, Typed DEF NothingAsked, RequestsTyped, TypeOK
    <2> QED BY <2>1, AskedStays
  <1> QED BY <1>1, <1>2, <1>3

\* The new session is locked.
LEMMA CreateSessionKeepsLInv ==
    ASSUME IInv, LInv, fault = "none", NEW w \in Workers, CreateSession(w)
    PROVE  LInv'
  <1> USE DEF IInv, LInv, CreateSession
  <1>1. MarkedOnce'
    BY DEF MarkedOnce, Disconnecting, CallbacksExclude, InCallback, Early,
           CursorsSet, TypeOK, NoDanglingSession
  <1>2. WorldLocks' /\ HandlerLocks'
    BY DEF WorldLocks, HandlerLocks, InCallback, Disconnecting, TypeOK
  <1>3. WorldCloses'
    BY DEF WorldCloses, TypeOK
  <1>4. AskedOnce'
    <2>1. /\ pc[w] = "create" /\ cur[w] \in Sockets
          /\ \A u \in Sockets : u # cur[w] => session'[u] = session[u]
          /\ \A v \in Workers :
                pc'[v] \in {"setRequest", "callback", "create"} => pc'[v] = pc[v]
          /\ UNCHANGED <<requests, requestID, requestid, authed, pending, cur>>
      BY DEF CursorsSet, TypeOK
    <2> HIDE DEF CreateSession
    <2>2. \A s \in Sockets : (Requested(s)' => Requested(s)) /\ (Once(s)' <=> Once(s))
      BY <2>1 DEF Requested, Once
    <2>3. \A v \in Workers : pc'[v] \in {"setRequest", "create"} => cur[v] \in Sockets
      BY <2>1 DEF CursorsSet
    <2>4. /\ \A s \in Sockets, n \in Nat :
                <<s, n>> \in pending' => n > 0 /\ requests'[s] > 0
          /\ \A s \in Sockets : authed'[s] \/ Requested(s)' => requests'[s] > 0
          /\ \A v \in Workers : pc'[v] = "callback" => requestid' # 0
      BY <2>1, <2>2 DEF AskedOnce
    <2>5. \A v, u \in Workers :
             /\ pc'[v] = "setRequest" /\ Once(cur[v])' => requestID'[cur'[v]] = 0
             /\ pc'[v] = "setRequest" /\ pc'[u] = "setRequest" /\ v # u =>
                   cur'[v] # cur'[u]
      BY <2>1, <2>3 DEF AskedOnce, Once
    <2> HIDE DEF Requested, Once
    <2>6. \A v \in Workers : pc'[v] = "create" /\ Once(cur[v])' => ~Requested(cur[v])'
      BY <2>1, <2>2, <2>3 DEF AskedOnce
    <2>7. \A s \in Sockets : session'[s] # "none" /\ Once(s)' => ~Requested(s)'
      BY <2>1, <2>2 DEF AskedOnce
    <2> QED BY <2>4, <2>5, <2>6, <2>7 DEF AskedOnce
  <1> QED BY <1>1, <1>2, <1>3, <1>4

\* Let in, queued or refused.
LEMMA AdmitKeepsLInv ==
    ASSUME IInv, LInv, fault = "none", NEW w \in Workers, Admit(w)
    PROVE  LInv'
  <1> USE DEF IInv, LInv, Admit, Disconnect
  <1>1. HandlerLocks'
    <2>1. \A v \in Workers : v # w => pc'[v] = pc[v] /\ dret'[v] = dret[v]
      BY DEF TypeOK
    <2>2. pc[w] = "admit" /\ \/ pc'[w] \in {"authenticate", "enqueue", "end"}
                             \/ pc'[w] = "unlinkSession" /\ dret'[w] = "end"
      BY DEF TypeOK
    <2>3. pc'[World] = pc[World]
      BY DEF TypeOK
    <2>4. UNCHANGED <<pendingLock, deleteMutex, cur>>
      OBVIOUS
    <2> HIDE DEF Admit, Disconnect
    <2> QED BY <2>1, <2>2, <2>3, <2>4 DEF HandlerLocks, InCallback, Disconnecting
  <1>2. WorldLocks' /\ MarkedOnce'
    BY DEF WorldLocks, MarkedOnce, Disconnecting, TypeOK
  <1>3. WorldCloses'
    BY DEF WorldCloses, TypeOK
  <1>4. AskedOnce'
    <2>1. NothingAsked
      BY Typed DEF NothingAsked, RequestsTyped, TypeOK
    <2> QED BY <2>1, AskedStays
  <1> QED BY <1>1, <1>2, <1>3, <1>4

\* A place in the queue.
LEMMA AddQueuedSocketKeepsLInv ==
    ASSUME IInv, LInv, fault = "none", NEW w \in Workers, AddQueuedSocket(w)
    PROVE  LInv'
  <1> USE DEF IInv, LInv, AddQueuedSocket
  <1>a. session[cur[w]] # "none"
    BY DEF AddQueuedSocket, OneWayIn, OnTheWay, Entering, CursorsSet
  <1>1. MarkedOnce'
    BY <1>a DEF MarkedOnce, Disconnecting, TypeOK
  <1>2. WorldLocks' /\ HandlerLocks'
    BY DEF WorldLocks, HandlerLocks, InCallback, Disconnecting, TypeOK
  <1>3. WorldCloses'
    BY DEF WorldCloses, TypeOK
  <1>4. AskedOnce'
    <2>1. NothingAsked
      BY Typed DEF NothingAsked, RequestsTyped, TypeOK
    <2> QED BY <2>1, AskedStays
  <1> QED BY <1>1, <1>2, <1>3, <1>4

\* ... becomes known to the socket.
LEMMA MarkQueuedKeepsLInv ==
    ASSUME IInv, LInv, fault = "none", NEW w \in Workers, MarkQueued(w)
    PROVE  LInv'
  <1> USE DEF IInv, LInv, MarkQueued
  <1>1. MarkedOnce'
    BY DEF MarkedOnce, Disconnecting, CallbacksExclude, InCallback, CursorsSet,
           TypeOK
  <1>2. WorldLocks' /\ HandlerLocks'
    BY DEF WorldLocks, HandlerLocks, InCallback, Disconnecting, TypeOK
  <1>3. WorldCloses'
    BY DEF WorldCloses, TypeOK
  <1>4. AskedOnce'
    <2>1. NothingAsked
      BY Typed DEF NothingAsked, RequestsTyped, TypeOK
    <2> QED BY <2>1, AskedStays
  <1> QED BY <1>1, <1>2, <1>3, <1>4

\* The locks are released.
LEMMA EndCallbackKeepsLInv ==
    ASSUME IInv, LInv, fault = "none", NEW w \in Workers, EndCallback(w)
    PROVE  LInv'
  <1> USE DEF IInv, LInv, EndCallback
  <1>1. WorldLocks' /\ HandlerLocks'
    BY DEF WorldLocks, HandlerLocks, InCallback, Disconnecting, TypeOK
  <1>2. MarkedOnce' /\ WorldCloses'
    BY DEF MarkedOnce, Disconnecting, WorldCloses, TypeOK
  <1>3. AskedOnce'
    <2>1. \A v \in Workers : pc'[v] # "callback"
      <3>1. \A v \in Workers : v # w => ~InCallback(v)
        BY DEF CallbacksExclude, InCallback
      <3> QED BY <3>1 DEF InCallback, TypeOK
    <2>2. NothingAsked
      BY <2>1, Typed DEF NothingAsked, RequestsTyped, TypeOK
    <2> QED BY <2>2, AskedStays
  <1> QED BY <1>1, <1>2, <1>3

\* Whoever is let in is not queued any more.
LEMMA AuthenticateKeepsLInv ==
    ASSUME IInv, LInv, fault = "none", NEW t \in Threads, Authenticate(t)
    PROVE  LInv'
  <1> USE DEF IInv, LInv, Authenticate, AfterAuthenticate
  <1>1. WorldLocks' /\ HandlerLocks'
    BY DEF WorldLocks, HandlerLocks, InCallback, Disconnecting, TypeOK
  <1>2. MarkedOnce' /\ WorldCloses'
    BY DEF MarkedOnce, Disconnecting, WorldCloses, TypeOK
  <1>3. AskedOnce'
    <2>1. NothingAsked
      BY Typed DEF NothingAsked, RequestsTyped, TypeOK
    <2> QED BY <2>1, AskedStays
  <1> QED BY <1>1, <1>2, <1>3

\* The session enters the registry.
LEMMA AddSessionKeepsLInv ==
    ASSUME IInv, LInv, fault = "none", NEW t \in Threads, AddSession(t)
    PROVE  LInv'
  <1> USE DEF IInv, LInv
  <1> SUFFICES ASSUME mSession[cur[t]] PROVE LInv'
    BY CrashKeepsLInv DEF AddSession
  <1>a. /\ pc[t] = "register" /\ pc' = [pc EXCEPT ![t] = "global"]
        /\ UNCHANGED <<net, requests, requestID, authed, mSession, mQueued,
                       sessVars, reqVars, updateSet, sessionsMutex, queVars,
                       cur, drop, dret>>
    BY DEF AddSession
  <1>1. WorldLocks' /\ HandlerLocks'
    BY <1>a DEF WorldLocks, HandlerLocks, InCallback, Disconnecting, TypeOK
  <1>2. MarkedOnce' /\ WorldCloses'
    BY <1>a DEF MarkedOnce, Disconnecting, WorldCloses, TypeOK
  <1>3. AskedOnce'
    <2>1. NothingAsked
      BY <1>a, Typed DEF NothingAsked, RequestsTyped, TypeOK
    <2> QED BY <2>1, AskedStays
  <1> QED BY <1>1, <1>2, <1>3

\* ... and the sessions to update.
LEMMA AddGlobalSessionKeepsLInv ==
    ASSUME IInv, LInv, fault = "none", NEW t \in Threads, AddGlobalSession(t)
    PROVE  LInv'
  <1> USE DEF IInv, LInv
  <1> SUFFICES ASSUME mSession[cur[t]] PROVE LInv'
    BY CrashKeepsLInv DEF AddGlobalSession
  <1>a. /\ pc[t] = "global"
        /\ pc' = [pc EXCEPT ![t] = IF t = World THEN "unlockSession" ELSE "end"]
        /\ updateSet \subseteq updateSet'
        /\ UNCHANGED <<net, sockVars, sessVars, reqVars, sessionsMutex, queVars,
                       cur, drop, dret>>
    BY DEF AddGlobalSession, AfterAuthenticate
  <1>1. WorldLocks' /\ HandlerLocks'
    BY <1>a DEF WorldLocks, HandlerLocks, InCallback, Disconnecting, TypeOK
  <1>2. MarkedOnce' /\ WorldCloses'
    BY <1>a DEF MarkedOnce, Disconnecting, WorldCloses, TypeOK
  <1>3. AskedOnce'
    <2>1. NothingAsked
      BY <1>a, Typed DEF NothingAsked, RequestsTyped, TypeOK
    <2> QED BY <2>1, AskedStays
  <1> QED BY <1>1, <1>2, <1>3

\* The queue is locked when it is not empty.
LEMMA UpdateQueuedSessionsKeepsLInv ==
    ASSUME IInv, LInv, fault = "none", UpdateQueuedSessions
    PROVE  LInv'
  <1> USE DEF IInv, LInv, UpdateQueuedSessions
  <1>1. WorldLocks' /\ HandlerLocks'
    BY DEF WorldLocks, HandlerLocks, InCallback, Disconnecting, TypeOK
  <1>2. MarkedOnce' /\ WorldCloses'
    BY DEF MarkedOnce, Disconnecting, WorldCloses, TypeOK
  <1>3. AskedOnce'
    <2>1. NothingAsked
      BY Typed DEF NothingAsked, RequestsTyped, TypeOK
    <2> QED BY <2>1, AskedStays
  <1> QED BY <1>1, <1>2, <1>3

\* The first of the queue is let in, or the queue released.
LEMMA PopQueueKeepsLInv ==
    ASSUME IInv, LInv, fault = "none", PopQueue
    PROVE  LInv'
  <1> USE DEF IInv, LInv
  <1> SUFFICES ASSUME ~Crash("freed socket") PROVE LInv'
    BY CrashKeepsLInv
  <1>a. /\ pc[World] = "queue"
        /\ \/ UNCHANGED <<pc, cur, queueMutex>>
           \/ /\ pc' = [pc EXCEPT ![World] = "lockSession"]
              /\ cur' = [cur EXCEPT ![World] = Head(queue)]
              /\ UNCHANGED queueMutex
           \/ /\ pc' = [pc EXCEPT ![World] = "startPass"]
              /\ queueMutex' = Null /\ UNCHANGED cur
        /\ UNCHANGED <<net, sockVars, sessVars, reqVars, regVars, found, drop,
                       dret, fault>>
    <2>1. CASE QueueHasRoom /\ queue # <<>>
      BY <2>1, ZenonT(30) DEF PopQueue
    <2>2. CASE ~QueueHasRoom \/ queue = <<>>
      BY <2>2, ZenonT(30) DEF PopQueue, ReleaseQueueMutex
    <2> QED BY <2>1, <2>2
  <1>b. \A w \in Workers : /\ pc'[w] = pc[w] /\ cur'[w] = cur[w]
                           /\ drop'[w] = drop[w] /\ dret'[w] = dret[w]
    <2>1. /\ pc \in [Threads -> PCs] /\ cur \in [Threads -> Sockets \cup {Null}]
          /\ UNCHANGED <<drop, dret>>
      BY <1>a DEF TypeOK
    <2>2. \A w \in Workers : w # World /\ w \in Threads
      OBVIOUS
    <2> QED BY <1>a, <2>1, <2>2
  <1>c. AskedOnce' /\ MarkedOnce'
    <2>1. UNCHANGED <<pending, authed, requestID, requests, requestid, session,
                     mQueued>>
      BY <1>a
    <2> QED BY <1>b, <2>1, WorkersStay
  <1>1. HandlerLocks'
    <2>1. UNCHANGED <<pendingLock, deleteMutex>>
      BY <1>a
    <2>2. \A s \in Sockets : deleteMutex[s] # World
      BY <1>a DEF HandlerLocks
    <2>3. \A w \in Workers : /\ InCallback(w)' <=> InCallback(w)
                             /\ Disconnecting(w, "end")' <=> Disconnecting(w, "end")
      BY <1>b DEF InCallback, Disconnecting
    <2> HIDE DEF InCallback, Disconnecting
    <2> QED BY <1>b, <2>1, <2>2, <2>3 DEF HandlerLocks
  <1>2. AskedOnce'
    BY <1>c
  <1>3. MarkedOnce'
    BY <1>c
  <1>4. WorldCloses'
    <2>1. pc \in [Threads -> PCs] /\ World \in Threads
      BY DEF TypeOK
    <2> HIDE DEF IInv, LInv
    <2>2. pc'[World] \in {"queue", "lockSession", "startPass"}
      BY <1>a, <2>1
    <2> QED BY <2>2 DEF WorldCloses
  <1>5. WorldLocks'
    BY <1>a, ZenonT(40) DEF WorldLocks, TypeOK
  <1> QED BY <1>1, <1>2, <1>3, <1>4, <1>5

\* Its session is locked, ...
LEMMA LockSessionKeepsLInv ==
    ASSUME IInv, LInv, fault = "none", LockSession
    PROVE  LInv'
  <1> USE DEF IInv, LInv
  <1> SUFFICES ASSUME mSession[cur[World]] PROVE LInv'
    BY CrashKeepsLInv DEF LockSession
  <1>a. /\ pc[World] = "lockSession"
        /\ pc' = [pc EXCEPT ![World] = "authenticate"]
        /\ deleteMutex[cur[World]] = Null
        /\ deleteMutex' = [deleteMutex EXCEPT ![cur[World]] = World]
        /\ UNCHANGED <<net, sockVars, session, socketOf, logout,
                  reqVars, regVars, queVars, cur, found, drop, dret, fault>>
    BY DEF LockSession
  <1>1. WorldLocks' /\ HandlerLocks'
    BY <1>a DEF WorldLocks, HandlerLocks, InCallback, Disconnecting, TypeOK
  <1>2. MarkedOnce' /\ WorldCloses'
    BY <1>a DEF MarkedOnce, Disconnecting, WorldCloses, TypeOK
  <1>3. AskedOnce'
    <2>1. NothingAsked
      BY <1>a, Typed DEF NothingAsked, RequestsTyped, TypeOK
    <2> QED BY <2>1, AskedStays
  <1> QED BY <1>1, <1>2, <1>3

\* ... and released.
LEMMA UnlockSessionKeepsLInv ==
    ASSUME IInv, LInv, fault = "none", UnlockSession
    PROVE  LInv'
  <1> USE DEF IInv, LInv
  <1> SUFFICES ASSUME mSession[cur[World]] PROVE LInv'
    BY CrashKeepsLInv DEF UnlockSession
  <1>a. /\ pc[World] = "unlockSession" /\ pc' = [pc EXCEPT ![World] = "queue"]
        /\ deleteMutex' = [deleteMutex EXCEPT ![cur[World]] = Null]
        /\ cur' = [cur EXCEPT ![World] = Null]
        /\ UNCHANGED <<net, sockVars, session, socketOf, logout,
                  reqVars, regVars, queVars, found, drop, dret, fault>>
    BY DEF UnlockSession
  <1>1. WorldLocks' /\ HandlerLocks'
    BY <1>a DEF WorldLocks, HandlerLocks, InCallback, Disconnecting, TypeOK
  <1>2. MarkedOnce' /\ WorldCloses'
    BY <1>a DEF MarkedOnce, Disconnecting, WorldCloses, TypeOK
  <1>3. AskedOnce'
    <2>1. NothingAsked
      BY <1>a, Typed DEF NothingAsked, RequestsTyped, TypeOK
    <2> QED BY <2>1, AskedStays
  <1> QED BY <1>1, <1>2, <1>3

\* The pass begins with SessionsMutex held.
LEMMA StartPassKeepsLInv ==
    ASSUME IInv, LInv, fault = "none", StartPass
    PROVE  LInv'
  <1> USE DEF IInv, LInv, StartPass
  <1>1. WorldLocks' /\ HandlerLocks'
    BY DEF WorldLocks, HandlerLocks, InCallback, Disconnecting, TypeOK
  <1>2. MarkedOnce' /\ WorldCloses'
    BY DEF MarkedOnce, Disconnecting, WorldCloses, TypeOK
  <1>3. AskedOnce'
    <2>1. NothingAsked
      BY Typed DEF NothingAsked, RequestsTyped, TypeOK
    <2> QED BY <2>1, AskedStays
  <1> QED BY <1>1, <1>2, <1>3

\* A session is updated.
LEMMA UpdateSessionKeepsLInv ==
    ASSUME IInv, LInv, fault = "none", NEW s \in Sockets, UpdateSession(s)
    PROVE  LInv'
  <1> USE DEF IInv, LInv
  <1>a. /\ pc[World] = "pass" /\ s \in updateSet
        /\ \/ /\ UNCHANGED <<pc, cur, drop, dret>>
              /\ updateSet' \subseteq updateSet
           \/ /\ cur' = [cur EXCEPT ![World] = s] /\ UNCHANGED updateSet
              /\ \/ /\ pc' = [pc EXCEPT ![World] = "unlinkSession"]
                    /\ drop' = [drop EXCEPT ![World] = s]
                    /\ dret' = [dret EXCEPT ![World] = "pinged"]
                 \/ /\ pc' = [pc EXCEPT ![World] = "pinged"]
                    /\ UNCHANGED <<drop, dret>>
        /\ UNCHANGED <<sockVars, session, deleteMutex, reqVars, sessionsMutex,
                       queVars>>
    BY DEF UpdateSession, Disconnect, Bookkeeping, TypeOK
  <1>b. \A w \in Workers : /\ pc'[w] = pc[w] /\ cur'[w] = cur[w]
                           /\ drop'[w] = drop[w] /\ dret'[w] = dret[w]
    BY <1>a DEF TypeOK
  <1>c. AskedOnce' /\ MarkedOnce'
    <2>1. UNCHANGED <<pending, authed, requestID, requests, requestid, session,
                     mQueued>>
      BY <1>a
    <2> QED BY <1>b, <2>1, WorkersStay
  <1>1. AskedOnce'
    BY <1>c
  <1>2. MarkedOnce'
    BY <1>c
  <1>3. WorldLocks' /\ HandlerLocks' /\ WorldCloses'
    BY <1>a DEF WorldLocks, HandlerLocks, InCallback, Disconnecting,
                WorldCloses, TypeOK
  <1> QED BY <1>1, <1>2, <1>3

\* The ping timeout goes on.
LEMMA PingTimedOutKeepsLInv ==
    ASSUME IInv, LInv, fault = "none", PingTimedOut
    PROVE  LInv'
  <1> USE DEF IInv, LInv, PingTimedOut
  <1>1. WorldLocks' /\ HandlerLocks'
    BY DEF WorldLocks, HandlerLocks, InCallback, Disconnecting, TypeOK
  <1>2. MarkedOnce' /\ WorldCloses'
    BY DEF MarkedOnce, Disconnecting, WorldCloses, TypeOK
  <1>3. AskedOnce'
    <2>1. NothingAsked
      BY Typed DEF NothingAsked, RequestsTyped, TypeOK
    <2> QED BY <2>1, AskedStays
  <1> QED BY <1>1, <1>2, <1>3

\* The pass ends.
LEMMA EndPassKeepsLInv ==
    ASSUME IInv, LInv, fault = "none", EndPass
    PROVE  LInv'
  <1> USE DEF IInv, LInv, EndPass
  <1>1. WorldLocks' /\ HandlerLocks'
    BY DEF WorldLocks, HandlerLocks, InCallback, Disconnecting, TypeOK
  <1>2. MarkedOnce' /\ WorldCloses'
    BY DEF MarkedOnce, Disconnecting, WorldCloses, TypeOK
  <1>3. AskedOnce'
    <2>1. NothingAsked
      BY Typed DEF NothingAsked, RequestsTyped, TypeOK
    <2> QED BY <2>1, AskedStays
  <1> QED BY <1>1, <1>2, <1>3

\* The sessions to delete are deleted.
LEMMA DeleteSessionsKeepsLInv ==
    ASSUME IInv, LInv, fault = "none", DeleteSessions
    PROVE  LInv'
  <1> USE DEF IInv, LInv
  <1>a. /\ pc[World] = "deleteSessions"
        /\ pc' = pc \/ pc' = [pc EXCEPT ![World] = "idle"]
        /\ \A s \in Sockets : session[s] = "none" <=> session'[s] = "none"
        /\ UNCHANGED <<requests, requestID, requestid, authed, pending,
                       mQueued, deleteMutex, pendingLock, updateSet, sessionsMutex,
                       queueMutex, cur, drop, dret>>
    BY DEF DeleteSessions, NoDanglingSession, TypeOK
  <1>1. MarkedOnce'
    BY <1>a DEF MarkedOnce, Disconnecting, CallbacksExclude, InCallback,
                CursorsSet, TypeOK
  <1>2. WorldLocks' /\ HandlerLocks'
    BY <1>a DEF WorldLocks, HandlerLocks, InCallback, Disconnecting, TypeOK
  <1>3. WorldCloses'
    BY <1>a DEF WorldCloses, TypeOK
  <1>4. AskedOnce'
    <2>1. NothingAsked
      BY <1>a, Typed DEF NothingAsked, RequestsTyped, TypeOK
    <2> QED BY <2>1, AskedStays
  <1> QED BY <1>1, <1>2, <1>3, <1>4

\* The other steps take no lock and move no handler.
LEMMA OthersKeepLInv ==
    ASSUME LInv, NEW s \in Sockets,
           Accept(s) \/ FreeSocket(s) \/ LogoutDelayEnds(s)
    PROVE  LInv'
  <1>1. UNCHANGED <<queueMutex, sessionsMutex, deleteMutex, pendingLock,
                    requestID, requests, authed, pending, requestid,
                    session, mQueued, updateSet, pc, cur, drop, dret>>
    BY DEF Accept, FreeSocket, LogoutDelayEnds
  <1> QED BY <1>1, QuietKeepsLInv

LEMMA NextKeepsLInv ==
    ASSUME IInv, LInv, [Next]_vars
    PROVE  LInv'
  <1>a. World \in Threads /\ Workers \subseteq Threads
    OBVIOUS
  <1>b. ASSUME NEW t \in Threads, fault = "none",
               DisconnectStep(t) \/ AuthenticateStep(t)
        PROVE  LInv'
    BY <1>b, UnlinkSessionKeepsLInv, CancelRequestKeepsLInv,
       LeaveQueueKeepsLInv, AuthenticateKeepsLInv, AddSessionKeepsLInv,
       AddGlobalSessionKeepsLInv DEF DisconnectStep, AuthenticateStep
  <1>1. ASSUME NEW w \in Workers, fault = "none", WorkerStep(w) PROVE LInv'
    BY <1>a, <1>b, <1>1, SetRequestKeepsLInv, SetPacketKeepsLInv,
       CallbackKeepsLInv, KickKeepsLInv, KickedKeepsLInv,
       CreateSessionKeepsLInv, AdmitKeepsLInv, AddQueuedSocketKeepsLInv,
       MarkQueuedKeepsLInv, EndCallbackKeepsLInv DEF WorkerStep
  <1>2. ASSUME NEW w \in Workers, NEW s \in Sockets, fault = "none",
               Arrival(w, s)
        PROVE  LInv'
    BY <1>2, DropKeepsLInv, HandleAuthSessionKeepsLInv,
       HandleSessionInfoKeepsLInv DEF Arrival
  <1>3. CASE fault = "none" /\ WorldStep
    BY <1>a, <1>b, <1>3, UpdateQueuedSessionsKeepsLInv, PopQueueKeepsLInv,
       LockSessionKeepsLInv, UnlockSessionKeepsLInv, StartPassKeepsLInv,
       UpdateSessionKeepsLInv, PingTimedOutKeepsLInv, EndPassKeepsLInv,
       DeleteSessionsKeepsLInv DEF WorldStep
  <1>4. ASSUME NEW s \in Sockets, fault = "none",
               Accept(s) \/ FreeSocket(s) \/ LogoutDelayEnds(s)
        PROVE  LInv'
    BY <1>4, OthersKeepLInv
  <1>5. CASE UNCHANGED vars
    BY <1>5, QuietKeepsLInv DEF vars
  <1> QED BY <1>1, <1>2, <1>3, <1>4, <1>5, Steps

\* A worker waits for the world thread or for the one worker that is in a
\* callback; and that one for the world thread only.
LEMMA WorkerWaits ==
    ASSUME IInv, LInv, NEW w \in Workers, NEW u \in Threads, Waits(w, u)
    PROVE  /\ u = World \/ pendingLock = u
           /\ pendingLock = w => u = World
  <1>1. queueMutex \in {World, Null} /\ sessionsMutex \in {World, Null}
    BY DEF IInv, TypeOK
  <1>2. pendingLock = w => pc[w] # "idle"
    BY DEF LInv, HandlerLocks, InCallback, Disconnecting
  <1> QED BY <1>1, <1>2 DEF Waits

\* The world thread waits only where it wants the deleteMutex of a session, or
\* closes the socket of a client that has asked more than once.
LEMMA WorldWaitsAt ==
    ASSUME IInv, LInv, NEW u \in Threads, Waits(World, u)
    PROVE  \/ /\ pc[World] = "lockSession"
              /\ u \in Threads /\ deleteMutex[cur[World]] = u
           \/ /\ pc[World] = "deleteSessions"
              /\ \E s \in erasable : deleteMutex[s] = u
           \/ /\ pc[World] = "cancelRequest" /\ pendingLock = u
              /\ requestID[drop[World]] # 0 /\ requests[drop[World]] > 1
  <1>1. queueMutex \in {World, Null} /\ sessionsMutex \in {World, Null}
        /\ updateSet \subseteq Sockets
    BY DEF IInv, TypeOK
  <1>2. pc[World] = "cancelRequest" =>
           requestID[drop[World]] = 0 \/ requests[drop[World]] > 1
    BY <1>1 DEF IInv, LInv, WorldCloses, AskedOnce, Requested, Once,
                NoDanglingSession
  <1>3. pc[World] \in {"global", "startPass"} => sessionsMutex = Null
    BY <1>1 DEF LInv, WorldLocks
  <1>4. World \notin Workers
    OBVIOUS
  <1> QED BY <1>1, <1>2, <1>3, <1>4 DEF Waits

\* The worker whose deleteMutex it waits for has let the session in already,
\* and has nothing left to wait for before it ends its callback.
LEMMA WorldWaitsToLock ==
    ASSUME IInv, LInv, NEW w \in Threads, Waits(World, w),
           pc[World] # "cancelRequest"
    PROVE  pendingLock = w /\ \A u \in Threads : ~Waits(w, u)
  <1>a. World \in Threads /\ cur[World] \in Sockets \cup {Null}
        /\ erasable \subseteq Sockets /\ queueMutex \in {World, Null}
        /\ sessionsMutex \in {World, Null}
    BY DEF IInv, TypeOK
  <1>b. PICK s \in Sockets :
           /\ deleteMutex[s] = w
           /\ \/ pc[World] = "lockSession" /\ s = cur[World]
              \/ pc[World] = "deleteSessions" /\ s \in erasable
    BY <1>a, WorldWaitsAt DEF IInv, CursorsSet
  <1>1. w \in Workers
    BY <1>b DEF LInv, HandlerLocks
  <1>2. cur[w] = s /\ (\/ pc[w] \in {"admit", "enqueue", "markQueued", "end"}
                                       \cup AuthenticatePCs
                       \/ Disconnecting(w, "end"))
    BY <1>1, <1>b DEF LInv, HandlerLocks
  <1>3. pendingLock = w /\ InCallback(w)
    BY <1>1, <1>2 DEF IInv, CallbacksExclude, InCallback
  <1>4. ~Entering(w)
    <2>1. CASE pc[World] = "lockSession"
      BY <1>1, <1>2, <1>b, <2>1 DEF IInv, OneWayIn, Entering
    <2>2. CASE pc[World] = "deleteSessions"
      BY <1>1, <1>2, <1>b, <2>2 DEF IInv, OneWayIn, OnTheWay
    <2> QED BY <1>b, <2>1, <2>2
  <1>5. pc[w] \in {"markQueued", "end"} \/ Disconnecting(w, "end")
    BY <1>1, <1>2, <1>4 DEF Entering
  <1>6. CASE Disconnecting(w, "end")
    <2>1. ~mQueued[drop[w]] /\ pc[w] \in DisconnectPCs
      BY <1>1, <1>6 DEF LInv, MarkedOnce, Disconnecting
    <2> QED BY <1>1, <1>3, <2>1 DEF Waits
  <1>7. CASE pc[w] \in {"markQueued", "end"}
    BY <1>1, <1>3, <1>7 DEF Waits
  <1> QED BY <1>5, <1>6, <1>7

\* The worker whose pendingLock it waits for goes on, except where it wants
\* SessionsMutex, which the world thread holds.
LEMMA WorldWaits ==
    ASSUME IInv, LInv, ~Deadlocked, NEW w \in Threads, Waits(World, w)
    PROVE  pendingLock = w /\ \A u \in Threads : ~Waits(w, u)
  <1>1. CASE pc[World] # "cancelRequest"
    BY <1>1, WorldWaitsToLock
  <1>2. CASE pc[World] = "cancelRequest"
    <2>1. /\ pendingLock = w
          /\ requestID[drop[World]] # 0 /\ requests[drop[World]] > 1
      BY <1>2, WorldWaitsAt
    <2>2. /\ w \in Workers /\ InCallback(w) /\ pc[w] # "idle"
          /\ queueMutex = Null /\ sessionsMutex \in {World, Null}
      BY <1>2, <2>1 DEF LInv, HandlerLocks, WorldLocks, InCallback,
                        Disconnecting, IInv, TypeOK
    <2>3. ~(pc[w] = "global" /\ sessionsMutex = World)
      BY <1>2, <2>1, <2>2 DEF Deadlocked
    <2>4. World # Null /\ \A u \in Threads : u # Null
      OBVIOUS
    <2> QED BY <2>1, <2>2, <2>3, <2>4 DEF Waits
  <1> QED BY <1>1, <1>2

\* Threads wait for each other in one circle only, however many workers there
\* are: in every other state, who waits for a mutex waits for somebody who does
\* not wait, or who waits for somebody who does not.  A socket that disconnects
\* in the middle of a callback, of the queue's loop or of a pass takes the same
\* mutexes in other orders; what rules out a circle is that the session it
\* would need is not there, has been let in, or was never queued.  The circle
\* there is needs a client that has sent CMSG_AUTH_SESSION again (Deadlocked).
THEOREM NoWaitingInACircle == Spec => [](ChainsEnd \/ Deadlocked)
  <1>1. IInv /\ LInv => ChainsEnd \/ Deadlocked
    <2> SUFFICES ASSUME IInv, LInv, ~Deadlocked, NEW t \in Threads, NEW u \in Threads,
                        NEW v \in Threads, NEW x \in Threads,
                        Waits(t, u), Waits(u, v), Waits(v, x)
                 PROVE  FALSE
      BY DEF ChainsEnd
    <2>1. t # World /\ u # World
      BY WorldWaits
    <2>2. pendingLock = u /\ v = World
      BY <2>1, WorkerWaits
    <2>3. pendingLock = x
      BY <2>2, WorldWaits
    <2> QED BY <2>2, <2>3, WorldWaits
  <1>2. IInv /\ LInv /\ [Next]_vars => LInv'
    BY NextKeepsLInv
  <1> QED BY InitLInv, Invariance, <1>1, <1>2, PTL DEF Spec
================================================================================
