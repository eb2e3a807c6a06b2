------------------------------ MODULE WorldLogin ------------------------------
(***************************************************************************)
(* Admission of game clients to the world server: WorldSocket's handshake, *)
(* the account request LogonCommHandler keeps pending at the logon server, *)
(* World's player limit and login queue, its registry of sessions, and the *)
(* removal of a session whose client has gone.                             *)
(*                                                                         *)
(* Three kinds of thread act: the socket workers (SocketWorkerThread: one  *)
(* with epoll, one per processor with IOCP), which run every socket        *)
(* callback including those of the link to the logon server; the world     *)
(* thread (WorldRunnable); and the main thread, whose loop frees closed    *)
(* sockets.  A handler is split into steps where another thread can act    *)
(* between two of its accesses to shared state; a mutex is a variable      *)
(* holding its owner, who may take it again.                               *)
(*                                                                         *)
(* A socket gets one session at most, and names it.  It may send           *)
(* CMSG_AUTH_SESSION more than once: each makes a request of its own, with *)
(* a number from ClientConnected, here <<socket, how many>>.  Sessions     *)
(* that have entered a map are updated by that map's thread instead of the *)
(* world thread; here one thread updates them all, and what the update     *)
(* does to an in-game player is left out.                                  *)
(***************************************************************************)
EXTENDS Naturals, Sequences, FiniteSets

CONSTANTS
    Sockets,        \* connection attempts, each used once
    Accounts,
    AccountOf,      \* the account each connection attempt names
    GMs,            \* accounts with GM permissions
    Workers,        \* socket worker threads
    World,          \* the world thread
    PlayerLimit,    \* World::m_playerLimit
    QueueInterval,  \* mQueueUpdateInterval, in loops of the world thread
    LinkStates,     \* what ClientConnected may find of the logon link
    MaxRequests,    \* CMSG_AUTH_SESSIONs each connection sends (bound)
    Null

ASSUME LoginAssumption ==
    /\ AccountOf \in [Sockets -> Accounts]
    /\ GMs \subseteq Accounts
    /\ World \notin Workers
    /\ Null \notin Sockets \cup Workers \cup {World}
    /\ PlayerLimit \in Nat
    /\ QueueInterval \in Nat \ {0}
    /\ LinkStates \subseteq {"up", "broken", "none"}
    /\ IsFiniteSet(Accounts)

ASSUME BoundAssumption == MaxRequests \in [Sockets -> Nat]

Threads == Workers \cup {World}

VARIABLES
    \* WorldSocket
    net,          \* "new", "open", "closing" (in OnDisconnect), "gc", "freed"
    requests,     \* how many requests it has made
    requestID,    \* mRequestID: which of them, or 0
    authPacket,   \* pAuthenticationPacket # NULL
    authed,       \* Authed
    mSession,     \* mSession # NULL
    mQueued,
    answer,       \* the SMSG_AUTH_RESPONSEs it was sent
    \* WorldSession
    session,      \* "none", "live", "freed"
    socketOf,     \* _socket # NULL
    logout,       \* _logoutTime: "off", "armed", "due"
    deleteMutex,  \* its owner
    \* LogonCommHandler
    pending,      \* the requests in pending_logons
    pendingLock,  \* its owner
    asked,        \* requests the logon server has not answered
    requestid,    \* the one whose answer is being handled under pendingLock
    \* World
    m_sessions,   \* account -> session
    updateSet,    \* World::Sessions
    sessionsMutex,
    queue,        \* mQueuedSessions
    queueMutex,
    queueTimer,   \* m_queueUpdateTimer
    doubles,      \* history: sessions of an account that has got two at once
    todo,         \* sessions UpdateSessions has still to visit
    erasable,     \* ErasableSessions
    \* threads
    pc,
    cur,          \* the socket a thread's handler is about
    found,        \* the session FindSession returned to it
    drop,         \* the socket whose OnDisconnect it is running
    dret,         \* where it goes on after OnDisconnect
    fault         \* what has crashed the process, if anything

sockVars == <<requests, requestID, authPacket, authed, mSession, mQueued,
              answer>>
sessVars == <<session, socketOf, logout, deleteMutex>>
reqVars  == <<pending, pendingLock, asked, requestid>>
regVars  == <<m_sessions, updateSet, sessionsMutex, todo, erasable>>
queVars  == <<queue, queueMutex, queueTimer, doubles>>
thrVars  == <<pc, cur, found, drop, dret>>
vars == <<net, sockVars, sessVars, reqVars, regVars, queVars, thrVars, fault>>

AuthenticatePCs == {"authenticate", "register", "global"}
CallbackPCs == {"callback", "kick", "kicked", "create", "admit", "enqueue",
                "markQueued", "end"} \cup AuthenticatePCs
DisconnectPCs == {"unlinkSession", "cancelRequest", "leaveQueue"}
QueuePCs == {"queue", "lockSession", "unlockSession"}
PassPCs == {"pass", "pinged"}
PCs == {"idle", "setRequest", "setPacket", "deleteSessions", "startPass"}
         \cup CallbackPCs \cup DisconnectPCs \cup QueuePCs \cup PassPCs

Faults == {"none", "freed socket", "freed session", "null session"}

Queued(s) == \E i \in 1..Len(queue) : queue[i] = s
SessionCount == Cardinality({a \in Accounts : m_sessions[a] # Null})
Goto(t, l) == pc' = [pc EXCEPT ![t] = l]

\* Operators named ..._bug are the mistakes the properties are tested
\* against; no specification uses them.

FindSession(a) == m_sessions[a]

HasRoom_bug(s) == SessionCount < PlayerLimit \/ AccountOf[s] \notin GMs
HasRoom(s) == SessionCount < PlayerLimit \/ AccountOf[s] \in GMs

QueueHasRoom_bug == SessionCount + 1 < PlayerLimit
QueueHasRoom == SessionCount < PlayerLimit

\* UnauthedSocketClose and RemoveUnauthedSocket
WithoutRequest(s, n) == pending \ {<<s, n>>}

\* RemoveQueuedSocket erases the first place of the socket in the queue.
WithoutSocket_bug(s) == queue                   \* forgets the queue
WithoutSocket(s) ==
    LET before(i) == \A j \in 1..i : queue[j] # s IN
    IF Queued(s)
    THEN [i \in 1..(Len(queue) - 1) |->
             IF before(i) THEN queue[i] ELSE queue[i + 1]]
    ELSE queue

\* The registry after m_sessions.erase of the accounts of the sessions S.
Unregister_bug(S) == m_sessions                 \* deletes without erasing
Unregister_early_bug(S) ==                      \* erases whose client is gone
    [a \in Accounts |->
        IF \E s \in S \cup {u \in updateSet : ~socketOf[u]} : AccountOf[s] = a
        THEN Null ELSE m_sessions[a]]
Unregister(S) == [a \in Accounts |->
                    IF \E s \in S : AccountOf[s] = a THEN Null
                    ELSE m_sessions[a]]

\* mSession = NULL
Unlink(s) == [mSession EXCEPT ![s] = FALSE]

AuthFailed_bug(s) == answer                     \* returns without an answer
AuthFailed(s) == [answer EXCEPT ![s] = @ \cup {"failed"}]

\* if (!_logoutTime) _logoutTime = m_currMsTime + PLAYER_LOGOUT_DELAY
StartLogoutTimer_bug(s) == logout               \* never starts it
StartLogoutTimer(s) == [logout EXCEPT ![s] = IF @ = "off" THEN "armed" ELSE @]

QueueTimerRuns_bug == TRUE                      \* counts past zero
QueueTimerRuns == queueTimer > 1

ReleaseQueueMutex_bug == UNCHANGED queueMutex   \* a return that keeps it
ReleaseQueueMutex == queueMutex' = Null

-------------------------------------------------------------------------------
Init ==
    /\ net = [s \in Sockets |-> "new"]
    /\ requests = [s \in Sockets |-> 0]
    /\ requestID = [s \in Sockets |-> 0]
    /\ authPacket = [s \in Sockets |-> FALSE]
    /\ authed = [s \in Sockets |-> FALSE]
    /\ mSession = [s \in Sockets |-> FALSE]
    /\ mQueued = [s \in Sockets |-> FALSE]
    /\ answer = [s \in Sockets |-> {}]
    /\ session = [s \in Sockets |-> "none"]
    /\ socketOf = [s \in Sockets |-> FALSE]
    /\ logout = [s \in Sockets |-> "off"]
    /\ deleteMutex = [s \in Sockets |-> Null]
    /\ pending = {} /\ pendingLock = Null /\ asked = {} /\ requestid = 0
    /\ m_sessions = [a \in Accounts |-> Null]
    /\ updateSet = {} /\ sessionsMutex = Null /\ todo = {} /\ erasable = {}
    /\ queue = <<>> /\ queueMutex = Null /\ queueTimer = QueueInterval
    /\ doubles = {}
    /\ pc = [t \in Threads |-> "idle"]
    /\ cur = [t \in Threads |-> Null]
    /\ found = [t \in Threads |-> Null]
    /\ drop = [t \in Threads |-> Null]
    /\ dret = [t \in Threads |-> "idle"]
    /\ fault = "none"

\* The process dies on a bad access; nothing happens after it.
Crash(f) == fault' = f /\ UNCHANGED <<net, sockVars, sessVars, reqVars,
                                      regVars, queVars, thrVars>>

-------------------------------------------------------------------------------
(* Socket::Disconnect and WorldSocket::OnDisconnect, run by whichever      *)
(* thread closes the socket.                                               *)

\* Exchanges m_connected and goes on in OnDisconnect; a socket that is not
\* connected is left alone and the caller continues at l.
Disconnect(t, s, l) ==
    IF net[s] = "open"
    THEN /\ net' = [net EXCEPT ![s] = "closing"]
         /\ drop' = [drop EXCEPT ![t] = s]
         /\ dret' = [dret EXCEPT ![t] = l]
         /\ Goto(t, "unlinkSession")
    ELSE Goto(t, l) /\ UNCHANGED <<net, drop, dret>>

UnlinkSession(t) ==
    LET s == drop[t] IN
    /\ pc[t] = "unlinkSession"
    /\ IF mSession[s] /\ session[s] = "freed"
       THEN Crash("freed session")
       ELSE /\ socketOf' = [socketOf EXCEPT ![s] = @ /\ ~mSession[s]]
            /\ mSession' = Unlink(s)
            /\ Goto(t, "cancelRequest")
            /\ UNCHANGED <<net, requests, requestID, authPacket, authed,
                  mQueued, answer, session, logout, deleteMutex, reqVars,
                  regVars, queVars, cur, found, drop, dret, fault>>

CancelRequest(t) ==
    LET s == drop[t] IN
    /\ pc[t] = "cancelRequest"
    /\ requestID[s] # 0 => pendingLock \in {Null, t}
    /\ pending' = IF requestID[s] # 0 THEN WithoutRequest(s, requestID[s]) ELSE pending
    /\ requestID' = [requestID EXCEPT ![s] = 0]
    /\ Goto(t, "leaveQueue")
    /\ UNCHANGED <<net, requests, authPacket, authed, mSession, mQueued,
          answer, sessVars, pendingLock, asked, requestid, regVars, queVars,
          cur, found, drop, dret, fault>>

\* The last step hands the socket to the garbage collector (Socket::Delete).
LeaveQueue(t) ==
    LET s == drop[t] IN
    /\ pc[t] = "leaveQueue"
    /\ mQueued[s] => queueMutex \in {Null, t}
    /\ queue' = IF mQueued[s] THEN WithoutSocket(s) ELSE queue
    /\ mQueued' = [mQueued EXCEPT ![s] = FALSE]
    /\ net' = [net EXCEPT ![s] = "gc"]
    /\ drop' = [drop EXCEPT ![t] = Null]
    /\ Goto(t, dret[t])
    /\ UNCHANGED <<requests, requestID, authPacket, authed, mSession,
          answer, sessVars, reqVars, regVars, queueMutex, queueTimer,
          doubles, cur, found, dret, fault>>

-------------------------------------------------------------------------------
(* Socket workers: connections and CMSG_AUTH_SESSION.                      *)

Accept(s) ==
    /\ net[s] = "new"
    /\ net' = [net EXCEPT ![s] = "open"]
    /\ UNCHANGED <<sockVars, sessVars, reqVars, regVars, queVars, thrVars,
                   fault>>

\* The client's end closes, or a send or receive fails.
Drop(w, s) ==
    /\ pc[w] = "idle" /\ net[s] = "open"
    /\ Disconnect(w, s, "idle")
    /\ UNCHANGED <<sockVars, sessVars, reqVars, regVars, queVars, cur,
                   found, fault>>

\* A worker is still in _HandleAuthSession for this socket: its packets are
\* read one after the other.
Authenticating(s) ==
    \E w \in Workers : cur[w] = s /\ pc[w] \in {"setRequest", "setPacket"}

\* _HandleAuthSession up to the return of ClientConnected, whatever has become
\* of the requests the socket has made before.  The request is sent and
\* entered in pending_logons under pendingLock; without a logon server the
\* socket is closed, on a broken link the request is lost.  A packet that is
\* cut short makes no request: nothing changes, and the client is not told.
HandleAuthSession(w, s) ==
    /\ pc[w] = "idle" /\ net[s] = "open" /\ ~Authenticating(s)
    /\ requests[s] < MaxRequests[s]
    /\ LET n == requests[s] + 1 IN
       /\ requests' = [requests EXCEPT ![s] = n]
       /\ \E link \in LinkStates :
             IF link = "none"
             THEN /\ requestID' = [requestID EXCEPT ![s] = n]
                  /\ Disconnect(w, s, "idle")
                  /\ UNCHANGED <<pending, asked, cur>>
             ELSE /\ pendingLock = Null
                  /\ pending' = pending \cup {<<s, n>>}
                  /\ asked' = IF link = "up" THEN asked \cup {<<s, n>>} ELSE asked
                  /\ cur' = [cur EXCEPT ![w] = s]
                  /\ Goto(w, "setRequest")
                  /\ UNCHANGED <<requestID, net, drop, dret>>
    /\ UNCHANGED <<authPacket, authed, mSession, mQueued, answer, sessVars,
                   pendingLock, requestid, regVars, queVars, found, fault>>

\* The number takes the place of an earlier one, which nothing will take back.
SetRequest(w) ==
    /\ pc[w] = "setRequest"
    /\ requestID' = [requestID EXCEPT ![cur[w]] = requests[cur[w]]]
    /\ Goto(w, "setPacket")
    /\ UNCHANGED <<net, requests, authPacket, authed, mSession, mQueued,
          answer, sessVars, reqVars, regVars, queVars, cur, found, drop,
          dret, fault>>

SetPacket(w) ==
    /\ pc[w] = "setPacket"
    /\ authPacket' = [authPacket EXCEPT ![cur[w]] = TRUE]
    /\ cur' = [cur EXCEPT ![w] = Null]
    /\ Goto(w, "idle")
    /\ UNCHANGED <<net, requests, requestID, authed, mSession, mQueued,
          answer, sessVars, reqVars, regVars, queVars, found, drop, dret,
          fault>>

-------------------------------------------------------------------------------
(* Socket workers: the logon server's answer.  HandleSessionInfo holds     *)
(* pendingLock until InformationRetreiveCallback returns.                  *)

HandleSessionInfo(w, s, n) ==
    /\ pc[w] = "idle" /\ <<s, n>> \in asked /\ pendingLock = Null
    /\ IF <<s, n>> \in pending /\ net[s] = "freed"
       THEN Crash("freed socket")
       ELSE /\ asked' = asked \ {<<s, n>>}
            /\ IF <<s, n>> \in pending /\ ~authed[s] /\ net[s] = "open"
               THEN /\ authed' = [authed EXCEPT ![s] = TRUE]
                    /\ pending' = WithoutRequest(s, n)
                    /\ pendingLock' = w
                    /\ requestid' = n
                    /\ cur' = [cur EXCEPT ![w] = s]
                    /\ Goto(w, "callback")
               ELSE UNCHANGED <<authed, pending, pendingLock, requestid, cur, pc>>
            /\ UNCHANGED <<net, requests, requestID, authPacket, mSession,
                  mQueued, answer, sessVars, regVars, queVars, found, drop,
                  dret, fault>>

\* A session in the login queue, or on its way from there to its place in the
\* registry, is not found by FindSession: its account gets a second one.  (With
\* the two in the world, the end of one takes the other out of the registry,
\* and a third is made.)
Waiting(r) ==
    Queued(r) \/ (cur[World] = r /\ pc[World] \in {"lockSession", "authenticate",
                                                  "register"})
Overlooked(s) == {r \in Sockets : /\ AccountOf[r] = AccountOf[s]
                                  /\ session[r] = "live"
                                  /\ Waiting(r) \/ r \in doubles}
WithDoubles(s) ==
    IF Overlooked(s) = {} THEN doubles ELSE doubles \cup Overlooked(s) \cup {s}

\* InformationRetreiveCallback up to FindSession and the digest check.  ok
\* says whether the server knew the account and the digest matched.
Callback(w) ==
    LET s == cur[w] IN
    /\ pc[w] = "callback"
    /\ \E ok \in {"account", "digest", "error"} :
         IF requestID[s] # requestid
         THEN Goto(w, "end") /\ UNCHANGED <<requestID, answer, found>>
         ELSE IF ok = "error" \/ ~authPacket[s]
         THEN /\ answer' = AuthFailed(s)
              /\ Goto(w, "end")
              /\ UNCHANGED <<requestID, found>>
         ELSE LET other == FindSession(AccountOf[s]) IN
              /\ requestID' = [requestID EXCEPT ![s] = 0]
              /\ found' = [found EXCEPT ![w] = other]
              /\ IF other # Null
                 THEN Goto(w, "kick") /\ UNCHANGED answer
                 ELSE IF ok = "digest"
                 THEN Goto(w, "end") /\ answer' = AuthFailed(s)
                 ELSE Goto(w, "create") /\ UNCHANGED answer
    /\ doubles' = IF pc'[w] = "create" THEN WithDoubles(s) ELSE doubles
    /\ UNCHANGED <<net, requests, authPacket, authed, mSession, mQueued,
          sessVars, reqVars, regVars, queue, queueMutex, queueTimer, cur,
          drop, dret, fault>>

\* The account is online: its session is disconnected...
Kick(w) ==
    LET o == found[w] IN
    /\ pc[w] = "kick"
    /\ IF session[o] = "freed"
       THEN Crash("freed session")
       ELSE /\ IF socketOf[o] THEN Disconnect(w, o, "kicked")
               ELSE Goto(w, "kicked") /\ UNCHANGED <<net, drop, dret>>
            /\ UNCHANGED <<sockVars, sessVars, reqVars, regVars, queVars,
                           cur, found, fault>>

\* ... its logout timer set to expire at once, and this login refused.
Kicked(w) ==
    LET o == found[w] IN
    /\ pc[w] = "kicked"
    /\ IF session[o] = "freed"
       THEN Crash("freed session")
       ELSE /\ logout' = [logout EXCEPT ![o] = "due"]
            /\ answer' = AuthFailed(cur[w])
            /\ Goto(w, "end")
            /\ UNCHANGED <<net, requests, requestID, authPacket, authed,
                  mSession, mQueued, session, socketOf, deleteMutex,
                  reqVars, regVars, queVars, cur, found, drop, dret, fault>>

CreateSession(w) ==
    LET s == cur[w] IN
    /\ pc[w] = "create"
    /\ session' = [session EXCEPT ![s] = "live"]
    /\ socketOf' = [socketOf EXCEPT ![s] = TRUE]
    /\ mSession' = [mSession EXCEPT ![s] = TRUE]
    /\ deleteMutex' = [deleteMutex EXCEPT ![s] = w]
    /\ Goto(w, "admit")
    /\ UNCHANGED <<net, requests, requestID, authPacket, authed, mQueued,
          answer, logout, reqVars, regVars, queVars, cur, found, drop, dret,
          fault>>

\* "Check for queue": in, queued, or refused on a server without a limit.
Admit(w) ==
    LET s == cur[w] IN
    /\ pc[w] = "admit"
    /\ \/ /\ HasRoom(s)
          /\ Goto(w, "authenticate")
          /\ UNCHANGED <<net, answer, drop, dret>>
       \/ /\ ~HasRoom(s) /\ PlayerLimit > 0
          /\ Goto(w, "enqueue")
          /\ UNCHANGED <<net, answer, drop, dret>>
       \/ /\ ~HasRoom(s) /\ PlayerLimit = 0
          /\ answer' = AuthFailed(s)
          /\ Disconnect(w, s, "end")
    /\ UNCHANGED <<requests, requestID, authPacket, authed, mSession,
          mQueued, sessVars, reqVars, regVars, queVars, cur, found, fault>>

AddQueuedSocket(w) ==
    /\ pc[w] = "enqueue" /\ queueMutex = Null
    /\ queue' = Append(queue, cur[w])
    /\ Goto(w, "markQueued")
    /\ UNCHANGED <<net, sockVars, sessVars, reqVars, regVars, queueMutex,
                   queueTimer, doubles, cur, found, drop, dret, fault>>

MarkQueued(w) ==
    /\ pc[w] = "markQueued"
    /\ mQueued' = [mQueued EXCEPT ![cur[w]] = TRUE]
    /\ answer' = [answer EXCEPT ![cur[w]] = @ \cup {"queued"}]
    /\ Goto(w, "end")
    /\ UNCHANGED <<net, requests, requestID, authPacket, authed, mSession,
          sessVars, reqVars, regVars, queVars, cur, found, drop, dret,
          fault>>

\* The callback returns: deleteMutex, if it was taken, and pendingLock are
\* released.
EndCallback(w) ==
    LET s == cur[w] IN
    /\ pc[w] = "end"
    /\ deleteMutex' = [deleteMutex EXCEPT ![s] = IF @ = w THEN Null ELSE @]
    /\ pendingLock' = Null /\ requestid' = 0
    /\ cur' = [cur EXCEPT ![w] = Null]
    /\ found' = [found EXCEPT ![w] = Null]
    /\ Goto(w, "idle")
    /\ UNCHANGED <<net, sockVars, session, socketOf, logout, pending, asked,
          regVars, queVars, drop, dret, fault>>

-------------------------------------------------------------------------------
(* WorldSocket::Authenticate, called by the callback and by the world      *)
(* thread when it lets a queued client in.                                 *)

AfterAuthenticate(t) == IF t = World THEN "unlockSession" ELSE "end"

Authenticate(t) ==
    LET s == cur[t] IN
    /\ pc[t] = "authenticate"
    /\ mQueued' = [mQueued EXCEPT ![s] = FALSE]
    /\ Goto(t, IF mSession[s] THEN "register" ELSE AfterAuthenticate(t))
    /\ UNCHANGED <<net, requests, requestID, authPacket, authed, mSession,
          answer, sessVars, reqVars, regVars, queVars, cur, found, drop,
          dret, fault>>

\* From the second use of mSession to World::AddSession.
AddSession(t) ==
    LET s == cur[t] IN
    /\ pc[t] = "register"
    /\ IF ~mSession[s]
       THEN Crash("null session")
       ELSE /\ answer' = [answer EXCEPT ![s] = @ \cup {"in"}]
            /\ authPacket' = [authPacket EXCEPT ![s] = FALSE]
            /\ m_sessions' = [m_sessions EXCEPT ![AccountOf[s]] = s]
            /\ Goto(t, "global")
            /\ UNCHANGED <<net, requests, requestID, authed, mSession,
                  mQueued, sessVars, reqVars, updateSet, sessionsMutex,
                  todo, erasable, queVars, cur, found, drop, dret, fault>>

AddGlobalSession(t) ==
    LET s == cur[t] IN
    /\ pc[t] = "global"
    /\ IF ~mSession[s]
       THEN Crash("null session")
       ELSE /\ sessionsMutex = Null
            /\ updateSet' = updateSet \cup {s}
            /\ Goto(t, AfterAuthenticate(t))
            /\ UNCHANGED <<net, sockVars, sessVars, reqVars, m_sessions,
                  sessionsMutex, todo, erasable, queVars, cur, found, drop,
                  dret, fault>>

-------------------------------------------------------------------------------
(* The world thread: World::UpdateQueuedSessions, then UpdateSessions.     *)

UpdateQueuedSessions ==
    /\ pc[World] = "idle"
    /\ \/ /\ QueueTimerRuns
          /\ queueTimer' = queueTimer - 1
          /\ Goto(World, "startPass")
          /\ UNCHANGED queueMutex
       \/ /\ ~QueueTimerRuns /\ queueMutex \in {Null, World}
          /\ queueTimer' = QueueInterval
          /\ IF queue = <<>>
             THEN Goto(World, "startPass") /\ UNCHANGED queueMutex
             ELSE Goto(World, "queue") /\ queueMutex' = World
    /\ UNCHANGED <<net, sockVars, sessVars, reqVars, regVars, queue, doubles,
                   cur, found, drop, dret, fault>>

\* One turn of its loop: the first socket leaves the queue and is let in if
\* it still has a session.  When the loop ends, every socket left in the
\* queue is sent its position.
PopQueue ==
    /\ pc[World] = "queue"
    /\ \/ /\ QueueHasRoom /\ queue # <<>>
          /\ LET s == Head(queue) IN
             IF net[s] = "freed"
             THEN Crash("freed socket")
             ELSE /\ queue' = Tail(queue)
                  /\ IF mSession[s]
                     THEN /\ cur' = [cur EXCEPT ![World] = s]
                          /\ Goto(World, "lockSession")
                     ELSE UNCHANGED <<cur, pc>>
                  /\ UNCHANGED <<net, sockVars, sessVars, reqVars, regVars,
                        queueMutex, queueTimer, doubles, found, drop, dret,
                        fault>>
       \/ /\ ~QueueHasRoom \/ queue = <<>>
          /\ IF \E s \in Sockets : Queued(s) /\ net[s] = "freed"
             THEN Crash("freed socket")
             ELSE /\ ReleaseQueueMutex
                  /\ Goto(World, "startPass")
                  /\ UNCHANGED <<net, sockVars, sessVars, reqVars, regVars,
                        queue, queueTimer, doubles, cur, found, drop, dret,
                        fault>>

\* GetSession()->deleteMutex.Acquire(): GetSession() is read again.
LockSession ==
    LET s == cur[World] IN
    /\ pc[World] = "lockSession"
    /\ IF ~mSession[s]
       THEN Crash("null session")
       ELSE /\ deleteMutex[s] = Null
            /\ deleteMutex' = [deleteMutex EXCEPT ![s] = World]
            /\ Goto(World, "authenticate")
            /\ UNCHANGED <<net, sockVars, session, socketOf, logout,
                  reqVars, regVars, queVars, cur, found, drop, dret, fault>>

\* GetSession()->deleteMutex.Release(): and once more.
UnlockSession ==
    LET s == cur[World] IN
    /\ pc[World] = "unlockSession"
    /\ IF ~mSession[s]
       THEN Crash("null session")
       ELSE /\ deleteMutex' = [deleteMutex EXCEPT ![s] = Null]
            /\ cur' = [cur EXCEPT ![World] = Null]
            /\ Goto(World, "queue")
            /\ UNCHANGED <<net, sockVars, session, socketOf, logout,
                  reqVars, regVars, queVars, found, drop, dret, fault>>

\* UpdateSessions takes SessionsMutex for a whole pass over the sessions.
StartPass ==
    /\ pc[World] = "startPass" /\ sessionsMutex = Null
    /\ sessionsMutex' = World
    /\ todo' = updateSet
    /\ Goto(World, "pass")
    /\ UNCHANGED <<net, sockVars, sessVars, reqVars, m_sessions, updateSet,
          erasable, queVars, cur, found, drop, dret, fault>>

\* WorldSession::Update of one session, as far as its socket and its logout
\* timer go.  A session without a socket starts the timer and is deleted
\* when it runs out; with one, the timer only logs the player out; a client
\* silent for WORLDSOCKET_TIMEOUT is disconnected.
UpdateSession(s) ==
    /\ pc[World] = "pass" /\ s \in todo
    /\ todo' = todo \ {s}
    /\ \/ /\ ~socketOf[s] /\ logout[s] = "off"
          /\ logout' = StartLogoutTimer(s)
          /\ UNCHANGED <<net, updateSet, erasable, pc, cur, drop, dret>>
       \/ /\ ~socketOf[s] /\ logout[s] = "due"
          /\ erasable' = erasable \cup {s}
          /\ updateSet' = updateSet \ {s}
          /\ UNCHANGED <<net, logout, pc, cur, drop, dret>>
       \/ /\ socketOf[s] /\ logout[s] = "due"
          /\ logout' = [logout EXCEPT ![s] = "off"]
          /\ UNCHANGED <<net, updateSet, erasable, pc, cur, drop, dret>>
       \/ /\ socketOf[s] /\ logout[s] # "due"
          /\ cur' = [cur EXCEPT ![World] = s]
          /\ Disconnect(World, s, "pinged")
          /\ UNCHANGED <<logout, updateSet, erasable>>
       \/ /\ logout[s] # "due"
          /\ socketOf[s] \/ logout[s] = "armed"
          /\ UNCHANGED <<net, logout, updateSet, erasable, pc, cur, drop,
                         dret>>
    /\ UNCHANGED <<sockVars, session, socketOf, deleteMutex, reqVars,
          m_sessions, sessionsMutex, queVars, found, fault>>

\* The ping timeout continues after Disconnect().
PingTimedOut ==
    LET s == cur[World] IN
    /\ pc[World] = "pinged"
    /\ socketOf' = [socketOf EXCEPT ![s] = FALSE]
    /\ logout' = StartLogoutTimer(s)
    /\ cur' = [cur EXCEPT ![World] = Null]
    /\ Goto(World, "pass")
    /\ UNCHANGED <<net, sockVars, session, deleteMutex, reqVars, regVars,
          queVars, found, drop, dret, fault>>

\* The pass is over: SessionsMutex is released and DeleteSessions erases
\* the registry entries of the accounts of the sessions to delete...
EndPass ==
    /\ pc[World] = "pass" /\ todo = {}
    /\ sessionsMutex' = Null
    /\ m_sessions' = Unregister(erasable)
    /\ Goto(World, "deleteSessions")
    /\ UNCHANGED <<net, sockVars, sessVars, reqVars, updateSet, todo,
          erasable, queVars, cur, found, drop, dret, fault>>

\* ... and then deletes them, each under its deleteMutex.
DeleteSessions ==
    /\ pc[World] = "deleteSessions"
    /\ \/ \E s \in erasable :
            /\ deleteMutex[s] = Null
            /\ erasable' = erasable \ {s}
            /\ session' = [session EXCEPT ![s] = "freed"]
            /\ mSession' = [mSession EXCEPT ![s] = @ /\ ~socketOf[s]]
            /\ UNCHANGED pc
       \/ /\ erasable = {}
          /\ Goto(World, "idle")
          /\ UNCHANGED <<erasable, session, mSession>>
    /\ UNCHANGED <<net, requests, requestID, authPacket, authed, mQueued,
          answer, socketOf, logout, deleteMutex, reqVars, m_sessions,
          updateSet, sessionsMutex, todo, queVars, cur, found, drop, dret,
          fault>>

-------------------------------------------------------------------------------
(* The passing of time.  A handler is done with a socket or session long   *)
(* before its delay (SOCKET_GC_TIMEOUT, PLAYER_LOGOUT_DELAY) is over, and  *)
(* the socket's delay, 15 s, is over before the session's, 20 s.           *)

\* SocketGarbageCollector::Update deletes the socket.
FreeSocket(s) ==
    /\ net[s] = "gc"
    /\ \A t \in Threads : cur[t] # s /\ drop[t] # s
    /\ net' = [net EXCEPT ![s] = "freed"]
    /\ socketOf' = [socketOf EXCEPT ![s] = @ /\ ~mSession[s]]
    /\ mSession' = [mSession EXCEPT ![s] = FALSE]
    /\ UNCHANGED <<requests, requestID, authPacket, authed, mQueued, answer,
          session, logout, deleteMutex, reqVars, regVars, queVars, thrVars,
          fault>>

LogoutDelayEnds(s) ==
    /\ logout[s] = "armed"
    /\ \A t \in Threads : found[t] # s
    /\ net[s] = "freed"
    /\ logout' = [logout EXCEPT ![s] = "due"]
    /\ UNCHANGED <<net, sockVars, session, socketOf, deleteMutex, reqVars,
          regVars, queVars, thrVars, fault>>

-------------------------------------------------------------------------------
DisconnectStep(t) == UnlinkSession(t) \/ CancelRequest(t) \/ LeaveQueue(t)
AuthenticateStep(t) == Authenticate(t) \/ AddSession(t) \/ AddGlobalSession(t)

WorkerStep(w) ==
    \/ SetRequest(w) \/ SetPacket(w)
    \/ Callback(w) \/ Kick(w) \/ Kicked(w) \/ CreateSession(w) \/ Admit(w)
    \/ AddQueuedSocket(w) \/ MarkQueued(w) \/ EndCallback(w)
    \/ DisconnectStep(w) \/ AuthenticateStep(w)

WorldStep ==
    \/ UpdateQueuedSessions \/ PopQueue \/ LockSession \/ UnlockSession
    \/ StartPass \/ (\E s \in Sockets : UpdateSession(s)) \/ PingTimedOut
    \/ EndPass \/ DeleteSessions
    \/ DisconnectStep(World) \/ AuthenticateStep(World)

\* The world thread holds SessionsMutex and disconnects a client that is
\* silent, but has sent CMSG_AUTH_SESSION again when it was in the world: it
\* waits for pendingLock, whose owner waits for SessionsMutex.
Deadlocked ==
    LET s == drop[World] IN
    /\ pc[World] = "cancelRequest" /\ sessionsMutex = World
    /\ requestID[s] # 0 /\ requests[s] > 1
    /\ \E w \in Workers : pendingLock = w /\ pc[w] = "global"

Dead == fault # "none" \/ Deadlocked

Answered(s) == \E w \in Workers, n \in 1..requests[s] : HandleSessionInfo(w, s, n)

Next ==
    \/ /\ fault = "none"
       /\ \/ \E w \in Workers :
                \/ WorkerStep(w)
                \/ \E s \in Sockets : Drop(w, s) \/ HandleAuthSession(w, s)
          \/ WorldStep
          \/ \E s \in Sockets :
                Answered(s) \/ Accept(s) \/ FreeSocket(s) \/ LogoutDelayEnds(s)
    \/ Dead /\ UNCHANGED vars

Spec == Init /\ [][Next]_vars

\* Every thread is scheduled, the logon server answers, delays end.  A
\* worker that waits for a mutex of the world thread gets it in the end
\* (strong fairness): the world thread sleeps between its loops.
Fairness ==
    /\ WF_vars(fault = "none" /\ WorldStep)
    /\ \A w \in Workers : SF_vars(fault = "none" /\ WorkerStep(w))
    /\ \A s \in Sockets :
          /\ WF_vars(fault = "none" /\ Answered(s))
          /\ WF_vars(fault = "none" /\ FreeSocket(s))
          /\ WF_vars(fault = "none" /\ LogoutDelayEnds(s))

FairSpec == Spec /\ Fairness

-------------------------------------------------------------------------------
\* The requests and their answers are of their kinds.
RequestsTyped ==
    /\ requests \in [Sockets -> Nat]
    /\ requestID \in [Sockets -> Nat]
    /\ answer \in [Sockets -> SUBSET {"failed", "queued", "in"}]
    /\ pending \subseteq Sockets \X Nat
    /\ asked \subseteq Sockets \X Nat
    /\ requestid \in Nat

\* Every variable holds a value of its kind; a mutex is owned by a thread or free.
TypeOK ==
    /\ RequestsTyped
    /\ net \in [Sockets -> {"new", "open", "closing", "gc", "freed"}]
    /\ authPacket \in [Sockets -> BOOLEAN]
    /\ authed \in [Sockets -> BOOLEAN]
    /\ mSession \in [Sockets -> BOOLEAN]
    /\ mQueued \in [Sockets -> BOOLEAN]
    /\ session \in [Sockets -> {"none", "live", "freed"}]
    /\ socketOf \in [Sockets -> BOOLEAN]
    /\ logout \in [Sockets -> {"off", "armed", "due"}]
    /\ deleteMutex \in [Sockets -> Threads \cup {Null}]
    /\ pendingLock \in Threads \cup {Null}
    /\ m_sessions \in [Accounts -> Sockets \cup {Null}]
    /\ updateSet \subseteq Sockets
    /\ sessionsMutex \in {World, Null}
    /\ todo \subseteq Sockets /\ erasable \subseteq Sockets
    /\ queue \in Seq(Sockets)
    /\ queueMutex \in {World, Null}
    /\ queueTimer \in Nat
    /\ doubles \subseteq Sockets
    /\ pc \in [Threads -> PCs]
    /\ cur \in [Threads -> Sockets \cup {Null}]
    /\ found \in [Threads -> Sockets \cup {Null}]
    /\ drop \in [Threads -> Sockets \cup {Null}]
    /\ dret \in [Threads -> {"idle", "kicked", "end", "pinged"}]
    /\ fault \in Faults

-------------------------------------------------------------------------------
(* Safety *)

\* No session that was never made, or was deleted, can be reached from the
\* registry FindSession reads or from the sets the world thread walks,
\* whichever sessions of its account come and go while it is deleted.
NoDanglingSession ==
    \A s \in Sockets : session[s] # "live" =>
        /\ \A a \in Accounts : m_sessions[a] # s
        /\ s \notin updateSet \cup todo \cup erasable

\* Nor from its socket: OnDisconnect, the destructors of the two and the
\* ping timeout between them always take back the socket's pointer.
NoDanglingPointer ==
    \A s \in Sockets : mSession[s] => session[s] = "live"

\* The socket of a pending request is not yet given to the garbage collector,
\* so the answer of the logon server never finds a freed socket, unless the
\* socket has made another request since, as OnDisconnect takes back the last
\* only, or made this one when it had been let in on an earlier one: then the
\* world thread may run OnDisconnect before the number is stored.
PendingConnected ==
    \A s \in Sockets : \A n \in 1..requests[s] :
        <<s, n>> \in pending =>
            net[s] \notin {"gc", "freed"} \/ n < requests[s] \/ authed[s]

\* Nor is a socket in the login queue: "Remove from queued sockets"
\* (OnDisconnect) always removes it.
QueueConnected == \A s \in Sockets : Queued(s) => net[s] \notin {"gc", "freed"}

\* No pointer to a session or a socket that is gone is left: the three places
\* OnDisconnect has to clean up are clean in time, but for the requests of a
\* socket that makes several.
NoStalePointer == NoDanglingPointer /\ PendingConnected /\ QueueConnected

\* The check of the player limit and the registration of the session are
\* apart, and two threads admit clients; they exceed the limit by at most
\* one, however many workers there are, because callbacks hold pendingLock.
\* A limit of 0 lets in GMs only.
PlayerLimitKept ==
    Cardinality({a \in Accounts \ GMs : m_sessions[a] # Null})
        <= IF PlayerLimit = 0 THEN 0 ELSE PlayerLimit + 1

\* A session that is being updated is the one FindSession finds for its
\* account, so that a second login can see it and disconnect it, unless the
\* account got another while one was in the login queue, where FindSession does
\* not look.
UpdatedIsRegistered ==
    \A s \in updateSet : m_sessions[AccountOf[s]] = s \/ s \in doubles

-------------------------------------------------------------------------------
(* Liveness; each says "or the server has stopped".                        *)

\* A handler of a worker ends: no thread waits for ever for pendingLock,
\* queueMutex, SessionsMutex or a deleteMutex, but in that one circle.
HandlersEnd ==
    \A w \in Workers : pc[w] # "idle" ~> (pc[w] = "idle" \/ Dead)

\* A client whose request the logon server will answer, before any other of
\* its requests, is told something or disconnected, unless it makes another
\* request in the meantime.
EveryLoginAnswered ==
    \A s \in Sockets : \A n \in 1..MaxRequests[s] :
        (<<s, n>> \in asked /\ ~authed[s] /\ \A k \in 1..(n - 1) : <<s, k>> \notin asked)
          ~> (answer[s] # {} \/ net[s] # "open" \/ requests[s] > n \/ Dead)

\* A session whose client has gone is deleted.
DeadSessionsDeleted ==
    \A s \in Sockets :
        (s \in updateSet /\ ~socketOf[s]) ~> (session[s] = "freed" \/ Dead)

\* Nobody stays in the queue for ever while the server has room.
QueueMoves ==
    \A s \in Sockets :
        []<>(~Queued(s) \/ SessionCount >= PlayerLimit \/ Dead)
===============================================================================
