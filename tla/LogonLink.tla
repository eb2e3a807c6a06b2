----------------------------- MODULE LogonLink -----------------------------
(***************************************************************************)
(* The link between a world server and the logon server (LogonCommHandler, *)
(* LogonCommClient, LogonCommServer and the InformationCore of             *)
(* AccountCache).                                                          *)
(*                                                                         *)
(* The watcher thread of the world server keeps one connection: it opens   *)
(* it, proves the password, registers its realms, and starts again when    *)
(* the connection is gone.  The socket worker of the world server handles  *)
(* what comes back and takes mapLock to forget a connection that dropped.  *)
(* The logon server keeps a list of realms, online while the socket that   *)
(* registered them is connected.                                           *)
(*                                                                         *)
(* Connections break without a word, both servers crash and start again,   *)
(* and answers may be late; each of these costs one of Faults.             *)
(***************************************************************************)
EXTENDS Naturals, Sequences, FiniteSets, Functions

CONSTANTS
    Conns,    \* connections, used again once both ends are closed
    Realms,   \* names of the realms of the world server
    Faults,   \* how many faults there can be
    Overtaking, \* what the world server sent on a connection it has closed may
                \* arrive later than what it sends on the next one
    Null

ASSUME LinkAssumption == Null \notin Conns /\ Faults \in Nat /\ IsFiniteSet(Realms)
                          /\ Overtaking \in BOOLEAN

VARIABLES
    \* the world server
    watcher,       \* "start", "rest", "challenge" (connected), "auth" and
                   \* "register" (waiting for it)
    mapLock,       \* the watcher holds it
    attempt,       \* the connection the watcher is busy with
    link,          \* logons[server], or Null
    Registered,
    wopen,         \* connections whose socket is connected
    ident,         \* connections whose socket has _id set
    authenticated, \* connection -> 0, 1 or 2 (0xFFFFFFFF)
    worker,        \* <<"wait">>, <<"ack", c>> (in HandleRegister), <<"drop", c>>
                   \* (in ConnectionDropped)
    \* the logon server
    up,
    key,           \* it has the password of the world server
    lopen,         \* connections whose socket is connected
    lauth,         \* those that are authenticated
    server_ids,    \* connection -> ids of the realms it registered
    m_realms,      \* id -> name and whether it is online
    realmhigh,
    \* the network
    toLogon, toWorld,
    broken,        \* connections on which nothing passes any more
    faults

watcherVars == <<watcher, mapLock, attempt>>
worldVars == <<watcherVars, link, Registered, wopen, ident, authenticated, worker>>
realmVars == <<lauth, server_ids, m_realms, realmhigh>>
logonVars == <<up, key, lopen, realmVars>>
netVars == <<toLogon, toWorld, broken, faults>>
vars == <<worldVars, logonVars, netVars>>

NoMessages == [c \in Conns |-> <<>>]

Init ==
    /\ watcher = "start" /\ mapLock = FALSE /\ attempt = Null
    /\ link = Null /\ Registered = FALSE
    /\ wopen = {} /\ ident = {} /\ authenticated = [c \in Conns |-> 0]
    /\ worker = <<"wait">>
    /\ up = TRUE /\ key = TRUE /\ lopen = {} /\ lauth = {}
    /\ server_ids = [c \in Conns |-> {}]
    /\ m_realms = <<>> /\ realmhigh = 0
    /\ toLogon = NoMessages /\ toWorld = NoMessages
    /\ broken = {} /\ faults = 0

\* One of the faults happens.
Fault == faults < Faults /\ faults' = faults + 1

\* Nobody answers on c in time: the other end is gone, or, as a fault, slow.
NoAnswer(c) ==
    \/ (c \in broken \/ c \notin lopen) /\ UNCHANGED faults
    \/ c \in lopen \ broken /\ Fault

\* Operators named ..._bug are the mistakes the properties are tested
\* against; no specification uses them.

-------------------------------------------------------------------------------
(* The watcher: ConnectAll and UpdateSockets call Connect.                 *)

\* Connections both ends have forgotten.
Free == {c \in Conns \ (wopen \cup lopen) : c # link /\ c \notin Range(worker)}

\* Connect up to SendChallenge; without a logon server there is no socket.
Connect(locked) ==
    /\ Registered' = FALSE
    /\ \/ /\ up
          /\ \E c \in Free :
                /\ link' = c /\ attempt' = c
                /\ wopen' = wopen \cup {c} /\ lopen' = lopen \cup {c}
                /\ ident' = ident \ {c} /\ broken' = broken \ {c}
                /\ authenticated' = [authenticated EXCEPT ![c] = 0]
                /\ lauth' = lauth \ {c}
                /\ server_ids' = [server_ids EXCEPT ![c] = {}]
                /\ toLogon' = [toLogon EXCEPT ![c] = <<>>]
                /\ toWorld' = [toWorld EXCEPT ![c] = <<>>]
          /\ watcher' = "challenge" /\ mapLock' = locked
       \/ /\ ~up
          /\ link' = Null /\ watcher' = "rest" /\ mapLock' = FALSE
          /\ UNCHANGED <<attempt, wopen, lopen, ident, broken, authenticated,
                         lauth, server_ids, toLogon, toWorld>>
    /\ UNCHANGED <<worker, up, key, m_realms, realmhigh, faults>>

ConnectAll == watcher = "start" /\ Connect(FALSE)
Reconnect == watcher = "rest" /\ link = Null /\ Connect(TRUE)

\* What the world server sends on a connected socket.
SendAll(c, messages) ==
    toLogon' = IF c \in wopen THEN [toLogon EXCEPT ![c] = @ \o messages] ELSE toLogon

SendChallenge ==
    /\ watcher = "challenge"
    /\ SendAll(attempt, <<"challenge">>)
    /\ watcher' = "auth"
    /\ UNCHANGED <<mapLock, attempt, link, Registered, wopen, ident,
                   authenticated, worker, logonVars, toWorld, broken, faults>>

\* ClientConnected finds the new socket in logons and sends its request
\* before the challenge.
EarlyRequest ==
    /\ watcher = "challenge" /\ link = attempt /\ Fault
    /\ SendAll(attempt, <<"early">>)
    /\ UNCHANGED <<worldVars, logonVars, toWorld, broken>>

Close(c) == wopen' = wopen \ {c} /\ toWorld' = [toWorld EXCEPT ![c] = <<>>]

\* conn->_id = server->ID
WithId_bug(c) == ident
WithId(c) == ident \cup {c}

\* RequestAddition, in some order.
Authenticated ==
    /\ watcher = "auth" /\ authenticated[attempt] = 1
    /\ ident' = WithId(attempt)
    /\ \E order \in [1..Cardinality(Realms) -> Realms] :
          /\ IsInjective(order)
          /\ SendAll(attempt, [i \in DOMAIN order |-> <<"register", order[i]>>])
    /\ watcher' = "register"
    /\ UNCHANGED <<mapLock, attempt, link, Registered, wopen, authenticated,
                   worker, logonVars, toWorld, broken, faults>>

RegistrationDone ==
    /\ watcher = "register" /\ Registered
    /\ watcher' = "rest" /\ mapLock' = FALSE /\ attempt' = Null
    /\ UNCHANGED <<link, Registered, wopen, ident, authenticated, worker,
                   logonVars, netVars>>

\* The password is refused, or one of the two waits of 10 seconds runs out.
\* Nobody answers either when the worker waits for the watcher's mapLock or
\* the logon server for the rest of what an early request seemed to announce.
Stuck(c) ==
    \/ worker[1] = "drop" /\ mapLock
    \/ toLogon[c] # <<>> /\ Head(toLogon[c]) = "early"

ConnectFails ==
    /\ \/ watcher = "auth" /\ authenticated[attempt] = 2 /\ UNCHANGED faults
       \/ /\ \/ watcher = "auth" /\ authenticated[attempt] = 0
             \/ watcher = "register" /\ ~Registered
          /\ \/ Stuck(attempt) /\ UNCHANGED faults
             \/ NoAnswer(attempt)
    /\ link' = Null
    /\ Close(attempt)
    /\ watcher' = "rest" /\ mapLock' = FALSE /\ attempt' = Null
    /\ UNCHANGED <<Registered, ident, authenticated, worker, logonVars, toLogon,
                   broken>>

\* UpdateSockets on a connection that is closed, or has sent no pong.
DropLink ==
    /\ watcher = "rest" /\ link # Null
    /\ \/ link \notin wopen /\ UNCHANGED faults
       \/ NoAnswer(link)
    /\ ident' = ident \ {link}
    /\ Close(link)
    /\ link' = Null
    /\ UNCHANGED <<watcherVars, Registered, authenticated, worker, logonVars,
                   toLogon, broken>>

-------------------------------------------------------------------------------
(* The worker of the world server.                                         *)

HandleAuthResponse(c) ==
    /\ worker = <<"wait">> /\ c \in wopen \ broken
    /\ toWorld[c] # <<>> /\ Head(toWorld[c]) \in {"ok", "fail"}
    /\ authenticated' = [authenticated EXCEPT
                           ![c] = IF Head(toWorld[c]) = "ok" THEN 1 ELSE 2]
    /\ toWorld' = [toWorld EXCEPT ![c] = Tail(@)]
    /\ UNCHANGED <<watcherVars, link, Registered, wopen, ident, worker,
                   logonVars, toLogon, broken, faults>>

HandleRegistered(c) ==
    /\ worker = <<"wait">> /\ c \in wopen \ broken
    /\ toWorld[c] # <<>> /\ Head(toWorld[c]) = "registered"
    /\ worker' = <<"ack", c>>
    /\ toWorld' = [toWorld EXCEPT ![c] = Tail(@)]
    /\ UNCHANGED <<watcherVars, link, Registered, wopen, ident, authenticated,
                   logonVars, toLogon, broken, faults>>

\* AdditionAck looks for the server of the socket's _id, which is 0 once
\* UpdateSockets has given the socket up.
AdditionAck ==
    /\ worker[1] = "ack"
    /\ Registered' = (Registered \/ worker[2] \in ident)
    /\ worker' = <<"wait">>
    /\ UNCHANGED <<watcherVars, link, wopen, ident, authenticated, logonVars, netVars>>

\* The worker learns that the connection is gone: Socket::Disconnect.
WorldNotices(c) ==
    /\ worker = <<"wait">> /\ c \in wopen
    /\ c \in broken \/ c \notin lopen
    /\ Close(c)
    /\ worker' = IF c \in ident THEN <<"drop", c>> ELSE worker
    /\ UNCHANGED <<watcherVars, link, Registered, ident, authenticated,
                   logonVars, toLogon, broken, faults>>

MapLockFree_bug == TRUE
MapLockFree == ~mapLock

ConnectionDropped ==
    /\ worker[1] = "drop" /\ MapLockFree
    /\ link' = Null
    /\ worker' = <<"wait">>
    /\ UNCHANGED <<watcherVars, Registered, wopen, ident, authenticated,
                   logonVars, netVars>>

-------------------------------------------------------------------------------
(* The logon server.                                                       *)

Arrived(c) == c \in lopen \ broken /\ toLogon[c] # <<>>

Reading(c) ==
    /\ up /\ Arrived(c)
    /\ Overtaking \/ c \notin wopen \/ \A d \in Conns \ wopen : ~Arrived(d)

HandleAuthChallenge(c) ==
    /\ Reading(c) /\ Head(toLogon[c]) = "challenge"
    /\ lauth' = IF key THEN lauth \cup {c} ELSE lauth
    /\ toLogon' = [toLogon EXCEPT ![c] = Tail(@)]
    /\ toWorld' = IF c \in wopen
                  THEN [toWorld EXCEPT ![c] = Append(@, IF key THEN "ok" ELSE "fail")]
                  ELSE toWorld
    /\ UNCHANGED <<worldVars, up, key, lopen, server_ids, m_realms, realmhigh,
                   broken, faults>>

IdsNamed(r) == {id \in DOMAIN m_realms : m_realms[id].name = r}

\* "socket timout will DC old id after a while, make sure it's not the one we
\* restarted"
NewId_bug(r) == IF IdsNamed(r) # {} THEN CHOOSE id \in IdsNamed(r) : TRUE
                ELSE realmhigh + 1
NewId(r) == realmhigh + 1

Removed(r) == IdsNamed(r)

HandleRegister(c) ==
    LET r == Head(toLogon[c])[2]
        id == NewId(r)
        kept == DOMAIN m_realms \ Removed(r) IN
    /\ Reading(c) /\ c \in lauth /\ Head(toLogon[c]) \in {"register"} \X Realms
    /\ m_realms' = [i \in kept \cup {id} |->
                      IF i = id THEN [name |-> r, online |-> TRUE] ELSE m_realms[i]]
    /\ realmhigh' = realmhigh + 1
    /\ server_ids' = [server_ids EXCEPT ![c] = @ \cup {id}]
    /\ toLogon' = [toLogon EXCEPT ![c] = Tail(@)]
    /\ toWorld' = IF c \in wopen THEN [toWorld EXCEPT ![c] = Append(@, "registered")]
                  ELSE toWorld
    /\ UNCHANGED <<worldVars, up, key, lopen, lauth, broken, faults>>

\* SetRealmOffline for what the socket has registered.
Offline(c) ==
    m_realms' = [id \in DOMAIN m_realms |->
                   IF id \in server_ids[c] THEN [m_realms[id] EXCEPT !.online = FALSE]
                   ELSE m_realms[id]]

LogonCloses(c) ==
    /\ Offline(c)
    /\ lopen' = lopen \ {c} /\ lauth' = lauth \ {c}
    /\ server_ids' = [server_ids EXCEPT ![c] = {}]
    /\ toLogon' = [toLogon EXCEPT ![c] = <<>>]
    /\ UNCHANGED <<worldVars, up, key, realmhigh, toWorld, broken, faults>>

\* A packet other than the challenge on a socket that is not authenticated.
HandleInvalid(c) ==
    /\ Reading(c) /\ c \notin lauth /\ Head(toLogon[c]) # "challenge"
    /\ LogonCloses(c)

LogonNotices(c) == c \in lopen /\ c \notin wopen /\ c \notin broken /\ LogonCloses(c)

\* TimeoutSockets, or an error on the socket.
TimeoutSocket(c) == c \in lopen /\ c \in broken /\ LogonCloses(c)

-------------------------------------------------------------------------------
(* Faults                                                                  *)

Break(c) ==
    /\ Fault /\ c \in (wopen \cap lopen) \ broken
    /\ broken' = broken \cup {c}
    /\ UNCHANGED <<worldVars, logonVars, toLogon, toWorld>>

LogonCrashes ==
    /\ Fault /\ up
    /\ up' = FALSE
    /\ lopen' = {} /\ lauth' = {} /\ server_ids' = [c \in Conns |-> {}]
    /\ m_realms' = <<>> /\ realmhigh' = 0
    /\ toLogon' = NoMessages
    /\ UNCHANGED <<worldVars, key, toWorld, broken>>

\* It may have been given another password, or the right one.
LogonStarts ==
    /\ ~up
    /\ up' = TRUE
    /\ key' \in BOOLEAN
    /\ UNCHANGED <<worldVars, lopen, realmVars, netVars>>

\* The world server starts again at once.  Its sockets are closed; on some of
\* them the logon server hears nothing of it.
WorldCrashes ==
    /\ Fault
    /\ \E silent \in SUBSET wopen : broken' = broken \cup silent
    /\ watcher' = "start" /\ mapLock' = FALSE /\ attempt' = Null
    /\ link' = Null /\ Registered' = FALSE
    /\ wopen' = {} /\ ident' = {} /\ worker' = <<"wait">>
    /\ authenticated' = [c \in Conns |-> 0]
    /\ toWorld' = NoMessages
    /\ UNCHANGED <<logonVars, toLogon>>

-------------------------------------------------------------------------------
Watcher ==
    \/ ConnectAll \/ Reconnect \/ SendChallenge \/ Authenticated
    \/ RegistrationDone \/ ConnectFails \/ DropLink
Worker ==
    \/ \E c \in Conns : HandleAuthResponse(c) \/ HandleRegistered(c) \/ WorldNotices(c)
    \/ AdditionAck \/ ConnectionDropped
LogonHandles(c) ==
    HandleAuthChallenge(c) \/ HandleRegister(c) \/ LogonNotices(c) \/ TimeoutSocket(c)

Next ==
    \/ Watcher \/ Worker \/ EarlyRequest
    \/ \E c \in Conns : LogonHandles(c) \/ HandleInvalid(c) \/ Break(c)
    \/ LogonCrashes \/ LogonStarts \/ WorldCrashes

Spec == Init /\ [][Next]_vars

\* Both threads of the world server and the sockets of the logon server go on,
\* and a logon server that crashed is started again.  The watcher sleeps for
\* five seconds without mapLock between two attempts.
FairSpec ==
    /\ Spec
    /\ WF_vars(Watcher) /\ WF_vars(Worker) /\ SF_vars(ConnectionDropped)
    /\ WF_vars(LogonStarts)
    /\ \A c \in Conns : WF_vars(LogonHandles(c))

-------------------------------------------------------------------------------
(* Properties.                                                             *)

Messages == {"challenge", "early"} \cup ({"register"} \X Realms)

\* Types.
TypeOK ==
    /\ watcher \in {"start", "rest", "challenge", "auth", "register"}
    /\ mapLock \in BOOLEAN
    /\ attempt \in Conns \cup {Null} /\ (attempt = Null <=> watcher \in {"start", "rest"})
    /\ link \in Conns \cup {Null} /\ Registered \in BOOLEAN
    /\ wopen \subseteq Conns /\ ident \subseteq Conns
    /\ authenticated \in [Conns -> 0..2]
    /\ worker \in {<<"wait">>} \cup ({"ack", "drop"} \X Conns)
    /\ up \in BOOLEAN /\ key \in BOOLEAN
    /\ lopen \subseteq Conns /\ lauth \subseteq lopen
    /\ realmhigh \in Nat
    /\ server_ids \in [Conns -> SUBSET (1..realmhigh)]
    /\ \A id \in DOMAIN m_realms :
          id \in 1..realmhigh /\ m_realms[id] \in [name : Realms, online : BOOLEAN]
    /\ toLogon \in [Conns -> Seq(Messages)]
    /\ toWorld \in [Conns -> Seq({"ok", "fail", "registered"})]
    /\ broken \subseteq Conns /\ faults \in 0..Faults

\* The list the clients are shown has every realm once, whatever restarts and
\* late registrations there have been.
OneRealmPerName ==
    \A i, j \in DOMAIN m_realms : m_realms[i].name = m_realms[j].name => i = j

\* A realm is shown online exactly while the socket that registered it is
\* connected: the end of an old socket never takes the realm offline that has
\* registered again on a new one, and no realm stays online without a socket.
OnlineWithSocket ==
    \A id \in DOMAIN m_realms :
        m_realms[id].online <=> \E c \in lopen : id \in server_ids[c]

\* The list of realms is right.
RealmList == TypeOK /\ OneRealmPerName /\ OnlineWithSocket

\* A watcher at rest has not forgotten a connection that is open: the drop of
\* an older one never clears the entry of the new one.
NoForgottenConnection ==
    watcher = "rest" => wopen \subseteq {link}

Linked ==
    /\ link # Null /\ link \in wopen \cap lopen /\ Registered
    /\ \A r \in Realms : \E id \in server_ids[link] :
          id \in DOMAIN m_realms /\ m_realms[id] = [name |-> r, online |-> TRUE]

\* After the last fault the world server is linked again, for good, and all its
\* realms are online; unless the logon server has the wrong password.
LinkRestored == <>[]key => <>[]Linked
=============================================================================
