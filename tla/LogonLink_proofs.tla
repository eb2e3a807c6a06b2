-------------------------- MODULE LogonLink_proofs --------------------------
(***************************************************************************)
(* The list of realms is right and no connection is forgotten, for any     *)
(* number of connections, realms and faults, and whether or not what a     *)
(* closed connection has sent is overtaken.                                *)
(***************************************************************************)
EXTENDS LogonLink, FiniteSetTheorems, SequenceTheorems, TLAPS

\* An id is registered by one connection.
OwnIds ==
    \A c, d \in Conns : c # d => server_ids[c] \cap server_ids[d] = {}

\* The world server has one connection open, the one it knows of and, during
\* an attempt, the one it is busy with.
OneOpen ==
    /\ wopen \subseteq {link}
    /\ attempt # Null => wopen \subseteq {attempt}
    /\ watcher = "start" => wopen = {} /\ worker = <<"wait">>

\* While the worker waits to forget a connection no other is open, but one
\* whose attempt can go no further: its answer is not handled.
DropsOld ==
    worker[1] = "drop" =>
        \/ wopen = {}
        \/ /\ mapLock /\ watcher \in {"challenge", "auth"}
           /\ authenticated[attempt] = 0

IInv == TypeOK /\ OneRealmPerName /\ OnlineWithSocket /\ OwnIds /\ OneOpen /\ DropsOld

-----------------------------------------------------------------------------
USE LinkAssumption DEF LinkAssumption

\* TypeOK in parts.
WorldTypes ==
    /\ watcher \in {"start", "rest", "challenge", "auth", "register"}
    /\ mapLock \in BOOLEAN
    /\ attempt \in Conns \cup {Null} /\ (attempt = Null <=> watcher \in {"start", "rest"})
    /\ link \in Conns \cup {Null} /\ Registered \in BOOLEAN
    /\ wopen \subseteq Conns /\ ident \subseteq Conns
    /\ authenticated \in [Conns -> 0..2]
    /\ worker \in {<<"wait">>} \cup ({"ack", "drop"} \X Conns)

LogonTypes ==
    /\ up \in BOOLEAN /\ key \in BOOLEAN
    /\ lopen \subseteq Conns /\ lauth \subseteq lopen
    /\ realmhigh \in Nat
    /\ server_ids \in [Conns -> SUBSET (1..realmhigh)]

RealmTypes ==
    \A id \in DOMAIN m_realms :
        id \in 1..realmhigh /\ m_realms[id] \in [name : Realms, online : BOOLEAN]

NetTypes ==
    /\ toLogon \in [Conns -> Seq(Messages)]
    /\ toWorld \in [Conns -> Seq({"ok", "fail", "registered"})]
    /\ broken \subseteq Conns /\ faults \in 0..Faults

LEMMA Types == TypeOK <=> WorldTypes /\ LogonTypes /\ RealmTypes /\ NetTypes
  BY DEF TypeOK, WorldTypes, LogonTypes, RealmTypes, NetTypes

LEMMA TypesNext == (WorldTypes /\ LogonTypes /\ RealmTypes /\ NetTypes)' => TypeOK'
  BY DEF TypeOK, WorldTypes, LogonTypes, RealmTypes, NetTypes

\* The list of realms does not depend on the world server and the network.
LEMMA RealmsStay ==
    ASSUME OneRealmPerName, OnlineWithSocket, OwnIds,
           UNCHANGED <<lopen, server_ids, m_realms>>
    PROVE  (OneRealmPerName /\ OnlineWithSocket /\ OwnIds)'
  BY DEF OneRealmPerName, OnlineWithSocket, OwnIds

\* Nor does the world server's part depend on the logon server.
LEMMA OpenStays ==
    ASSUME OneOpen, DropsOld, UNCHANGED worldVars
    PROVE  (OneOpen /\ DropsOld)'
  BY DEF OneOpen, DropsOld, worldVars, watcherVars

\* The worker and what it has in hand.
LEMMA Worker1 ==
    ASSUME TypeOK
    PROVE  /\ worker[1] \in {"wait", "ack", "drop"}
           /\ worker[1] = "wait" => worker = <<"wait">>
           /\ worker[1] # "wait" => worker[2] \in Conns
  BY DEF TypeOK

LEMMA InitIInv == Init => IInv
  <1> SUFFICES ASSUME Init PROVE IInv
    OBVIOUS
  <1> USE DEF Init
  <1>1. TypeOK
    <2>1. toLogon \in [Conns -> Seq(Messages)] /\ toWorld \in [Conns -> Seq({"ok", "fail", "registered"})]
      BY EmptySeq DEF NoMessages
    <2>2. DOMAIN m_realms = {}
      OBVIOUS
    <2>3. server_ids \in [Conns -> SUBSET (1 .. realmhigh)]
      OBVIOUS
    <2>7. authenticated \in [Conns -> 0..2]
      OBVIOUS
    <2>8. worker \in {<<"wait">>} \cup ({"ack", "drop"} \X Conns)
      OBVIOUS
    <2>9. WorldTypes
      BY <2>7, <2>8 DEF WorldTypes
    <2>4. LogonTypes
      BY <2>3 DEF LogonTypes
    <2>5. RealmTypes
      BY <2>2 DEF RealmTypes
    <2>6. NetTypes
      BY <2>1 DEF NetTypes
    <2> QED BY <2>4, <2>5, <2>6, <2>9, Types
  <1>2. OneRealmPerName /\ OnlineWithSocket
    BY DEF OneRealmPerName, OnlineWithSocket
  <1>3. OwnIds /\ OneOpen /\ DropsOld
    BY DEF OwnIds, OneOpen, DropsOld
  <1> QED BY <1>1, <1>2, <1>3 DEF IInv

-----------------------------------------------------------------------------
(* The watcher. *)

\* A new connection is open at both ends and has registered nothing.
LEMMA ConnectStep ==
    ASSUME IInv, NEW locked \in BOOLEAN, Connect(locked),
           wopen = {}, watcher \in {"start", "rest"},
           locked \/ worker = <<"wait">>
    PROVE  IInv'
  <1> USE DEF IInv
  <1>1. CASE ~up
    <2>1. /\ UNCHANGED <<lopen, server_ids, m_realms, attempt, wopen, worker>>
          /\ link' = Null /\ watcher' = "rest" /\ mapLock' = FALSE
      BY <1>1 DEF Connect
    <2>2. TypeOK'
      BY <1>1, <2>1 DEF Connect, TypeOK
    <2>3. (OneOpen /\ DropsOld)'
      BY <2>1 DEF OneOpen, DropsOld, TypeOK
    <2> QED BY <2>1, <2>2, <2>3, RealmsStay
  <1>2. CASE up
    <2>1. PICK c \in Free :
            /\ link' = c /\ attempt' = c
            /\ wopen' = wopen \cup {c} /\ lopen' = lopen \cup {c}
            /\ ident' = ident \ {c} /\ broken' = broken \ {c}
            /\ authenticated' = [authenticated EXCEPT ![c] = 0]
            /\ lauth' = lauth \ {c}
            /\ server_ids' = [server_ids EXCEPT ![c] = {}]
            /\ toLogon' = [toLogon EXCEPT ![c] = <<>>]
            /\ toWorld' = [toWorld EXCEPT ![c] = <<>>]
      BY <1>2 DEF Connect
    <2>2. watcher' = "challenge" /\ mapLock' = locked /\ Registered' = FALSE
          /\ UNCHANGED <<worker, up, key, m_realms, realmhigh, faults>>
      BY <1>2 DEF Connect
    <2>3. c \in Conns /\ c \notin lopen
      BY DEF Free
    <2>4. TypeOK'
      <3>1. /\ toLogon' \in [Conns -> Seq(Messages)]
            /\ toWorld' \in [Conns -> Seq({"ok", "fail", "registered"})]
        BY <2>1, <2>3, EmptySeq DEF TypeOK
      <3>2. WorldTypes'
        <4>1. worker' \in {<<"wait">>} \cup ({"ack", "drop"} \X Conns)
          BY <2>2 DEF TypeOK
        <4>2. authenticated' \in [Conns -> 0..2]
          BY <2>1, <2>3 DEF TypeOK
        <4> QED BY <2>1, <2>2, <2>3, <4>1, <4>2, Types DEF WorldTypes
      <3>3. LogonTypes'
        BY <2>1, <2>2, <2>3, Types DEF LogonTypes
      <3>4. RealmTypes'
        BY <2>2, Types DEF RealmTypes
      <3>5. NetTypes'
        BY <2>1, <2>2, <3>1, Types DEF NetTypes
      <3> QED BY <3>2, <3>3, <3>4, <3>5, TypesNext
    <2>5. OneRealmPerName'
      BY <2>2 DEF OneRealmPerName
    <2>6. OnlineWithSocket'
      BY <2>1, <2>2, <2>3 DEF OnlineWithSocket, TypeOK
    <2>7. OwnIds'
      BY <2>1, <2>3 DEF OwnIds, TypeOK
    <2>8. (OneOpen /\ DropsOld)'
      BY <2>1, <2>2, <2>3 DEF OneOpen, DropsOld, TypeOK
    <2> QED BY <2>4, <2>5, <2>6, <2>7, <2>8
  <1> QED BY <1>1, <1>2

LEMMA ConnectAllStep == ASSUME IInv, ConnectAll PROVE IInv'
  BY ConnectStep DEF ConnectAll, IInv, OneOpen

LEMMA ReconnectStep == ASSUME IInv, Reconnect PROVE IInv'
  <1>1. wopen = {}
    BY DEF Reconnect, IInv, OneOpen, TypeOK
  <1> QED BY <1>1, ConnectStep DEF Reconnect

\* What is sent joins the messages of the connection.
LEMMA Sent ==
    ASSUME TypeOK, NEW c \in Conns, NEW messages \in Seq(Messages),
           SendAll(c, messages)
    PROVE  toLogon' \in [Conns -> Seq(Messages)]
  <1>1. toLogon[c] \o messages \in Seq(Messages)
    BY ConcatProperties DEF TypeOK
  <1> QED BY <1>1 DEF SendAll, TypeOK

LEMMA SendChallengeStep == ASSUME IInv, SendChallenge PROVE IInv'
  <1> USE DEF IInv
  <1>1. attempt \in Conns
    BY DEF SendChallenge, TypeOK
  <1>2. toLogon' \in [Conns -> Seq(Messages)]
    <2>1. <<"challenge">> \in Seq(Messages)
      BY DEF Messages
    <2> QED BY <1>1, <2>1, Sent DEF SendChallenge
  <1>3. TypeOK'
    BY <1>2 DEF SendChallenge, TypeOK, logonVars, realmVars
  <1>4. (OneOpen /\ DropsOld)'
    BY DEF SendChallenge, OneOpen, DropsOld
  <1> QED BY <1>3, <1>4, RealmsStay DEF SendChallenge, logonVars, realmVars

LEMMA EarlyRequestStep == ASSUME IInv, EarlyRequest PROVE IInv'
  <1> USE DEF IInv
  <1>1. attempt \in Conns
    BY DEF EarlyRequest, TypeOK
  <1>2. toLogon' \in [Conns -> Seq(Messages)]
    <2>1. <<"early">> \in Seq(Messages)
      BY DEF Messages
    <2> QED BY <1>1, <2>1, Sent DEF EarlyRequest
  <1>3. TypeOK'
    BY <1>2 DEF EarlyRequest, Fault, TypeOK, worldVars, watcherVars, logonVars, realmVars
  <1> QED BY <1>3, RealmsStay, OpenStays DEF EarlyRequest, logonVars, realmVars

LEMMA AuthenticatedStep == ASSUME IInv, Authenticated PROVE IInv'
  <1> USE DEF IInv
  <1>1. attempt \in Conns
    BY DEF Authenticated, TypeOK
  <1>2. toLogon' \in [Conns -> Seq(Messages)]
    <2>1. PICK order \in [1 .. Cardinality(Realms) -> Realms] :
            SendAll(attempt, [i \in DOMAIN order |-> <<"register", order[i]>>])
      BY DEF Authenticated
    <2>2. Cardinality(Realms) \in Nat
      BY FS_CardinalityType
    <2>3. [i \in DOMAIN order |-> <<"register", order[i]>>] \in Seq(Messages)
      BY <2>2 DEF Messages
    <2> QED BY <1>1, <2>1, <2>3, Sent
  <1>3. TypeOK'
    BY <1>1, <1>2 DEF Authenticated, WithId, TypeOK, logonVars, realmVars
  <1>4. (OneOpen /\ DropsOld)'
    BY DEF Authenticated, OneOpen, DropsOld
  <1> QED BY <1>3, <1>4, RealmsStay DEF Authenticated, logonVars, realmVars

LEMMA RegistrationDoneStep == ASSUME IInv, RegistrationDone PROVE IInv'
  <1> USE DEF IInv
  <1>1. TypeOK'
    BY DEF RegistrationDone, TypeOK, logonVars, realmVars, netVars
  <1>2. (OneOpen /\ DropsOld)'
    BY DEF RegistrationDone, OneOpen, DropsOld
  <1> QED BY <1>1, <1>2, RealmsStay DEF RegistrationDone, logonVars, realmVars

\* A socket the world server closes takes its messages with it.
LEMMA Closed ==
    ASSUME TypeOK, NEW c \in Conns, Close(c)
    PROVE  /\ wopen' = wopen \ {c}
           /\ toWorld' \in [Conns -> Seq({"ok", "fail", "registered"})]
  BY EmptySeq DEF Close, TypeOK

LEMMA ConnectFailsStep == ASSUME IInv, ConnectFails PROVE IInv'
  <1> USE DEF IInv
  <1>1. attempt \in Conns
    BY DEF ConnectFails, TypeOK
  <1>2. /\ wopen' = wopen \ {attempt}
        /\ toWorld' \in [Conns -> Seq({"ok", "fail", "registered"})]
    BY <1>1, Closed DEF ConnectFails
  <1>3. faults' \in 0 .. Faults
    BY DEF ConnectFails, NoAnswer, Fault, TypeOK
  <1>4. TypeOK'
    BY <1>1, <1>2, <1>3 DEF ConnectFails, TypeOK, logonVars, realmVars
  <1>5. wopen' = {}
    BY <1>1, <1>2 DEF OneOpen
  <1>6. (OneOpen /\ DropsOld)'
    BY <1>5 DEF ConnectFails, OneOpen, DropsOld
  <1> QED BY <1>4, <1>6, RealmsStay DEF ConnectFails, logonVars, realmVars

LEMMA DropLinkStep == ASSUME IInv, DropLink PROVE IInv'
  <1> USE DEF IInv
  <1>1. link \in Conns
    BY DEF DropLink, TypeOK
  <1>2. /\ wopen' = wopen \ {link}
        /\ toWorld' \in [Conns -> Seq({"ok", "fail", "registered"})]
    BY <1>1, Closed DEF DropLink
  <1>3. faults' \in 0 .. Faults
    BY DEF DropLink, NoAnswer, Fault, TypeOK
  <1>4. TypeOK'
    BY <1>1, <1>2, <1>3 DEF DropLink, TypeOK, watcherVars, logonVars, realmVars
  <1>5. wopen' = {}
    BY <1>2 DEF OneOpen
  <1>6. (OneOpen /\ DropsOld)'
    BY <1>5 DEF DropLink, OneOpen, DropsOld, watcherVars
  <1> QED BY <1>4, <1>6, RealmsStay DEF DropLink, logonVars, realmVars

-----------------------------------------------------------------------------
(* The worker. *)

\* The rest of a connection's messages are messages.
LEMMA Taken ==
    ASSUME NEW T, NEW queues \in [Conns -> Seq(T)], NEW c \in Conns, queues[c] # <<>>
    PROVE  /\ Head(queues[c]) \in T
           /\ [queues EXCEPT ![c] = Tail(@)] \in [Conns -> Seq(T)]
  <1>1. Head(queues[c]) \in T /\ Tail(queues[c]) \in Seq(T)
    BY HeadTailProperties
  <1> QED BY <1>1

LEMMA HandleAuthResponseStep ==
    ASSUME IInv, NEW c \in Conns, HandleAuthResponse(c) PROVE IInv'
  <1> USE DEF IInv
  <1>1. toWorld' \in [Conns -> Seq({"ok", "fail", "registered"})]
    BY Taken DEF HandleAuthResponse, TypeOK
  <1>2. TypeOK'
    BY <1>1 DEF HandleAuthResponse, TypeOK, watcherVars, logonVars, realmVars
  <1>3. (OneOpen /\ DropsOld)'
    BY DEF HandleAuthResponse, OneOpen, DropsOld, watcherVars
  <1> QED BY <1>2, <1>3, RealmsStay DEF HandleAuthResponse, logonVars, realmVars

LEMMA HandleRegisteredStep ==
    ASSUME IInv, NEW c \in Conns, HandleRegistered(c) PROVE IInv'
  <1> USE DEF IInv
  <1>1. toWorld' \in [Conns -> Seq({"ok", "fail", "registered"})]
    BY Taken DEF HandleRegistered, TypeOK
  <1>2. TypeOK'
    BY <1>1 DEF HandleRegistered, TypeOK, watcherVars, logonVars, realmVars
  <1>3. watcher # "start"
    BY DEF HandleRegistered, OneOpen
  <1>4. (OneOpen /\ DropsOld)'
    BY <1>3 DEF HandleRegistered, OneOpen, DropsOld, watcherVars
  <1> QED BY <1>2, <1>4, RealmsStay DEF HandleRegistered, logonVars, realmVars

LEMMA AdditionAckStep == ASSUME IInv, AdditionAck PROVE IInv'
  <1> USE DEF IInv
  <1>1. TypeOK'
    BY DEF AdditionAck, TypeOK, watcherVars, logonVars, realmVars, netVars
  <1>2. (OneOpen /\ DropsOld)'
    BY DEF AdditionAck, OneOpen, DropsOld, watcherVars
  <1> QED BY <1>1, <1>2, RealmsStay DEF AdditionAck, logonVars, realmVars

LEMMA WorldNoticesStep ==
    ASSUME IInv, NEW c \in Conns, WorldNotices(c) PROVE IInv'
  <1> USE DEF IInv
  <1>1. /\ wopen' = wopen \ {c}
        /\ toWorld' \in [Conns -> Seq({"ok", "fail", "registered"})]
    BY Closed DEF WorldNotices
  <1>2. wopen' = {} /\ watcher # "start"
    BY <1>1 DEF WorldNotices, OneOpen
  <1>3. TypeOK'
    BY <1>1 DEF WorldNotices, TypeOK, watcherVars, logonVars, realmVars
  <1>4. (OneOpen /\ DropsOld)'
    BY <1>2 DEF WorldNotices, OneOpen, DropsOld, watcherVars
  <1> QED BY <1>3, <1>4, RealmsStay DEF WorldNotices, logonVars, realmVars

LEMMA ConnectionDroppedStep == ASSUME IInv, ConnectionDropped PROVE IInv'
  <1> USE DEF IInv
  <1>1. wopen = {} /\ UNCHANGED wopen
    BY DEF ConnectionDropped, MapLockFree, DropsOld
  <1>2. TypeOK'
    BY DEF ConnectionDropped, TypeOK, watcherVars, logonVars, realmVars, netVars
  <1>3. (OneOpen /\ DropsOld)'
    BY <1>1 DEF ConnectionDropped, OneOpen, DropsOld, watcherVars
  <1> QED BY <1>2, <1>3, RealmsStay DEF ConnectionDropped, logonVars, realmVars

-----------------------------------------------------------------------------
(* The logon server. *)

\* An answer joins the messages of the connection.
LEMMA Answered ==
    ASSUME TypeOK, NEW c \in Conns, NEW answer \in {"ok", "fail", "registered"}
    PROVE  (IF c \in wopen THEN [toWorld EXCEPT ![c] = Append(@, answer)] ELSE toWorld)
               \in [Conns -> Seq({"ok", "fail", "registered"})]
  <1>1. Append(toWorld[c], answer) \in Seq({"ok", "fail", "registered"})
    BY AppendProperties DEF TypeOK
  <1> QED BY <1>1 DEF TypeOK

LEMMA HandleAuthChallengeStep ==
    ASSUME IInv, NEW c \in Conns, HandleAuthChallenge(c) PROVE IInv'
  <1> USE DEF IInv
  <1>1. toLogon' \in [Conns -> Seq(Messages)]
    BY Taken DEF HandleAuthChallenge, Reading, Arrived, TypeOK
  <1>2. toWorld' \in [Conns -> Seq({"ok", "fail", "registered"})]
    <2>1. (IF key THEN "ok" ELSE "fail") \in {"ok", "fail", "registered"}
      OBVIOUS
    <2> QED BY <2>1, Answered DEF HandleAuthChallenge
  <1>3. lauth' \subseteq lopen
    BY DEF HandleAuthChallenge, Reading, Arrived, TypeOK
  <1>4. TypeOK'
    BY <1>1, <1>2, <1>3 DEF HandleAuthChallenge, TypeOK, worldVars, watcherVars
  <1> QED BY <1>4, RealmsStay, OpenStays DEF HandleAuthChallenge

LEMMA HandleRegisterStep ==
    ASSUME IInv, NEW c \in Conns, HandleRegister(c) PROVE IInv'
  <1> DEFINE r == Head(toLogon[c])[2]
             kept == DOMAIN m_realms \ Removed(r)
             id == realmhigh + 1
  <1> USE DEF IInv
  <1>0. /\ r \in Realms /\ c \in lauth /\ c \in lopen /\ toLogon[c] # <<>>
        /\ m_realms' = [i \in kept \cup {id} |->
               IF i = id THEN [name |-> r, online |-> TRUE] ELSE m_realms[i]]
        /\ realmhigh' = id
        /\ server_ids' = [server_ids EXCEPT ![c] = @ \cup {id}]
        /\ toLogon' = [toLogon EXCEPT ![c] = Tail(@)]
        /\ UNCHANGED <<worldVars, up, key, lopen, lauth, broken, faults>>
    BY DEF HandleRegister, NewId, Reading, Arrived
  <1>1. toLogon' \in [Conns -> Seq(Messages)]
    BY <1>0, Taken DEF TypeOK
  <1>2. toWorld' \in [Conns -> Seq({"ok", "fail", "registered"})]
    BY Answered DEF HandleRegister
  <1>3. /\ realmhigh \in Nat
        /\ \A i \in DOMAIN m_realms : i \in 1 .. realmhigh /\ i # id
        /\ \A d \in Conns : id \notin server_ids[d] /\ server_ids[d] \in SUBSET (1 .. realmhigh)
    BY DEF TypeOK
  <1>4. \A i \in DOMAIN m_realms' :
          \/ i = id /\ m_realms'[i] = [name |-> r, online |-> TRUE]
          \/ i \in DOMAIN m_realms /\ i # id /\ m_realms'[i] = m_realms[i] /\ m_realms[i].name # r
    BY <1>0, <1>3 DEF Removed, IdsNamed
  <1>5. realmhigh' \in Nat /\ server_ids' \in [Conns -> SUBSET (1 .. realmhigh')]
    BY <1>0, <1>3 DEF TypeOK
  <1>6. \A i \in DOMAIN m_realms' :
          i \in 1 .. realmhigh' /\ m_realms'[i] \in [name : Realms, online : BOOLEAN]
    BY <1>0, <1>3, <1>4 DEF TypeOK
  <1> HIDE DEF r, kept, id
  <1>7. TypeOK'
    BY <1>0, <1>1, <1>2, <1>5, <1>6 DEF TypeOK, worldVars, watcherVars
  <1>8. OneRealmPerName'
    BY <1>4 DEF OneRealmPerName
  <1>9. OnlineWithSocket'
    <2> SUFFICES ASSUME NEW i \in DOMAIN m_realms'
                 PROVE  m_realms'[i].online <=> \E d \in lopen : i \in server_ids'[d]
      BY <1>0 DEF OnlineWithSocket
    <2>1. CASE i = id
      BY <1>0, <1>3, <1>4, <2>1 DEF TypeOK
    <2>2. CASE i # id
      <3>1. i \in DOMAIN m_realms /\ m_realms'[i] = m_realms[i]
        BY <1>4, <2>2
      <3>2. \A d \in Conns : i \in server_ids'[d] <=> i \in server_ids[d]
        BY <1>0, <2>2 DEF TypeOK
      <3>3. lopen \subseteq Conns
        BY DEF TypeOK
      <3> QED BY <3>1, <3>2, <3>3 DEF OnlineWithSocket
    <2> QED BY <2>1, <2>2
  <1>10. OwnIds'
    BY <1>0, <1>3 DEF OwnIds, TypeOK
  <1> QED BY <1>0, <1>7, <1>8, <1>9, <1>10, OpenStays

LEMMA LogonClosesStep ==
    ASSUME IInv, NEW c \in lopen, LogonCloses(c) PROVE IInv'
  <1> USE DEF IInv
  <1>1. /\ m_realms' = [i \in DOMAIN m_realms |->
               IF i \in server_ids[c] THEN [m_realms[i] EXCEPT !.online = FALSE]
               ELSE m_realms[i]]
        /\ lopen' = lopen \ {c} /\ lauth' = lauth \ {c} /\ c \in Conns
        /\ server_ids' = [server_ids EXCEPT ![c] = {}]
        /\ UNCHANGED worldVars
    BY DEF LogonCloses, Offline, TypeOK
  <1>2. \A i \in DOMAIN m_realms' :
          /\ i \in DOMAIN m_realms
          /\ m_realms'[i] \in [name : Realms, online : BOOLEAN]
          /\ m_realms'[i].name = m_realms[i].name
          /\ m_realms'[i].online <=> m_realms[i].online /\ i \notin server_ids[c]
    BY <1>1 DEF TypeOK
  <1>3. toLogon' \in [Conns -> Seq(Messages)]
    BY <1>1, EmptySeq DEF LogonCloses, TypeOK
  <1>4. TypeOK'
    BY <1>1, <1>2, <1>3 DEF LogonCloses, TypeOK, worldVars, watcherVars
  <1>5. OneRealmPerName'
    BY <1>2 DEF OneRealmPerName
  <1>6. OnlineWithSocket'
    <2> SUFFICES ASSUME NEW i \in DOMAIN m_realms'
                 PROVE  m_realms'[i].online <=> \E d \in lopen' : i \in server_ids'[d]
      BY DEF OnlineWithSocket
    <2>1. \A d \in lopen' : d \in Conns /\ server_ids'[d] = server_ids[d] /\ d # c
      BY <1>1 DEF TypeOK
    <2>2. i \in server_ids[c] => \A d \in lopen' : i \notin server_ids[d]
      BY <1>1, <2>1 DEF OwnIds
    <2>3. m_realms[i].online <=> \E d \in lopen : i \in server_ids[d]
      BY <1>2 DEF OnlineWithSocket
    <2> QED BY <1>1, <1>2, <2>1, <2>2, <2>3
  <1>7. OwnIds'
    BY <1>1 DEF OwnIds, TypeOK
  <1> QED BY <1>1, <1>4, <1>5, <1>6, <1>7, OpenStays

\* The three ways it learns that a connection is to be closed.
LEMMA ClosingStep ==
    ASSUME IInv, NEW c \in Conns, HandleInvalid(c) \/ LogonNotices(c) \/ TimeoutSocket(c)
    PROVE  IInv'
  <1>1. c \in lopen /\ LogonCloses(c)
    BY DEF HandleInvalid, LogonNotices, TimeoutSocket, Reading, Arrived
  <1> QED BY <1>1, LogonClosesStep

-----------------------------------------------------------------------------
(* Faults. *)

LEMMA BreakStep == ASSUME IInv, NEW c \in Conns, Break(c) PROVE IInv'
  <1> USE DEF IInv
  <1>1. TypeOK'
    BY DEF Break, Fault, TypeOK, worldVars, watcherVars, logonVars, realmVars
  <1> QED BY <1>1, RealmsStay, OpenStays DEF Break, logonVars, realmVars

LEMMA LogonCrashesStep == ASSUME IInv, LogonCrashes PROVE IInv'
  <1> USE DEF IInv
  <1>1. DOMAIN m_realms' = {} /\ \A c \in Conns : server_ids'[c] = {}
    BY DEF LogonCrashes
  <1>2. TypeOK'
    <2>1. toLogon' \in [Conns -> Seq(Messages)]
      BY EmptySeq DEF LogonCrashes, NoMessages
    <2>2. server_ids' \in [Conns -> SUBSET (1 .. realmhigh')]
      BY DEF LogonCrashes
    <2>3. WorldTypes'
      BY Types DEF LogonCrashes, WorldTypes, worldVars, watcherVars
    <2>4. (LogonTypes /\ RealmTypes)'
      BY <1>1, <2>2, Types DEF LogonCrashes, LogonTypes, RealmTypes
    <2>5. faults' \in 0..Faults /\ broken' \subseteq Conns /\ UNCHANGED toWorld
      BY Types DEF LogonCrashes, Fault, NetTypes
    <2>6. NetTypes'
      BY <2>1, <2>5, Types DEF NetTypes
    <2> QED BY <2>3, <2>4, <2>6, TypesNext
  <1>3. (OneRealmPerName /\ OnlineWithSocket /\ OwnIds)'
    BY <1>1 DEF OneRealmPerName, OnlineWithSocket, OwnIds
  <1> QED BY <1>2, <1>3, OpenStays DEF LogonCrashes

LEMMA LogonStartsStep == ASSUME IInv, LogonStarts PROVE IInv'
  <1> USE DEF IInv
  <1>1. TypeOK'
    BY DEF LogonStarts, TypeOK, worldVars, watcherVars, realmVars, netVars
  <1> QED BY <1>1, RealmsStay, OpenStays DEF LogonStarts, realmVars

LEMMA WorldCrashesStep == ASSUME IInv, WorldCrashes PROVE IInv'
  <1> USE DEF IInv
  <1>1. TypeOK'
    <2>1. toWorld' \in [Conns -> Seq({"ok", "fail", "registered"})]
      BY EmptySeq DEF WorldCrashes, NoMessages
    <2>2. broken' \subseteq Conns
      BY DEF WorldCrashes, TypeOK
    <2>7. authenticated' \in [Conns -> 0..2]
      BY DEF WorldCrashes
    <2>8. worker' \in {<<"wait">>} \cup ({"ack", "drop"} \X Conns)
      BY DEF WorldCrashes
    <2>3. WorldTypes'
      BY <2>7, <2>8 DEF WorldCrashes, WorldTypes
    <2>4. (LogonTypes /\ RealmTypes)'
      BY Types DEF WorldCrashes, LogonTypes, RealmTypes, logonVars, realmVars
    <2>5. faults' \in 0..Faults /\ UNCHANGED toLogon
      BY Types DEF WorldCrashes, Fault, NetTypes
    <2>6. NetTypes'
      BY <2>1, <2>2, <2>5, Types DEF NetTypes
    <2> QED BY <2>3, <2>4, <2>6, TypesNext
  <1>2. (OneOpen /\ DropsOld)'
    BY DEF WorldCrashes, OneOpen, DropsOld
  <1> QED BY <1>1, <1>2, RealmsStay DEF WorldCrashes, logonVars, realmVars

-----------------------------------------------------------------------------
LEMMA NextIInv == IInv /\ [Next]_vars => IInv'
  <1> SUFFICES ASSUME IInv, [Next]_vars PROVE IInv'
    OBVIOUS
  <1>1. CASE UNCHANGED vars
    <2>1. TypeOK'
      BY <1>1 DEF IInv, TypeOK, vars, worldVars, watcherVars, logonVars, realmVars, netVars
    <2> QED BY <1>1, <2>1, RealmsStay, OpenStays DEF IInv, vars, logonVars, realmVars
  <1>2. CASE Watcher
    BY <1>2, ConnectAllStep, ReconnectStep, SendChallengeStep, AuthenticatedStep,
       RegistrationDoneStep, ConnectFailsStep, DropLinkStep DEF Watcher
  <1>3. CASE Worker
    BY <1>3, HandleAuthResponseStep, HandleRegisteredStep, WorldNoticesStep,
       AdditionAckStep, ConnectionDroppedStep DEF Worker
  <1>4. CASE EarlyRequest
    BY <1>4, EarlyRequestStep
  <1>5. CASE \E c \in Conns : LogonHandles(c) \/ HandleInvalid(c)
    BY <1>5, HandleAuthChallengeStep, HandleRegisterStep, ClosingStep DEF LogonHandles
  <1>6. CASE (\E c \in Conns : Break(c)) \/ LogonCrashes \/ LogonStarts \/ WorldCrashes
    BY <1>6, BreakStep, LogonCrashesStep, LogonStartsStep, WorldCrashesStep
  <1> QED BY <1>1, <1>2, <1>3, <1>4, <1>5, <1>6 DEF Next

\* The invariant behind the two theorems below.
THEOREM Invariance == Spec => []IInv
  BY InitIInv, NextIInv, PTL DEF Spec

\* The list of realms the clients are shown has each realm once, online
\* exactly while its socket is connected, through crashes of either server and
\* late registrations (LogonCommServerSocket::HandleRegister, SetRealmOffline).
THEOREM RealmsRight == Spec => []RealmList
  <1>1. IInv => RealmList
    BY DEF IInv, RealmList
  <1> QED BY <1>1, Invariance, PTL

\* The end of an old connection never makes the world server forget the new
\* one (LogonCommHandler::ConnectionDropped, UpdateSockets).
THEOREM ConnectionsKnown == Spec => []NoForgottenConnection
  <1>1. IInv => NoForgottenConnection
    BY DEF IInv, OneOpen, NoForgottenConnection
  <1> QED BY <1>1, Invariance, PTL
=============================================================================
