-------------------------- MODULE MapThreads_proofs --------------------------
(***************************************************************************)
(* A session is handled by the thread of the map its player is in, and is  *)
(* lost between two threads only with a map that ends while its player is  *)
(* on his way there, for every number of sessions and maps.                *)
(***************************************************************************)
EXTENDS MapThreads, TLAPS

\* What a thread is doing tells whose handler it is in.  The world thread has
\* yet to visit only sessions it has, and not the one it is in.
Shapes ==
    /\ pc[World] \in {"rest", "pass", "add", "added"}
    /\ current[World] # Null <=> pc[World] \in {"add", "added"}
    /\ \A m \in Maps :
          /\ pc[m] \notin {"add", "added"}
          /\ current[m] # Null <=> pc[m] = "leave"
          /\ pc[m] = "leave" => back[m] \in {"duties", "pass", "end"}
    /\ left[World] \subseteq Sessions[World] /\ current[World] \notin left[World]

\* Whoever is in a list, in a handler or in a map is not deleted.
Living ==
    /\ \A s \in Accounts : m_mapMgr[s] # Null => Live(s)
    /\ \A t \in Threads : \A s \in Sessions[t] \cup ({current[t]} \ {Null}) : Live(s)

\* The world thread is about to put the player of s into a pool, or has just
\* done so.
Adding(s) == pc[World] \in {"add", "added"} /\ current[World] = s

\* A map's pool and storage hold its own players; a player in the storage has
\* his session there too.
MapsOwn ==
    \A m \in Maps :
        /\ \A s \in insertPool[m] \cup m_PlayerStorage[m] : m_mapMgr[s] = m
        /\ \A s \in m_PlayerStorage[m] : s \in Sessions[m] /\ instanceId[s] = m

\* A player of a map is in its storage or on his way there.
PlayersFound ==
    \A s \in Accounts, m \in Maps :
        m_mapMgr[s] = m =>
            \/ s \in m_PlayerStorage[m]
            \/ /\ m_beingPushed[s]
               /\ \/ s \in insertPool[m] \/ m \in ended
                  \/ pc[World] = "add" /\ current[World] = s

\* While he is on his way no map has his session: he was told to go there
\* after the last one had dropped it.
OnTheWay ==
    \A s \in Accounts, m \in Maps :
        m_mapMgr[s] = m /\ s \notin m_PlayerStorage[m] =>
            \A k \in Maps : s \notin Sessions[k]

\* The instance id names the player's map, but while the world thread adds him.
Instanced ==
    \A s \in Accounts :
        IF instanceId[s] = World
        THEN m_mapMgr[s] = Null \/ Adding(s)
        ELSE m_mapMgr[s] = instanceId[s]

\* A player who has been taken out is in no map until he is given back; one
\* who is to be put into a pool is not in it yet.
BetweenMaps ==
    /\ \A m \in Maps : pc[m] = "leave" => m_mapMgr[current[m]] = Null
    /\ pc[World] = "add" =>
          /\ m_mapMgr[current[World]] \in Maps /\ instanceId[current[World]] = World
          /\ \A m \in Maps : current[World] \notin insertPool[m]

\* A map that has ended has nothing left, and its thread is gone.
Ends ==
    \A m \in ended :
        /\ insertPool[m] = {} /\ m_PlayerStorage[m] = {} /\ Sessions[m] = {}
        /\ pc[m] = "rest"

IInv == /\ TypeOK /\ Shapes /\ Living /\ MapsOwn /\ PlayersFound /\ OnTheWay
        /\ Instanced /\ BetweenMaps /\ Ends /\ Served

-----------------------------------------------------------------------------
USE MapsAssumption DEF MapsAssumption

LEMMA Kinds ==
    /\ World \in Threads /\ Maps \subseteq Threads /\ World \notin Maps
    /\ \A t \in Threads : t = World \/ t \in Maps
    /\ Null \notin Accounts /\ Null \notin Maps /\ Null # World
  BY DEF Threads

LEMMA InitIInv == Init => IInv
  <1> SUFFICES ASSUME Init PROVE IInv
    OBVIOUS
  <1>1. TypeOK
    BY DEF Init, TypeOK, PCs, Threads
  <1>2. Shapes
    BY Kinds DEF Init, Shapes
  <1>3. Living
    BY DEF Init, Living, Live
  <1>4. MapsOwn /\ PlayersFound /\ OnTheWay /\ Instanced
    BY Kinds DEF Init, MapsOwn, PlayersFound, OnTheWay, Instanced
  <1>5. BetweenMaps /\ Ends
    BY Kinds DEF Init, BetweenMaps, Ends
  <1>6. Served
    BY Kinds DEF Init, Served
  <1> QED BY <1>1, <1>2, <1>3, <1>4, <1>5, <1>6 DEF IInv

\* Steps that leave players and lists where they are.
LEMMA Stay ==
    ASSUME IInv, TypeOK', Shapes',
           UNCHANGED <<instanceId, m_mapMgr, m_beingPushed, Sessions,
                       insertPool, m_PlayerStorage, current, ended>>,
           \A s \in Accounts : Live(s) <=> Live(s)',
           Ends',
           \A t \in Threads, p \in {"add", "added", "leave"} :
              pc[t] = p <=> pc'[t] = p
    PROVE  IInv'
  <1>1. Living'
    BY DEF IInv, Living, TypeOK
  <1>2. MapsOwn' /\ Instanced'
    BY Kinds DEF IInv, MapsOwn, Instanced, Adding
  <1>3. PlayersFound' /\ OnTheWay'
    BY Kinds DEF IInv, PlayersFound, OnTheWay
  <1>4. BetweenMaps'
    BY Kinds DEF IInv, BetweenMaps
  <1>5. Served'
    BY Kinds DEF IInv, Served, Stranded
  <1> QED BY <1>1, <1>2, <1>3, <1>4, <1>5 DEF IInv

LEMMA DisconnectStep == ASSUME IInv, NEW s \in Accounts, Disconnect(s) PROVE IInv'
  <1>1. TypeOK' /\ Shapes' /\ Ends'
    BY DEF IInv, TypeOK, Shapes, Ends, Disconnect, playerVars, mapVars, endVars, threadVars
  <1> QED BY <1>1, Stay
          DEF Disconnect, Live, playerVars, mapVars, endVars, threadVars

LEMMA BeginLoopStep == ASSUME IInv, NEW m \in Maps, BeginLoop(m) PROVE IInv'
  <1>1. TypeOK' /\ Shapes'
    BY Kinds DEF IInv, TypeOK, Shapes, BeginLoop, Goto, PCs, sessionVars, playerVars,
                 mapVars, endVars
  <1>2. Ends'
    BY Kinds DEF IInv, TypeOK, Ends, BeginLoop, Goto, playerVars, mapVars, endVars
  <1>3. \A t \in Threads, p \in {"add", "added", "leave"} : pc[t] = p <=> pc'[t] = p
    BY DEF IInv, TypeOK, BeginLoop, Goto
  <1> QED BY <1>1, <1>2, <1>3, Stay
          DEF BeginLoop, Live, sessionVars, playerVars, mapVars, endVars

LEMMA BeginPassStep == ASSUME IInv, NEW t \in Threads, BeginPass(t) PROVE IInv'
  <1>1. TypeOK' /\ Shapes'
    BY Kinds DEF IInv, TypeOK, Shapes, BeginPass, Goto, PCs, sessionVars, playerVars,
                 mapVars, endVars
  <1>2. Ends'
    BY Kinds DEF IInv, TypeOK, Ends, BeginPass, Goto, playerVars, mapVars, endVars
  <1>3. \A u \in Threads, p \in {"add", "added", "leave"} : pc[u] = p <=> pc'[u] = p
    BY DEF IInv, TypeOK, BeginPass, Goto
  <1> QED BY <1>1, <1>2, <1>3, Stay
          DEF BeginPass, Live, sessionVars, playerVars, mapVars, endVars

LEMMA EndPassStep ==
    ASSUME IInv, NEW t \in Threads, EndPass(t) PROVE IInv'
  <1>1. TypeOK'
    BY Kinds DEF IInv, TypeOK, EndPass, Goto, PCs, playerVars, mapVars, endVars
  <1>2. Shapes'
    BY Kinds DEF IInv, TypeOK, Shapes, EndPass, Goto
  <1>3. Ends'
    BY Kinds DEF IInv, TypeOK, Ends, EndPass, Goto, mapVars, endVars
  <1>4. \A s \in Accounts : Live(s) <=> Live(s)'
    BY Kinds DEF EndPass, Live
  <1>5. \A u \in Threads, p \in {"add", "added", "leave"} : pc[u] = p <=> pc'[u] = p
    BY DEF IInv, TypeOK, EndPass, Goto
  <1> QED BY <1>1, <1>2, <1>3, <1>4, <1>5, Stay DEF EndPass, playerVars, mapVars, endVars

LEMMA TerminateStep ==
    ASSUME IInv, NEW m \in Maps, Terminate(m) PROVE IInv'
  <1>1. TypeOK' /\ Shapes' /\ Ends'
    BY DEF IInv, TypeOK, Shapes, Ends, Terminate, sessionVars, playerVars, mapVars, threadVars
  <1> QED BY <1>1, Stay
          DEF Terminate, Live, sessionVars, playerVars, mapVars, threadVars

LEMMA UpdateSessionStep ==
    ASSUME IInv, NEW t \in Threads, NEW s \in Accounts, UpdateSession(t, s) PROVE IInv'
  <1>1. TypeOK'
    BY DEF IInv, TypeOK, UpdateSession, TimerSet, Visited, playerVars, mapVars, endVars
  <1>2. Shapes'
    BY Kinds DEF IInv, TypeOK, Shapes, UpdateSession, Visited
  <1>3. Ends'
    BY DEF IInv, Ends, UpdateSession, playerVars, mapVars, endVars
  <1> QED BY <1>1, <1>2, <1>3, Stay
          DEF UpdateSession, Live, playerVars, mapVars, endVars

LEMMA DropSessionStep ==
    ASSUME IInv, NEW t \in Threads, NEW s \in Accounts, DropSession(t, s) PROVE IInv'
  <1>1. /\ instanceId[s] # t /\ Sessions' = [Sessions EXCEPT ![t] = @ \ {s}]
        /\ left' = [left EXCEPT ![t] = @ \ {s}]
        /\ UNCHANGED <<instanceId, m_mapMgr, m_beingPushed, insertPool,
                       m_PlayerStorage, current, pc, back, deleted, erasable,
                       terminated, ended, told, socket, logoutTime, inactive, moves>>
    BY DEF DropSession, WrongThread, Visited, sessionVars, playerVars, mapVars, endVars
  <1>2. TypeOK' /\ Shapes' /\ Living'
    BY <1>1, Kinds DEF IInv, TypeOK, Shapes, Living, Live
  <1>3. MapsOwn' /\ PlayersFound' /\ OnTheWay' /\ Instanced' /\ BetweenMaps' /\ Ends'
    BY <1>1, Kinds DEF IInv, TypeOK, MapsOwn, PlayersFound, OnTheWay, Instanced, Adding,
                       BetweenMaps, Ends
  <1>4. Served'
    BY <1>1, Kinds DEF IInv, TypeOK, Served, Stranded, Live
  <1> QED BY <1>2, <1>3, <1>4 DEF IInv

LEMMA GiveBackStep ==
    ASSUME IInv, NEW m \in Maps, NEW d \in Maps, GiveBack(m, d) PROVE IInv'
  <1> DEFINE s == current[m]
  <1>1. /\ pc[m] = "leave" /\ pc[World] \notin {"pass", "add", "added"}
        /\ Sessions' = [Sessions EXCEPT
                          ![World] = @ \cup {s},
                          ![m] = IF back[m] = "pass" THEN @ \ {s} ELSE @]
        /\ told' = [told EXCEPT ![s] = d]
        /\ pc' = [pc EXCEPT ![m] = back[m]] /\ back' = [back EXCEPT ![m] = "rest"]
        /\ current' = [current EXCEPT ![m] = Null]
        /\ UNCHANGED <<instanceId, m_mapMgr, m_beingPushed, insertPool,
                       m_PlayerStorage, left, deleted, erasable,
                       terminated, ended, socket, logoutTime, inactive, moves>>
    BY DEF GiveBack, SessionsMutex, GivenBack, Goto, sessionVars, mapVars, endVars
  <1>2. s \in Accounts /\ Live(s) /\ m_mapMgr[s] = Null /\ instanceId[s] = World
        /\ back[m] \in {"duties", "pass", "end"}
    BY <1>1, Kinds DEF IInv, TypeOK, Shapes, Living, BetweenMaps, Instanced
  <1> HIDE DEF s
  <1>3. /\ Sessions' \in [Threads -> SUBSET Accounts]
        /\ Sessions'[World] = Sessions[World] \cup {s}
        /\ Sessions'[m] \in {Sessions[m], Sessions[m] \ {s}}
        /\ \A t \in Threads \ {World, m} : Sessions'[t] = Sessions[t]
    <2>1. Sessions \in [Threads -> SUBSET Accounts]
      BY DEF IInv, TypeOK
    <2> QED BY <1>1, <1>2, <2>1, Kinds
  <1>4. /\ pc[m] = "leave" /\ pc[World] \notin {"pass", "add", "added"}
        /\ told' = [told EXCEPT ![s] = d]
        /\ pc' = [pc EXCEPT ![m] = back[m]] /\ back' = [back EXCEPT ![m] = "rest"]
        /\ current' = [current EXCEPT ![m] = Null]
        /\ UNCHANGED <<instanceId, m_mapMgr, m_beingPushed, insertPool,
                       m_PlayerStorage, left, deleted, erasable,
                       terminated, ended, socket, logoutTime, inactive, moves>>
    BY <1>1
  <1>5. TypeOK' /\ Shapes' /\ Living'
    <2>1. TypeOK'
      BY <1>2, <1>3, <1>4, Kinds DEF IInv, TypeOK, PCs
    <2>2. Shapes'
      BY <1>2, <1>3, <1>4, Kinds DEF IInv, TypeOK, Shapes
    <2>3. Living'
      BY <1>2, <1>3, <1>4, Kinds DEF IInv, TypeOK, Living, Live
    <2> QED BY <2>1, <2>2, <2>3
  <1>6. MapsOwn' /\ PlayersFound' /\ OnTheWay' /\ Instanced' /\ BetweenMaps'
    <2>1. MapsOwn'
      <3>1. s \notin m_PlayerStorage[m]
        BY <1>2, Kinds DEF IInv, MapsOwn
      <3> QED BY <3>1, <1>3, <1>4, Kinds DEF IInv, MapsOwn
    <2>2. pc'[World] = pc[World] /\ current'[World] = current[World]
      BY <1>4, Kinds DEF IInv, TypeOK
    <2>3. PlayersFound' /\ Instanced'
      BY <2>2, <1>4, Kinds DEF IInv, PlayersFound, Instanced, Adding
    <2>5. OnTheWay'
      <3>1. \A k \in Maps : Sessions'[k] \subseteq Sessions[k]
        BY <1>3, Kinds
      <3> QED BY <3>1, <1>4 DEF IInv, OnTheWay
    <2>4. BetweenMaps'
      BY <1>2, <1>4, <2>2, Kinds DEF IInv, TypeOK, BetweenMaps
    <2> QED BY <2>1, <2>3, <2>4, <2>5
  <1>7. Ends'
    BY <1>2, <1>3, <1>4, Kinds DEF IInv, TypeOK, Ends
  <1>8. Served'
    <2> SUFFICES ASSUME NEW u \in Accounts, Live(u)', ~Stranded(u)'
                 PROVE  \/ u \in Sessions'[instanceId[u]]
                        \/ /\ instanceId[u] = World
                           /\ \E k \in Maps : pc'[k] = "leave" /\ current'[k] = u
                        \/ /\ instanceId[u] # World
                           /\ u \in insertPool[instanceId[u]] /\ m_beingPushed[u]
      BY <1>4 DEF Served
    <2>1. CASE u = s
      BY <1>2, <1>3, <2>1
    <2>2. CASE u # s
      <3>1. /\ instanceId[u] \in Threads
            /\ \/ u \in Sessions[instanceId[u]]
               \/ /\ instanceId[u] = World
                  /\ \E k \in Maps : pc[k] = "leave" /\ current[k] = u
               \/ /\ instanceId[u] # World
                  /\ u \in insertPool[instanceId[u]] /\ m_beingPushed[u]
        BY <1>4 DEF IInv, TypeOK, Served, Stranded, Live
      <3>2. u \in Sessions[instanceId[u]] => u \in Sessions'[instanceId[u]]
        BY <1>3, <2>2, <3>1, Kinds
      <3>3. ASSUME NEW k \in Maps, pc[k] = "leave", current[k] = u
            PROVE  pc'[k] = "leave" /\ current'[k] = u
        BY <1>4, <2>2, <3>3, Kinds DEF IInv, TypeOK, s
      <3> QED BY <3>1, <3>2, <3>3
    <2> QED BY <2>1, <2>2
  <1> QED BY <1>5, <1>6, <1>7, <1>8 DEF IInv

LEMMA PushStep ==
    ASSUME IInv, NEW m \in Maps, NEW s \in Accounts, Push(m, s) PROVE IInv'
  <1>1. /\ pc[m] = "push" /\ s \in insertPool[m] /\ s \notin m_PlayerStorage[m]
        /\ m_PlayerStorage' = [m_PlayerStorage EXCEPT ![m] = @ \cup {s}]
        /\ Sessions' = [Sessions EXCEPT ![m] = @ \cup {s}]
        /\ instanceId' = [instanceId EXCEPT ![s] = m]
        /\ inactive' = inactive \ {m}
        /\ m_beingPushed' = [m_beingPushed EXCEPT ![s] = FALSE]
        /\ UNCHANGED <<m_mapMgr, insertPool, current, pc, back, left, deleted,
                       erasable, terminated, ended, told, socket, logoutTime, moves>>
    BY DEF Push, sessionVars, endVars, threadVars
  <1>2. m_mapMgr[s] = m /\ Live(s) /\ ~(pc[World] = "add" /\ current[World] = s)
    BY <1>1, Kinds DEF IInv, MapsOwn, Living, BetweenMaps
  <1>3. TypeOK' /\ Shapes' /\ Living'
    BY <1>1, <1>2, Kinds DEF IInv, TypeOK, Shapes, Living, Live
  <1>4. MapsOwn' /\ PlayersFound' /\ OnTheWay' /\ Instanced' /\ BetweenMaps'
    BY <1>1, <1>2, Kinds DEF IInv, TypeOK, MapsOwn, PlayersFound, OnTheWay, Instanced, Adding,
                       BetweenMaps
  <1>5. Ends'
    BY <1>1, <1>2, Kinds DEF IInv, TypeOK, Ends
  <1>6. Served'
    BY <1>1, <1>2, Kinds DEF IInv, TypeOK, Served, Stranded, Live
  <1> QED BY <1>3, <1>4, <1>5, <1>6 DEF IInv

LEMMA EndPushStep == ASSUME IInv, NEW m \in Maps, EndPush(m) PROVE IInv'
  <1>1. /\ pc[m] = "push" /\ insertPool[m] \subseteq m_PlayerStorage[m]
        /\ insertPool' = [insertPool EXCEPT ![m] = {}]
        /\ pc' = [pc EXCEPT ![m] = "duties"]
        /\ UNCHANGED <<m_mapMgr, instanceId, m_beingPushed, Sessions,
                       m_PlayerStorage, inactive, current, back, left, deleted,
                       erasable, terminated, ended, told, socket, logoutTime, moves>>
    BY DEF EndPush, Goto, sessionVars, playerVars, endVars
  <1>2. TypeOK' /\ Shapes' /\ Living'
    BY <1>1, Kinds DEF IInv, TypeOK, Shapes, Living, Live, PCs
  <1>3. MapsOwn' /\ PlayersFound' /\ OnTheWay' /\ Instanced' /\ BetweenMaps'
    BY <1>1, Kinds DEF IInv, TypeOK, MapsOwn, PlayersFound, OnTheWay, Instanced, Adding,
                       BetweenMaps
  <1>4. Ends'
    BY <1>1, Kinds DEF IInv, TypeOK, Ends
  <1>5. Served'
    BY <1>1, Kinds DEF IInv, TypeOK, Served, Stranded, Live, MapsOwn
  <1> QED BY <1>2, <1>3, <1>4, <1>5 DEF IInv

\* A player leaves the map he is in.
LEMMA TakeOutStep ==
    ASSUME IInv, NEW m \in Maps, NEW s \in Accounts, NEW p \in {"duties", "pass", "end"},
           pc[m] = p, m_mapMgr[s] = m, ~(pc[World] = "add" /\ current[World] = s),
           TakeOut(m, s, p),
           left' \in [Threads -> SUBSET Accounts], left'[World] = left[World],
           logoutTime' \subseteq Accounts, moves' \in Nat,
           UNCHANGED <<m_beingPushed, told, Sessions, terminated, ended, deleted,
                       erasable, socket>>
    PROVE  IInv'
  <1>1. /\ m_mapMgr' = [m_mapMgr EXCEPT ![s] = Null]
        /\ insertPool' = [insertPool EXCEPT ![m] = @ \ {s}]
        /\ m_PlayerStorage' = [m_PlayerStorage EXCEPT ![m] = @ \ {s}]
        /\ instanceId' = [instanceId EXCEPT ![s] = World]
        /\ inactive' \in {inactive, inactive \cup {m}}
        /\ pc' = [pc EXCEPT ![m] = "leave"] /\ back' = [back EXCEPT ![m] = p]
        /\ current' = [current EXCEPT ![m] = s]
    BY DEF IInv, TypeOK, TakeOut, RemoveObject, StorageWithout, Goto
  <1>2. Live(s) /\ current[m] = Null
    BY Kinds DEF IInv, Living, Shapes
  <1>3. TypeOK'
    BY <1>1, Kinds DEF IInv, TypeOK, PCs
  <1>4. Shapes' /\ Living'
    BY <1>1, <1>2, Kinds DEF IInv, TypeOK, Shapes, Living, Live
  <1>5. MapsOwn' /\ PlayersFound' /\ OnTheWay' /\ Instanced'
    BY <1>1, <1>2, Kinds DEF IInv, TypeOK, MapsOwn, PlayersFound, OnTheWay, Instanced, Adding
  <1>6. BetweenMaps'
    BY <1>1, <1>2, Kinds DEF IInv, TypeOK, Shapes, BetweenMaps
  <1>7. Ends'
    BY <1>1, <1>2, Kinds DEF IInv, TypeOK, Ends
  <1>8. Served'
    BY <1>1, <1>2, Kinds DEF IInv, TypeOK, Served, Stranded, Live
  <1> QED BY <1>3, <1>4, <1>5, <1>6, <1>7, <1>8 DEF IInv

LEMMA TeleportPlayerStep ==
    ASSUME IInv, NEW m \in Maps, NEW s \in Accounts, TeleportPlayer(m, s) PROVE IInv'
  <1>1. m_mapMgr[s] = m /\ instanceId[s] = m
    BY DEF IInv, MapsOwn, TeleportPlayer
  <1>2. ~(pc[World] = "add" /\ current[World] = s)
    BY <1>1, Kinds DEF IInv, BetweenMaps
  <1>3. /\ left' \in [Threads -> SUBSET Accounts] /\ left' = left
        /\ logoutTime' \subseteq Accounts /\ moves' \in Nat
    BY DEF IInv, TypeOK, TeleportPlayer, sessionVars
  <1> QED BY <1>1, <1>2, <1>3, TakeOutStep DEF TeleportPlayer, sessionVars, endVars

LEMMA EjectPlayerStep ==
    ASSUME IInv, NEW m \in Maps, NEW s \in Accounts, EjectPlayer(m, s) PROVE IInv'
  <1>1. m_mapMgr[s] = m /\ instanceId[s] = m
    BY DEF IInv, MapsOwn, EjectPlayer
  <1>2. ~(pc[World] = "add" /\ current[World] = s)
    BY <1>1, Kinds DEF IInv, BetweenMaps
  <1>3. /\ left' \in [Threads -> SUBSET Accounts] /\ left' = left
        /\ logoutTime' \subseteq Accounts /\ moves' \in Nat
    BY DEF IInv, TypeOK, EjectPlayer, sessionVars
  <1> QED BY <1>1, <1>2, <1>3, TakeOutStep DEF EjectPlayer, sessionVars, endVars

LEMMA HandleTeleportStep ==
    ASSUME IInv, NEW m \in Maps, NEW s \in Accounts, HandleTeleport(m, s) PROVE IInv'
  <1>1. m_mapMgr[s] = m /\ instanceId[s] = m /\ pc[m] = "pass"
    BY DEF HandleTeleport, Updating, Visiting, WrongThread
  <1>2. ~(pc[World] = "add" /\ current[World] = s)
    BY <1>1, Kinds DEF IInv, BetweenMaps
  <1>3. /\ left' \in [Threads -> SUBSET Accounts] /\ left'[World] = left[World]
        /\ logoutTime' \subseteq Accounts /\ moves' \in Nat
    BY Kinds DEF IInv, TypeOK, HandleTeleport, Visited, TimerSet
  <1> QED BY <1>1, <1>2, <1>3, TakeOutStep DEF HandleTeleport, endVars

LEMMA DeleteMapStep == ASSUME IInv, NEW m \in Maps, DeleteMap(m) PROVE IInv'
  <1>1. /\ pc[m] = "end" /\ m_PlayerStorage[m] = {}
        /\ ended' = ended \cup {m} /\ terminated' = terminated \cup {m}
        /\ pc' = [pc EXCEPT ![m] = "rest"]
        /\ Sessions' = [Sessions EXCEPT ![m] = {}]
        /\ insertPool' = [insertPool EXCEPT ![m] = {}]
        /\ UNCHANGED <<m_mapMgr, instanceId, m_beingPushed, m_PlayerStorage,
                       inactive, current, back, left, deleted, erasable, told,
                       socket, logoutTime, moves>>
    BY DEF DeleteMap, Goto, sessionVars, playerVars
  <1>2. TypeOK' /\ Shapes' /\ Living'
    BY <1>1, Kinds DEF IInv, TypeOK, Shapes, Living, Live, PCs
  <1>3. MapsOwn'
    BY <1>1, Kinds DEF IInv, TypeOK, MapsOwn
  <1>4. PlayersFound' /\ OnTheWay'
    BY <1>1, Kinds DEF IInv, TypeOK, PlayersFound, OnTheWay
  <1>5. Instanced' /\ BetweenMaps'
    BY <1>1, Kinds DEF IInv, TypeOK, Instanced, Adding, BetweenMaps
  <1>6. Ends'
    BY <1>1, Kinds DEF IInv, TypeOK, Ends
  <1>7. Served'
    <2> SUFFICES ASSUME NEW u \in Accounts, Live(u)', ~Stranded(u)'
                 PROVE  \/ u \in Sessions'[instanceId[u]]
                        \/ /\ instanceId[u] = World
                           /\ \E k \in Maps : pc'[k] = "leave" /\ current[k] = u
                        \/ /\ instanceId[u] # World
                           /\ u \in insertPool'[instanceId[u]] /\ m_beingPushed[u]
      BY <1>1 DEF Served
    <2>1. /\ Live(u) /\ ~Stranded(u) /\ m_mapMgr[u] # m /\ instanceId[u] \in Threads
          /\ instanceId[u] # m
      BY <1>1, Kinds DEF Live, Stranded, IInv, TypeOK, Instanced
    <2> QED BY <1>1, <2>1, Kinds DEF IInv, TypeOK, Served
  <1> QED BY <1>2, <1>3, <1>4, <1>5, <1>6, <1>7 DEF IInv

LEMMA LogoutStep ==
    ASSUME IInv, NEW t \in Threads, NEW s \in Accounts, Logout(t, s) PROVE IInv'
  <1>1. /\ pc[t] = "pass" /\ instanceId[s] = t
        /\ \A u \in Threads \ {t} : current[u] # s /\ s \notin Sessions[u]
        /\ Sessions' = [Sessions EXCEPT ![t] = @ \ {s}]
        /\ left' = [left EXCEPT ![t] = @ \ {s}]
        /\ told' = [told EXCEPT ![s] = Null]
        /\ UNCHANGED <<socket, logoutTime, m_beingPushed, terminated, ended, pc,
                       back, current, moves>>
    BY DEF Logout, Updating, Visiting, WrongThread, Visited, MustLogout, Alone, endVars
  <1>2. /\ deleted' \subseteq Accounts /\ erasable' \subseteq Accounts
        /\ deleted' \cup erasable' = deleted \cup erasable \cup {s}
    BY DEF IInv, TypeOK, Logout
  <1>3. current[t] = Null /\ \A u \in Threads : current[u] # s
    BY <1>1, Kinds DEF IInv, Shapes
  <1>4. /\ m_mapMgr' = [m_mapMgr EXCEPT ![s] = Null]
        /\ insertPool' \in [Maps -> SUBSET Accounts]
        /\ m_PlayerStorage' \in [Maps -> SUBSET Accounts]
        /\ \A m \in Maps : /\ insertPool'[m] = insertPool[m] \ {s}
                           /\ m_PlayerStorage'[m] = m_PlayerStorage[m] \ {s}
        /\ instanceId' = [instanceId EXCEPT ![s] = World]
        /\ inactive' \subseteq Maps
    <2>1. CASE m_mapMgr[s] = Null
      <3>1. instanceId[s] = World
        BY <2>1, Kinds DEF IInv, TypeOK, Instanced
      <3>2. \A m \in Maps : s \notin insertPool[m] /\ s \notin m_PlayerStorage[m]
        BY <2>1, Kinds DEF IInv, MapsOwn
      <3> QED BY <2>1, <3>1, <3>2 DEF IInv, TypeOK, Logout
    <2>2. CASE m_mapMgr[s] # Null
      <3> DEFINE m == m_mapMgr[s]
      <3>1. m \in Maps /\ RemoveObject(m, s)
        BY <2>2 DEF IInv, TypeOK, Logout
      <3>2. \A k \in Maps \ {m} : s \notin insertPool[k] /\ s \notin m_PlayerStorage[k]
        BY DEF IInv, MapsOwn
      <3> HIDE DEF m
      <3> QED BY <3>1, <3>2 DEF IInv, TypeOK, RemoveObject, StorageWithout
    <2> QED BY <2>1, <2>2
  <1>5. TypeOK'
    BY <1>1, <1>2, <1>4, Kinds DEF IInv, TypeOK
  <1>6. Shapes'
    BY <1>1, <1>3, Kinds DEF IInv, TypeOK, Shapes
  <1>7. Living'
    <2>1. \A u \in Accounts \ {s} : Live(u)' <=> Live(u)
      BY <1>2 DEF Live
    <2>2. \A u \in Threads : s \notin Sessions'[u] /\ Sessions'[u] \subseteq Sessions[u]
      BY <1>1 DEF IInv, TypeOK
    <2>3. \A u \in Accounts : m_mapMgr'[u] # Null => u # s /\ m_mapMgr[u] # Null
      BY <1>4 DEF IInv, TypeOK
    <2>4. current' = current /\ current \in [Threads -> Accounts \cup {Null}]
          /\ Sessions \in [Threads -> SUBSET Accounts]
      BY <1>1 DEF IInv, TypeOK
    <2>5. \A u \in Accounts : m_mapMgr'[u] # Null => Live(u)'
      BY <2>1, <2>3 DEF IInv, Living
    <2>6. ASSUME NEW k \in Threads,
                 NEW u \in Sessions'[k] \cup ({current'[k]} \ {Null})
          PROVE  Live(u)'
      <3>1. u \in Accounts \ {s} /\ u \in Sessions[k] \cup ({current[k]} \ {Null})
        BY <1>3, <2>2, <2>4
      <3> QED BY <2>1, <3>1 DEF IInv, Living
    <2> QED BY <2>5, <2>6 DEF Living
  <1>8. MapsOwn'
    BY <1>1, <1>4, Kinds DEF IInv, TypeOK, MapsOwn
  <1>9. PlayersFound' /\ OnTheWay' /\ Instanced'
    BY <1>1, <1>4, Kinds DEF IInv, TypeOK, PlayersFound, OnTheWay, Instanced, Adding
  <1>10. BetweenMaps'
    BY <1>1, <1>3, <1>4, Kinds DEF IInv, TypeOK, BetweenMaps, Shapes
  <1>11. Ends'
    BY <1>1, <1>3, <1>4, Kinds DEF IInv, TypeOK, Ends
  <1>12. Served'
    BY <1>1, <1>2, <1>4, Kinds DEF IInv, TypeOK, Served, Stranded, Live
  <1> QED BY <1>5, <1>6, <1>7, <1>8, <1>9, <1>10, <1>11, <1>12 DEF IInv

\* The world thread finds a map for the player, or sends him home.
LEMMA HandleWorldportAckStep ==
    ASSUME IInv, NEW s \in Accounts, HandleWorldportAck(s) PROVE IInv'
  <1>1. /\ pc[World] = "pass" /\ s \in left[World] /\ instanceId[s] = World
        /\ \A u \in Threads \ {World} : current[u] # s /\ s \notin Sessions[u]
        /\ told[s] # Null /\ m_mapMgr[s] = Null
        /\ left' = [left EXCEPT ![World] = @ \ {s}]
        /\ logoutTime' \subseteq Accounts
        /\ UNCHANGED <<deleted, erasable, socket, instanceId, Sessions, insertPool,
                       m_PlayerStorage, inactive, terminated, ended, back, moves>>
    BY DEF HandleWorldportAck, Updating, Visiting, WrongThread, Visited, Alone,
           IInv, TypeOK, TimerSet, mapVars, endVars
  <1>2. /\ current[World] = Null /\ Live(s)
        /\ \A m \in Maps : s \notin insertPool[m] /\ s \notin m_PlayerStorage[m]
    BY <1>1, Kinds DEF IInv, Shapes, Living, MapsOwn
  <1>3. CASE told[s] \in ended \cup terminated
    <2>1. /\ told' = [told EXCEPT ![s] = Home]
          /\ m_beingPushed' = [m_beingPushed EXCEPT ![s] = FALSE]
          /\ UNCHANGED <<m_mapMgr, pc, current>>
      BY <1>3 DEF HandleWorldportAck, PushedAfterFailure
    <2>2. TypeOK' /\ Shapes' /\ Living'
      BY <1>1, <1>2, <2>1, Kinds DEF IInv, TypeOK, Shapes, Living, Live
    <2>3. MapsOwn' /\ PlayersFound' /\ OnTheWay' /\ Instanced' /\ BetweenMaps' /\ Ends'
      BY <1>1, <1>2, <2>1, Kinds DEF IInv, TypeOK, MapsOwn, PlayersFound, OnTheWay, Instanced,
                                     Adding, BetweenMaps, Ends
    <2>4. Served'
      BY <1>1, <1>2, <2>1, Kinds DEF IInv, TypeOK, Served, Stranded, Live
    <2> QED BY <2>2, <2>3, <2>4 DEF IInv
  <1>4. CASE told[s] \notin ended \cup terminated
    <2> DEFINE m == told[s]
    <2>1. /\ m_mapMgr' = [m_mapMgr EXCEPT ![s] = m]
          /\ told' = [told EXCEPT ![s] = Null]
          /\ m_beingPushed' = [m_beingPushed EXCEPT ![s] = TRUE]
          /\ pc' = [pc EXCEPT ![World] = "add"]
          /\ current' = [current EXCEPT ![World] = s]
      BY <1>4 DEF HandleWorldportAck, Goto
    <2>2. m \in Maps
      BY <1>1 DEF IInv, TypeOK
    <2> HIDE DEF m
    <2>3. TypeOK'
      BY <1>1, <1>2, <2>1, <2>2, Kinds DEF IInv, TypeOK, PCs
    <2>4. Shapes' /\ Living'
      BY <1>1, <1>2, <2>1, <2>2, Kinds DEF IInv, TypeOK, Shapes, Living, Live
    <2>5. MapsOwn' /\ PlayersFound' /\ OnTheWay' /\ Instanced'
      BY <1>1, <1>2, <2>1, <2>2, Kinds DEF IInv, TypeOK, MapsOwn, PlayersFound,
                                           OnTheWay, Instanced, Adding
    <2>6. BetweenMaps' /\ Ends'
      BY <1>1, <1>2, <2>1, <2>2, Kinds DEF IInv, TypeOK, Shapes, BetweenMaps, Ends
    <2>7. Served'
      BY <1>1, <1>2, <2>1, <2>2, Kinds DEF IInv, TypeOK, Served, Stranded, Live
    <2> QED BY <2>3, <2>4, <2>5, <2>6, <2>7 DEF IInv
  <1> QED BY <1>3, <1>4

\* A map that has ended meanwhile keeps nobody.
LEMMA AddObjectStep == ASSUME IInv, AddObject PROVE IInv'
  <1> DEFINE s == current[World]
             m == m_mapMgr[s]
  <1>1. /\ pc[World] = "add" /\ s \in Accounts /\ m \in Maps
        /\ instanceId[s] = World
    BY Kinds DEF AddObject, IInv, TypeOK, Shapes, BetweenMaps
  <1>2. /\ insertPool' = IF m \in ended THEN insertPool
                          ELSE [insertPool EXCEPT ![m] = @ \cup {s}]
        /\ pc' = [pc EXCEPT ![World] = "added"]
        /\ UNCHANGED <<m_mapMgr, instanceId, m_beingPushed, Sessions, m_PlayerStorage,
                       inactive, current, back, left, deleted, erasable,
                       terminated, ended, told, socket, logoutTime, moves>>
    BY <1>1 DEF AddObject, Goto, sessionVars, playerVars, endVars
  <1>3. TypeOK' /\ Shapes' /\ Living'
    BY <1>1, <1>2, Kinds DEF IInv, TypeOK, Shapes, Living, Live, PCs
  <1>4. MapsOwn' /\ Instanced' /\ OnTheWay'
    BY <1>1, <1>2, Kinds DEF IInv, TypeOK, MapsOwn, Instanced, Adding, OnTheWay
  <1>5. PlayersFound'
    BY <1>1, <1>2, Kinds DEF IInv, TypeOK, PlayersFound
  <1>6. BetweenMaps' /\ Ends'
    BY <1>1, <1>2, Kinds DEF IInv, TypeOK, BetweenMaps, Ends
  <1>7. Served'
    BY <1>1, <1>2, Kinds DEF IInv, TypeOK, Served, Stranded, Live
  <1> QED BY <1>3, <1>4, <1>5, <1>6, <1>7 DEF IInv

\* The player who was added is in his map, on his way there, or out again.
LEMMA SetInstanceStep == ASSUME IInv, SetInstance PROVE IInv'
  <1> DEFINE s == current[World]
  <1>1. /\ pc[World] = "added" /\ pc' = [pc EXCEPT ![World] = "pass"]
        /\ current' = [current EXCEPT ![World] = Null]
        /\ UNCHANGED <<m_mapMgr, insertPool, m_PlayerStorage, inactive, back, left,
                       deleted, erasable, terminated, ended, socket, logoutTime, moves>>
    BY DEF SetInstance, Goto, sessionVars, mapVars, endVars
  <1>2. s \in Accounts /\ s \notin left[World]
    BY <1>1, Kinds DEF IInv, TypeOK, Shapes
  <1>3. CASE m_mapMgr[s] = Null
    <2>1. /\ m_beingPushed' = [m_beingPushed EXCEPT ![s] = FALSE]
          /\ told' = [told EXCEPT ![s] = Home]
          /\ UNCHANGED <<instanceId, Sessions>>
      BY <1>3 DEF SetInstance, AddFailed
    <2>2. instanceId[s] = World
      BY <1>2, <1>3, Kinds DEF IInv, TypeOK, Instanced
    <2> HIDE DEF s
    <2>3. TypeOK' /\ Shapes' /\ Living'
      BY <1>1, <1>2, <2>1, Kinds DEF IInv, TypeOK, Shapes, Living, Live, PCs
    <2>4. MapsOwn' /\ PlayersFound' /\ OnTheWay' /\ Instanced' /\ BetweenMaps' /\ Ends'
      BY <1>1, <1>2, <1>3, <2>1, Kinds DEF IInv, TypeOK, MapsOwn, PlayersFound,
                                    OnTheWay, Instanced, Adding, BetweenMaps, Ends, s
    <2>5. Served'
      BY <1>1, <1>2, <2>1, <2>2, Kinds DEF IInv, TypeOK, Served, Stranded, Live
    <2> QED BY <2>3, <2>4, <2>5 DEF IInv
  <1>4. CASE m_mapMgr[s] # Null
    <2> DEFINE m == m_mapMgr[s]
    <2>1. m \in Maps
      BY <1>2, <1>4 DEF IInv, TypeOK
    <2>2. /\ instanceId' = [instanceId EXCEPT ![s] = m]
          /\ Sessions' = [Sessions EXCEPT ![World] = @ \ {s}]
          /\ UNCHANGED <<m_beingPushed, told>>
      BY <1>4, <2>1, Kinds DEF SetInstance, AddFailed, NewInstance
    <2>3. s \in Sessions[m] \/ m \in ended \/ (s \in insertPool[m] /\ m_beingPushed[s])
      BY <1>1, <1>2, <2>1 DEF IInv, PlayersFound, MapsOwn
    <2>4. TypeOK'
      BY <1>1, <1>2, <2>1, <2>2, Kinds DEF IInv, TypeOK, PCs
    <2>5. Shapes' /\ Living'
      BY <1>1, <1>2, <2>1, <2>2, Kinds DEF IInv, TypeOK, Shapes, Living, Live
    <2>6. MapsOwn' /\ PlayersFound' /\ OnTheWay' /\ Instanced'
      BY <1>1, <1>2, <2>1, <2>2, Kinds DEF IInv, TypeOK, MapsOwn, PlayersFound,
                                      OnTheWay, Instanced, Adding
    <2>7. BetweenMaps' /\ Ends'
      BY <1>1, <1>2, <2>1, <2>2, Kinds DEF IInv, TypeOK, BetweenMaps, Ends
    <2>8. Served'
      BY <1>1, <1>2, <2>1, <2>2, <2>3, Kinds DEF IInv, TypeOK, Served, Stranded, Live
    <2> QED BY <2>4, <2>5, <2>6, <2>7, <2>8 DEF IInv
  <1> QED BY <1>3, <1>4

LEMMA NextIInv == IInv /\ [Next]_vars => IInv'
  <1> SUFFICES ASSUME IInv, [Next]_vars PROVE IInv'
    OBVIOUS
  <1>1. ASSUME NEW t \in Threads, Pass(t) PROVE IInv'
    BY <1>1, BeginPassStep, EndPassStep, DropSessionStep, UpdateSessionStep, LogoutStep
       DEF Pass
  <1>2. CASE WorldThread
    BY <1>1, <1>2, Kinds, SetInstanceStep, HandleWorldportAckStep DEF WorldThread
  <1>3. ASSUME NEW m \in Maps, MapThread(m) PROVE IInv'
    BY <1>1, <1>3, Kinds, BeginLoopStep, EndPushStep, DeleteMapStep, PushStep,
       TeleportPlayerStep, HandleTeleportStep, EjectPlayerStep DEF MapThread
  <1>4. ASSUME NEW m \in Maps, Return(m) PROVE IInv'
    BY <1>4, GiveBackStep DEF Return
  <1>5. CASE UNCHANGED vars
    <2>1. TypeOK' /\ Shapes' /\ Ends'
      BY <1>5 DEF IInv, TypeOK, Shapes, Ends, vars, sessionVars, playerVars, mapVars,
                  endVars, threadVars
    <2> QED BY <1>5, <2>1, Stay
            DEF vars, Live, sessionVars, playerVars, mapVars, endVars, threadVars
  <1> QED BY <1>2, <1>3, <1>4, <1>5, DisconnectStep, AddObjectStep, TerminateStep DEF Next

\* The inductive invariant of map threads.
THEOREM MapsInvariance == Spec => []IInv
  BY InitIInv, NextIInv, PTL DEF Spec

\* A player is in one place and his session is handled there, by the thread of
\* his map or, while he is in none, by the world thread (Player::AddToWorld,
\* MapMgr::Do, WorldSession::Update).  A map that ends leaves nobody behind but
\* who was on his way there (TeleportPlayers).
THEOREM PlayersInPlace == Spec => []InPlace
  <1>1. IInv => InOneMap
    BY Kinds DEF IInv, TypeOK, Living, MapsOwn, PlayersFound, Stranded, InOneMap
  <1>2. IInv => HandledInPlace
    BY Kinds DEF IInv, TypeOK, Instanced, Adding, HandledInPlace, Updating, Visiting,
                 WrongThread
  <1>3. IInv => NobodyLeftBehind
    <2> SUFFICES ASSUME IInv, NEW s \in Accounts, Stranded(s)
                 PROVE  /\ m_beingPushed[s]
                        /\ \A k \in Maps : s \notin insertPool[k] \cup m_PlayerStorage[k]
                                                     \cup Sessions[k]
      BY DEF NobodyLeftBehind
    <2> DEFINE m == m_mapMgr[s]
    <2>1. m \in Maps /\ m \in ended
      BY DEF Stranded, IInv, TypeOK
    <2>2. s \notin m_PlayerStorage[m] /\ s \notin insertPool[m]
      BY <2>1 DEF IInv, Ends
    <2>3. m_beingPushed[s] /\ \A k \in Maps : s \notin Sessions[k]
      BY <2>1, <2>2 DEF IInv, PlayersFound, OnTheWay
    <2>4. \A k \in Maps : s \notin insertPool[k] /\ s \notin m_PlayerStorage[k]
      BY <2>2 DEF IInv, MapsOwn
    <2> QED BY <2>3, <2>4
  <1>4. IInv => InPlace
    BY <1>1, <1>2, <1>3 DEF IInv, InPlace
  <1> QED BY <1>4, MapsInvariance, PTL

\* No session gets lost between two threads (AddGlobalSession, PushToWorld, the
\* drop of sessions with another instance id) but with a map that ends.
THEOREM SessionsServed == Spec => []Served
  <1>1. IInv => Served
    BY DEF IInv
  <1> QED BY <1>1, MapsInvariance, PTL
=============================================================================
