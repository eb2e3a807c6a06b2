------------------------------ MODULE MapThreads ------------------------------
(***************************************************************************)
(* Map threads and the sessions that move between them (world/MapMgr,      *)
(* World::UpdateSessions, WorldSession::Update, Player::AddToWorld).       *)
(*                                                                         *)
(* A session is updated by the world thread while its player is in no map  *)
(* and by the map's thread otherwise; instanceId says by whom.  A player   *)
(* enters a map through its insert pool, which the map's thread empties    *)
(* with m_objectinsertlock held, and leaves it by the map's own hand.  The *)
(* world thread holds SessionsMutex during its whole pass.                 *)
(*                                                                         *)
(* A session and its player are one.  A client that is told to go to a map *)
(* answers some time later; its answer makes a handler add the player.     *)
(***************************************************************************)
EXTENDS Naturals, FiniteSets

CONSTANTS
    Accounts,     \* the sessions
    Maps, Home,   \* Home is a continent and never ends
    World,        \* the world thread; as an instance id, 0
    Null,
    Login,        \* the map each player was in when he was saved
    MaxMoves      \* how often players leave a map (bound)

ASSUME MapsAssumption ==
    /\ Home \in Maps /\ World \notin Maps
    /\ Null \notin Maps \cup {World} \cup Accounts
    /\ Login \in [Accounts -> Maps]
    /\ MaxMoves \in Nat

Threads == Maps \cup {World}

VARIABLES
    \* sessions
    deleted,        \* they exist no more
    socket,         \* those with a client
    logoutTime,     \* those whose logout timer is set; it runs out before
                    \* the session's next update
    instanceId,
    \* players
    m_mapMgr,
    m_beingPushed,
    told,           \* the map the client was told to go to
    \* sets of sessions and players
    Sessions,       \* thread -> its session set
    insertPool,     \* map -> m_objectinsertpool
    m_PlayerStorage,
    inactive,       \* maps with InactiveMoveTime set
    terminated,     \* maps that were told to shut down
    ended,          \* maps that were deleted
    \* threads
    pc,
    back,           \* where a map's thread goes on after "leave"
    left,           \* sessions the pass has not come to
    current,        \* the session whose handler the thread is in, or which
                    \* it removes from its map
    erasable,       \* World: ErasableSessions
    moves

sessionVars == <<deleted, socket, logoutTime>>
playerVars == <<m_mapMgr, m_beingPushed, told>>
mapVars == <<insertPool, m_PlayerStorage, inactive>>
endVars == <<terminated, ended>>
threadVars == <<pc, back, left, current, erasable>>
vars == <<sessionVars, instanceId, playerVars, Sessions, mapVars, endVars,
          threadVars, moves>>

\* pc: "rest", "pass" (over the sessions), "add", "added" (in AddToWorld);
\* a map's also "push", "duties", "end" and, when a player has been taken out
\* of the map and its session is to join the world's, "leave".
PCs == {"rest", "pass", "add", "added", "push", "duties", "end", "leave"}

\* Who holds the locks.
SessionsMutex == pc[World] \in {"pass", "add", "added"}
InsertLock(m) == pc[m] = "push"

\* Operators named ..._bug are the mistakes the properties are tested
\* against; no specification uses them.

\* "We're being updated by the wrong thread."
WrongThread(t, s) == instanceId[s] # t

\* Whether RemoveObject gives the session back to the world thread.
GivenBack_bug(s) == s \in socket
GivenBack(s) == TRUE

\* Who is left in the storage of m when s is removed.
StorageWithout_bug(m, s) == m_PlayerStorage[m]
StorageWithout(m, s) == m_PlayerStorage[m] \ {s}

\* "Add failed."
AddFailed(s) == m_mapMgr[s] = Null

\* The instance id of a session whose player has been added to a map.
NewInstance(s) == m_mapMgr[s]

\* "eject from instance": what is left of m_beingPushed when there is no map.
PushedAfterFailure_bug == TRUE
PushedAfterFailure == FALSE

\* "Check if the player is in the process of being moved."
BeingMoved(s) == m_beingPushed[s]

\* The handlers of a session whose client is gone still run, and its timer
\* is set.
TimerSet(s) == IF s \notin socket /\ ~BeingMoved(s) THEN {s} ELSE {}

-------------------------------------------------------------------------------
(* Players log in: the world thread's next update adds them to a map.      *)

Init ==
    /\ deleted = {} /\ socket = Accounts /\ logoutTime = {}
    /\ instanceId = [s \in Accounts |-> World]
    /\ m_mapMgr = [s \in Accounts |-> Null]
    /\ m_beingPushed = [s \in Accounts |-> FALSE]
    /\ told = Login
    /\ Sessions = [t \in Threads |-> IF t = World THEN Accounts ELSE {}]
    /\ insertPool = [m \in Maps |-> {}]
    /\ m_PlayerStorage = [m \in Maps |-> {}]
    /\ inactive = Maps \ {Home}
    /\ terminated = {} /\ ended = {}
    /\ pc = [t \in Threads |-> "rest"]
    /\ back = [m \in Maps |-> "rest"]
    /\ left = [t \in Threads |-> {}]
    /\ current = [t \in Threads |-> Null]
    /\ erasable = {}
    /\ moves = 0

\* The client's connection is lost.
Disconnect(s) ==
    /\ s \in socket /\ s \notin deleted
    /\ socket' = socket \ {s}
    /\ UNCHANGED <<deleted, logoutTime, instanceId, playerVars, Sessions,
                   mapVars, endVars, threadVars, moves>>

Goto(t, p) == pc' = [pc EXCEPT ![t] = p]

-------------------------------------------------------------------------------
(* Player::RemoveFromWorld, by the thread of its map m: the session's      *)
(* instance id is reset at once, ...                                       *)

RemoveObject(m, s) ==
    /\ m_mapMgr' = [m_mapMgr EXCEPT ![s] = Null]
    /\ insertPool' = [insertPool EXCEPT ![m] = @ \ {s}]
    /\ m_PlayerStorage' = [m_PlayerStorage EXCEPT ![m] = StorageWithout(m, s)]
    /\ instanceId' = [instanceId EXCEPT ![s] = World]
    /\ inactive' = IF m_PlayerStorage'[m] = {} /\ m # Home
                   THEN inactive \cup {m} ELSE inactive

\* ... and the session given back when the world thread is not in its pass.
\* The teleport started at p goes on there; left is what the pass, if this
\* is one, has yet to visit.
TakeOut(m, s, p) ==
    /\ RemoveObject(m, s)
    /\ Goto(m, "leave")
    /\ back' = [back EXCEPT ![m] = p]
    /\ current' = [current EXCEPT ![m] = s]

\* AddGlobalSession, and SMSG_NEW_WORLD sends the client to d.  A handler
\* that was running for this session ends: "a packet has changed our map".
\* Who is put out of a map that ends is sent home.
GiveBack(m, d) ==
    LET s == current[m] IN
    /\ pc[m] = "leave" /\ ~SessionsMutex
    /\ d # m /\ (back[m] = "end" => d = Home)
    /\ Sessions' = [Sessions EXCEPT
                      ![World] = IF GivenBack(s) THEN @ \cup {s} ELSE @,
                      ![m] = IF back[m] = "pass" THEN @ \ {s} ELSE @]
    /\ told' = [told EXCEPT ![s] = d]
    /\ Goto(m, back[m])
    /\ back' = [back EXCEPT ![m] = "rest"]
    /\ current' = [current EXCEPT ![m] = Null]
    /\ UNCHANGED <<sessionVars, instanceId, m_mapMgr, m_beingPushed, mapVars,
                   endVars, left, erasable, moves>>

-------------------------------------------------------------------------------
(* MapMgr::Do                                                              *)

BeginLoop(m) ==
    /\ pc[m] = "rest" /\ m \notin ended
    /\ Goto(m, IF insertPool[m] = {} THEN "duties" ELSE "push")
    /\ UNCHANGED <<sessionVars, instanceId, playerVars, Sessions, mapVars,
                   endVars, back, left, current, erasable, moves>>

\* PushToWorld
Push(m, s) ==
    /\ pc[m] = "push" /\ s \in insertPool[m] \ m_PlayerStorage[m]
    /\ m_PlayerStorage' = [m_PlayerStorage EXCEPT ![m] = @ \cup {s}]
    /\ Sessions' = [Sessions EXCEPT ![m] = @ \cup {s}]
    /\ instanceId' = [instanceId EXCEPT ![s] = m]
    /\ inactive' = inactive \ {m}
    /\ m_beingPushed' = [m_beingPushed EXCEPT ![s] = FALSE]
    /\ UNCHANGED <<sessionVars, m_mapMgr, told, insertPool, endVars,
                   threadVars, moves>>

EndPush(m) ==
    /\ pc[m] = "push" /\ insertPool[m] \subseteq m_PlayerStorage[m]
    /\ insertPool' = [insertPool EXCEPT ![m] = {}]
    /\ Goto(m, "duties")
    /\ UNCHANGED <<sessionVars, instanceId, playerVars, Sessions,
                   m_PlayerStorage, inactive, endVars, back, left,
                   current, erasable, moves>>

\* Events, spells and the players' own update teleport players.
TeleportPlayer(m, s) ==
    /\ pc[m] = "duties" /\ s \in m_PlayerStorage[m] /\ moves < MaxMoves
    /\ TakeOut(m, s, "duties")
    /\ moves' = moves + 1
    /\ UNCHANGED <<sessionVars, m_beingPushed, told, Sessions, endVars, left,
                   erasable>>

\* The passes over the sessions: World::UpdateSessions and the end of
\* _PerformObjectDuties.
BeginPass(t) ==
    /\ pc[t] = IF t = World THEN "rest" ELSE "duties"
    /\ Goto(t, "pass")
    /\ left' = [left EXCEPT ![t] = Sessions[t]]
    /\ UNCHANGED <<sessionVars, instanceId, playerVars, Sessions, mapVars,
                   endVars, back, current, erasable, moves>>

\* A map's thread leaves its loop when it is told to, or has been inactive
\* for long.  Until it has deleted the map players still find it.
MustEnd(m) == m \in inactive \cup terminated

EndPass(t) ==
    /\ pc[t] = "pass" /\ left[t] = {}
    /\ \/ t = World /\ Goto(t, "rest")
       \/ t \in Maps \ terminated /\ Goto(t, "rest")
       \/ t \in Maps /\ MustEnd(t) /\ Goto(t, "end")
    /\ deleted' = deleted \cup IF t = World THEN erasable ELSE {}
    /\ erasable' = IF t = World THEN {} ELSE erasable
    /\ UNCHANGED <<socket, logoutTime, instanceId, playerVars, Sessions,
                   mapVars, endVars, back, left, current, moves>>

\* InstanceShutdown, by the world thread.
Terminate(m) ==
    /\ m \in Maps \ (terminated \cup {Home})
    /\ terminated' = terminated \cup {m}
    /\ UNCHANGED <<sessionVars, instanceId, playerVars, Sessions, mapVars,
                   ended, threadVars, moves>>

\* "Teleport any left-over players out."
EjectPlayer(m, s) ==
    /\ pc[m] = "end" /\ s \in m_PlayerStorage[m]
    /\ TakeOut(m, s, "end")
    /\ UNCHANGED <<sessionVars, m_beingPushed, told, Sessions, endVars, left,
                   erasable, moves>>

\* delete this
DeleteMap(m) ==
    /\ pc[m] = "end" /\ m_PlayerStorage[m] = {}
    /\ ended' = ended \cup {m}
    /\ terminated' = terminated \cup {m}
    /\ Goto(m, "rest")
    /\ Sessions' = [Sessions EXCEPT ![m] = {}]
    /\ insertPool' = [insertPool EXCEPT ![m] = {}]
    /\ UNCHANGED <<sessionVars, instanceId, playerVars, m_PlayerStorage,
                   inactive, back, left, current, erasable, moves>>

-------------------------------------------------------------------------------
(* A pass comes to a session.                                              *)

Visiting(t, s) == pc[t] = "pass" /\ s \in left[t]
Visited(t, s) == left' = [left EXCEPT ![t] = @ \ {s}]

\* The session belongs to another thread and is taken off the list.
DropSession(t, s) ==
    /\ Visiting(t, s) /\ WrongThread(t, s)
    /\ Visited(t, s)
    /\ Sessions' = [Sessions EXCEPT ![t] = @ \ {s}]
    /\ UNCHANGED <<sessionVars, instanceId, playerVars, mapVars, endVars, pc,
                   back, current, erasable, moves>>

\* No other thread is in a handler of the session, or has yet to take it off
\* its list: to load a map takes a client longer than a map's loop, and so
\* does the logout delay.
Alone(t, s) ==
    \A u \in Threads \ {t} : current[u] # s /\ s \notin Sessions[u]

\* The timer has run out.
MustLogout(t, s) ==
    s \notin socket /\ s \in logoutTime /\ ~BeingMoved(s) /\ Alone(t, s)

Updating(t, s) == Visiting(t, s) /\ ~WrongThread(t, s)

\* No packet does anything here, and the session stays.  "Don't update
\* players not on our map."
UpdateSession(t, s) ==
    /\ Updating(t, s)
    /\ ~MustLogout(t, s)
    /\ Visited(t, s)
    /\ logoutTime' = IF t = World \/ m_mapMgr[s] \in {t, Null}
                     THEN logoutTime \cup TimerSet(s) ELSE logoutTime
    /\ UNCHANGED <<deleted, socket, instanceId, playerVars, Sessions, mapVars,
                   endVars, pc, back, current, erasable, moves>>

\* LogoutPlayer and the session's deletion, by the world thread later.
Logout(t, s) ==
    /\ Updating(t, s) /\ MustLogout(t, s)
    /\ Visited(t, s)
    /\ Sessions' = [Sessions EXCEPT ![t] = @ \ {s}]
    /\ IF m_mapMgr[s] = Null
       THEN UNCHANGED <<m_mapMgr, insertPool, m_PlayerStorage, instanceId, inactive>>
       ELSE RemoveObject(m_mapMgr[s], s)
    /\ told' = [told EXCEPT ![s] = Null]
    /\ IF t = World
       THEN erasable' = erasable \cup {s} /\ UNCHANGED deleted
       ELSE deleted' = deleted \cup {s} /\ UNCHANGED erasable
    /\ UNCHANGED <<socket, logoutTime, m_beingPushed, endVars, pc, back, current, moves>>

\* A handler teleports the player.
HandleTeleport(m, s) ==
    /\ Updating(m, s) /\ m_mapMgr[s] = m /\ moves < MaxMoves
    /\ s \in socket \/ ~BeingMoved(s)
    /\ Visited(m, s)
    /\ logoutTime' = logoutTime \cup TimerSet(s)
    /\ TakeOut(m, s, "pass")
    /\ moves' = moves + 1
    /\ UNCHANGED <<deleted, socket, m_beingPushed, told, Sessions, endVars, erasable>>

\* HandleMoveWorldportAckOpcode, by the world thread, since the player is in
\* no map.  AddToWorld looks the map up; when there is none, "Add failed" and
\* the player is sent home.
HandleWorldportAck(s) ==
    /\ Updating(World, s) /\ Alone(World, s)
    /\ told[s] # Null /\ m_mapMgr[s] = Null
    /\ s \in socket \/ ~BeingMoved(s)
    /\ Visited(World, s)
    /\ logoutTime' = logoutTime \cup TimerSet(s)
    /\ IF told[s] \in ended \cup terminated
       THEN /\ told' = [told EXCEPT ![s] = Home]
            /\ m_beingPushed' = [m_beingPushed EXCEPT ![s] = PushedAfterFailure]
            /\ UNCHANGED <<m_mapMgr, pc, current>>
       ELSE /\ m_mapMgr' = [m_mapMgr EXCEPT ![s] = told[s]]
            /\ told' = [told EXCEPT ![s] = Null]
            /\ m_beingPushed' = [m_beingPushed EXCEPT ![s] = TRUE]
            /\ Goto(World, "add")
            /\ current' = [current EXCEPT ![World] = s]
    /\ UNCHANGED <<deleted, socket, instanceId, Sessions, mapVars, endVars,
                   back, erasable, moves>>

\* MapMgr::AddObject; a map that was deleted meanwhile is written to all the
\* same.
AddObject ==
    LET s == current[World]
        m == m_mapMgr[s] IN
    /\ pc[World] = "add" /\ (m \in ended \/ ~InsertLock(m))
    /\ insertPool' = IF m \in ended THEN insertPool
                     ELSE [insertPool EXCEPT ![m] = @ \cup {s}]
    /\ Goto(World, "added")
    /\ UNCHANGED <<sessionVars, instanceId, playerVars, Sessions,
                   m_PlayerStorage, inactive, endVars, back, left,
                   current, erasable, moves>>

\* The map's thread may have pushed the player already, and even have taken
\* it out again, which looks like a failed add.  The update ends: "a packet
\* has changed our map".
SetInstance ==
    LET s == current[World] IN
    /\ pc[World] = "added"
    /\ IF AddFailed(s)
       THEN /\ m_beingPushed' = [m_beingPushed EXCEPT ![s] = FALSE]
            /\ told' = [told EXCEPT ![s] = Home]
            /\ UNCHANGED <<instanceId, Sessions>>
       ELSE /\ instanceId' = [instanceId EXCEPT ![s] = NewInstance(s)]
            /\ Sessions' = [Sessions EXCEPT
                              ![World] = IF NewInstance(s) = World THEN @ ELSE @ \ {s}]
            /\ UNCHANGED <<m_beingPushed, told>>
    /\ Goto(World, "pass")
    /\ current' = [current EXCEPT ![World] = Null]
    /\ UNCHANGED <<sessionVars, m_mapMgr, mapVars, endVars, back, left,
                   erasable, moves>>

-------------------------------------------------------------------------------
Pass(t) ==
    \/ BeginPass(t) \/ EndPass(t)
    \/ \E s \in Accounts :
          DropSession(t, s) \/ UpdateSession(t, s) \/ Logout(t, s)

WorldThread ==
    Pass(World) \/ SetInstance \/ \E s \in Accounts : HandleWorldportAck(s)

MapThread(m) ==
    \/ BeginLoop(m) \/ EndPush(m) \/ Pass(m) \/ DeleteMap(m)
    \/ \E s \in Accounts :
          \/ Push(m, s) \/ TeleportPlayer(m, s) \/ HandleTeleport(m, s)
          \/ EjectPlayer(m, s)

Return(m) == \E d \in Maps : GiveBack(m, d)

Next ==
    \/ \E s \in Accounts : Disconnect(s)
    \/ WorldThread \/ AddObject
    \/ \E m \in Maps : MapThread(m) \/ Return(m) \/ Terminate(m)

Spec == Init /\ [][Next]_vars

\* Every thread goes on with its loop.  Both locks are free while the thread
\* that takes them again and again sleeps, so who waits for one gets it.
Fairness ==
    /\ WF_vars(WorldThread) /\ SF_vars(AddObject)
    /\ \A m \in Maps : WF_vars(MapThread(m)) /\ SF_vars(Return(m))

FairSpec == Spec /\ Fairness

-------------------------------------------------------------------------------
Live(s) == s \notin deleted \cup erasable

\* Every variable holds a value of its kind.
TypeOK ==
    /\ deleted \subseteq Accounts /\ socket \subseteq Accounts
    /\ logoutTime \subseteq Accounts /\ erasable \subseteq Accounts
    /\ instanceId \in [Accounts -> Threads]
    /\ m_mapMgr \in [Accounts -> Maps \cup {Null}]
    /\ m_beingPushed \in [Accounts -> BOOLEAN]
    /\ told \in [Accounts -> Maps \cup {Null}]
    /\ Sessions \in [Threads -> SUBSET Accounts]
    /\ insertPool \in [Maps -> SUBSET Accounts]
    /\ m_PlayerStorage \in [Maps -> SUBSET Accounts]
    /\ inactive \subseteq Maps /\ terminated \subseteq Maps /\ ended \subseteq Maps
    /\ pc \in [Threads -> PCs] /\ back \in [Maps -> PCs]
    /\ left \in [Threads -> SUBSET Accounts]
    /\ current \in [Threads -> Accounts \cup {Null}]
    /\ moves \in Nat

\* Who was in the insert pool of a map that ended, or about to be put there:
\* "Teleport any left-over players out" does not look there.
Stranded(s) == m_mapMgr[s] \in ended

\* No session gets lost between two threads: the one its instance id names
\* has it in its list, or will have after a step that is under way.
Served ==
    \A s \in Accounts : Live(s) /\ ~Stranded(s) =>
        LET t == instanceId[s] IN
        \/ s \in Sessions[t]
        \/ t = World /\ \E m \in Maps : pc[m] = "leave" /\ current[m] = s
        \/ t # World /\ s \in insertPool[t] /\ m_beingPushed[s]

\* A player is at most in the map it points at, in the pool or in the
\* storage, and in one of them if that map is there.
InOneMap ==
    \A s \in Accounts, m \in Maps :
        /\ s \in insertPool[m] \cup m_PlayerStorage[m] => m_mapMgr[s] = m /\ Live(s)
        /\ m_mapMgr[s] = m /\ Live(s) /\ ~Stranded(s) =>
              \/ s \in m_PlayerStorage[m]
              \/ m_beingPushed[s] /\ (s \in insertPool[m] \/ \E t \in Threads :
                                          pc[t] = "add" /\ current[t] = s)

\* A session is updated in no thread but that of the map its player is in,
\* and by the world thread only while he is in none.
HandledInPlace ==
    \A t \in Threads, s \in Accounts :
        Updating(t, s) =>
            IF t = World THEN m_mapMgr[s] = Null ELSE m_mapMgr[s] \in {t, Null}

\* Nobody but who was on his way is left in a map that has ended: no thread
\* has his session any more, and no client in the map sees him.
NobodyLeftBehind ==
    \A s \in Accounts :
        Stranded(s) =>
            /\ m_beingPushed[s]
            /\ \A m \in Maps : s \notin insertPool[m] \cup m_PlayerStorage[m] \cup Sessions[m]

\* Every player is in one place, where his session is handled.
InPlace == TypeOK /\ InOneMap /\ HandledInPlace /\ NobodyLeftBehind

\* A session whose client is gone is logged out and deleted, wherever its
\* player was on its way to, unless he is stranded in a map that has ended.
SessionsEnd ==
    \A s \in Accounts : s \notin socket ~> s \in deleted \/ Stranded(s)
===============================================================================
