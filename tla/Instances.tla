------------------------------ MODULE Instances ------------------------------
(***************************************************************************)
(* The instances of one dungeon map and who may be in which (InstanceMgr   *)
(* in world/WorldCreator, the ends of MapMgr, and what Player, Group and   *)
(* AIInterface do with them).                                              *)
(*                                                                         *)
(* An Instance is a record of the registry, kept under m_mapLock; its map  *)
(* manager is a thread that comes with the first player and goes when it   *)
(* is idle or told to.  Two steps of the code use an instance without the  *)
(* lock: a player's way in through a portal and the end of a manager.      *)
(* Where such a step uses memory that has been freed the process has a     *)
(* fault and nothing more happens.                                         *)
(***************************************************************************)
EXTENDS Naturals, FiniteSets

CONSTANTS
    Players,
    Travellers,     \* players who go to the dungeon; others are in groups only
    Managers,       \* map managers that fit in memory (bound)
    Kinds,          \* kinds of map to look at
    MaxInstances,   \* instance ids handed out, for each kind (bound)
    MaxGroups,      \* group ids handed out, for each kind (bound)
    None

\* "nonraid"    a dungeon without difficulties, gone with its manager
\* "normal"     a dungeon with difficulties, played at the normal one
\* "raid"       a raid (or heroic dungeon) with bosses in instance_bosses
\* "raidAtOnce" one without: it is persistent from its creation
ASSUME InstancesAssumption ==
    /\ Kinds \subseteq {"nonraid", "normal", "raid", "raidAtOnce"}
    /\ Travellers \subseteq Players
    /\ MaxInstances \in [Kinds -> Nat] /\ MaxGroups \in [Kinds -> Nat]
    /\ None \notin Players \cup Managers

Ids == UNION {1 .. MaxInstances[k] : k \in Kinds}
Groups == UNION {1 .. MaxGroups[k] : k \in Kinds}

VARIABLES
    kind,           \* the map's, for good
    m_instances,    \* the ids in the registry
    instance,       \* id -> Instance
    m_InstanceHigh, \* the last id handed out
    mgr,            \* manager -> MapMgr
    plr,            \* player -> Player
    group,          \* player -> id of his group, 0 for none
    m_instanceIds,  \* group -> id of the instance it has saved, 0 for none
    m_Leader,       \* group -> player
    m_GroupHigh,    \* the last group id handed out
    fault           \* what freed memory was used, or "none"

grouping == <<group, m_Leader, m_GroupHigh>>
registry == <<m_instances, instance, m_InstanceHigh>>
vars == <<kind, registry, mgr, plr, grouping, m_instanceIds, fault>>

IsPersistentKind == kind \in {"raid", "raidAtOnce"}

NewInstance == [m_creatorGuid |-> None, m_creatorGroup |-> 0,
                m_persistent |-> FALSE, expired |-> FALSE,
                m_mapMgr |-> None]
NewManager == [pInstance |-> 0, m_instanceID |-> 0, pc |-> "none",
               terminate |-> FALSE, inactive |-> FALSE, forced |-> FALSE,
               storage |-> {}, pool |-> {}]
NewPlayer == [at |-> "out", in |-> 0, m_mapMgr |-> None, m_instanceId |-> 0,
              saved |-> 0, told |-> FALSE]

InstanceRecord ==
    [m_creatorGuid : Players \cup {None}, m_creatorGroup : {0} \cup Groups,
     m_persistent : BOOLEAN, expired : BOOLEAN,
     m_mapMgr : Managers \cup {None}]
ManagerRecord ==
    [pInstance : {0} \cup Ids, m_instanceID : {0} \cup Ids,
     pc : {"none", "loop", "teleport", "read", "unlink", "drop", "delete"},
     terminate : BOOLEAN, inactive : BOOLEAN, forced : BOOLEAN,
     storage : SUBSET Players, pool : SUBSET Players]
PlayerRecord ==
    [at : {"out", "found", "loading", "adding", "queued", "in", "offline"},
     in : {0} \cup Ids, m_mapMgr : Managers \cup {None},
     m_instanceId : {0} \cup Ids, saved : {0} \cup Ids, told : BOOLEAN]

\* Every variable has its type; ids are handed out in order.
TypeOK ==
    /\ kind \in Kinds
    /\ m_instances \subseteq 1 .. m_InstanceHigh
    /\ m_InstanceHigh \in 0 .. MaxInstances[kind]
    /\ instance \in [Ids -> InstanceRecord]
    /\ mgr \in [Managers -> ManagerRecord]
    /\ plr \in [Players -> PlayerRecord]
    /\ group \in [Players -> {0} \cup Groups]
    /\ m_instanceIds \in [Groups -> {0} \cup Ids]
    /\ m_Leader \in [Groups -> Players \cup {None}]
    /\ m_GroupHigh \in 0 .. MaxGroups[kind]
    /\ fault \in {"none", "instance", "manager"}

Init ==
    /\ kind \in Kinds
    /\ m_instances = {} /\ m_InstanceHigh = 0
    /\ instance = [i \in Ids |-> NewInstance]
    /\ mgr = [m \in Managers |-> NewManager]
    /\ plr = [p \in Players |-> NewPlayer]
    /\ group = [p \in Players |-> 0]
    /\ m_instanceIds = [g \in Groups |-> 0]
    /\ m_Leader = [g \in Groups |-> None]
    /\ m_GroupHigh = 0
    /\ fault = "none"

Fault(what) ==
    /\ fault' = what
    /\ UNCHANGED <<kind, registry, mgr, plr, grouping, m_instanceIds>>

-----------------------------------------------------------------------------
(* The registry: what is done under m_mapLock. *)

HasPlayers(m) == mgr[m].storage # {}

IsResetable(i) == ~instance[i].m_persistent /\ kind \in {"nonraid", "normal"}

\* Those whose m_expiration has come.
Expired == {i \in m_instances : instance[i].expired}

CheckInstanceGroup(i, p) == instance[i].m_creatorGroup \in {0, group[p]}

\* A player without a group has no part in an instance without one.
PlayerOwnsInstance(i, p) ==
    IF instance[i].m_persistent
    THEN plr[p].saved = i
    ELSE \/ group[p] # 0 /\ instance[i].m_creatorGroup = group[p]
         \/ instance[i].m_creatorGuid = p

\* _DeleteInstance of every instance of D.  A manager loses its instance and
\* ends, at once or, if players are to have time to leave, in a minute.
DeletedManagers(D, force) ==
    [m \in Managers |->
        IF ~\E i \in D : instance[i].m_mapMgr = m THEN mgr[m]
        ELSE IF force \/ ~HasPlayers(m)
        THEN [mgr[m] EXCEPT !.pInstance = 0, !.terminate = TRUE]
        ELSE [mgr[m] EXCEPT !.pInstance = 0, !.forced = TRUE,
                            !.inactive = TRUE]]

DeleteInstances(D, force) ==
    /\ m_instances' = m_instances \ D
    /\ instance' = [i \in Ids |-> IF i \in D THEN NewInstance ELSE instance[i]]
    /\ mgr' = DeletedManagers(D, force)

\* The search for an instance the player owns walks the registry in no
\* particular order and deletes the expired instances it meets: these are X
\* when it ends with instance i, or, with i = 0, with none.
OwnedSearch(p, i, X) ==
    /\ X \subseteq Expired
    /\ \/ i \in m_instances \ Expired /\ PlayerOwnsInstance(i, p)
       \/ /\ i = 0 /\ X = Expired
          /\ \A j \in m_instances \ Expired : ~PlayerOwnsInstance(j, p)

\* SetPersistentInstanceId for the players of P: instance i becomes their
\* group's, unless that has one that still exists, and theirs if a boss of
\* it is dead.  (Its first lines, for an instance of no group, have no
\* effect: here such an instance gets its group right after.)
SetPersistentInstanceId(P, i) ==
    IF ~IsPersistentKind THEN UNCHANGED m_instanceIds
    ELSE m_instanceIds' =
            [g \in Groups |->
                IF /\ \E p \in P : group[p] = g
                   /\ m_instanceIds[g] \notin m_instances
                THEN i ELSE m_instanceIds[g]]

SavedId(p, i, persistent) ==
    IF ~IsPersistentKind THEN plr[p].saved
    ELSE IF persistent THEN i ELSE 0

-----------------------------------------------------------------------------
(* The way in. *)

\* GetInstanceByIds
Registered(i) == IF i \in m_instances THEN i ELSE 0

\* The instance PreTeleport takes for a player of a group before it looks
\* for one he owns, or 0.
GroupInstance(p) ==
    IF group[p] = 0 THEN 0
    ELSE IF ~IsPersistentKind THEN Registered(m_instanceIds[group[p]])
    ELSE IF plr[p].saved # 0 THEN Registered(plr[p].saved)
    ELSE IF m_instanceIds[group[p]] # 0
    THEN Registered(m_instanceIds[group[p]])
    ELSE Registered(plr[m_Leader[group[p]]].saved)

MayTeleport(p) ==
    /\ fault = "none"
    /\ p \in Travellers /\ plr[p].at = "out"
    /\ IsPersistentKind => group[p] # 0

\* PreTeleport finds an instance and releases the lock.
Find(p) ==
    /\ MayTeleport(p)
    /\ \E i \in m_instances, X \in SUBSET m_instances :
        /\ IF GroupInstance(p) # 0 THEN i = GroupInstance(p) /\ X = {}
           ELSE OwnedSearch(p, i, X)
        /\ plr' = [plr EXCEPT ![p].at = "found", ![p].in = i]
        /\ DeleteInstances(X, TRUE)
    /\ UNCHANGED <<kind, m_InstanceHigh, grouping, m_instanceIds, fault>>

\* PreTeleport finds none and makes one.
Create(p) ==
    LET i == m_InstanceHigh + 1
        persistent == kind = "raidAtOnce"
        X == Expired IN
    /\ MayTeleport(p)
    /\ i <= MaxInstances[kind]
    /\ GroupInstance(p) = 0 /\ OwnedSearch(p, 0, X)
    /\ m_InstanceHigh' = i
    /\ m_instances' = (m_instances \ X) \cup {i}
    /\ instance' = [j \in Ids |->
           IF j = i THEN [NewInstance EXCEPT
                              !.m_creatorGuid = IF group[p] = 0 THEN p ELSE None,
                              !.m_creatorGroup = group[p],
                              !.m_persistent = persistent]
           ELSE IF j \in X THEN NewInstance ELSE instance[j]]
    /\ mgr' = DeletedManagers(X, TRUE)
    /\ SetPersistentInstanceId({p}, i)
    /\ plr' = [plr EXCEPT ![p].at = "loading",
                          ![p].saved = SavedId(p, i, persistent)]
    /\ UNCHANGED <<kind, grouping, fault>>

\* Let in to instance i: it is his group's now, if he has one.
LetIn(p, i) ==
    /\ instance' = [instance EXCEPT ![i].m_creatorGroup =
                       IF group[p] # 0 THEN group[p] ELSE @]
    /\ SetPersistentInstanceId({p}, i)
    /\ plr' = [plr EXCEPT
           ![p].at = "loading", ![p].in = 0,
           ![p].saved = SavedId(p, i, instance[i].m_persistent)]

Refuse(p) ==
    /\ plr' = [plr EXCEPT ![p].at = "out", ![p].in = 0]
    /\ UNCHANGED <<instance, m_instanceIds>>

\* The rest of PreTeleport, without the lock.  A fight or a full instance
\* may keep the player out; RemoveFromWorld then forgets the id again that
\* SetInstanceID has given him.
Check(p) ==
    LET i == plr[p].in IN
    /\ fault = "none"
    /\ plr[p].at = "found"
    /\ IF i \notin m_instances
       THEN Fault("instance")
       ELSE /\ \/ CheckInstanceGroup(i, p) /\ LetIn(p, i)
               \/ ~CheckInstanceGroup(i, p) /\ Refuse(p)
               \/ instance[i].m_mapMgr # None /\ Refuse(p)
            /\ UNCHANGED <<kind, m_instances, m_InstanceHigh, mgr,
                           grouping, fault>>

\* PreTeleport with the id of an instance, that of the player q who summons.
Summon(p, q) ==
    LET i == plr[q].m_instanceId IN
    /\ MayTeleport(p)
    /\ plr[q].at = "in" /\ i \in m_instances
    /\ CheckInstanceGroup(i, p) /\ LetIn(p, i)
    /\ UNCHANGED <<kind, m_instances, m_InstanceHigh, mgr, grouping,
                   fault>>

\* A player who left the game inside comes back with the id of his instance.
FullLogin(p) ==
    /\ fault = "none"
    /\ plr[p].at = "offline"
    /\ plr' = [plr EXCEPT ![p].at = "loading"]
    /\ UNCHANGED <<kind, registry, mgr, grouping, m_instanceIds, fault>>

\* A manager's memory is used again once nobody has a pointer to it.
FreeManager(m) == mgr[m].pc = "none" /\ \A p \in Players : plr[p].m_mapMgr # m

WorldIsIdle == \A p \in Players : plr[p].at # "adding"

\* The player is on his way to manager m of instance i, which is made if
\* there is none (CreateInstance); the instances of X are deleted.
GoToManager(p, i, X, m) ==
    /\ IF instance[i].m_mapMgr # None THEN m = instance[i].m_mapMgr
       ELSE FreeManager(m)
    /\ m_instances' = m_instances \ X
    /\ instance' = [j \in Ids |->
           IF j = i THEN [instance[j] EXCEPT !.m_mapMgr = m]
           ELSE IF j \in X THEN NewInstance ELSE instance[j]]
    /\ mgr' = [DeletedManagers(X, TRUE) EXCEPT ![m] =
           IF instance[i].m_mapMgr # None THEN @
           ELSE [NewManager EXCEPT !.pInstance = i, !.m_instanceID = i,
                                   !.pc = "loop", !.inactive = TRUE]]
    /\ plr' = [plr EXCEPT ![p].at = "adding", ![p].m_mapMgr = m]

\* GetInstance, in the world's thread: by the player's instance id, or else
\* one that he owns.
GetInstance(p) ==
    LET known == plr[p].m_instanceId \in m_instances IN
    /\ fault = "none"
    /\ plr[p].at = "loading" /\ WorldIsIdle
    /\ \E i \in m_instances, X \in SUBSET m_instances :
        /\ IF known THEN i = plr[p].m_instanceId /\ X = {}
           ELSE OwnedSearch(p, i, X)
        /\ \E m \in Managers : GoToManager(p, i, X, m)
    /\ UNCHANGED <<kind, m_InstanceHigh, grouping, m_instanceIds, fault>>

\* There is no instance for him: EjectFromInstance.
NoInstance(p) ==
    LET X == Expired IN
    /\ fault = "none"
    /\ plr[p].at = "loading" /\ WorldIsIdle
    /\ plr[p].m_instanceId \notin m_instances
    /\ OwnedSearch(p, 0, X)
    /\ DeleteInstances(X, TRUE)
    /\ plr' = [plr EXCEPT ![p].at = "out", ![p].m_instanceId = 0]
    /\ UNCHANGED <<kind, m_InstanceHigh, grouping, m_instanceIds, fault>>

\* Fault: who has no group may enter a group's instance.
MayEnterAlone(p, i) ==
    /\ instance[i].m_creatorGuid \in {None, p}
    /\ group[p] # 0 => CheckInstanceGroup(i, p)

\* The rules of Object::AddToWorld for a player at a manager's door.
MayEnter(p, i) ==
    /\ ~(group[p] = 0 /\ instance[i].m_creatorGuid = None)
    /\ instance[i].m_creatorGuid \in {None, p}
    /\ group[p] # 0 => CheckInstanceGroup(i, p)

\* The rest of AddToWorld, without the lock: the player goes to the insert
\* pool of the manager, or out again.
AddToWorld(p) ==
    LET m == plr[p].m_mapMgr
        i == mgr[m].pInstance IN
    /\ fault = "none"
    /\ plr[p].at = "adding"
    /\ IF mgr[m].pc = "none" THEN Fault("manager")
       ELSE IF i # 0 /\ ~MayEnter(p, i)
       THEN /\ plr' = [plr EXCEPT ![p].at = "out", ![p].m_mapMgr = None,
                                  ![p].m_instanceId = 0]
            /\ UNCHANGED <<kind, registry, mgr, grouping,
                           m_instanceIds, fault>>
       ELSE /\ instance' = [j \in Ids |->
                   IF j = i /\ instance[j].m_creatorGroup = 0
                   THEN [instance[j] EXCEPT !.m_creatorGroup = group[p]]
                   ELSE instance[j]]
            /\ mgr' = [mgr EXCEPT ![m].pool = @ \cup {p}]
            /\ plr' = [plr EXCEPT ![p].at = "queued",
                                  ![p].m_instanceId = mgr[m].m_instanceID]
            /\ UNCHANGED <<kind, m_instances, m_InstanceHigh,
                           grouping, m_instanceIds, fault>>

-----------------------------------------------------------------------------
(* Inside. *)

\* Fault: forced_expire is not looked at.
PushAndStay(m) ==
    /\ fault = "none"
    /\ mgr[m].pc = "loop" /\ mgr[m].pool # {}
    /\ mgr' = [mgr EXCEPT ![m].storage = @ \cup mgr[m].pool, ![m].pool = {},
                          ![m].inactive = FALSE]
    /\ plr' = [p \in Players |-> IF p \in mgr[m].pool
                                 THEN [plr[p] EXCEPT !.at = "in"] ELSE plr[p]]
    /\ UNCHANGED <<kind, registry, grouping, m_instanceIds, fault>>

\* The manager pushes those in its pool into the map; somebody is there, so
\* it will not end for being idle.
Push(m) ==
    /\ fault = "none"
    /\ mgr[m].pc = "loop" /\ mgr[m].pool # {}
    /\ mgr' = [mgr EXCEPT ![m].storage = @ \cup mgr[m].pool, ![m].pool = {},
                          ![m].inactive = @ /\ mgr[m].forced]
    /\ plr' = [p \in Players |-> IF p \in mgr[m].pool
                                 THEN [plr[p] EXCEPT !.at = "in"] ELSE plr[p]]
    /\ UNCHANGED <<kind, registry, grouping, m_instanceIds, fault>>

\* MapMgr::RemoveObject for the players of P: with the last of them a
\* persistent instance is free for any group, and the manager idle.
RemovePlayers(m, P) ==
    LET i == mgr[m].pInstance
        empty == mgr[m].storage \subseteq P IN
    /\ instance' = [j \in Ids |->
           IF j = i /\ empty /\ instance[j].m_persistent
           THEN [instance[j] EXCEPT !.m_creatorGroup = 0] ELSE instance[j]]
    /\ mgr' = [mgr EXCEPT ![m].storage = @ \ P,
                          ![m].inactive = @ \/ (empty /\ ~mgr[m].forced)]

\* Out of the map: event RemoveEvents, INSTANCEID_NOT_IN_WORLD.
Outside(p) == [plr[p] EXCEPT !.at = "out", !.m_mapMgr = None,
                             !.m_instanceId = 0, !.told = FALSE]

\* A player walks out, or is teleported, or the event of those told to
\* leave throws him out (EjectFromInstance).
LeaveMap(p) ==
    LET m == plr[p].m_mapMgr IN
    /\ fault = "none"
    /\ plr[p].at = "in" /\ mgr[m].pc = "loop"
    /\ RemovePlayers(m, {p})
    /\ plr' = [plr EXCEPT ![p] = Outside(p)]
    /\ UNCHANGED <<kind, m_instances, m_InstanceHigh, grouping,
                   m_instanceIds, fault>>

\* LogoutPlayer; the character is saved with the id of the instance.
LogoutPlayer(p) ==
    LET m == plr[p].m_mapMgr IN
    /\ fault = "none"
    /\ plr[p].at = "in" /\ mgr[m].pc = "loop"
    /\ RemovePlayers(m, {p})
    /\ plr' = [plr EXCEPT ![p] = [Outside(p) EXCEPT
                   !.at = "offline", !.m_instanceId = mgr[m].m_instanceID]]
    /\ UNCHANGED <<kind, m_instances, m_InstanceHigh, grouping,
                   m_instanceIds, fault>>

\* A boss of the raid is dead: the instance is persistent, and everyone who
\* is inside is saved to it.
BossDies(m) ==
    LET i == mgr[m].pInstance
        P == mgr[m].storage IN
    /\ fault = "none"
    /\ mgr[m].pc = "loop" /\ P # {}
    /\ kind = "raid" /\ i # 0
    /\ ~instance[i].m_persistent
    /\ instance' = [instance EXCEPT ![i].m_persistent = TRUE]
    /\ SetPersistentInstanceId(P, i)
    /\ plr' = [p \in Players |-> IF p \in P
                   THEN [plr[p] EXCEPT !.saved = SavedId(p, i, TRUE)]
                   ELSE plr[p]]
    /\ UNCHANGED <<kind, m_instances, m_InstanceHigh, mgr, grouping,
                   fault>>

-----------------------------------------------------------------------------
(* The end of a manager: MapMgr::run after its loop. *)

EndLoop(m) ==
    /\ fault = "none"
    /\ mgr[m].pc = "loop"
    /\ mgr[m].terminate \/ mgr[m].inactive
    /\ mgr' = [mgr EXCEPT ![m].pc = "teleport"]
    /\ UNCHANGED <<kind, registry, plr, grouping, m_instanceIds, fault>>

\* Teleport any left-over players out.
TeleportPlayers(m) ==
    LET P == mgr[m].storage
        i == mgr[m].pInstance IN
    /\ fault = "none"
    /\ mgr[m].pc = "teleport"
    /\ instance' = [j \in Ids |->
           IF j = i /\ P # {} /\ instance[j].m_persistent
           THEN [instance[j] EXCEPT !.m_creatorGroup = 0] ELSE instance[j]]
    /\ mgr' = [mgr EXCEPT ![m].storage = {}, ![m].pc = "read"]
    /\ plr' = [p \in Players |-> IF p \in P THEN Outside(p) ELSE plr[p]]
    /\ UNCHANGED <<kind, m_instances, m_InstanceHigh, grouping,
                   m_instanceIds, fault>>

\* Is there an instance to be told?  The lock is not taken for this.
ReadInstance(m) ==
    /\ fault = "none"
    /\ mgr[m].pc = "read"
    /\ mgr' = [mgr EXCEPT ![m].pc =
                   IF mgr[m].pInstance = 0 THEN "delete" ELSE "unlink"]
    /\ UNCHANGED <<kind, registry, plr, grouping, m_instanceIds, fault>>

\* Fault: the pointer is not nulled out.
UnlinkNothing(m) ==
    LET i == mgr[m].pInstance IN
    /\ fault = "none"
    /\ mgr[m].pc = "unlink"
    /\ IF i = 0
       THEN Fault("instance")
       ELSE /\ UNCHANGED instance
            /\ mgr' = [mgr EXCEPT ![m].pc =
                           IF kind = "nonraid" THEN "drop" ELSE "delete"]
            /\ UNCHANGED <<kind, m_instances, m_InstanceHigh, plr,
                           grouping, m_instanceIds, fault>>

\* Clear the instance's reference to us.
UnlinkInstance(m) ==
    LET i == mgr[m].pInstance IN
    /\ fault = "none"
    /\ mgr[m].pc = "unlink"
    /\ IF i = 0
       THEN Fault("instance")
       ELSE /\ instance' = [instance EXCEPT ![i].m_mapMgr = None]
            /\ mgr' = [mgr EXCEPT ![m].pc =
                           IF kind = "nonraid" THEN "drop" ELSE "delete"]
            /\ UNCHANGED <<kind, m_instances, m_InstanceHigh, plr,
                           grouping, m_instanceIds, fault>>

\* Without difficulties the instance goes with its manager.
DropInstance(m) ==
    LET i == mgr[m].pInstance IN
    /\ fault = "none"
    /\ mgr[m].pc = "drop"
    /\ IF i \notin m_instances
       THEN Fault("instance")
       ELSE /\ m_instances' = m_instances \ {i}
            /\ instance' = [instance EXCEPT ![i] = NewInstance]
            /\ mgr' = [DeletedManagers({i}, TRUE) EXCEPT
                           ![m].pInstance = 0, ![m].pc = "delete"]
            /\ UNCHANGED <<kind, m_InstanceHigh, plr, grouping,
                           m_instanceIds, fault>>

\* Delete ourselves.  Whoever has been added meanwhile keeps a pointer.
DeleteMap(m) ==
    /\ fault = "none"
    /\ mgr[m].pc = "delete"
    /\ IF mgr[m].pool # {}
       THEN Fault("manager")
       ELSE /\ mgr' = [mgr EXCEPT ![m] = NewManager]
            /\ UNCHANGED <<kind, registry, plr, grouping,
                           m_instanceIds, fault>>

-----------------------------------------------------------------------------
(* The end of an instance. *)

\* Its m_expiration comes; only raids have one.
Expire(i) ==
    /\ fault = "none"
    /\ IsPersistentKind /\ i \in m_instances \ Expired
    /\ instance' = [instance EXCEPT ![i].expired = TRUE]
    /\ UNCHANGED <<kind, m_instances, m_InstanceHigh, mgr, plr, grouping,
                   m_instanceIds, fault>>

CheckForExpiredInstances ==
    LET D == Expired IN
    /\ fault = "none"
    /\ WorldIsIdle
    /\ D # {}
    /\ DeleteInstances(D, FALSE)
    /\ UNCHANGED <<kind, m_InstanceHigh, plr, grouping, m_instanceIds,
                   fault>>

\* What a player's reset deletes: with no group of its own an instance
\* passes the check for anybody's.
ResetBy(p) ==
    {i \in m_instances :
        /\ IsResetable(i)
        /\ CheckInstanceGroup(i, p) \/ instance[i].m_creatorGuid = p
        /\ ~\E m \in Managers : instance[i].m_mapMgr = m /\ HasPlayers(m)}

ResetSavedInstances(p) ==
    /\ fault = "none"
    /\ plr[p].at = "out" /\ ResetBy(p) # {}
    /\ DeleteInstances(ResetBy(p), TRUE)
    /\ UNCHANGED <<kind, m_InstanceHigh, plr, grouping, m_instanceIds,
                   fault>>

-----------------------------------------------------------------------------
(* Groups. *)

Members(g) == {p \in Players : group[p] = g}

\* A player of a group invites one of none.
AddMember(p, q) ==
    /\ fault = "none"
    /\ group[p] # 0 /\ group[q] = 0
    /\ {plr[p].at, plr[q].at} \subseteq {"out", "in"}
    /\ group' = [group EXCEPT ![q] = group[p]]
    /\ UNCHANGED <<kind, registry, mgr, plr, m_Leader, m_GroupHigh,
                   m_instanceIds, fault>>

\* Two players make a group, and the instance the first has made and is in
\* becomes the group's.
NewGroup(p, q) ==
    LET g == m_GroupHigh + 1
        i == plr[p].m_instanceId
        takes == i \in m_instances /\ instance[i].m_creatorGuid = p IN
    /\ fault = "none"
    /\ p # q /\ group[p] = 0 /\ group[q] = 0
    /\ g <= MaxGroups[kind]
    /\ {plr[p].at, plr[q].at} \subseteq {"out", "in"}
    /\ m_GroupHigh' = g
    /\ group' = [group EXCEPT ![p] = g, ![q] = g]
    /\ m_Leader' = [m_Leader EXCEPT ![g] = p]
    /\ m_instanceIds' = [m_instanceIds EXCEPT ![g] = IF takes THEN i ELSE 0]
    /\ instance' = IF takes
                   THEN [instance EXCEPT ![i].m_creatorGroup = g,
                                         ![i].m_creatorGuid = None]
                   ELSE instance
    /\ UNCHANGED <<kind, m_instances, m_InstanceHigh, mgr, plr, fault>>

\* PlayerLeftGroup: in an instance of the group he is told to leave it.
ToldToLeave(p) ==
    /\ plr[p].at \notin {"out", "offline"}
    /\ \E i \in m_instances : /\ instance[i].m_creatorGroup = group[p]
                              /\ plr[p].m_instanceId = i

\* A player leaves a group of more than two, or is removed from it.
RemovePlayer(p) ==
    LET g == group[p] IN
    /\ fault = "none"
    /\ g # 0 /\ Cardinality(Members(g)) > 2
    /\ group' = [group EXCEPT ![p] = 0]
    /\ \E q \in Members(g) \ {p} :
           m_Leader' = [m_Leader EXCEPT ![g] = IF @ = p THEN q ELSE @]
    /\ plr' = [plr EXCEPT ![p].told = @ \/ ToldToLeave(p)]
    /\ UNCHANGED <<kind, registry, mgr, m_GroupHigh, m_instanceIds,
                   fault>>

\* Fault: instances that cannot be reset are deleted as well.
DisbandAll(p) ==
    LET g == group[p]
        owned == {i \in m_instances : /\ instance[i].m_mapMgr # None
                                      /\ instance[i].m_creatorGroup = g}
        D == owned
        inside == {q \in Players : /\ plr[q].at = "in"
                                   /\ plr[q].m_instanceId \in owned \ D} IN
    /\ fault = "none"
    /\ g # 0 /\ Cardinality(Members(g)) = 2
    /\ group' = [q \in Players |-> IF group[q] = g THEN 0 ELSE group[q]]
    /\ plr' = [q \in Players |-> [plr[q] EXCEPT
                   !.told = @ \/ (q = p /\ ToldToLeave(p)) \/ q \in inside]]
    /\ DeleteInstances(D, FALSE)
    /\ m_Leader' = [m_Leader EXCEPT ![g] = None]
    /\ m_instanceIds' = [m_instanceIds EXCEPT ![g] = 0]
    /\ UNCHANGED <<kind, m_InstanceHigh, m_GroupHigh, fault>>

\* With the last but one member the group goes (Disband), and with it
\* (OnGroupDestruction) those of its instances that have a manager, if they
\* can be reset; from another everyone inside is told to leave.
Disband(p) ==
    LET g == group[p]
        owned == {i \in m_instances : /\ instance[i].m_mapMgr # None
                                      /\ instance[i].m_creatorGroup = g}
        D == {i \in owned : IsResetable(i)}
        inside == {q \in Players : /\ plr[q].at = "in"
                                   /\ plr[q].m_instanceId \in owned \ D} IN
    /\ fault = "none"
    /\ g # 0 /\ Cardinality(Members(g)) = 2
    /\ group' = [q \in Players |-> IF group[q] = g THEN 0 ELSE group[q]]
    /\ plr' = [q \in Players |-> [plr[q] EXCEPT
                   !.told = @ \/ (q = p /\ ToldToLeave(p)) \/ q \in inside]]
    /\ DeleteInstances(D, FALSE)
    /\ m_Leader' = [m_Leader EXCEPT ![g] = None]
    /\ m_instanceIds' = [m_instanceIds EXCEPT ![g] = 0]
    /\ UNCHANGED <<kind, m_InstanceHigh, m_GroupHigh, fault>>

-----------------------------------------------------------------------------
PlayerStep(p) ==
    \/ Find(p) \/ Create(p) \/ Check(p) \/ FullLogin(p)
    \/ GetInstance(p) \/ NoInstance(p) \/ AddToWorld(p)
    \/ LeaveMap(p) \/ LogoutPlayer(p) \/ ResetSavedInstances(p)
    \/ RemovePlayer(p) \/ Disband(p)
    \/ \E q \in Players : Summon(p, q) \/ AddMember(p, q) \/ NewGroup(p, q)

ManagerStep(m) ==
    \/ Push(m) \/ BossDies(m) \/ EndLoop(m) \/ TeleportPlayers(m)
    \/ ReadInstance(m) \/ UnlinkInstance(m) \/ DropInstance(m) \/ DeleteMap(m)

Next ==
    \/ \E p \in Players : PlayerStep(p)
    \/ \E m \in Managers : ManagerStep(m)
    \/ \E i \in Ids : Expire(i)
    \/ CheckForExpiredInstances

Spec == Init /\ [][Next]_vars

-----------------------------------------------------------------------------
Linked(m) == mgr[m].pc \in {"loop", "teleport", "read", "unlink"}

\* An instance and its manager know each other: a registered instance never
\* points to a manager that has let go of it or is deleted, and a manager
\* never to a deleted instance or one that has got another manager
\* (m_mapMgr and pInstance are written by the world's thread, the players'
\* threads and the manager's own, not all of them under m_mapLock).
EachOthers ==
    /\ \A i \in m_instances : LET m == instance[i].m_mapMgr IN
           m # None => Linked(m) /\ mgr[m].pInstance = i
    /\ \A m \in Managers : LET i == mgr[m].pInstance IN
           Linked(m) /\ i # 0 => i \in m_instances /\ instance[i].m_mapMgr = m

\* The registry and the managers are consistent.
Consistent == TypeOK /\ EachOthers

\* A manager that nobody is in, or whose instance is gone, is on its way to
\* its end: no order of comings, goings and deletions leaves a thread
\* running for ever (InactiveMoveTime, forced_expire and the thread state).
IdleManagersEnd ==
    \A m \in Managers :
        mgr[m].pc = "loop" /\ (mgr[m].storage = {} \/ mgr[m].pInstance = 0)
            => mgr[m].terminate \/ mgr[m].inactive

\* In a dungeon players of different groups are not together for longer
\* than it takes to leave: the instance is gone, or all but one of them have
\* been told to go.  (In raids they can be: AddToWorld lets a group in while
\* one of another is still in the insert pool.)
GroupsApart ==
    ~IsPersistentKind =>
        \A m \in Managers : \A p, q \in mgr[m].storage :
            mgr[m].pInstance # 0 /\ p # q /\ ~plr[p].told /\ ~plr[q].told
                => group[p] = group[q] /\ group[p] # 0

\* A persistent instance is not lost before its time: no reset, disbanding
\* or end of a manager deletes it, only its expiration.
PersistentKept ==
    [][\A i \in m_instances :
           instance[i].m_persistent /\ ~instance[i].expired
               => i \in m_instances' /\ instance'[i].m_persistent]_vars

\* "If we have it saved to the player then use that" (WorldCreator.cpp:371).
SavedIsUsed ==
    \A p \in Players :
        plr[p].at = "queued" /\ plr[p].saved \in m_instances
            => plr[p].m_instanceId = plr[p].saved
=============================================================================
