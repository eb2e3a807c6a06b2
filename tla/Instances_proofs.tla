-------------------------- MODULE Instances_proofs --------------------------
(***************************************************************************)
(* The registry of instances and the map managers agree, idle managers     *)
(* end, persistent instances are kept and groups in a dungeon stay apart,  *)
(* for any number of players, managers, instances and groups.              *)
(***************************************************************************)
EXTENDS Instances, TLAPS

\* A manager told to be gone in a minute (forced_expire) has its
\* InactiveMoveTime.
ForcedAreInactive == \A m \in Managers : mgr[m].forced => mgr[m].inactive

\* A manager without an instance has been told to end.
DeletedAreTold ==
    \A m \in Managers :
        mgr[m].pc = "loop" /\ mgr[m].pInstance = 0
            => mgr[m].terminate \/ mgr[m].forced

\* Only instances of raids are persistent, and only those of dungeons
\* without difficulties go with their manager.
KindsKept ==
    /\ \A i \in Ids : instance[i].m_persistent => IsPersistentKind
    /\ \A m \in Managers : mgr[m].pc = "drop" => kind = "nonraid"

\* A player is in the pool or the storage of the manager he points at only.
PlayersPlaced ==
    /\ \A p \in Players : plr[p].at \in {"adding", "queued", "in"}
          => plr[p].m_mapMgr \in Managers
    /\ \A m \in Managers : \A p \in mgr[m].storage :
          plr[p].at = "in" /\ plr[p].m_mapMgr = m
    /\ \A m \in Managers : \A p \in mgr[m].pool :
          plr[p].at = "queued" /\ plr[p].m_mapMgr = m

\* What the registry and the managers keep among themselves.
Agree ==
    /\ EachOthers
    /\ ForcedAreInactive
    /\ DeletedAreTold
    /\ IdleManagersEnd
    /\ KindsKept

IInv == TypeOK /\ PlayersPlaced /\ Agree

\* The step loses no persistent instance before its time (PersistentKept).
KeepsPersistent ==
    \A i \in m_instances :
        instance[i].m_persistent /\ ~instance[i].expired
            => i \in m_instances' /\ instance'[i].m_persistent

-----------------------------------------------------------------------------
(* Constants and helpers. *)

USE InstancesAssumption DEF InstancesAssumption

\* Ids are positive, and those handed out so far are ids.
LEMMA IdsAreIds ==
    /\ Ids \subseteq Nat \ {0} /\ Groups \subseteq Nat \ {0}
    /\ \A k \in Kinds : 1 .. MaxInstances[k] \subseteq Ids
    /\ \A k \in Kinds : 1 .. MaxGroups[k] \subseteq Groups
  <1>1. \A k \in Kinds : 1 .. MaxInstances[k] \subseteq Nat \ {0}
    OBVIOUS
  <1>2. \A k \in Kinds : 1 .. MaxGroups[k] \subseteq Nat \ {0}
    OBVIOUS
  <1> QED BY <1>1, <1>2 DEF Ids, Groups

\* The registry holds ids, of which 0 is none.
LEMMA Registry ==
    ASSUME TypeOK
    PROVE  m_instances \subseteq Ids /\ 0 \notin m_instances /\ 0 \notin Ids
  <1>1. m_instances \subseteq 1 .. MaxInstances[kind] /\ kind \in Kinds
    BY DEF TypeOK
  <1> QED BY <1>1, IdsAreIds

\* A deleted instance is blank.
LEMMA NewInstanceType == NewInstance \in InstanceRecord
  BY DEF NewInstance, InstanceRecord

LEMMA NewManagerType == NewManager \in ManagerRecord
  BY DEF NewManager, ManagerRecord

\* _DeleteInstance leaves a manager alone, but for its instance and the
\* order to end.
LEMMA ManagerOfDeleted ==
    ASSUME TypeOK, NEW D, NEW force \in BOOLEAN, NEW m \in Managers
    PROVE  LET d == DeletedManagers(D, force)[m]
               hit == \E i \in D : instance[i].m_mapMgr = m IN
           /\ d \in ManagerRecord
           /\ d.pc = mgr[m].pc /\ d.storage = mgr[m].storage
           /\ d.pool = mgr[m].pool /\ d.m_instanceID = mgr[m].m_instanceID
           /\ ~hit => d = mgr[m]
           /\ hit => /\ d.pInstance = 0
                     /\ \/ d.terminate /\ d.forced = mgr[m].forced
                                       /\ d.inactive = mgr[m].inactive
                        \/ d.forced /\ d.inactive /\ ~force
  <1>1. mgr[m] \in ManagerRecord
    BY DEF TypeOK
  <1> QED BY <1>1, ZenonT(40) DEF DeletedManagers, ManagerRecord

\* What DeleteInstances does keeps the types.
LEMMA DeletionTypes ==
    ASSUME TypeOK, NEW D, NEW force \in BOOLEAN, DeleteInstances(D, force)
    PROVE  /\ m_instances' \subseteq 1 .. m_InstanceHigh
           /\ instance' \in [Ids -> InstanceRecord]
           /\ mgr' \in [Managers -> ManagerRecord]
  <1>1. mgr' \in [Managers -> ManagerRecord]
    <2>1. DeletedManagers(D, force) = [m \in Managers |-> DeletedManagers(D, force)[m]]
      BY DEF DeletedManagers
    <2>2. \A m \in Managers : DeletedManagers(D, force)[m] \in ManagerRecord
      BY ManagerOfDeleted
    <2>3. mgr' = DeletedManagers(D, force)
      BY DEF DeleteInstances
    <2> QED BY <2>1, <2>2, <2>3
  <1>2. instance' \in [Ids -> InstanceRecord]
    BY NewInstanceType DEF DeleteInstances, TypeOK
  <1>3. m_instances' \subseteq 1 .. m_InstanceHigh
    BY DEF DeleteInstances, TypeOK
  <1> QED BY <1>1, <1>2, <1>3

\* Instances that leave the registry by DeleteInstances leave its managers
\* consistent.
LEMMA DeletionKeeps ==
    ASSUME IInv, NEW D \in SUBSET m_instances, NEW force \in BOOLEAN,
           DeleteInstances(D, force), kind' = kind
    PROVE  Agree'
  <1>1. /\ mgr' = DeletedManagers(D, force) /\ m_instances' = m_instances \ D
        /\ \A i \in Ids : instance'[i] = IF i \in D THEN NewInstance ELSE instance[i]
    BY DEF DeleteInstances
  <1> DEFINE hit(m) == \E i \in D : instance[i].m_mapMgr = m
  <1>2. \A m \in Managers :
           /\ mgr'[m].pc = mgr[m].pc /\ mgr'[m].storage = mgr[m].storage
           /\ ~hit(m) => mgr'[m] = mgr[m]
           /\ hit(m) => /\ mgr'[m].pInstance = 0
                        /\ \/ mgr'[m].terminate /\ mgr'[m].forced = mgr[m].forced
                                          /\ mgr'[m].inactive = mgr[m].inactive
                           \/ mgr'[m].forced /\ mgr'[m].inactive
    BY <1>1, ManagerOfDeleted DEF IInv
  <1>3. \A m \in Managers :
           hit(m) => \E i \in D : mgr[m].pInstance = i /\ instance[i].m_mapMgr = m
    BY DEF IInv, Agree, EachOthers
  <1>4. D \subseteq Ids /\ m_instances \subseteq Ids /\ 0 \notin m_instances
    BY Registry DEF IInv
  <1>5. None \notin Managers
    OBVIOUS
  <1> HIDE DEF hit
  <1>6. EachOthers'
    <2>1. ASSUME NEW i \in m_instances', NEW m \in Managers,
                 instance'[i].m_mapMgr = m
          PROVE  Linked(m)' /\ mgr'[m].pInstance = i
      <3>1. i \in m_instances /\ i \notin D /\ instance[i].m_mapMgr = m
        BY <2>1, <1>1, <1>4
      <3>2. Linked(m) /\ mgr[m].pInstance = i
        BY <3>1, <1>5 DEF IInv, Agree, EachOthers
      <3>3. ~hit(m)
        BY <1>3, <3>1, <3>2
      <3>4. mgr'[m] = mgr[m]
        BY <3>3, <1>2
      <3> QED BY <3>2, <3>4 DEF Linked
    <2>2. ASSUME NEW m \in Managers, NEW i, Linked(m)', mgr'[m].pInstance = i,
                 i # 0
          PROVE  i \in m_instances' /\ instance'[i].m_mapMgr = m
      <3>1. ~hit(m) /\ mgr'[m] = mgr[m]
        BY <2>2, <1>2
      <3>2. i \in m_instances /\ instance[i].m_mapMgr = m
        BY <2>2, <3>1 DEF IInv, Agree, EachOthers, Linked
      <3>3. i \notin D
        BY <3>1, <3>2 DEF hit
      <3> QED BY <3>1, <3>2, <3>3, <1>1, <1>4
    <2>3. \A i \in m_instances' : instance'[i].m_mapMgr \in Managers \cup {None}
      <3>1. instance' \in [Ids -> InstanceRecord] /\ m_instances' \subseteq Ids
        BY DeletionTypes, <1>1, <1>4 DEF IInv
      <3> QED BY <3>1 DEF InstanceRecord
    <2> QED BY <2>1, <2>2, <2>3 DEF EachOthers
  <1>7. ForcedAreInactive'
    BY <1>2 DEF IInv, Agree, ForcedAreInactive
  <1>8. DeletedAreTold'
    BY <1>2 DEF IInv, Agree, DeletedAreTold
  <1>9. IdleManagersEnd'
    BY <1>2 DEF IInv, Agree, IdleManagersEnd
  <1>10. KindsKept'
    BY <1>1, <1>2 DEF IInv, Agree, KindsKept, IsPersistentKind, NewInstance
  <1> QED BY <1>6, <1>7, <1>8, <1>9, <1>10 DEF Agree

-----------------------------------------------------------------------------
(* Types. *)

LEMMA PlayerType ==
    ASSUME TypeOK, NEW p \in Players PROVE plr[p] \in PlayerRecord
  BY DEF TypeOK

\* The records of players and instances that steps write.
LEMMA SavedIdType ==
    ASSUME TypeOK, NEW p \in Players, NEW i \in {0} \cup Ids, NEW persistent
    PROVE  SavedId(p, i, persistent) \in {0} \cup Ids
  <1>1. plr[p] \in PlayerRecord
    BY DEF TypeOK
  <1> QED BY <1>1 DEF SavedId, PlayerRecord

LEMMA SetPersistentType ==
    ASSUME TypeOK, NEW P, NEW i \in Ids, SetPersistentInstanceId(P, i)
    PROVE  m_instanceIds' \in [Groups -> {0} \cup Ids]
  BY DEF SetPersistentInstanceId, TypeOK

LEMMA OutsideType ==
    ASSUME TypeOK, NEW p \in Players
    PROVE  Outside(p) \in PlayerRecord
  <1>1. plr[p] \in PlayerRecord
    BY DEF TypeOK
  <1> QED BY <1>1 DEF Outside, PlayerRecord

LEMMA RemovePlayersTypes ==
    ASSUME TypeOK, NEW m \in Managers, NEW P, RemovePlayers(m, P)
    PROVE  /\ instance' \in [Ids -> InstanceRecord]
           /\ mgr' \in [Managers -> ManagerRecord]
  <1>1. instance' \in [Ids -> InstanceRecord]
    <2>1. \A j \in Ids : instance[j] \in InstanceRecord
      BY DEF TypeOK
    <2>2. \A j \in Ids : [instance[j] EXCEPT !.m_creatorGroup = 0] \in InstanceRecord
      BY <2>1 DEF InstanceRecord
    <2> QED BY <2>1, <2>2 DEF RemovePlayers
  <1>2. mgr' \in [Managers -> ManagerRecord]
    <2>1. mgr[m] \in ManagerRecord
      BY DEF TypeOK
    <2> DEFINE new == [mgr[m] EXCEPT
                          !.storage = @ \ P,
                          !.inactive = @ \/ (mgr[m].storage \subseteq P /\ ~mgr[m].forced)]
    <2>2. new \in ManagerRecord
      BY <2>1 DEF ManagerRecord
    <2>3. mgr' = [mgr EXCEPT ![m] = new]
      BY DEF RemovePlayers, TypeOK
    <2> QED BY <2>2, <2>3 DEF TypeOK
  <1> QED BY <1>1, <1>2

\* Letting a player in, or keeping him out.
LEMMA DoorTypes ==
    ASSUME TypeOK, NEW p \in Players, NEW i \in m_instances,
           LetIn(p, i) \/ Refuse(p)
    PROVE  /\ instance' \in [Ids -> InstanceRecord]
           /\ plr' \in [Players -> PlayerRecord]
           /\ m_instanceIds' \in [Groups -> {0} \cup Ids]
  <1>1. i \in Ids
    BY Registry
  <1>2. plr[p] \in PlayerRecord /\ instance[i] \in InstanceRecord
    BY <1>1 DEF TypeOK
  <1>3. CASE LetIn(p, i)
    <2>1. m_instanceIds' \in [Groups -> {0} \cup Ids]
      BY <1>1, <1>3, SetPersistentType DEF LetIn
    <2> DEFINE saved == SavedId(p, i, instance[i].m_persistent)
    <2>2. saved \in {0} \cup Ids
      BY <1>1, SavedIdType
    <2>3. [plr[p] EXCEPT !.at = "loading", !.in = 0, !.saved = saved] \in PlayerRecord
      BY <1>2, <2>2 DEF PlayerRecord
    <2>4. plr' = [plr EXCEPT ![p] = [plr[p] EXCEPT !.at = "loading", !.in = 0,
                                                   !.saved = saved]]
      BY <1>3 DEF LetIn, TypeOK
    <2>5. plr' \in [Players -> PlayerRecord]
      BY <2>3, <2>4 DEF TypeOK
    <2>6. group[p] \in {0} \cup Groups
      BY DEF TypeOK
    <2>7. [instance[i] EXCEPT !.m_creatorGroup = IF group[p] # 0 THEN group[p] ELSE @]
            \in InstanceRecord
      BY <1>2, <2>6 DEF InstanceRecord
    <2>8. instance' \in [Ids -> InstanceRecord]
      BY <1>3, <2>7 DEF LetIn, TypeOK
    <2> QED BY <2>1, <2>5, <2>8
  <1>4. CASE Refuse(p)
    <2>1. [plr[p] EXCEPT !.at = "out", !.in = 0] \in PlayerRecord
      BY <1>2 DEF PlayerRecord
    <2>2. plr' = [plr EXCEPT ![p] = [plr[p] EXCEPT !.at = "out", !.in = 0]]
      BY <1>4 DEF Refuse, TypeOK
    <2> QED BY <1>4, <2>1, <2>2 DEF Refuse, TypeOK
  <1> QED BY <1>3, <1>4

LEMMA FindTypes ==
    ASSUME TypeOK, NEW p \in Players, Find(p) PROVE TypeOK'
  <1>1. PICK i \in m_instances, X \in SUBSET m_instances :
            /\ plr' = [plr EXCEPT ![p].at = "found", ![p].in = i]
            /\ DeleteInstances(X, TRUE)
    BY DEF Find
  <1>2. [plr[p] EXCEPT !.at = "found", !.in = i] \in PlayerRecord
    BY Registry, PlayerType, ZenonT(40) DEF PlayerRecord
  <1>3. plr' = [plr EXCEPT ![p] = [plr[p] EXCEPT !.at = "found", !.in = i]]
    BY <1>1 DEF TypeOK
  <1>4. plr' \in [Players -> PlayerRecord]
    BY <1>2, <1>3 DEF TypeOK
  <1> QED BY <1>1, <1>4, DeletionTypes DEF Find, TypeOK, grouping

\* The instance a player makes.
Made(p) == [NewInstance EXCEPT !.m_creatorGuid = IF group[p] = 0 THEN p ELSE None,
                               !.m_creatorGroup = group[p],
                               !.m_persistent = (kind = "raidAtOnce")]

LEMMA CreateEffect ==
    ASSUME TypeOK, NEW p \in Players, Create(p)
    PROVE  LET i == m_InstanceHigh + 1 IN
           /\ i \in Ids /\ i \notin m_instances /\ i <= MaxInstances[kind]
           /\ m_InstanceHigh' = i
           /\ m_instances' = (m_instances \ Expired) \cup {i}
           /\ \A j \in Ids : instance'[j] = IF j = i THEN Made(p)
                                            ELSE IF j \in Expired THEN NewInstance
                                            ELSE instance[j]
           /\ Made(p) \in InstanceRecord
           /\ instance' \in [Ids -> InstanceRecord]
           /\ mgr' = DeletedManagers(Expired, TRUE)
           /\ plr' \in [Players -> PlayerRecord]
           /\ m_instanceIds' \in [Groups -> {0} \cup Ids]
  <1> DEFINE i == m_InstanceHigh + 1
  <1>1. i \in Ids /\ i \notin m_instances /\ i <= MaxInstances[kind]
    <2>1. i \in 1 .. MaxInstances[kind] /\ kind \in Kinds
      BY DEF TypeOK, Create
    <2>2. i \notin m_instances
      BY DEF TypeOK
    <2> QED BY <2>1, <2>2, IdsAreIds
  <1>2. group[p] \in {0} \cup Groups
    BY DEF TypeOK
  <1>3. Made(p) \in InstanceRecord
    BY <1>2 DEF Made, NewInstance, InstanceRecord
  <1>4. instance' = [j \in Ids |-> IF j = i THEN Made(p)
                                   ELSE IF j \in Expired THEN NewInstance
                                   ELSE instance[j]]
    BY DEF Create, Made
  <1>5. instance' \in [Ids -> InstanceRecord]
    BY <1>3, <1>4, NewInstanceType DEF TypeOK
  <1> DEFINE saved == SavedId(p, i, kind = "raidAtOnce")
  <1>6. saved \in {0} \cup Ids
    BY <1>1, SavedIdType
  <1>7. [plr[p] EXCEPT !.at = "loading", !.saved = saved] \in PlayerRecord
    BY <1>6, PlayerType, ZenonT(40) DEF PlayerRecord
  <1>8. plr' = [plr EXCEPT ![p] = [plr[p] EXCEPT !.at = "loading", !.saved = saved]]
    BY DEF Create, TypeOK
  <1>9. plr' \in [Players -> PlayerRecord]
    BY <1>7, <1>8 DEF TypeOK
  <1>10. SetPersistentInstanceId({p}, i)
    BY DEF Create
  <1>11. m_instanceIds' \in [Groups -> {0} \cup Ids]
    BY <1>1, <1>10, SetPersistentType
  <1>12. /\ m_InstanceHigh' = i /\ m_instances' = (m_instances \ Expired) \cup {i}
         /\ mgr' = DeletedManagers(Expired, TRUE)
    BY DEF Create
  <1> QED BY <1>1, <1>3, <1>4, <1>5, <1>9, <1>11, <1>12

LEMMA CreateTypes ==
    ASSUME TypeOK, NEW p \in Players, Create(p) PROVE TypeOK'
  <1> DEFINE i == m_InstanceHigh + 1
  <1>0. /\ m_InstanceHigh' = i /\ i <= MaxInstances[kind]
        /\ m_instances' = (m_instances \ Expired) \cup {i}
    BY CreateEffect
  <1>1. m_instances' \subseteq 1 .. m_InstanceHigh'
    <2>1. m_instances \subseteq 1 .. m_InstanceHigh /\ m_InstanceHigh \in Nat
      BY DEF TypeOK
    <2>2. \A j \in m_instances : j \in 1 .. i
      BY <2>1
    <2>3. i \in 1 .. i
      BY <2>1
    <2> QED BY <1>0, <2>2, <2>3
  <1>2. m_InstanceHigh' \in 0 .. MaxInstances[kind]
    <2>1. m_InstanceHigh \in Nat /\ MaxInstances[kind] \in Nat
      BY DEF TypeOK
    <2> QED BY <1>0, <2>1
  <1>3. mgr' \in [Managers -> ManagerRecord]
    <2>1. DeletedManagers(Expired, TRUE)
            = [m \in Managers |-> DeletedManagers(Expired, TRUE)[m]]
      BY DEF DeletedManagers
    <2>2. \A m \in Managers : DeletedManagers(Expired, TRUE)[m] \in ManagerRecord
      BY ManagerOfDeleted
    <2> QED BY <2>1, <2>2, CreateEffect
  <1> QED BY <1>1, <1>2, <1>3, CreateEffect DEF Create, TypeOK, grouping

LEMMA CheckTypes ==
    ASSUME TypeOK, NEW p \in Players, Check(p) PROVE TypeOK'
  <1> DEFINE i == plr[p].in
  <1>1. CASE i \notin m_instances
    BY <1>1 DEF Check, Fault, TypeOK, registry, grouping
  <1>2. CASE i \in m_instances
    <2>1. LetIn(p, i) \/ Refuse(p)
      BY <1>2 DEF Check
    <2> QED BY <1>2, <2>1, DoorTypes DEF Check, TypeOK, grouping
  <1> QED BY <1>1, <1>2

LEMMA SummonTypes ==
    ASSUME TypeOK, NEW p \in Players, NEW q \in Players, Summon(p, q) PROVE TypeOK'
  <1>1. plr[q].m_instanceId \in m_instances /\ LetIn(p, plr[q].m_instanceId)
    BY DEF Summon
  <1> QED BY <1>1, DoorTypes DEF Summon, TypeOK, grouping

LEMMA FullLoginTypes ==
    ASSUME TypeOK, NEW p \in Players, FullLogin(p) PROVE TypeOK'
  <1>1. [plr[p] EXCEPT !.at = "loading"] \in PlayerRecord
    BY PlayerType DEF PlayerRecord
  <1>2. plr' = [plr EXCEPT ![p] = [plr[p] EXCEPT !.at = "loading"]]
    BY DEF FullLogin, TypeOK
  <1> QED BY <1>1, <1>2 DEF FullLogin, TypeOK, registry, grouping

\* The manager GetInstance makes.
MadeFor(i) == [NewManager EXCEPT !.pInstance = i, !.m_instanceID = i,
                                 !.pc = "loop", !.inactive = TRUE]

\* What GetInstance does: it sends a player to manager m of instance i.
GotInstance(i, X, m) ==
    /\ i \in Ids /\ i \notin X
    /\ IF instance[i].m_mapMgr # None THEN m = instance[i].m_mapMgr
       ELSE FreeManager(m)
    /\ m_instances' = m_instances \ X
    /\ \A j \in Ids : instance'[j] = IF j = i
                        THEN [instance[j] EXCEPT !.m_mapMgr = m]
                        ELSE IF j \in X THEN NewInstance ELSE instance[j]
    /\ \A n \in Managers : mgr'[n] =
          IF n = m /\ instance[i].m_mapMgr = None THEN MadeFor(i)
          ELSE DeletedManagers(X, TRUE)[n]
    /\ MadeFor(i) \in ManagerRecord
    /\ instance' \in [Ids -> InstanceRecord]
    /\ mgr' \in [Managers -> ManagerRecord]
    /\ plr' \in [Players -> PlayerRecord]

LEMMA GetInstanceEffect ==
    ASSUME TypeOK, NEW p \in Players, GetInstance(p)
    PROVE  \E i \in m_instances, X \in SUBSET (m_instances \cap Expired), m \in Managers :
              GotInstance(i, X, m)
  <1>1. PICK i \in m_instances, X \in SUBSET m_instances, m \in Managers :
            /\ IF plr[p].m_instanceId \in m_instances
               THEN i = plr[p].m_instanceId /\ X = {}
               ELSE OwnedSearch(p, i, X)
            /\ GoToManager(p, i, X, m)
    BY DEF GetInstance
  <1>2. i \in Ids /\ i # 0 /\ 0 \notin m_instances /\ m_instances \subseteq Ids
    BY Registry
  <1>3. i \notin X /\ X \subseteq Expired
    BY <1>1, <1>2 DEF OwnedSearch
  <1>4. MadeFor(i) \in ManagerRecord
    BY <1>2 DEF MadeFor, NewManager, ManagerRecord
  <1>5. instance' \in [Ids -> InstanceRecord]
    <2>1. instance[i] \in InstanceRecord
      BY <1>2 DEF TypeOK
    <2>2. [instance[i] EXCEPT !.m_mapMgr = m] \in InstanceRecord
      BY <2>1 DEF InstanceRecord
    <2> QED BY <1>1, <2>2, NewInstanceType DEF GoToManager, TypeOK
  <1>6. DeletedManagers(X, TRUE) = [n \in Managers |-> DeletedManagers(X, TRUE)[n]]
    BY DEF DeletedManagers
  <1>7. \A n \in Managers : DeletedManagers(X, TRUE)[n] \in ManagerRecord
    BY ManagerOfDeleted
  <1>8. \A n \in Managers : mgr'[n] =
            IF n = m /\ instance[i].m_mapMgr = None THEN MadeFor(i)
            ELSE DeletedManagers(X, TRUE)[n]
    BY <1>1, <1>6 DEF GoToManager, MadeFor
  <1>9. mgr' = [n \in Managers |-> mgr'[n]]
    BY <1>1, <1>6 DEF GoToManager
  <1>10. mgr' \in [Managers -> ManagerRecord]
    BY <1>4, <1>7, <1>8, <1>9
  <1>11. [plr[p] EXCEPT !.at = "adding", !.m_mapMgr = m] \in PlayerRecord
    BY PlayerType, ZenonT(40) DEF PlayerRecord
  <1>12. plr' = [plr EXCEPT ![p] = [plr[p] EXCEPT !.at = "adding", !.m_mapMgr = m]]
    BY <1>1 DEF GoToManager, TypeOK
  <1>13. plr' \in [Players -> PlayerRecord]
    BY <1>11, <1>12 DEF TypeOK
  <1>14. X \in SUBSET (m_instances \cap Expired)
    BY <1>1, <1>3
  <1> QED
    BY <1>1, <1>2, <1>3, <1>4, <1>5, <1>8, <1>10, <1>13, <1>14
    DEF GoToManager, GotInstance

LEMMA GetInstanceTypes ==
    ASSUME TypeOK, NEW p \in Players, GetInstance(p) PROVE TypeOK'
  <1>1. /\ m_instances' \subseteq m_instances
        /\ instance' \in [Ids -> InstanceRecord]
        /\ mgr' \in [Managers -> ManagerRecord]
        /\ plr' \in [Players -> PlayerRecord]
    BY GetInstanceEffect DEF GotInstance
  <1> QED BY <1>1 DEF GetInstance, TypeOK, grouping

LEMMA NoInstanceTypes ==
    ASSUME TypeOK, NEW p \in Players, NoInstance(p) PROVE TypeOK'
  <1>1. [plr[p] EXCEPT !.at = "out", !.m_instanceId = 0] \in PlayerRecord
    BY PlayerType, ZenonT(40) DEF PlayerRecord
  <1>2. plr' = [plr EXCEPT ![p] = [plr[p] EXCEPT !.at = "out", !.m_instanceId = 0]]
    BY DEF NoInstance, TypeOK
  <1>3. plr' \in [Players -> PlayerRecord]
    BY <1>1, <1>2 DEF TypeOK
  <1>4. DeleteInstances(Expired, TRUE)
    BY DEF NoInstance
  <1> QED BY <1>3, <1>4, DeletionTypes DEF NoInstance, TypeOK, grouping

\* A step that only changes fields of one player, or of one manager.
LEMMA PlayerField ==
    ASSUME TypeOK, NEW p \in Players, NEW new \in PlayerRecord,
           plr' = [plr EXCEPT ![p] = new]
    PROVE  plr' \in [Players -> PlayerRecord]
  BY DEF TypeOK

LEMMA ManagerField ==
    ASSUME TypeOK, NEW m \in Managers, NEW new \in ManagerRecord,
           mgr' = [mgr EXCEPT ![m] = new]
    PROVE  mgr' \in [Managers -> ManagerRecord]
  BY DEF TypeOK

LEMMA ManagerType ==
    ASSUME TypeOK, NEW m \in Managers PROVE mgr[m] \in ManagerRecord
  BY DEF TypeOK

LEMMA AddToWorldTypes ==
    ASSUME TypeOK, PlayersPlaced, NEW p \in Players, AddToWorld(p) PROVE TypeOK'
  <1> DEFINE m == plr[p].m_mapMgr
             i == mgr[m].pInstance
  <1>1. m \in Managers
    BY DEF AddToWorld, PlayersPlaced
  <1>2. CASE mgr[m].pc = "none"
    BY <1>2 DEF AddToWorld, Fault, TypeOK, registry, grouping
  <1>3. CASE mgr[m].pc # "none" /\ i # 0 /\ ~MayEnter(p, i)
    <2> DEFINE new == [plr[p] EXCEPT !.at = "out", !.m_mapMgr = None,
                                     !.m_instanceId = 0]
    <2>1. new \in PlayerRecord
      BY PlayerType, ZenonT(40) DEF PlayerRecord
    <2>2. plr' = [plr EXCEPT ![p] = new]
      BY <1>3 DEF AddToWorld, TypeOK
    <2>3. plr' \in [Players -> PlayerRecord]
      BY <2>1, <2>2, PlayerField
    <2> QED BY <1>3, <2>3 DEF AddToWorld, TypeOK, registry, grouping
  <1>4. CASE mgr[m].pc # "none" /\ ~(i # 0 /\ ~MayEnter(p, i))
    <2>1. mgr[m] \in ManagerRecord
      BY <1>1, ManagerType
    <2> DEFINE new == [plr[p] EXCEPT !.at = "queued",
                                     !.m_instanceId = mgr[m].m_instanceID]
               its == [mgr[m] EXCEPT !.pool = @ \cup {p}]
    <2>2. new \in PlayerRecord
      <3>1. plr[p] \in PlayerRecord
        BY PlayerType
      <3>2. mgr[m].m_instanceID \in {0} \cup Ids
        BY <2>1 DEF ManagerRecord
      <3>3. \A id \in {0} \cup Ids :
               [plr[p] EXCEPT !.at = "queued", !.m_instanceId = id] \in PlayerRecord
        BY <3>1 DEF PlayerRecord
      <3> QED BY <3>2, <3>3
    <2>3. plr' = [plr EXCEPT ![p] = new]
      BY <1>4 DEF AddToWorld, TypeOK
    <2>4. plr' \in [Players -> PlayerRecord]
      BY <2>2, <2>3, PlayerField
    <2>5. its \in ManagerRecord
      BY <2>1 DEF ManagerRecord
    <2>6. mgr' = [mgr EXCEPT ![m] = its]
      BY <1>4 DEF AddToWorld, TypeOK
    <2>7. mgr' \in [Managers -> ManagerRecord]
      BY <1>1, <2>5, <2>6, ManagerField
    <2>8. instance' = [j \in Ids |->
                   IF j = i /\ instance[j].m_creatorGroup = 0
                   THEN [instance[j] EXCEPT !.m_creatorGroup = group[p]]
                   ELSE instance[j]]
      BY <1>4 DEF AddToWorld
    <2>9. \A j \in Ids : /\ instance[j] \in InstanceRecord
                         /\ [instance[j] EXCEPT !.m_creatorGroup = group[p]]
                               \in InstanceRecord
      <3>1. group[p] \in {0} \cup Groups
        BY DEF TypeOK
      <3>2. \A j \in Ids : instance[j] \in InstanceRecord
        BY DEF TypeOK
      <3> QED BY <3>1, <3>2 DEF InstanceRecord
    <2>10. instance' \in [Ids -> InstanceRecord]
      BY <2>8, <2>9
    <2>11. UNCHANGED <<kind, m_instances, m_InstanceHigh, grouping,
                       m_instanceIds, fault>>
      BY <1>4 DEF AddToWorld
    <2> QED BY <2>4, <2>7, <2>10, <2>11 DEF TypeOK, grouping
  <1> QED BY <1>2, <1>3, <1>4

LEMMA PushTypes ==
    ASSUME TypeOK, NEW m \in Managers, Push(m) PROVE TypeOK'
  <1> DEFINE its == [mgr[m] EXCEPT !.storage = @ \cup mgr[m].pool, !.pool = {},
                                   !.inactive = @ /\ mgr[m].forced]
  <1>1. its \in ManagerRecord
    BY ManagerType DEF ManagerRecord
  <1>2. mgr' = [mgr EXCEPT ![m] = its]
    BY DEF Push, TypeOK
  <1>3. mgr' \in [Managers -> ManagerRecord]
    BY <1>1, <1>2, ManagerField
  <1>4. \A p \in Players : [plr[p] EXCEPT !.at = "in"] \in PlayerRecord
    BY PlayerType DEF PlayerRecord
  <1>5. plr' \in [Players -> PlayerRecord]
    BY <1>4, PlayerType DEF Push
  <1> QED BY <1>3, <1>5 DEF Push, TypeOK, registry, grouping

LEMMA LeaveMapTypes ==
    ASSUME TypeOK, PlayersPlaced, NEW p \in Players, LeaveMap(p) PROVE TypeOK'
  <1>1. plr[p].m_mapMgr \in Managers /\ RemovePlayers(plr[p].m_mapMgr, {p})
    BY DEF LeaveMap, PlayersPlaced
  <1>2. plr' \in [Players -> PlayerRecord]
    BY OutsideType, PlayerField DEF LeaveMap
  <1>3. /\ instance' \in [Ids -> InstanceRecord]
        /\ mgr' \in [Managers -> ManagerRecord]
    BY <1>1, RemovePlayersTypes
  <1> QED BY <1>2, <1>3 DEF LeaveMap, TypeOK, grouping

LEMMA LogoutPlayerTypes ==
    ASSUME TypeOK, PlayersPlaced, NEW p \in Players, LogoutPlayer(p) PROVE TypeOK'
  <1> DEFINE m == plr[p].m_mapMgr
             new == [Outside(p) EXCEPT !.at = "offline",
                                       !.m_instanceId = mgr[m].m_instanceID]
  <1>1. m \in Managers /\ RemovePlayers(m, {p}) /\ plr' = [plr EXCEPT ![p] = new]
    BY DEF LogoutPlayer, PlayersPlaced
  <1>2. new \in PlayerRecord
    <2>1. Outside(p) \in PlayerRecord
      BY OutsideType
    <2>2. mgr[m].m_instanceID \in {0} \cup Ids
      BY <1>1, ManagerType DEF ManagerRecord
    <2> HIDE DEF m
    <2> QED BY <2>1, <2>2 DEF PlayerRecord
  <1>3. plr' \in [Players -> PlayerRecord]
    BY <1>1, <1>2, PlayerField
  <1>4. /\ instance' \in [Ids -> InstanceRecord]
        /\ mgr' \in [Managers -> ManagerRecord]
    BY <1>1, RemovePlayersTypes
  <1> QED BY <1>3, <1>4 DEF LogoutPlayer, TypeOK, grouping

LEMMA BossDiesTypes ==
    ASSUME TypeOK, NEW m \in Managers, BossDies(m) PROVE TypeOK'
  <1> DEFINE i == mgr[m].pInstance
             P == mgr[m].storage
  <1>1. i \in Ids
    BY ManagerType DEF BossDies, ManagerRecord
  <1>2. [instance[i] EXCEPT !.m_persistent = TRUE] \in InstanceRecord
    <2>1. instance[i] \in InstanceRecord
      BY <1>1 DEF TypeOK
    <2> QED BY <2>1 DEF InstanceRecord
  <1>3. instance' \in [Ids -> InstanceRecord]
    <2>1. instance' = [instance EXCEPT ![i] = [instance[i] EXCEPT !.m_persistent = TRUE]]
      BY DEF BossDies, TypeOK
    <2> QED BY <1>2, <2>1 DEF TypeOK
  <1>4. m_instanceIds' \in [Groups -> {0} \cup Ids]
    BY <1>1, SetPersistentType DEF BossDies
  <1>5. \A p \in Players : [plr[p] EXCEPT !.saved = SavedId(p, i, TRUE)] \in PlayerRecord
    <2>1. \A p \in Players : SavedId(p, i, TRUE) \in {0} \cup Ids
      BY <1>1, SavedIdType
    <2> QED BY <2>1, PlayerType, ZenonT(40) DEF PlayerRecord
  <1>6. plr' \in [Players -> PlayerRecord]
    <2>1. plr' = [p \in Players |-> IF p \in P
                     THEN [plr[p] EXCEPT !.saved = SavedId(p, i, TRUE)]
                     ELSE plr[p]]
      BY DEF BossDies
    <2> QED BY <1>5, <2>1, PlayerType
  <1> QED BY <1>3, <1>4, <1>6 DEF BossDies, TypeOK, grouping

\* The steps of a manager that ends: EndLoop, ReadInstance and DeleteMap.
LEMMA EndTypes ==
    ASSUME TypeOK, NEW m \in Managers,
           EndLoop(m) \/ ReadInstance(m) \/ DeleteMap(m)
    PROVE  TypeOK'
  <1>1. \A l \in {"teleport", "delete", "unlink"} :
            [mgr[m] EXCEPT !.pc = l] \in ManagerRecord
    BY ManagerType DEF ManagerRecord
  <1>2. CASE EndLoop(m)
    <2>1. mgr' = [mgr EXCEPT ![m] = [mgr[m] EXCEPT !.pc = "teleport"]]
      BY <1>2 DEF EndLoop, TypeOK
    <2>2. mgr' \in [Managers -> ManagerRecord]
      BY <1>1, <2>1, ManagerField
    <2> QED BY <1>2, <2>2 DEF EndLoop, TypeOK, registry, grouping
  <1>3. CASE ReadInstance(m)
    <2>1. PICK l \in {"delete", "unlink"} :
              mgr' = [mgr EXCEPT ![m] = [mgr[m] EXCEPT !.pc = l]]
      BY <1>3 DEF ReadInstance, TypeOK
    <2>2. mgr' \in [Managers -> ManagerRecord]
      BY <1>1, <2>1, ManagerField
    <2> QED BY <1>3, <2>2 DEF ReadInstance, TypeOK, registry, grouping
  <1>4. CASE DeleteMap(m)
    <2>1. CASE mgr[m].pool # {}
      BY <1>4, <2>1 DEF DeleteMap, Fault, TypeOK, registry, grouping
    <2>2. CASE mgr[m].pool = {}
      <3>1. mgr' \in [Managers -> ManagerRecord]
        BY <1>4, <2>2, NewManagerType, ManagerField DEF DeleteMap
      <3> QED BY <1>4, <2>2, <3>1 DEF DeleteMap, TypeOK, registry, grouping
    <2> QED BY <2>1, <2>2
  <1> QED BY <1>2, <1>3, <1>4

LEMMA TeleportTypes ==
    ASSUME TypeOK, NEW m \in Managers, TeleportPlayers(m) PROVE TypeOK'
  <1> DEFINE its == [mgr[m] EXCEPT !.storage = {}, !.pc = "read"]
  <1>1. its \in ManagerRecord
    BY ManagerType DEF ManagerRecord
  <1>2. mgr' = [mgr EXCEPT ![m] = its]
    BY DEF TeleportPlayers, TypeOK
  <1>3. mgr' \in [Managers -> ManagerRecord]
    BY <1>1, <1>2, ManagerField
  <1>4. plr' \in [Players -> PlayerRecord]
    BY OutsideType, PlayerType DEF TeleportPlayers
  <1>5. instance' \in [Ids -> InstanceRecord]
    <2>1. \A j \in Ids : instance[j] \in InstanceRecord
      BY DEF TypeOK
    <2>2. \A j \in Ids : [instance[j] EXCEPT !.m_creatorGroup = 0] \in InstanceRecord
      BY <2>1 DEF InstanceRecord
    <2> QED BY <2>1, <2>2 DEF TeleportPlayers
  <1> QED BY <1>3, <1>4, <1>5 DEF TeleportPlayers, TypeOK, grouping

LEMMA UnlinkEffect ==
    ASSUME TypeOK, NEW m \in Managers, UnlinkInstance(m), mgr[m].pInstance # 0
    PROVE  \E l \in {"drop", "delete"} :
              LET its == [mgr[m] EXCEPT !.pc = l]
                  i == mgr[m].pInstance IN
              /\ i \in Ids /\ its \in ManagerRecord
              /\ mgr' = [mgr EXCEPT ![m] = its]
              /\ l = "drop" => kind = "nonraid"
              /\ instance' = [instance EXCEPT ![i] = [instance[i] EXCEPT !.m_mapMgr = None]]
              /\ [instance[i] EXCEPT !.m_mapMgr = None] \in InstanceRecord
  <1> DEFINE i == mgr[m].pInstance
  <1>1. i \in Ids
    BY ManagerType DEF UnlinkInstance, ManagerRecord
  <1>2. PICK l \in {"drop", "delete"} :
            /\ mgr' = [mgr EXCEPT ![m] = [mgr[m] EXCEPT !.pc = l]]
            /\ l = "drop" => kind = "nonraid"
    BY DEF UnlinkInstance, TypeOK
  <1>3. [mgr[m] EXCEPT !.pc = l] \in ManagerRecord
    BY ManagerType DEF ManagerRecord
  <1>4. instance' = [instance EXCEPT ![i] = [instance[i] EXCEPT !.m_mapMgr = None]]
    BY DEF UnlinkInstance, TypeOK
  <1>5. [instance[i] EXCEPT !.m_mapMgr = None] \in InstanceRecord
    <2>1. instance[i] \in InstanceRecord
      BY <1>1 DEF TypeOK
    <2> QED BY <2>1 DEF InstanceRecord
  <1> QED BY <1>1, <1>2, <1>3, <1>4, <1>5

LEMMA UnlinkTypes ==
    ASSUME TypeOK, NEW m \in Managers, UnlinkInstance(m) PROVE TypeOK'
  <1>1. CASE mgr[m].pInstance = 0
    BY <1>1 DEF UnlinkInstance, Fault, TypeOK, registry, grouping
  <1>2. CASE mgr[m].pInstance # 0
    <2>1. /\ instance' \in [Ids -> InstanceRecord]
          /\ mgr' \in [Managers -> ManagerRecord]
      <3>1. PICK its \in ManagerRecord, new \in InstanceRecord :
                /\ mgr' = [mgr EXCEPT ![m] = its]
                /\ instance' = [instance EXCEPT ![mgr[m].pInstance] = new]
        BY <1>2, UnlinkEffect
      <3> QED BY <3>1, ManagerField DEF TypeOK
    <2> QED BY <1>2, <2>1 DEF UnlinkInstance, TypeOK, grouping
  <1> QED BY <1>1, <1>2

LEMMA DropEffect ==
    ASSUME TypeOK, NEW m \in Managers, DropInstance(m),
           mgr[m].pInstance \in m_instances
    PROVE  LET i == mgr[m].pInstance IN
           /\ i \in Ids
           /\ m_instances' = m_instances \ {i}
           /\ instance' \in [Ids -> InstanceRecord]
           /\ \A j \in Ids : instance'[j] = IF j = i THEN NewInstance ELSE instance[j]
           /\ mgr' \in [Managers -> ManagerRecord]
           /\ mgr'[m].pc = "delete" /\ mgr'[m].pInstance = 0
           /\ mgr'[m].storage = mgr[m].storage /\ mgr'[m].pool = mgr[m].pool
           /\ mgr'[m].forced => mgr'[m].inactive \/ (mgr[m].forced /\ ~mgr[m].inactive)
           /\ \A n \in Managers \ {m} : mgr'[n] = DeletedManagers({i}, TRUE)[n]
  <1> DEFINE i == mgr[m].pInstance
             D == DeletedManagers({i}, TRUE)
             its == [D[m] EXCEPT !.pInstance = 0, !.pc = "delete"]
  <1>1. i \in Ids
    BY Registry
  <1>2. /\ m_instances' = m_instances \ {i}
        /\ instance' = [instance EXCEPT ![i] = NewInstance]
        /\ mgr' = [D EXCEPT ![m].pInstance = 0, ![m].pc = "delete"]
    BY DEF DropInstance
  <1>3. /\ instance' \in [Ids -> InstanceRecord]
        /\ \A j \in Ids : instance'[j] = IF j = i THEN NewInstance ELSE instance[j]
    BY <1>1, <1>2, NewInstanceType DEF TypeOK
  <1>4. D = [n \in Managers |-> D[n]]
    BY DEF DeletedManagers
  <1>5. \A n \in Managers : D[n] \in ManagerRecord
    BY ManagerOfDeleted
  <1>6. /\ D[m].storage = mgr[m].storage /\ D[m].pool = mgr[m].pool
        /\ D[m].forced => D[m].inactive \/ (mgr[m].forced /\ ~mgr[m].inactive)
    <2>1. /\ D[m].storage = mgr[m].storage /\ D[m].pool = mgr[m].pool
          /\ \/ D[m].forced = mgr[m].forced /\ D[m].inactive = mgr[m].inactive
             \/ D[m].forced /\ D[m].inactive
      <3>1. mgr[m] \in ManagerRecord
        BY DEF TypeOK
      <3> QED BY <3>1 DEF DeletedManagers, ManagerRecord
    <2>2. mgr[m].forced \in BOOLEAN /\ mgr[m].inactive \in BOOLEAN
      BY DEF TypeOK, ManagerRecord
    <2> QED BY <2>1, <2>2
  <1> HIDE DEF D
  <1>7. its \in ManagerRecord
    BY <1>5 DEF ManagerRecord
  <1>8. mgr' = [D EXCEPT ![m] = its]
    BY <1>2, <1>4
  <1>9. /\ mgr' \in [Managers -> ManagerRecord] /\ mgr'[m] = its
        /\ \A n \in Managers \ {m} : mgr'[n] = D[n]
    BY <1>4, <1>5, <1>7, <1>8
  <1>10. /\ its.pc = "delete" /\ its.pInstance = 0
         /\ its.storage = D[m].storage /\ its.pool = D[m].pool
         /\ its.forced = D[m].forced /\ its.inactive = D[m].inactive
    BY <1>5 DEF ManagerRecord
  <1> HIDE DEF its
  <1> QED BY <1>1, <1>2, <1>3, <1>6, <1>9, <1>10 DEF D

LEMMA DropTypes ==
    ASSUME TypeOK, NEW m \in Managers, DropInstance(m) PROVE TypeOK'
  <1>1. CASE mgr[m].pInstance \notin m_instances
    BY <1>1 DEF DropInstance, Fault, TypeOK, registry, grouping
  <1>2. CASE mgr[m].pInstance \in m_instances
    <2>1. /\ m_instances' \subseteq m_instances
          /\ instance' \in [Ids -> InstanceRecord]
          /\ mgr' \in [Managers -> ManagerRecord]
      BY <1>2, DropEffect
    <2> QED BY <1>2, <2>1 DEF DropInstance, TypeOK, grouping
  <1> QED BY <1>1, <1>2

\* Expire, CheckForExpiredInstances and ResetSavedInstances.
LEMMA ExpireTypes ==
    ASSUME TypeOK, NEW i \in Ids, Expire(i) PROVE TypeOK'
  <1>1. [instance[i] EXCEPT !.expired = TRUE] \in InstanceRecord
    <2>1. instance[i] \in InstanceRecord
      BY DEF TypeOK
    <2> QED BY <2>1 DEF InstanceRecord
  <1>2. instance' = [instance EXCEPT ![i] = [instance[i] EXCEPT !.expired = TRUE]]
    BY DEF Expire, TypeOK
  <1>3. instance' \in [Ids -> InstanceRecord]
    BY <1>1, <1>2 DEF TypeOK
  <1> QED BY <1>3 DEF Expire, TypeOK, grouping

LEMMA ResetTypes ==
    ASSUME TypeOK,
           CheckForExpiredInstances \/ \E p \in Players : ResetSavedInstances(p)
    PROVE  TypeOK'
  <1>1. CASE CheckForExpiredInstances
    <2>1. DeleteInstances(Expired, FALSE)
      BY <1>1 DEF CheckForExpiredInstances
    <2> QED BY <1>1, <2>1, DeletionTypes DEF CheckForExpiredInstances, TypeOK, grouping
  <1>2. ASSUME NEW p \in Players, ResetSavedInstances(p) PROVE TypeOK'
    <2>1. DeleteInstances(ResetBy(p), TRUE)
      BY <1>2 DEF ResetSavedInstances
    <2> QED BY <1>2, <2>1, DeletionTypes DEF ResetSavedInstances, TypeOK, grouping
  <1> QED BY <1>1, <1>2

\* Groups.
LEMMA AddMemberTypes ==
    ASSUME TypeOK, NEW p \in Players, NEW q \in Players, AddMember(p, q)
    PROVE  TypeOK'
  BY DEF AddMember, TypeOK, registry

LEMMA NewGroupTypes ==
    ASSUME TypeOK, NEW p \in Players, NEW q \in Players, NewGroup(p, q)
    PROVE  TypeOK'
  <1> DEFINE g == m_GroupHigh + 1
             i == plr[p].m_instanceId
             takes == i \in m_instances /\ instance[i].m_creatorGuid = p
  <1>1. g \in Groups /\ m_GroupHigh' = g /\ m_GroupHigh' \in 0 .. MaxGroups[kind]
    <2>1. g \in 1 .. MaxGroups[kind] /\ kind \in Kinds /\ m_GroupHigh' = g
      BY DEF NewGroup, TypeOK
    <2> QED BY <2>1, IdsAreIds
  <1>2. group' \in [Players -> {0} \cup Groups]
    BY <1>1 DEF NewGroup, TypeOK
  <1>3. m_Leader' \in [Groups -> Players \cup {None}]
    BY <1>1 DEF NewGroup, TypeOK
  <1>4. i \in {0} \cup Ids
    BY PlayerType DEF PlayerRecord
  <1>5. m_instanceIds' \in [Groups -> {0} \cup Ids]
    <2>1. m_instanceIds' = [m_instanceIds EXCEPT ![g] = IF takes THEN i ELSE 0]
      BY DEF NewGroup
    <2> QED BY <1>1, <1>4, <2>1 DEF TypeOK
  <1>6. instance' \in [Ids -> InstanceRecord]
    <2>1. CASE takes
      <3> DEFINE new == [instance[i] EXCEPT !.m_creatorGroup = g, !.m_creatorGuid = None]
      <3>1. i \in Ids
        BY <2>1, Registry
      <3>2. instance[i] \in InstanceRecord
        BY <3>1 DEF TypeOK
      <3>3. new \in InstanceRecord
        BY <1>1, <3>2 DEF InstanceRecord
      <3>4. instance' = [instance EXCEPT ![i] = new]
        BY <2>1 DEF NewGroup, TypeOK
      <3> QED BY <3>3, <3>4 DEF TypeOK
    <2>2. CASE ~takes
      BY <2>2 DEF NewGroup, TypeOK
    <2> QED BY <2>1, <2>2
  <1> QED BY <1>1, <1>2, <1>3, <1>5, <1>6 DEF NewGroup, TypeOK

LEMMA RemovePlayerTypes ==
    ASSUME TypeOK, NEW p \in Players, RemovePlayer(p) PROVE TypeOK'
  <1> DEFINE told == (plr[p].told \/ ToldToLeave(p))
             new == [plr[p] EXCEPT !.told = told]
  <1>1. told \in BOOLEAN
    BY Zenon DEF ToldToLeave
  <1> HIDE DEF told
  <1>2. new \in PlayerRecord
    BY <1>1, PlayerType DEF PlayerRecord
  <1>3. plr' = [plr EXCEPT ![p] = new]
    BY DEF RemovePlayer, TypeOK, told
  <1>4. plr' \in [Players -> PlayerRecord]
    BY <1>2, <1>3, PlayerField
  <1>5. group' \in [Players -> {0} \cup Groups]
    BY DEF RemovePlayer, TypeOK
  <1>6. m_Leader' \in [Groups -> Players \cup {None}]
    <2>1. PICK q \in Members(group[p]) \ {p} :
             m_Leader' = [m_Leader EXCEPT ![group[p]] = IF @ = p THEN q ELSE @]
      BY DEF RemovePlayer
    <2>2. q \in Players
      BY DEF Members
    <2> QED BY <2>1, <2>2 DEF TypeOK
  <1> QED BY <1>4, <1>5, <1>6 DEF RemovePlayer, TypeOK, registry

\* Who is told to leave when the group of p disbands.
InsideOf(p) ==
    LET owned == {i \in m_instances : /\ instance[i].m_mapMgr # None
                                      /\ instance[i].m_creatorGroup = group[p]}
        D == {i \in owned : IsResetable(i)} IN
    {q \in Players : /\ plr[q].at = "in"
                     /\ plr[q].m_instanceId \in owned \ D}

DisbandDeletes(p) ==
    {i \in m_instances : /\ instance[i].m_mapMgr # None
                         /\ instance[i].m_creatorGroup = group[p]
                         /\ IsResetable(i)}

LEMMA DisbandEffect ==
    ASSUME TypeOK, NEW p \in Players, Disband(p)
    PROVE  /\ DeleteInstances(DisbandDeletes(p), FALSE)
           /\ plr' \in [Players -> PlayerRecord]
           /\ \A q \in Players : /\ plr'[q].at = plr[q].at
                                 /\ plr'[q].m_mapMgr = plr[q].m_mapMgr
  <1>1. DeleteInstances(DisbandDeletes(p), FALSE)
    <2>1. DisbandDeletes(p)
            = {i \in {i \in m_instances : /\ instance[i].m_mapMgr # None
                                         /\ instance[i].m_creatorGroup = group[p]} :
                    IsResetable(i)}
      BY DEF DisbandDeletes
    <2> QED BY <2>1 DEF Disband
  <1> DEFINE told(q) == (plr[q].told \/ (q = p /\ ToldToLeave(p)) \/ q \in InsideOf(p))
             new(q) == [plr[q] EXCEPT !.told = told(q)]
  <1>2. \A q \in Players : told(q) \in BOOLEAN
    BY Zenon DEF ToldToLeave
  <1>3. plr' = [q \in Players |-> new(q)]
    BY DEF Disband, InsideOf
  <1> HIDE DEF told
  <1>4. \A q \in Players : new(q) \in PlayerRecord
    BY <1>2, PlayerType DEF PlayerRecord
  <1>5. \A q \in Players : new(q).at = plr[q].at /\ new(q).m_mapMgr = plr[q].m_mapMgr
    BY PlayerType DEF PlayerRecord
  <1> HIDE DEF new
  <1> QED BY <1>1, <1>3, <1>4, <1>5

LEMMA DisbandTypes ==
    ASSUME TypeOK, NEW p \in Players, Disband(p) PROVE TypeOK'
  <1>1. /\ m_instances' \subseteq 1 .. m_InstanceHigh
        /\ instance' \in [Ids -> InstanceRecord]
        /\ mgr' \in [Managers -> ManagerRecord]
        /\ plr' \in [Players -> PlayerRecord]
    BY DisbandEffect, DeletionTypes
  <1>2. group' \in [Players -> {0} \cup Groups]
    BY DEF Disband, TypeOK
  <1>3. m_Leader' \in [Groups -> Players \cup {None}]
    BY DEF Disband, TypeOK
  <1>4. m_instanceIds' \in [Groups -> {0} \cup Ids]
    BY DEF Disband, TypeOK
  <1> QED BY <1>1, <1>2, <1>3, <1>4 DEF Disband, TypeOK

-----------------------------------------------------------------------------
(* Where the players are. *)

\* A step that takes nobody into a pool or a storage.
LEMMA PlacedQuiet ==
    ASSUME IInv,
           \A m \in Managers : /\ mgr'[m].storage \subseteq mgr[m].storage
                               /\ mgr'[m].pool \subseteq mgr[m].pool,
           \A p \in Players :
               \/ plr'[p].at = plr[p].at /\ plr'[p].m_mapMgr = plr[p].m_mapMgr
               \/ /\ plr[p].at \notin {"queued", "in"}
                  /\ plr'[p].at \in {"adding", "queued", "in"}
                        => plr'[p].m_mapMgr \in Managers
    PROVE  PlayersPlaced'
  <1>1. \A m \in Managers : \A p \in mgr[m].storage \cup mgr[m].pool : p \in Players
    BY ManagerType DEF IInv, ManagerRecord
  <1> QED BY <1>1 DEF IInv, PlayersPlaced

\* The same for a step that leaves the managers alone.
LEMMA OnePlaced ==
    ASSUME IInv, NEW p \in Players, NEW new, plr' = [plr EXCEPT ![p] = new],
           plr[p].at \notin {"queued", "in"},
           new.at \in {"adding", "queued", "in"} => new.m_mapMgr \in Managers,
           \A m \in Managers : /\ mgr'[m].storage \subseteq mgr[m].storage
                               /\ mgr'[m].pool \subseteq mgr[m].pool
    PROVE  PlayersPlaced'
  <1>1. \A q \in Players : plr'[q] = IF q = p THEN new ELSE plr[q]
    BY DEF IInv, TypeOK
  <1> QED BY <1>1, PlacedQuiet

\* DeleteInstances leaves everybody where he is.
LEMMA DeletedPlaces ==
    ASSUME TypeOK, NEW D, NEW force \in BOOLEAN, NEW m \in Managers
    PROVE  /\ DeletedManagers(D, force)[m].storage = mgr[m].storage
           /\ DeletedManagers(D, force)[m].pool = mgr[m].pool
  BY ManagerOfDeleted

LEMMA DeletionPlaces ==
    ASSUME TypeOK, NEW D, NEW force \in BOOLEAN, mgr' = DeletedManagers(D, force)
    PROVE  \A m \in Managers : /\ mgr'[m].storage \subseteq mgr[m].storage
                               /\ mgr'[m].pool \subseteq mgr[m].pool
  BY DeletedPlaces

\* The way in, up to the door of the manager.
LEMMA ArrivalPlaced ==
    ASSUME IInv, NEW p \in Players,
           \/ Find(p) \/ Create(p) \/ Check(p) \/ FullLogin(p) \/ NoInstance(p)
           \/ GetInstance(p) \/ \E q \in Players : Summon(p, q)
    PROVE  PlayersPlaced'
  <1>0. TypeOK /\ plr[p] \in PlayerRecord /\ plr \in [Players -> PlayerRecord]
    BY PlayerType DEF IInv, TypeOK
  <1>1. CASE Find(p)
    <2>1. PICK i \in m_instances, X \in SUBSET m_instances :
              /\ plr' = [plr EXCEPT ![p].at = "found", ![p].in = i]
              /\ DeleteInstances(X, TRUE)
      BY <1>1 DEF Find
    <2> DEFINE new == [plr[p] EXCEPT !.at = "found", !.in = i]
    <2>2. plr' = [plr EXCEPT ![p] = new] /\ new.at = "found"
      BY <1>0, <2>1 DEF PlayerRecord
    <2> HIDE DEF new
    <2>3. plr[p].at = "out"
      BY <1>1 DEF Find, MayTeleport
    <2> QED BY <1>0, <2>1, <2>2, <2>3, DeletionPlaces, OnePlaced DEF DeleteInstances
  <1>2. CASE Create(p)
    <2> DEFINE saved == SavedId(p, m_InstanceHigh + 1, kind = "raidAtOnce")
               new == [plr[p] EXCEPT !.at = "loading", !.saved = saved]
    <2>1. plr' = [plr EXCEPT ![p] = new] /\ new.at = "loading"
      BY <1>0, <1>2, ZenonT(40) DEF Create, PlayerRecord
    <2> HIDE DEF new
    <2>2. plr[p].at = "out" /\ mgr' = DeletedManagers(Expired, TRUE)
      BY <1>2 DEF Create, MayTeleport
    <2> QED BY <1>0, <2>1, <2>2, DeletionPlaces, OnePlaced
  <1>3. CASE Check(p)
    <2>1. CASE plr[p].in \notin m_instances
      BY <1>3, <2>1, PlacedQuiet DEF Check, Fault
    <2>2. CASE plr[p].in \in m_instances
      <3> DEFINE i == plr[p].in
                 saved == SavedId(p, i, instance[i].m_persistent)
      <3>1. mgr' = mgr /\ plr[p].at = "found" /\ (LetIn(p, i) \/ Refuse(p))
        BY <1>3, <2>2 DEF Check
      <3>2. PICK new : plr' = [plr EXCEPT ![p] = new] /\ new.at \in {"loading", "out"}
        <4>1. CASE LetIn(p, i)
          <5> DEFINE new == [plr[p] EXCEPT !.at = "loading", !.in = 0, !.saved = saved]
          <5>1. plr' = [plr EXCEPT ![p] = new] /\ new.at = "loading"
            BY <1>0, <4>1 DEF LetIn, PlayerRecord
          <5> QED BY <5>1
        <4>2. CASE Refuse(p)
          <5> DEFINE new == [plr[p] EXCEPT !.at = "out", !.in = 0]
          <5>1. plr' = [plr EXCEPT ![p] = new] /\ new.at = "out"
            BY <1>0, <4>2 DEF Refuse, PlayerRecord
          <5> QED BY <5>1
        <4> QED BY <3>1, <4>1, <4>2
      <3> QED BY <3>1, <3>2, OnePlaced
    <2> QED BY <2>1, <2>2
  <1>4. CASE FullLogin(p)
    <2> DEFINE new == [plr[p] EXCEPT !.at = "loading"]
    <2>1. plr' = [plr EXCEPT ![p] = new] /\ new.at = "loading"
      BY <1>0, <1>4 DEF FullLogin, PlayerRecord
    <2> HIDE DEF new
    <2>2. plr[p].at = "offline" /\ mgr' = mgr
      BY <1>4 DEF FullLogin
    <2> QED BY <2>1, <2>2, OnePlaced
  <1>5. CASE NoInstance(p)
    <2> DEFINE new == [plr[p] EXCEPT !.at = "out", !.m_instanceId = 0]
    <2>1. plr' = [plr EXCEPT ![p] = new] /\ new.at = "out"
      BY <1>0, <1>5 DEF NoInstance, PlayerRecord
    <2> HIDE DEF new
    <2>2. plr[p].at = "loading" /\ mgr' = DeletedManagers(Expired, TRUE)
      BY <1>5 DEF NoInstance, DeleteInstances
    <2> QED BY <1>0, <2>1, <2>2, DeletionPlaces, OnePlaced
  <1>6. CASE GetInstance(p)
    <2>1. PICK i \in m_instances, X \in SUBSET m_instances, m \in Managers :
              GoToManager(p, i, X, m)
      BY <1>6 DEF GetInstance
    <2> DEFINE new == [plr[p] EXCEPT !.at = "adding", !.m_mapMgr = m]
    <2>2. plr' = [plr EXCEPT ![p] = new] /\ new.at = "adding" /\ new.m_mapMgr = m
      BY <1>0, <2>1 DEF GoToManager, PlayerRecord
    <2> HIDE DEF new
    <2>3. PICK Y : \A n \in Managers :
              \/ mgr'[n] = DeletedManagers(Y, TRUE)[n]
              \/ mgr'[n].storage = {} /\ mgr'[n].pool = {}
      <3>1. \A j : MadeFor(j).storage = {} /\ MadeFor(j).pool = {}
        BY DEF MadeFor, NewManager
      <3>2. PICK j \in m_instances, Y \in SUBSET (m_instances \cap Expired), n \in Managers :
                GotInstance(j, Y, n)
        BY <1>0, <1>6, GetInstanceEffect
      <3> QED BY <3>1, <3>2 DEF GotInstance
    <2>4. \A n \in Managers : /\ mgr'[n].storage \subseteq mgr[n].storage
                              /\ mgr'[n].pool \subseteq mgr[n].pool
      <3>1. \A n \in Managers :
               /\ DeletedManagers(Y, TRUE)[n].storage = mgr[n].storage
               /\ DeletedManagers(Y, TRUE)[n].pool = mgr[n].pool
        BY <1>0, DeletedPlaces
      <3> QED BY <2>3, <3>1
    <2>5. plr[p].at = "loading"
      BY <1>6 DEF GetInstance
    <2> QED BY <2>2, <2>4, <2>5, OnePlaced
  <1>7. ASSUME NEW q \in Players, Summon(p, q) PROVE PlayersPlaced'
    <2> DEFINE i == plr[q].m_instanceId
               saved == SavedId(p, i, instance[i].m_persistent)
               new == [plr[p] EXCEPT !.at = "loading", !.in = 0, !.saved = saved]
    <2>1. plr' = [plr EXCEPT ![p] = new] /\ new.at = "loading"
      BY <1>0, <1>7 DEF Summon, LetIn, PlayerRecord
    <2> HIDE DEF new
    <2>2. mgr' = mgr /\ plr[p].at = "out"
      BY <1>7 DEF Summon, MayTeleport
    <2> QED BY <2>1, <2>2, OnePlaced
  <1> QED BY <1>1, <1>2, <1>3, <1>4, <1>5, <1>6, <1>7

LEMMA AddToWorldPlaced ==
    ASSUME IInv, NEW p \in Players, AddToWorld(p) PROVE PlayersPlaced'
  <1> DEFINE m == plr[p].m_mapMgr
             i == mgr[m].pInstance
  <1>0. /\ TypeOK /\ PlayersPlaced /\ plr[p] \in PlayerRecord
        /\ m \in Managers /\ plr[p].at = "adding"
    BY PlayerType DEF IInv, PlayersPlaced, AddToWorld
  <1>1. CASE mgr[m].pc = "none"
    BY <1>1, PlacedQuiet DEF AddToWorld, Fault
  <1>2. CASE mgr[m].pc # "none" /\ i # 0 /\ ~MayEnter(p, i)
    <2> DEFINE new == [plr[p] EXCEPT !.at = "out", !.m_mapMgr = None,
                                     !.m_instanceId = 0]
    <2>1. plr' = [plr EXCEPT ![p] = new] /\ new.at = "out" /\ mgr' = mgr
      BY <1>0, <1>2 DEF AddToWorld, TypeOK, PlayerRecord
    <2> HIDE DEF new
    <2> QED BY <1>0, <2>1, OnePlaced
  <1>3. CASE mgr[m].pc # "none" /\ ~(i # 0 /\ ~MayEnter(p, i))
    <2> DEFINE new == [plr[p] EXCEPT !.at = "queued",
                                     !.m_instanceId = mgr[m].m_instanceID]
               its == [mgr[m] EXCEPT !.pool = @ \cup {p}]
    <2>1. plr' = [plr EXCEPT ![p] = new] /\ mgr' = [mgr EXCEPT ![m] = its]
      BY <1>3 DEF AddToWorld, TypeOK
    <2>2. new.at = "queued" /\ new.m_mapMgr = m
      BY <1>0 DEF PlayerRecord
    <2>3. its.storage = mgr[m].storage /\ its.pool = mgr[m].pool \cup {p}
      <3>1. mgr[m] \in ManagerRecord
        BY <1>0, ManagerType
      <3> QED BY <3>1 DEF ManagerRecord
    <2> HIDE DEF new, its
    <2>4. /\ \A q \in Players : plr'[q] = IF q = p THEN new ELSE plr[q]
          /\ \A n \in Managers : mgr'[n] = IF n = m THEN its ELSE mgr[n]
      BY <2>1, <1>0 DEF TypeOK
    <2>5. \A n \in Managers : mgr[n].storage \subseteq Players /\ mgr[n].pool \subseteq Players
      BY <1>0, ManagerType DEF ManagerRecord
    <2>6. \A q \in Players : plr'[q].at \in {"adding", "queued", "in"}
              => plr'[q].m_mapMgr \in Managers
      BY <1>0, <2>2, <2>4 DEF PlayersPlaced
    <2>7. \A n \in Managers : \A q \in mgr'[n].storage :
              plr'[q].at = "in" /\ plr'[q].m_mapMgr = n
      BY <1>0, <2>3, <2>4, <2>5 DEF PlayersPlaced
    <2>8. \A n \in Managers : \A q \in mgr'[n].pool :
              plr'[q].at = "queued" /\ plr'[q].m_mapMgr = n
      BY <1>0, <2>2, <2>3, <2>4, <2>5 DEF PlayersPlaced
    <2> QED BY <2>6, <2>7, <2>8 DEF PlayersPlaced
  <1> QED BY <1>1, <1>2, <1>3

LEMMA PushPlaced ==
    ASSUME IInv, NEW m \in Managers, Push(m) PROVE PlayersPlaced'
  <1> DEFINE its == [mgr[m] EXCEPT !.storage = @ \cup mgr[m].pool, !.pool = {},
                                   !.inactive = @ /\ mgr[m].forced]
  <1>0. TypeOK /\ PlayersPlaced /\ mgr[m] \in ManagerRecord
    BY ManagerType DEF IInv
  <1>1. mgr' = [mgr EXCEPT ![m] = its]
    BY <1>0 DEF Push, TypeOK
  <1>2. its.storage = mgr[m].storage \cup mgr[m].pool /\ its.pool = {}
    BY <1>0 DEF ManagerRecord
  <1> HIDE DEF its
  <1>3. \A n \in Managers : mgr'[n] = IF n = m THEN its ELSE mgr[n]
    BY <1>0, <1>1 DEF TypeOK
  <1>4. \A p \in Players : /\ plr'[p].m_mapMgr = plr[p].m_mapMgr
                           /\ plr'[p].at = IF p \in mgr[m].pool THEN "in" ELSE plr[p].at
    BY <1>0, PlayerType DEF Push, PlayerRecord
  <1>5. \A n \in Managers : mgr[n].storage \subseteq Players /\ mgr[n].pool \subseteq Players
    BY <1>0, ManagerType DEF ManagerRecord
  <1>6. \A p \in Players : plr'[p].at \in {"adding", "queued", "in"}
            => plr'[p].m_mapMgr \in Managers
    BY <1>0, <1>4 DEF PlayersPlaced
  <1>7. \A n \in Managers : \A p \in mgr'[n].storage :
            plr'[p].at = "in" /\ plr'[p].m_mapMgr = n
    BY <1>0, <1>2, <1>3, <1>4, <1>5 DEF PlayersPlaced
  <1>8. \A n \in Managers : \A p \in mgr'[n].pool :
            plr'[p].at = "queued" /\ plr'[p].m_mapMgr = n
    BY <1>0, <1>2, <1>3, <1>4, <1>5 DEF PlayersPlaced
  <1> QED BY <1>6, <1>7, <1>8 DEF PlayersPlaced

\* Players of the storage of m go out.
LEMMA LeavingPlaced ==
    ASSUME IInv, NEW m \in Managers, NEW P \in SUBSET Players,
           \A n \in Managers : /\ mgr'[n].storage \subseteq mgr[n].storage
                               /\ mgr'[n].pool = mgr[n].pool,
           mgr'[m].storage \cap P = {},
           \A p \in P : plr[p].at = "in" /\ plr[p].m_mapMgr = m,
           \A p \in P : plr'[p].at \in {"out", "offline"},
           \A p \in Players \ P : plr'[p] = plr[p]
    PROVE  PlayersPlaced'
  <1>0. TypeOK /\ PlayersPlaced
    BY DEF IInv
  <1>5. \A n \in Managers : mgr[n].storage \subseteq Players /\ mgr[n].pool \subseteq Players
    BY <1>0, ManagerType DEF ManagerRecord
  <1>6. \A p \in Players : plr'[p].at \in {"adding", "queued", "in"}
            => plr'[p].m_mapMgr \in Managers
    BY <1>0 DEF PlayersPlaced
  <1>7. ASSUME NEW n \in Managers, NEW p \in mgr'[n].storage
        PROVE  plr'[p].at = "in" /\ plr'[p].m_mapMgr = n
    <2>1. p \in mgr[n].storage /\ p \in Players
      BY <1>5, <1>7
    <2>2. plr[p].at = "in" /\ plr[p].m_mapMgr = n
      BY <1>0, <2>1 DEF PlayersPlaced
    <2>3. p \notin P
      BY <1>7, <2>2
    <2> QED BY <2>1, <2>2, <2>3
  <1>8. ASSUME NEW n \in Managers, NEW p \in mgr'[n].pool
        PROVE  plr'[p].at = "queued" /\ plr'[p].m_mapMgr = n
    <2>1. p \in mgr[n].pool /\ p \in Players
      BY <1>5, <1>8
    <2>2. plr[p].at = "queued" /\ plr[p].m_mapMgr = n
      BY <1>0, <2>1 DEF PlayersPlaced
    <2> QED BY <2>1, <2>2
  <1> QED BY <1>6, <1>7, <1>8 DEF PlayersPlaced

\* What RemoveObject does to the managers.
LEMMA RemovePlayersEffect ==
    ASSUME TypeOK, NEW m \in Managers, NEW P, RemovePlayers(m, P)
    PROVE  \A n \in Managers :
              /\ mgr'[n].pool = mgr[n].pool /\ mgr'[n].pc = mgr[n].pc
              /\ mgr'[n].pInstance = mgr[n].pInstance
              /\ mgr'[n].terminate = mgr[n].terminate
              /\ mgr'[n].forced = mgr[n].forced
              /\ mgr'[n].storage = IF n = m THEN mgr[n].storage \ P ELSE mgr[n].storage
              /\ mgr[n].inactive => mgr'[n].inactive
              /\ n = m /\ mgr[m].storage \subseteq P /\ ~mgr[m].forced => mgr'[n].inactive
  <1> DEFINE new == [mgr[m] EXCEPT
                        !.storage = @ \ P,
                        !.inactive = @ \/ (mgr[m].storage \subseteq P /\ ~mgr[m].forced)]
  <1>1. mgr[m] \in ManagerRecord
    BY ManagerType
  <1>2. mgr' = [mgr EXCEPT ![m] = new]
    BY DEF RemovePlayers, TypeOK
  <1>3. /\ new.pool = mgr[m].pool /\ new.pc = mgr[m].pc
        /\ new.pInstance = mgr[m].pInstance /\ new.terminate = mgr[m].terminate
        /\ new.forced = mgr[m].forced /\ new.storage = mgr[m].storage \ P
        /\ mgr[m].inactive => new.inactive
        /\ mgr[m].storage \subseteq P /\ ~mgr[m].forced => new.inactive
    BY <1>1 DEF ManagerRecord
  <1> HIDE DEF new
  <1>4. \A n \in Managers : mgr'[n] = IF n = m THEN new ELSE mgr[n]
    BY <1>2 DEF TypeOK
  <1> QED BY <1>3, <1>4

LEMMA ExitPlaced ==
    ASSUME IInv, NEW p \in Players, LeaveMap(p) \/ LogoutPlayer(p)
    PROVE  PlayersPlaced'
  <1> DEFINE m == plr[p].m_mapMgr
  <1>0. TypeOK /\ PlayersPlaced /\ plr \in [Players -> PlayerRecord]
        /\ plr[p] \in PlayerRecord /\ plr[p].at = "in" /\ RemovePlayers(m, {p})
    BY PlayerType DEF IInv, TypeOK, LeaveMap, LogoutPlayer
  <1>1. m \in Managers
    BY <1>0 DEF PlayersPlaced
  <1>2. PICK new : plr' = [plr EXCEPT ![p] = new] /\ new.at \in {"out", "offline"}
    <2>1. CASE LeaveMap(p)
      <3>1. Outside(p).at = "out" /\ plr' = [plr EXCEPT ![p] = Outside(p)]
        BY <1>0, <2>1 DEF LeaveMap, Outside, PlayerRecord
      <3> QED BY <3>1
    <2>2. CASE LogoutPlayer(p)
      <3> DEFINE off == [Outside(p) EXCEPT !.at = "offline",
                                           !.m_instanceId = mgr[m].m_instanceID]
      <3>1. off.at = "offline"
        BY <1>0 DEF Outside, PlayerRecord
      <3>2. plr' = [plr EXCEPT ![p] = off]
        BY <2>2 DEF LogoutPlayer
      <3> QED BY <3>1, <3>2
    <2> QED BY <2>1, <2>2
  <1>3. \A q \in Players : plr'[q] = IF q = p THEN new ELSE plr[q]
    BY <1>0, <1>2
  <1>4. \A n \in Managers : /\ mgr'[n].pool = mgr[n].pool
                            /\ mgr'[n].storage = IF n = m THEN mgr[n].storage \ {p}
                                                 ELSE mgr[n].storage
    BY SMTT(30), <1>0, <1>1, RemovePlayersEffect
  <1> HIDE DEF m
  <1>5. plr[p].m_mapMgr = m
    BY DEF m
  <1>6. /\ {p} \in SUBSET Players /\ mgr'[m].storage \cap {p} = {}
        /\ \A n \in Managers : /\ mgr'[n].storage \subseteq mgr[n].storage
                               /\ mgr'[n].pool = mgr[n].pool
    BY <1>1, <1>4
  <1> QED BY <1>0, <1>1, <1>2, <1>3, <1>5, <1>6, LeavingPlaced

LEMMA TeleportPlaced ==
    ASSUME IInv, NEW m \in Managers, TeleportPlayers(m) PROVE PlayersPlaced'
  <1> DEFINE P == mgr[m].storage
             its == [mgr[m] EXCEPT !.storage = {}, !.pc = "read"]
  <1>0. TypeOK /\ PlayersPlaced /\ mgr[m] \in ManagerRecord
    BY ManagerType DEF IInv
  <1>1. mgr' = [mgr EXCEPT ![m] = its] /\ its.storage = {} /\ its.pool = mgr[m].pool
    BY <1>0 DEF TeleportPlayers, TypeOK, ManagerRecord
  <1> HIDE DEF its
  <1>2. /\ \A n \in Managers : mgr'[n].storage \subseteq mgr[n].storage
                               /\ mgr'[n].pool = mgr[n].pool
        /\ mgr'[m].storage \cap P = {}
    BY <1>0, <1>1 DEF TypeOK
  <1>3. P \in SUBSET Players
    BY <1>0 DEF ManagerRecord
  <1>4. \A p \in P : plr[p].at = "in" /\ plr[p].m_mapMgr = m
    BY <1>0 DEF PlayersPlaced
  <1>5. \A p \in Players : Outside(p).at = "out"
    BY <1>0, PlayerType DEF Outside, PlayerRecord
  <1>6. \A p \in Players : plr'[p] = IF p \in P THEN Outside(p) ELSE plr[p]
    BY DEF TeleportPlayers
  <1>7. /\ \A p \in P : plr'[p].at \in {"out", "offline"}
        /\ \A p \in Players \ P : plr'[p] = plr[p]
    BY <1>3, <1>5, <1>6
  <1> HIDE DEF P
  <1> QED BY <1>2, <1>3, <1>4, <1>7, LeavingPlaced

\* The steps that only move a manager towards its end, or save players.
LEMMA ManagerPlaced ==
    ASSUME IInv, NEW m \in Managers,
           \/ BossDies(m) \/ EndLoop(m) \/ ReadInstance(m)
           \/ UnlinkInstance(m) \/ DropInstance(m) \/ DeleteMap(m)
    PROVE  PlayersPlaced'
  <1>0. TypeOK /\ mgr[m] \in ManagerRecord
    BY ManagerType DEF IInv
  <1>1. \A l \in {"teleport", "delete", "unlink", "drop"} :
           LET its == [mgr[m] EXCEPT !.pc = l] IN
           its.storage = mgr[m].storage /\ its.pool = mgr[m].pool
    BY <1>0 DEF ManagerRecord
  <1>2. CASE BossDies(m)
    <2>1. \A p \in Players : plr'[p].at = plr[p].at /\ plr'[p].m_mapMgr = plr[p].m_mapMgr
      BY <1>0, <1>2, PlayerType DEF BossDies, PlayerRecord
    <2>2. mgr' = mgr
      BY <1>2 DEF BossDies
    <2> QED BY <2>1, <2>2, PlacedQuiet
  <1>3. CASE EndLoop(m)
    <2>1. mgr' = [mgr EXCEPT ![m] = [mgr[m] EXCEPT !.pc = "teleport"]] /\ plr' = plr
      BY <1>0, <1>3 DEF EndLoop, TypeOK
    <2>2. \A n \in Managers : mgr'[n].storage = mgr[n].storage /\ mgr'[n].pool = mgr[n].pool
      BY <1>0, <1>1, <2>1 DEF TypeOK
    <2> QED BY <2>1, <2>2, PlacedQuiet
  <1>4. CASE ReadInstance(m)
    <2>1. PICK l \in {"delete", "unlink"} :
             mgr' = [mgr EXCEPT ![m] = [mgr[m] EXCEPT !.pc = l]]
      BY <1>0, <1>4 DEF ReadInstance, TypeOK
    <2>2. \A n \in Managers : mgr'[n].storage = mgr[n].storage /\ mgr'[n].pool = mgr[n].pool
      BY <1>0, <1>1, <2>1 DEF TypeOK
    <2>3. plr' = plr
      BY <1>4 DEF ReadInstance
    <2> QED BY <2>2, <2>3, PlacedQuiet
  <1>5. CASE UnlinkInstance(m)
    <2>1. CASE mgr[m].pInstance = 0
      BY <1>5, <2>1, PlacedQuiet DEF UnlinkInstance, Fault
    <2>2. CASE mgr[m].pInstance # 0
      <3>1. PICK l \in {"drop", "delete"} :
               mgr' = [mgr EXCEPT ![m] = [mgr[m] EXCEPT !.pc = l]]
        BY <1>0, <1>5, <2>2, UnlinkEffect
      <3>2. \A n \in Managers : mgr'[n].storage = mgr[n].storage /\ mgr'[n].pool = mgr[n].pool
        BY <1>0, <1>1, <3>1 DEF TypeOK
      <3>3. plr' = plr
        BY <1>5, <2>2 DEF UnlinkInstance
      <3> QED BY <3>2, <3>3, PlacedQuiet
    <2> QED BY <2>1, <2>2
  <1>6. CASE DropInstance(m)
    <2>1. CASE mgr[m].pInstance \notin m_instances
      BY <1>6, <2>1, PlacedQuiet DEF DropInstance, Fault
    <2>2. CASE mgr[m].pInstance \in m_instances
      <3>1. /\ mgr'[m].storage = mgr[m].storage /\ mgr'[m].pool = mgr[m].pool
            /\ \A n \in Managers \ {m} : mgr'[n] = DeletedManagers({mgr[m].pInstance}, TRUE)[n]
        BY <1>0, <1>6, <2>2, DropEffect
      <3>2. \A n \in Managers : mgr'[n].storage = mgr[n].storage /\ mgr'[n].pool = mgr[n].pool
        <4>1. \A n \in Managers :
                 LET d == DeletedManagers({mgr[m].pInstance}, TRUE)[n] IN
                 d.storage = mgr[n].storage /\ d.pool = mgr[n].pool
          BY <1>0, DeletedPlaces
        <4> QED BY <3>1, <4>1
      <3>3. plr' = plr
        BY <1>6, <2>2 DEF DropInstance
      <3> QED BY <3>2, <3>3, PlacedQuiet
    <2> QED BY <2>1, <2>2
  <1>7. CASE DeleteMap(m)
    <2>1. CASE mgr[m].pool # {}
      BY <1>7, <2>1, PlacedQuiet DEF DeleteMap, Fault
    <2>2. CASE mgr[m].pool = {}
      <3>1. \A n \in Managers : mgr'[n] = IF n = m THEN NewManager ELSE mgr[n]
        BY <1>0, <1>7, <2>2 DEF DeleteMap, TypeOK
      <3>2. NewManager.storage = {} /\ NewManager.pool = {}
        BY DEF NewManager
      <3>3. plr' = plr
        BY <1>7, <2>2 DEF DeleteMap
      <3> QED BY <3>1, <3>2, <3>3, PlacedQuiet
    <2> QED BY <2>1, <2>2
  <1> QED BY <1>2, <1>3, <1>4, <1>5, <1>6, <1>7

\* The steps of groups, and those that delete instances for other reasons.
LEMMA OthersPlaced ==
    ASSUME IInv,
           \/ CheckForExpiredInstances
           \/ \E i \in Ids : Expire(i)
           \/ \E p \in Players : RemovePlayer(p) \/ Disband(p) \/ ResetSavedInstances(p)
           \/ \E p, q \in Players : AddMember(p, q) \/ NewGroup(p, q)
           \/ UNCHANGED vars
    PROVE  PlayersPlaced'
  <1>0. TypeOK
    BY DEF IInv
  <1>1. CASE CheckForExpiredInstances
    BY <1>0, <1>1, DeletionPlaces, PlacedQuiet DEF CheckForExpiredInstances, DeleteInstances
  <1>2. CASE \E i \in Ids : Expire(i)
    BY <1>2, PlacedQuiet DEF Expire
  <1>3. ASSUME NEW p \in Players, RemovePlayer(p) PROVE PlayersPlaced'
    <2> DEFINE new == [plr[p] EXCEPT !.told = @ \/ ToldToLeave(p)]
    <2>1. plr' = [plr EXCEPT ![p] = new] /\ mgr' = mgr
      BY <1>0, <1>3 DEF RemovePlayer, TypeOK
    <2>2. new.at = plr[p].at /\ new.m_mapMgr = plr[p].m_mapMgr
      BY <1>0, PlayerType DEF PlayerRecord
    <2> HIDE DEF new
    <2>3. \A q \in Players : plr'[q].at = plr[q].at /\ plr'[q].m_mapMgr = plr[q].m_mapMgr
      BY <1>0, <2>1, <2>2 DEF TypeOK
    <2> QED BY <2>1, <2>3, PlacedQuiet
  <1>4. ASSUME NEW p \in Players, Disband(p) PROVE PlayersPlaced'
    BY <1>0, <1>4, DisbandEffect, DeletionPlaces, PlacedQuiet DEF DeleteInstances
  <1>5. ASSUME NEW p \in Players, ResetSavedInstances(p) PROVE PlayersPlaced'
    BY <1>0, <1>5, DeletionPlaces, PlacedQuiet DEF ResetSavedInstances, DeleteInstances
  <1>6. ASSUME NEW p \in Players, NEW q \in Players, AddMember(p, q) \/ NewGroup(p, q)
        PROVE  PlayersPlaced'
    BY <1>6, PlacedQuiet DEF AddMember, NewGroup
  <1>7. CASE UNCHANGED vars
    BY <1>7, PlacedQuiet DEF vars
  <1> QED BY <1>1, <1>2, <1>3, <1>4, <1>5, <1>6, <1>7

-----------------------------------------------------------------------------
(* The registry and the managers. *)

\* A step that deletes no instance and makes none.
LEMMA RegistryQuiet ==
    ASSUME IInv, kind' = kind, m_instances' = m_instances,
           \A i \in Ids :
               /\ instance'[i].m_mapMgr = instance[i].m_mapMgr
               /\ instance'[i].m_persistent
                     => instance[i].m_persistent \/ IsPersistentKind
               /\ instance[i].m_persistent => instance'[i].m_persistent,
           \A m \in Managers :
               /\ Linked(m)' => Linked(m) /\ mgr'[m].pInstance = mgr[m].pInstance
               /\ Linked(m) /\ mgr[m].pInstance # 0 => Linked(m)'
               /\ mgr'[m].pc = "loop"
                     => /\ mgr[m].pc = "loop"
                        /\ mgr[m].terminate \/ mgr[m].forced
                              => mgr'[m].terminate \/ mgr'[m].forced
               /\ mgr'[m].pc = "drop" => mgr[m].pc = "drop" \/ kind = "nonraid",
           ForcedAreInactive', IdleManagersEnd'
    PROVE  Agree' /\ KeepsPersistent
  <1>0. TypeOK /\ Agree /\ m_instances \subseteq Ids /\ 0 \notin m_instances
    BY Registry DEF IInv
  <1>1. EachOthers'
    <2>1. ASSUME NEW i \in m_instances, NEW m, instance'[i].m_mapMgr = m, m # None
          PROVE  Linked(m)' /\ mgr'[m].pInstance = i
      <3>1. i \in Ids /\ instance[i].m_mapMgr = m
        BY <1>0, <2>1
      <3>2. instance[i] \in InstanceRecord
        BY <1>0, <3>1 DEF TypeOK
      <3>3. m \in Managers
        BY <2>1, <3>1, <3>2 DEF InstanceRecord
      <3>4. Linked(m) /\ mgr[m].pInstance = i /\ i # 0
        BY <1>0, <2>1, <3>1 DEF Agree, EachOthers
      <3> QED BY <3>3, <3>4
    <2>2. ASSUME NEW m \in Managers, Linked(m)', mgr'[m].pInstance # 0
          PROVE  /\ mgr'[m].pInstance \in m_instances
                 /\ instance'[mgr'[m].pInstance].m_mapMgr = m
      <3>1. Linked(m) /\ mgr'[m].pInstance = mgr[m].pInstance
        BY <2>2
      <3> QED BY <1>0, <2>2, <3>1 DEF Agree, EachOthers
    <2> QED BY <2>1, <2>2 DEF EachOthers
  <1>2. DeletedAreTold'
    <2>1. \A m \in Managers : mgr'[m].pc = "loop" => Linked(m)'
      BY DEF Linked
    <2> QED BY <1>0, <2>1 DEF Agree, DeletedAreTold
  <1>3. KindsKept'
    BY <1>0 DEF Agree, KindsKept, IsPersistentKind
  <1>4. KeepsPersistent
    BY <1>0 DEF KeepsPersistent
  <1> QED BY <1>1, <1>2, <1>3, <1>4 DEF Agree

\* The same for a step that leaves the managers alone.
LEMMA ManagersQuiet ==
    ASSUME IInv, kind' = kind, m_instances' = m_instances, mgr' = mgr,
           \A i \in Ids :
               /\ instance'[i].m_mapMgr = instance[i].m_mapMgr
               /\ instance'[i].m_persistent
                     => instance[i].m_persistent \/ IsPersistentKind
               /\ instance[i].m_persistent => instance'[i].m_persistent
    PROVE  Agree' /\ KeepsPersistent
  <1>1. ForcedAreInactive' /\ IdleManagersEnd'
    BY DEF IInv, Agree, ForcedAreInactive, IdleManagersEnd
  <1>2. \A m \in Managers : Linked(m)' <=> Linked(m)
    BY DEF Linked
  <1> QED BY <1>1, <1>2, RegistryQuiet

\* A step that leaves the registry and the managers alone.
LEMMA RegistryAlone ==
    ASSUME IInv, kind' = kind, m_instances' = m_instances, mgr' = mgr,
           instance' = instance
    PROVE  Agree' /\ KeepsPersistent
  BY ManagersQuiet

\* The steps of players at the door, of groups and of the clock.
LEMMA QuietAgree ==
    ASSUME IInv,
           \/ \E p \in Players : Check(p) \/ FullLogin(p) \/ RemovePlayer(p)
           \/ \E p, q \in Players : Summon(p, q) \/ AddMember(p, q) \/ NewGroup(p, q)
           \/ \E m \in Managers : BossDies(m)
           \/ \E i \in Ids : Expire(i)
           \/ UNCHANGED vars
    PROVE  Agree' /\ KeepsPersistent
  <1>0. TypeOK /\ m_instances \subseteq Ids /\ 0 \notin m_instances
    BY Registry DEF IInv
  <1>1. \A i \in Ids : instance[i] \in InstanceRecord
    BY <1>0 DEF TypeOK
  <1>2. ASSUME NEW p, NEW i \in Ids, LetIn(p, i) \/ Refuse(p)
        PROVE  \A j \in Ids : /\ instance'[j].m_mapMgr = instance[j].m_mapMgr
                              /\ instance'[j].m_persistent = instance[j].m_persistent
    <2>1. CASE LetIn(p, i)
      BY <1>0, <1>1, <2>1 DEF LetIn, TypeOK, InstanceRecord
    <2>2. CASE Refuse(p)
      BY <2>2 DEF Refuse
    <2> QED BY <1>2, <2>1, <2>2
  <1>3. ASSUME NEW p \in Players, Check(p) PROVE Agree' /\ KeepsPersistent
    <2>1. CASE plr[p].in \notin m_instances
      BY <1>3, <2>1, RegistryAlone DEF Check, Fault, registry
    <2>2. CASE plr[p].in \in m_instances
      <3>1. /\ LetIn(p, plr[p].in) \/ Refuse(p)
            /\ kind' = kind /\ m_instances' = m_instances /\ mgr' = mgr
        BY <1>3, <2>2 DEF Check
      <3> QED BY <1>0, <1>2, <2>2, <3>1, ManagersQuiet
    <2> QED BY <2>1, <2>2
  <1>4. ASSUME NEW p \in Players, NEW q \in Players, Summon(p, q)
        PROVE  Agree' /\ KeepsPersistent
    <2>1. /\ LetIn(p, plr[q].m_instanceId) /\ plr[q].m_instanceId \in m_instances
          /\ kind' = kind /\ m_instances' = m_instances /\ mgr' = mgr
      BY <1>4 DEF Summon
    <2> QED BY <1>0, <1>2, <2>1, ManagersQuiet
  <1>5. ASSUME NEW p \in Players, FullLogin(p) \/ RemovePlayer(p)
        PROVE  Agree' /\ KeepsPersistent
    BY <1>5, RegistryAlone DEF FullLogin, RemovePlayer, registry
  <1>6. ASSUME NEW p \in Players, NEW q \in Players, AddMember(p, q)
        PROVE  Agree' /\ KeepsPersistent
    BY <1>6, RegistryAlone DEF AddMember, registry
  <1>7. ASSUME NEW p \in Players, NEW q \in Players, NewGroup(p, q)
        PROVE  Agree' /\ KeepsPersistent
    <2> DEFINE g == m_GroupHigh + 1
               i == plr[p].m_instanceId
    <2>1. kind' = kind /\ m_instances' = m_instances /\ mgr' = mgr
      BY <1>7 DEF NewGroup
    <2>2. \/ instance' = instance
          \/ /\ i \in m_instances
             /\ instance' = [instance EXCEPT ![i] = [instance[i] EXCEPT
                                 !.m_creatorGroup = g, !.m_creatorGuid = None]]
      BY <1>0, <1>7 DEF NewGroup, TypeOK
    <2>3. \A j \in Ids : /\ instance'[j].m_mapMgr = instance[j].m_mapMgr
                         /\ instance'[j].m_persistent = instance[j].m_persistent
      <3> HIDE DEF g, i
      <3>1. CASE instance' = instance
        BY <3>1
      <3>2. CASE /\ i \in m_instances
                 /\ instance' = [instance EXCEPT ![i] = [instance[i] EXCEPT
                                    !.m_creatorGroup = g, !.m_creatorGuid = None]]
        BY <1>0, <1>1, <3>2 DEF TypeOK, InstanceRecord
      <3> QED BY <2>2, <3>1, <3>2
    <2> QED BY <2>1, <2>3, ManagersQuiet
  <1>8. ASSUME NEW m \in Managers, BossDies(m) PROVE Agree' /\ KeepsPersistent
    <2> DEFINE i == mgr[m].pInstance
    <2>1. /\ kind' = kind /\ m_instances' = m_instances /\ mgr' = mgr
          /\ kind = "raid"
          /\ instance' = [instance EXCEPT ![i] = [instance[i] EXCEPT !.m_persistent = TRUE]]
      BY <1>0, <1>8 DEF BossDies, TypeOK
    <2>2. \A j \in Ids : /\ instance'[j].m_mapMgr = instance[j].m_mapMgr
                         /\ instance[j].m_persistent => instance'[j].m_persistent
      BY <1>0, <1>1, <2>1 DEF TypeOK, InstanceRecord
    <2>3. IsPersistentKind
      BY <2>1 DEF IsPersistentKind
    <2> QED BY <2>1, <2>2, <2>3, ManagersQuiet
  <1>9. ASSUME NEW i \in Ids, Expire(i) PROVE Agree' /\ KeepsPersistent
    <2>1. /\ kind' = kind /\ m_instances' = m_instances /\ mgr' = mgr
          /\ instance' = [instance EXCEPT ![i] = [instance[i] EXCEPT !.expired = TRUE]]
      BY <1>0, <1>9 DEF Expire, TypeOK
    <2>2. \A j \in Ids : /\ instance'[j].m_mapMgr = instance[j].m_mapMgr
                         /\ instance[j].m_persistent = instance'[j].m_persistent
      BY <1>0, <1>1, <2>1 DEF TypeOK, InstanceRecord
    <2> QED BY <2>1, <2>2, ManagersQuiet
  <1>10. CASE UNCHANGED vars
    BY <1>10, RegistryAlone DEF vars, registry
  <1> QED BY <1>3, <1>4, <1>5, <1>6, <1>7, <1>8, <1>9, <1>10

\* Deleting what has expired or is not persistent loses nothing early.
LEMMA DeletionAgrees ==
    ASSUME IInv, NEW D \in SUBSET m_instances, NEW force \in BOOLEAN,
           DeleteInstances(D, force), kind' = kind,
           \A i \in D : instance[i].expired \/ ~instance[i].m_persistent
    PROVE  Agree' /\ KeepsPersistent
  <1>1. m_instances \subseteq Ids
    BY Registry DEF IInv
  <1>2. KeepsPersistent
    BY <1>1 DEF KeepsPersistent, DeleteInstances
  <1> QED BY <1>2, DeletionKeeps

LEMMA DeletingAgree ==
    ASSUME IInv,
           \/ \E p \in Players : Find(p) \/ NoInstance(p) \/ ResetSavedInstances(p)
                                         \/ Disband(p)
           \/ CheckForExpiredInstances
    PROVE  Agree' /\ KeepsPersistent
  <1>0. TypeOK
    BY DEF IInv
  <1>1. ASSUME NEW p \in Players, Find(p) PROVE Agree' /\ KeepsPersistent
    <2>1. PICK i \in m_instances, X \in SUBSET m_instances :
              /\ IF GroupInstance(p) # 0 THEN i = GroupInstance(p) /\ X = {}
                 ELSE OwnedSearch(p, i, X)
              /\ DeleteInstances(X, TRUE)
      BY <1>1 DEF Find
    <2>2. \A j \in X : instance[j].expired
      BY <2>1 DEF OwnedSearch, Expired
    <2>3. kind' = kind
      BY <1>1 DEF Find
    <2> QED BY <2>1, <2>2, <2>3, DeletionAgrees
  <1>2. \A i \in Expired : i \in m_instances /\ instance[i].expired
    BY DEF Expired
  <1>3. ASSUME NEW p \in Players, NoInstance(p) PROVE Agree' /\ KeepsPersistent
    <2>1. DeleteInstances(Expired, TRUE) /\ kind' = kind
      BY <1>3 DEF NoInstance
    <2> QED BY <1>2, <2>1, DeletionAgrees
  <1>4. ASSUME NEW p \in Players, ResetSavedInstances(p)
        PROVE  Agree' /\ KeepsPersistent
    <2>1. DeleteInstances(ResetBy(p), TRUE) /\ kind' = kind
      BY <1>4 DEF ResetSavedInstances
    <2>2. \A i \in ResetBy(p) : i \in m_instances /\ ~instance[i].m_persistent
      BY DEF ResetBy, IsResetable
    <2> QED BY <2>1, <2>2, DeletionAgrees
  <1>5. ASSUME NEW p \in Players, Disband(p) PROVE Agree' /\ KeepsPersistent
    <2>1. DeleteInstances(DisbandDeletes(p), FALSE)
      BY <1>0, <1>5, DisbandEffect
    <2>2. \A i \in DisbandDeletes(p) : i \in m_instances /\ ~instance[i].m_persistent
      BY DEF DisbandDeletes, IsResetable
    <2>3. kind' = kind
      BY <1>5 DEF Disband
    <2> QED BY <2>1, <2>2, <2>3, DeletionAgrees
  <1>6. CASE CheckForExpiredInstances
    <2>1. DeleteInstances(Expired, FALSE) /\ kind' = kind
      BY <1>6 DEF CheckForExpiredInstances
    <2> QED BY <1>2, <2>1, DeletionAgrees
  <1> QED BY <1>1, <1>3, <1>4, <1>5, <1>6

\* A step of one manager that deletes no instance and makes none.
LEMMA OneManager ==
    ASSUME IInv, kind' = kind, m_instances' = m_instances,
           \A i \in Ids : /\ instance'[i].m_mapMgr = instance[i].m_mapMgr
                          /\ instance'[i].m_persistent = instance[i].m_persistent,
           NEW m \in Managers, NEW its, mgr' = [mgr EXCEPT ![m] = its],
           its.pInstance = mgr[m].pInstance \/ its.pc \in {"none", "drop", "delete"},
           its.terminate = mgr[m].terminate \/ its.pc # "loop",
           its.forced = mgr[m].forced \/ (its.pc # "loop" /\ ~its.forced),
           its.forced => its.inactive,
           its.pc = "loop" /\ (its.storage = {} \/ its.pInstance = 0)
              => its.terminate \/ its.inactive,
           \/ its.pc = mgr[m].pc
           \/ mgr[m].pc = "loop" /\ its.pc = "teleport"
           \/ mgr[m].pc = "teleport" /\ its.pc = "read"
           \/ mgr[m].pc = "read" /\ its.pc = "unlink"
           \/ mgr[m].pc = "read" /\ its.pc = "delete" /\ mgr[m].pInstance = 0
           \/ mgr[m].pc = "delete" /\ its.pc = "none"
    PROVE  Agree' /\ KeepsPersistent
  <1>0. TypeOK /\ Agree
    BY DEF IInv
  <1>1. \A n \in Managers : mgr'[n] = IF n = m THEN its ELSE mgr[n]
    BY <1>0 DEF TypeOK
  <1>2. ForcedAreInactive'
    BY <1>0, <1>1 DEF Agree, ForcedAreInactive
  <1>3. IdleManagersEnd'
    BY <1>0, <1>1 DEF Agree, IdleManagersEnd
  <1>4. ASSUME NEW n \in Managers
        PROVE  /\ Linked(n)' => Linked(n) /\ mgr'[n].pInstance = mgr[n].pInstance
               /\ Linked(n) /\ mgr[n].pInstance # 0 => Linked(n)'
               /\ mgr'[n].pc = "loop"
                     => /\ mgr[n].pc = "loop"
                        /\ mgr[n].terminate \/ mgr[n].forced
                              => mgr'[n].terminate \/ mgr'[n].forced
               /\ mgr'[n].pc = "drop" => mgr[n].pc = "drop" \/ kind = "nonraid"
    <2>1. CASE n = m
      BY <1>1, <2>1 DEF Linked
    <2>2. CASE n # m
      BY <1>1, <2>2 DEF Linked
    <2> QED BY <2>1, <2>2
  <1> QED BY <1>2, <1>3, <1>4, RegistryQuiet

LEMMA AddToWorldAgree ==
    ASSUME IInv, NEW p \in Players, AddToWorld(p)
    PROVE  Agree' /\ KeepsPersistent
  <1> DEFINE m == plr[p].m_mapMgr
             i == mgr[m].pInstance
  <1>0. TypeOK /\ Agree /\ m \in Managers /\ mgr[m] \in ManagerRecord
    BY ManagerType DEF IInv, PlayersPlaced, AddToWorld
  <1>1. CASE mgr[m].pc = "none"
    BY <1>1, RegistryAlone DEF AddToWorld, Fault, registry
  <1>2. CASE mgr[m].pc # "none" /\ i # 0 /\ ~MayEnter(p, i)
    BY <1>2, RegistryAlone DEF AddToWorld, registry
  <1>3. CASE mgr[m].pc # "none" /\ ~(i # 0 /\ ~MayEnter(p, i))
    <2> DEFINE its == [mgr[m] EXCEPT !.pool = @ \cup {p}]
    <2>1. /\ mgr' = [mgr EXCEPT ![m] = its]
          /\ kind' = kind /\ m_instances' = m_instances
          /\ instance' = [j \in Ids |->
                   IF j = i /\ instance[j].m_creatorGroup = 0
                   THEN [instance[j] EXCEPT !.m_creatorGroup = group[p]]
                   ELSE instance[j]]
      BY <1>0, <1>3 DEF AddToWorld, TypeOK
    <2>2. \A j \in Ids : /\ instance'[j].m_mapMgr = instance[j].m_mapMgr
                         /\ instance'[j].m_persistent = instance[j].m_persistent
      <3>1. \A j \in Ids : instance[j] \in InstanceRecord
        BY <1>0 DEF TypeOK
      <3> QED BY <2>1, <3>1 DEF InstanceRecord
    <2>3. /\ its.pc = mgr[m].pc /\ its.pInstance = mgr[m].pInstance
          /\ its.terminate = mgr[m].terminate /\ its.forced = mgr[m].forced
          /\ its.inactive = mgr[m].inactive /\ its.storage = mgr[m].storage
      BY <1>0 DEF ManagerRecord
    <2> HIDE DEF its
    <2>4. /\ its.forced => its.inactive
          /\ its.pc = "loop" /\ (its.storage = {} \/ its.pInstance = 0)
                => its.terminate \/ its.inactive
      BY <1>0, <2>3 DEF Agree, ForcedAreInactive, IdleManagersEnd
    <2> HIDE DEF m
    <2> QED BY <1>0, <2>1, <2>2, <2>3, <2>4, OneManager
  <1> QED BY <1>1, <1>2, <1>3

LEMMA PushAgree ==
    ASSUME IInv, NEW m \in Managers, Push(m) PROVE Agree' /\ KeepsPersistent
  <1> DEFINE its == [mgr[m] EXCEPT !.storage = @ \cup mgr[m].pool, !.pool = {},
                                   !.inactive = @ /\ mgr[m].forced]
  <1>0. TypeOK /\ Agree /\ mgr[m] \in ManagerRecord
    BY ManagerType DEF IInv
  <1>1. /\ mgr' = [mgr EXCEPT ![m] = its] /\ mgr[m].pc = "loop" /\ mgr[m].pool # {}
        /\ kind' = kind /\ m_instances' = m_instances /\ instance' = instance
    BY <1>0 DEF Push, TypeOK, registry
  <1>2. /\ its.pc = mgr[m].pc /\ its.pInstance = mgr[m].pInstance
        /\ its.terminate = mgr[m].terminate /\ its.forced = mgr[m].forced
        /\ its.inactive = (mgr[m].inactive /\ mgr[m].forced)
        /\ its.storage = mgr[m].storage \cup mgr[m].pool
    BY <1>0 DEF ManagerRecord
  <1> HIDE DEF its
  <1>3. its.forced => its.inactive
    BY <1>0, <1>2 DEF Agree, ForcedAreInactive
  <1>4. its.storage # {}
    BY <1>1, <1>2
  <1>5. its.pInstance = 0 => its.terminate \/ its.inactive
    BY <1>0, <1>1, <1>2, <1>3 DEF Agree, DeletedAreTold
  <1> QED BY <1>1, <1>2, <1>3, <1>4, <1>5, OneManager

LEMMA ExitAgree ==
    ASSUME IInv, NEW p \in Players, LeaveMap(p) \/ LogoutPlayer(p)
    PROVE  Agree' /\ KeepsPersistent
  <1> DEFINE m == plr[p].m_mapMgr
  <1>0. /\ TypeOK /\ Agree /\ m \in Managers /\ RemovePlayers(m, {p})
        /\ kind' = kind /\ m_instances' = m_instances
    BY DEF IInv, PlayersPlaced, LeaveMap, LogoutPlayer
  <1> HIDE DEF m
  <1>1. \A j \in Ids : /\ instance'[j].m_mapMgr = instance[j].m_mapMgr
                       /\ instance'[j].m_persistent = instance[j].m_persistent
    <2>1. \A j \in Ids : instance[j] \in InstanceRecord
      BY <1>0 DEF TypeOK
    <2> QED BY <1>0, <2>1 DEF RemovePlayers, InstanceRecord
  <1>2. \A n \in Managers :
            /\ mgr'[n].pc = mgr[n].pc
            /\ mgr'[n].pInstance = mgr[n].pInstance
            /\ mgr'[n].terminate = mgr[n].terminate
            /\ mgr'[n].forced = mgr[n].forced
            /\ mgr'[n].storage = IF n = m THEN mgr[n].storage \ {p} ELSE mgr[n].storage
            /\ mgr[n].inactive => mgr'[n].inactive
            /\ n = m /\ mgr[m].storage \subseteq {p} /\ ~mgr[m].forced => mgr'[n].inactive
    BY <1>0, RemovePlayersEffect
  <1>3. ForcedAreInactive'
    BY <1>0, <1>2 DEF Agree, ForcedAreInactive
  <1>4. IdleManagersEnd'
    <2>1. ASSUME NEW n \in Managers, mgr'[n].pc = "loop",
                 mgr'[n].storage = {} \/ mgr'[n].pInstance = 0
          PROVE  mgr'[n].terminate \/ mgr'[n].inactive
      <3>1. CASE mgr[n].storage = {} \/ mgr[n].pInstance = 0
        <4>1. mgr[n].terminate \/ mgr[n].inactive
          BY <1>0, <1>2, <2>1, <3>1 DEF Agree, IdleManagersEnd
        <4> QED BY <1>2, <4>1
      <3>2. CASE n = m /\ mgr[m].storage \ {p} = {}
        <4>1. mgr[m].storage \subseteq {p}
          BY <3>2
        <4>2. mgr[m].forced => mgr[m].inactive
          BY <1>0 DEF Agree, ForcedAreInactive
        <4> QED BY <1>2, <3>2, <4>1, <4>2
      <3> QED BY <1>2, <2>1, <3>1, <3>2
    <2> QED BY <2>1 DEF IdleManagersEnd
  <1>5. \A n \in Managers : Linked(n)' <=> Linked(n)
    BY <1>2 DEF Linked
  <1> QED BY <1>0, <1>1, <1>2, <1>3, <1>4, <1>5, RegistryQuiet

\* A manager on its way to its end.
LEMMA EndAgree ==
    ASSUME IInv, NEW m \in Managers,
           EndLoop(m) \/ TeleportPlayers(m) \/ ReadInstance(m) \/ DeleteMap(m)
    PROVE  Agree' /\ KeepsPersistent
  <1>0. TypeOK /\ Agree /\ mgr[m] \in ManagerRecord
    BY ManagerType DEF IInv
  <1>1. \A j \in Ids : instance[j] \in InstanceRecord
    BY <1>0 DEF TypeOK
  <1>2. \A l \in {"teleport", "delete", "unlink"} :
            LET its == [mgr[m] EXCEPT !.pc = l] IN
            /\ its.pc = l /\ its.pInstance = mgr[m].pInstance
            /\ its.terminate = mgr[m].terminate /\ its.forced = mgr[m].forced
            /\ its.forced => its.inactive
    BY <1>0 DEF ManagerRecord, Agree, ForcedAreInactive
  <1>3. CASE EndLoop(m)
    <2>1. /\ mgr' = [mgr EXCEPT ![m] = [mgr[m] EXCEPT !.pc = "teleport"]]
          /\ kind' = kind /\ m_instances' = m_instances /\ instance' = instance
          /\ mgr[m].pc = "loop"
      BY <1>0, <1>3 DEF EndLoop, TypeOK, registry
    <2> QED BY <1>2, <2>1, OneManager
  <1>4. CASE TeleportPlayers(m)
    <2> DEFINE its == [mgr[m] EXCEPT !.storage = {}, !.pc = "read"]
    <2>1. /\ mgr' = [mgr EXCEPT ![m] = its]
          /\ kind' = kind /\ m_instances' = m_instances
          /\ mgr[m].pc = "teleport"
      BY <1>0, <1>4 DEF TeleportPlayers, TypeOK
    <2>2. \A j \in Ids : /\ instance'[j].m_mapMgr = instance[j].m_mapMgr
                         /\ instance'[j].m_persistent = instance[j].m_persistent
      BY <1>1, <1>4 DEF TeleportPlayers, InstanceRecord
    <2>3. /\ its.pc = "read" /\ its.pInstance = mgr[m].pInstance
          /\ its.terminate = mgr[m].terminate /\ its.forced = mgr[m].forced
          /\ its.forced => its.inactive
      BY <1>0 DEF ManagerRecord, Agree, ForcedAreInactive
    <2> HIDE DEF its
    <2> QED BY <2>1, <2>2, <2>3, OneManager
  <1>5. CASE ReadInstance(m)
    <2> DEFINE l == IF mgr[m].pInstance = 0 THEN "delete" ELSE "unlink"
    <2>1. /\ mgr' = [mgr EXCEPT ![m] = [mgr[m] EXCEPT !.pc = l]]
          /\ kind' = kind /\ m_instances' = m_instances /\ instance' = instance
          /\ mgr[m].pc = "read"
      BY <1>0, <1>5 DEF ReadInstance, TypeOK, registry
    <2>2. l \in {"delete", "unlink"} /\ (l = "delete" => mgr[m].pInstance = 0)
      OBVIOUS
    <2> HIDE DEF l
    <2> QED BY <1>2, <2>1, <2>2, OneManager
  <1>6. CASE DeleteMap(m)
    <2>1. CASE mgr[m].pool # {}
      BY <1>6, <2>1, RegistryAlone DEF DeleteMap, Fault, registry
    <2>2. CASE mgr[m].pool = {}
      <3>1. /\ mgr' = [mgr EXCEPT ![m] = NewManager] /\ mgr[m].pc = "delete"
            /\ kind' = kind /\ m_instances' = m_instances /\ instance' = instance
        BY <1>6, <2>2 DEF DeleteMap, registry
      <3>2. NewManager.pc = "none" /\ ~NewManager.forced
        BY DEF NewManager
      <3> QED BY <3>1, <3>2, OneManager
    <2> QED BY <2>1, <2>2
  <1> QED BY <1>3, <1>4, <1>5, <1>6

\* What _DeleteInstance makes of a manager, hit or not.
DeletedAs(d, old, hit) ==
    /\ d.pc = old.pc /\ d.storage = old.storage
    /\ ~hit => d = old
    /\ hit => /\ d.pInstance = 0
              /\ \/ d.terminate /\ d.forced = old.forced
                                /\ d.inactive = old.inactive
                 \/ d.forced /\ d.inactive

LEMMA HitManagers ==
    ASSUME TypeOK, NEW D, NEW n \in Managers
    PROVE  DeletedAs(DeletedManagers(D, TRUE)[n], mgr[n],
                     \E j \in D : instance[j].m_mapMgr = n)
  <1>1. mgr[n] \in ManagerRecord
    BY ManagerType
  <1>2. CASE \E j \in D : instance[j].m_mapMgr = n
    BY <1>1, <1>2 DEF DeletedManagers, DeletedAs, ManagerRecord
  <1>3. CASE ~\E j \in D : instance[j].m_mapMgr = n
    BY <1>3 DEF DeletedManagers, DeletedAs
  <1> QED BY <1>2, <1>3

\* The manager of an instance that is deleted knew it.
LEMMA HitsKnow ==
    ASSUME Agree, NEW D \in SUBSET m_instances, NEW n \in Managers,
           \E j \in D : instance[j].m_mapMgr = n
    PROVE  \E j \in D : mgr[n].pInstance = j /\ instance[j].m_mapMgr = n
  BY DEF Agree, EachOthers

\* A step that deletes the instances of D and besides that only changes
\* instance i and manager m, which then either know each other or neither
\* of them knows any.
StepOn(D, i, m) ==
    /\ D \subseteq m_instances
    /\ \A j \in D : instance[j].expired \/ ~instance[j].m_persistent
    /\ m_instances' \subseteq Ids
    /\ m_instances' \ {i} = (m_instances \ D) \ {i}
    /\ \A j \in Ids \ {i} : instance'[j] = IF j \in D THEN NewInstance
                                           ELSE instance[j]
    /\ \A n \in Managers \ {m} : mgr'[n] = DeletedManagers(D, TRUE)[n]
    /\ i \in m_instances => /\ i \notin D
                            /\ instance[i].m_mapMgr \in {None, m}
                            /\ i \in m_instances'
                            /\ instance[i].m_persistent => instance'[i].m_persistent
    /\ i \in Ids => (instance'[i].m_persistent => IsPersistentKind)
    /\ m \in Managers =>
           /\ \A j \in m_instances \ {i} : instance[j].m_mapMgr # m
           /\ mgr'[m].forced => mgr'[m].inactive
           /\ mgr'[m].pc = "loop" /\ mgr'[m].storage = {}
                 => mgr'[m].terminate \/ mgr'[m].inactive
           /\ mgr'[m].pc = "drop" => kind = "nonraid"
    /\ \/ /\ m \in Managers => ~Linked(m)'
          /\ i \in m_instances' => instance'[i].m_mapMgr = None
       \/ /\ m \in Managers /\ Linked(m)' /\ mgr'[m].pInstance = i
          /\ i \in m_instances' /\ instance'[i].m_mapMgr = m

LEMMA RegistryStep ==
    ASSUME IInv, kind' = kind, NEW D, NEW i, NEW m, StepOn(D, i, m)
    PROVE  Agree' /\ KeepsPersistent
  <1> USE DEF StepOn
  <1>0. TypeOK /\ Agree /\ m_instances \subseteq Ids /\ 0 \notin Ids
    BY Registry DEF IInv
  <1> DEFINE hit(n) == \E j \in D : instance[j].m_mapMgr = n
  <1>1. \A n \in Managers \ {m} :
           /\ mgr'[n].pc = mgr[n].pc /\ mgr'[n].storage = mgr[n].storage
           /\ ~hit(n) => mgr'[n] = mgr[n]
           /\ hit(n) => /\ mgr'[n].pInstance = 0
                        /\ \/ mgr'[n].terminate /\ mgr'[n].forced = mgr[n].forced
                                          /\ mgr'[n].inactive = mgr[n].inactive
                           \/ mgr'[n].forced /\ mgr'[n].inactive
    <2> SUFFICES ASSUME NEW n \in Managers \ {m}
        PROVE  DeletedAs(mgr'[n], mgr[n], hit(n))
      BY DEF DeletedAs
    <2>1. DeletedAs(DeletedManagers(D, TRUE)[n], mgr[n], hit(n))
      BY <1>0, HitManagers
    <2> HIDE DEF hit
    <2> QED BY <2>1
  <1>2. \A n \in Managers :
           hit(n) => \E j \in D : mgr[n].pInstance = j /\ instance[j].m_mapMgr = n
    BY <1>0, HitsKnow
  <1>3. \A n \in Managers : mgr'[n].pc = "loop" => Linked(n)'
    BY DEF Linked
  <1>4. \A j \in D \cup m_instances : j \in Ids /\ j # 0
    BY <1>0
  <1>5. i \notin D
    OBVIOUS
  <1>6. None \notin Managers
    OBVIOUS
  <1> HIDE DEF hit
  <1>7. EachOthers'
    <2>1. ASSUME NEW j \in m_instances', NEW n, instance'[j].m_mapMgr = n, n # None
          PROVE  n \in Managers /\ Linked(n)' /\ mgr'[n].pInstance = j
      <3>1. CASE j = i
        BY <2>1, <3>1
      <3>2. CASE j # i
        <4>1. j \in m_instances /\ j \notin D /\ j \in Ids
          BY <2>1, <3>2
        <4>2. instance[j].m_mapMgr = n /\ instance[j] \in InstanceRecord
          BY <1>0, <2>1, <3>2, <4>1 DEF TypeOK
        <4>3. n \in Managers
          BY <2>1, <4>2 DEF InstanceRecord
        <4>4. Linked(n) /\ mgr[n].pInstance = j
          BY <1>0, <2>1, <4>1, <4>2 DEF Agree, EachOthers
        <4>5. n # m
          BY <3>2, <4>1, <4>2, <4>3
        <4>6. ~hit(n)
          BY <1>2, <4>1, <4>3, <4>4
        <4>7. mgr'[n] = mgr[n]
          BY <1>1, <4>3, <4>5, <4>6
        <4> QED BY <4>3, <4>4, <4>7 DEF Linked
      <3> QED BY <3>1, <3>2
    <2>2. ASSUME NEW n \in Managers, NEW j, mgr'[n].pInstance = j, Linked(n)', j # 0
          PROVE  j \in m_instances' /\ instance'[j].m_mapMgr = n
      <3>1. CASE n = m
        BY <2>2, <3>1
      <3>2. CASE n # m
        <4>1. ~hit(n) /\ mgr'[n] = mgr[n]
          BY <1>1, <2>2, <3>2
        <4>2. j \in m_instances /\ instance[j].m_mapMgr = n
          BY <1>0, <2>2, <4>1 DEF Agree, EachOthers, Linked
        <4>3. j \notin D /\ j # i
          BY <1>6, <3>2, <4>1, <4>2 DEF hit
        <4> QED BY <1>0, <4>2, <4>3
      <3> QED BY <3>1, <3>2
    <2> QED BY <2>1, <2>2 DEF EachOthers
  <1>8. ForcedAreInactive'
    BY <1>0, <1>1 DEF Agree, ForcedAreInactive
  <1>9. ASSUME NEW n \in Managers, mgr'[n].pc = "loop", mgr'[n].pInstance = 0
        PROVE  mgr'[n].terminate \/ mgr'[n].forced
    <2>1. n # m
      BY <1>0, <1>3, <1>9
    <2> QED BY <1>0, <1>1, <1>9, <2>1 DEF Agree, DeletedAreTold
  <1>10. ASSUME NEW n \in Managers, mgr'[n].pc = "loop",
                mgr'[n].storage = {} \/ mgr'[n].pInstance = 0
         PROVE  mgr'[n].terminate \/ mgr'[n].inactive
    <2>1. CASE mgr'[n].pInstance = 0
      <3>1. mgr'[n].terminate \/ mgr'[n].forced
        BY <1>9, <1>10, <2>1
      <3> QED BY <1>8, <3>1 DEF ForcedAreInactive
    <2>2. CASE mgr'[n].storage = {}
      BY <1>0, <1>1, <1>10, <2>2 DEF Agree, IdleManagersEnd
    <2> QED BY <1>10, <2>1, <2>2
  <1>11. KindsKept'
    <2>1. ASSUME NEW j \in Ids, instance'[j].m_persistent PROVE IsPersistentKind
      <3>1. ~NewInstance.m_persistent
        BY DEF NewInstance
      <3> QED BY <1>0, <2>1, <3>1 DEF Agree, KindsKept
    <2>2. ASSUME NEW n \in Managers, mgr'[n].pc = "drop" PROVE kind = "nonraid"
      BY <1>0, <1>1, <2>2 DEF Agree, KindsKept
    <2> QED BY <2>1, <2>2 DEF KindsKept, IsPersistentKind
  <1>12. KeepsPersistent
    <2>1. ASSUME NEW j \in m_instances, instance[j].m_persistent, ~instance[j].expired
          PROVE  j \in m_instances' /\ instance'[j].m_persistent
      <3>1. j \notin D /\ j \in Ids
        BY <1>4, <2>1
      <3>2. CASE j = i
        BY <2>1, <3>2
      <3>3. CASE j # i
        BY <2>1, <3>1, <3>3
      <3> QED BY <3>2, <3>3
    <2> QED BY <2>1 DEF KeepsPersistent
  <1> QED BY <1>7, <1>8, <1>9, <1>10, <1>11, <1>12
       DEF Agree, DeletedAreTold, IdleManagersEnd

LEMMA UnlinkAgree ==
    ASSUME IInv, NEW m \in Managers, UnlinkInstance(m)
    PROVE  Agree' /\ KeepsPersistent
  <1> DEFINE i == mgr[m].pInstance
  <1>0. TypeOK /\ Agree /\ m_instances \subseteq Ids /\ mgr[m] \in ManagerRecord
    BY Registry, ManagerType DEF IInv
  <1>1. CASE i = 0
    BY <1>1, RegistryAlone DEF UnlinkInstance, Fault, registry
  <1>2. CASE i # 0
    <2>1. i \in m_instances /\ i \in Ids /\ instance[i].m_mapMgr = m
      BY <1>0, <1>2 DEF UnlinkInstance, Linked, Agree, EachOthers
    <2>2. PICK l \in {"drop", "delete"} :
              /\ mgr' = [mgr EXCEPT ![m] = [mgr[m] EXCEPT !.pc = l]]
              /\ l = "drop" => kind = "nonraid"
              /\ instance' = [instance EXCEPT ![i] = [instance[i] EXCEPT !.m_mapMgr = None]]
      BY <1>0, <1>2, UnlinkEffect
    <2>3. kind' = kind /\ m_instances' = m_instances
      BY <1>2 DEF UnlinkInstance
    <2> DEFINE its == [mgr[m] EXCEPT !.pc = l]
    <2>4. its.pc = l /\ its.forced = mgr[m].forced /\ its.inactive = mgr[m].inactive
      BY <1>0 DEF ManagerRecord
    <2> HIDE DEF its
    <2>5. \A n \in Managers : mgr'[n] = IF n = m THEN its ELSE mgr[n]
      BY <1>0, <2>2 DEF TypeOK, its
    <2>6. \A n \in Managers \ {m} : mgr'[n] = DeletedManagers({}, TRUE)[n]
      BY <2>5 DEF DeletedManagers
    <2>7. /\ instance'[i].m_mapMgr = None
          /\ instance'[i].m_persistent = instance[i].m_persistent
      <3>1. instance[i] \in InstanceRecord
        BY <1>0, <2>1 DEF TypeOK
      <3> QED BY <1>0, <2>1, <2>2, <3>1 DEF TypeOK, InstanceRecord
    <2>8. \A j \in Ids \ {i} : instance'[j] = instance[j]
      BY <1>0, <2>2 DEF TypeOK
    <2>9. \A j \in m_instances \ {i} : instance[j].m_mapMgr # m
      BY <1>0 DEF Agree, EachOthers
    <2>10. ~Linked(m)' /\ (mgr'[m].forced => mgr'[m].inactive)
           /\ mgr'[m].pc # "loop" /\ (mgr'[m].pc = "drop" => kind = "nonraid")
      BY <1>0, <2>2, <2>4, <2>5 DEF Linked, Agree, ForcedAreInactive
    <2>11. instance[i].m_persistent => IsPersistentKind
      BY <1>0, <2>1 DEF Agree, KindsKept
    <2> HIDE DEF i
    <2>12. StepOn({}, i, m)
      BY <1>0, <2>1, <2>3, <2>6, <2>7, <2>8, <2>9, <2>10, <2>11 DEF StepOn
    <2> QED BY <2>3, <2>12, RegistryStep
  <1> QED BY <1>1, <1>2

LEMMA DropAgree ==
    ASSUME IInv, NEW m \in Managers, DropInstance(m)
    PROVE  Agree' /\ KeepsPersistent
  <1> DEFINE i == mgr[m].pInstance
  <1>0. TypeOK /\ Agree /\ m_instances \subseteq Ids /\ 0 \notin Ids
    BY Registry DEF IInv
  <1>1. CASE i \notin m_instances
    BY <1>1, RegistryAlone DEF DropInstance, Fault, registry
  <1>2. CASE i \in m_instances
    <2>1. /\ i \in Ids
          /\ m_instances' = m_instances \ {i}
          /\ \A j \in Ids : instance'[j] = IF j = i THEN NewInstance ELSE instance[j]
          /\ mgr'[m].pc = "delete"
          /\ mgr'[m].forced => mgr'[m].inactive \/ (mgr[m].forced /\ ~mgr[m].inactive)
          /\ \A n \in Managers \ {m} : mgr'[n] = DeletedManagers({i}, TRUE)[n]
      BY <1>0, <1>2, DropEffect
    <2>2. kind' = kind /\ mgr[m].pc = "drop"
      BY <1>2 DEF DropInstance
    <2>3. \A j \in m_instances : instance[j].m_mapMgr # m
      BY <1>0, <2>2 DEF Agree, EachOthers, Linked
    <2>4. ~instance[i].m_persistent
      BY <1>0, <2>1, <2>2 DEF Agree, KindsKept, IsPersistentKind
    <2>5. ~Linked(m)' /\ (mgr'[m].forced => mgr'[m].inactive)
      BY <1>0, <2>1 DEF Linked, Agree, ForcedAreInactive
    <2> HIDE DEF i
    <2>6. /\ {i} \in SUBSET m_instances /\ m_instances' \subseteq Ids
          /\ 0 \notin m_instances /\ 0 \notin m_instances'
          /\ m_instances' \ {0} = (m_instances \ {i}) \ {0}
      BY <1>0, <1>2, <2>1
    <2>7. \A j \in Ids \ {0} : instance'[j] = IF j \in {i} THEN NewInstance
                                              ELSE instance[j]
      BY <2>1
    <2>8. StepOn({i}, 0, m)
      BY <1>0, <2>1, <2>2, <2>3, <2>4, <2>5, <2>6, <2>7 DEF StepOn
    <2> QED BY <2>2, <2>8, RegistryStep
  <1> QED BY <1>1, <1>2

LEMMA CreateAgree ==
    ASSUME IInv, NEW p \in Players, Create(p) PROVE Agree' /\ KeepsPersistent
  <1> DEFINE i == m_InstanceHigh + 1
  <1>0. TypeOK /\ m_instances \subseteq Ids /\ None \notin Managers
    BY Registry DEF IInv
  <1>1. /\ i \in Ids /\ i \notin m_instances
        /\ m_instances' = (m_instances \ Expired) \cup {i}
        /\ \A j \in Ids : instance'[j] = IF j = i THEN Made(p)
                                         ELSE IF j \in Expired THEN NewInstance
                                         ELSE instance[j]
        /\ mgr' = DeletedManagers(Expired, TRUE)
    BY <1>0, CreateEffect
  <1>2. kind' = kind
    BY DEF Create
  <1>3. /\ Expired \in SUBSET m_instances
        /\ \A j \in Expired : instance[j].expired
    BY DEF Expired
  <1>4. /\ Made(p).m_mapMgr = None
        /\ Made(p).m_persistent => IsPersistentKind
    BY DEF Made, NewInstance, IsPersistentKind
  <1> HIDE DEF i
  <1>5. /\ m_instances' \subseteq Ids
        /\ m_instances' \ {i} = (m_instances \ Expired) \ {i}
        /\ instance'[i] = Made(p)
    BY <1>0, <1>1, <1>3
  <1>6. \A j \in Ids \ {i} : instance'[j] = IF j \in Expired THEN NewInstance
                                           ELSE instance[j]
    BY <1>1
  <1>7. StepOn(Expired, i, None)
    BY <1>0, <1>1, <1>2, <1>3, <1>4, <1>5, <1>6 DEF StepOn
  <1> QED BY <1>2, <1>7, RegistryStep

LEMMA GetInstanceAgree ==
    ASSUME IInv, NEW p \in Players, GetInstance(p) PROVE Agree' /\ KeepsPersistent
  <1>0. TypeOK /\ Agree /\ m_instances \subseteq Ids /\ 0 \notin Ids
    BY Registry DEF IInv
  <1>1. PICK i \in m_instances, X \in SUBSET (m_instances \cap Expired), m \in Managers :
            GotInstance(i, X, m)
    BY <1>0, GetInstanceEffect
  <1>2. kind' = kind
    BY DEF GetInstance
  <1>3. /\ i \in Ids /\ i \notin X /\ X \in SUBSET m_instances
        /\ \A j \in X : instance[j].expired
        /\ m_instances' = m_instances \ X
    BY <1>1 DEF GotInstance, Expired
  <1>4. \A j \in Ids : instance'[j] = IF j = i
                                        THEN [instance[j] EXCEPT !.m_mapMgr = m]
                                        ELSE IF j \in X THEN NewInstance ELSE instance[j]
    BY <1>1 DEF GotInstance
  <1>5. /\ instance'[i].m_mapMgr = m
        /\ instance'[i].m_persistent = instance[i].m_persistent
    <2>1. instance[i] \in InstanceRecord
      BY <1>0, <1>3 DEF TypeOK
    <2>2. instance'[i] = [instance[i] EXCEPT !.m_mapMgr = m]
      BY <1>3, <1>4
    <2> QED BY <2>1, <2>2 DEF InstanceRecord
  <1>6. /\ m_instances' \subseteq Ids /\ i \in m_instances'
        /\ m_instances' \ {i} = (m_instances \ X) \ {i}
    BY <1>0, <1>3
  <1>7. \A n \in Managers \ {m} : mgr'[n] = DeletedManagers(X, TRUE)[n]
    BY <1>1 DEF GotInstance
  <1>8. instance[i].m_persistent => IsPersistentKind
    BY <1>0, <1>3 DEF Agree, KindsKept
  <1>9. /\ instance[i].m_mapMgr \in {None, m}
        /\ \A j \in m_instances \ {i} : instance[j].m_mapMgr # m
        /\ mgr'[m].forced => mgr'[m].inactive
        /\ mgr'[m].pc = "loop" /\ mgr'[m].storage = {}
              => mgr'[m].terminate \/ mgr'[m].inactive
        /\ mgr'[m].pc = "drop" => kind = "nonraid"
        /\ Linked(m)' /\ mgr'[m].pInstance = i
    <2>1. CASE instance[i].m_mapMgr = None
      <3>1. mgr'[m] = MadeFor(i) /\ mgr[m].pc = "none"
        BY <1>1, <2>1 DEF GotInstance, FreeManager
      <3>2. \A j \in m_instances : instance[j].m_mapMgr # m
        BY <1>0, <3>1 DEF Agree, EachOthers, Linked
      <3>3. /\ MadeFor(i).pc = "loop" /\ MadeFor(i).pInstance = i
            /\ MadeFor(i).inactive
        BY DEF MadeFor, NewManager
      <3> QED BY <2>1, <3>1, <3>2, <3>3 DEF Linked
    <2>2. CASE instance[i].m_mapMgr # None
      <3>1. m = instance[i].m_mapMgr /\ mgr'[m] = DeletedManagers(X, TRUE)[m]
        BY <1>1, <2>2 DEF GotInstance
      <3>2. Linked(m) /\ mgr[m].pInstance = i
        BY <1>0, <2>2, <3>1 DEF Agree, EachOthers
      <3>3. \A j \in m_instances \ {i} : instance[j].m_mapMgr # m
        BY <1>0, <3>2 DEF Agree, EachOthers
      <3>4. DeletedAs(mgr'[m], mgr[m], \E j \in X : instance[j].m_mapMgr = m)
        <4>1. DeletedAs(DeletedManagers(X, TRUE)[m], mgr[m],
                        \E j \in X : instance[j].m_mapMgr = m)
          BY <1>0, HitManagers
        <4> QED BY <3>1, <4>1
      <3>5. mgr'[m] = mgr[m]
        BY <1>3, <3>3, <3>4 DEF DeletedAs
      <3> QED BY <1>0, <3>1, <3>2, <3>3, <3>5
           DEF Linked, Agree, ForcedAreInactive, IdleManagersEnd, KindsKept
    <2> QED BY <2>1, <2>2
  <1>10. StepOn(X, i, m)
    BY <1>2, <1>3, <1>4, <1>5, <1>6, <1>7, <1>8, <1>9 DEF StepOn
  <1> QED BY <1>2, <1>10, RegistryStep

-----------------------------------------------------------------------------
(* The theorems. *)

LEMMA Initially == Init => IInv
  <1> SUFFICES ASSUME Init PROVE IInv
    OBVIOUS
  <1>1. TypeOK
    <2>1. MaxInstances[kind] \in Nat /\ MaxGroups[kind] \in Nat
      BY DEF Init
    <2>2. NewPlayer \in PlayerRecord
      BY DEF NewPlayer, PlayerRecord
    <2> QED BY <2>1, <2>2, NewInstanceType, NewManagerType DEF Init, TypeOK
  <1>2. PlayersPlaced
    BY DEF Init, PlayersPlaced, NewPlayer, NewManager
  <1>3. EachOthers
    BY DEF Init, EachOthers, Linked, NewManager
  <1>4. ForcedAreInactive /\ DeletedAreTold /\ IdleManagersEnd /\ KindsKept
    BY DEF Init, ForcedAreInactive, DeletedAreTold, IdleManagersEnd, KindsKept,
           NewManager, NewInstance
  <1> QED BY <1>1, <1>2, <1>3, <1>4 DEF IInv, Agree

LEMMA PlayerKeeps ==
    ASSUME IInv, NEW p \in Players, PlayerStep(p) PROVE IInv' /\ KeepsPersistent
  <1>0. TypeOK /\ PlayersPlaced
    BY DEF IInv
  <1>1. CASE Find(p)
    BY <1>0, <1>1, FindTypes, ArrivalPlaced, DeletingAgree DEF IInv
  <1>2. CASE Create(p)
    BY <1>0, <1>2, CreateTypes, ArrivalPlaced, CreateAgree DEF IInv
  <1>3. CASE Check(p)
    BY <1>0, <1>3, CheckTypes, ArrivalPlaced, QuietAgree DEF IInv
  <1>4. CASE FullLogin(p)
    BY <1>0, <1>4, FullLoginTypes, ArrivalPlaced, QuietAgree DEF IInv
  <1>5. CASE GetInstance(p)
    BY <1>0, <1>5, GetInstanceTypes, ArrivalPlaced, GetInstanceAgree DEF IInv
  <1>6. CASE NoInstance(p)
    BY <1>0, <1>6, NoInstanceTypes, ArrivalPlaced, DeletingAgree DEF IInv
  <1>7. CASE AddToWorld(p)
    BY <1>0, <1>7, AddToWorldTypes, AddToWorldPlaced, AddToWorldAgree DEF IInv
  <1>8. CASE LeaveMap(p)
    BY <1>0, <1>8, LeaveMapTypes, ExitPlaced, ExitAgree DEF IInv
  <1>9. CASE LogoutPlayer(p)
    BY <1>0, <1>9, LogoutPlayerTypes, ExitPlaced, ExitAgree DEF IInv
  <1>10. CASE ResetSavedInstances(p)
    BY <1>0, <1>10, ResetTypes, OthersPlaced, DeletingAgree DEF IInv
  <1>11. CASE RemovePlayer(p)
    BY <1>0, <1>11, RemovePlayerTypes, OthersPlaced, QuietAgree DEF IInv
  <1>12. CASE Disband(p)
    BY <1>0, <1>12, DisbandTypes, OthersPlaced, DeletingAgree DEF IInv
  <1>13. ASSUME NEW q \in Players, Summon(p, q) PROVE IInv' /\ KeepsPersistent
    BY <1>0, <1>13, SummonTypes, ArrivalPlaced, QuietAgree DEF IInv
  <1>14. ASSUME NEW q \in Players, AddMember(p, q) PROVE IInv' /\ KeepsPersistent
    BY <1>0, <1>14, AddMemberTypes, OthersPlaced, QuietAgree DEF IInv
  <1>15. ASSUME NEW q \in Players, NewGroup(p, q) PROVE IInv' /\ KeepsPersistent
    BY <1>0, <1>15, NewGroupTypes, OthersPlaced, QuietAgree DEF IInv
  <1> QED
    BY <1>1, <1>2, <1>3, <1>4, <1>5, <1>6, <1>7, <1>8, <1>9, <1>10, <1>11,
       <1>12, <1>13, <1>14, <1>15 DEF PlayerStep

LEMMA ManagerKeeps ==
    ASSUME IInv, NEW m \in Managers, ManagerStep(m) PROVE IInv' /\ KeepsPersistent
  <1>0. TypeOK /\ PlayersPlaced
    BY DEF IInv
  <1>1. CASE Push(m)
    BY <1>0, <1>1, PushTypes, PushPlaced, PushAgree DEF IInv
  <1>2. CASE BossDies(m)
    BY <1>0, <1>2, BossDiesTypes, ManagerPlaced, QuietAgree DEF IInv
  <1>3. CASE EndLoop(m)
    BY <1>0, <1>3, EndTypes, ManagerPlaced, EndAgree DEF IInv
  <1>4. CASE TeleportPlayers(m)
    BY <1>0, <1>4, TeleportTypes, TeleportPlaced, EndAgree DEF IInv
  <1>5. CASE ReadInstance(m)
    BY <1>0, <1>5, EndTypes, ManagerPlaced, EndAgree DEF IInv
  <1>6. CASE UnlinkInstance(m)
    BY <1>0, <1>6, UnlinkTypes, ManagerPlaced, UnlinkAgree DEF IInv
  <1>7. CASE DropInstance(m)
    BY <1>0, <1>7, DropTypes, ManagerPlaced, DropAgree DEF IInv
  <1>8. CASE DeleteMap(m)
    BY <1>0, <1>8, EndTypes, ManagerPlaced, EndAgree DEF IInv
  <1> QED
    BY <1>1, <1>2, <1>3, <1>4, <1>5, <1>6, <1>7, <1>8 DEF ManagerStep

LEMMA Stepwise == IInv /\ [Next]_vars => IInv' /\ KeepsPersistent
  <1> SUFFICES ASSUME IInv, [Next]_vars PROVE IInv' /\ KeepsPersistent
    OBVIOUS
  <1>0. TypeOK
    BY DEF IInv
  <1>1. ASSUME NEW p \in Players, PlayerStep(p) PROVE IInv' /\ KeepsPersistent
    BY <1>1, PlayerKeeps
  <1>2. ASSUME NEW m \in Managers, ManagerStep(m) PROVE IInv' /\ KeepsPersistent
    BY <1>2, ManagerKeeps
  <1>3. ASSUME NEW i \in Ids, Expire(i) PROVE IInv' /\ KeepsPersistent
    BY <1>0, <1>3, ExpireTypes, OthersPlaced, QuietAgree DEF IInv
  <1>4. CASE CheckForExpiredInstances
    BY <1>0, <1>4, ResetTypes, OthersPlaced, DeletingAgree DEF IInv
  <1>5. CASE UNCHANGED vars
    <2>1. TypeOK'
      BY <1>0, <1>5 DEF vars, registry, grouping, TypeOK
    <2> QED BY <1>5, <2>1, OthersPlaced, QuietAgree DEF IInv
  <1> QED BY <1>1, <1>2, <1>3, <1>4, <1>5 DEF Next

\* The inductive invariant holds whatever players, groups and managers do.
THEOREM Invariance == Spec => []IInv
  BY Initially, Stepwise, PTL DEF Spec

\* The registry and the map managers are consistent at all times: what the
\* world's thread (GetInstance), the players' threads and a manager's own
\* last lines (MapMgr::run) write to m_mapMgr and pInstance always agrees.
THEOREM RegistryConsistency == Spec => []Consistent
  <1>1. IInv => Consistent
    BY DEF IInv, Agree, Consistent
  <1> QED BY <1>1, Invariance, PTL

\* No map manager's thread runs on for nobody: one without players or whose
\* instance is deleted is idle or told to end.
THEOREM IdleEnd == Spec => []IdleManagersEnd
  <1>1. IInv => IdleManagersEnd
    BY DEF IInv, Agree
  <1> QED BY <1>1, Invariance, PTL

\* Persistent instances are deleted by their expiration only, not by
\* resets, disbanded groups or ending managers.
THEOREM Persistence == Spec => PersistentKept
  <1>1. IInv /\ [Next]_vars
          => [\A i \in m_instances :
                 instance[i].m_persistent /\ ~instance[i].expired
                     => i \in m_instances' /\ instance'[i].m_persistent]_vars
    BY Stepwise DEF KeepsPersistent
  <1> QED BY <1>1, Invariance, PTL DEF Spec, PersistentKept

-----------------------------------------------------------------------------
(* Groups in a dungeon. *)

Inside(m) == mgr[m].storage \cup mgr[m].pool

\* A manager that still works for an instance.
Attached(m) == Linked(m) /\ mgr[m].pInstance # 0

\* Whoever is inside, or at the door, has the id of the instance.
IdsKnown ==
    \A m \in Managers : Attached(m) =>
        /\ mgr[m].m_instanceID = mgr[m].pInstance
        /\ \A p \in Inside(m) : plr[p].m_instanceId = mgr[m].pInstance

\* A dungeon's instance has been made by a player or for a group.
OwnersKnown ==
    ~IsPersistentKind =>
        \A i \in m_instances :
            instance[i].m_creatorGuid = None => instance[i].m_creatorGroup # 0

\* The player who has made it is inside alone; in that of a group are its
\* members, but for those told to go.
OwnersInside ==
    ~IsPersistentKind =>
        \A m \in Managers : Attached(m) =>
            \A p \in Inside(m) : LET i == mgr[m].pInstance IN
                /\ instance[i].m_creatorGuid # None => p = instance[i].m_creatorGuid
                /\ instance[i].m_creatorGuid = None
                      => plr[p].told \/ group[p] = instance[i].m_creatorGroup

\* A manager that has let go of its instance has thrown its players out.
Works(m) == mgr[m].storage # {} => mgr[m].pc \in {"loop", "teleport"}

Separate ==
    /\ IdsKnown /\ OwnersKnown /\ OwnersInside
    /\ \A m \in Managers : Works(m)

\* What a step does to the managers, ...
ManagersStay ==
    \A m \in Managers :
        /\ Attached(m)' =>
              \/ /\ Attached(m) /\ mgr'[m].pInstance = mgr[m].pInstance
                 /\ mgr'[m].m_instanceID = mgr[m].m_instanceID
                 /\ Inside(m)' \subseteq Inside(m)
              \/ Inside(m)' = {} /\ mgr'[m].m_instanceID = mgr'[m].pInstance
        /\ Works(m) => Works(m)'

\* ... to those inside, ...
PlayersStay ==
    \A p \in Players :
        plr[p].at \in {"queued", "in"} /\ plr'[p].at \in {"queued", "in"}
            => /\ plr'[p].m_instanceId = plr[p].m_instanceId
               /\ plr[p].told => plr'[p].told

\* ... to whom an instance belongs to ...
OwnersStay ==
    ~IsPersistentKind =>
        \A i \in m_instances' :
            /\ i \in m_instances =>
                  /\ instance'[i].m_creatorGuid = instance[i].m_creatorGuid
                  /\ instance[i].m_creatorGuid = None
                        => instance'[i].m_creatorGroup = instance[i].m_creatorGroup
            /\ i \notin m_instances =>
                  (instance'[i].m_creatorGuid = None
                        => instance'[i].m_creatorGroup # 0)

\* ... and to the groups inside.
GroupsStay ==
    ~IsPersistentKind =>
        \A m \in Managers : Attached(m) /\ Attached(m)' =>
            \A p \in Inside(m) \cap Inside(m)' :
                instance[mgr[m].pInstance].m_creatorGuid = None
                    => group'[p] = group[p] \/ plr'[p].told

\* An instance of a manager that works for it is registered.
LEMMA AttachedIsRegistered ==
    ASSUME IInv, NEW m \in Managers, Attached(m)
    PROVE  /\ mgr[m].pInstance \in m_instances /\ mgr[m].pInstance \in Ids
           /\ instance[mgr[m].pInstance].m_mapMgr = m
  BY Registry DEF IInv, Agree, EachOthers, Attached

\* Where those are who are inside.
LEMMA InsideAt ==
    ASSUME IInv, NEW m \in Managers, NEW p \in Inside(m)
    PROVE  p \in Players /\ plr[p].at \in {"queued", "in"} /\ plr[p].m_mapMgr = m
  BY ManagerType DEF IInv, Inside, PlayersPlaced, ManagerRecord

\* A step that takes nobody in and leaves the instances their owners.
LEMMA SeparateKept ==
    ASSUME IInv, Separate, IInv', kind' = kind,
           ManagersStay, PlayersStay, OwnersStay, GroupsStay
    PROVE  Separate'
  <1>1. \A m \in Managers : Attached(m)' =>
           /\ mgr'[m].pInstance \in m_instances'
           /\ \A p \in Inside(m)' : p \in Players /\ plr'[p].at \in {"queued", "in"}
    <2> SUFFICES ASSUME NEW m \in Managers, Attached(m)'
                 PROVE  /\ mgr'[m].pInstance \in m_instances'
                        /\ \A p \in Inside(m)' : p \in Players /\ plr'[p].at \in {"queued", "in"}
      OBVIOUS
    <2>1. mgr'[m] \in ManagerRecord
      BY DEF IInv, TypeOK
    <2> QED BY <2>1 DEF IInv, Agree, EachOthers, Attached, Inside, PlayersPlaced, ManagerRecord
  <1>2. ASSUME NEW m \in Managers, Attached(m)', NEW p \in Inside(m)'
        PROVE  /\ Attached(m) /\ p \in Inside(m) /\ mgr'[m].pInstance = mgr[m].pInstance
               /\ plr'[p].m_instanceId = plr[p].m_instanceId
               /\ plr[p].told => plr'[p].told
    <2>1. /\ Attached(m) /\ p \in Inside(m) /\ mgr'[m].pInstance = mgr[m].pInstance
      BY <1>2 DEF ManagersStay
    <2>2. plr[p].at \in {"queued", "in"}
      BY <2>1, InsideAt
    <2> QED BY <2>1, <2>2, <1>1, <1>2 DEF PlayersStay
  <1>3. IdsKnown'
    BY <1>2 DEF Separate, IdsKnown, ManagersStay
  <1>4. OwnersKnown'
    BY DEF Separate, OwnersKnown, OwnersStay, IsPersistentKind
  <1>5. OwnersInside'
    <2> SUFFICES ASSUME ~IsPersistentKind, NEW m \in Managers, Attached(m)',
                        NEW p \in Inside(m)'
                 PROVE  LET i == mgr'[m].pInstance IN
                        /\ instance'[i].m_creatorGuid # None => p = instance'[i].m_creatorGuid
                        /\ instance'[i].m_creatorGuid = None
                              => plr'[p].told \/ group'[p] = instance'[i].m_creatorGroup
      BY DEF OwnersInside, IsPersistentKind
    <2>1. /\ Attached(m) /\ p \in Inside(m) /\ mgr'[m].pInstance = mgr[m].pInstance
          /\ plr[p].told => plr'[p].told
      BY <1>2
    <2>2. mgr[m].pInstance \in m_instances /\ mgr[m].pInstance \in m_instances'
      BY <1>1, <2>1, AttachedIsRegistered
    <2> QED BY <2>1, <2>2 DEF Separate, OwnersInside, OwnersStay, GroupsStay
  <1>6. \A m \in Managers : Works(m)'
    BY DEF Separate, ManagersStay
  <1> QED BY <1>3, <1>4, <1>5, <1>6 DEF Separate

\* A step changes one player, who was not inside.
LEMMA OnePlayerStays ==
    ASSUME IInv, NEW p \in Players, NEW new, plr' = [plr EXCEPT ![p] = new],
           plr[p].at \notin {"queued", "in"} \/ new.at \notin {"queued", "in"}
    PROVE  PlayersStay
  <1>1. \A q \in Players : plr'[q] = IF q = p THEN new ELSE plr[q]
    BY DEF IInv, TypeOK
  <1> QED BY <1>1 DEF PlayersStay

\* No step takes the id, or the order to go, from a player who stays inside.
LEMMA PlayersStaySteps ==
    ASSUME IInv, [Next]_vars PROVE PlayersStay
  <1>0. TypeOK /\ PlayersPlaced /\ plr \in [Players -> PlayerRecord]
        /\ \A p \in Players : plr[p] \in PlayerRecord
    BY PlayerType DEF IInv, TypeOK
  <1>1. ASSUME plr' = plr PROVE PlayersStay
    BY <1>1 DEF PlayersStay
  <1>2. ASSUME NEW p \in Players, Find(p) \/ Create(p) \/ FullLogin(p)
                   \/ GetInstance(p) \/ NoInstance(p) \/ AddToWorld(p)
        PROVE  PlayersStay
    <2>1. plr[p].at \notin {"queued", "in"}
      BY <1>2 DEF Find, Create, FullLogin, GetInstance, NoInstance, AddToWorld,
                  MayTeleport
    <2>2. plr' = plr \/ \E new : plr' = [plr EXCEPT ![p] = new]
      <3>1. CASE Find(p) \/ Create(p) \/ FullLogin(p) \/ NoInstance(p)
        BY <3>1 DEF Find, Create, FullLogin, NoInstance
      <3>2. CASE GetInstance(p)
        BY <3>2 DEF GetInstance, GoToManager
      <3>3. CASE AddToWorld(p)
        BY <3>3 DEF AddToWorld, Fault
      <3> QED BY <1>2, <3>1, <3>2, <3>3
    <2> QED BY <1>1, <2>1, <2>2, OnePlayerStays
  <1>3. ASSUME NEW p \in Players, NEW i, LetIn(p, i) \/ Refuse(p),
               plr[p].at \notin {"queued", "in"}
        PROVE  PlayersStay
    BY <1>3, OnePlayerStays DEF LetIn, Refuse
  <1>4. ASSUME NEW p \in Players, Check(p) PROVE PlayersStay
    BY <1>1, <1>3, <1>4 DEF Check, Fault
  <1>5. ASSUME NEW p \in Players, NEW q \in Players, Summon(p, q) PROVE PlayersStay
    BY <1>3, <1>5 DEF Summon, MayTeleport
  <1>6. \A p \in Players : Outside(p).at = "out"
    BY <1>0 DEF Outside, PlayerRecord
  <1>7. ASSUME NEW p \in Players, LeaveMap(p) PROVE PlayersStay
    BY <1>6, <1>7, OnePlayerStays DEF LeaveMap
  <1>8. ASSUME NEW p \in Players, LogoutPlayer(p) PROVE PlayersStay
    <2> DEFINE off == [Outside(p) EXCEPT !.at = "offline",
                           !.m_instanceId = mgr[plr[p].m_mapMgr].m_instanceID]
    <2>1. off.at = "offline"
      BY <1>0 DEF Outside, PlayerRecord
    <2>2. plr' = [plr EXCEPT ![p] = off]
      BY <1>8 DEF LogoutPlayer
    <2> HIDE DEF off
    <2> QED BY <2>1, <2>2, OnePlayerStays
  <1>9. ASSUME NEW p \in Players, RemovePlayer(p) PROVE PlayersStay
    <2> DEFINE new == [plr[p] EXCEPT !.told = @ \/ ToldToLeave(p)]
    <2>1. plr' = [plr EXCEPT ![p] = new]
      BY <1>0, <1>9 DEF RemovePlayer
    <2>2. new.m_instanceId = plr[p].m_instanceId /\ (plr[p].told => new.told)
      BY <1>0 DEF PlayerRecord
    <2> HIDE DEF new
    <2> QED BY <1>0, <2>1, <2>2 DEF PlayersStay
  <1>10. ASSUME NEW p \in Players, Disband(p) PROVE PlayersStay
    <2> DEFINE told(q) == (plr[q].told \/ (q = p /\ ToldToLeave(p)) \/ q \in InsideOf(p))
               new(q) == [plr[q] EXCEPT !.told = told(q)]
    <2>1. plr' = [q \in Players |-> new(q)]
      BY <1>10 DEF Disband, InsideOf
    <2>2. \A q \in Players : plr[q].told => told(q)
      OBVIOUS
    <2> HIDE DEF told
    <2>3. \A q \in Players : new(q).m_instanceId = plr[q].m_instanceId
                             /\ (plr[q].told => new(q).told)
      BY <1>0, <2>2 DEF PlayerRecord
    <2> HIDE DEF new
    <2> QED BY <2>1, <2>3 DEF PlayersStay
  <1>11. ASSUME NEW m \in Managers, Push(m) \/ BossDies(m) \/ TeleportPlayers(m)
         PROVE  PlayersStay
    <2>1. CASE Push(m)
      BY <1>0, <2>1 DEF Push, PlayersStay, PlayerRecord
    <2>2. CASE BossDies(m)
      BY <1>0, <2>2 DEF BossDies, PlayersStay, PlayerRecord
    <2>3. CASE TeleportPlayers(m)
      BY <1>6, <2>3 DEF TeleportPlayers, PlayersStay
    <2> QED BY <1>11, <2>1, <2>2, <2>3
  <1>12. ASSUME NEW m \in Managers, EndLoop(m) \/ ReadInstance(m) \/ UnlinkInstance(m)
                    \/ DropInstance(m) \/ DeleteMap(m)
         PROVE  PlayersStay
    BY <1>1, <1>12 DEF EndLoop, ReadInstance, UnlinkInstance, DropInstance, DeleteMap,
                       Fault
  <1>13. ASSUME NEW p \in Players, NEW q \in Players,
                ResetSavedInstances(p) \/ AddMember(p, q) \/ NewGroup(p, q)
         PROVE  PlayersStay
    BY <1>1, <1>13 DEF ResetSavedInstances, AddMember, NewGroup
  <1>14. ASSUME NEW i \in Ids, Expire(i) PROVE PlayersStay
    BY <1>1, <1>14 DEF Expire
  <1>15. CASE CheckForExpiredInstances \/ UNCHANGED vars
    BY <1>1, <1>15 DEF CheckForExpiredInstances, vars
  <1> QED
    BY <1>2, <1>4, <1>5, <1>7, <1>8, <1>9, <1>10, <1>11, <1>12, <1>13, <1>14, <1>15
       DEF Next, PlayerStep, ManagerStep

\* The managers whose instance is not deleted stay as they are.
LEMMA DeletedStay ==
    ASSUME IInv, NEW D, NEW force \in BOOLEAN, NEW m \in Managers,
           mgr'[m] = DeletedManagers(D, force)[m]
    PROVE  /\ Attached(m)' => mgr'[m] = mgr[m] /\ Attached(m) /\ Inside(m)' = Inside(m)
           /\ Works(m) => Works(m)'
  <1>1. Attached(m)' => mgr'[m] = mgr[m]
    BY ManagerOfDeleted DEF IInv, Attached
  <1>2. Works(m) => Works(m)'
    BY ManagerOfDeleted DEF IInv, Works
  <1> QED BY <1>1, <1>2 DEF Attached, Linked, Inside

LEMMA DeletionStays ==
    ASSUME IInv, NEW D, NEW force \in BOOLEAN, mgr' = DeletedManagers(D, force)
    PROVE  ManagersStay
  BY DeletedStay DEF ManagersStay

\* A step of one manager that takes nobody in.
LEMMA OneManagerStays ==
    ASSUME IInv, NEW m \in Managers, NEW its, mgr' = [mgr EXCEPT ![m] = its],
           its.pc = mgr[m].pc \/ mgr[m].pc \in {"loop", "teleport", "read"}
              \/ its.pc \in {"none", "drop", "delete"},
           its.pInstance = mgr[m].pInstance \/ its.pInstance = 0,
           its.m_instanceID = mgr[m].m_instanceID \/ its.pInstance = 0,
           its.storage \cup its.pool \subseteq mgr[m].storage \cup mgr[m].pool,
           Works(m) /\ its.storage # {} => its.pc \in {"loop", "teleport"}
    PROVE  ManagersStay
  <1>1. \A n \in Managers : mgr'[n] = IF n = m THEN its ELSE mgr[n]
    BY DEF IInv, TypeOK
  <1> QED BY <1>1 DEF ManagersStay, Attached, Linked, Inside, Works

\* Only AddToWorld takes a player in.
LEMMA ManagersStaySteps ==
    ASSUME IInv, [Next]_vars, \A p \in Players : ~AddToWorld(p)
    PROVE  ManagersStay
  <1>0. TypeOK /\ \A m \in Managers : mgr[m] \in ManagerRecord
    BY ManagerType DEF IInv
  <1>1. ASSUME mgr' = mgr PROVE ManagersStay
    BY <1>1 DEF ManagersStay, Attached, Linked, Inside, Works
  <1>2. ASSUME NEW p \in Players, Find(p) \/ Create(p) \/ NoInstance(p)
                   \/ ResetSavedInstances(p) \/ Disband(p)
        PROVE  ManagersStay
    <2>1. \E D : \E force \in BOOLEAN : mgr' = DeletedManagers(D, force)
      <3>1. CASE Find(p)
        BY <3>1 DEF Find, DeleteInstances
      <3>2. CASE Create(p)
        BY <3>2 DEF Create
      <3>3. CASE NoInstance(p)
        BY <3>3 DEF NoInstance, DeleteInstances
      <3>4. CASE ResetSavedInstances(p)
        BY <3>4 DEF ResetSavedInstances, DeleteInstances
      <3>5. CASE Disband(p)
        BY <1>0, <3>5, DisbandEffect DEF DeleteInstances
      <3> QED BY <1>2, <3>1, <3>2, <3>3, <3>4, <3>5
    <2> QED BY <2>1, DeletionStays
  <1>3. CASE CheckForExpiredInstances
    BY <1>3, DeletionStays DEF CheckForExpiredInstances, DeleteInstances
  <1>4. ASSUME NEW p \in Players, GetInstance(p) PROVE ManagersStay
    <2>1. PICK i \in m_instances, X \in SUBSET (m_instances \cap Expired), m \in Managers :
              GotInstance(i, X, m)
      BY <1>0, <1>4, GetInstanceEffect
    <2>2. ASSUME NEW n \in Managers
          PROVE  /\ Attached(n)' =>
                       \/ /\ Attached(n) /\ mgr'[n].pInstance = mgr[n].pInstance
                          /\ mgr'[n].m_instanceID = mgr[n].m_instanceID
                          /\ Inside(n)' \subseteq Inside(n)
                       \/ Inside(n)' = {} /\ mgr'[n].m_instanceID = mgr'[n].pInstance
                 /\ Works(n) => Works(n)'
      <3>1. CASE mgr'[n] = MadeFor(i)
        BY <3>1 DEF MadeFor, NewManager, Inside, Works
      <3>2. CASE mgr'[n] = DeletedManagers(X, TRUE)[n]
        BY <2>2, <3>2, DeletedStay
      <3> QED BY <2>1, <3>1, <3>2 DEF GotInstance
    <2> QED BY <2>2 DEF ManagersStay
  <1>5. ASSUME NEW p \in Players, Check(p) \/ FullLogin(p) \/ RemovePlayer(p)
        PROVE  ManagersStay
    BY <1>1, <1>5 DEF Check, FullLogin, RemovePlayer, Fault
  <1>6. ASSUME NEW p \in Players, NEW q \in Players,
               Summon(p, q) \/ AddMember(p, q) \/ NewGroup(p, q)
        PROVE  ManagersStay
    BY <1>1, <1>6 DEF Summon, AddMember, NewGroup
  <1>7. ASSUME NEW m \in Managers, NEW P, RemovePlayers(m, P) PROVE ManagersStay
    <2> DEFINE new == [mgr[m] EXCEPT
                          !.storage = @ \ P,
                          !.inactive = @ \/ (mgr[m].storage \subseteq P /\ ~mgr[m].forced)]
    <2>1. mgr' = [mgr EXCEPT ![m] = new]
      BY <1>0, <1>7 DEF RemovePlayers, TypeOK
    <2>2. /\ new.pool = mgr[m].pool /\ new.pc = mgr[m].pc
          /\ new.pInstance = mgr[m].pInstance /\ new.m_instanceID = mgr[m].m_instanceID
          /\ new.storage = mgr[m].storage \ P
      BY <1>0 DEF ManagerRecord
    <2> HIDE DEF new
    <2>3. Works(m) /\ new.storage # {} => new.pc \in {"loop", "teleport"}
      BY <2>2 DEF Works
    <2> QED BY <2>1, <2>2, <2>3, OneManagerStays
  <1>8. ASSUME NEW p \in Players, LeaveMap(p) \/ LogoutPlayer(p) PROVE ManagersStay
    <2>1. plr[p].m_mapMgr \in Managers
      BY <1>8 DEF IInv, PlayersPlaced, LeaveMap, LogoutPlayer
    <2> QED BY <1>7, <1>8, <2>1 DEF LeaveMap, LogoutPlayer
  <1>9. ASSUME NEW m \in Managers, Push(m) PROVE ManagersStay
    <2> DEFINE its == [mgr[m] EXCEPT !.storage = @ \cup mgr[m].pool, !.pool = {},
                                     !.inactive = @ /\ mgr[m].forced]
    <2>1. mgr' = [mgr EXCEPT ![m] = its] /\ mgr[m].pc = "loop"
      BY <1>0, <1>9 DEF Push, TypeOK
    <2>2. /\ its.pool = {} /\ its.pc = mgr[m].pc
          /\ its.pInstance = mgr[m].pInstance /\ its.m_instanceID = mgr[m].m_instanceID
          /\ its.storage = mgr[m].storage \cup mgr[m].pool
      BY <1>0 DEF ManagerRecord
    <2> HIDE DEF its
    <2> QED BY <2>1, <2>2, OneManagerStays
  <1>10. ASSUME NEW m \in Managers, BossDies(m) PROVE ManagersStay
    BY <1>1, <1>10 DEF BossDies
  <1>11. ASSUME NEW m \in Managers, EndLoop(m) \/ ReadInstance(m) PROVE ManagersStay
    <2>1. PICK l : /\ mgr' = [mgr EXCEPT ![m] = [mgr[m] EXCEPT !.pc = l]]
                   /\ (mgr[m].pc = "loop" /\ l = "teleport") \/ mgr[m].pc = "read"
      BY <1>0, <1>11 DEF EndLoop, ReadInstance, TypeOK
    <2> DEFINE its == [mgr[m] EXCEPT !.pc = l]
    <2>2. /\ its.pInstance = mgr[m].pInstance /\ its.m_instanceID = mgr[m].m_instanceID
          /\ its.storage = mgr[m].storage /\ its.pool = mgr[m].pool /\ its.pc = l
      BY <1>0 DEF ManagerRecord
    <2>3. Works(m) /\ its.storage # {} => its.pc \in {"loop", "teleport"}
      BY <2>1, <2>2 DEF Works
    <2>4. mgr' = [mgr EXCEPT ![m] = its]
      BY <2>1
    <2> HIDE DEF its
    <2> QED BY <2>1, <2>2, <2>3, <2>4, OneManagerStays
  <1>12. ASSUME NEW m \in Managers, TeleportPlayers(m) PROVE ManagersStay
    <2> DEFINE its == [mgr[m] EXCEPT !.storage = {}, !.pc = "read"]
    <2>1. mgr' = [mgr EXCEPT ![m] = its] /\ mgr[m].pc = "teleport"
      BY <1>0, <1>12 DEF TeleportPlayers, TypeOK
    <2>2. /\ its.pInstance = mgr[m].pInstance /\ its.m_instanceID = mgr[m].m_instanceID
          /\ its.storage = {} /\ its.pool = mgr[m].pool
      BY <1>0 DEF ManagerRecord
    <2> HIDE DEF its
    <2> QED BY <2>1, <2>2, OneManagerStays
  <1>13. ASSUME NEW m \in Managers, UnlinkInstance(m) PROVE ManagersStay
    <2>1. CASE mgr[m].pInstance = 0
      BY <1>1, <1>13, <2>1 DEF UnlinkInstance, Fault
    <2>2. CASE mgr[m].pInstance # 0
      <3>1. PICK l \in {"drop", "delete"} : mgr' = [mgr EXCEPT ![m] = [mgr[m] EXCEPT !.pc = l]]
        BY <1>0, <1>13, <2>2, UnlinkEffect
      <3>2. \A n \in Managers : Attached(n)' => mgr'[n] = mgr[n]
        BY <1>0, <3>1 DEF Attached, Linked, TypeOK, ManagerRecord
      <3>3. mgr[m].pc = "unlink" /\ \A n \in Managers : mgr'[n].storage = mgr[n].storage
        BY <1>0, <1>13, <3>1 DEF UnlinkInstance, TypeOK, ManagerRecord
      <3>4. \A n \in Managers : Works(n) => Works(n)'
        BY <1>0, <3>1, <3>3 DEF Works, TypeOK
      <3> QED BY <3>2, <3>4 DEF ManagersStay, Attached, Linked, Inside
    <2> QED BY <2>1, <2>2
  <1>14. ASSUME NEW m \in Managers, DropInstance(m) PROVE ManagersStay
    <2>1. CASE mgr[m].pInstance \notin m_instances
      BY <1>1, <1>14, <2>1 DEF DropInstance, Fault
    <2>2. CASE mgr[m].pInstance \in m_instances
      <3>1. /\ mgr'[m].pInstance = 0 /\ mgr'[m].storage = mgr[m].storage
            /\ \A n \in Managers \ {m} :
                  mgr'[n] = DeletedManagers({mgr[m].pInstance}, TRUE)[n]
        BY <1>0, <1>14, <2>2, DropEffect
      <3>2. \A n \in Managers : Attached(n)' => mgr'[n] = mgr[n]
        <4> SUFFICES ASSUME NEW n \in Managers, Attached(n)' PROVE mgr'[n] = mgr[n]
          OBVIOUS
        <4>1. n # m
          BY <3>1 DEF Attached
        <4> QED BY <3>1, <4>1, DeletedStay
      <3>3. \A n \in Managers : Works(n) => Works(n)'
        <4>1. mgr[m].pc = "drop"
          BY <1>14 DEF DropInstance
        <4>2. Works(m) => Works(m)'
          BY <3>1, <4>1 DEF Works
        <4> QED BY <3>1, <4>2, DeletedStay
      <3> QED BY <3>2, <3>3 DEF ManagersStay, Attached, Linked, Inside
    <2> QED BY <2>1, <2>2
  <1>15. ASSUME NEW m \in Managers, DeleteMap(m) PROVE ManagersStay
    <2>1. mgr' = mgr \/ mgr' = [mgr EXCEPT ![m] = NewManager]
      BY <1>15 DEF DeleteMap, Fault
    <2>2. \A n \in Managers : Attached(n)' => mgr'[n] = mgr[n]
      BY <1>0, <2>1 DEF Attached, Linked, TypeOK, NewManager
    <2>3. \A n \in Managers : Works(n) => Works(n)'
      BY <1>0, <2>1 DEF Works, TypeOK, NewManager
    <2> QED BY <2>2, <2>3 DEF ManagersStay, Attached, Linked, Inside
  <1>16. ASSUME NEW i \in Ids, Expire(i) PROVE ManagersStay
    BY <1>1, <1>16 DEF Expire
  <1>17. CASE UNCHANGED vars
    BY <1>1, <1>17 DEF vars
  <1> QED
    BY <1>2, <1>3, <1>4, <1>5, <1>6, <1>8, <1>9, <1>10, <1>11, <1>12, <1>13, <1>14,
       <1>15, <1>16, <1>17
       DEF Next, PlayerStep, ManagerStep

\* Instances that are deleted leave the others their owners.
LEMMA DeletionOwners ==
    ASSUME IInv, NEW D, NEW force, DeleteInstances(D, force)
    PROVE  OwnersStay
  <1>1. m_instances \subseteq Ids
    BY Registry DEF IInv
  <1> QED BY <1>1 DEF OwnersStay, DeleteInstances

\* Whoever is let in to a group's instance is of that group, or of none.
LEMMA DoorOwners ==
    ASSUME IInv, Separate, NEW p \in Players, NEW i \in m_instances,
           \/ CheckInstanceGroup(i, p) /\ LetIn(p, i)
           \/ Refuse(p),
           m_instances' = m_instances
    PROVE  OwnersStay
  <1>1. m_instances \subseteq Ids /\ \A j \in Ids : instance[j] \in InstanceRecord
    BY Registry DEF IInv, TypeOK
  <1>2. CASE Refuse(p)
    BY <1>2 DEF Refuse, OwnersStay
  <1>3. CASE CheckInstanceGroup(i, p) /\ LetIn(p, i)
    <2> DEFINE new == [instance[i] EXCEPT !.m_creatorGroup =
                          IF group[p] # 0 THEN group[p] ELSE @]
    <2>1. \A j \in Ids : instance'[j] = IF j = i THEN new ELSE instance[j]
      BY <1>1, <1>3 DEF LetIn, IInv, TypeOK
    <2>2. /\ new.m_creatorGuid = instance[i].m_creatorGuid
          /\ new.m_creatorGroup = IF group[p] # 0 THEN group[p]
                                  ELSE instance[i].m_creatorGroup
      BY <1>1 DEF InstanceRecord
    <2> HIDE DEF new
    <2> QED BY <1>1, <1>3, <2>1, <2>2
         DEF OwnersStay, CheckInstanceGroup, Separate, OwnersKnown
  <1> QED BY <1>2, <1>3

\* No step gives a group's instance to another group; only NewGroup takes one
\* from the player who has made it.
LEMMA OwnersStaySteps ==
    ASSUME IInv, Separate, [Next]_vars, \A p, q \in Players : ~NewGroup(p, q)
    PROVE  OwnersStay
  <1>0. /\ TypeOK /\ m_instances \subseteq Ids
        /\ \A j \in Ids : instance[j] \in InstanceRecord
    BY Registry DEF IInv, TypeOK
  <1>1. ASSUME m_instances' = m_instances,
               \A j \in Ids :
                   /\ instance'[j].m_creatorGuid = instance[j].m_creatorGuid
                   /\ ~IsPersistentKind
                         => instance'[j].m_creatorGroup = instance[j].m_creatorGroup
        PROVE  OwnersStay
    BY <1>0, <1>1 DEF OwnersStay
  <1>2. ASSUME UNCHANGED <<m_instances, instance>> PROVE OwnersStay
    BY <1>0, <1>2 DEF OwnersStay
  <1>3. ASSUME NEW p \in Players, Find(p) \/ NoInstance(p)
                   \/ ResetSavedInstances(p) \/ Disband(p)
        PROVE  OwnersStay
    BY <1>0, <1>3, DeletionOwners, DisbandEffect
       DEF Find, NoInstance, ResetSavedInstances
  <1>4. CASE CheckForExpiredInstances
    BY <1>4, DeletionOwners DEF CheckForExpiredInstances
  <1>5. ASSUME NEW p \in Players, Create(p) PROVE OwnersStay
    <2> DEFINE i == m_InstanceHigh + 1
    <2>1. /\ i \in Ids /\ i \notin m_instances
          /\ m_instances' = (m_instances \ Expired) \cup {i}
          /\ \A j \in Ids : instance'[j] = IF j = i THEN Made(p)
                                           ELSE IF j \in Expired THEN NewInstance
                                           ELSE instance[j]
      BY <1>0, <1>5, CreateEffect
    <2> HIDE DEF i
    <2>2. /\ Made(p).m_creatorGuid = IF group[p] = 0 THEN p ELSE None
          /\ Made(p).m_creatorGroup = group[p]
      BY DEF Made, NewInstance
    <2>3. p # None
      BY InstancesAssumption DEF InstancesAssumption
    <2> QED BY <1>0, <2>1, <2>2, <2>3 DEF OwnersStay
  <1>6. ASSUME NEW p \in Players, Check(p) PROVE OwnersStay
    <2>1. CASE plr[p].in \notin m_instances
      BY <1>2, <1>6, <2>1 DEF Check, Fault, registry
    <2>2. CASE plr[p].in \in m_instances
      <3>1. /\ \/ CheckInstanceGroup(plr[p].in, p) /\ LetIn(p, plr[p].in)
               \/ Refuse(p)
            /\ m_instances' = m_instances
        BY <1>6, <2>2 DEF Check
      <3> QED BY <2>2, <3>1, DoorOwners
    <2> QED BY <2>1, <2>2
  <1>7. ASSUME NEW p \in Players, NEW q \in Players, Summon(p, q) PROVE OwnersStay
    BY <1>7, DoorOwners DEF Summon
  <1>8. ASSUME NEW p \in Players, FullLogin(p) \/ RemovePlayer(p) PROVE OwnersStay
    BY <1>2, <1>8 DEF FullLogin, RemovePlayer, registry
  <1>9. ASSUME NEW p \in Players, GetInstance(p) PROVE OwnersStay
    <2>1. PICK i \in m_instances, X \in SUBSET (m_instances \cap Expired), m \in Managers :
              GotInstance(i, X, m)
      BY <1>0, <1>9, GetInstanceEffect
    <2> DEFINE new == [instance[i] EXCEPT !.m_mapMgr = m]
    <2>2. /\ new.m_creatorGuid = instance[i].m_creatorGuid
          /\ new.m_creatorGroup = instance[i].m_creatorGroup
      BY <1>0 DEF InstanceRecord
    <2>3. /\ m_instances' = m_instances \ X
          /\ \A j \in Ids : instance'[j] = IF j = i THEN new
                                           ELSE IF j \in X THEN NewInstance
                                           ELSE instance[j]
      BY <2>1 DEF GotInstance
    <2> HIDE DEF new
    <2> QED BY <1>0, <2>2, <2>3 DEF OwnersStay
  <1>10. ASSUME NEW p \in Players, AddToWorld(p) PROVE OwnersStay
    <2>1. CASE instance' = instance
      BY <1>2, <1>10, <2>1 DEF AddToWorld, Fault, registry
    <2>2. CASE instance' # instance
      <3> DEFINE i == mgr[plr[p].m_mapMgr].pInstance
                 new(j) == [instance[j] EXCEPT !.m_creatorGroup = group[p]]
      <3>1. /\ m_instances' = m_instances
            /\ \A j \in Ids : instance'[j] = IF j = i /\ instance[j].m_creatorGroup = 0
                                             THEN new(j) ELSE instance[j]
        BY <1>10, <2>2 DEF AddToWorld, Fault, registry
      <3>2. \A j \in Ids : new(j).m_creatorGuid = instance[j].m_creatorGuid
        BY <1>0 DEF InstanceRecord
      <3> HIDE DEF new
      <3> QED BY <1>0, <3>1, <3>2 DEF OwnersStay, Separate, OwnersKnown
    <2> QED BY <2>1, <2>2
  <1>11. ASSUME NEW m \in Managers, NEW P, RemovePlayers(m, P), m_instances' = m_instances
         PROVE  OwnersStay
    <2>1. \A j \in Ids : ~IsPersistentKind => ~instance[j].m_persistent
      BY DEF IInv, Agree, KindsKept
    <2> QED BY <1>0, <1>1, <1>11, <2>1 DEF RemovePlayers, InstanceRecord
  <1>12. ASSUME NEW p \in Players, LeaveMap(p) \/ LogoutPlayer(p) PROVE OwnersStay
    <2>1. plr[p].m_mapMgr \in Managers
      BY <1>12 DEF IInv, PlayersPlaced, LeaveMap, LogoutPlayer
    <2> QED BY <1>11, <1>12, <2>1 DEF LeaveMap, LogoutPlayer
  <1>13. ASSUME NEW p \in Players, NEW q \in Players, AddMember(p, q) PROVE OwnersStay
    BY <1>2, <1>13 DEF AddMember, registry
  <1>14. ASSUME NEW m \in Managers, Push(m) \/ EndLoop(m) \/ ReadInstance(m) \/ DeleteMap(m)
         PROVE  OwnersStay
    BY <1>2, <1>14 DEF Push, EndLoop, ReadInstance, DeleteMap, Fault, registry
  <1>15. ASSUME NEW m \in Managers, BossDies(m) PROVE OwnersStay
    BY <1>15 DEF OwnersStay, BossDies, IsPersistentKind
  <1>16. ASSUME NEW m \in Managers, TeleportPlayers(m) PROVE OwnersStay
    <2>1. \A j \in Ids : ~IsPersistentKind => ~instance[j].m_persistent
      BY DEF IInv, Agree, KindsKept
    <2> QED BY <1>0, <1>1, <1>16, <2>1 DEF TeleportPlayers, InstanceRecord
  <1>17. ASSUME NEW m \in Managers, UnlinkInstance(m) PROVE OwnersStay
    <2>1. CASE mgr[m].pInstance = 0
      BY <1>2, <1>17, <2>1 DEF UnlinkInstance, Fault, registry
    <2>2. CASE mgr[m].pInstance # 0
      <3>1. m_instances' = m_instances
            /\ instance' = [instance EXCEPT ![mgr[m].pInstance].m_mapMgr = None]
        BY <1>17, <2>2 DEF UnlinkInstance
      <3> QED BY <1>0, <1>1, <3>1 DEF TypeOK, InstanceRecord
    <2> QED BY <2>1, <2>2
  <1>18. ASSUME NEW m \in Managers, DropInstance(m) PROVE OwnersStay
    <2>1. CASE mgr[m].pInstance \notin m_instances
      BY <1>2, <1>18, <2>1 DEF DropInstance, Fault, registry
    <2>2. CASE mgr[m].pInstance \in m_instances
      <3>1. /\ m_instances' = m_instances \ {mgr[m].pInstance}
            /\ \A j \in Ids : j # mgr[m].pInstance => instance'[j] = instance[j]
        BY <1>0, <1>18, <2>2, DropEffect
      <3> QED BY <1>0, <3>1 DEF OwnersStay
    <2> QED BY <2>1, <2>2
  <1>19. ASSUME NEW i \in Ids, Expire(i) PROVE OwnersStay
    <2>1. m_instances' = m_instances
          /\ instance' = [instance EXCEPT ![i].expired = TRUE]
      BY <1>19 DEF Expire
    <2> QED BY <1>0, <1>1, <2>1 DEF TypeOK, InstanceRecord
  <1>20. CASE UNCHANGED vars
    BY <1>2, <1>20 DEF vars, registry
  <1> QED
    BY <1>3, <1>4, <1>5, <1>6, <1>7, <1>8, <1>9, <1>10, <1>12, <1>13, <1>14, <1>15,
       <1>16, <1>17, <1>18, <1>19, <1>20
       DEF Next, PlayerStep, ManagerStep

\* Whoever loses his group inside, or comes to another, has been told to go.
LEMMA GroupsStaySteps ==
    ASSUME IInv, Separate, [Next]_vars
    PROVE  GroupsStay
  <1>0. /\ TypeOK /\ m_instances \subseteq Ids
        /\ \A p \in Players : plr[p] \in PlayerRecord
    BY Registry, PlayerType DEF IInv
  <1>1. ASSUME group' = group PROVE GroupsStay
    BY <1>1 DEF GroupsStay
  <1> DEFINE Owned(m, p) ==
                 /\ Attached(m) /\ Attached(m)'
                 /\ p \in Inside(m) \cap Inside(m)'
                 /\ instance[mgr[m].pInstance].m_creatorGuid = None
  <1>2. ASSUME ~IsPersistentKind, NEW m \in Managers, NEW p, Owned(m, p)
        PROVE  LET i == mgr[m].pInstance IN
               /\ p \in Players /\ plr[p].at \in {"queued", "in"}
               /\ plr[p].m_instanceId = i
               /\ i \in m_instances /\ instance[i].m_mapMgr = m
               /\ instance[i].m_creatorGroup # 0
               /\ plr[p].told \/ group[p] = instance[i].m_creatorGroup
    BY <1>2, InsideAt, AttachedIsRegistered
       DEF Separate, IdsKnown, OwnersKnown, OwnersInside
  <1>3. PlayersStay /\ \A m \in Managers : \A p \in Inside(m)' :
                          p \in Players /\ plr'[p].at \in {"queued", "in"}
    <2>1. PlayersStay
      BY PlayersStaySteps
    <2>2. IInv'
      BY Stepwise
    <2>3. \A m \in Managers : mgr'[m] \in ManagerRecord
      BY <2>2 DEF IInv, TypeOK
    <2> QED BY <2>1, <2>2, <2>3 DEF IInv, PlayersPlaced, Inside, ManagerRecord
  <1>4. ASSUME ~IsPersistentKind, NEW m \in Managers, NEW p, Owned(m, p), plr[p].told
        PROVE  plr'[p].told
    <2>1. p \in Players /\ plr[p].at \in {"queued", "in"} /\ plr'[p].at \in {"queued", "in"}
      BY <1>2, <1>3, <1>4
    <2> QED BY <1>3, <1>4, <2>1 DEF PlayersStay
  <1>5. ASSUME NEW p \in Players, NEW q \in Players, AddMember(p, q) \/ NewGroup(p, q)
        PROVE  GroupsStay
    <2> SUFFICES ASSUME ~IsPersistentKind, NEW m \in Managers, NEW r, Owned(m, r)
                 PROVE  group'[r] = group[r] \/ plr'[r].told
      BY DEF GroupsStay
    <2>1. r \in Players
      BY <1>2
    <2>2. CASE group[r] # 0
      <3>1. group \in [Players -> {0} \cup Groups]
        BY <1>0 DEF TypeOK
      <3> HIDE DEF Owned
      <3> QED BY <1>5, <2>1, <2>2, <3>1 DEF AddMember, NewGroup
    <2>3. CASE group[r] = 0
      BY <1>2, <1>4, <2>3
    <2> QED BY <2>2, <2>3
  <1>6. ASSUME NEW p \in Players, RemovePlayer(p) PROVE GroupsStay
    <2> SUFFICES ASSUME ~IsPersistentKind, NEW m \in Managers, NEW r, Owned(m, r)
                 PROVE  group'[r] = group[r] \/ plr'[r].told
      BY DEF GroupsStay
    <2>1. CASE r # p
      BY <1>0, <1>6, <2>1 DEF RemovePlayer, TypeOK
    <2>2. CASE plr[r].told
      BY <1>4, <2>2
    <2>3. CASE r = p /\ ~plr[r].told
      <3>1. ToldToLeave(p)
        BY <1>2, <2>3 DEF ToldToLeave
      <3>2. plr' = [plr EXCEPT ![p] = [plr[p] EXCEPT !.told = TRUE]]
        BY <1>0, <1>6, <3>1 DEF RemovePlayer, TypeOK
      <3> QED BY <1>0, <2>3, <3>2 DEF TypeOK, PlayerRecord
    <2> QED BY <2>1, <2>2, <2>3
  <1>7. ASSUME NEW p \in Players, Disband(p) PROVE GroupsStay
    <2> SUFFICES ASSUME ~IsPersistentKind, NEW m \in Managers, NEW r, Owned(m, r),
                        ~plr[r].told, group'[r] # group[r]
                 PROVE  FALSE
      BY <1>4 DEF GroupsStay
    <2> DEFINE i == mgr[m].pInstance
    <2>1. /\ r \in Players /\ i \in m_instances /\ instance[i].m_mapMgr = m
          /\ group[r] = instance[i].m_creatorGroup
      BY <1>2
    <2>2. group[r] = group[p]
      BY <1>7, <2>1 DEF Disband
    <2>3. IsResetable(i)
      <3>1. ~instance[i].m_persistent
        BY <1>0, <2>1 DEF IInv, Agree, KindsKept
      <3>2. kind \in {"nonraid", "normal"}
        BY <1>0, InstancesAssumption DEF InstancesAssumption, TypeOK, IsPersistentKind
      <3> QED BY <3>1, <3>2 DEF IsResetable
    <2>4. i \in DisbandDeletes(p)
      BY <2>1, <2>2, <2>3, InstancesAssumption DEF InstancesAssumption, DisbandDeletes
    <2>5. DeleteInstances(DisbandDeletes(p), FALSE)
      BY <1>0, <1>7, DisbandEffect
    <2>6. mgr'[m].pInstance = 0
      <3>1. mgr' = DeletedManagers(DisbandDeletes(p), FALSE)
        BY <2>5 DEF DeleteInstances
      <3>2. \E j \in DisbandDeletes(p) : instance[j].m_mapMgr = m
        BY <2>1, <2>4
      <3> QED BY ZenonT(40), <1>0, <3>1, <3>2, ManagerOfDeleted
    <2> QED BY <2>6 DEF Attached
  <1>8. ASSUME NEW p \in Players,
               \/ Find(p) \/ Create(p) \/ Check(p) \/ FullLogin(p)
               \/ GetInstance(p) \/ NoInstance(p) \/ AddToWorld(p)
               \/ LeaveMap(p) \/ LogoutPlayer(p) \/ ResetSavedInstances(p)
               \/ \E q \in Players : Summon(p, q)
        PROVE  group' = group
    BY <1>8 DEF Find, Create, Check, FullLogin, GetInstance, NoInstance, AddToWorld,
                LeaveMap, LogoutPlayer, ResetSavedInstances, Summon, Fault, grouping
  <1>9. ASSUME NEW m \in Managers, ManagerStep(m) PROVE group' = group
    BY <1>9 DEF ManagerStep, Push, BossDies, EndLoop, TeleportPlayers, ReadInstance,
                UnlinkInstance, DropInstance, DeleteMap, Fault, grouping
  <1>10. ASSUME NEW i \in Ids, Expire(i) PROVE group' = group
    BY <1>10 DEF Expire, grouping
  <1>11. CASE CheckForExpiredInstances \/ UNCHANGED vars
    BY <1>1, <1>11 DEF CheckForExpiredInstances, vars, grouping
  <1> QED
    BY <1>1, <1>5, <1>6, <1>7, <1>8, <1>9, <1>10, <1>11 DEF Next, PlayerStep

\* A player comes in to the manager of an instance: alone if it is his, or as
\* one of its group.
LEMMA AddToWorldSeparate ==
    ASSUME IInv, Separate, IInv', NEW p \in Players, AddToWorld(p)
    PROVE  Separate'
  <1> DEFINE m == plr[p].m_mapMgr
             i == mgr[m].pInstance
  <1>0. /\ TypeOK /\ plr[p] \in PlayerRecord /\ m \in Managers
        /\ mgr[m] \in ManagerRecord /\ [Next]_vars /\ kind' = kind
        /\ mgr \in [Managers -> ManagerRecord] /\ plr \in [Players -> PlayerRecord]
    BY PlayerType, ManagerType DEF IInv, PlayersPlaced, AddToWorld, Next, PlayerStep,
                                  Fault, TypeOK
  <1>1. PlayersStay /\ GroupsStay /\ OwnersStay
    <2>1. \A q, r \in Players : ~NewGroup(q, r)
      <3> SUFFICES ASSUME NEW q \in Players, NEW r \in Players, NewGroup(q, r) PROVE FALSE
        OBVIOUS
      <3>1. group'[q] # group[q]
        BY <1>0 DEF NewGroup, TypeOK
      <3>2. group' = group
        BY DEF AddToWorld, Fault, grouping
      <3> QED BY <3>1, <3>2
    <2> QED BY <1>0, <2>1, PlayersStaySteps, GroupsStaySteps, OwnersStaySteps
  <1>2. CASE mgr' = mgr
    <2>1. ManagersStay
      BY <1>2 DEF ManagersStay, Attached, Linked, Inside, Works
    <2> QED BY <1>0, <1>1, <2>1, SeparateKept
  <1>3. CASE mgr' # mgr
    <2> DEFINE new == [plr[p] EXCEPT !.at = "queued", !.m_instanceId = mgr[m].m_instanceID]
               its == [mgr[m] EXCEPT !.pool = @ \cup {p}]
    <2>1. /\ mgr[m].pc # "none" /\ (i # 0 => MayEnter(p, i))
          /\ mgr' = [mgr EXCEPT ![m] = its]
          /\ plr' = [plr EXCEPT ![p] = new]
          /\ group' = group
      BY <1>0, <1>3 DEF AddToWorld, Fault, grouping
    <2>2. /\ its.pc = mgr[m].pc /\ its.pInstance = i
          /\ its.m_instanceID = mgr[m].m_instanceID
          /\ its.storage = mgr[m].storage /\ its.pool = mgr[m].pool \cup {p}
          /\ new.m_instanceId = mgr[m].m_instanceID /\ new.told = plr[p].told
      BY <1>0 DEF ManagerRecord, PlayerRecord
    <2> HIDE DEF new, its, m, i
    <2>3. \A n \in Managers : mgr'[n] = IF n = m THEN its ELSE mgr[n]
      BY <1>0, <2>1
    <2>4. \A q \in Players : plr'[q] = IF q = p THEN new ELSE plr[q]
      BY <1>0, <2>1
    <2>5. i = mgr[m].pInstance
      BY DEF i
    <2>6. \A n \in Managers :
             /\ Attached(n)' <=> Attached(n)
             /\ mgr'[n].pInstance = mgr[n].pInstance
             /\ mgr'[n].m_instanceID = mgr[n].m_instanceID
             /\ Inside(n)' = IF n = m THEN Inside(n) \cup {p} ELSE Inside(n)
      BY <2>2, <2>3, <2>5 DEF Attached, Linked, Inside
    <2>7. \A n \in Managers : \A q \in Inside(n) :
             /\ q \in Players /\ plr'[q].m_instanceId = plr[q].m_instanceId
             /\ plr'[q].told = plr[q].told
      <3>1. plr[p].at = "adding"
        BY DEF AddToWorld
      <3>2. \A n \in Managers : \A q \in Inside(n) : q \in Players /\ q # p
        BY <3>1, InsideAt
      <3> QED BY <3>2, <2>4
    <2>8. \A n \in Managers : Attached(n) => mgr[n].pInstance \in m_instances
      BY AttachedIsRegistered
    <2>9. m_instances' = m_instances
      BY DEF AddToWorld, Fault, registry
    <2>10. IdsKnown'
      BY <2>2, <2>4, <2>6, <2>7 DEF Separate, IdsKnown
    <2>11. OwnersKnown'
      BY <1>0, <1>1, <2>9 DEF Separate, OwnersKnown, OwnersStay, IsPersistentKind
    <2>12. OwnersInside'
      <3> SUFFICES ASSUME ~IsPersistentKind, NEW n \in Managers, Attached(n)',
                          NEW q \in Inside(n)'
                   PROVE  LET j == mgr'[n].pInstance IN
                          /\ instance'[j].m_creatorGuid # None => q = instance'[j].m_creatorGuid
                          /\ instance'[j].m_creatorGuid = None
                                => plr'[q].told \/ group'[q] = instance'[j].m_creatorGroup
        BY <1>0 DEF OwnersInside, IsPersistentKind
      <3> DEFINE j == mgr[n].pInstance
      <3>1. /\ Attached(n) /\ mgr'[n].pInstance = j /\ j \in m_instances
            /\ instance'[j].m_creatorGuid = instance[j].m_creatorGuid
            /\ instance[j].m_creatorGuid = None
                  => /\ instance'[j].m_creatorGroup = instance[j].m_creatorGroup
                     /\ instance[j].m_creatorGroup # 0
        BY <1>1, <2>6, <2>8, <2>9 DEF OwnersStay, Separate, OwnersKnown
      <3>2. CASE q \in Inside(n)
        BY <2>1, <2>7, <3>1, <3>2 DEF Separate, OwnersInside
      <3>3. CASE q \notin Inside(n)
        <4>1. n = m /\ q = p /\ j = i
          BY <2>5, <2>6, <3>3
        <4>2. MayEnter(p, j)
          BY <2>1, <3>1, <4>1 DEF Attached
        <4> QED BY <2>1, <3>1, <4>1, <4>2 DEF MayEnter, CheckInstanceGroup
      <3> QED BY <3>1, <3>2, <3>3
    <2>13. \A n \in Managers : Works(n)'
      BY <2>2, <2>3 DEF Separate, Works
    <2> QED BY <2>10, <2>11, <2>12, <2>13 DEF Separate
  <1> QED BY <1>2, <1>3

\* The instance that a player has made, and is in alone, becomes his group's.
LEMMA NewGroupSeparate ==
    ASSUME IInv, Separate, IInv', NEW p \in Players, NEW q \in Players, NewGroup(p, q)
    PROVE  Separate'
  <1> DEFINE g == m_GroupHigh + 1
             i == plr[p].m_instanceId
             new == [instance[i] EXCEPT !.m_creatorGroup = g, !.m_creatorGuid = None]
  <1>0. /\ TypeOK /\ m_instances \subseteq Ids /\ [Next]_vars
        /\ \A j \in Ids : instance[j] \in InstanceRecord
        /\ m_GroupHigh \in Nat
    BY Registry DEF IInv, TypeOK, Next, PlayerStep
  <1>1. /\ kind' = kind /\ mgr' = mgr /\ plr' = plr /\ m_instances' = m_instances
        /\ \A m \in Managers : (Attached(m)' <=> Attached(m)) /\ Inside(m)' = Inside(m)
    BY DEF NewGroup, Attached, Linked, Inside
  <1>2. IdsKnown'
    BY <1>1 DEF Separate, IdsKnown
  <1>3. GroupsStay
    BY <1>0, GroupsStaySteps
  <1>4. \A m \in Managers : Attached(m) => mgr[m].pInstance \in m_instances
    BY AttachedIsRegistered
  <1>5. CASE instance' = instance
    <2>1. OwnersStay
      BY <1>0, <1>1, <1>5 DEF OwnersStay
    <2>2. ManagersStay /\ PlayersStay
      BY <1>1 DEF ManagersStay, PlayersStay, Works
    <2> QED BY <1>1, <1>3, <2>1, <2>2, SeparateKept
  <1>6. CASE instance' # instance
    <2>1. /\ i \in m_instances /\ instance[i].m_creatorGuid = p
          /\ \A j \in Ids : instance'[j] = IF j = i THEN new ELSE instance[j]
          /\ group'[p] = g
      BY <1>0, <1>6 DEF NewGroup, TypeOK
    <2>2. new.m_creatorGuid = None /\ new.m_creatorGroup = g /\ g # 0
      BY <1>0, <2>1 DEF InstanceRecord
    <2>3. p # None
      BY InstancesAssumption DEF InstancesAssumption
    <2> HIDE DEF i, g, new
    <2>4. OwnersKnown'
      BY <1>0, <1>1, <2>1, <2>2 DEF Separate, OwnersKnown, IsPersistentKind
    <2>5. OwnersInside'
      <3> SUFFICES ASSUME ~IsPersistentKind, NEW m \in Managers, Attached(m),
                          NEW r \in Inside(m)
                   PROVE  LET j == mgr[m].pInstance IN
                          /\ instance'[j].m_creatorGuid # None => r = instance'[j].m_creatorGuid
                          /\ instance'[j].m_creatorGuid = None
                                => plr[r].told \/ group'[r] = instance'[j].m_creatorGroup
        BY <1>1 DEF OwnersInside, IsPersistentKind
      <3> DEFINE j == mgr[m].pInstance
      <3>1. j \in m_instances
        BY <1>4
      <3>2. CASE j = i
        BY <1>0, <2>1, <2>2, <2>3, <3>1, <3>2 DEF Separate, OwnersInside
      <3>3. CASE j # i
        <4>1. instance'[j] = instance[j]
          BY <1>0, <2>1, <3>1, <3>3
        <4>2. instance[j].m_creatorGuid = None => group'[r] = group[r] \/ plr[r].told
          BY <1>1, <1>3 DEF GroupsStay
        <4> QED BY <4>1, <4>2 DEF Separate, OwnersInside
      <3> QED BY <3>2, <3>3
    <2>6. \A m \in Managers : Works(m)'
      BY <1>1 DEF Separate, Works
    <2> QED BY <1>2, <2>4, <2>5, <2>6 DEF Separate
  <1> QED BY <1>5, <1>6

\* No step mixes groups in a dungeon.
LEMMA SeparateSteps == IInv /\ Separate /\ [Next]_vars => Separate'
  <1> SUFFICES ASSUME IInv, Separate, [Next]_vars PROVE Separate'
    OBVIOUS
  <1>1. IInv'
    BY Stepwise
  <1>2. CASE \E p \in Players : AddToWorld(p)
    BY <1>1, <1>2, AddToWorldSeparate
  <1>3. CASE \E p, q \in Players : NewGroup(p, q)
    BY <1>1, <1>3, NewGroupSeparate
  <1>4. CASE /\ \A p \in Players : ~AddToWorld(p)
             /\ \A p, q \in Players : ~NewGroup(p, q)
    <2>1. ManagersStay /\ PlayersStay /\ OwnersStay /\ GroupsStay
      BY <1>4, ManagersStaySteps, PlayersStaySteps, OwnersStaySteps, GroupsStaySteps
    <2>2. kind' = kind
      <3>1. ASSUME NEW p \in Players, PlayerStep(p) PROVE kind' = kind
        BY <3>1 DEF PlayerStep, Find, Create, Check, FullLogin, GetInstance, NoInstance,
                    AddToWorld, LeaveMap, LogoutPlayer, ResetSavedInstances,
                    RemovePlayer, Disband, Summon, AddMember, NewGroup, Fault
      <3>2. ASSUME NEW m \in Managers, ManagerStep(m) PROVE kind' = kind
        BY <3>2 DEF ManagerStep, Push, BossDies, EndLoop, TeleportPlayers, ReadInstance,
                    UnlinkInstance, DropInstance, DeleteMap, Fault
      <3>3. ASSUME NEW i \in Ids, Expire(i) PROVE kind' = kind
        BY <3>3 DEF Expire
      <3>4. CASE CheckForExpiredInstances \/ UNCHANGED vars
        BY <3>4 DEF CheckForExpiredInstances, vars
      <3> QED BY <3>1, <3>2, <3>3, <3>4 DEF Next
    <2> QED BY <1>1, <2>1, <2>2, SeparateKept
  <1> QED BY <1>2, <1>3, <1>4

\* In a dungeon no order of entering, leaving and changing groups brings
\* players of different groups together, for any number of players, groups
\* and instances: AddToWorld's check of the group holds as long as somebody
\* is inside, because the group of an instance in use never changes.
THEOREM DungeonPrivacy == Spec => []GroupsApart
  <1>1. Init => IInv /\ Separate
    <2> SUFFICES ASSUME Init PROVE IInv /\ Separate
      OBVIOUS
    <2>1. m_instances = {} /\ \A m \in Managers : ~Attached(m) /\ Works(m)
      BY DEF Init, Attached, Linked, Works, NewManager
    <2> QED BY <2>1, Initially DEF Separate, IdsKnown, OwnersKnown, OwnersInside
  <1>2. (IInv /\ Separate) /\ [Next]_vars => (IInv /\ Separate)'
    BY Stepwise, SeparateSteps
  <1>3. IInv /\ Separate => GroupsApart
    <2> SUFFICES ASSUME IInv, Separate, ~IsPersistentKind, NEW m \in Managers,
                        NEW p \in mgr[m].storage, NEW q \in mgr[m].storage,
                        mgr[m].pInstance # 0, p # q, ~plr[p].told, ~plr[q].told
                 PROVE  group[p] = group[q] /\ group[p] # 0
      BY DEF GroupsApart
    <2>1. Attached(m) /\ p \in Inside(m) /\ q \in Inside(m)
      BY DEF Separate, Works, Linked, Attached, Inside
    <2>2. mgr[m].pInstance \in m_instances
      BY <2>1, AttachedIsRegistered
    <2> QED BY <2>1, <2>2 DEF Separate, OwnersInside, OwnersKnown
  <1> QED BY <1>1, <1>2, <1>3, PTL DEF Spec

=============================================================================
