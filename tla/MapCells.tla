------------------------------- MODULE MapCells -------------------------------
(***************************************************************************)
(* The cells of one map: who is in range of whom, which cells are active,  *)
(* loaded and waiting to be unloaded (world/MapMgr, world/MapCell and the  *)
(* in-range sets of world/Object).                                         *)
(*                                                                         *)
(* The map's thread alone does all of this, so a handler is one action;    *)
(* what is hard is the long sequence of them.  The grid is cut down to one *)
(* row: the code treats the two axes alike.  A position is an x on that    *)
(* row, CellWidth of them to a cell.                                       *)
(*                                                                         *)
(* An operation of MapMgr or MapCell is an operator from one state of the  *)
(* map to the next; they are composed as the code calls them.              *)
(***************************************************************************)
EXTENDS Integers, FiniteSets

CONSTANTS
    Players,
    Corpses,
    Spawns,         \* the rows of creature_spawns for this map
    Copies,         \* creatures of one spawn that fit in memory (bound)
    Respawns,       \* respawn events that are queued at once (bound)
    SpawnAt(_),     \* where a spawn stands
    Path(_),        \* the positions its creatures walk
    Forcible,       \* cells a script of the map forces to be active
    Width,          \* number of cells
    CellWidth,
    UpdateDistance, \* m_UpdateDistance
    Mortal,         \* spawns of which a creature may be removed for good
    Nowhere         \* not in world

CellOf(x) == x \div CellWidth

\* Spawns whose creatures stay in their cell.
Homebodies ==
    {s \in Spawns : \A x \in Path(s) : CellOf(x) = CellOf(SpawnAt(s))}

Cells == 0 .. Width - 1
Positions == 0 .. Width * CellWidth - 1

\* A creature is known by its spawn and the memory it is in, which is used
\* again for the next creature of that spawn once it is deleted: a stale
\* event can find the wrong one.
Creatures == Spawns \X (1 .. Copies)
Objects == Players \cup Corpses \cup Creatures

\* A GUID tells an object's type; the grid of spawns has no place for one
\* that stands outside the map.
ASSUME CellsAssumption ==
    /\ Width \in Nat \ {0} /\ CellWidth \in Nat \ {0}
    /\ UpdateDistance \in Nat \ {0}
    /\ Copies \in Nat \ {0}
    /\ \A s \in Spawns : SpawnAt(s) \in Positions \cap Path(s)
    /\ Mortal \subseteq Spawns
    /\ Nowhere \notin Nat
    /\ Players \cap Corpses = {}
    /\ Creatures \cap (Players \cup Corpses) = {}

VARIABLE map

-----------------------------------------------------------------------------
Distance(x, y) == IF x < y THEN y - x ELSE x - y
Around(c, radius) ==
    Cells \cap (c - radius .. c + radius)

InWorld(m) == {o \in Objects : m.pos[o] # Nowhere}
CellAt(m, o) == CellOf(m.pos[o])
ObjectsIn(m, C) == {o \in InWorld(m) : CellAt(m, o) \in C}
Waiting(m) == UNION {m.respawning[c] : c \in Cells}

UnloadEvents(C) == {<<"unload", c>> : c \in C}

\* A cell is to be active while a player or a forced cell is next to it.
CellActive(m, c) ==
    \E d \in Around(c, 1) :
        \/ Players \cap ObjectsIn(m, {d}) # {}
        \/ d \in m.forced

CanUnload(m, c) == m.linked \cap ObjectsIn(m, {c}) = {}

-----------------------------------------------------------------------------
(* In-range sets *)

\* The objects of the nine cells around each object of O that are near
\* enough come into range of it, and it of them.
UpdateInRangeSet(m, O) ==
    LET inWorld == InWorld(m)
        Meets(a, b) ==
            /\ a # b
            /\ CellAt(m, b) \in Around(CellAt(m, a), 1)
            /\ Distance(m.pos[a], m.pos[b]) <= UpdateDistance
        New(o) == {b \in IF o \in O THEN inWorld ELSE O : Meets(o, b)}
    IN [m EXCEPT !.inRange =
          [o \in Objects |-> IF o \in inWorld THEN @[o] \cup New(o) ELSE @[o]]]

\* What the mover leaves behind goes out of range on both sides.
DropOutOfRange(m, o) ==
    LET far == {b \in m.inRange[o] :
                  Distance(m.pos[o], m.pos[b]) > UpdateDistance}
    IN [m EXCEPT !.inRange =
          [b \in Objects |-> IF b = o THEN @[o] \ far
                             ELSE IF b \in far THEN @[b] \ {o}
                             ELSE @[b]]]

\* Fault: the others keep the removed objects.
ClearOwnInRangeSets(m, O) ==
    [m EXCEPT !.inRange = [o \in Objects |-> IF o \in O THEN {} ELSE @[o]]]

\* RemoveSelfFromInrangeSets and ClearInRangeSet, for every object of O.
LeaveInRangeSets(m, O) ==
    [m EXCEPT !.inRange =
       [o \in Objects |->
          IF o \in O THEN {}
          ELSE @[o] \ {b \in O : o \in m.inRange[b]}]]

-----------------------------------------------------------------------------
(* Cells going active and idle *)

\* SetActivity(true): every creature in the cell is activated.
Activate(m, C) ==
    [m EXCEPT !.allocated = @ \cup C,
              !.active    = @ \cup C,
              !.awake     = @ \cup (ObjectsIn(m, C) \cap Creatures),
              !.pending   = @ \ C,
              !.events    = @ \ UnloadEvents(C)]

\* SetActivity(false): the cell is queued to be unloaded unless a corpse
\* somebody may come back to lies in it.
GoIdle(m, C) ==
    LET unload == {c \in C : CanUnload(m, c)}
    IN [m EXCEPT !.active  = @ \ C,
                 !.awake   = @ \ ObjectsIn(m, C),
                 !.pending = @ \cup unload,
                 !.events  = @ \cup UnloadEvents(unload \ m.pending)]

\* The creature a spawn is loaded into.
FreeCopy(m, s) ==
    CHOOSE i \in 1 .. Copies :
        /\ <<s, i>> \notin InWorld(m) \cup Waiting(m)
        /\ \A j \in 1 .. i - 1 : <<s, j>> \in InWorld(m) \cup Waiting(m)

\* Creatures are pushed to the map where their spawn is.
PushCreatures(m, C) ==
    LET home(b) == SpawnAt(b[1])
        pushed == [m EXCEPT !.pos = [o \in Objects |->
                                       IF o \in C THEN home(o) ELSE @[o]],
                            !.allocated = @ \cup {CellOf(home(o)) : o \in C}]
    IN [UpdateInRangeSet(pushed, C) EXCEPT
          !.awake = @ \cup {o \in C : CellOf(home(o)) \in m.active}]

\* A cell's spawns are loaded once, but for those that are barred; a cell
\* that has none is never loaded.
LoadObjects(m, C) ==
    LET spawns == {s \in Spawns : CellOf(SpawnAt(s)) \in C \ m.loaded}
        back == spawns \ m.barred
    IN [PushCreatures(m, {<<s, FreeCopy(m, s)>> : s \in back})
          EXCEPT !.loaded = @ \cup {CellOf(SpawnAt(s)) : s \in spawns},
                 !.gone   = @ \cup (spawns \cap m.barred)]

UpdateCellActivity(m, center, radius) ==
    LET window == Around(center, radius)
        on  == {c \in window : CellActive(m, c) /\ c \notin m.active}
        off == {c \in window : ~CellActive(m, c) /\ c \in m.active}
        seen == [m EXCEPT !.left = @ \ window]
    IN LoadObjects(Activate(GoIdle(seen, off), on), on)

-----------------------------------------------------------------------------
(* Objects coming, going and moving *)

PushPlayer(m, p, x) ==
    UpdateCellActivity(
        UpdateInRangeSet([m EXCEPT !.pos[p] = x,
                                   !.allocated = @ \cup {CellOf(x)}],
                         {p}),
        CellOf(x), 2)

\* AddObject: a corpse stops the unloading of its cell.
PushCorpse(m, k, x) ==
    LET c == CellOf(x)
    IN UpdateInRangeSet([m EXCEPT !.pos[k] = x,
                                  !.allocated = @ \cup {c},
                                  !.linked  = @ \cup {k},
                                  !.pending = @ \ {c},
                                  !.events  = @ \ UnloadEvents({c})],
                        {k})

RemoveObjects(m, O) ==
    LET out == LeaveInRangeSets(m, O)
    IN [out EXCEPT !.pos    = [o \in Objects |->
                                 IF o \in O THEN Nowhere ELSE @[o]],
                   !.awake  = @ \ O,
                   !.linked = @ \ O]

RemovePlayer(m, p) ==
    UpdateCellActivity(RemoveObjects(m, {p}), CellAt(m, p), 2)

\* Fault: the old cell's surroundings are never looked at again.
ChangeToNewCellOnly(m, p, x) ==
    LET new == CellOf(x)
        moved == DropOutOfRange([m EXCEPT !.pos[p] = x,
                                          !.allocated = @ \cup {new}], p)
    IN UpdateInRangeSet(UpdateCellActivity(moved, new, 2), {p})

\* The old cell is looked at again only if it is more than two cells away.
\* At two, what the player left on its far side is not looked at.
ChangePlayerLocation(m, p, x) ==
    LET old == CellAt(m, p)
        new == CellOf(x)
        moved == DropOutOfRange([m EXCEPT !.pos[p] = x,
                                          !.allocated = @ \cup {new}], p)
        here == IF new = old THEN moved ELSE UpdateCellActivity(moved, new, 2)
        both == IF Distance(new, old) > 2
                THEN UpdateCellActivity(here, old, 2) ELSE here
        behind == {c \in both.active \cap (Around(old, 1) \ Around(new, 2)) :
                     Distance(new, old) = 2 /\ ~CellActive(both, c)}
    IN UpdateInRangeSet([both EXCEPT !.left = @ \cup behind], {p})

\* A creature that walks into a cell that is not active stops there.
ChangeCreatureLocation(m, b, x) ==
    LET new == CellOf(x)
        moved == DropOutOfRange([m EXCEPT !.pos[b] = x,
                                          !.allocated = @ \cup {new}], b)
    IN UpdateInRangeSet(
         [moved EXCEPT !.awake =
            IF new \notin m.active /\ new # CellAt(m, b) THEN @ \ {b} ELSE @],
         {b})

\* Fault: the creatures that wait to come back are forgotten.
UnloadPresent(m, c) ==
    [RemoveObjects(m, ObjectsIn(m, {c})) EXCEPT
       !.allocated = @ \ {c}, !.loaded = @ \ {c}, !.pending = @ \ {c},
       !.gone = {s \in @ : CellOf(SpawnAt(s)) # c}]

\* MapCell::Unload: whatever is in the cell or is to come back to it is
\* deleted, and the cell with it.
Unload(m, c) ==
    IF c \in m.active
    THEN [m EXCEPT !.pending = @ \ {c}]
    ELSE [RemoveObjects(m, ObjectsIn(m, {c})) EXCEPT
            !.respawning[c] = {},
            !.allocated = @ \ {c},
            !.loaded  = @ \ {c},
            !.gone    = {s \in @ : CellOf(SpawnAt(s)) # c},
            !.pending = @ \ {c}]

UnloadCell(m, c) ==
    IF c \notin m.allocated \/ CellActive(m, c) \/ c \notin m.pending
    THEN m
    ELSE Unload(m, c)

\* Despawn with a respawn time: the creature waits in the cell of its spawn,
\* or in the cell where it is if that one is gone.
DespawnCreature(m, b) ==
    LET home == CellOf(SpawnAt(b[1]))
        c == IF home \in m.allocated THEN home ELSE CellAt(m, b)
    IN [RemoveObjects(m, {b}) EXCEPT
          !.respawning[c] = @ \cup {b},
          !.events = @ \cup {<<"respawn", b, c>>}]

\* Despawn without one, or of a creature that is not to come back: a raid
\* boss, the trash of a boss that is dead, a spawn that has no respawn time.
DeleteCreature(m, b) ==
    [RemoveObjects(m, {b}) EXCEPT !.gone = @ \cup {b[1]}]

\* OnRespawn drops the creature instead if its boss has been killed.
EventRespawnCreature(m, b, c, back) ==
    IF c \notin m.allocated \/ b \notin m.respawning[c]
    THEN m
    ELSE LET taken == [m EXCEPT !.respawning[c] = @ \ {b}]
         IN IF back THEN PushCreatures(taken, {b})
            ELSE [taken EXCEPT !.gone = @ \cup {b[1]}]

\* CorpseGoneIdle and CheckUnload, when a corpse loses its owner.
CorpseGoneIdle(m, k) ==
    LET c == CellAt(m, k)
        gone == [m EXCEPT !.linked = @ \ {k}]
        queue == c \notin m.active /\ c \notin m.pending /\ CanUnload(gone, c)
    IN IF queue
       THEN [gone EXCEPT !.pending = @ \cup {c},
                         !.events  = @ \cup UnloadEvents({c})]
       ELSE gone

-----------------------------------------------------------------------------
Init ==
    map = [pos        |-> [o \in Objects |-> Nowhere],
           inRange    |-> [o \in Objects |-> {}],
           allocated  |-> {},     \* cells that exist
           active     |-> {},     \* _active
           loaded     |-> {},     \* _loaded
           pending    |-> {},     \* _unloadpending
           respawning |-> [c \in Cells |-> {}],  \* _respawnObjects
           forced     |-> {},     \* m_forcedcells
           awake      |-> {},     \* creatures the map updates
           linked     |-> {},     \* corpses that keep their cell loaded
           barred     |-> {},     \* spawns whose killing the instance keeps
           gone       |-> {},     \* history: spawns without a creature, by
                                  \* their death or bar, in a loaded cell
           left       |-> {},     \* history: cells a move by two left behind
           events     |-> {}]     \* of the map: a set, for a second respawn
                                  \* of the same creature in the same cell
                                  \* finds nobody when the first has run

\* Bound: memory is left for one more creature of every spawn.
HasRoom ==
    \A s \in Spawns : \E i \in 1 .. Copies :
        <<s, i>> \notin InWorld(map) \cup Waiting(map)

EnterMap(p, x) ==
    /\ p \notin InWorld(map) /\ HasRoom
    /\ map' = PushPlayer(map, p, x)

LeaveMap(p) ==
    /\ p \in InWorld(map)
    /\ map' = RemovePlayer(map, p)

MovePlayer(p, x) ==
    /\ p \in InWorld(map) /\ HasRoom
    /\ x # map.pos[p]
    /\ map' = ChangePlayerLocation(map, p, x)

\* A dead player goes to the graveyard at x; his corpse stays.
Repop(p, k, x) ==
    /\ p \in InWorld(map) /\ k \notin InWorld(map) /\ HasRoom
    /\ x # map.pos[p]
    /\ map' = PushCorpse(ChangePlayerLocation(map, p, x), k, map.pos[p])

LoseOwner(k) ==
    /\ k \in map.linked
    /\ map' = CorpseGoneIdle(map, k)

EventCorpseDespawn(k) ==
    /\ k \in InWorld(map) \ map.linked
    /\ map' = RemoveObjects(map, {k})

\* Only creatures in active cells are updated and walk.
Walk(b, x) ==
    /\ b \in map.awake /\ Distance(x, map.pos[b]) = 1
    /\ x \in Path(b[1])
    /\ map' = ChangeCreatureLocation(map, b, x)

\* Bound: Respawns events of creatures that are to come back, also of those
\* that have been deleted meanwhile.
Die(b) ==
    /\ b \in InWorld(map)
    /\ \/ /\ map' = DespawnCreature(map, b)
          /\ Cardinality(map'.events \ UnloadEvents(Cells)) =< Respawns
       \/ /\ b[1] \in Mortal
          /\ map' = DeleteCreature(map, b)

\* The instance keeps that a creature of the spawn, or its boss, was killed.
Bar(s) ==
    /\ s \in Mortal \ map.barred
    /\ map' = [map EXCEPT !.barred = @ \cup {s}]

HandleEvent(e) ==
    LET m == [map EXCEPT !.events = @ \ {e}]
    IN \/ /\ e[1] = "unload"
          /\ map' = UnloadCell(m, e[2])
       \/ /\ e[1] = "respawn"
          /\ \E back \in BOOLEAN :
                /\ e[2][1] \notin Mortal => back
                /\ map' = EventRespawnCreature(m, e[2], e[3], back)

AddForcedCell(c) ==
    /\ c \in Forcible \ map.forced /\ HasRoom
    /\ map' = UpdateCellActivity([map EXCEPT !.allocated = @ \cup {c},
                                             !.forced = @ \cup {c}], c, 1)

RemoveForcedCell(c) ==
    /\ c \in map.forced
    /\ map' = UpdateCellActivity([map EXCEPT !.forced = @ \ {c}], c, 1)

Next ==
    \/ \E p \in Players, x \in Positions : EnterMap(p, x) \/ MovePlayer(p, x)
    \/ \E p \in Players : LeaveMap(p)
    \/ \E p \in Players, k \in Corpses, x \in Positions : Repop(p, k, x)
    \/ \E k \in Corpses : LoseOwner(k) \/ EventCorpseDespawn(k)
    \/ \E b \in Creatures, x \in Positions : Walk(b, x)
    \/ \E b \in Creatures : Die(b)
    \/ \E s \in Spawns : Bar(s)
    \/ \E e \in map.events : HandleEvent(e)
    \/ \E c \in Cells : AddForcedCell(c) \/ RemoveForcedCell(c)

Spec == Init /\ [][Next]_map

-----------------------------------------------------------------------------
\* The map's state has its type.
TypeOK ==
    /\ map.pos \in [Objects -> Positions \cup {Nowhere}]
    /\ map.inRange \in [Objects -> SUBSET Objects]
    /\ map.active \subseteq map.allocated
    /\ map.loaded \subseteq map.allocated
    /\ map.pending \subseteq map.allocated
    /\ map.allocated \subseteq Cells
    /\ map.respawning \in [Cells -> SUBSET Creatures]
    /\ map.forced \subseteq Forcible
    /\ map.awake \subseteq Creatures
    /\ map.linked \subseteq Corpses
    /\ map.barred \subseteq Mortal /\ map.gone \subseteq Spawns
    /\ map.left \subseteq Cells

\* In-range sets hold objects of the map only, are mutual, hold nobody
\* farther than the update distance, and miss nobody nearer that is in an
\* adjoining cell.  RemoveInRangeObject asserts that they are mutual, and
\* every packet to the surroundings goes by them.
InRangeSetsMatch ==
    \A o \in Objects :
        /\ o \notin InWorld(map) => map.inRange[o] = {}
        /\ \A b \in map.inRange[o] :
              /\ b \in InWorld(map) \ {o}
              /\ o \in map.inRange[b]
              /\ Distance(map.pos[o], map.pos[b]) <= UpdateDistance
        /\ \A b \in InWorld(map) \ {o} :
              (/\ o \in InWorld(map)
               /\ CellAt(map, b) \in Around(CellAt(map, o), 1)
               /\ Distance(map.pos[o], map.pos[b]) <= UpdateDistance)
                => b \in map.inRange[o]

\* Every cell next to a player or a forced cell is active, and a creature
\* is updated just when its cell is active: nothing around a player is
\* frozen.  A cell runs for nobody only where a player left it by a move of
\* two cells and nobody has come near since: the two updates of
\* ChangeObjectLocation, meant to cover the old cell and the new one, miss it.
ActiveNearPlayers ==
    /\ map.active = {c \in Cells : CellActive(map, c)} \cup map.left
    /\ map.awake = ObjectsIn(map, map.active) \cap Creatures

\* A loaded cell that is idle waits to be unloaded, and the event that will
\* do it is queued, unless a corpse somebody may come back to lies there;
\* no such corpse is in a cell that waits, and no active cell waits.
IdleIsUnloaded ==
    /\ \A c \in map.loaded \ map.active :
          CanUnload(map, c) => c \in map.pending
    /\ \A c \in map.pending : CanUnload(map, c) /\ c \notin map.active
    /\ UnloadEvents(map.pending) = {e \in map.events : e[1] = "unload"}

\* Active and idle cells are what players, corpses and forced cells make them.
CellsMatchPlayers == TypeOK /\ ActiveNearPlayers /\ IdleIsUnloaded

\* A spawn whose creatures stay in its cell has one creature while the cell
\* is loaded, in the world or dead with its respawn queued, and none before
\* and after: loading, unloading, dying and coming back make no second one
\* and lose none.  What was removed for good or barred since the cell was
\* loaded has none: no respawn event that is left brings it back.
SpawnedOnce ==
    \A s \in Homebodies :
        LET c == CellOf(SpawnAt(s))
            all == {<<s, i>> : i \in 1 .. Copies}
        IN /\ Cardinality(all \cap (InWorld(map) \cup Waiting(map)))
                = IF c \in map.loaded /\ s \notin map.gone THEN 1 ELSE 0
           /\ all \cap InWorld(map) \cap Waiting(map) = {}
           /\ \A b \in all : b \in map.respawning[c]
                => <<"respawn", b, c>> \in map.events

=============================================================================
