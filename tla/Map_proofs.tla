------------------------------ MODULE Map_proofs ------------------------------
(***************************************************************************)
(* What the thread of a map works on: its cells (MapCells) and the timed   *)
(* events of its objects (Events).                                         *)
(*                                                                         *)
(* First part: the in-range sets, the cells that are active and the        *)
(* creatures of a spawn are right for every map, every number of players,  *)
(* corpses and spawns, and every path.  The operations are operators from  *)
(* one state of the map to the next, so the invariant is one of a state m; *)
(* each operation gets a lemma.                                            *)
(*                                                                         *)
(* Second part: references are counted, events go with their objects and   *)
(* callbacks start where they may for any number of objects, events and    *)
(* maps, and any number of changes of maps.                                *)
(***************************************************************************)
EXTENDS MapCells, Events, FiniteSetTheorems, SequenceTheorems,
        WellFoundedInduction, TLAPS

-------------------------------------------------------------------------------
(* The cells of a map.                                                     *)

MapEvents ==
    UnloadEvents(Cells) \cup {<<"respawn", b, c>> : b \in Creatures, c \in Cells}

MapState ==
    [pos        : [Objects -> Positions \cup {Nowhere}],
     inRange    : [Objects -> SUBSET Objects],
     allocated  : SUBSET Cells,
     active     : SUBSET Cells,
     loaded     : SUBSET Cells,
     pending    : SUBSET Cells,
     respawning : [Cells -> SUBSET Creatures],
     forced     : SUBSET (Forcible \cap Cells),
     awake      : SUBSET Creatures,
     linked     : SUBSET Corpses,
     barred     : SUBSET Mortal,
     gone       : SUBSET Spawns,
     left       : SUBSET Cells,
     events     : SUBSET MapEvents]

\* A cell that is in use exists; what keeps a cell loaded lies in one; a
\* creature is on its path.
Placed(m) ==
    /\ m.active \cup m.loaded \cup m.pending \subseteq m.allocated
    /\ \A o \in InWorld(m) : CellAt(m, o) \in m.allocated
    /\ m.linked \subseteq InWorld(m)
    /\ \A b \in InWorld(m) \cap Creatures : m.pos[b] \in Path(b[1])

\* A creature is in the world or waits, and in one cell.
OnceDead(m) ==
    /\ InWorld(m) \cap Waiting(m) = {}
    /\ \A c, d \in Cells : m.respawning[c] \cap m.respawning[d] # {} => c = d

\* In-range sets hold nobody they should not ...
Near(m, a, b) == Distance(m.pos[a], m.pos[b]) <= UpdateDistance
Meets(m, a, b) ==
    /\ a # b
    /\ CellAt(m, b) \in Around(CellAt(m, a), 1)
    /\ Near(m, a, b)

RangeSound(m) ==
    \A o \in Objects :
        /\ o \notin InWorld(m) => m.inRange[o] = {}
        /\ \A b \in m.inRange[o] :
              b \in InWorld(m) \ {o} /\ o \in m.inRange[b] /\ Near(m, o, b)

\* ... and miss nobody but those of X, who have just come or moved.
RangeComplete(m, X) ==
    \A a, b \in InWorld(m) \ X : Meets(m, a, b) => b \in m.inRange[a]

AwakeInActive(m) == m.awake = ObjectsIn(m, m.active) \cap Creatures

IdlePending(m) ==
    /\ \A c \in m.loaded \ m.active : CanUnload(m, c) => c \in m.pending
    /\ \A c \in m.pending : CanUnload(m, c) /\ c \notin m.active
    /\ UnloadEvents(m.pending) = {e \in m.events : e[1] = "unload"}

\* The creatures of s, in the world or waiting to come back.
Alive(m, s) == {b \in {s} \X (1 .. Copies) : b \in InWorld(m) \cup Waiting(m)}

SpawnsOnce(m) ==
    \A s \in Homebodies :
        LET c == CellOf(SpawnAt(s))
        IN /\ c \notin m.loaded => Alive(m, s) = {} /\ s \notin m.gone
           /\ s \in m.gone => Alive(m, s) = {}
           /\ c \in m.loaded /\ s \notin m.gone
                => \E b \in Creatures : Alive(m, s) = {b}
           /\ \A b \in {s} \X (1 .. Copies) :
                \A d \in Cells : b \in m.respawning[d]
                    => d = c /\ <<"respawn", b, c>> \in m.events

\* Nothing next to a player or a forced cell is frozen; no cell runs for
\* nobody but what a move by two cells has left behind.
NobodyFrozen(m) == \A c \in Cells : CellActive(m, c) => c \in m.active
RunsForSome(m) ==
    /\ m.left \subseteq m.active
    /\ \A c \in m.active : CellActive(m, c) \/ c \in m.left

\* What every operation keeps, once it is done with the object it moves, ...
Standing(m) ==
    /\ m \in MapState /\ Placed(m) /\ OnceDead(m) /\ RangeSound(m)
    /\ AwakeInActive(m) /\ IdlePending(m)

\* ... with the creature it loads or brings back, ...
Sound(m) == Standing(m) /\ SpawnsOnce(m)

\* ... and what every handler keeps.
Whole(m) == Sound(m) /\ RangeComplete(m, {}) /\ NobodyFrozen(m)

IInv == Whole(map) /\ RunsForSome(map)

-----------------------------------------------------------------------------
LEMMA CellOfPositions == \A x \in Positions : CellOf(x) \in Cells
  <1> SUFFICES ASSUME NEW x \in Positions PROVE CellOf(x) \in Cells
    OBVIOUS
  <1> DEFINE q == x \div CellWidth
             r == x % CellWidth
  <1>1. /\ Width \in Nat \ {0} /\ CellWidth \in Nat \ {0} /\ Width * CellWidth \in Nat
        /\ x \in Nat /\ x < Width * CellWidth
    BY CellsAssumption DEF CellsAssumption, Positions
  <1>2. q \in Nat /\ r \in Nat /\ r < CellWidth /\ x = q * CellWidth + r
    BY <1>1
  <1> HIDE DEF q, r
  <1>3. ASSUME q >= Width PROVE FALSE
    <2>1. q * CellWidth = Width * CellWidth + (q - Width) * CellWidth
      BY <1>1, <1>2
    <2>2. (q - Width) * CellWidth >= 0
      BY <1>1, <1>2, <1>3
    <2> QED BY <1>1, <1>2, <2>1, <2>2
  <1> QED BY <1>1, <1>2, <1>3 DEF q, CellOf, Cells

\* How far two objects are apart does not depend on who asks.
LEMMA AroundSymmetric ==
    /\ \A x, y \in Positions : Distance(x, y) = Distance(y, x)
    /\ \A c, d \in Cells, r \in Nat : c \in Around(d, r) <=> d \in Around(c, r)
  BY CellsAssumption DEF CellsAssumption, Distance, Around, Positions, Cells

LEMMA ObjectFacts ==
    /\ Players \cap Creatures = {} /\ Corpses \cap Creatures = {}
    /\ Players \cap Corpses = {}
    /\ Players \subseteq Objects /\ Corpses \subseteq Objects
    /\ Creatures \subseteq Objects
    /\ Nowhere \notin Positions
    /\ \A b \in Creatures : SpawnAt(b[1]) \in Positions \cap Path(b[1])
  BY CellsAssumption DEF CellsAssumption, Objects, Positions, Creatures

LEMMA WorldFacts ==
    ASSUME NEW m \in MapState
    PROVE  /\ InWorld(m) \subseteq Objects
           /\ \A o \in InWorld(m) : m.pos[o] \in Positions /\ CellAt(m, o) \in Cells
           /\ \A C : ObjectsIn(m, C) \subseteq InWorld(m)
           /\ Waiting(m) \subseteq Creatures
  BY CellOfPositions DEF MapState, InWorld, CellAt, ObjectsIn, Waiting

LEMMA WaitingWhere ==
    \A m, b : b \in Waiting(m) <=> \E c \in Cells : b \in m.respawning[c]
  BY DEF Waiting

LEMMA ActivateFields ==
    ASSUME NEW m \in MapState, NEW C \in SUBSET Cells
    PROVE  LET r == Activate(m, C) IN
           /\ r \in MapState
           /\ r.pos = m.pos /\ r.inRange = m.inRange
           /\ r.respawning = m.respawning /\ r.forced = m.forced
           /\ r.gone = m.gone /\ r.left = m.left
           /\ r.loaded = m.loaded /\ r.linked = m.linked
           /\ r.allocated = m.allocated \cup C
           /\ r.active = m.active \cup C
           /\ r.awake = m.awake \cup (ObjectsIn(m, C) \cap Creatures)
           /\ r.pending = m.pending \ C
           /\ r.events = m.events \ UnloadEvents(C)
  BY DEF Activate, MapState

LEMMA GoIdleFields ==
    ASSUME NEW m \in MapState, NEW C \in SUBSET Cells
    PROVE  LET r == GoIdle(m, C)
               unload == {c \in C : CanUnload(m, c)}
           IN
           /\ r \in MapState
           /\ r.pos = m.pos /\ r.inRange = m.inRange
           /\ r.respawning = m.respawning /\ r.forced = m.forced
           /\ r.gone = m.gone /\ r.left = m.left
           /\ r.loaded = m.loaded /\ r.linked = m.linked
           /\ r.allocated = m.allocated
           /\ r.active = m.active \ C
           /\ r.awake = m.awake \ ObjectsIn(m, C)
           /\ r.pending = m.pending \cup unload
           /\ r.events = m.events \cup UnloadEvents(unload \ m.pending)
  <1> DEFINE unload == {c \in C : CanUnload(m, c)}
  <1>1. UnloadEvents(unload \ m.pending) \subseteq MapEvents
    BY DEF MapEvents, UnloadEvents
  <1> QED BY <1>1 DEF GoIdle, MapState

-----------------------------------------------------------------------------
(* What a part of the invariant depends on                                  *)

LEMMA SamePlaces ==
    ASSUME NEW m, NEW r, r.pos = m.pos
    PROVE  /\ InWorld(r) = InWorld(m)
           /\ \A o : CellAt(r, o) = CellAt(m, o)
           /\ \A C : ObjectsIn(r, C) = ObjectsIn(m, C)
           /\ \A a, b : Near(r, a, b) = Near(m, a, b)
           /\ \A a, b : Meets(r, a, b) = Meets(m, a, b)
           /\ r.linked = m.linked => \A c : CanUnload(r, c) = CanUnload(m, c)
           /\ r.forced = m.forced => \A c : CellActive(r, c) = CellActive(m, c)
  BY DEF InWorld, CellAt, ObjectsIn, Near, Meets, CanUnload, CellActive

LEMMA SameRange ==
    ASSUME NEW m, NEW r, r.pos = m.pos, r.inRange = m.inRange
    PROVE  /\ RangeSound(m) => RangeSound(r)
           /\ \A X : RangeComplete(m, X) => RangeComplete(r, X)
  BY SamePlaces DEF RangeSound, RangeComplete

RespawnsStay(m, r) ==
    \A b, c : <<"respawn", b, c>> \in m.events => <<"respawn", b, c>> \in r.events

LEMMA SameSpawns ==
    ASSUME NEW m, NEW r, InWorld(r) = InWorld(m), r.respawning = m.respawning
    PROVE  /\ Waiting(r) = Waiting(m)
           /\ OnceDead(m) => OnceDead(r)
           /\ \A s : Alive(r, s) = Alive(m, s)
           /\ SpawnsOnce(m) /\ r.loaded = m.loaded /\ r.gone = m.gone
              /\ RespawnsStay(m, r)
                => SpawnsOnce(r)
  <1>1. Waiting(r) = Waiting(m)
    BY DEF Waiting
  <1>2. OnceDead(m) => OnceDead(r)
    BY <1>1 DEF OnceDead
  <1>3. \A s : Alive(r, s) = Alive(m, s)
    BY <1>1 DEF Alive
  <1>4. SpawnsOnce(m) /\ r.loaded = m.loaded /\ r.gone = m.gone /\ RespawnsStay(m, r)
          => SpawnsOnce(r)
    BY <1>3 DEF SpawnsOnce, RespawnsStay
  <1> QED BY <1>1, <1>2, <1>3, <1>4

LEMMA UnloadRespawn ==
    /\ \A C : UnloadEvents(C) = {e \in UnloadEvents(C) : e[1] = "unload"}
    /\ \A C, b, c : <<"respawn", b, c>> \notin UnloadEvents(C)
    /\ \A C, D : UnloadEvents(C \cup D) = UnloadEvents(C) \cup UnloadEvents(D)
    /\ \A C, D : UnloadEvents(C \ D) = UnloadEvents(C) \ UnloadEvents(D)
  BY DEF UnloadEvents

\* What the invariant does not depend on: the spawns that are barred, and
\* which cells were left behind.
Agree(m, r) ==
    /\ r.pos = m.pos /\ r.inRange = m.inRange /\ r.forced = m.forced
    /\ r.allocated = m.allocated /\ r.active = m.active
    /\ r.loaded = m.loaded /\ r.pending = m.pending
    /\ r.respawning = m.respawning /\ r.awake = m.awake
    /\ r.linked = m.linked /\ r.events = m.events /\ r.gone = m.gone

LEMMA SameSound ==
    ASSUME NEW m, Sound(m), NEW r \in MapState, Agree(m, r)
    PROVE  /\ Sound(r)
           /\ \A X : RangeComplete(m, X) => RangeComplete(r, X)
           /\ \A c : CellActive(r, c) = CellActive(m, c)
           /\ InWorld(r) = InWorld(m) /\ Waiting(r) = Waiting(m)
  <1>1. Placed(r) /\ AwakeInActive(r) /\ IdlePending(r)
    BY SamePlaces DEF Agree, Sound, Standing, Placed, AwakeInActive, IdlePending
  <1>2. RangeSound(r) /\ \A X : RangeComplete(m, X) => RangeComplete(r, X)
    BY SameRange DEF Agree, Sound, Standing
  <1>3. /\ InWorld(r) = InWorld(m) /\ \A c : CellActive(r, c) = CellActive(m, c)
    BY SamePlaces DEF Agree
  <1>4. OnceDead(r) /\ SpawnsOnce(r) /\ Waiting(r) = Waiting(m)
    BY <1>3, SameSpawns DEF Agree, Sound, Standing, RespawnsStay
  <1> QED BY <1>1, <1>2, <1>3, <1>4 DEF Sound, Standing

-----------------------------------------------------------------------------
(* Cells going active and idle                                              *)

LEMMA ActivateKeeps ==
    ASSUME NEW m, Sound(m), NEW C \in SUBSET Cells
    PROVE  Sound(Activate(m, C))
  <1> DEFINE r == Activate(m, C)
  <1>1. m \in MapState
    BY DEF Sound, Standing
  <1>2. /\ r \in MapState
        /\ r.pos = m.pos /\ r.inRange = m.inRange
        /\ r.respawning = m.respawning /\ r.gone = m.gone
        /\ r.loaded = m.loaded /\ r.linked = m.linked
        /\ r.allocated = m.allocated \cup C
        /\ r.active = m.active \cup C
        /\ r.awake = m.awake \cup (ObjectsIn(m, C) \cap Creatures)
        /\ r.pending = m.pending \ C
        /\ r.events = m.events \ UnloadEvents(C)
    BY <1>1, ActivateFields
  <1> HIDE DEF r
  <1>3. Placed(r)
    BY <1>2, SamePlaces DEF Sound, Standing, Placed
  <1>4. RespawnsStay(m, r)
    BY <1>2, UnloadRespawn DEF RespawnsStay
  <1>5. OnceDead(r) /\ SpawnsOnce(r)
    BY <1>2, <1>4, SamePlaces, SameSpawns DEF Sound, Standing
  <1>6. AwakeInActive(r)
    BY <1>2, SamePlaces DEF Sound, Standing, AwakeInActive, ObjectsIn
  <1>7. IdlePending(r)
    <2>1. /\ \A c \in r.loaded \ r.active : CanUnload(r, c) => c \in r.pending
          /\ \A c \in r.pending : CanUnload(r, c) /\ c \notin r.active
      BY <1>2, SamePlaces DEF Sound, Standing, IdlePending
    <2>2. UnloadEvents(r.pending) = {e \in r.events : e[1] = "unload"}
      BY <1>2, UnloadRespawn DEF Sound, Standing, IdlePending
    <2> QED BY <2>1, <2>2 DEF IdlePending
  <1> QED BY <1>2, <1>3, <1>5, <1>6, <1>7, SameRange DEF Sound, Standing, r

LEMMA GoIdleKeeps ==
    ASSUME NEW m, Sound(m), NEW C \in SUBSET m.active
    PROVE  Sound(GoIdle(m, C))
  <1> DEFINE r == GoIdle(m, C)
             unload == {c \in C : CanUnload(m, c)}
  <1>1. m \in MapState /\ C \in SUBSET Cells
    BY DEF Sound, Standing, MapState
  <1>2. /\ r \in MapState
        /\ r.pos = m.pos /\ r.inRange = m.inRange
        /\ r.respawning = m.respawning /\ r.gone = m.gone
        /\ r.loaded = m.loaded /\ r.linked = m.linked
        /\ r.allocated = m.allocated
        /\ r.active = m.active \ C
        /\ r.awake = m.awake \ ObjectsIn(m, C)
        /\ r.pending = m.pending \cup unload
        /\ r.events = m.events \cup UnloadEvents(unload \ m.pending)
    BY <1>1, GoIdleFields
  <1> HIDE DEF r
  <1>3. Placed(r)
    BY <1>2, SamePlaces DEF Sound, Standing, Placed
  <1>4. RespawnsStay(m, r)
    BY <1>2, UnloadRespawn DEF RespawnsStay
  <1>5. OnceDead(r) /\ SpawnsOnce(r)
    BY <1>2, <1>4, SamePlaces, SameSpawns DEF Sound, Standing
  <1>6. AwakeInActive(r)
    BY <1>2, SamePlaces DEF Sound, Standing, AwakeInActive, ObjectsIn
  <1>7. IdlePending(r)
    <2>1. /\ \A c \in r.loaded \ r.active : CanUnload(r, c) => c \in r.pending
          /\ \A c \in r.pending : CanUnload(r, c) /\ c \notin r.active
      BY <1>2, SamePlaces DEF Sound, Standing, IdlePending
    <2>2. UnloadEvents(r.pending) = {e \in r.events : e[1] = "unload"}
      <3>1. UnloadEvents(r.pending)
              = UnloadEvents(m.pending) \cup UnloadEvents(unload \ m.pending)
        BY <1>2, UnloadRespawn
      <3> QED BY <3>1, <1>2, UnloadRespawn DEF Sound, Standing, IdlePending
    <2> QED BY <2>1, <2>2 DEF IdlePending
  <1> QED BY <1>2, <1>3, <1>5, <1>6, <1>7, SameRange DEF Sound, Standing, r

-----------------------------------------------------------------------------
(* In-range sets                                                            *)

LEMMA MeetsSymmetric ==
    ASSUME NEW m \in MapState
    PROVE  \A a, b \in InWorld(m) :
              /\ Near(m, a, b) <=> Near(m, b, a)
              /\ Meets(m, a, b) <=> Meets(m, b, a)
  <1>1. \A a, b \in InWorld(m) : Near(m, a, b) <=> Near(m, b, a)
    BY WorldFacts, AroundSymmetric DEF Near
  <1>2. \A a, b \in InWorld(m) :
          CellAt(m, b) \in Around(CellAt(m, a), 1)
             <=> CellAt(m, a) \in Around(CellAt(m, b), 1)
    BY WorldFacts, AroundSymmetric
  <1> QED BY <1>1, <1>2 DEF Meets

LEMMA UpdateInRangeSetFields ==
    ASSUME NEW m \in MapState, NEW O \in SUBSET Objects
    PROVE  LET r == UpdateInRangeSet(m, O) IN
           /\ r \in MapState
           /\ r.pos = m.pos /\ r.respawning = m.respawning
           /\ r.forced = m.forced /\ r.loaded = m.loaded
           /\ r.gone = m.gone /\ r.left = m.left
           /\ r.linked = m.linked /\ r.allocated = m.allocated
           /\ r.active = m.active /\ r.awake = m.awake
           /\ r.pending = m.pending /\ r.events = m.events
           /\ \A o \in Objects :
                 r.inRange[o] =
                    IF o \in InWorld(m)
                    THEN m.inRange[o] \cup
                           {b \in IF o \in O THEN InWorld(m) ELSE O : Meets(m, o, b)}
                    ELSE m.inRange[o]
  <1> DEFINE New(o) == {b \in IF o \in O THEN InWorld(m) ELSE O : Meets(m, o, b)}
             range == [o \in Objects |-> IF o \in InWorld(m)
                                         THEN m.inRange[o] \cup New(o)
                                         ELSE m.inRange[o]]
             r == UpdateInRangeSet(m, O)
  <1>1. r = [m EXCEPT !.inRange = range]
    <2> DEFINE
          Close(a, b) == /\ a # b
                         /\ CellAt(m, b) \in Around(CellAt(m, a), 1)
                         /\ Distance(m.pos[a], m.pos[b]) <= UpdateDistance
          Fresh(o) == {b \in IF o \in O THEN InWorld(m) ELSE O : Close(o, b)}
          wider == [o \in Objects |-> IF o \in InWorld(m)
                                      THEN m.inRange[o] \cup Fresh(o)
                                      ELSE m.inRange[o]]
    <2>1. r = [m EXCEPT !.inRange = wider]
      BY DEF UpdateInRangeSet
    <2>2. \A o : New(o) = Fresh(o)
      BY DEF Meets, Near
    <2>3. wider = range
      <3> HIDE DEF New, Fresh
      <3> QED BY <2>2
    <2> HIDE DEF wider, range, r
    <2> QED BY <2>1, <2>3
  <1>2. range \in [Objects -> SUBSET Objects]
    BY WorldFacts DEF MapState
  <1> HIDE DEF r
  <1>3. /\ r \in MapState /\ r.inRange = range
        /\ r.pos = m.pos /\ r.respawning = m.respawning
        /\ r.forced = m.forced /\ r.loaded = m.loaded
        /\ r.gone = m.gone /\ r.left = m.left
        /\ r.linked = m.linked /\ r.allocated = m.allocated
        /\ r.active = m.active /\ r.awake = m.awake
        /\ r.pending = m.pending /\ r.events = m.events
    <2> HIDE DEF range
    <2> QED BY <1>1, <1>2 DEF MapState
  <1> QED BY <1>3 DEF r

LEMMA UpdateInRangeSetRange ==
    ASSUME NEW m \in MapState, RangeSound(m), NEW O \in SUBSET InWorld(m)
    PROVE  LET r == UpdateInRangeSet(m, O) IN
           /\ RangeSound(r)
           /\ \A X : RangeComplete(m, X \cup O) => RangeComplete(r, X \ O)
  <1> DEFINE r == UpdateInRangeSet(m, O)
             New(o) == {b \in IF o \in O THEN InWorld(m) ELSE O : Meets(m, o, b)}
  <1>1. /\ r.pos = m.pos
        /\ \A o \in InWorld(m) : r.inRange[o] = m.inRange[o] \cup New(o)
        /\ \A o \in Objects \ InWorld(m) : r.inRange[o] = m.inRange[o]
        /\ InWorld(m) \subseteq Objects
    <2>1. InWorld(m) \subseteq Objects /\ O \in SUBSET Objects
      BY WorldFacts
    <2>2. /\ r.pos = m.pos
          /\ \A o \in Objects :
               r.inRange[o] = IF o \in InWorld(m) THEN m.inRange[o] \cup New(o)
                                                  ELSE m.inRange[o]
      BY ZenonT(40), <2>1, UpdateInRangeSetFields
    <2> HIDE DEF r, New
    <2> QED BY <2>1, <2>2
  <1> HIDE DEF r
  <1>2. InWorld(r) = InWorld(m) /\ \A a, b : Near(r, a, b) = Near(m, a, b)
                                           /\ Meets(r, a, b) = Meets(m, a, b)
    BY <1>1, SamePlaces
  <1>3. \A a \in InWorld(m) : \A b \in New(a) :
           b \in InWorld(m) \ {a} /\ a \in New(b) /\ Near(m, a, b)
    BY MeetsSymmetric DEF Meets
  <1>4. RangeSound(r)
    <2> SUFFICES ASSUME NEW o \in Objects
                 PROVE  /\ o \notin InWorld(r) => r.inRange[o] = {}
                        /\ \A b \in r.inRange[o] :
                              /\ b \in InWorld(r) \ {o}
                              /\ o \in r.inRange[b] /\ Near(r, o, b)
      BY DEF RangeSound
    <2>1. CASE o \notin InWorld(m)
      BY <2>1, <1>1, <1>2 DEF RangeSound
    <2>2. CASE o \in InWorld(m)
      <3> SUFFICES ASSUME NEW b \in r.inRange[o]
                   PROVE  /\ b \in InWorld(m) \ {o}
                          /\ o \in r.inRange[b] /\ Near(m, o, b)
        BY <1>2, <2>2
      <3>1. CASE b \in m.inRange[o]
        BY <3>1, <1>1 DEF RangeSound
      <3>2. CASE b \in New(o)
        BY <3>2, <2>2, <1>1, <1>3
      <3> QED BY <3>1, <3>2, <2>2, <1>1
    <2> QED BY <2>1, <2>2
  <1>5. ASSUME NEW X, RangeComplete(m, X \cup O)
        PROVE  RangeComplete(r, X \ O)
    <2> SUFFICES ASSUME NEW a \in InWorld(m) \ (X \ O),
                        NEW b \in InWorld(m) \ (X \ O), Meets(m, a, b)
                 PROVE  b \in r.inRange[a]
      BY <1>2 DEF RangeComplete
    <2>1. CASE a \in O \/ b \in O
      BY <2>1, <1>1
    <2>2. CASE a \notin O /\ b \notin O
      BY <2>2, <1>1, <1>5 DEF RangeComplete
    <2> QED BY <2>1, <2>2
  <1> QED BY <1>4, <1>5 DEF r

LEMMA UpdateInRangeSetKeeps ==
    ASSUME NEW m, Sound(m), NEW O \in SUBSET InWorld(m)
    PROVE  Sound(UpdateInRangeSet(m, O))
  <1> DEFINE r == UpdateInRangeSet(m, O)
  <1>1. m \in MapState /\ O \in SUBSET Objects
    BY WorldFacts DEF Sound, Standing
  <1>2. /\ r \in MapState
        /\ r.pos = m.pos /\ r.respawning = m.respawning
        /\ r.forced = m.forced /\ r.loaded = m.loaded
        /\ r.gone = m.gone /\ r.left = m.left
        /\ r.linked = m.linked /\ r.allocated = m.allocated
        /\ r.active = m.active /\ r.awake = m.awake
        /\ r.pending = m.pending /\ r.events = m.events
    BY <1>1, UpdateInRangeSetFields
  <1>3. RangeSound(r)
    BY <1>1, UpdateInRangeSetRange DEF Sound, Standing
  <1> HIDE DEF r
  <1>4. Placed(r) /\ AwakeInActive(r) /\ IdlePending(r)
    BY <1>2, SamePlaces DEF Sound, Standing, Placed, AwakeInActive, IdlePending
  <1>5. OnceDead(r) /\ SpawnsOnce(r)
    BY <1>2, SamePlaces, SameSpawns DEF Sound, Standing, RespawnsStay
  <1> QED BY <1>2, <1>3, <1>4, <1>5 DEF Sound, Standing, r

-----------------------------------------------------------------------------
(* Creatures loaded or brought back                                         *)

LEMMA SameObstacles ==
    ASSUME NEW m, NEW r
    PROVE  /\ r.linked = m.linked /\ (\A k \in m.linked : r.pos[k] = m.pos[k])
                => \A c : CanUnload(r, c) = CanUnload(m, c)
           /\ r.forced = m.forced /\ (\A p \in Players : r.pos[p] = m.pos[p])
                => \A c : CellActive(r, c) = CellActive(m, c)
  <1>1. ASSUME r.linked = m.linked, \A k \in m.linked : r.pos[k] = m.pos[k], NEW c
        PROVE  CanUnload(r, c) = CanUnload(m, c)
    <2>1. r.linked \cap ObjectsIn(r, {c}) = m.linked \cap ObjectsIn(m, {c})
      BY <1>1 DEF ObjectsIn, InWorld, CellAt
    <2> QED BY <2>1 DEF CanUnload
  <1>2. ASSUME r.forced = m.forced, \A p \in Players : r.pos[p] = m.pos[p], NEW c
        PROVE  CellActive(r, c) = CellActive(m, c)
    <2>1. \A d : Players \cap ObjectsIn(r, {d}) = Players \cap ObjectsIn(m, {d})
      BY <1>2 DEF ObjectsIn, InWorld, CellAt
    <2> QED BY <1>2, <2>1 DEF CellActive
  <1> QED BY <1>1, <1>2

Home(b) == CellOf(SpawnAt(b[1]))

LEMMA HomeFacts ==
    \A b \in Creatures : Home(b) \in Cells /\ SpawnAt(b[1]) \in Positions
  BY ObjectFacts, CellOfPositions DEF Home

\* The creatures of C put where their spawns are.
Pushed(m, C) ==
    [m EXCEPT !.pos = [o \in Objects |-> IF o \in C THEN SpawnAt(o[1]) ELSE @[o]],
              !.allocated = @ \cup {Home(o) : o \in C}]

LEMMA PushCreaturesFields ==
    ASSUME NEW m \in MapState, NEW C \in SUBSET Creatures
    PROVE  LET pushed == Pushed(m, C)
               r == PushCreatures(m, C)
           IN
           /\ pushed \in MapState
           /\ pushed.inRange = m.inRange
           /\ \A o \in C : r.pos[o] = SpawnAt(o[1])
           /\ \A o \in Objects \ C : r.pos[o] = m.pos[o]
           /\ InWorld(r) = InWorld(m) \cup C /\ InWorld(pushed) = InWorld(r)
           /\ pushed.pos = r.pos
           /\ r.inRange = UpdateInRangeSet(pushed, C).inRange
           /\ r \in MapState
           /\ r.respawning = m.respawning
           /\ r.forced = m.forced /\ r.loaded = m.loaded
           /\ r.gone = m.gone /\ r.left = m.left
           /\ r.linked = m.linked
           /\ r.allocated = m.allocated \cup {Home(o) : o \in C}
           /\ r.active = m.active
           /\ r.awake = m.awake \cup {o \in C : Home(o) \in m.active}
           /\ r.pending = m.pending /\ r.events = m.events
  <1> DEFINE pushed == Pushed(m, C)
             u == UpdateInRangeSet(pushed, C)
             r == PushCreatures(m, C)
  <1>1. C \subseteq Objects /\ {Home(o) : o \in C} \subseteq Cells
        /\ \A o \in C : SpawnAt(o[1]) \in Positions
    BY ObjectFacts, HomeFacts
  <1>2. /\ pushed \in MapState
        /\ \A o \in C : pushed.pos[o] = SpawnAt(o[1])
        /\ \A o \in Objects \ C : pushed.pos[o] = m.pos[o]
        /\ pushed.inRange = m.inRange /\ pushed.respawning = m.respawning
        /\ pushed.forced = m.forced /\ pushed.loaded = m.loaded
        /\ pushed.gone = m.gone /\ pushed.left = m.left
        /\ pushed.linked = m.linked
        /\ pushed.allocated = m.allocated \cup {Home(o) : o \in C}
        /\ pushed.active = m.active /\ pushed.awake = m.awake
        /\ pushed.pending = m.pending /\ pushed.events = m.events
    BY <1>1 DEF MapState, Pushed
  <1>3. r = [u EXCEPT !.awake = @ \cup {o \in C : Home(o) \in m.active}]
    BY DEF PushCreatures, Pushed, Home
  <1> HIDE DEF pushed, u, r
  <1>4. /\ u \in MapState
        /\ u.pos = pushed.pos /\ u.respawning = pushed.respawning
        /\ u.forced = pushed.forced /\ u.loaded = pushed.loaded
        /\ u.gone = pushed.gone /\ u.left = pushed.left
        /\ u.linked = pushed.linked /\ u.allocated = pushed.allocated
        /\ u.active = pushed.active /\ u.awake = pushed.awake
        /\ u.pending = pushed.pending /\ u.events = pushed.events
    BY <1>1, <1>2, UpdateInRangeSetFields DEF u
  <1>5. InWorld(pushed) = InWorld(m) \cup C
    BY <1>1, <1>2, ObjectFacts DEF InWorld
  <1>6. /\ r \in MapState /\ r.pos = u.pos /\ r.inRange = u.inRange
        /\ r.respawning = u.respawning
        /\ r.forced = u.forced /\ r.loaded = u.loaded
        /\ r.gone = u.gone /\ r.left = u.left
        /\ r.linked = u.linked /\ r.allocated = u.allocated
        /\ r.active = u.active
        /\ r.awake = u.awake \cup {o \in C : Home(o) \in m.active}
        /\ r.pending = u.pending /\ r.events = u.events
    BY <1>3, <1>4 DEF MapState
  <1>7. InWorld(r) = InWorld(pushed)
    BY <1>6, <1>4, SamePlaces
  <1> QED BY <1>1, <1>2, <1>4, <1>5, <1>6, <1>7 DEF r, pushed, u

\* Creatures that are nowhere come in range of whoever is near.
LEMMA PushCreaturesRange ==
    ASSUME NEW m \in MapState, RangeSound(m), NEW C \in SUBSET Creatures,
           C \cap InWorld(m) = {}
    PROVE  LET r == PushCreatures(m, C) IN
           /\ RangeSound(r)
           /\ \A X : RangeComplete(m, X) => RangeComplete(r, X)
  <1> DEFINE q == Pushed(m, C)
             u == UpdateInRangeSet(q, C)
             r == PushCreatures(m, C)
  <1>1. /\ q \in MapState /\ q.inRange = m.inRange
        /\ \A o \in Objects \ C : q.pos[o] = m.pos[o]
        /\ InWorld(q) = InWorld(m) \cup C /\ C \in SUBSET InWorld(q)
        /\ InWorld(q) \subseteq Objects
        /\ r.pos = q.pos /\ r.inRange = u.inRange
    <2>1. Pushed(m, C) \in MapState
      BY PushCreaturesFields
    <2> QED BY <2>1, PushCreaturesFields, WorldFacts
  <1>2. u.pos = q.pos
    <2>1. C \in SUBSET Objects
      BY ObjectFacts
    <2> QED BY <2>1, <1>1, UpdateInRangeSetFields
  <1> HIDE DEF q
  <1>3. \A a, b \in InWorld(m) :
           /\ Near(q, a, b) = Near(m, a, b)
           /\ Meets(q, a, b) = Meets(m, a, b)
    BY <1>1, WorldFacts DEF Near, Meets, CellAt
  <1>4. RangeSound(q)
    <2> SUFFICES ASSUME NEW o \in Objects
                 PROVE  /\ o \notin InWorld(q) => q.inRange[o] = {}
                        /\ \A b \in q.inRange[o] :
                              /\ b \in InWorld(q) \ {o}
                              /\ o \in q.inRange[b] /\ Near(q, o, b)
      BY DEF RangeSound
    <2>1. o \notin InWorld(m) => m.inRange[o] = {}
      BY DEF RangeSound
    <2> QED BY <2>1, <1>1, <1>3 DEF RangeSound
  <1>5. ASSUME NEW X, RangeComplete(m, X)
        PROVE  RangeComplete(q, X \cup C)
    BY <1>5, <1>1, <1>3 DEF RangeComplete
  <1>6. RangeSound(u) /\ \A X : RangeComplete(q, X \cup C) => RangeComplete(u, X \ C)
    BY <1>1, <1>4, UpdateInRangeSetRange
  <1>7. RangeSound(r) /\ \A X : RangeComplete(u, X) => RangeComplete(r, X)
    <2>1. r.pos = u.pos /\ r.inRange = u.inRange
      BY <1>1, <1>2
    <2> HIDE DEF r, u
    <2> QED BY <2>1, <1>6, SameRange
  <1> HIDE DEF r, u
  <1>8. ASSUME NEW X, RangeComplete(m, X)
        PROVE  RangeComplete(r, X)
    <2>1. RangeComplete(r, X \ C)
      BY <1>5, <1>6, <1>7, <1>8
    <2> QED BY <2>1 DEF RangeComplete
  <1> QED BY <1>7, <1>8 DEF r

LEMMA PushCreaturesKeeps ==
    ASSUME NEW m, Standing(m), NEW C \in SUBSET Creatures,
           C \cap (InWorld(m) \cup Waiting(m)) = {}
    PROVE  Standing(PushCreatures(m, C))
  <1> DEFINE r == PushCreatures(m, C)
  <1>1. m \in MapState /\ InWorld(m) \subseteq Objects
    BY WorldFacts DEF Standing
  <1>2. /\ \A o \in C : r.pos[o] = SpawnAt(o[1])
        /\ \A o \in Objects \ C : r.pos[o] = m.pos[o]
        /\ InWorld(r) = InWorld(m) \cup C
        /\ r \in MapState
        /\ r.respawning = m.respawning
        /\ r.forced = m.forced /\ r.loaded = m.loaded
        /\ r.gone = m.gone /\ r.left = m.left
        /\ r.linked = m.linked
        /\ r.allocated = m.allocated \cup {Home(o) : o \in C}
        /\ r.active = m.active
        /\ r.awake = m.awake \cup {o \in C : Home(o) \in m.active}
        /\ r.pending = m.pending /\ r.events = m.events
    BY <1>1, PushCreaturesFields
  <1>3. RangeSound(r)
    BY <1>1, PushCreaturesRange DEF Standing
  <1> HIDE DEF r
  <1>4. /\ \A o \in C : CellAt(r, o) = Home(o)
        /\ \A o \in InWorld(m) : CellAt(r, o) = CellAt(m, o)
    BY <1>1, <1>2 DEF CellAt, Home
  <1>5. Placed(r)
    <2>1. \A b \in InWorld(r) \cap Creatures : r.pos[b] \in Path(b[1])
      BY <1>1, <1>2, ObjectFacts DEF Standing, Placed
    <2> QED BY <2>1, <1>1, <1>2, <1>4 DEF Standing, Placed
  <1>6. OnceDead(r)
    BY <1>2 DEF Standing, OnceDead, Waiting
  <1>7. AwakeInActive(r)
    <2>1. ObjectsIn(r, m.active) =
            ObjectsIn(m, m.active) \cup {o \in C : Home(o) \in m.active}
      BY <1>2, <1>4 DEF ObjectsIn
    <2> QED BY <2>1, <1>2 DEF Standing, AwakeInActive
  <1>8. IdlePending(r)
    <2>1. \A k \in m.linked : r.pos[k] = m.pos[k]
      BY <1>1, <1>2, ObjectFacts DEF MapState
    <2>2. \A c : CanUnload(r, c) = CanUnload(m, c)
      BY <2>1, <1>2, SameObstacles
    <2> QED BY <2>2, <1>2 DEF Standing, IdlePending
  <1> QED BY <1>2, <1>3, <1>5, <1>6, <1>7, <1>8 DEF Standing, r

\* Memory is left for a creature of every spawn that cells of C still load.
RoomFor(m, C) ==
    \A s \in Spawns :
        CellOf(SpawnAt(s)) \in C \ m.loaded =>
            \E i \in 1 .. Copies : <<s, i>> \notin InWorld(m) \cup Waiting(m)

\* Where memory is left, the least free copy is found.
LEMMA FreeCopyFree ==
    ASSUME NEW m, NEW s,
           \E i \in 1 .. Copies : <<s, i>> \notin InWorld(m) \cup Waiting(m)
    PROVE  /\ FreeCopy(m, s) \in 1 .. Copies
           /\ <<s, FreeCopy(m, s)>> \notin InWorld(m) \cup Waiting(m)
  <1> DEFINE Free == {i \in 1 .. Copies : <<s, i>> \notin InWorld(m) \cup Waiting(m)}
  <1>1. Free \subseteq Nat /\ Free # {}
    OBVIOUS
  <1>2. PICK i \in Free : \A j \in Free : ~ (<<j, i>> \in OpToRel(<, Nat))
    BY <1>1, NatLessThanWellFounded, WFMin
  <1>3. \A j \in 1 .. i - 1 : <<s, j>> \in InWorld(m) \cup Waiting(m)
    <2> SUFFICES ASSUME NEW j \in 1 .. i - 1,
                        <<s, j>> \notin InWorld(m) \cup Waiting(m)
                 PROVE  FALSE
      OBVIOUS
    <2>1. i \in Nat /\ j \in Nat /\ j < i /\ j \in Free
      BY CellsAssumption DEF CellsAssumption
    <2> QED BY <1>2, <2>1 DEF OpToRel
  <1> QED BY <1>2, <1>3 DEF FreeCopy

ToLoad(m, C) == {s \in Spawns : CellOf(SpawnAt(s)) \in C \ m.loaded}
Loaded(m, C) == {<<s, FreeCopy(m, s)>> : s \in ToLoad(m, C) \ m.barred}

LEMMA LoadObjectsFields ==
    ASSUME NEW m \in MapState, NEW C \in SUBSET Cells, RoomFor(m, C)
    PROVE  LET r == LoadObjects(m, C)
               p == PushCreatures(m, Loaded(m, C))
           IN
           /\ Loaded(m, C) \in SUBSET Creatures
           /\ Loaded(m, C) \cap (InWorld(m) \cup Waiting(m)) = {}
           /\ r \in MapState
           /\ r.pos = p.pos /\ r.inRange = p.inRange
           /\ InWorld(r) = InWorld(m) \cup Loaded(m, C)
           /\ r.respawning = m.respawning /\ r.forced = m.forced
           /\ r.left = m.left
           /\ r.linked = m.linked /\ r.allocated = p.allocated
           /\ r.active = m.active /\ r.awake = p.awake
           /\ r.pending = m.pending /\ r.events = m.events
           /\ r.loaded = m.loaded \cup {CellOf(SpawnAt(s)) : s \in ToLoad(m, C)}
           /\ r.gone = m.gone \cup (ToLoad(m, C) \cap m.barred)
  <1> DEFINE N == Loaded(m, C)
             p == PushCreatures(m, N)
             r == LoadObjects(m, C)
  <1>1. N \in SUBSET Creatures /\ N \cap (InWorld(m) \cup Waiting(m)) = {}
    <2>1. \A s \in ToLoad(m, C) :
            /\ s \in Spawns /\ FreeCopy(m, s) \in 1 .. Copies
            /\ <<s, FreeCopy(m, s)>> \notin InWorld(m) \cup Waiting(m)
      BY FreeCopyFree DEF RoomFor, ToLoad
    <2> QED BY <2>1 DEF Loaded, Creatures
  <1>2. r = [p EXCEPT !.loaded = @ \cup {CellOf(SpawnAt(s)) : s \in ToLoad(m, C)},
                      !.gone = @ \cup (ToLoad(m, C) \cap m.barred)]
    BY DEF LoadObjects, Loaded, ToLoad
  <1>3. /\ {CellOf(SpawnAt(s)) : s \in ToLoad(m, C)} \subseteq Cells
        /\ ToLoad(m, C) \subseteq Spawns
    BY DEF ToLoad
  <1> HIDE DEF N
  <1>4. /\ p \in MapState /\ InWorld(p) = InWorld(m) \cup N
        /\ p.respawning = m.respawning
        /\ p.forced = m.forced /\ p.loaded = m.loaded
        /\ p.gone = m.gone /\ p.left = m.left
        /\ p.linked = m.linked /\ p.active = m.active
        /\ p.pending = m.pending /\ p.events = m.events
    BY <1>1, PushCreaturesFields
  <1> HIDE DEF r, p
  <1>5. /\ r \in MapState
        /\ r.pos = p.pos /\ r.inRange = p.inRange
        /\ r.respawning = p.respawning /\ r.forced = p.forced
        /\ r.left = p.left
        /\ r.linked = p.linked /\ r.allocated = p.allocated
        /\ r.active = p.active /\ r.awake = p.awake
        /\ r.pending = p.pending /\ r.events = p.events
        /\ r.loaded = p.loaded \cup {CellOf(SpawnAt(s)) : s \in ToLoad(m, C)}
        /\ r.gone = p.gone \cup (ToLoad(m, C) \cap m.barred)
    BY <1>2, <1>3, <1>4 DEF MapState
  <1>6. InWorld(r) = InWorld(p)
    BY <1>5, SamePlaces
  <1> QED BY <1>1, <1>4, <1>5, <1>6 DEF r, p, N

LEMMA LoadObjectsKeeps ==
    ASSUME NEW m, Sound(m), NEW C \in SUBSET m.active, RoomFor(m, C)
    PROVE  LET r == LoadObjects(m, C) IN
           /\ Sound(r)
           /\ \A D : RoomFor(m, D) => RoomFor(r, D)
           /\ \A X : RangeComplete(m, X) => RangeComplete(r, X)
           /\ r.active = m.active /\ r.forced = m.forced
           /\ r.left = m.left
           /\ r.linked = m.linked
           /\ \A o \in Objects : o \notin Creatures => r.pos[o] = m.pos[o]
           /\ \A o \in InWorld(m) : o \in InWorld(r) /\ r.pos[o] = m.pos[o]
  <1> DEFINE N == Loaded(m, C)
             p == PushCreatures(m, N)
             r == LoadObjects(m, C)
             homes == {CellOf(SpawnAt(s)) : s \in ToLoad(m, C)}
  <1>1. m \in MapState /\ C \in SUBSET Cells /\ InWorld(m) \subseteq Objects
    BY WorldFacts DEF Sound, Standing, MapState
  <1>2. /\ N \in SUBSET Creatures /\ N \cap (InWorld(m) \cup Waiting(m)) = {}
        /\ r \in MapState
        /\ r.pos = p.pos /\ r.inRange = p.inRange
        /\ InWorld(r) = InWorld(m) \cup N
        /\ r.respawning = m.respawning /\ r.forced = m.forced
        /\ r.left = m.left
        /\ r.linked = m.linked /\ r.allocated = p.allocated
        /\ r.active = m.active /\ r.awake = p.awake
        /\ r.pending = m.pending /\ r.events = m.events
        /\ r.loaded = m.loaded \cup homes
        /\ r.gone = m.gone \cup (ToLoad(m, C) \cap m.barred)
    BY <1>1, LoadObjectsFields
  <1>3. \A o \in Objects \ N : r.pos[o] = m.pos[o]
    BY <1>1, <1>2, PushCreaturesFields
  <1>4. /\ p.respawning = m.respawning /\ p.linked = m.linked
        /\ p.active = m.active /\ p.loaded = m.loaded
        /\ p.pending = m.pending /\ p.events = m.events
        /\ p.allocated = m.allocated \cup {Home(o) : o \in N}
    BY <1>1, <1>2, PushCreaturesFields
  <1>5. Standing(p) /\ \A X : RangeComplete(m, X) => RangeComplete(p, X)
    <2>1. Standing(p)
      BY <1>2, PushCreaturesKeeps DEF Sound
    <2>2. \A X : RangeComplete(m, X) => RangeComplete(p, X)
      BY <1>1, <1>2, PushCreaturesRange DEF Sound, Standing
    <2> QED BY <2>1, <2>2
  <1>6. homes \subseteq C
    BY DEF ToLoad
  <1>7. \A s : \A i : <<s, i>> \in N => s \in ToLoad(m, C) \ m.barred /\ i = FreeCopy(m, s)
    BY DEF Loaded
  <1>8. \A s \in ToLoad(m, C) \ m.barred :
           <<s, FreeCopy(m, s)>> \in N /\ <<s, FreeCopy(m, s)>> \in Creatures
    BY <1>2 DEF Loaded
  <1> HIDE DEF N, p, r, homes
  <1>9. Placed(r) /\ OnceDead(r) /\ AwakeInActive(r) /\ RangeSound(r)
    <2>1. Placed(r)
      <3>1. homes \subseteq r.allocated
        BY <1>2, <1>4, <1>5, <1>6 DEF Standing, Placed
      <3> QED BY <3>1, <1>2, <1>4, <1>5, SamePlaces DEF Standing, Placed
    <2>2. OnceDead(r)
      BY <1>2, <1>4, <1>5, SamePlaces, SameSpawns DEF Standing
    <2>3. AwakeInActive(r)
      BY <1>2, <1>4, <1>5, SamePlaces DEF Standing, AwakeInActive
    <2> QED BY <2>1, <2>2, <2>3, <1>2, <1>5, SameRange DEF Standing
  <1>10. IdlePending(r)
    <2>1. \A c : CanUnload(r, c) = CanUnload(p, c)
      BY <1>2, <1>4, SamePlaces
    <2>2. C \subseteq r.active
      BY <1>2
    <2> QED BY <2>1, <2>2, <1>2, <1>4, <1>5, <1>6 DEF Standing, IdlePending
  <1>11. Waiting(r) = Waiting(m)
    BY <1>2 DEF Waiting
  <1>12. SpawnsOnce(r)
    <2> SUFFICES ASSUME NEW s \in Homebodies
                 PROVE  LET c == CellOf(SpawnAt(s))
                        IN /\ c \notin r.loaded => Alive(r, s) = {} /\ s \notin r.gone
                           /\ s \in r.gone => Alive(r, s) = {}
                           /\ c \in r.loaded /\ s \notin r.gone
                                => \E b \in Creatures : Alive(r, s) = {b}
                           /\ \A b \in {s} \X (1 .. Copies) :
                                \A d \in Cells : b \in r.respawning[d]
                                    => d = c /\ <<"respawn", b, c>> \in r.events
      BY DEF SpawnsOnce
    <2> DEFINE c == CellOf(SpawnAt(s))
    <2>1. s \in Spawns
      BY DEF Homebodies
    <2>2. \A b \in {s} \X (1 .. Copies) :
             \A d \in Cells : b \in r.respawning[d]
                 => d = c /\ <<"respawn", b, c>> \in r.events
      BY <1>2 DEF Sound, SpawnsOnce
    <2>3. CASE s \in ToLoad(m, C)
      <3>1. Alive(m, s) = {} /\ s \notin m.gone /\ c \in r.loaded
        BY <2>3, <1>2 DEF Sound, SpawnsOnce, ToLoad, homes
      <3>2. CASE s \in m.barred
        <4>1. Alive(r, s) = {}
          BY <3>1, <3>2, <1>2, <1>7, <1>11 DEF Alive
        <4>2. s \in r.gone
          BY <3>2, <2>3, <1>2
        <4> QED BY <4>1, <4>2, <3>1, <2>2
      <3>3. CASE s \notin m.barred
        <4>1. Alive(r, s) = {<<s, FreeCopy(m, s)>>}
          BY <3>1, <3>3, <2>3, <1>2, <1>7, <1>8, <1>11 DEF Alive, Creatures
        <4>2. s \notin r.gone
          BY <3>1, <3>3, <1>2
        <4> QED BY <4>1, <4>2, <3>1, <3>3, <2>2, <2>3, <1>8
      <3> QED BY <3>2, <3>3
    <2>4. CASE s \notin ToLoad(m, C)
      <3>1. Alive(r, s) = Alive(m, s)
        BY <2>4, <1>2, <1>7, <1>11 DEF Alive
      <3>2. (c \in r.loaded <=> c \in m.loaded) /\ (s \in r.gone <=> s \in m.gone)
        BY <2>1, <2>4, <1>2, <1>6 DEF ToLoad
      <3> QED BY <3>1, <3>2, <2>2 DEF Sound, SpawnsOnce
    <2> QED BY <2>3, <2>4
  <1>13. ASSUME NEW D, RoomFor(m, D) PROVE RoomFor(r, D)
    <2> SUFFICES ASSUME NEW s \in Spawns, CellOf(SpawnAt(s)) \in D \ r.loaded
                 PROVE  \E i \in 1 .. Copies : <<s, i>> \notin InWorld(r) \cup Waiting(r)
      BY DEF RoomFor
    <2>1. s \notin ToLoad(m, C)
      BY <1>2 DEF homes
    <2>2. PICK i \in 1 .. Copies : <<s, i>> \notin InWorld(m) \cup Waiting(m)
      BY <1>13, <1>2 DEF RoomFor
    <2> QED BY <2>1, <2>2, <1>2, <1>7, <1>11
  <1>14. \A X : RangeComplete(m, X) => RangeComplete(r, X)
    BY <1>2, <1>5, SameRange
  <1>15. Sound(r)
    BY <1>2, <1>9, <1>10, <1>12 DEF Sound, Standing
  <1> QED BY <1>1, <1>2, <1>3, <1>13, <1>14, <1>15 DEF r

\* What a visit to the cells around one leaves.
Refreshed(m, W) == (m.active \ W) \cup {c \in W : CellActive(m, c)}

\* An operation that only goes about cells and creatures.
Tends(m, r) ==
    /\ Sound(r)
    /\ \A D : RoomFor(m, D) => RoomFor(r, D)
    /\ \A X : RangeComplete(m, X) => RangeComplete(r, X)
    /\ r.forced = m.forced /\ r.linked = m.linked
    /\ \A o \in Objects : o \notin Creatures => r.pos[o] = m.pos[o]
    /\ \A o \in InWorld(m) : o \in InWorld(r) /\ r.pos[o] = m.pos[o]

LEMMA UpdateCellActivityKeeps ==
    ASSUME NEW m, Sound(m), NEW center, NEW radius, NEW room, RoomFor(m, room),
           \A c \in Around(center, radius) :
              CellActive(m, c) /\ c \notin m.active => c \in room
    PROVE  LET r == UpdateCellActivity(m, center, radius) IN
           /\ Tends(m, r)
           /\ r.active = Refreshed(m, Around(center, radius))
           /\ r.left = m.left \ Around(center, radius)
  <1> DEFINE W   == Around(center, radius)
             z   == [m EXCEPT !.left = @ \ W]
             on  == {c \in W : CellActive(m, c) /\ c \notin m.active}
             off == {c \in W : ~CellActive(m, c) /\ c \in m.active}
             g   == GoIdle(z, off)
             a   == Activate(g, on)
             r   == LoadObjects(a, on)
  <1>1. r = UpdateCellActivity(m, center, radius)
    BY DEF UpdateCellActivity
  <1>2. on \in SUBSET Cells /\ off \in SUBSET m.active /\ off \in SUBSET Cells /\ on \subseteq room
    BY DEF Around
  <1> HIDE DEF on, off, r
  <1>3. /\ m \in MapState /\ z \in MapState /\ Sound(z) /\ z.active = m.active
        /\ z.pos = m.pos /\ z.inRange = m.inRange
        /\ z.respawning = m.respawning /\ z.forced = m.forced
        /\ z.loaded = m.loaded /\ z.linked = m.linked
        /\ z.gone = m.gone /\ z.left = m.left \ W
    <2>1. m \in MapState
      BY DEF Sound, Standing
    <2>2. z \in MapState /\ Agree(m, z) /\ z.left = m.left \ W
      BY <2>1 DEF MapState, Agree
    <2> HIDE DEF z
    <2> QED BY <2>1, <2>2, SameSound DEF Agree
  <1> HIDE DEF z
  <1>4. Sound(g) /\ g \in MapState
    BY <1>2, <1>3, GoIdleKeeps DEF Sound, Standing
  <1>5. /\ g.pos = m.pos /\ g.inRange = m.inRange
        /\ g.respawning = m.respawning /\ g.forced = m.forced
        /\ g.gone = m.gone /\ g.left = m.left \ W
        /\ g.loaded = m.loaded /\ g.linked = m.linked
        /\ g.active = m.active \ off
    BY <1>2, <1>3, GoIdleFields
  <1> HIDE DEF g
  <1>6. Sound(a)
    BY <1>2, <1>4, ActivateKeeps
  <1>7. /\ a.pos = g.pos /\ a.inRange = g.inRange
        /\ a.respawning = g.respawning /\ a.forced = g.forced
        /\ a.gone = g.gone /\ a.left = g.left
        /\ a.loaded = g.loaded /\ a.linked = g.linked
        /\ a.active = g.active \cup on
    BY <1>2, <1>4, ActivateFields
  <1> HIDE DEF a
  <1>8. /\ InWorld(a) = InWorld(m)
        /\ \A X : RangeComplete(m, X) => RangeComplete(a, X)
    BY <1>5, <1>7, SamePlaces, SameRange
  <1>9. \A D : RoomFor(m, D) => RoomFor(a, D)
    BY <1>5, <1>7, <1>8 DEF RoomFor, Waiting
  <1>10. RoomFor(a, on)
    BY <1>2, <1>9 DEF RoomFor
  <1>11. /\ Sound(r)
         /\ \A D : RoomFor(a, D) => RoomFor(r, D)
         /\ \A X : RangeComplete(a, X) => RangeComplete(r, X)
         /\ r.active = a.active /\ r.forced = a.forced
         /\ r.left = a.left
         /\ r.linked = a.linked
         /\ \A o \in Objects : o \notin Creatures => r.pos[o] = a.pos[o]
         /\ \A o \in InWorld(a) : o \in InWorld(r) /\ r.pos[o] = a.pos[o]
    BY <1>6, <1>7, <1>10, LoadObjectsKeeps DEF r
  <1>12. r.active = Refreshed(m, W) /\ r.left = m.left \ W
    BY <1>5, <1>7, <1>11 DEF Refreshed, on, off
  <1>13. Tends(m, r)
    BY <1>5, <1>7, <1>8, <1>9, <1>11 DEF Tends
  <1> QED BY <1>1, <1>12, <1>13

-----------------------------------------------------------------------------
(* Objects that move                                                        *)

\* The mover at its new place, out of range of what it has left behind.
Displaced(m, o, x) ==
    DropOutOfRange([m EXCEPT !.pos[o] = x, !.allocated = @ \cup {CellOf(x)}], o)

LEMMA DisplacedFields ==
    ASSUME NEW m \in MapState, RangeSound(m),
           NEW o \in InWorld(m), NEW x \in Positions
    PROVE  LET r == Displaced(m, o, x) IN
           /\ r \in MapState
           /\ r.pos[o] = x
           /\ \A b \in Objects \ {o} : r.pos[b] = m.pos[b]
           /\ InWorld(r) = InWorld(m)
           /\ r.respawning = m.respawning /\ r.forced = m.forced
           /\ r.gone = m.gone /\ r.left = m.left
           /\ r.loaded = m.loaded /\ r.linked = m.linked
           /\ m.allocated \subseteq r.allocated /\ CellOf(x) \in r.allocated
           /\ r.active = m.active /\ r.awake = m.awake
           /\ r.pending = m.pending /\ r.events = m.events
           /\ RangeSound(r)
           /\ RangeComplete(m, {}) => RangeComplete(r, {o})
  <1> DEFINE q == [m EXCEPT !.pos[o] = x, !.allocated = @ \cup {CellOf(x)}]
             r == Displaced(m, o, x)
             far == {b \in q.inRange[o] : Distance(q.pos[o], q.pos[b]) > UpdateDistance}
             left == [b \in Objects |-> IF b = o THEN q.inRange[b] \ far
                                        ELSE IF b \in far THEN q.inRange[b] \ {o}
                                        ELSE q.inRange[b]]
  <1>1. o \in Objects /\ CellOf(x) \in Cells /\ InWorld(m) \subseteq Objects /\ x # Nowhere
    BY WorldFacts, CellOfPositions, ObjectFacts
  <1>2. /\ q \in MapState
        /\ q.pos[o] = x
        /\ \A b \in Objects \ {o} : q.pos[b] = m.pos[b]
        /\ q.inRange = m.inRange
        /\ q.respawning = m.respawning /\ q.forced = m.forced
        /\ q.gone = m.gone /\ q.left = m.left
        /\ q.loaded = m.loaded /\ q.linked = m.linked
        /\ q.allocated = m.allocated \cup {CellOf(x)}
        /\ q.active = m.active /\ q.awake = m.awake
        /\ q.pending = m.pending /\ q.events = m.events
    BY <1>1 DEF MapState
  <1>3. r = [q EXCEPT !.inRange = left]
    BY DEF Displaced, DropOutOfRange
  <1>4. left \in [Objects -> SUBSET Objects]
    BY <1>2 DEF MapState
  <1>5. \A b \in Objects :
          left[b] = IF b = o THEN m.inRange[b] \ far
                    ELSE IF b \in far THEN m.inRange[b] \ {o} ELSE m.inRange[b]
    BY <1>2
  <1>6. far = {b \in m.inRange[o] : Distance(q.pos[o], q.pos[b]) > UpdateDistance}
    BY <1>2
  <1> HIDE DEF q, left, r, far
  <1>7. /\ r \in MapState /\ r.inRange = left
        /\ r.pos = q.pos
        /\ r.respawning = q.respawning /\ r.forced = q.forced
        /\ r.gone = q.gone /\ r.left = q.left
        /\ r.loaded = q.loaded /\ r.linked = q.linked
        /\ r.allocated = q.allocated
        /\ r.active = q.active /\ r.awake = q.awake
        /\ r.pending = q.pending /\ r.events = q.events
    BY <1>2, <1>3, <1>4 DEF MapState
  <1>8. InWorld(r) = InWorld(m)
    BY <1>1, <1>2, <1>7 DEF InWorld
  <1>9. \A a, b \in InWorld(m) \ {o} :
           /\ Near(r, a, b) = Near(m, a, b)
           /\ Meets(r, a, b) = Meets(m, a, b)
    BY <1>1, <1>2, <1>7 DEF Near, Meets, CellAt
  <1>10. \A b \in InWorld(m) : Near(r, o, b) <=> Near(r, b, o)
    BY <1>7, <1>8, MeetsSymmetric
  <1>11. \A b \in m.inRange[o] \ far : Near(r, o, b)
    <2> SUFFICES ASSUME NEW b \in m.inRange[o] \ far PROVE Near(r, o, b)
      OBVIOUS
    <2>1. b \in InWorld(m)
      BY <1>1 DEF RangeSound
    <2>2. r.pos[o] \in Positions /\ r.pos[b] \in Positions
      BY <2>1, <1>7, <1>8, WorldFacts
    <2>3. Distance(r.pos[o], r.pos[b]) \in Int /\ UpdateDistance \in Int
      BY <2>2, CellsAssumption DEF CellsAssumption, Distance, Positions
    <2>4. ~(Distance(r.pos[o], r.pos[b]) > UpdateDistance)
      BY <1>6, <1>7
    <2> QED BY <2>3, <2>4 DEF Near
  <1>12. RangeSound(r)
    <2> SUFFICES ASSUME NEW a \in Objects
                 PROVE  /\ a \notin InWorld(r) => r.inRange[a] = {}
                        /\ \A b \in r.inRange[a] :
                              /\ b \in InWorld(r) \ {a}
                              /\ a \in r.inRange[b] /\ Near(r, a, b)
      BY DEF RangeSound
    <2>1. a \notin InWorld(m) => m.inRange[a] = {}
      BY DEF RangeSound
    <2>2. /\ a \notin InWorld(m) => m.inRange[a] = {}
          /\ r.inRange[a] \subseteq m.inRange[a]
      <3>1. r.inRange[a] = IF a = o THEN m.inRange[a] \ far
                           ELSE IF a \in far THEN m.inRange[a] \ {o} ELSE m.inRange[a]
        BY <1>5, <1>7
      <3> QED BY <3>1, <2>1
    <2> SUFFICES ASSUME NEW b \in r.inRange[a]
                 PROVE  b \in InWorld(m) \ {a} /\ a \in r.inRange[b] /\ Near(r, a, b)
      BY <2>2, <1>8
    <2>3. b \in InWorld(m) \ {a} /\ a \in m.inRange[b] /\ a \in InWorld(m)
      BY <2>2, <1>1 DEF RangeSound
    <2>4. CASE a = o
      BY <2>3, <2>4, <1>1, <1>5, <1>7, <1>11
    <2>5. CASE b = o
      <3>1. a \notin far /\ a \in m.inRange[o]
        BY <2>3, <2>5, <1>5, <1>7
      <3> QED BY <3>1, <2>3, <2>5, <1>1, <1>5, <1>7, <1>10, <1>11
    <2>6. CASE a # o /\ b # o
      <3>1. a \in r.inRange[b]
        BY <2>3, <2>6, <1>1, <1>5, <1>7
      <3>2. Near(m, a, b)
        BY <2>2, <2>3 DEF RangeSound
      <3> QED BY <3>1, <3>2, <2>3, <2>6, <1>9
    <2> QED BY <2>4, <2>5, <2>6
  <1>13. ASSUME RangeComplete(m, {}) PROVE RangeComplete(r, {o})
    <2> SUFFICES ASSUME NEW a \in InWorld(m) \ {o}, NEW b \in InWorld(m) \ {o},
                        Meets(m, a, b)
                 PROVE  b \in r.inRange[a]
      BY <1>8, <1>9 DEF RangeComplete
    <2>1. b \in m.inRange[a]
      BY <1>13 DEF RangeComplete
    <2> QED BY <2>1, <1>1, <1>5, <1>7
  <1> QED BY <1>2, <1>7, <1>8, <1>12, <1>13 DEF r

LEMMA DisplacedKeeps ==
    ASSUME NEW m, Sound(m), NEW o \in InWorld(m) \ Corpses, NEW x \in Positions,
           o \in Creatures => x \in Path(o[1])
    PROVE  LET r == Displaced(m, o, x) IN
           /\ Placed(r) /\ OnceDead(r) /\ IdlePending(r) /\ SpawnsOnce(r)
           /\ o \in Players => Sound(r)
           /\ \A D : RoomFor(m, D) => RoomFor(r, D)
  <1> DEFINE r == Displaced(m, o, x)
  <1>1. m \in MapState /\ InWorld(m) \subseteq Objects
    BY WorldFacts DEF Sound, Standing
  <1>2. /\ r \in MapState /\ r.pos[o] = x
        /\ \A b \in Objects \ {o} : r.pos[b] = m.pos[b]
        /\ InWorld(r) = InWorld(m)
        /\ r.respawning = m.respawning /\ r.forced = m.forced
        /\ r.gone = m.gone /\ r.left = m.left
        /\ r.loaded = m.loaded /\ r.linked = m.linked
        /\ m.allocated \subseteq r.allocated /\ CellOf(x) \in r.allocated
        /\ r.active = m.active /\ r.awake = m.awake
        /\ r.pending = m.pending /\ r.events = m.events
        /\ RangeSound(r)
    <2>1. RangeSound(m) /\ o \in InWorld(m)
      BY DEF Sound, Standing
    <2> QED BY ZenonT(40), <1>1, <2>1, DisplacedFields
  <1> HIDE DEF r
  <1>3. Placed(r)
    <2>1. \A a \in InWorld(r) : CellAt(r, a) \in r.allocated
      BY <1>1, <1>2 DEF Sound, Standing, Placed, CellAt
    <2>2. \A b \in InWorld(r) \cap Creatures : r.pos[b] \in Path(b[1])
      BY <1>1, <1>2 DEF Sound, Standing, Placed
    <2> QED BY <2>1, <2>2, <1>2 DEF Sound, Standing, Placed
  <1>4. OnceDead(r) /\ SpawnsOnce(r)
    BY <1>2, SameSpawns DEF Sound, Standing, RespawnsStay
  <1>5. IdlePending(r)
    <2>1. \A k \in m.linked : r.pos[k] = m.pos[k]
      BY <1>1, <1>2, ObjectFacts DEF MapState
    <2>2. \A c : CanUnload(r, c) = CanUnload(m, c)
      BY <2>1, <1>2, SameObstacles
    <2> QED BY <2>2, <1>2 DEF Sound, Standing, IdlePending
  <1>6. ASSUME o \in Players PROVE Sound(r)
    <2>1. AwakeInActive(r)
      <3>1. ObjectsIn(r, r.active) \cap Creatures = ObjectsIn(m, m.active) \cap Creatures
        BY <1>1, <1>2, <1>6, ObjectFacts DEF ObjectsIn, CellAt
      <3> QED BY <3>1, <1>2 DEF Sound, Standing, AwakeInActive
    <2> QED BY <2>1, <1>2, <1>3, <1>4, <1>5 DEF Sound, Standing
  <1>7. \A D : RoomFor(m, D) => RoomFor(r, D)
    BY <1>2 DEF RoomFor, Waiting
  <1> QED BY <1>3, <1>4, <1>5, <1>6, <1>7 DEF r

-----------------------------------------------------------------------------
(* Objects that leave                                                       *)

LEMMA RemoveObjectsFields ==
    ASSUME NEW m \in MapState, NEW O \in SUBSET Objects
    PROVE  LET r == RemoveObjects(m, O) IN
           /\ r \in MapState
           /\ \A o \in Objects \ O : r.pos[o] = m.pos[o]
           /\ InWorld(r) = InWorld(m) \ O
           /\ \A o \in O : r.inRange[o] = {}
           /\ \A o \in Objects \ O :
                 r.inRange[o] = m.inRange[o] \ {b \in O : o \in m.inRange[b]}
           /\ r.respawning = m.respawning /\ r.forced = m.forced
           /\ r.gone = m.gone /\ r.left = m.left
           /\ r.loaded = m.loaded /\ r.linked = m.linked \ O
           /\ r.allocated = m.allocated
           /\ r.active = m.active /\ r.awake = m.awake \ O
           /\ r.pending = m.pending /\ r.events = m.events
  <1> DEFINE left == [o \in Objects |->
                         IF o \in O THEN {}
                         ELSE m.inRange[o] \ {b \in O : o \in m.inRange[b]}]
             away == [o \in Objects |-> IF o \in O THEN Nowhere ELSE m.pos[o]]
             out == [m EXCEPT !.inRange = left]
             r == RemoveObjects(m, O)
  <1>1. left \in [Objects -> SUBSET Objects]
    BY DEF MapState
  <1>2. away \in [Objects -> Positions \cup {Nowhere}]
    BY DEF MapState
  <1>3. out = LeaveInRangeSets(m, O)
    BY DEF LeaveInRangeSets
  <1>4. r = [out EXCEPT !.pos = [o \in Objects |-> IF o \in O THEN Nowhere ELSE out.pos[o]],
                        !.awake = @ \ O, !.linked = @ \ O]
    BY <1>3 DEF RemoveObjects
  <1>5. \A o \in Objects : /\ left[o] = IF o \in O THEN {} ELSE
                                 m.inRange[o] \ {b \in O : o \in m.inRange[b]}
                           /\ away[o] = IF o \in O THEN Nowhere ELSE m.pos[o]
    OBVIOUS
  <1> HIDE DEF left
  <1>6. /\ out \in MapState /\ out.pos = m.pos /\ out.inRange = left
        /\ out.respawning = m.respawning /\ out.forced = m.forced
        /\ out.gone = m.gone /\ out.left = m.left
        /\ out.loaded = m.loaded /\ out.linked = m.linked
        /\ out.allocated = m.allocated
        /\ out.active = m.active /\ out.awake = m.awake
        /\ out.pending = m.pending /\ out.events = m.events
    BY <1>1 DEF MapState
  <1>7. r = [out EXCEPT !.pos = away, !.awake = @ \ O, !.linked = @ \ O]
    BY <1>4, <1>6
  <1> HIDE DEF out, away, r
  <1>8. /\ r \in MapState /\ r.pos = away /\ r.inRange = left
        /\ r.respawning = m.respawning /\ r.forced = m.forced
        /\ r.gone = m.gone /\ r.left = m.left
        /\ r.loaded = m.loaded /\ r.linked = m.linked \ O
        /\ r.allocated = m.allocated
        /\ r.active = m.active /\ r.awake = m.awake \ O
        /\ r.pending = m.pending /\ r.events = m.events
    BY <1>2, <1>6, <1>7 DEF MapState
  <1>9. InWorld(r) = InWorld(m) \ O
    BY <1>5, <1>8 DEF InWorld
  <1> QED BY <1>5, <1>8, <1>9 DEF r

LEMMA RemoveObjectsKeeps ==
    ASSUME NEW m, Standing(m), NEW O \in SUBSET Objects, O \cap m.linked = {}
    PROVE  LET r == RemoveObjects(m, O) IN
           /\ Standing(r)
           /\ \A X : RangeComplete(m, X) => RangeComplete(r, X)
  <1> DEFINE r == RemoveObjects(m, O)
  <1>1. m \in MapState /\ InWorld(m) \subseteq Objects
    BY WorldFacts DEF Standing
  <1>2. /\ r \in MapState
        /\ \A o \in Objects \ O : r.pos[o] = m.pos[o]
        /\ InWorld(r) = InWorld(m) \ O
        /\ \A o \in O : r.inRange[o] = {}
        /\ \A o \in Objects \ O :
              r.inRange[o] = m.inRange[o] \ {b \in O : o \in m.inRange[b]}
    BY <1>1, RemoveObjectsFields
  <1>3. /\ r.respawning = m.respawning
        /\ r.loaded = m.loaded /\ r.linked = m.linked \ O
        /\ r.allocated = m.allocated
        /\ r.active = m.active /\ r.awake = m.awake \ O
        /\ r.pending = m.pending /\ r.events = m.events
    BY <1>1, RemoveObjectsFields
  <1> HIDE DEF r
  <1>4. \A o \in InWorld(r) : CellAt(r, o) = CellAt(m, o)
    BY <1>1, <1>2 DEF CellAt
  <1>5. \A a, b \in InWorld(r) :
           /\ Near(r, a, b) = Near(m, a, b)
           /\ Meets(r, a, b) = Meets(m, a, b)
    BY <1>1, <1>2, <1>4 DEF Near, Meets
  <1>6. Placed(r)
    BY <1>1, <1>2, <1>3, <1>4 DEF Standing, Placed
  <1>7. OnceDead(r)
    BY <1>2, <1>3 DEF Standing, OnceDead, Waiting
  <1>8. AwakeInActive(r)
    BY <1>2, <1>3, <1>4 DEF Standing, AwakeInActive, ObjectsIn
  <1>9. IdlePending(r)
    <2>1. \A k \in m.linked : r.pos[k] = m.pos[k]
      BY <1>1, <1>2, ObjectFacts DEF MapState
    <2>2. r.linked = m.linked
      BY <1>3
    <2>3. \A c : CanUnload(r, c) = CanUnload(m, c)
      BY <2>1, <2>2, SameObstacles
    <2> QED BY <2>3, <1>3 DEF Standing, IdlePending
  <1>10. RangeSound(r)
    <2> SUFFICES ASSUME NEW o \in Objects
                 PROVE  /\ o \notin InWorld(r) => r.inRange[o] = {}
                        /\ \A b \in r.inRange[o] :
                              /\ b \in InWorld(r) \ {o}
                              /\ o \in r.inRange[b] /\ Near(r, o, b)
      BY DEF RangeSound
    <2>1. RangeSound(m)
      BY DEF Standing
    <2>2. CASE o \in O
      BY <2>2, <1>2
    <2>3. CASE o \notin O
      <3>1. r.inRange[o] = m.inRange[o] \ {b \in O : o \in m.inRange[b]}
        BY <2>3, <1>2
      <3>2. o \notin InWorld(r) => r.inRange[o] = {}
        BY <3>1, <2>1, <2>3, <1>2 DEF RangeSound
      <3>3. ASSUME NEW b \in r.inRange[o]
            PROVE  b \in InWorld(r) \ {o} /\ o \in r.inRange[b] /\ Near(r, o, b)
        <4>1. /\ b \in InWorld(m) \ {o} /\ o \in m.inRange[b] /\ Near(m, o, b)
              /\ o \in InWorld(m)
          BY <3>1, <3>3, <2>1 DEF RangeSound
        <4>2. b \notin O
          BY <4>1, <3>1, <3>3
        <4>3. o \in r.inRange[b]
          BY <4>1, <4>2, <2>3, <1>1, <1>2
        <4> QED BY <4>1, <4>2, <4>3, <2>3, <1>2, <1>5
      <3> QED BY <3>2, <3>3
    <2> QED BY <2>2, <2>3
  <1>11. ASSUME NEW X, RangeComplete(m, X) PROVE RangeComplete(r, X)
    <2> SUFFICES ASSUME NEW a \in InWorld(r) \ X, NEW b \in InWorld(r) \ X,
                        Meets(m, a, b)
                 PROVE  b \in r.inRange[a]
      BY <1>5 DEF RangeComplete
    <2>1. b \in m.inRange[a]
      BY <1>2, <1>11 DEF RangeComplete
    <2> QED BY <2>1, <1>1, <1>2
  <1> QED BY <1>2, <1>6, <1>7, <1>8, <1>9, <1>10, <1>11 DEF Standing, r

-----------------------------------------------------------------------------
(* Players and corpses that come                                            *)

LEMMA SameCreatures ==
    ASSUME NEW m \in MapState, NEW r \in MapState,
           InWorld(r) \cap Creatures = InWorld(m) \cap Creatures,
           r.respawning = m.respawning
    PROVE  /\ OnceDead(m) => OnceDead(r)
           /\ SpawnsOnce(m) /\ r.loaded = m.loaded /\ r.gone = m.gone
              /\ RespawnsStay(m, r)
                => SpawnsOnce(r)
           /\ r.loaded = m.loaded => \A D : RoomFor(m, D) => RoomFor(r, D)
  <1>1. Waiting(r) = Waiting(m) /\ Waiting(m) \subseteq Creatures
    BY WorldFacts DEF Waiting
  <1>2. OnceDead(m) => OnceDead(r)
    BY <1>1 DEF OnceDead
  <1>3. \A s \in Spawns : {s} \X (1 .. Copies) \subseteq Creatures
    BY DEF Creatures
  <1>4. \A s \in Spawns : Alive(r, s) = Alive(m, s)
    BY <1>1, <1>3 DEF Alive
  <1>5. Homebodies \subseteq Spawns
    BY DEF Homebodies
  <1>6. SpawnsOnce(m) /\ r.loaded = m.loaded /\ r.gone = m.gone /\ RespawnsStay(m, r)
          => SpawnsOnce(r)
    BY <1>4, <1>5 DEF SpawnsOnce, RespawnsStay
  <1>7. \A s \in Spawns, i \in 1 .. Copies :
           <<s, i>> \in InWorld(m) \cup Waiting(m) <=> <<s, i>> \in InWorld(r) \cup Waiting(r)
    BY <1>1, <1>3
  <1>8. r.loaded = m.loaded => \A D : RoomFor(m, D) => RoomFor(r, D)
    BY <1>7 DEF RoomFor
  <1> QED BY <1>2, <1>6, <1>8

LEMMA ArrivalRange ==
    ASSUME NEW m \in MapState, RangeSound(m), NEW r \in MapState,
           NEW o \in Objects \ InWorld(m), r.pos[o] \in Positions,
           \A b \in Objects \ {o} : r.pos[b] = m.pos[b], r.inRange = m.inRange
    PROVE  /\ InWorld(r) = InWorld(m) \cup {o}
           /\ \A b \in InWorld(m) : CellAt(r, b) = CellAt(m, b)
           /\ RangeSound(r)
           /\ RangeComplete(m, {}) => RangeComplete(r, {o})
  <1>1. InWorld(r) = InWorld(m) \cup {o} /\ InWorld(m) \subseteq Objects
    BY ObjectFacts DEF InWorld
  <1>2. \A a, b \in InWorld(m) :
           /\ CellAt(r, b) = CellAt(m, b)
           /\ Near(r, a, b) = Near(m, a, b)
           /\ Meets(r, a, b) = Meets(m, a, b)
    BY <1>1 DEF Near, Meets, CellAt
  <1>3. RangeSound(r)
    <2> SUFFICES ASSUME NEW a \in Objects
                 PROVE  /\ a \notin InWorld(r) => r.inRange[a] = {}
                        /\ \A b \in r.inRange[a] :
                              /\ b \in InWorld(r) \ {a}
                              /\ a \in r.inRange[b] /\ Near(r, a, b)
      BY DEF RangeSound
    <2>1. a \notin InWorld(m) => m.inRange[a] = {}
      BY DEF RangeSound
    <2> QED BY <2>1, <1>1, <1>2 DEF RangeSound
  <1>4. RangeComplete(m, {}) => RangeComplete(r, {o})
    BY <1>1, <1>2 DEF RangeComplete
  <1> QED BY <1>1, <1>2, <1>3, <1>4

\* A player, or a corpse that keeps its cell, put at x.
PlayerAt(m, p, x) == [m EXCEPT !.pos[p] = x, !.allocated = @ \cup {CellOf(x)}]
CorpseAt(m, k, x) ==
    [m EXCEPT !.pos[k] = x,
              !.allocated = @ \cup {CellOf(x)},
              !.linked  = @ \cup {k},
              !.pending = @ \ {CellOf(x)},
              !.events  = @ \ UnloadEvents({CellOf(x)})]

LEMMA PlayerArrives ==
    ASSUME NEW m, Sound(m), NEW p \in Players \ InWorld(m), NEW x \in Positions
    PROVE  LET r == PlayerAt(m, p, x) IN
           /\ Sound(r)
           /\ RangeComplete(m, {}) => RangeComplete(r, {p})
           /\ \A D : RoomFor(m, D) => RoomFor(r, D)
           /\ r.pos[p] = x /\ p \in InWorld(r)
           /\ \A b \in Objects \ {p} : r.pos[b] = m.pos[b]
           /\ r.active = m.active /\ r.forced = m.forced
           /\ r.gone = m.gone /\ r.left = m.left
  <1> DEFINE r == PlayerAt(m, p, x)
  <1>1. /\ m \in MapState /\ InWorld(m) \subseteq Objects /\ RangeSound(m)
        /\ CellOf(x) \in Cells /\ p \in Objects /\ p \notin Creatures /\ p \notin Corpses
    BY WorldFacts, CellOfPositions, ObjectFacts DEF Sound, Standing
  <1>2. /\ r \in MapState /\ r.pos[p] = x
        /\ \A b \in Objects \ {p} : r.pos[b] = m.pos[b]
        /\ r.inRange = m.inRange
        /\ r.respawning = m.respawning /\ r.forced = m.forced
        /\ r.gone = m.gone /\ r.left = m.left
        /\ r.loaded = m.loaded /\ r.linked = m.linked
        /\ r.allocated = m.allocated \cup {CellOf(x)}
        /\ r.active = m.active /\ r.awake = m.awake
        /\ r.pending = m.pending /\ r.events = m.events
    BY <1>1 DEF PlayerAt, MapState
  <1> HIDE DEF r
  <1>3. /\ InWorld(r) = InWorld(m) \cup {p}
        /\ \A b \in InWorld(m) : CellAt(r, b) = CellAt(m, b)
        /\ RangeSound(r)
        /\ RangeComplete(m, {}) => RangeComplete(r, {p})
    BY <1>1, <1>2, ArrivalRange
  <1>4. OnceDead(r) /\ SpawnsOnce(r) /\ \A D : RoomFor(m, D) => RoomFor(r, D)
    BY <1>1, <1>2, <1>3, SameCreatures DEF Sound, Standing, RespawnsStay
  <1>5. Placed(r)
    <2>1. CellAt(r, p) = CellOf(x)
      BY <1>2 DEF CellAt
    <2>2. \A b \in InWorld(r) \cap Creatures : r.pos[b] \in Path(b[1])
      BY <1>1, <1>2, <1>3 DEF Sound, Standing, Placed
    <2> QED BY <2>1, <2>2, <1>2, <1>3 DEF Sound, Standing, Placed
  <1>6. AwakeInActive(r)
    <2>1. ObjectsIn(r, r.active) \cap Creatures = ObjectsIn(m, m.active) \cap Creatures
      BY <1>1, <1>2, <1>3 DEF ObjectsIn
    <2> QED BY <2>1, <1>2 DEF Sound, Standing, AwakeInActive
  <1>7. IdlePending(r)
    <2>1. \A k \in m.linked : r.pos[k] = m.pos[k]
      BY <1>1, <1>2, ObjectFacts DEF MapState
    <2>2. \A c : CanUnload(r, c) = CanUnload(m, c)
      BY <2>1, <1>2, SameObstacles
    <2> QED BY <2>2, <1>2 DEF Sound, Standing, IdlePending
  <1>8. Sound(r)
    BY <1>2, <1>3, <1>4, <1>5, <1>6, <1>7 DEF Sound, Standing
  <1> QED BY <1>2, <1>3, <1>4, <1>8 DEF r

LEMMA CorpseArrives ==
    ASSUME NEW m, Sound(m), NEW k \in Corpses \ InWorld(m), NEW x \in Positions
    PROVE  LET r == CorpseAt(m, k, x) IN
           /\ Sound(r)
           /\ RangeComplete(m, {}) => RangeComplete(r, {k})
           /\ k \in InWorld(r)
           /\ \A b \in Objects \ {k} : r.pos[b] = m.pos[b]
           /\ r.active = m.active /\ r.forced = m.forced
           /\ r.gone = m.gone /\ r.left = m.left
  <1> DEFINE r == CorpseAt(m, k, x)
             cell == CellOf(x)
  <1>1. /\ m \in MapState /\ InWorld(m) \subseteq Objects /\ RangeSound(m)
        /\ cell \in Cells /\ k \in Objects /\ k \notin Creatures /\ k \notin m.linked
    BY WorldFacts, CellOfPositions, ObjectFacts DEF Sound, Standing, Placed
  <1>2. /\ r \in MapState /\ r.pos[k] = x
        /\ \A b \in Objects \ {k} : r.pos[b] = m.pos[b]
        /\ r.inRange = m.inRange
        /\ r.respawning = m.respawning /\ r.forced = m.forced
        /\ r.gone = m.gone /\ r.left = m.left
        /\ r.loaded = m.loaded /\ r.linked = m.linked \cup {k}
        /\ r.allocated = m.allocated \cup {cell}
        /\ r.active = m.active /\ r.awake = m.awake
        /\ r.pending = m.pending \ {cell}
        /\ r.events = m.events \ UnloadEvents({cell})
    BY <1>1 DEF CorpseAt, MapState
  <1>3. CellAt(r, k) = cell
    BY <1>2 DEF CellAt
  <1> HIDE DEF r, cell
  <1>4. /\ InWorld(r) = InWorld(m) \cup {k}
        /\ \A b \in InWorld(m) : CellAt(r, b) = CellAt(m, b)
        /\ RangeSound(r)
        /\ RangeComplete(m, {}) => RangeComplete(r, {k})
    BY <1>1, <1>2, ArrivalRange
  <1>5. RespawnsStay(m, r)
    BY <1>2, UnloadRespawn DEF RespawnsStay
  <1>6. OnceDead(r) /\ SpawnsOnce(r)
    BY <1>1, <1>2, <1>4, <1>5, SameCreatures DEF Sound, Standing
  <1>7. Placed(r)
    <2>1. \A b \in InWorld(r) \cap Creatures : r.pos[b] \in Path(b[1])
      BY <1>1, <1>2, <1>4 DEF Sound, Standing, Placed
    <2> QED BY <2>1, <1>2, <1>3, <1>4 DEF Sound, Standing, Placed
  <1>8. AwakeInActive(r)
    <2>1. ObjectsIn(r, r.active) \cap Creatures = ObjectsIn(m, m.active) \cap Creatures
      BY <1>1, <1>2, <1>4 DEF ObjectsIn
    <2> QED BY <2>1, <1>2 DEF Sound, Standing, AwakeInActive
  <1>9. IdlePending(r)
    <2>1. \A c : CanUnload(r, c) <=> CanUnload(m, c) /\ c # cell
      <3> SUFFICES ASSUME NEW c
                   PROVE  CanUnload(r, c) <=> CanUnload(m, c) /\ c # cell
        OBVIOUS
      <3>1. \A h : h \in r.linked \cap ObjectsIn(r, {c})
                     <=> h \in m.linked \cap ObjectsIn(m, {c}) \/ (h = k /\ c = cell)
        BY <1>1, <1>2, <1>3, <1>4 DEF ObjectsIn, Sound, Standing, Placed
      <3> QED BY <3>1 DEF CanUnload
    <2>2. UnloadEvents(r.pending) = {e \in r.events : e[1] = "unload"}
      <3>1. UnloadEvents(r.pending) = UnloadEvents(m.pending) \ UnloadEvents({cell})
        BY <1>2, UnloadRespawn
      <3> QED BY <3>1, <1>2 DEF Sound, Standing, IdlePending
    <2> QED BY <2>1, <2>2, <1>2 DEF Sound, Standing, IdlePending
  <1>10. Sound(r)
    BY <1>2, <1>4, <1>6, <1>7, <1>8, <1>9 DEF Sound, Standing
  <1> QED BY <1>2, <1>4, <1>10 DEF r

-----------------------------------------------------------------------------
(* Which cells are to be active                                             *)

LEMMA AroundFacts ==
    /\ \A c, r : Around(c, r) \subseteq Cells
    /\ \A c, d \in Cells : c \in Around(d, 1) => d \in Around(c, 1) /\ d \in Around(c, 2)
    /\ \A c, old, new \in Cells :
          old \in Around(c, 1) /\ Distance(new, old) <= 1 => c \in Around(new, 2)
    /\ \A c, d \in Cells : Distance(c, d) \in Nat /\ (Distance(c, d) = 0 <=> c = d)
  BY CellsAssumption DEF CellsAssumption, Around, Cells, Distance

LEMMA PlayerActivates ==
    ASSUME NEW m, NEW p \in Players \cap InWorld(m), NEW c,
           CellAt(m, p) \in Around(c, 1)
    PROVE  CellActive(m, c)
  BY DEF CellActive, ObjectsIn

\* Only the player who comes, goes or moves can make a cell change.
LEMMA OtherPlayers ==
    ASSUME NEW m, NEW r, NEW p, r.forced = m.forced,
           \A q \in Players \ {p} : r.pos[q] = m.pos[q],
           NEW c, CellActive(r, c),
           p \in InWorld(r) => CellAt(r, p) \notin Around(c, 1)
    PROVE  CellActive(m, c)
  <1>1. PICK d \in Around(c, 1) : Players \cap ObjectsIn(r, {d}) # {} \/ d \in r.forced
    BY DEF CellActive
  <1>2. CASE d \in r.forced
    BY <1>1, <1>2 DEF CellActive
  <1>3. CASE Players \cap ObjectsIn(r, {d}) # {}
    <2>1. PICK q \in Players \cap ObjectsIn(r, {d}) : TRUE
      BY <1>3
    <2>2. q \in InWorld(r) /\ CellAt(r, q) = d /\ q # p
      BY <1>1, <2>1 DEF ObjectsIn
    <2>3. q \in ObjectsIn(m, {d})
      BY <2>1, <2>2 DEF ObjectsIn, InWorld, CellAt
    <2> QED BY <1>1, <2>1, <2>3 DEF CellActive
  <1> QED BY <1>1, <1>2, <1>3

LEMMA TendsActive ==
    ASSUME NEW m, NEW r, Tends(m, r)
    PROVE  \A c : CellActive(r, c) = CellActive(m, c)
  BY SameObstacles, ObjectFacts DEF Tends

\* A visit to the cells of W puts them right.
LEMMA VisitActive ==
    ASSUME NEW m, NEW r, NEW W \in SUBSET Cells,
           \A c : CellActive(r, c) = CellActive(m, c), r.active = Refreshed(m, W),
           r.left = m.left \ W
    PROVE  /\ (\A c \in Cells \ W : CellActive(m, c) => c \in m.active) => NobodyFrozen(r)
           /\ /\ m.left \subseteq m.active
              /\ \A c \in m.active \ W : CellActive(m, c) \/ c \in m.left
              => RunsForSome(r)
  BY DEF NobodyFrozen, RunsForSome, Refreshed

\* The last thing a handler does for what has moved.
LEMMA InRangeLast ==
    ASSUME NEW m, Sound(m), NEW o \in InWorld(m), RangeComplete(m, {o})
    PROVE  LET r == UpdateInRangeSet(m, {o}) IN
           /\ Sound(r) /\ RangeComplete(r, {})
           /\ NobodyFrozen(m) => NobodyFrozen(r)
           /\ RunsForSome(m) => RunsForSome(r)
           /\ r.pos = m.pos /\ r.forced = m.forced
           /\ r.gone = m.gone /\ r.left = m.left
           /\ r.active = m.active /\ r.linked = m.linked
           /\ \A D : RoomFor(m, D) => RoomFor(r, D)
  <1> DEFINE r == UpdateInRangeSet(m, {o})
  <1>1. m \in MapState /\ RangeSound(m) /\ {o} \in SUBSET InWorld(m) /\ {o} \in SUBSET Objects
    BY WorldFacts DEF Sound, Standing
  <1>2. Sound(r)
    BY <1>1, UpdateInRangeSetKeeps
  <1>3. RangeComplete(r, {})
    <2>1. \A X : RangeComplete(m, X \cup {o}) => RangeComplete(r, X \ {o})
      BY <1>1, UpdateInRangeSetRange
    <2>2. {} \cup {o} = {o} /\ {} \ {o} = {}
      OBVIOUS
    <2> HIDE DEF r
    <2> QED BY <2>1, <2>2
  <1>4. /\ r.pos = m.pos /\ r.forced = m.forced /\ r.loaded = m.loaded
        /\ r.gone = m.gone /\ r.left = m.left
        /\ r.active = m.active /\ r.linked = m.linked
        /\ r.respawning = m.respawning
    BY <1>1, UpdateInRangeSetFields
  <1> HIDE DEF r
  <1>5. InWorld(r) = InWorld(m) /\ \A c : CellActive(r, c) = CellActive(m, c)
    BY <1>4, SamePlaces
  <1>6. /\ NobodyFrozen(m) => NobodyFrozen(r)
        /\ RunsForSome(m) => RunsForSome(r)
    BY <1>4, <1>5 DEF NobodyFrozen, RunsForSome
  <1>7. \A D : RoomFor(m, D) => RoomFor(r, D)
    BY <1>4, <1>5 DEF RoomFor, Waiting
  <1> QED BY <1>2, <1>3, <1>4, <1>6, <1>7 DEF r

-----------------------------------------------------------------------------
(* The players' handlers                                                    *)

LEMMA PushPlayerKeeps ==
    ASSUME NEW m, Whole(m), RoomFor(m, Cells),
           NEW p \in Players \ InWorld(m), NEW x \in Positions
    PROVE  LET r == PushPlayer(m, p, x) IN
           Whole(r) /\ (RunsForSome(m) => RunsForSome(r))
  <1> DEFINE a == PlayerAt(m, p, x)
             u == UpdateInRangeSet(a, {p})
             W == Around(CellOf(x), 2)
             r == UpdateCellActivity(u, CellOf(x), 2)
  <1>1. r = PushPlayer(m, p, x)
    BY DEF PushPlayer, PlayerAt
  <1>2. /\ Sound(a) /\ RangeComplete(a, {p}) /\ RoomFor(a, Cells)
        /\ a.pos[p] = x /\ p \in InWorld(a)
        /\ \A b \in Objects \ {p} : a.pos[b] = m.pos[b]
        /\ a.active = m.active /\ a.forced = m.forced
        /\ a.gone = m.gone /\ a.left = m.left
    <2> HIDE DEF a
    <2>1. Sound(m) /\ RangeComplete(m, {})
      BY DEF Whole
    <2>2. /\ Sound(a)
          /\ RangeComplete(m, {}) => RangeComplete(a, {p})
          /\ \A D : RoomFor(m, D) => RoomFor(a, D)
          /\ a.pos[p] = x /\ p \in InWorld(a)
          /\ \A b \in Objects \ {p} : a.pos[b] = m.pos[b]
          /\ a.active = m.active /\ a.forced = m.forced
          /\ a.gone = m.gone /\ a.left = m.left
      BY <2>1, PlayerArrives DEF a
    <2> QED BY <2>1, <2>2
  <1> HIDE DEF a
  <1>3. /\ Sound(u) /\ RangeComplete(u, {}) /\ RoomFor(u, Cells)
        /\ u.pos = a.pos /\ u.forced = a.forced /\ u.active = a.active
        /\ u.gone = a.gone /\ u.left = a.left
    BY <1>2, InRangeLast
  <1> HIDE DEF u
  <1>4. Tends(u, r) /\ r.active = Refreshed(u, W) /\ r.left = u.left \ W
    <2>1. \A c \in W : c \in Cells
      BY AroundFacts
    <2> QED BY <2>1, <1>3, UpdateCellActivityKeeps
  <1> HIDE DEF r
  <1>5. \A c : CellActive(r, c) = CellActive(u, c)
    BY <1>4, TendsActive
  <1>6. /\ CellOf(x) \in Cells /\ W \in SUBSET Cells
        /\ CellAt(u, p) = CellOf(x) /\ p \notin InWorld(m)
        /\ \A q \in Players \ {p} : u.pos[q] = m.pos[q]
    BY <1>2, <1>3, CellOfPositions, AroundFacts, ObjectFacts DEF CellAt
  <1>7. ASSUME NEW c \in Cells \ W, CellActive(u, c) PROVE c \in u.active
    <2>1. CellOf(x) \notin Around(c, 1)
      BY <1>6, AroundFacts
    <2>2. CellActive(m, c)
      BY <2>1, <1>2, <1>3, <1>6, <1>7, OtherPlayers
    <2> QED BY <2>2, <1>2, <1>3 DEF Whole, NobodyFrozen
  <1>8. ASSUME RunsForSome(m), NEW c \in u.active \ W
        PROVE  CellActive(u, c) \/ c \in u.left
    <2>1. CellActive(m, c) \/ c \in u.left
      BY <1>2, <1>3, <1>8 DEF RunsForSome
    <2> QED BY <2>1, <1>2, <1>3, <1>6, OtherPlayers
  <1>9. NobodyFrozen(r) /\ (RunsForSome(m) => RunsForSome(r))
    <2>1. RunsForSome(m) => u.left \subseteq u.active
      BY <1>2, <1>3 DEF RunsForSome
    <2> QED BY <2>1, <1>4, <1>5, <1>6, <1>7, <1>8, VisitActive
  <1> QED BY <1>1, <1>3, <1>4, <1>9 DEF Whole, Tends

LEMMA RemovePlayerKeeps ==
    ASSUME NEW m, Whole(m), NEW p \in Players \cap InWorld(m)
    PROVE  LET r == RemovePlayer(m, p) IN
           Whole(r) /\ (RunsForSome(m) => RunsForSome(r))
  <1> DEFINE u == RemoveObjects(m, {p})
             old == CellAt(m, p)
             W == Around(old, 2)
             r == UpdateCellActivity(u, old, 2)
  <1>1. r = RemovePlayer(m, p)
    BY DEF RemovePlayer
  <1>2. /\ m \in MapState /\ {p} \in SUBSET Objects /\ p \notin Creatures
        /\ {p} \cap m.linked = {} /\ old \in Cells
    BY ObjectFacts, WorldFacts DEF Whole, Sound, Standing, MapState
  <1>3. /\ u \in MapState
        /\ \A o \in Objects \ {p} : u.pos[o] = m.pos[o]
        /\ InWorld(u) = InWorld(m) \ {p}
        /\ u.respawning = m.respawning /\ u.forced = m.forced
        /\ u.gone = m.gone /\ u.left = m.left
        /\ u.loaded = m.loaded /\ u.active = m.active /\ u.events = m.events
    BY <1>2, RemoveObjectsFields
  <1>4. Standing(u) /\ RangeComplete(u, {})
    BY <1>2, RemoveObjectsKeeps DEF Whole, Sound
  <1> HIDE DEF u
  <1>5. Sound(u)
    BY <1>2, <1>3, <1>4, SameCreatures DEF Whole, Sound, RespawnsStay
  <1>6. /\ W \in SUBSET Cells /\ p \notin InWorld(u)
        /\ \A q \in Players \ {p} : u.pos[q] = m.pos[q]
    BY <1>3, AroundFacts, ObjectFacts
  <1>7. ASSUME NEW c \in Cells, CellActive(u, c) PROVE c \in u.active
    <2>1. CellActive(m, c)
      BY <1>3, <1>6, <1>7, OtherPlayers
    <2> QED BY <2>1, <1>3 DEF Whole, NobodyFrozen
  <1>8. Tends(u, r) /\ r.active = Refreshed(u, W) /\ r.left = u.left \ W
    <2>1. RoomFor(u, {})
      BY DEF RoomFor
    <2>2. \A c \in W : CellActive(u, c) /\ c \notin u.active => c \in {}
      BY <1>6, <1>7
    <2> QED BY <2>1, <2>2, <1>5, UpdateCellActivityKeeps
  <1> HIDE DEF r
  <1>9. \A c : CellActive(r, c) = CellActive(u, c)
    BY <1>8, TendsActive
  <1>10. ASSUME RunsForSome(m), NEW c \in u.active \ W
         PROVE  CellActive(u, c) \/ c \in u.left
    <2> SUFFICES ASSUME c \notin u.left PROVE CellActive(u, c)
      OBVIOUS
    <2>1. CellActive(m, c) /\ c \in Cells
      BY <1>2, <1>3, <1>10 DEF RunsForSome, MapState
    <2>2. CellAt(m, p) \notin Around(c, 1)
      BY <2>1, <1>2, <1>10, AroundFacts
    <2> QED BY <2>1, <2>2, <1>3, <1>6, OtherPlayers
  <1>11. NobodyFrozen(r) /\ (RunsForSome(m) => RunsForSome(r))
    <2>1. RunsForSome(m) => u.left \subseteq u.active
      BY <1>3 DEF RunsForSome
    <2> QED BY <2>1, <1>6, <1>7, <1>8, <1>9, <1>10, VisitActive
  <1> QED BY <1>1, <1>4, <1>8, <1>11 DEF Whole, Tends

LEMMA ChangePlayerLocationKeeps ==
    ASSUME NEW m, Whole(m), RoomFor(m, Cells),
           NEW p \in Players \cap InWorld(m), NEW x \in Positions
    PROVE  LET r == ChangePlayerLocation(m, p, x) IN
           /\ Whole(r)
           /\ RunsForSome(m) => RunsForSome(r)
           /\ \A k \in Corpses : r.pos[k] = m.pos[k]
  <1> DEFINE old == CellAt(m, p)
             new == CellOf(x)
             d == Displaced(m, p, x)
             here == IF new = old THEN d ELSE UpdateCellActivity(d, new, 2)
             both == IF Distance(new, old) > 2
                     THEN UpdateCellActivity(here, old, 2) ELSE here
             behind == {c \in both.active \cap (Around(old, 1) \ Around(new, 2)) :
                          Distance(new, old) = 2 /\ ~CellActive(both, c)}
             z == [both EXCEPT !.left = @ \cup behind]
             r == UpdateInRangeSet(z, {p})
  <1>1. r = ChangePlayerLocation(m, p, x)
    BY DEF ChangePlayerLocation, Displaced
  <1>2. /\ m \in MapState /\ RangeSound(m) /\ RangeComplete(m, {})
        /\ p \in InWorld(m) /\ p \in Objects /\ p \notin Creatures /\ p \notin Corpses
        /\ old \in Cells /\ new \in Cells
    BY ObjectFacts, WorldFacts, CellOfPositions DEF Whole, Sound, Standing
  <1>3. /\ d.pos[p] = x
        /\ \A b \in Objects \ {p} : d.pos[b] = m.pos[b]
        /\ InWorld(d) = InWorld(m)
        /\ d.forced = m.forced /\ d.active = m.active
        /\ d.gone = m.gone /\ d.left = m.left
        /\ RangeComplete(d, {p})
    BY ZenonT(40), <1>2, DisplacedFields
  <1>4. Sound(d) /\ RoomFor(d, Cells)
    BY <1>2, DisplacedKeeps DEF Whole
  <1> HIDE DEF d
  <1>5. /\ CellAt(d, p) = new /\ p \in Players \cap InWorld(d)
        /\ \A q \in Players \ {p} : d.pos[q] = m.pos[q]
        /\ \A q \in Players \ {p} : m.pos[q] = d.pos[q]
        /\ Around(old, 2) \in SUBSET Cells /\ Around(new, 2) \in SUBSET Cells
    BY <1>2, <1>3, ObjectFacts, AroundFacts DEF CellAt
  <1>6. ASSUME NEW c \in Cells \ Around(new, 2), CellActive(d, c)
        PROVE  c \in d.active
    <2>1. new \notin Around(c, 1)
      BY <1>2, <1>6, AroundFacts
    <2>2. CellActive(m, c)
      BY <2>1, <1>3, <1>5, <1>6, OtherPlayers
    <2> QED BY <2>2, <1>3 DEF Whole, NobodyFrozen
  <1>7. new = old => NobodyFrozen(d)
    <2> SUFFICES ASSUME new = old, NEW c \in Cells, CellActive(d, c)
                 PROVE  CellActive(m, c)
      BY <1>3 DEF Whole, NobodyFrozen
    <2>1. CASE new \in Around(c, 1)
      BY <2>1, PlayerActivates
    <2>2. CASE new \notin Around(c, 1)
      BY <2>2, <1>3, <1>5, OtherPlayers
    <2> QED BY <2>1, <2>2
  <1>8. /\ Sound(here) /\ RangeComplete(here, {p}) /\ RoomFor(here, Cells)
        /\ \A o \in Objects \ Creatures : here.pos[o] = d.pos[o]
        /\ p \in InWorld(here)
        /\ \A c : CellActive(here, c) = CellActive(d, c)
        /\ NobodyFrozen(here)
        /\ new # old => /\ here.active = Refreshed(d, Around(new, 2))
                        /\ here.left = d.left \ Around(new, 2)
        /\ new = old => here.active = d.active /\ here.left = d.left
    <2>1. CASE new = old
      BY <2>1, <1>2, <1>3, <1>4, <1>7
    <2>2. CASE new # old
      <3> DEFINE h == UpdateCellActivity(d, new, 2)
      <3>1. /\ Tends(d, h) /\ h.active = Refreshed(d, Around(new, 2))
            /\ h.left = d.left \ Around(new, 2)
        <4>1. \A c \in Around(new, 2) : c \in Cells
          BY AroundFacts
        <4> QED BY <4>1, <1>4, UpdateCellActivityKeeps
      <3> HIDE DEF h
      <3>2. \A c : CellActive(h, c) = CellActive(d, c)
        BY <3>1, TendsActive
      <3>3. NobodyFrozen(h)
        BY <3>1, <3>2, <1>5, <1>6, VisitActive
      <3>4. /\ Sound(h) /\ RangeComplete(h, {p}) /\ RoomFor(h, Cells)
            /\ \A o \in Objects \ Creatures : h.pos[o] = d.pos[o]
            /\ p \in InWorld(h)
        BY <3>1, <1>2, <1>3, <1>4 DEF Tends
      <3>5. here = h
        BY <2>2 DEF h
      <3> HIDE DEF here
      <3> QED BY <2>2, <3>1, <3>2, <3>3, <3>4, <3>5
    <2> HIDE DEF here
    <2> QED BY <2>1, <2>2
  <1> HIDE DEF here
  <1>9. /\ Sound(both) /\ RangeComplete(both, {p})
        /\ \A o \in Objects \ Creatures : both.pos[o] = d.pos[o]
        /\ p \in InWorld(both)
        /\ \A c : CellActive(both, c) = CellActive(d, c)
        /\ NobodyFrozen(both)
        /\ Distance(new, old) > 2 => /\ both.active = Refreshed(here, Around(old, 2))
                                     /\ both.left = here.left \ Around(old, 2)
        /\ ~(Distance(new, old) > 2) =>
              both.active = here.active /\ both.left = here.left
    <2>1. CASE ~(Distance(new, old) > 2)
      BY <2>1, <1>8
    <2>2. CASE Distance(new, old) > 2
      <3> DEFINE h == UpdateCellActivity(here, old, 2)
      <3>1. /\ Tends(here, h) /\ h.active = Refreshed(here, Around(old, 2))
            /\ h.left = here.left \ Around(old, 2)
        <4>1. \A c \in Around(old, 2) : c \in Cells
          BY AroundFacts
        <4> QED BY <4>1, <1>8, UpdateCellActivityKeeps
      <3> HIDE DEF h
      <3>2. \A c : CellActive(h, c) = CellActive(here, c)
        BY <3>1, TendsActive
      <3>3. NobodyFrozen(h)
        BY <3>1, <3>2, <1>5, <1>8, VisitActive DEF NobodyFrozen
      <3>4. /\ Sound(h) /\ RangeComplete(h, {p})
            /\ \A o \in Objects \ Creatures : h.pos[o] = here.pos[o]
            /\ p \in InWorld(h)
        BY <3>1, <1>8 DEF Tends
      <3>5. both = h
        BY <2>2 DEF h
      <3> HIDE DEF both
      <3> QED BY <2>2, <3>1, <3>2, <3>3, <3>4, <3>5, <1>8
    <2> HIDE DEF both
    <2> QED BY <2>1, <2>2
  <1> HIDE DEF both
  <1>10. /\ Sound(z) /\ RangeComplete(z, {p}) /\ NobodyFrozen(z)
         /\ z.pos = both.pos /\ p \in InWorld(z) /\ z.active = both.active
         /\ z.left = both.left \cup behind
         /\ \A c : CellActive(z, c) = CellActive(d, c)
    <2>1. both \in MapState
      BY <1>9 DEF Sound, Standing
    <2>2. behind \subseteq Cells
      BY AroundFacts
    <2> HIDE DEF behind
    <2>3. z \in MapState /\ Agree(both, z) /\ z.left = both.left \cup behind
      BY <2>1, <2>2 DEF MapState, Agree
    <2> HIDE DEF z
    <2> QED BY <2>3, <1>9, SameSound DEF Agree, NobodyFrozen
  <1> HIDE DEF z
  <1>11. ASSUME RunsForSome(m) PROVE RunsForSome(z)
    <2>1. ASSUME NEW c \in z.left PROVE c \in z.active
      <3>1. CASE c \in behind
        BY <3>1, <1>10
      <3>2. CASE c \in both.left
        BY <3>2, <1>3, <1>8, <1>9, <1>10, <1>11 DEF RunsForSome, Refreshed
      <3> QED BY <2>1, <3>1, <3>2, <1>10
    <2>2. ASSUME NEW c \in both.active PROVE CellActive(d, c) \/ c \in z.left
      <3>1. c \in Cells
        BY <1>9, <2>2 DEF Sound, Standing, MapState
      <3>2. CASE Distance(new, old) > 2 /\ c \in Around(old, 2)
        BY <3>2, <2>2, <1>8, <1>9 DEF Refreshed
      <3>3. CASE new # old /\ c \in Around(new, 2)
                  /\ ~(Distance(new, old) > 2 /\ c \in Around(old, 2))
        BY <3>3, <2>2, <1>8, <1>9 DEF Refreshed
      <3>4. CASE /\ new # old => c \notin Around(new, 2)
                 /\ ~(Distance(new, old) > 2 /\ c \in Around(old, 2))
        <4>1. c \in m.active /\ (c \in m.left => c \in both.left)
          BY <3>4, <2>2, <1>3, <1>8, <1>9 DEF Refreshed
        <4> SUFFICES ASSUME c \notin m.left PROVE CellActive(d, c) \/ c \in behind
          BY <4>1, <1>10
        <4>2. CellActive(m, c)
          BY <4>1, <1>11 DEF RunsForSome
        <4>3. CASE old \notin Around(c, 1)
          BY <4>2, <4>3, <1>3, <1>5, OtherPlayers
        <4>4. CASE old \in Around(c, 1)
          <5>1. \/ new = old \/ Distance(new, old) <= 1
                \/ Distance(new, old) = 2 \/ Distance(new, old) > 2
            BY <1>2, AroundFacts
          <5>2. new = old \/ Distance(new, old) = 2
            BY <5>1, <4>4, <3>1, <3>4, <1>2, AroundFacts
          <5>3. CASE new = old
            BY <5>3, <4>4, <1>5, PlayerActivates
          <5>4. CASE Distance(new, old) = 2
            <6>1. new # old
              BY <5>4, <1>2, AroundFacts
            <6>2. c \in Around(old, 1) \ Around(new, 2)
              BY <6>1, <4>4, <3>1, <3>4, <1>2, AroundFacts
            <6> QED BY <6>2, <5>4, <2>2, <1>9
          <5> QED BY <5>2, <5>3, <5>4
        <4> QED BY <4>3, <4>4
      <3> QED BY <3>2, <3>3, <3>4
    <2> QED BY <2>1, <2>2, <1>10 DEF RunsForSome
  <1>12. /\ Sound(r) /\ RangeComplete(r, {}) /\ NobodyFrozen(r)
         /\ RunsForSome(z) => RunsForSome(r)
         /\ r.pos = both.pos
    BY <1>10, InRangeLast
  <1>13. \A k \in Corpses : r.pos[k] = m.pos[k]
    BY <1>3, <1>2, <1>9, <1>12, ObjectFacts
  <1> QED BY <1>1, <1>11, <1>12, <1>13 DEF Whole

-----------------------------------------------------------------------------
(* Corpses                                                                  *)

LEMMA PushCorpseKeeps ==
    ASSUME NEW m, Whole(m), NEW k \in Corpses \ InWorld(m), NEW x \in Positions
    PROVE  LET r == PushCorpse(m, k, x) IN
           Whole(r) /\ (RunsForSome(m) => RunsForSome(r))
  <1> DEFINE a == CorpseAt(m, k, x)
             r == UpdateInRangeSet(a, {k})
  <1>1. r = PushCorpse(m, k, x)
    BY DEF PushCorpse, CorpseAt
  <1>2. Sound(m) /\ RangeComplete(m, {}) /\ NobodyFrozen(m)
    BY DEF Whole
  <1>3. /\ Sound(a) /\ RangeComplete(a, {k}) /\ k \in InWorld(a)
        /\ \A b \in Objects \ {k} : a.pos[b] = m.pos[b]
        /\ a.active = m.active /\ a.forced = m.forced
        /\ a.gone = m.gone /\ a.left = m.left
    BY <1>2, CorpseArrives
  <1> HIDE DEF a
  <1>4. \A c : CellActive(a, c) = CellActive(m, c)
    <2>1. \A p \in Players : a.pos[p] = m.pos[p]
      BY <1>3, ObjectFacts
    <2> QED BY <2>1, <1>3, SameObstacles
  <1>5. NobodyFrozen(a) /\ (RunsForSome(m) => RunsForSome(a))
    BY <1>2, <1>3, <1>4 DEF NobodyFrozen, RunsForSome
  <1>6. /\ Sound(r) /\ RangeComplete(r, {}) /\ NobodyFrozen(r)
        /\ RunsForSome(a) => RunsForSome(r)
    BY <1>3, <1>5, InRangeLast
  <1> QED BY <1>1, <1>5, <1>6 DEF Whole

LEMMA CorpseGoneIdleKeeps ==
    ASSUME NEW m, Whole(m), NEW k \in m.linked
    PROVE  LET r == CorpseGoneIdle(m, k) IN
           Whole(r) /\ (RunsForSome(m) => RunsForSome(r))
  <1> DEFINE cell == CellAt(m, k)
             gone == [m EXCEPT !.linked = @ \ {k}]
             queue == cell \notin m.active /\ cell \notin m.pending /\ CanUnload(gone, cell)
             r == CorpseGoneIdle(m, k)
  <1>1. m \in MapState /\ k \in InWorld(m) /\ cell \in m.allocated /\ cell \in Cells
    BY WorldFacts DEF Whole, Sound, Standing, Placed
  <1>2. /\ gone \in MapState /\ gone.linked = m.linked \ {k}
        /\ gone.pos = m.pos /\ gone.inRange = m.inRange
        /\ gone.respawning = m.respawning /\ gone.forced = m.forced
        /\ gone.gone = m.gone /\ gone.left = m.left
        /\ gone.loaded = m.loaded /\ gone.allocated = m.allocated
        /\ gone.active = m.active /\ gone.awake = m.awake
        /\ gone.pending = m.pending /\ gone.events = m.events
    BY <1>1 DEF MapState
  <1>3. r = IF queue THEN [gone EXCEPT !.pending = @ \cup {cell},
                                       !.events = @ \cup UnloadEvents({cell})]
                     ELSE gone
    BY <1>2 DEF CorpseGoneIdle
  <1>4. UnloadEvents({cell}) \subseteq MapEvents
    BY <1>1 DEF MapEvents, UnloadEvents
  <1> HIDE DEF gone, r, cell
  <1>5. /\ r \in MapState /\ r.linked = m.linked \ {k}
        /\ r.pos = m.pos /\ r.inRange = m.inRange
        /\ r.respawning = m.respawning /\ r.forced = m.forced
        /\ r.gone = m.gone /\ r.left = m.left
        /\ r.loaded = m.loaded /\ r.allocated = m.allocated
        /\ r.active = m.active /\ r.awake = m.awake
        /\ r.pending = IF queue THEN m.pending \cup {cell} ELSE m.pending
        /\ r.events = IF queue THEN m.events \cup UnloadEvents({cell}) ELSE m.events
    <2>1. CASE queue
      <3>1. r = [gone EXCEPT !.pending = @ \cup {cell},
                             !.events = @ \cup UnloadEvents({cell})]
        BY <2>1, <1>3
      <3> HIDE DEF queue
      <3> QED BY <3>1, <2>1, <1>1, <1>2, <1>4 DEF MapState
    <2>2. CASE ~queue
      <3> HIDE DEF queue
      <3> QED BY <2>2, <1>2, <1>3
    <2> HIDE DEF queue
    <2> QED BY <2>1, <2>2
  <1>6. /\ InWorld(r) = InWorld(m)
        /\ \A o : CellAt(r, o) = CellAt(m, o)
        /\ \A C : ObjectsIn(r, C) = ObjectsIn(m, C)
        /\ \A c : CellActive(r, c) = CellActive(m, c)
    BY <1>5, SamePlaces
  <1>7. RangeSound(r) /\ RangeComplete(r, {})
    BY <1>5, SameRange DEF Whole, Sound, Standing
  <1>8. RespawnsStay(m, r)
    BY <1>5 DEF RespawnsStay
  <1>9. OnceDead(r) /\ SpawnsOnce(r)
    BY <1>5, <1>6, <1>8, SameSpawns DEF Whole, Sound, Standing
  <1>10. Placed(r)
    <2>1. r.pending \subseteq r.allocated
      <3> HIDE DEF queue
      <3> QED BY <1>1, <1>5 DEF Whole, Sound, Standing, Placed
    <2> QED BY <2>1, <1>5, <1>6 DEF Whole, Sound, Standing, Placed
  <1>11. AwakeInActive(r)
    BY <1>5, <1>6 DEF Whole, Sound, Standing, AwakeInActive
  <1>12. IdlePending(r)
    <2>1. \A c : CanUnload(m, c) => CanUnload(r, c)
      BY <1>5, <1>6 DEF CanUnload
    <2>2. \A c : c # cell /\ CanUnload(r, c) => CanUnload(m, c)
      BY <1>5, <1>6 DEF CanUnload, ObjectsIn, cell
    <2>3. CanUnload(r, cell) <=> CanUnload(gone, cell)
      BY <1>2, <1>5, <1>6, SamePlaces
    <2>4. IdlePending(m)
      BY DEF Whole, Sound, Standing
    <2>5. \A c \in r.loaded \ r.active : CanUnload(r, c) => c \in r.pending
      BY <2>2, <2>3, <2>4, <1>5 DEF IdlePending
    <2>6. \A c \in r.pending : CanUnload(r, c) /\ c \notin r.active
      BY <2>1, <2>3, <2>4, <1>5 DEF IdlePending
    <2>7. UnloadEvents(r.pending) = {e \in r.events : e[1] = "unload"}
      <3>1. CASE queue
        <4>1. UnloadEvents(r.pending) = UnloadEvents(m.pending) \cup UnloadEvents({cell})
          BY <3>1, <1>5, UnloadRespawn
        <4> QED BY <4>1, <3>1, <1>5, <2>4, UnloadRespawn DEF IdlePending
      <3>2. CASE ~queue
        BY <3>2, <1>5, <2>4 DEF IdlePending
      <3> QED BY <3>1, <3>2
    <2> QED BY <2>5, <2>6, <2>7 DEF IdlePending
  <1>13. NobodyFrozen(r) /\ (RunsForSome(m) => RunsForSome(r))
    BY <1>5, <1>6 DEF Whole, NobodyFrozen, RunsForSome
  <1> QED BY <1>5, <1>7, <1>9, <1>10, <1>11, <1>12, <1>13 DEF Whole, Sound, Standing, r

LEMMA RemoveCorpseKeeps ==
    ASSUME NEW m, Whole(m), NEW k \in Corpses \ m.linked
    PROVE  LET r == RemoveObjects(m, {k}) IN
           Whole(r) /\ (RunsForSome(m) => RunsForSome(r))
  <1> DEFINE r == RemoveObjects(m, {k})
  <1>1. m \in MapState /\ {k} \in SUBSET Objects /\ {k} \cap m.linked = {}
        /\ k \notin Creatures /\ k \notin Players
    BY ObjectFacts DEF Whole, Sound, Standing
  <1>2. /\ r \in MapState
        /\ \A o \in Objects \ {k} : r.pos[o] = m.pos[o]
        /\ InWorld(r) = InWorld(m) \ {k}
        /\ r.respawning = m.respawning /\ r.forced = m.forced
        /\ r.gone = m.gone /\ r.left = m.left
        /\ r.loaded = m.loaded /\ r.active = m.active /\ r.events = m.events
    BY <1>1, RemoveObjectsFields
  <1>3. Standing(r) /\ RangeComplete(r, {})
    BY <1>1, RemoveObjectsKeeps DEF Whole, Sound
  <1> HIDE DEF r
  <1>4. SpawnsOnce(r)
    BY <1>1, <1>2, SameCreatures DEF Whole, Sound, RespawnsStay
  <1>5. \A c : CellActive(r, c) = CellActive(m, c)
    <2>1. \A p \in Players : r.pos[p] = m.pos[p]
      BY <1>1, <1>2, ObjectFacts
    <2> QED BY <2>1, <1>2, SameObstacles
  <1>6. NobodyFrozen(r) /\ (RunsForSome(m) => RunsForSome(r))
    BY <1>2, <1>5 DEF Whole, NobodyFrozen, RunsForSome
  <1> QED BY <1>3, <1>4, <1>6 DEF Whole, Sound, r

-----------------------------------------------------------------------------
(* Creatures                                                                *)

LEMMA ChangeCreatureLocationKeeps ==
    ASSUME NEW m, Whole(m), NEW b \in m.awake, NEW x \in Positions \cap Path(b[1])
    PROVE  LET r == ChangeCreatureLocation(m, b, x) IN
           Whole(r) /\ (RunsForSome(m) => RunsForSome(r))
  <1> DEFINE old == CellAt(m, b)
             new == CellOf(x)
             d == Displaced(m, b, x)
             stops == new \notin m.active /\ new # old
             u == [d EXCEPT !.awake = IF stops THEN @ \ {b} ELSE @]
             r == UpdateInRangeSet(u, {b})
  <1>1. r = ChangeCreatureLocation(m, b, x)
    BY DEF ChangeCreatureLocation, Displaced
  <1>2. /\ m \in MapState /\ RangeSound(m) /\ RangeComplete(m, {}) /\ Sound(m)
        /\ b \in InWorld(m) /\ b \in Creatures /\ b \notin Corpses /\ b \notin Players
        /\ b \in Objects /\ old \in m.active /\ b \in InWorld(m) \ Corpses
        /\ x \in Positions
    BY ObjectFacts DEF Whole, Sound, Standing, AwakeInActive, ObjectsIn
  <1>3. /\ d \in MapState /\ d.pos[b] = x
        /\ \A o \in Objects \ {b} : d.pos[o] = m.pos[o]
        /\ InWorld(d) = InWorld(m)
        /\ d.active = m.active /\ d.awake = m.awake /\ d.forced = m.forced
        /\ d.gone = m.gone /\ d.left = m.left
        /\ RangeSound(d) /\ RangeComplete(d, {b})
    BY ZenonT(40), <1>2, DisplacedFields
  <1>4. Placed(d) /\ OnceDead(d) /\ IdlePending(d) /\ SpawnsOnce(d)
    BY <1>2, DisplacedKeeps
  <1> HIDE DEF d
  <1>5. /\ u \in MapState /\ u.pos = d.pos /\ u.inRange = d.inRange
        /\ u.respawning = d.respawning /\ u.forced = d.forced
        /\ u.gone = d.gone /\ u.left = d.left
        /\ u.loaded = d.loaded /\ u.linked = d.linked /\ u.allocated = d.allocated
        /\ u.active = d.active /\ u.pending = d.pending /\ u.events = d.events
        /\ u.awake = IF stops THEN d.awake \ {b} ELSE d.awake
    <2> HIDE DEF stops
    <2> QED BY <1>3 DEF MapState
  <1> HIDE DEF u
  <1>6. AwakeInActive(u)
    <2>1. \A o \in InWorld(m) \ {b} : CellAt(u, o) = CellAt(m, o)
      BY <1>2, <1>3, <1>5, WorldFacts DEF CellAt
    <2>2. CellAt(u, b) = new /\ InWorld(u) = InWorld(m)
      BY <1>3, <1>5, SamePlaces DEF CellAt
    <2>3. m.awake = ObjectsIn(m, m.active) \cap Creatures
      BY <1>2 DEF Sound, Standing, AwakeInActive
    <2>4. \A o : o \in ObjectsIn(u, m.active) <=>
                    (IF o = b THEN new \in m.active ELSE o \in ObjectsIn(m, m.active))
      BY <1>2, <2>1, <2>2 DEF ObjectsIn
    <2>5. u.awake = ObjectsIn(u, m.active) \cap Creatures
      BY <1>2, <1>3, <1>5, <2>3, <2>4
    <2> QED BY <2>5, <1>3, <1>5 DEF AwakeInActive
  <1>7. Sound(u) /\ RangeComplete(u, {b})
    <2>1. Placed(u) /\ IdlePending(u)
      BY <1>4, <1>5, SamePlaces DEF Placed, IdlePending
    <2>2. OnceDead(u) /\ SpawnsOnce(u)
      BY <1>4, <1>5, SamePlaces, SameSpawns DEF RespawnsStay
    <2>3. RangeSound(u) /\ RangeComplete(u, {b})
      BY <1>3, <1>5, SameRange
    <2> QED BY <2>1, <2>2, <2>3, <1>5, <1>6 DEF Sound, Standing
  <1>8. \A c : CellActive(u, c) = CellActive(m, c)
    <2>1. \A p \in Players : u.pos[p] = m.pos[p]
      BY <1>2, <1>3, <1>5, ObjectFacts
    <2> QED BY <2>1, <1>3, <1>5, SameObstacles
  <1>9. NobodyFrozen(u) /\ (RunsForSome(m) => RunsForSome(u)) /\ b \in InWorld(u)
    <2>1. InWorld(u) = InWorld(m)
      BY <1>3, <1>5, SamePlaces
    <2> QED BY <2>1, <1>2, <1>3, <1>5, <1>8 DEF Whole, NobodyFrozen, RunsForSome
  <1>10. /\ Sound(r) /\ RangeComplete(r, {}) /\ NobodyFrozen(r)
         /\ RunsForSome(u) => RunsForSome(r)
    BY <1>7, <1>9, InRangeLast
  <1> QED BY <1>1, <1>9, <1>10 DEF Whole

\* A creature that stays in its cell is there, and its cell exists.
LEMMA HomebodyFacts ==
    ASSUME NEW m, Sound(m), NEW s \in Homebodies, NEW b \in {s} \X (1 .. Copies)
    PROVE  /\ b \in Creatures /\ b[1] = s /\ Home(b) = CellOf(SpawnAt(s))
           /\ b \in InWorld(m) => CellAt(m, b) = Home(b)
           /\ b \in InWorld(m) \cup Waiting(m) => Home(b) \in m.loaded /\ Home(b) \in m.allocated
  <1>1. s \in Spawns /\ b \in Creatures /\ b[1] = s
    BY DEF Homebodies, Creatures
  <1>2. Home(b) = CellOf(SpawnAt(s))
    BY <1>1 DEF Home
  <1>3. b \in InWorld(m) => CellAt(m, b) = Home(b)
    BY <1>1, <1>2 DEF Sound, Standing, Placed, CellAt, Homebodies
  <1>4. b \in InWorld(m) \cup Waiting(m) => b \in Alive(m, s)
    BY DEF Alive
  <1>5. b \in InWorld(m) \cup Waiting(m) => Home(b) \in m.loaded
    BY <1>2, <1>4 DEF Sound, SpawnsOnce
  <1> QED BY <1>1, <1>2, <1>3, <1>5 DEF Sound, Standing, Placed

LEMMA DespawnCreatureKeeps ==
    ASSUME NEW m, Whole(m), NEW b \in InWorld(m) \cap Creatures
    PROVE  LET r == DespawnCreature(m, b) IN
           Whole(r) /\ (RunsForSome(m) => RunsForSome(r))
  <1> DEFINE c == IF Home(b) \in m.allocated THEN Home(b) ELSE CellAt(m, b)
             u == RemoveObjects(m, {b})
             r == DespawnCreature(m, b)
  <1>1. /\ m \in MapState /\ Sound(m) /\ {b} \in SUBSET Objects /\ {b} \cap m.linked = {}
        /\ b \notin Players /\ c \in Cells /\ b \notin Waiting(m)
    BY ObjectFacts, HomeFacts, WorldFacts DEF Whole, Sound, Standing, OnceDead, MapState
  <1>2. r = [u EXCEPT !.respawning[c] = @ \cup {b},
                      !.events = @ \cup {<<"respawn", b, c>>}]
    BY DEF DespawnCreature, Home
  <1> HIDE DEF c
  <1>3. /\ u \in MapState
        /\ \A o \in Objects \ {b} : u.pos[o] = m.pos[o]
        /\ InWorld(u) = InWorld(m) \ {b}
        /\ u.respawning = m.respawning /\ u.forced = m.forced
        /\ u.gone = m.gone /\ u.left = m.left
        /\ u.loaded = m.loaded /\ u.active = m.active /\ u.events = m.events
    BY <1>1, RemoveObjectsFields
  <1>4. Standing(u) /\ RangeComplete(u, {})
    BY <1>1, RemoveObjectsKeeps DEF Whole, Sound
  <1>5. <<"respawn", b, c>> \in MapEvents
    BY <1>1 DEF MapEvents
  <1> HIDE DEF u, r
  <1>6. /\ r \in MapState /\ r.linked = u.linked
        /\ r.pos = u.pos /\ r.inRange = u.inRange /\ r.forced = u.forced
        /\ r.gone = u.gone /\ r.left = u.left
        /\ r.loaded = u.loaded /\ r.allocated = u.allocated
        /\ r.active = u.active /\ r.awake = u.awake /\ r.pending = u.pending
        /\ r.events = u.events \cup {<<"respawn", b, c>>}
        /\ r.respawning[c] = u.respawning[c] \cup {b}
        /\ \A d \in Cells \ {c} : r.respawning[d] = u.respawning[d]
    BY <1>1, <1>2, <1>3, <1>5 DEF MapState
  <1>7. InWorld(r) = InWorld(m) \ {b}
    BY <1>3, <1>6, SamePlaces
  <1>8. \A a : a \in Waiting(r) <=> a \in Waiting(m) \/ a = b
    BY <1>1, <1>3, <1>6 DEF Waiting
  <1>9. Placed(r) /\ AwakeInActive(r)
    BY <1>4, <1>6, SamePlaces DEF Standing, Placed, AwakeInActive
  <1>10. IdlePending(r)
    <2>1. \A d : CanUnload(r, d) = CanUnload(u, d)
      BY <1>6, SamePlaces
    <2>2. {e \in r.events : e[1] = "unload"} = {e \in u.events : e[1] = "unload"}
      BY <1>6
    <2> QED BY <2>1, <2>2, <1>4, <1>6 DEF Standing, IdlePending
  <1>11. RangeSound(r) /\ RangeComplete(r, {})
    BY <1>4, <1>6, SameRange DEF Standing
  <1>12. OnceDead(r)
    <2>1. InWorld(r) \cap Waiting(r) = {}
      BY <1>1, <1>7, <1>8 DEF Sound, Standing, OnceDead
    <2>2. ASSUME NEW d \in Cells, NEW e \in Cells, NEW a,
                 a \in r.respawning[d], a \in r.respawning[e]
          PROVE  d = e
      <3>1. CASE a = b
        BY <3>1, <2>2, <1>1, <1>3, <1>6 DEF Waiting
      <3>2. CASE a # b
        <4>1. a \in m.respawning[d] /\ a \in m.respawning[e]
          BY <3>2, <2>2, <1>3, <1>6
        <4> QED BY <4>1, <1>1 DEF Sound, Standing, OnceDead
      <3> QED BY <3>1, <3>2
    <2> QED BY <2>1, <2>2 DEF OnceDead
  <1>13. SpawnsOnce(r)
    <2> SUFFICES ASSUME NEW s \in Homebodies
                 PROVE  LET h == CellOf(SpawnAt(s))
                        IN /\ h \notin r.loaded => Alive(r, s) = {} /\ s \notin r.gone
                           /\ s \in r.gone => Alive(r, s) = {}
                           /\ h \in r.loaded /\ s \notin r.gone
                                => \E a \in Creatures : Alive(r, s) = {a}
                           /\ \A a \in {s} \X (1 .. Copies) :
                                \A d \in Cells : a \in r.respawning[d]
                                    => d = h /\ <<"respawn", a, h>> \in r.events
      BY DEF SpawnsOnce
    <2>1. Alive(r, s) = Alive(m, s)
      BY <1>7, <1>8 DEF Alive
    <2>2. r.loaded = m.loaded /\ r.gone = m.gone
      BY <1>3, <1>6
    <2>3. ASSUME NEW a \in {s} \X (1 .. Copies), NEW d \in Cells, a \in r.respawning[d]
          PROVE  d = CellOf(SpawnAt(s)) /\ <<"respawn", a, CellOf(SpawnAt(s))>> \in r.events
      <3>1. CASE a \in m.respawning[d]
        BY <3>1, <2>3, <1>1, <1>3, <1>6 DEF Sound, SpawnsOnce
      <3>2. CASE a \notin m.respawning[d]
        <4>1. a = b /\ d = c
          BY <3>2, <2>3, <1>3, <1>6
        <4>2. Home(b) = CellOf(SpawnAt(s)) /\ CellAt(m, b) = Home(b)
          BY <4>1, <1>1, HomebodyFacts
        <4>3. c = CellOf(SpawnAt(s))
          BY <4>2 DEF c
        <4> QED BY <4>1, <4>3, <1>6
      <3> QED BY <3>1, <3>2
    <2> QED BY <2>1, <2>2, <2>3, <1>1 DEF Sound, SpawnsOnce
  <1>14. \A d : CellActive(r, d) = CellActive(m, d)
    <2>1. \A p \in Players : r.pos[p] = m.pos[p]
      BY <1>1, <1>3, <1>6, ObjectFacts
    <2> QED BY <2>1, <1>3, <1>6, SameObstacles
  <1>15. NobodyFrozen(r) /\ (RunsForSome(m) => RunsForSome(r))
    BY <1>3, <1>6, <1>14 DEF Whole, NobodyFrozen, RunsForSome
  <1> QED BY <1>6, <1>9, <1>10, <1>11, <1>12, <1>13, <1>15 DEF Whole, Sound, Standing, r

\* A creature removed for good leaves its spawn without one.
LEMMA DeleteCreatureKeeps ==
    ASSUME NEW m, Whole(m), NEW b \in InWorld(m) \cap Creatures
    PROVE  LET r == DeleteCreature(m, b) IN
           Whole(r) /\ (RunsForSome(m) => RunsForSome(r))
  <1> DEFINE u == RemoveObjects(m, {b})
             r == DeleteCreature(m, b)
  <1>1. /\ m \in MapState /\ Sound(m) /\ {b} \in SUBSET Objects /\ {b} \cap m.linked = {}
        /\ b \notin Players /\ b \notin Waiting(m) /\ b[1] \in Spawns
    BY ObjectFacts DEF Whole, Sound, Standing, OnceDead, MapState, Creatures
  <1>2. r = [u EXCEPT !.gone = @ \cup {b[1]}]
    BY DEF DeleteCreature
  <1>3. /\ u \in MapState
        /\ \A o \in Objects \ {b} : u.pos[o] = m.pos[o]
        /\ InWorld(u) = InWorld(m) \ {b}
        /\ u.respawning = m.respawning /\ u.forced = m.forced
        /\ u.gone = m.gone /\ u.left = m.left
        /\ u.loaded = m.loaded /\ u.active = m.active /\ u.events = m.events
    BY <1>1, RemoveObjectsFields
  <1>4. Standing(u) /\ RangeComplete(u, {})
    BY <1>1, RemoveObjectsKeeps DEF Whole, Sound
  <1> HIDE DEF u, r
  <1>5. /\ r \in MapState /\ r.linked = u.linked
        /\ r.pos = u.pos /\ r.inRange = u.inRange /\ r.forced = u.forced
        /\ r.loaded = u.loaded /\ r.allocated = u.allocated
        /\ r.active = u.active /\ r.awake = u.awake /\ r.pending = u.pending
        /\ r.events = u.events /\ r.respawning = u.respawning
        /\ r.left = u.left /\ r.gone = u.gone \cup {b[1]}
    BY <1>1, <1>2, <1>3 DEF MapState
  <1>6. InWorld(r) = InWorld(m) \ {b} /\ Waiting(r) = Waiting(m)
    BY <1>3, <1>5, SamePlaces DEF Waiting
  <1>7. Standing(r) /\ RangeComplete(r, {})
    <2>1. Placed(r) /\ AwakeInActive(r) /\ IdlePending(r)
      BY <1>4, <1>5, SamePlaces DEF Standing, Placed, AwakeInActive, IdlePending
    <2>2. RangeSound(r) /\ RangeComplete(r, {})
      BY <1>4, <1>5, SameRange DEF Standing
    <2>3. OnceDead(r)
      BY <1>4, <1>5, SamePlaces, SameSpawns DEF Standing
    <2> QED BY <2>1, <2>2, <2>3, <1>5 DEF Standing
  <1>8. SpawnsOnce(r)
    <2> SUFFICES ASSUME NEW s \in Homebodies
                 PROVE  LET h == CellOf(SpawnAt(s))
                        IN /\ h \notin r.loaded => Alive(r, s) = {} /\ s \notin r.gone
                           /\ s \in r.gone => Alive(r, s) = {}
                           /\ h \in r.loaded /\ s \notin r.gone
                                => \E a \in Creatures : Alive(r, s) = {a}
                           /\ \A a \in {s} \X (1 .. Copies) :
                                \A d \in Cells : a \in r.respawning[d]
                                    => d = h /\ <<"respawn", a, h>> \in r.events
      BY DEF SpawnsOnce
    <2>1. r.loaded = m.loaded /\ r.events = m.events /\ r.respawning = m.respawning
      BY <1>3, <1>5
    <2>2. CASE s = b[1]
      <3>1. b \in {s} \X (1 .. Copies)
        BY <2>2 DEF Creatures
      <3>2. b \in Alive(m, s)
        BY <3>1 DEF Alive
      <3>3. Alive(m, s) = {b} /\ CellOf(SpawnAt(s)) \in m.loaded
        BY <3>2, <1>1 DEF Sound, SpawnsOnce
      <3>4. Alive(r, s) = {}
        BY <3>3, <1>1, <1>6 DEF Alive
      <3>5. s \in r.gone
        BY <2>2, <1>5
      <3> QED BY <3>3, <3>4, <3>5, <2>1, <1>1 DEF Sound, SpawnsOnce
    <2>3. CASE s # b[1]
      <3>1. Alive(r, s) = Alive(m, s)
        BY <2>3, <1>6 DEF Alive
      <3>2. s \in r.gone <=> s \in m.gone
        BY <2>3, <1>3, <1>5
      <3> QED BY <3>1, <3>2, <2>1, <1>1 DEF Sound, SpawnsOnce
    <2> QED BY <2>2, <2>3
  <1>9. \A d : CellActive(r, d) = CellActive(m, d)
    <2>1. \A p \in Players : r.pos[p] = m.pos[p]
      BY <1>1, <1>3, <1>5, ObjectFacts
    <2> QED BY <2>1, <1>3, <1>5, SameObstacles
  <1>10. NobodyFrozen(r) /\ (RunsForSome(m) => RunsForSome(r))
    BY <1>3, <1>5, <1>9 DEF Whole, NobodyFrozen, RunsForSome
  <1> QED BY <1>7, <1>8, <1>10 DEF Whole, Sound, r

-----------------------------------------------------------------------------
(* The map's events                                                         *)

Without(m, e) == [m EXCEPT !.events = @ \ {e}]

LEMMA WithoutFields ==
    ASSUME NEW m \in MapState, NEW e
    PROVE  LET r == Without(m, e) IN
           /\ r \in MapState /\ r.linked = m.linked
           /\ r.pos = m.pos /\ r.inRange = m.inRange /\ r.forced = m.forced
           /\ r.gone = m.gone /\ r.left = m.left
           /\ r.loaded = m.loaded /\ r.allocated = m.allocated
           /\ r.active = m.active /\ r.awake = m.awake /\ r.pending = m.pending
           /\ r.respawning = m.respawning
           /\ r.events = m.events \ {e}
  BY DEF Without, MapState

\* What is left when the objects of O in cell c are gone, and the event with it.
Emptied(u, c, e) ==
    [u EXCEPT !.respawning[c] = {}, !.allocated = @ \ {c},
              !.loaded = @ \ {c}, !.gone = {s \in @ : CellOf(SpawnAt(s)) # c},
              !.pending = @ \ {c}, !.events = @ \ {e}]

LEMMA UnloadEmpties ==
    ASSUME NEW m \in MapState, NEW e, NEW c \in Cells \ m.active
    PROVE  Unload(Without(m, e), c) = Emptied(RemoveObjects(m, ObjectsIn(m, {c})), c, e)
  <1> DEFINE w == Without(m, e)
             O == ObjectsIn(m, {c})
             u == RemoveObjects(m, O)
             v == RemoveObjects(w, O)
  <1>1. /\ w \in MapState /\ w.linked = m.linked
        /\ w.pos = m.pos /\ w.inRange = m.inRange /\ w.forced = m.forced
        /\ w.gone = m.gone /\ w.left = m.left
        /\ w.loaded = m.loaded /\ w.allocated = m.allocated
        /\ w.active = m.active /\ w.awake = m.awake /\ w.pending = m.pending
        /\ w.respawning = m.respawning
    BY WithoutFields
  <1>2. ObjectsIn(w, {c}) = O
    BY <1>1, SamePlaces
  <1>3. O \in SUBSET Objects
    BY WorldFacts
  <1>4. w = [m EXCEPT !.events = @ \ {e}]
    BY DEF Without
  <1> HIDE DEF w, O
  <1>5. Unload(w, c) = [v EXCEPT !.respawning[c] = {}, !.allocated = @ \ {c},
                                 !.loaded = @ \ {c},
                                 !.gone = {s \in @ : CellOf(SpawnAt(s)) # c},
                                 !.pending = @ \ {c}]
    BY <1>1, <1>2 DEF Unload
  <1>6. u \in MapState
    BY <1>3, RemoveObjectsFields
  <1>7. v = [u EXCEPT !.events = @ \ {e}]
    <2> DEFINE left == [o \in Objects |->
                          IF o \in O THEN {}
                          ELSE m.inRange[o] \ {b \in O : o \in m.inRange[b]}]
               away == [o \in Objects |-> IF o \in O THEN Nowhere ELSE m.pos[o]]
               f == [m EXCEPT !.inRange = left]
               g == [w EXCEPT !.inRange = left]
    <2>1. f = LeaveInRangeSets(m, O) /\ g = LeaveInRangeSets(w, O)
      BY <1>1 DEF LeaveInRangeSets
    <2> HIDE DEF left
    <2>2. g = [f EXCEPT !.events = @ \ {e}] /\ f.pos = m.pos /\ g.pos = m.pos
      BY <1>1, <1>4 DEF MapState
    <2>3. "pos" \in DOMAIN f /\ "awake" \in DOMAIN f /\ "linked" \in DOMAIN f
          /\ "events" \in DOMAIN f /\ f = [h \in DOMAIN f |-> f[h]]
      BY DEF MapState
    <2> HIDE DEF f, g
    <2>4. /\ u = [f EXCEPT !.pos = [o \in Objects |-> IF o \in O THEN Nowhere ELSE f.pos[o]],
                           !.awake = @ \ O, !.linked = @ \ O]
          /\ v = [g EXCEPT !.pos = [o \in Objects |-> IF o \in O THEN Nowhere ELSE g.pos[o]],
                           !.awake = @ \ O, !.linked = @ \ O]
      BY <2>1 DEF RemoveObjects
    <2>5. /\ u = [f EXCEPT !.pos = away, !.awake = @ \ O, !.linked = @ \ O]
          /\ v = [g EXCEPT !.pos = away, !.awake = @ \ O, !.linked = @ \ O]
      BY <2>2, <2>4
    <2> HIDE DEF away, u, v
    <2> QED BY <2>2, <2>3, <2>5
  <1> HIDE DEF u, v
  <1>8. Unload(w, c) = Emptied(u, c, e)
    BY <1>5, <1>6, <1>7 DEF Emptied, MapState
  <1> QED BY <1>8 DEF u, w, O

LEMMA UnloadEventKeeps ==
    ASSUME NEW m, Whole(m), NEW e \in m.events, e[1] = "unload"
    PROVE  LET r == UnloadCell(Without(m, e), e[2]) IN
           Whole(r) /\ (RunsForSome(m) => RunsForSome(r))
  <1> DEFINE c == e[2]
             w == Without(m, e)
             O == ObjectsIn(m, {c})
             u == RemoveObjects(m, O)
             r == Unload(w, c)
  <1>1. m \in MapState /\ Sound(m) /\ IdlePending(m) /\ Standing(m)
    BY DEF Whole, Sound, Standing
  <1>2. c \in m.pending /\ e = <<"unload", c>>
    BY <1>1 DEF IdlePending, UnloadEvents
  <1>3. c \in Cells \ m.active /\ c \in m.allocated /\ CanUnload(m, c)
    BY <1>1, <1>2 DEF IdlePending, MapState, Sound, Standing, Placed
  <1> HIDE DEF c
  <1>4. ~CellActive(m, c)
    BY <1>3 DEF Whole, NobodyFrozen
  <1>5. /\ O \in SUBSET Objects /\ O \cap m.linked = {} /\ O \cap Players = {}
        /\ O \subseteq InWorld(m)
    <2>1. c \in Around(c, 1)
      BY <1>3 DEF Around, Cells
    <2> QED BY <2>1, <1>1, <1>3, <1>4, WorldFacts DEF CellActive, CanUnload
  <1>6. UnloadCell(w, c) = r
    <2>1. /\ w.allocated = m.allocated /\ w.pending = m.pending
          /\ w.pos = m.pos /\ w.forced = m.forced
          /\ w.gone = m.gone /\ w.left = m.left
      BY <1>1, WithoutFields
    <2>2. ~CellActive(w, c)
      BY <2>1, <1>4, SamePlaces
    <2> QED BY <2>1, <2>2, <1>2, <1>3 DEF UnloadCell
  <1>7. O = {o \in InWorld(m) : CellAt(m, o) = c}
    BY DEF ObjectsIn
  <1>8. r = Emptied(u, c, e)
    BY <1>1, <1>3, UnloadEmpties
  <1> HIDE DEF O
  <1>9. u \in MapState
    BY <1>1, <1>5, RemoveObjectsFields
  <1> HIDE DEF u, r
  <1>10. /\ r \in MapState /\ r.linked = u.linked
         /\ r.pos = u.pos /\ r.inRange = u.inRange /\ r.forced = u.forced
         /\ r.gone = {s \in u.gone : CellOf(SpawnAt(s)) # c}
         /\ r.left = u.left
         /\ r.active = u.active /\ r.awake = u.awake
         /\ r.respawning[c] = {}
         /\ \A d \in Cells \ {c} : r.respawning[d] = u.respawning[d]
         /\ r.loaded = u.loaded \ {c} /\ r.allocated = u.allocated \ {c}
         /\ r.pending = u.pending \ {c}
         /\ r.events = u.events \ {e}
    BY <1>3, <1>8, <1>9 DEF Emptied, MapState
  <1>11. /\ u \in MapState
         /\ \A o \in Objects \ O : u.pos[o] = m.pos[o]
         /\ InWorld(u) = InWorld(m) \ O
         /\ u.respawning = m.respawning /\ u.forced = m.forced
         /\ u.gone = m.gone /\ u.left = m.left
         /\ u.loaded = m.loaded /\ u.active = m.active /\ u.events = m.events
    BY <1>1, <1>5, RemoveObjectsFields DEF u
  <1>12. Standing(u) /\ RangeComplete(u, {})
    BY <1>1, <1>5, RemoveObjectsKeeps DEF Whole, u
  <1> HIDE DEF w
  <1>13. /\ InWorld(r) = InWorld(m) \ O
         /\ \A o \in InWorld(r) : CellAt(r, o) = CellAt(m, o) /\ CellAt(m, o) # c
    <2>1. InWorld(r) = InWorld(m) \ O
      BY <1>10, <1>11, SamePlaces
    <2>2. \A o \in InWorld(r) : o \in Objects /\ r.pos[o] = m.pos[o]
      BY <2>1, <1>1, <1>10, <1>11, WorldFacts
    <2> QED BY <2>1, <2>2, <1>7 DEF CellAt
  <1>14. /\ Waiting(r) \subseteq Waiting(m)
         /\ \A d \in Cells : r.respawning[d] \subseteq m.respawning[d]
    BY <1>10, <1>11 DEF Waiting
  <1>15. Placed(r)
    <2>1. \A o \in InWorld(r) : CellAt(r, o) \in r.allocated
      <3>1. \A o \in InWorld(r) : CellAt(r, o) \in u.allocated
        BY <1>10, <1>12, SamePlaces DEF Standing, Placed
      <3> QED BY <3>1, <1>10, <1>13
    <2>2. r.active \cup r.loaded \cup r.pending \subseteq r.allocated
      BY <1>3, <1>10, <1>11, <1>12 DEF Standing, Placed
    <2> QED BY <2>1, <2>2, <1>10, <1>12, SamePlaces DEF Standing, Placed
  <1>16. OnceDead(r)
    BY <1>1, <1>13, <1>14 DEF Standing, OnceDead
  <1>17. AwakeInActive(r)
    BY <1>10, <1>12, SamePlaces DEF Standing, AwakeInActive
  <1>18. IdlePending(r)
    <2>1. \A d : CanUnload(r, d) = CanUnload(u, d)
      BY <1>10, SamePlaces
    <2>2. \A d \in r.loaded \ r.active : CanUnload(r, d) => d \in r.pending
      BY <2>1, <1>10, <1>12 DEF Standing, IdlePending
    <2>3. \A d \in r.pending : CanUnload(r, d) /\ d \notin r.active
      BY <2>1, <1>10, <1>12 DEF Standing, IdlePending
    <2>4. UnloadEvents(r.pending) = UnloadEvents(u.pending) \ UnloadEvents({c})
      BY <1>10, UnloadRespawn
    <2>5. UnloadEvents({c}) = {e}
      BY <1>2 DEF UnloadEvents
    <2>6. UnloadEvents(r.pending) = {f \in r.events : f[1] = "unload"}
      BY <2>4, <2>5, <1>10, <1>12 DEF Standing, IdlePending
    <2> QED BY <2>2, <2>3, <2>6 DEF IdlePending
  <1>19. RangeSound(r) /\ RangeComplete(r, {})
    BY <1>10, <1>12, SameRange DEF Standing
  <1>20. SpawnsOnce(r)
    <2> SUFFICES ASSUME NEW s \in Homebodies
                 PROVE  LET h == CellOf(SpawnAt(s))
                        IN /\ h \notin r.loaded => Alive(r, s) = {} /\ s \notin r.gone
                           /\ s \in r.gone => Alive(r, s) = {}
                           /\ h \in r.loaded /\ s \notin r.gone
                                => \E a \in Creatures : Alive(r, s) = {a}
                           /\ \A a \in {s} \X (1 .. Copies) :
                                \A d \in Cells : a \in r.respawning[d]
                                    => d = h /\ <<"respawn", a, h>> \in r.events
      BY DEF SpawnsOnce
    <2> DEFINE h == CellOf(SpawnAt(s))
               S == {s} \X (1 .. Copies)
    <2>1. \A a \in S : \A d \in Cells : a \in m.respawning[d]
             => d = h /\ <<"respawn", a, h>> \in m.events
      BY <1>1 DEF Sound, SpawnsOnce
    <2>2. \A a \in S : a \in InWorld(m) => CellAt(m, a) = h
      BY <1>1, HomebodyFacts
    <2>3. /\ Alive(r, s) = {a \in S : a \in InWorld(r) \cup Waiting(r)}
          /\ Alive(m, s) = {a \in S : a \in InWorld(m) \cup Waiting(m)}
      BY DEF Alive
    <2> HIDE DEF h, S
    <2>4. \A a \in S : \A d \in Cells : a \in r.respawning[d]
             => d = h /\ <<"respawn", a, h>> \in r.events
      BY <2>1, <1>2, <1>10, <1>11, <1>14
    <2>5. CASE h = c
      <3>1. \A a \in S : a \notin InWorld(r)
        BY <2>2, <2>5, <1>13
      <3>2. \A a \in S : a \notin Waiting(r)
        BY <2>4, <2>5, <1>3, <1>10, WaitingWhere
      <3>3. Alive(r, s) = {}
        BY <3>1, <3>2, <2>3
      <3>4. h \notin r.loaded /\ s \notin r.gone
        BY <2>5, <1>10 DEF h
      <3> QED BY <3>3, <3>4, <2>4 DEF h, S
    <2>6. CASE h # c
      <3>1. \A a \in S : a \in InWorld(r) <=> a \in InWorld(m)
        BY <2>2, <2>6, <1>7, <1>13
      <3>2. \A a \in S : a \in Waiting(r) <=> a \in Waiting(m)
        <4>1. \A d \in Cells : d # c => r.respawning[d] = m.respawning[d]
          BY <1>10, <1>11
        <4>2. \A a \in S : \A d \in Cells :
                 a \in r.respawning[d] <=> a \in m.respawning[d]
          BY <4>1, <2>1, <2>4, <2>6
        <4> QED BY <4>2, WaitingWhere
      <3>3. Alive(r, s) = Alive(m, s)
        BY <3>1, <3>2, <2>3
      <3>4. (h \in r.loaded <=> h \in m.loaded) /\ (s \in r.gone <=> s \in m.gone)
        BY <2>6, <1>10, <1>11 DEF h
      <3> QED BY <3>3, <3>4, <2>4, <1>1 DEF Sound, SpawnsOnce, h, S
    <2> QED BY <2>5, <2>6
  <1>21. \A d : CellActive(r, d) = CellActive(m, d)
    <2>1. \A p \in Players : r.pos[p] = m.pos[p]
      BY <1>5, <1>10, <1>11, ObjectFacts
    <2> QED BY <2>1, <1>10, <1>11, SameObstacles
  <1>22. NobodyFrozen(r) /\ (RunsForSome(m) => RunsForSome(r))
    BY <1>10, <1>11, <1>21 DEF Whole, NobodyFrozen, RunsForSome
  <1>23. Whole(r)
    BY <1>10, <1>15, <1>16, <1>17, <1>18, <1>19, <1>20, <1>22 DEF Whole, Sound, Standing
  <1> QED BY <1>6, <1>22, <1>23 DEF c, w

\* Where nobody named by a respawn event waits, the event is not missed.
LEMMA RespawnKeeps ==
    ASSUME NEW m, Whole(m), NEW b \in Creatures, NEW c \in Cells,
           <<"respawn", b, c>> \in m.events, NEW back \in BOOLEAN
    PROVE  LET r == EventRespawnCreature(Without(m, <<"respawn", b, c>>), b, c, back) IN
           Whole(r) /\ (RunsForSome(m) => RunsForSome(r))
  <1> DEFINE e == <<"respawn", b, c>>
             w == Without(m, e)
             idle == c \notin m.allocated \/ b \notin m.respawning[c]
             q == [w EXCEPT !.respawning[c] = @ \ {b}]
             r == EventRespawnCreature(w, b, c, back)
  <1>1. m \in MapState /\ Sound(m) /\ RangeComplete(m, {}) /\ NobodyFrozen(m)
        /\ b \in Objects /\ b \notin Players /\ {b} \in SUBSET Creatures
    BY ObjectFacts DEF Whole, Sound, Standing
  <1>2. /\ w \in MapState /\ w.linked = m.linked
        /\ w.pos = m.pos /\ w.inRange = m.inRange /\ w.forced = m.forced
        /\ w.gone = m.gone /\ w.left = m.left
        /\ w.loaded = m.loaded /\ w.allocated = m.allocated
        /\ w.active = m.active /\ w.awake = m.awake /\ w.pending = m.pending
        /\ w.respawning = m.respawning
        /\ w.events = m.events \ {e}
    BY <1>1, WithoutFields
  <1>3. /\ q \in MapState /\ q.linked = m.linked
        /\ q.pos = m.pos /\ q.inRange = m.inRange /\ q.forced = m.forced
        /\ q.gone = m.gone /\ q.left = m.left
        /\ q.loaded = m.loaded /\ q.allocated = m.allocated
        /\ q.active = m.active /\ q.awake = m.awake /\ q.pending = m.pending
        /\ q.respawning[c] = m.respawning[c] \ {b}
        /\ \A d \in Cells \ {c} : q.respawning[d] = m.respawning[d]
        /\ q.events = m.events \ {e}
    <2> HIDE DEF w
    <2> QED BY <1>2 DEF MapState
  <1>4. r = IF idle THEN w
            ELSE IF back THEN PushCreatures(q, {b})
            ELSE [q EXCEPT !.gone = @ \cup {b[1]}]
    BY <1>2 DEF EventRespawnCreature
  <1>5. /\ e[1] # "unload"
        /\ \A a, d : <<"respawn", a, d>> = e => a = b /\ d = c
    OBVIOUS
  <1> HIDE DEF w, q, e, r
  <1>6. CASE idle
    <2>1. r = w
      BY <1>4, <1>6
    <2>2. Placed(w) /\ AwakeInActive(w) /\ RangeSound(w) /\ RangeComplete(w, {})
      <3>1. Placed(w) /\ AwakeInActive(w)
        BY <1>1, <1>2, SamePlaces DEF Sound, Standing, Placed, AwakeInActive
      <3>2. RangeSound(w) /\ RangeComplete(w, {})
        BY <1>1, <1>2, SameRange DEF Sound, Standing
      <3> QED BY <3>1, <3>2
    <2>3. OnceDead(w) /\ Waiting(w) = Waiting(m) /\ InWorld(w) = InWorld(m)
          /\ \A s : Alive(w, s) = Alive(m, s)
      BY <1>1, <1>2, SamePlaces, SameSpawns DEF Sound, Standing
    <2>4. IdlePending(w)
      <3>1. \A d : CanUnload(w, d) = CanUnload(m, d)
        BY <1>2, SamePlaces
      <3>2. {f \in w.events : f[1] = "unload"} = {f \in m.events : f[1] = "unload"}
        BY <1>2, <1>5
      <3> QED BY <3>1, <3>2, <1>1, <1>2 DEF Sound, Standing, IdlePending
    <2>5. SpawnsOnce(w)
      <3> SUFFICES ASSUME NEW s \in Homebodies, NEW a \in {s} \X (1 .. Copies),
                          NEW d \in Cells, a \in m.respawning[d],
                          <<"respawn", a, CellOf(SpawnAt(s))>> = e
                   PROVE  FALSE
        BY <1>1, <1>2, <2>3 DEF Sound, SpawnsOnce
      <3>1. a = b /\ CellOf(SpawnAt(s)) = c /\ d = c
        BY <1>1, <1>5 DEF Sound, SpawnsOnce
      <3>2. a \in Waiting(m)
        BY WaitingWhere
      <3>3. Home(a) \in m.allocated /\ Home(a) = CellOf(SpawnAt(s))
        BY <3>2, <1>1, HomebodyFacts
      <3> QED BY <3>1, <3>3, <1>6
    <2>6. \A d : CellActive(w, d) = CellActive(m, d)
      BY <1>2, SamePlaces
    <2>7. NobodyFrozen(w) /\ (RunsForSome(m) => RunsForSome(w))
      BY <2>6, <1>1, <1>2 DEF NobodyFrozen, RunsForSome
    <2> QED BY <2>1, <2>2, <2>3, <2>4, <2>5, <2>7, <1>2
            DEF Whole, Sound, Standing, r, w, e
  <1>7. ASSUME ~idle
        PROVE  /\ b \in m.respawning[c] /\ b \in Waiting(m) /\ b \notin InWorld(m)
               /\ InWorld(q) = InWorld(m)
               /\ \A d : CellActive(q, d) = CellActive(m, d)
               /\ \A d \in Cells : \A a :
                     a \in q.respawning[d] <=> a \in m.respawning[d] /\ a # b
               /\ \A a : a \in Waiting(q) <=> a \in Waiting(m) /\ a # b
               /\ Standing(q) /\ RangeComplete(q, {})
    <2>2. b \in m.respawning[c] /\ b \in Waiting(m) /\ b \notin InWorld(m)
      BY <1>1, <1>7, WaitingWhere DEF Sound, Standing, OnceDead
    <2>3. /\ InWorld(q) = InWorld(m)
          /\ \A d : CanUnload(q, d) = CanUnload(m, d)
          /\ \A d : CellActive(q, d) = CellActive(m, d)
      BY <1>3, SamePlaces
    <2>4. /\ \A d \in Cells : \A a : a \in q.respawning[d] <=> a \in m.respawning[d] /\ a # b
          /\ \A a : a \in Waiting(q) <=> a \in Waiting(m) /\ a # b
      <3>1. \A d \in Cells : \A a : a \in q.respawning[d] <=> a \in m.respawning[d] /\ a # b
        BY <2>2, <1>1, <1>3 DEF Sound, Standing, OnceDead
      <3> QED BY <3>1, WaitingWhere
    <2>5. Standing(q) /\ RangeComplete(q, {})
      <3>1. Placed(q) /\ AwakeInActive(q)
        BY <1>1, <1>3, SamePlaces DEF Sound, Standing, Placed, AwakeInActive
      <3>2. RangeSound(q) /\ RangeComplete(q, {})
        BY <1>1, <1>3, SameRange DEF Sound, Standing
      <3>3. OnceDead(q)
        BY <1>1, <2>3, <2>4 DEF Sound, Standing, OnceDead
      <3>4. IdlePending(q)
        <4>1. {f \in q.events : f[1] = "unload"} = {f \in m.events : f[1] = "unload"}
          BY <1>3, <1>5
        <4> QED BY <4>1, <2>3, <1>1, <1>3 DEF Sound, Standing, IdlePending
      <3> QED BY <3>1, <3>2, <3>3, <3>4, <1>3 DEF Standing
    <2> QED BY <2>2, <2>3, <2>4, <2>5
  <1>8. CASE ~idle /\ back
    <2>1. r = PushCreatures(q, {b})
      BY <1>4, <1>8
    <2>6. {b} \cap (InWorld(q) \cup Waiting(q)) = {}
      BY <1>7, <1>8
    <2>7. Standing(r)
      BY <2>1, <1>7, <1>8, <2>6, <1>1, PushCreaturesKeeps
    <2>8. RangeComplete(r, {})
      <3>1. RangeSound(q) /\ {b} \cap InWorld(q) = {}
        BY <1>7, <1>8, <2>6 DEF Standing
      <3> QED BY <3>1, <2>1, <1>7, <1>8, <1>1, <1>3, PushCreaturesRange
    <2>9. /\ \A o \in Objects \ {b} : r.pos[o] = q.pos[o]
          /\ InWorld(r) = InWorld(q) \cup {b}
          /\ r.respawning = q.respawning /\ r.loaded = q.loaded
          /\ r.forced = q.forced /\ r.active = q.active /\ r.events = q.events
          /\ r.gone = q.gone /\ r.left = q.left
      BY <2>1, <1>1, <1>3, PushCreaturesFields
    <2>10. SpawnsOnce(r)
      <3>1. Waiting(r) = Waiting(q)
        BY <2>9 DEF Waiting
      <3>2. \A s : Alive(r, s) = Alive(m, s)
        BY <3>1, <1>7, <1>8, <2>9 DEF Alive
      <3>3. \A d \in Cells : \A a \in r.respawning[d] : a \in m.respawning[d] /\ a # b
        BY <1>7, <1>8, <2>9
      <3>4. \A a, d : a # b /\ <<"respawn", a, d>> \in m.events
                        => <<"respawn", a, d>> \in r.events
        BY <2>9, <1>3, <1>5
      <3>5. r.loaded = m.loaded /\ r.gone = m.gone
        BY <2>9, <1>3
      <3> QED BY <3>2, <3>3, <3>4, <3>5, <1>1 DEF Sound, SpawnsOnce
    <2>11. \A d : CellActive(r, d) = CellActive(m, d)
      <3>1. \A p \in Players : r.pos[p] = q.pos[p]
        BY <2>9, <1>1, ObjectFacts
      <3> QED BY <3>1, <1>7, <1>8, <2>9, SameObstacles
    <2>12. NobodyFrozen(r) /\ (RunsForSome(m) => RunsForSome(r))
      BY <2>9, <2>11, <1>1, <1>3 DEF NobodyFrozen, RunsForSome
    <2> QED BY <2>7, <2>8, <2>10, <2>12 DEF Whole, Sound, r, w, e
  <1>9. CASE ~idle /\ ~back
    <2>1. r = [q EXCEPT !.gone = @ \cup {b[1]}] /\ b[1] \in Spawns
      BY <1>4, <1>9 DEF Creatures
    <2>2. /\ r \in MapState /\ r.linked = q.linked
          /\ r.pos = q.pos /\ r.inRange = q.inRange /\ r.forced = q.forced
          /\ r.loaded = q.loaded /\ r.allocated = q.allocated
          /\ r.active = q.active /\ r.awake = q.awake /\ r.pending = q.pending
          /\ r.events = q.events /\ r.respawning = q.respawning
          /\ r.left = q.left /\ r.gone = q.gone \cup {b[1]}
      BY <2>1, <1>3 DEF MapState
    <2>3. InWorld(r) = InWorld(m) /\ \A a : a \in Waiting(r) <=> a \in Waiting(m) /\ a # b
      BY <2>2, <1>7, <1>9, SamePlaces DEF Waiting
    <2>4. Standing(r) /\ RangeComplete(r, {})
      <3>1. Placed(r) /\ AwakeInActive(r) /\ IdlePending(r)
        BY <2>2, <1>7, <1>9, SamePlaces DEF Standing, Placed, AwakeInActive, IdlePending
      <3>2. RangeSound(r) /\ RangeComplete(r, {})
        BY <2>2, <1>7, <1>9, SameRange DEF Standing
      <3>3. OnceDead(r)
        BY <2>2, <1>7, <1>9, SamePlaces, SameSpawns DEF Standing
      <3> QED BY <3>1, <3>2, <3>3, <2>2 DEF Standing
    <2>5. SpawnsOnce(r)
      <3> SUFFICES ASSUME NEW s \in Homebodies
                   PROVE  LET h == CellOf(SpawnAt(s))
                          IN /\ h \notin r.loaded => Alive(r, s) = {} /\ s \notin r.gone
                             /\ s \in r.gone => Alive(r, s) = {}
                             /\ h \in r.loaded /\ s \notin r.gone
                                  => \E a \in Creatures : Alive(r, s) = {a}
                             /\ \A a \in {s} \X (1 .. Copies) :
                                  \A d \in Cells : a \in r.respawning[d]
                                      => d = h /\ <<"respawn", a, h>> \in r.events
        BY DEF SpawnsOnce
      <3>1. r.loaded = m.loaded
        BY <2>2, <1>3
      <3>2. \A a \in {s} \X (1 .. Copies) : \A d \in Cells : a \in r.respawning[d]
               => d = CellOf(SpawnAt(s)) /\ <<"respawn", a, CellOf(SpawnAt(s))>> \in r.events
        <4>1. \A d \in Cells : \A a \in r.respawning[d] : a \in m.respawning[d] /\ a # b
          BY <2>2, <1>7, <1>9
        <4>2. \A a, d : a # b /\ <<"respawn", a, d>> \in m.events
                          => <<"respawn", a, d>> \in r.events
          BY <2>2, <1>3, <1>5
        <4> QED BY <4>1, <4>2, <1>1 DEF Sound, SpawnsOnce
      <3>3. CASE s = b[1]
        <4>1. b \in Alive(m, s)
          BY <3>3, <1>7, <1>9 DEF Alive, Creatures
        <4>2. Alive(m, s) = {b} /\ CellOf(SpawnAt(s)) \in m.loaded
          BY <4>1, <1>1 DEF Sound, SpawnsOnce
        <4>3. Alive(r, s) = {}
          BY <4>2, <2>3, <1>7, <1>9 DEF Alive
        <4>4. s \in r.gone
          BY <3>3, <2>2
        <4> QED BY <4>2, <4>3, <4>4, <3>1, <3>2
      <3>4. CASE s # b[1]
        <4>1. Alive(r, s) = Alive(m, s)
          BY <3>4, <2>3 DEF Alive
        <4>2. s \in r.gone <=> s \in m.gone
          BY <3>4, <2>2, <1>3
        <4> QED BY <4>1, <4>2, <3>1, <3>2, <1>1 DEF Sound, SpawnsOnce
      <3> QED BY <3>3, <3>4
    <2>6. \A d : CellActive(r, d) = CellActive(m, d)
      BY <2>2, <1>7, <1>9, SamePlaces
    <2>7. NobodyFrozen(r) /\ (RunsForSome(m) => RunsForSome(r))
      BY <2>2, <2>6, <1>1, <1>3 DEF NobodyFrozen, RunsForSome
    <2> QED BY <2>4, <2>5, <2>7 DEF Whole, Sound, r, w, e
  <1> QED BY <1>6, <1>8, <1>9

-----------------------------------------------------------------------------
(* Forced cells                                                             *)

\* The scripts of q force c, or no longer, and c exists.
Forces(m, q, c) ==
    /\ q \in MapState
    /\ q.pos = m.pos /\ q.inRange = m.inRange /\ q.linked = m.linked
    /\ q.loaded = m.loaded /\ m.allocated \subseteq q.allocated
    /\ q.gone = m.gone /\ q.left = m.left
    /\ q.active = m.active /\ q.awake = m.awake /\ q.pending = m.pending
    /\ q.respawning = m.respawning /\ q.events = m.events
    /\ \A d : d # c => (d \in q.forced <=> d \in m.forced)

LEMMA ForcedKeeps ==
    ASSUME NEW m, Whole(m), NEW c \in Cells, NEW q, Forces(m, q, c),
           NEW room, RoomFor(m, room), c \in q.forced => Cells \subseteq room
    PROVE  LET r == UpdateCellActivity(q, c, 1) IN
           Whole(r) /\ (RunsForSome(m) => RunsForSome(r))
  <1> DEFINE W == Around(c, 1)
             F == q.forced
             r == UpdateCellActivity(q, c, 1)
  <1>1. m \in MapState /\ Sound(m) /\ RangeComplete(m, {}) /\ NobodyFrozen(m)
        /\ m.allocated \subseteq Cells
    BY DEF Whole, Sound, Standing, MapState
  <1>2. /\ q \in MapState /\ q.forced = F
        /\ q.pos = m.pos /\ q.inRange = m.inRange /\ q.linked = m.linked
        /\ q.loaded = m.loaded /\ m.allocated \subseteq q.allocated
        /\ q.gone = m.gone /\ q.left = m.left
        /\ q.active = m.active /\ q.awake = m.awake /\ q.pending = m.pending
        /\ q.respawning = m.respawning /\ q.events = m.events
        /\ \A d : d # c => (d \in F <=> d \in m.forced)
        /\ c \in F => Cells \subseteq room
    BY DEF Forces
  <1> HIDE DEF F
  <1>3. /\ InWorld(q) = InWorld(m)
        /\ \A C : ObjectsIn(q, C) = ObjectsIn(m, C)
    BY <1>2, SamePlaces
  <1>4. Sound(q) /\ RangeComplete(q, {}) /\ RoomFor(q, room)
    <2>1. Placed(q) /\ AwakeInActive(q) /\ IdlePending(q)
      BY <1>1, <1>2, SamePlaces DEF Sound, Standing, Placed, AwakeInActive, IdlePending
    <2>2. RangeSound(q) /\ RangeComplete(q, {})
      BY <1>1, <1>2, SameRange DEF Sound, Standing
    <2>3. OnceDead(q) /\ SpawnsOnce(q)
      BY <1>1, <1>2, <1>3, SameSpawns DEF Sound, Standing, RespawnsStay
    <2>4. RoomFor(q, room)
      BY <1>2, <1>3 DEF RoomFor, Waiting
    <2> QED BY <2>1, <2>2, <2>3, <2>4, <1>2 DEF Sound, Standing
  <1>5. \A d \in Cells : c \notin Around(d, 1) => (CellActive(q, d) <=> CellActive(m, d))
    BY <1>2, <1>3 DEF CellActive
  <1>6. c \notin F => \A d \in Cells : CellActive(q, d) => CellActive(m, d)
    BY <1>2, <1>3 DEF CellActive
  <1>7. Tends(q, r) /\ r.active = Refreshed(q, W) /\ r.left = q.left \ W
    <2>1. \A d \in W : CellActive(q, d) /\ d \notin q.active => d \in room
      <3>1. W \subseteq Cells
        BY AroundFacts
      <3>2. CASE c \in F
        BY <3>1, <3>2, <1>2
      <3>3. CASE c \notin F
        BY <3>1, <3>3, <1>1, <1>2, <1>6 DEF NobodyFrozen
      <3> QED BY <3>2, <3>3
    <2> QED BY <2>1, <1>4, UpdateCellActivityKeeps
  <1> HIDE DEF r
  <1>8. \A d : CellActive(r, d) = CellActive(q, d)
    BY <1>7, TendsActive
  <1>9. W \in SUBSET Cells /\ \A d \in Cells \ W : c \notin Around(d, 1)
    BY <1>1, AroundFacts
  <1>10. \A d \in Cells \ W : CellActive(q, d) => d \in q.active
    BY <1>1, <1>2, <1>5, <1>9 DEF NobodyFrozen
  <1>11. ASSUME RunsForSome(m), NEW d \in q.active \ W
         PROVE  CellActive(q, d) \/ d \in q.left
    BY <1>2, <1>5, <1>9, <1>11 DEF RunsForSome, MapState
  <1>12. NobodyFrozen(r) /\ (RunsForSome(m) => RunsForSome(r))
    <2>1. RunsForSome(m) => q.left \subseteq q.active
      BY <1>2 DEF RunsForSome
    <2> QED BY <2>1, <1>7, <1>8, <1>9, <1>10, <1>11, VisitActive
  <1> QED BY <1>4, <1>7, <1>12 DEF Whole, Tends, r

-----------------------------------------------------------------------------
(* The steps of the map                                                     *)

LEMMA InitIInv == Init => IInv
  <1> SUFFICES ASSUME Init PROVE IInv
    OBVIOUS
  <1>1. /\ map \in MapState
        /\ map.pos = [o \in Objects |-> Nowhere]
        /\ map.inRange = [o \in Objects |-> {}]
        /\ map.allocated = {} /\ map.active = {} /\ map.loaded = {}
        /\ map.pending = {} /\ map.respawning = [c \in Cells |-> {}]
        /\ map.forced = {} /\ map.awake = {} /\ map.linked = {} /\ map.events = {}
        /\ map.gone = {} /\ map.left = {}
    BY DEF Init, MapState
  <1>2. InWorld(map) = {} /\ Waiting(map) = {}
    BY <1>1 DEF InWorld, Waiting
  <1>3. \A C : ObjectsIn(map, C) = {}
    BY <1>2 DEF ObjectsIn
  <1>4. Placed(map) /\ OnceDead(map) /\ RangeSound(map) /\ AwakeInActive(map)
    BY <1>1, <1>2, <1>3 DEF Placed, OnceDead, RangeSound, AwakeInActive
  <1>5. IdlePending(map)
    BY <1>1 DEF IdlePending, UnloadEvents
  <1>6. SpawnsOnce(map)
    BY <1>1, <1>2 DEF SpawnsOnce, Alive
  <1>7. RangeComplete(map, {}) /\ NobodyFrozen(map) /\ RunsForSome(map)
    BY <1>1, <1>2, <1>3 DEF RangeComplete, NobodyFrozen, RunsForSome, CellActive
  <1> QED BY <1>1, <1>4, <1>5, <1>6, <1>7 DEF IInv, Whole, Sound, Standing

LEMMA RoomForAll == HasRoom => RoomFor(map, Cells)
  BY DEF HasRoom, RoomFor

Keeps == IInv'

LEMMA PlayersKeep ==
    ASSUME IInv, NEW p \in Players, NEW x \in Positions
    PROVE  /\ EnterMap(p, x) => Keeps
           /\ LeaveMap(p) => Keeps
           /\ MovePlayer(p, x) => Keeps
           /\ \A k \in Corpses : Repop(p, k, x) => Keeps
  <1>1. Whole(map) /\ RunsForSome(map) /\ map \in MapState
    BY DEF IInv, Whole, Sound, Standing
  <1>2. ASSUME EnterMap(p, x) PROVE Keeps
    <2>1. p \in Players \ InWorld(map) /\ RoomFor(map, Cells) /\ map' = PushPlayer(map, p, x)
      BY <1>2, RoomForAll DEF EnterMap
    <2> QED BY <1>1, <2>1, PushPlayerKeeps DEF Keeps, IInv
  <1>3. ASSUME LeaveMap(p) PROVE Keeps
    <2>1. p \in Players \cap InWorld(map) /\ map' = RemovePlayer(map, p)
      BY <1>3 DEF LeaveMap
    <2> QED BY <1>1, <2>1, RemovePlayerKeeps DEF Keeps, IInv
  <1>4. ASSUME MovePlayer(p, x) PROVE Keeps
    <2>1. p \in Players \cap InWorld(map) /\ RoomFor(map, Cells)
          /\ map' = ChangePlayerLocation(map, p, x)
      BY <1>4, RoomForAll DEF MovePlayer
    <2> QED BY <1>1, <2>1, ChangePlayerLocationKeeps DEF Keeps, IInv
  <1>5. ASSUME NEW k \in Corpses, Repop(p, k, x) PROVE Keeps
    <2> DEFINE m == ChangePlayerLocation(map, p, x)
    <2>1. p \in Players \cap InWorld(map) /\ k \notin InWorld(map) /\ RoomFor(map, Cells)
          /\ map' = PushCorpse(m, k, map.pos[p])
      BY <1>5, RoomForAll DEF Repop
    <2>2. /\ Whole(m)
          /\ RunsForSome(m)
          /\ m.pos[k] = map.pos[k]
      BY <1>1, <2>1, ChangePlayerLocationKeeps
    <2>3. k \in Corpses \ InWorld(m) /\ map.pos[p] \in Positions
      BY <1>1, <2>1, <2>2, WorldFacts, ObjectFacts DEF InWorld
    <2> HIDE DEF m
    <2> QED BY <2>1, <2>2, <2>3, PushCorpseKeeps DEF Keeps, IInv
  <1> QED BY <1>2, <1>3, <1>4, <1>5

LEMMA CorpsesKeep ==
    ASSUME IInv, NEW k \in Corpses
    PROVE  (LoseOwner(k) => Keeps) /\ (EventCorpseDespawn(k) => Keeps)
  <1>1. Whole(map) /\ RunsForSome(map)
    BY DEF IInv
  <1>2. ASSUME LoseOwner(k) PROVE Keeps
    BY <1>1, <1>2, CorpseGoneIdleKeeps DEF LoseOwner, Keeps, IInv
  <1>3. ASSUME EventCorpseDespawn(k) PROVE Keeps
    <2>1. k \in Corpses \ map.linked /\ map' = RemoveObjects(map, {k})
      BY <1>3 DEF EventCorpseDespawn
    <2> QED BY <1>1, <2>1, RemoveCorpseKeeps DEF Keeps, IInv
  <1> QED BY <1>2, <1>3

LEMMA CreaturesKeep ==
    ASSUME IInv, NEW b \in Creatures
    PROVE  (\A x \in Positions : Walk(b, x) => Keeps) /\ (Die(b) => Keeps)
  <1>1. Whole(map) /\ RunsForSome(map)
    BY DEF IInv
  <1>2. ASSUME NEW x \in Positions, Walk(b, x) PROVE Keeps
    <2>1. b \in map.awake /\ x \in Positions \cap Path(b[1])
          /\ map' = ChangeCreatureLocation(map, b, x)
      BY <1>2 DEF Walk
    <2> QED BY <1>1, <2>1, ChangeCreatureLocationKeeps DEF Keeps, IInv
  <1>3. ASSUME Die(b) PROVE Keeps
    <2>1. /\ b \in InWorld(map) \cap Creatures
          /\ map' = DespawnCreature(map, b) \/ map' = DeleteCreature(map, b)
      BY <1>3 DEF Die
    <2> QED BY <1>1, <2>1, DespawnCreatureKeeps, DeleteCreatureKeeps DEF Keeps, IInv
  <1> QED BY <1>2, <1>3

LEMMA BarKeeps ==
    ASSUME IInv, NEW s \in Spawns, Bar(s)
    PROVE  Keeps
  <1> DEFINE r == [map EXCEPT !.barred = @ \cup {s}]
  <1>1. Whole(map) /\ RunsForSome(map) /\ map \in MapState /\ s \in Mortal /\ map' = r
    BY DEF IInv, Whole, Sound, Standing, Bar
  <1>2. r \in MapState /\ Agree(map, r) /\ r.left = map.left
    BY <1>1 DEF MapState, Agree
  <1> HIDE DEF r
  <1>3. Sound(r) /\ RangeComplete(r, {}) /\ \A c : CellActive(r, c) = CellActive(map, c)
    BY <1>1, <1>2, SameSound DEF Whole
  <1>4. NobodyFrozen(r) /\ RunsForSome(r)
    BY <1>1, <1>2, <1>3 DEF Whole, NobodyFrozen, RunsForSome, Agree
  <1> QED BY <1>1, <1>3, <1>4 DEF Keeps, IInv, Whole

LEMMA EventsKeep ==
    ASSUME IInv, NEW e \in map.events, HandleEvent(e)
    PROVE  Keeps
  <1>1. Whole(map) /\ RunsForSome(map) /\ map \in MapState
    BY DEF IInv, Whole, Sound, Standing
  <1>2. CASE e[1] = "unload" /\ map' = UnloadCell(Without(map, e), e[2])
    BY <1>1, <1>2, UnloadEventKeeps DEF Keeps, IInv
  <1>3. ASSUME e[1] = "respawn", NEW back \in BOOLEAN,
               map' = EventRespawnCreature(Without(map, e), e[2], e[3], back)
        PROVE  Keeps
    <2>1. e \in MapEvents
      BY <1>1 DEF MapState
    <2>2. PICK b \in Creatures, c \in Cells : e = <<"respawn", b, c>>
      BY <2>1, <1>3 DEF MapEvents, UnloadEvents
    <2>3. map' = EventRespawnCreature(Without(map, <<"respawn", b, c>>), b, c, back)
      BY <2>2, <1>3
    <2> QED BY <1>1, <2>2, <2>3, RespawnKeeps DEF Keeps, IInv
  <1> QED BY <1>2, <1>3 DEF HandleEvent, Without

LEMMA ForcedCellsKeep ==
    ASSUME IInv, NEW c \in Cells
    PROVE  (AddForcedCell(c) => Keeps) /\ (RemoveForcedCell(c) => Keeps)
  <1>1. Whole(map) /\ RunsForSome(map) /\ map \in MapState
    BY DEF IInv, Whole, Sound, Standing
  <1>2. ASSUME AddForcedCell(c) PROVE Keeps
    <2> DEFINE q == [map EXCEPT !.allocated = @ \cup {c}, !.forced = @ \cup {c}]
    <2>1. c \in Forcible /\ RoomFor(map, Cells) /\ map' = UpdateCellActivity(q, c, 1)
      BY <1>2, RoomForAll DEF AddForcedCell
    <2>2. Forces(map, q, c)
      BY <1>1, <2>1 DEF Forces, MapState
    <2> HIDE DEF q
    <2> QED BY <1>1, <2>1, <2>2, ForcedKeeps DEF Keeps, IInv
  <1>3. ASSUME RemoveForcedCell(c) PROVE Keeps
    <2> DEFINE q == [map EXCEPT !.forced = @ \ {c}]
    <2>1. map' = UpdateCellActivity(q, c, 1)
      BY <1>3 DEF RemoveForcedCell
    <2>2. Forces(map, q, c) /\ c \notin q.forced
      BY <1>1 DEF Forces, MapState
    <2>3. RoomFor(map, {})
      BY DEF RoomFor
    <2> HIDE DEF q
    <2> QED BY <1>1, <2>1, <2>2, <2>3, ForcedKeeps DEF Keeps, IInv
  <1> QED BY <1>2, <1>3

LEMMA NextKeeps == IInv /\ [Next]_map => Keeps
  <1> SUFFICES ASSUME IInv, [Next]_map PROVE Keeps
    OBVIOUS
  <1>1. CASE UNCHANGED map
    BY <1>1 DEF Keeps, IInv
  <1>2. ASSUME NEW p \in Players, NEW x \in Positions,
               EnterMap(p, x) \/ MovePlayer(p, x) PROVE Keeps
    BY <1>2, PlayersKeep
  <1>3. ASSUME NEW p \in Players, LeaveMap(p) PROVE Keeps
    <2>1. map.pos[p] \in Positions
      BY <1>3, WorldFacts DEF LeaveMap, IInv, Whole, Sound, Standing
    <2> QED BY <1>3, <2>1, PlayersKeep
  <1>4. ASSUME NEW p \in Players, NEW k \in Corpses, NEW x \in Positions,
               Repop(p, k, x) PROVE Keeps
    BY <1>4, PlayersKeep
  <1>5. ASSUME NEW k \in Corpses, LoseOwner(k) \/ EventCorpseDespawn(k) PROVE Keeps
    BY <1>5, CorpsesKeep
  <1>6. ASSUME NEW b \in Creatures, NEW x \in Positions, Walk(b, x) PROVE Keeps
    BY <1>6, CreaturesKeep
  <1>7. ASSUME NEW b \in Creatures, Die(b) PROVE Keeps
    BY <1>7, CreaturesKeep
  <1>8. ASSUME NEW e \in map.events, HandleEvent(e) PROVE Keeps
    BY <1>8, EventsKeep
  <1>9. ASSUME NEW c \in Cells, AddForcedCell(c) \/ RemoveForcedCell(c) PROVE Keeps
    BY <1>9, ForcedCellsKeep
  <1>10. ASSUME NEW s \in Spawns, Bar(s) PROVE Keeps
    BY <1>10, BarKeeps
  <1> QED BY <1>1, <1>2, <1>3, <1>4, <1>5, <1>6, <1>7, <1>8, <1>9, <1>10 DEF Next

-----------------------------------------------------------------------------
\* Every handler of the map keeps the invariant, however the objects came to
\* be where they are.
THEOREM Invariance == Spec => []IInv
  <1>1. Init => IInv
    BY InitIInv
  <1>2. IInv /\ [Next]_map => IInv'
    BY NextKeeps DEF Keeps
  <1> QED BY <1>1, <1>2, PTL DEF Spec

\* Whatever comes, goes, walks, dies or is loaded and unloaded, the in-range
\* sets are mutual, hold nobody who is gone or too far, and miss nobody near.
THEOREM InRangeSafety == Spec => []InRangeSetsMatch
  <1>1. IInv => InRangeSetsMatch
    <2> SUFFICES ASSUME IInv PROVE InRangeSetsMatch
      OBVIOUS
    <2>1. RangeSound(map) /\ RangeComplete(map, {})
      BY DEF IInv, Whole, Sound, Standing
    <2>2. \A a, b \in InWorld(map) : Meets(map, a, b) => b \in map.inRange[a]
      BY <2>1 DEF RangeComplete
    <2> QED BY <2>1, <2>2 DEF InRangeSetsMatch, RangeSound, Meets, Near
  <1> QED BY <1>1, Invariance, PTL

\* Loading, unloading, dying and coming back make no second creature of a
\* spawn that stays in its cell, lose none, and bring none back that was
\* removed for good.
THEOREM SpawnSafety == Spec => []SpawnedOnce
  <1>1. IInv => SpawnedOnce
    <2> SUFFICES ASSUME IInv, NEW s \in Homebodies
                 PROVE  LET c == CellOf(SpawnAt(s))
                            all == {<<s, i>> : i \in 1 .. Copies}
                        IN /\ Cardinality(all \cap (InWorld(map) \cup Waiting(map)))
                                = IF c \in map.loaded /\ s \notin map.gone THEN 1 ELSE 0
                           /\ all \cap InWorld(map) \cap Waiting(map) = {}
                           /\ \A b \in all : b \in map.respawning[c]
                                => <<"respawn", b, c>> \in map.events
      BY DEF SpawnedOnce
    <2> DEFINE c == CellOf(SpawnAt(s))
               all == {<<s, i>> : i \in 1 .. Copies}
    <2>1. OnceDead(map) /\ SpawnsOnce(map)
      BY DEF IInv, Whole, Sound, Standing
    <2>2. all = {s} \X (1 .. Copies)
      OBVIOUS
    <2>3. all \cap (InWorld(map) \cup Waiting(map)) = Alive(map, s)
      BY <2>2 DEF Alive
    <2>4. c \in Cells
      BY CellOfPositions, CellsAssumption DEF CellsAssumption, Homebodies
    <2>5. /\ c \notin map.loaded => Alive(map, s) = {}
          /\ s \in map.gone => Alive(map, s) = {}
          /\ c \in map.loaded /\ s \notin map.gone => \E b \in Creatures : Alive(map, s) = {b}
          /\ \A b \in {s} \X (1 .. Copies) : \A d \in Cells :
                b \in map.respawning[d] => <<"respawn", b, c>> \in map.events
      BY <2>1 DEF SpawnsOnce
    <2>6. all \cap InWorld(map) \cap Waiting(map) = {}
      BY <2>1 DEF OnceDead
    <2>7. \A b \in all : b \in map.respawning[c] => <<"respawn", b, c>> \in map.events
      BY <2>2, <2>4, <2>5
    <2>8. Cardinality(Alive(map, s))
            = IF c \in map.loaded /\ s \notin map.gone THEN 1 ELSE 0
      BY <2>5, FS_Singleton, FS_EmptySet
    <2> QED BY <2>3, <2>6, <2>7, <2>8
  <1> QED BY <1>1, Invariance, PTL

\* What a map promises wherever a player goes: nothing next to a player or a
\* forced cell is frozen, just the creatures of active cells are updated, and
\* a cell left idle waits to be unloaded.
NothingFrozen ==
    /\ TypeOK
    /\ {c \in Cells : CellActive(map, c)} \subseteq map.active
    /\ map.awake = ObjectsIn(map, map.active) \cap Creatures
    /\ IdleIsUnloaded

\* However far players go at once, nothing around them is frozen.
THEOREM NeverFrozen == Spec => []NothingFrozen
  <1>1. IInv => NothingFrozen
    <2> SUFFICES ASSUME IInv PROVE NothingFrozen
      OBVIOUS
    <2>1. /\ map \in MapState /\ Placed(map) /\ AwakeInActive(map)
          /\ IdlePending(map) /\ NobodyFrozen(map)
      BY DEF IInv, Whole, Sound, Standing
    <2>2. TypeOK
      BY <2>1 DEF TypeOK, MapState, Placed
    <2> QED BY <2>1, <2>2 DEF NothingFrozen, AwakeInActive, IdlePending,
                              NobodyFrozen, IdleIsUnloaded
  <1> QED BY <1>1, Invariance, PTL

\* No cell runs for nobody either, but those on the far side of where a
\* player was who moved exactly two cells: the cells that are active are
\* just those that are to be, and those.
THEOREM ActivitySafety == Spec => []CellsMatchPlayers
  <1>1. IInv /\ NothingFrozen => CellsMatchPlayers
    <2> SUFFICES ASSUME RunsForSome(map), NothingFrozen PROVE CellsMatchPlayers
      BY DEF IInv
    <2>1. map.active \subseteq Cells
      BY DEF NothingFrozen, TypeOK
    <2>2. map.active = {c \in Cells : CellActive(map, c)} \cup map.left
      BY <2>1 DEF NothingFrozen, RunsForSome
    <2> QED BY <2>2 DEF CellsMatchPlayers, NothingFrozen, ActiveNearPlayers
  <1> QED BY <1>1, Invariance, NeverFrozen, PTL

-------------------------------------------------------------------------------
(* Timed events: sequences, and the entries of an event.                     *)

\* A set that is mapped one to one has as many elements as its image.
LEMMA SameNumber ==
    ASSUME NEW S, NEW T, IsFiniteSet(S), NEW f \in [S -> T],
           \A x, y \in S : f[x] = f[y] => x = y,
           \A y \in T : \E x \in S : f[x] = y
    PROVE  IsFiniteSet(T) /\ Cardinality(T) = Cardinality(S)
  <1>1. f \in Bijection(S, T)
    BY DEF Bijection, Injection, Surjection, IsInjective
  <1> QED BY <1>1, FS_Bijection DEF ExistsBijection

\* An event is counted in a sequence exactly when it is in it.
LEMMA PlacesFacts ==
    \A s \in Seq(Events) : \A e :
        /\ IsFiniteSet(Places(s, e))
        /\ Count(s, e) \in Nat
        /\ Count(s, e) = 0 <=> e \notin ToSet(s)
  <1> TAKE s \in Seq(Events)
  <1> TAKE e
  <1>1. Places(s, e) \subseteq 1..Len(s) /\ IsFiniteSet(1..Len(s))
    BY FS_Interval DEF Places
  <1>2. IsFiniteSet(Places(s, e))
    BY <1>1, FS_Subset
  <1>3. Places(s, e) = {} <=> e \notin ToSet(s)
    BY DEF Places, ToSet
  <1> QED BY <1>2, <1>3, FS_CardinalityType, FS_EmptySet DEF Count

\* The empty sequence has nothing.
LEMMA CountEmpty == \A e : Count(<<>>, e) = 0
  <1>1. \A e : Places(<<>>, e) = {}
    BY DEF Places
  <1> QED BY <1>1, FS_EmptySet DEF Count

\* What two sequences have together is in their concatenation, ...
LEMMA CountConcat ==
    \A s, t \in Seq(Events) : \A e : Count(s \o t, e) = Count(s, e) + Count(t, e)
  <1> TAKE s, t \in Seq(Events)
  <1> TAKE e
  <1> DEFINE shifted == {Len(s) + i : i \in Places(t, e)}
             f == [i \in Places(t, e) |-> Len(s) + i]
  <1>1. Places(s \o t, e) = Places(s, e) \cup shifted
    <2>1. \A i \in Places(s \o t, e) : i \in Places(s, e) \/ i \in shifted
      <3> SUFFICES ASSUME NEW i \in Places(s \o t, e), i \notin Places(s, e)
                   PROVE  i \in shifted
        OBVIOUS
      <3>1. i \in Nat /\ i > Len(s) /\ i <= Len(s) + Len(t) /\ (s \o t)[i] = e
        BY DEF Places
      <3>2. i - Len(s) \in Places(t, e)
        BY <3>1 DEF Places
      <3> QED BY <3>1, <3>2
    <2>2. Places(s, e) \subseteq Places(s \o t, e)
      BY DEF Places
    <2>3. shifted \subseteq Places(s \o t, e)
      BY DEF Places
    <2> QED BY <2>1, <2>2, <2>3
  <1>2. Places(s, e) \cap shifted = {}
    BY DEF Places
  <1>3. IsFiniteSet(shifted) /\ Cardinality(shifted) = Count(t, e)
    <2>1. f \in [Places(t, e) -> shifted] /\ IsFiniteSet(Places(t, e))
      BY PlacesFacts
    <2>2. \A x, y \in Places(t, e) : f[x] = f[y] => x = y
      BY DEF Places
    <2>3. \A y \in shifted : \E x \in Places(t, e) : f[x] = y
      OBVIOUS
    <2> HIDE DEF f, shifted
    <2>4. IsFiniteSet(shifted) /\ Cardinality(shifted) = Cardinality(Places(t, e))
      BY <2>1, <2>2, <2>3, SameNumber
    <2> QED BY <2>4 DEF Count
  <1> HIDE DEF shifted
  <1>4. IsFiniteSet(Places(s, e)) /\ Count(s, e) \in Nat /\ Count(t, e) \in Nat
    BY PlacesFacts
  <1>5. Cardinality(Places(s, e) \cup shifted)
           = Cardinality(Places(s, e)) + Cardinality(shifted) - Cardinality({})
    BY <1>2, <1>3, <1>4, FS_Union
  <1> QED BY <1>1, <1>3, <1>4, <1>5, FS_EmptySet DEF Count

\* ... and nothing else.
LEMMA ConcatFacts ==
    \A s, t \in Seq(Events) : ToSet(s \o t) = ToSet(s) \cup ToSet(t)
  <1> TAKE s, t \in Seq(Events)
  <1> DEFINE u == s \o t
  <1>1. u \in Seq(Events) /\ \A e : Count(u, e) = Count(s, e) + Count(t, e)
    BY CountConcat
  <1> HIDE DEF u
  <1>2. \A e : e \in ToSet(u) <=> e \in ToSet(s) \/ e \in ToSet(t)
    <2> TAKE e
    <2>1. /\ Count(s, e) \in Nat /\ Count(t, e) \in Nat
          /\ Count(s, e) = 0 <=> e \notin ToSet(s)
          /\ Count(t, e) = 0 <=> e \notin ToSet(t)
          /\ Count(u, e) = 0 <=> e \notin ToSet(u)
      BY <1>1, PlacesFacts
    <2> QED BY <1>1, <2>1
  <1> QED BY <1>2 DEF u

\* A sequence of one event has it once.
LEMMA CountOne ==
    ASSUME NEW x \in Events, NEW e
    PROVE  Count(<<x>>, e) = IF x = e THEN 1 ELSE 0
  <1>1. Places(<<x>>, e) = IF x = e THEN {1} ELSE {}
    BY DEF Places
  <1> QED BY <1>1, FS_EmptySet, FS_Singleton DEF Count

\* An event between two sequences is there once more.
LEMMA InsertedFacts ==
    ASSUME NEW a \in Seq(Events), NEW b \in Seq(Events), NEW x \in Events
    PROVE  /\ ToSet((a \o <<x>>) \o b) = (ToSet(a) \cup {x}) \cup ToSet(b)
           /\ \A e : Count((a \o <<x>>) \o b, e)
                       = Count(a, e) + (IF x = e THEN 1 ELSE 0) + Count(b, e)
  <1> DEFINE one == <<x>>
             u == a \o one
  <1>1. one \in Seq(Events) /\ u \in Seq(Events)
    OBVIOUS
  <1>2. ToSet(one) = {x} /\ \A e : Count(one, e) = IF x = e THEN 1 ELSE 0
    BY CountOne DEF ToSet
  <1> HIDE DEF one
  <1>3. ToSet(u) = ToSet(a) \cup ToSet(one)
    BY <1>1, ConcatFacts
  <1>4. \A e : Count(u, e) = Count(a, e) + Count(one, e)
    BY <1>1, CountConcat
  <1> HIDE DEF u
  <1>5. ToSet(u \o b) = ToSet(u) \cup ToSet(b)
    BY <1>1, ConcatFacts
  <1>6. \A e : Count(u \o b, e) = Count(u, e) + Count(b, e)
    BY <1>1, CountConcat
  <1>7. ToSet(u \o b) = (ToSet(a) \cup {x}) \cup ToSet(b)
    BY <1>2, <1>3, <1>5
  <1>8. \A e : Count(u \o b, e) = Count(a, e) + (IF x = e THEN 1 ELSE 0) + Count(b, e)
    BY <1>2, <1>4, <1>6
  <1> QED BY <1>7, <1>8 DEF u, one

\* RemoveAt takes out the event at one place, and only there.
LEMMA RemoveAtFacts ==
    ASSUME NEW s \in Seq(Events), NEW n \in 1..Len(s)
    PROVE  /\ RemoveAt(s, n) \in Seq(Events)
           /\ ToSet(RemoveAt(s, n)) \subseteq ToSet(s)
           /\ ToSet(s) \ {s[n]} \subseteq ToSet(RemoveAt(s, n))
           /\ \A e : Count(RemoveAt(s, n), e)
                       = IF s[n] = e THEN Count(s, e) - 1 ELSE Count(s, e)
  <1> DEFINE before == SubSeq(s, 1, n - 1)
             after == SubSeq(s, n + 1, Len(s))
  <1>1. before \in Seq(Events) /\ after \in Seq(Events) /\ s[n] \in Events
    OBVIOUS
  <1>2. RemoveAt(s, n) = before \o after
    BY DEF RemoveAt
  <1>3. s = (before \o <<s[n]>>) \o after
    <2>1. SubSeq(s, n, n) = <<s[n]>>
      <3> DEFINE u == SubSeq(s, n, n)
                 v == <<s[n]>>
      <3>1. u \in Seq(Events) /\ Len(u) = 1 /\ u[1] = s[n]
        OBVIOUS
      <3>2. v \in Seq(Events) /\ Len(v) = 1 /\ v[1] = s[n]
        BY <1>1
      <3> HIDE DEF u, v
      <3>3. \A i \in 1..Len(u) : u[i] = v[i]
        BY <3>1, <3>2
      <3>4. u = v
        BY <3>1, <3>2, <3>3, SeqEqual
      <3> QED BY <3>4 DEF u, v
    <2>2. before \o SubSeq(s, n, n) = SubSeq(s, 1, n)
      <3>1. 1 \in 1..Len(s) + 1 /\ n - 1 \in 0..Len(s) /\ n \in (n - 1)..Len(s)
        OBVIOUS
      <3>2. SubSeq(s, 1, n - 1) \o SubSeq(s, (n - 1) + 1, n) = SubSeq(s, 1, n)
        BY <3>1, ConcatAdjacentSubSeq
      <3>3. (n - 1) + 1 = n
        OBVIOUS
      <3> QED BY <3>2, <3>3
    <2>3. SubSeq(s, 1, n) \o after = SubSeq(s, 1, Len(s))
      <3>1. 1 \in 1..Len(s) + 1 /\ n \in 0..Len(s) /\ Len(s) \in n..Len(s)
        OBVIOUS
      <3> QED BY <3>1, ConcatAdjacentSubSeq
    <2>4. SubSeq(s, 1, Len(s)) = s
      BY SubSeqFull
    <2> QED BY <2>1, <2>2, <2>3, <2>4
  <1> HIDE DEF before, after
  <1>4. /\ ToSet(s) = (ToSet(before) \cup {s[n]}) \cup ToSet(after)
        /\ \A e : Count(s, e) = Count(before, e) + (IF s[n] = e THEN 1 ELSE 0) + Count(after, e)
    <2> DEFINE x == s[n]
               u == (before \o <<x>>) \o after
    <2>1. x \in Events /\ s = u
      BY <1>1, <1>3
    <2> HIDE DEF x
    <2>2. /\ ToSet(u) = (ToSet(before) \cup {x}) \cup ToSet(after)
          /\ \A e : Count(u, e) = Count(before, e) + (IF x = e THEN 1 ELSE 0) + Count(after, e)
      BY <1>1, <2>1, InsertedFacts
    <2> HIDE DEF u
    <2> QED BY <2>1, <2>2 DEF x
  <1>5. /\ RemoveAt(s, n) \in Seq(Events)
        /\ ToSet(RemoveAt(s, n)) = ToSet(before) \cup ToSet(after)
        /\ \A e : Count(RemoveAt(s, n), e) = Count(before, e) + Count(after, e)
    BY <1>1, <1>2, CountConcat, ConcatFacts
  <1>6. \A e : Count(before, e) \in Nat /\ Count(after, e) \in Nat
    BY <1>1, PlacesFacts
  <1> QED BY <1>4, <1>5, <1>6

\* SetToSeq lists each element of a finite set once.
LEMMA SetToSeqFacts ==
    ASSUME NEW S \in SUBSET Events, IsFiniteSet(S)
    PROVE  /\ SetToSeq(S) \in Seq(Events)
           /\ ToSet(SetToSeq(S)) = S
           /\ \A e : Count(SetToSeq(S), e) = IF e \in S THEN 1 ELSE 0
  <1> DEFINE n == Cardinality(S)
             f == SetToSeq(S)
  <1>1. n \in Nat /\ \E g \in [1..n -> S] : IsInjective(g)
    BY FS_CardinalityType DEF ExistsBijection, Bijection, Injection
  <1>2. f \in [1..n -> S] /\ IsInjective(f)
    BY <1>1 DEF SetToSeq
  <1> HIDE DEF f
  <1>3. Cardinality(1..n) = n /\ IsFiniteSet(1..n)
    BY <1>1, FS_Interval
  <1>4. f \in Surjection(1..n, S)
    BY <1>2, <1>3, FS_Injection DEF Injection
  <1> HIDE DEF n
  <1>5. f \in Seq(Events) /\ Len(f) = n
    BY <1>1, <1>2
  <1>6. ToSet(f) = S
    BY <1>2, <1>4 DEF ToSet, Surjection
  <1>7. \A e \in S : Count(f, e) = 1
    <2> SUFFICES ASSUME NEW e \in S PROVE Count(f, e) = 1
      OBVIOUS
    <2>1. PICK i \in 1..n : f[i] = e
      BY <1>4 DEF Surjection
    <2>2. Places(f, e) = {i}
      BY <1>2, <1>5, <2>1 DEF Places, IsInjective
    <2> QED BY <2>2, FS_Singleton DEF Count
  <1>8. \A e : e \notin S => Count(f, e) = 0
    BY <1>5, <1>6, PlacesFacts
  <1> QED BY <1>5, <1>6, <1>7, <1>8 DEF f

\* Each of a finite set of numbers has its rank among them.
LEMMA RankFacts ==
    ASSUME NEW N \in Nat, NEW I \in SUBSET (1..N), NEW rank,
           rank = [i \in I |-> Cardinality({j \in I : j <= i})]
    PROVE  /\ IsFiniteSet(I) /\ Cardinality(I) \in Nat
           /\ rank \in Bijection(I, 1..Cardinality(I))
  <1> DEFINE upTo(i) == {j \in I : j <= i}
  <1>1. IsFiniteSet(1..N)
    BY FS_Interval
  <1>2. IsFiniteSet(I) /\ Cardinality(I) \in Nat
    BY <1>1, FS_Subset, FS_CardinalityType
  <1>3. \A i \in I : /\ IsFiniteSet(upTo(i)) /\ Cardinality(upTo(i)) \in Nat
                     /\ Cardinality(upTo(i)) <= Cardinality(I)
    <2> TAKE i \in I
    <2>1. upTo(i) \subseteq I
      OBVIOUS
    <2> HIDE DEF upTo
    <2> QED BY <1>2, <2>1, FS_Subset, FS_CardinalityType
  <1>4. \A i \in I : Cardinality(upTo(i)) # 0
    <2> TAKE i \in I
    <2>1. i \in upTo(i)
      OBVIOUS
    <2> HIDE DEF upTo
    <2> QED BY <1>3, <2>1, FS_EmptySet
  <1>5. \A i, k \in I : Cardinality(upTo(i)) = Cardinality(upTo(k)) => i = k
    <2>1. \A i, k \in I : i < k => Cardinality(upTo(i)) # Cardinality(upTo(k))
      <3> TAKE i, k \in I
      <3> HAVE i < k
      <3>0. \A j \in I : j \in Int
        OBVIOUS
      <3>1. \A j \in I : j <= i => j <= k
        BY <3>0
      <3>2. upTo(i) \subseteq upTo(k)
        BY <3>1
      <3>3. k <= k /\ ~(k <= i)
        BY <3>0
      <3>4. k \in upTo(k) /\ k \notin upTo(i)
        BY <3>3
      <3>5. IsFiniteSet(upTo(i)) /\ IsFiniteSet(upTo(k))
        BY <1>3
      <3> HIDE DEF upTo
      <3> QED BY <3>2, <3>4, <3>5, FS_Subset
    <2> HIDE DEF upTo
    <2>2. \A i, k \in I : i = k \/ i < k \/ k < i
      OBVIOUS
    <2> QED BY <2>1, <2>2
  <1>6. rank \in Injection(I, 1..Cardinality(I))
    <2>1. \A i \in I : Cardinality(upTo(i)) \in 1..Cardinality(I)
      BY <1>2, <1>3, <1>4
    <2>2. rank = [i \in I |-> Cardinality(upTo(i))]
      OBVIOUS
    <2> HIDE DEF upTo
    <2>3. rank \in [I -> 1..Cardinality(I)]
      BY <2>1, <2>2
    <2>4. \A i, k \in I : rank[i] = rank[k] => i = k
      BY <1>5, <2>2
    <2> QED BY <2>3, <2>4 DEF Injection, IsInjective
  <1>7. IsFiniteSet(1..Cardinality(I)) /\ Cardinality(1..Cardinality(I)) = Cardinality(I)
    BY <1>2, FS_Interval
  <1>8. rank \in Surjection(I, 1..Cardinality(I))
    BY <1>6, <1>7, FS_Injection
  <1> QED BY <1>2, <1>6, <1>8 DEF Bijection

\* At(s, I) has what s has at the places of I, as often.
LEMMA AtFacts ==
    ASSUME NEW s \in Seq(Events), NEW I \in SUBSET (1..Len(s))
    PROVE  /\ At(s, I) \in Seq(Events)
           /\ ToSet(At(s, I)) = {s[i] : i \in I}
           /\ \A e : Count(At(s, I), e) = Cardinality({i \in I : s[i] = e})
  <1> DEFINE K == Cardinality(I)
             rank == [i \in I |-> Cardinality({j \in I : j <= i})]
             g == [k \in 1..K |-> CHOOSE i \in I : Cardinality({j \in I : j <= i}) = k]
  <1>1. IsFiniteSet(I) /\ K \in Nat /\ rank \in Bijection(I, 1..K)
    <2>1. Len(s) \in Nat
      OBVIOUS
    <2> HIDE DEF K
    <2> QED BY <2>1, RankFacts DEF K
  <1>2. \A k \in 1..K : \E i \in I : Cardinality({j \in I : j <= i}) = k
    BY <1>1 DEF Bijection, Surjection
  <1>3. \A i, k \in I : rank[i] = rank[k] => i = k
    BY <1>1 DEF Bijection, Injection, IsInjective
  <1>4. \A k \in 1..K : g[k] \in I /\ rank[g[k]] = k
    BY <1>2
  <1>5. \A i \in I : rank[i] \in 1..K
    BY <1>1 DEF Bijection, Injection
  <1> DEFINE u == At(s, I)
  <1>6. u = [k \in 1..K |-> s[g[k]]]
    BY DEF At
  <1> HIDE DEF rank, g, K, u
  <1>7. \A i \in I : g[rank[i]] = i
    BY <1>3, <1>4, <1>5
  <1>8. u \in Seq(Events) /\ Len(u) = K /\ \A k \in 1..K : u[k] = s[g[k]]
    <2>1. \A k \in 1..K : s[g[k]] \in Events
      <3>1. \A i \in I : i \in 1..Len(s)
        OBVIOUS
      <3>2. \A i \in 1..Len(s) : s[i] \in Events
        OBVIOUS
      <3> QED BY <1>4, <3>1, <3>2
    <2> QED BY <1>1, <1>6, <2>1
  <1>9. ToSet(u) = {s[i] : i \in I}
    <2>1. \A k \in 1..K : u[k] \in {s[i] : i \in I}
      BY <1>4, <1>8
    <2>2. \A i \in I : \E k \in 1..K : u[k] = s[i]
      BY <1>5, <1>7, <1>8
    <2>3. ToSet(u) = {u[k] : k \in 1..K}
      BY <1>8 DEF ToSet
    <2> QED BY <2>1, <2>2, <2>3
  <1>10. \A e : Count(u, e) = Cardinality({i \in I : s[i] = e})
    <2> TAKE e
    <2> DEFINE T == {i \in I : s[i] = e}
               f == [k \in Places(u, e) |-> g[k]]
    <2>1. IsFiniteSet(Places(u, e))
      BY <1>8, PlacesFacts
    <2>2. \A k \in Places(u, e) : k \in 1..K /\ g[k] \in T
      BY <1>4, <1>8 DEF Places
    <2>3. \A x, y \in Places(u, e) : f[x] = f[y] => x = y
      BY <1>4, <2>2
    <2>4. \A y \in T : \E x \in Places(u, e) : f[x] = y
      BY <1>5, <1>7, <1>8 DEF Places
    <2>5. f \in [Places(u, e) -> T]
      BY <2>2
    <2> HIDE DEF f, T
    <2>6. Cardinality(T) = Cardinality(Places(u, e))
      BY <2>1, <2>3, <2>4, <2>5, SameNumber
    <2> QED BY <2>6 DEF Count, T
  <1> QED BY <1>8, <1>9, <1>10 DEF u

\* A change of one holder's sequence changes the entries of an event by
\* what the two sequences have of it.
LEMMA EntriesChange ==
    ASSUME NEW F \in [Holders -> Seq(Events)], NEW h \in Holders,
           NEW s \in Seq(Events), NEW e, IsFiniteSet(Entries(F, e))
    PROVE  LET G == [F EXCEPT ![h] = s] IN
           /\ IsFiniteSet(Entries(G, e))
           /\ Cardinality(Entries(F, e)) \in Nat /\ Cardinality(Entries(G, e)) \in Nat
           /\ Count(F[h], e) \in Nat /\ Count(s, e) \in Nat
           /\ Cardinality(Entries(G, e)) + Count(F[h], e)
                = Cardinality(Entries(F, e)) + Count(s, e)
           /\ Cardinality(Entries(F, e)) >= Count(F[h], e)
  <1> DEFINE G == [F EXCEPT ![h] = s]
             rest == Entries(F, e) \ ({h} \X Places(F[h], e))
             old == {h} \X Places(F[h], e)
             new == {h} \X Places(s, e)
  <1>1. F[h] \in Seq(Events) /\ G[h] = s /\ \A k \in Holders : k # h => G[k] = F[k]
    OBVIOUS
  <1>2. Entries(F, e) = rest \cup old /\ rest \cap old = {}
    BY DEF Entries
  <1> HIDE DEF G
  <1>3. Entries(G, e) = rest \cup new /\ rest \cap new = {}
    BY <1>1 DEF Entries
  <1>4. /\ IsFiniteSet(Places(F[h], e)) /\ IsFiniteSet(Places(s, e))
        /\ Count(F[h], e) \in Nat /\ Count(s, e) \in Nat
    BY <1>1, PlacesFacts
  <1>5. IsFiniteSet({h}) /\ Cardinality({h}) = 1
    BY FS_Singleton
  <1>6. /\ IsFiniteSet(old) /\ Cardinality(old) = Count(F[h], e)
        /\ IsFiniteSet(new) /\ Cardinality(new) = Count(s, e)
    <2> HIDE DEF Count
    <2>1. /\ IsFiniteSet(old) /\ Cardinality(old) = 1 * Cardinality(Places(F[h], e))
          /\ IsFiniteSet(new) /\ Cardinality(new) = 1 * Cardinality(Places(s, e))
      BY <1>4, <1>5, FS_Product
    <2> QED BY <1>4, <2>1 DEF Count
  <1> HIDE DEF rest, old, new
  <1>7. IsFiniteSet(rest) /\ Cardinality(rest) \in Nat
    <2>1. rest \subseteq Entries(F, e)
      BY DEF rest
    <2> QED BY <2>1, FS_Subset, FS_CardinalityType
  <1>8. /\ IsFiniteSet(rest \cup old) /\ IsFiniteSet(rest \cup new)
        /\ Cardinality(rest \cup old) = Cardinality(rest) + Cardinality(old) - Cardinality(rest \cap old)
        /\ Cardinality(rest \cup new) = Cardinality(rest) + Cardinality(new) - Cardinality(rest \cap new)
    BY <1>6, <1>7, FS_Union
  <1>9. Cardinality(rest \cap old) = 0 /\ Cardinality(rest \cap new) = 0
    BY <1>2, <1>3, FS_EmptySet
  <1>10. /\ IsFiniteSet(Entries(G, e))
         /\ Cardinality(Entries(G, e)) = Cardinality(rest) + Count(s, e)
         /\ Cardinality(Entries(F, e)) = Cardinality(rest) + Count(F[h], e)
    BY <1>2, <1>3, <1>4, <1>6, <1>7, <1>8, <1>9
  <1> QED BY <1>4, <1>7, <1>10 DEF G

\* Who has an event: a holder, in its list or its pool, and its object.
Slots(h) == ToSet(list[h]) \cup ToSet(m_insertPool[h])
InLists(e) == Cardinality(Entries(list, e)) + Cardinality(Entries(m_insertPool, e))
FewEntries(e) == IsFiniteSet(Entries(list, e)) /\ IsFiniteSet(Entries(m_insertPool, e))
Own(e) == IF e \in m_events[ObjectOf[e]] THEN 1 ELSE 0

SeqsOK == list \in [Holders -> Seq(Events)] /\ m_insertPool \in [Holders -> Seq(Events)]

\* A list that only grows at its end.
Extended(s, t) == Len(s) <= Len(t) /\ \A i \in 1..Len(s) : t[i] = s[i]

\* There are so many entries of an event, ...
LEMMA InListsType ==
    ASSUME NEW e, FewEntries(e) PROVE InLists(e) \in Nat
  BY FS_CardinalityType DEF FewEntries, InLists

\* ... none when it is in no list.
LEMMA NotInLists ==
    ASSUME SeqsOK, NEW e, \A h \in Holders : e \notin Slots(h)
    PROVE  FewEntries(e) /\ InLists(e) = 0
  <1>1. \A h \in Holders : Places(list[h], e) = {} /\ Places(m_insertPool[h], e) = {}
    BY DEF Slots, ToSet, Places, SeqsOK
  <1>2. Entries(list, e) = {} /\ Entries(m_insertPool, e) = {}
    BY <1>1 DEF Entries
  <1> QED BY <1>2, FS_EmptySet DEF FewEntries, InLists

\* The only change is that h has s for its list.
LEMMA ListChange ==
    ASSUME SeqsOK, NEW h \in Holders, NEW s \in Seq(Events),
           \A e \in Events : FewEntries(e),
           list' = [list EXCEPT ![h] = s], UNCHANGED m_insertPool
    PROVE  /\ SeqsOK' /\ list'[h] = s
           /\ \A k \in Holders : k # h => list'[k] = list[k] /\ Slots(k)' = Slots(k)
           /\ \A e \in Events :
                 /\ FewEntries(e)' /\ InLists(e) \in Nat /\ InLists(e)' \in Nat
                 /\ InLists(e) >= Count(list[h], e)
                 /\ InLists(e)' + Count(list[h], e) = InLists(e) + Count(s, e)
  <1>1. SeqsOK' /\ list'[h] = s /\ \A k \in Holders : k # h => list'[k] = list[k]
    BY DEF SeqsOK
  <1>2. \A k \in Holders : k # h => Slots(k)' = Slots(k)
    BY <1>1 DEF Slots
  <1>3. ASSUME NEW e \in Events
        PROVE  /\ FewEntries(e)' /\ InLists(e) \in Nat /\ InLists(e)' \in Nat
               /\ InLists(e) >= Count(list[h], e)
               /\ InLists(e)' + Count(list[h], e) = InLists(e) + Count(s, e)
    <2>1. IsFiniteSet(Entries(list, e)) /\ IsFiniteSet(Entries(m_insertPool, e))
      BY DEF FewEntries
    <2>2. /\ IsFiniteSet(Entries(list', e))
          /\ Cardinality(Entries(list, e)) \in Nat
          /\ Cardinality(Entries(list', e)) \in Nat
          /\ Count(list[h], e) \in Nat /\ Count(s, e) \in Nat
          /\ Cardinality(Entries(list', e)) + Count(list[h], e)
                = Cardinality(Entries(list, e)) + Count(s, e)
          /\ Cardinality(Entries(list, e)) >= Count(list[h], e)
      BY <2>1, EntriesChange DEF SeqsOK
    <2>3. Cardinality(Entries(m_insertPool, e)) \in Nat
      BY <2>1, FS_CardinalityType
    <2>4. FewEntries(e)'
      BY <2>1, <2>2 DEF FewEntries
    <2>5. /\ InLists(e) = Cardinality(Entries(list, e)) + Cardinality(Entries(m_insertPool, e))
          /\ InLists(e)' = Cardinality(Entries(list', e)) + Cardinality(Entries(m_insertPool, e))
      BY <2>2, <2>3 DEF InLists
    <2>6. InLists(e) \in Nat /\ InLists(e)' \in Nat
      BY <2>2, <2>3, <2>5
    <2>7. InLists(e) >= Count(list[h], e)
      BY <2>2, <2>3, <2>5
    <2>8. InLists(e)' + Count(list[h], e) = InLists(e) + Count(s, e)
      <3> DEFINE kept == Cardinality(Entries(m_insertPool, e))
                 old == Cardinality(Entries(list, e))
                 new == Cardinality(Entries(list', e))
                 out == Count(list[h], e)
                 in == Count(s, e)
      <3>1. /\ kept \in Nat /\ old \in Nat /\ new \in Nat /\ out \in Nat /\ in \in Nat
            /\ new + out = old + in
        BY <2>2, <2>3
      <3>2. InLists(e) = old + kept /\ InLists(e)' = new + kept
        BY <2>2, <2>3, <2>5
      <3> HIDE DEF kept, old, new, out, in
      <3>3. (new + kept) + out = (old + kept) + in
        BY <3>1
      <3> QED BY <3>2, <3>3 DEF out, in
    <2> QED BY <2>4, <2>6, <2>7, <2>8
  <1> QED BY <1>1, <1>2, <1>3

\* The only change is that h has s for its pool.
LEMMA PoolChange ==
    ASSUME SeqsOK, NEW h \in Holders, NEW s \in Seq(Events),
           \A e \in Events : FewEntries(e),
           m_insertPool' = [m_insertPool EXCEPT ![h] = s], UNCHANGED list
    PROVE  /\ SeqsOK' /\ m_insertPool'[h] = s
           /\ \A k \in Holders : k # h => m_insertPool'[k] = m_insertPool[k] /\ Slots(k)' = Slots(k)
           /\ \A e \in Events :
                 /\ FewEntries(e)' /\ InLists(e) \in Nat /\ InLists(e)' \in Nat
                 /\ InLists(e) >= Count(m_insertPool[h], e)
                 /\ InLists(e)' + Count(m_insertPool[h], e) = InLists(e) + Count(s, e)
  <1>1. /\ SeqsOK' /\ m_insertPool'[h] = s
        /\ \A k \in Holders : k # h => m_insertPool'[k] = m_insertPool[k]
    BY DEF SeqsOK
  <1>2. \A k \in Holders : k # h => Slots(k)' = Slots(k)
    BY <1>1 DEF Slots
  <1>3. ASSUME NEW e \in Events
        PROVE  /\ FewEntries(e)' /\ InLists(e) \in Nat /\ InLists(e)' \in Nat
               /\ InLists(e) >= Count(m_insertPool[h], e)
               /\ InLists(e)' + Count(m_insertPool[h], e) = InLists(e) + Count(s, e)
    <2>1. IsFiniteSet(Entries(list, e)) /\ IsFiniteSet(Entries(m_insertPool, e))
      BY DEF FewEntries
    <2>2. /\ IsFiniteSet(Entries(m_insertPool', e))
          /\ Cardinality(Entries(m_insertPool, e)) \in Nat
          /\ Cardinality(Entries(m_insertPool', e)) \in Nat
          /\ Count(m_insertPool[h], e) \in Nat /\ Count(s, e) \in Nat
          /\ Cardinality(Entries(m_insertPool', e)) + Count(m_insertPool[h], e)
                = Cardinality(Entries(m_insertPool, e)) + Count(s, e)
          /\ Cardinality(Entries(m_insertPool, e)) >= Count(m_insertPool[h], e)
      BY <2>1, EntriesChange DEF SeqsOK
    <2>3. Cardinality(Entries(list, e)) \in Nat
      BY <2>1, FS_CardinalityType
    <2>4. FewEntries(e)'
      BY <2>1, <2>2 DEF FewEntries
    <2>5. /\ InLists(e) = Cardinality(Entries(list, e)) + Cardinality(Entries(m_insertPool, e))
          /\ InLists(e)' = Cardinality(Entries(list, e)) + Cardinality(Entries(m_insertPool', e))
      BY <2>2, <2>3 DEF InLists
    <2>6. InLists(e) \in Nat /\ InLists(e)' \in Nat
      BY <2>2, <2>3, <2>5
    <2>7. InLists(e) >= Count(m_insertPool[h], e)
      BY <2>2, <2>3, <2>5
    <2>8. InLists(e)' + Count(m_insertPool[h], e) = InLists(e) + Count(s, e)
      <3> DEFINE kept == Cardinality(Entries(list, e))
                 old == Cardinality(Entries(m_insertPool, e))
                 new == Cardinality(Entries(m_insertPool', e))
                 out == Count(m_insertPool[h], e)
                 in == Count(s, e)
      <3>1. /\ kept \in Nat /\ old \in Nat /\ new \in Nat /\ out \in Nat /\ in \in Nat
            /\ new + out = old + in
        BY <2>2, <2>3
      <3>2. InLists(e) = old + kept /\ InLists(e)' = new + kept
        BY <2>2, <2>3, <2>5
      <3> HIDE DEF kept, old, new, out, in
      <3>3. (new + kept) + out = (old + kept) + in
        BY <3>1
      <3> QED BY <3>2, <3>3 DEF out, in
    <2> QED BY <2>4, <2>6, <2>7, <2>8
  <1> QED BY <1>1, <1>2, <1>3

\* Appending leaves the start of a list alone.
LEMMA ExtendedConcat ==
    \A s, t \in Seq(Events) : Extended(s, s) /\ Extended(s, s \o t)
  <1> TAKE s, t \in Seq(Events)
  <1>1. Len(s \o t) = Len(s) + Len(t) /\ \A i \in 1..Len(s) : (s \o t)[i] = s[i]
    BY ConcatProperties
  <1>2. Len(s) \in Nat /\ Len(t) \in Nat
    OBVIOUS
  <1> QED BY <1>1, <1>2 DEF Extended

\* The events S are entered once more in the list or the pool of h.
LEMMA EnterFacts ==
    ASSUME SeqsOK, IsFiniteSet(Events), \A e \in Events : FewEntries(e),
           NEW t, NEW h \in Holders, NEW S \in SUBSET Events, Enter(t, h, S)
    PROVE  /\ SeqsOK'
           /\ \A k \in Holders : /\ Extended(list[k], list'[k])
                                 /\ Slots(k)' = IF k = h THEN Slots(k) \cup S ELSE Slots(k)
                                 /\ k # h => list'[k] = list[k] /\ m_insertPool'[k] = m_insertPool[k]
           /\ \A e \in Events :
                 /\ FewEntries(e)'
                 /\ InLists(e)' = InLists(e) + (IF e \in S THEN 1 ELSE 0)
  <1> DEFINE q == SetToSeq(S)
  <1>1. IsFiniteSet(S)
    BY FS_Subset
  <1>2. q \in Seq(Events) /\ ToSet(q) = S /\ \A e : Count(q, e) = IF e \in S THEN 1 ELSE 0
    BY <1>1, SetToSeqFacts
  <1> HIDE DEF q
  <1>3. CASE Taken(t, h)
    <2> DEFINE s == m_insertPool[h] \o q
    <2>1. m_insertPool' = [m_insertPool EXCEPT ![h] = s] /\ list' = list
      BY <1>3 DEF Enter, q
    <2>2. m_insertPool[h] \in Seq(Events) /\ s \in Seq(Events)
      BY <1>2 DEF SeqsOK
    <2>3. ToSet(s) = ToSet(m_insertPool[h]) \cup S
      BY <1>2, <2>2, ConcatFacts
    <2>4. \A e : Count(s, e) = Count(m_insertPool[h], e) + (IF e \in S THEN 1 ELSE 0)
      BY <1>2, <2>2, CountConcat
    <2>5. \A e : Count(m_insertPool[h], e) \in Nat
      BY <2>2, PlacesFacts
    <2> HIDE DEF s
    <2>6. /\ SeqsOK' /\ m_insertPool'[h] = s
          /\ \A k \in Holders : k # h => m_insertPool'[k] = m_insertPool[k] /\ Slots(k)' = Slots(k)
          /\ \A e \in Events :
                 /\ FewEntries(e)' /\ InLists(e) \in Nat /\ InLists(e)' \in Nat
                 /\ InLists(e)' + Count(m_insertPool[h], e) = InLists(e) + Count(s, e)
      BY <2>1, <2>2, PoolChange
    <2>7. Slots(h)' = Slots(h) \cup S
      BY <2>1, <2>3, <2>6 DEF Slots
    <2>8. \A k \in Holders : Extended(list[k], list'[k])
      BY <2>1, ExtendedConcat DEF SeqsOK
    <2>9. \A e \in Events : InLists(e)' = InLists(e) + (IF e \in S THEN 1 ELSE 0)
      BY <2>4, <2>5, <2>6
    <2> QED BY <2>1, <2>6, <2>7, <2>8, <2>9
  <1>4. CASE ~Taken(t, h)
    <2> DEFINE s == list[h] \o q
    <2>1. list' = [list EXCEPT ![h] = s] /\ m_insertPool' = m_insertPool
      BY <1>4 DEF Enter, q
    <2>2. list[h] \in Seq(Events) /\ s \in Seq(Events)
      BY <1>2 DEF SeqsOK
    <2>3. ToSet(s) = ToSet(list[h]) \cup S
      BY <1>2, <2>2, ConcatFacts
    <2>4. \A e : Count(s, e) = Count(list[h], e) + (IF e \in S THEN 1 ELSE 0)
      BY <1>2, <2>2, CountConcat
    <2>5. \A e : Count(list[h], e) \in Nat
      BY <2>2, PlacesFacts
    <2>6. Extended(list[h], s)
      BY <1>2, <2>2, ExtendedConcat
    <2> HIDE DEF s
    <2>7. /\ SeqsOK' /\ list'[h] = s
          /\ \A k \in Holders : k # h => list'[k] = list[k] /\ Slots(k)' = Slots(k)
          /\ \A e \in Events :
                 /\ FewEntries(e)' /\ InLists(e) \in Nat /\ InLists(e)' \in Nat
                 /\ InLists(e)' + Count(list[h], e) = InLists(e) + Count(s, e)
      BY <2>1, <2>2, ListChange
    <2>8. Slots(h)' = Slots(h) \cup S
      BY <2>1, <2>3, <2>7 DEF Slots
    <2>9. \A k \in Holders : Extended(list[k], list'[k])
      BY <2>7, <2>6, ExtendedConcat DEF SeqsOK
    <2>10. \A e \in Events : InLists(e)' = InLists(e) + (IF e \in S THEN 1 ELSE 0)
      BY <2>4, <2>5, <2>7
    <2> QED BY <2>1, <2>7, <2>8, <2>9, <2>10
  <1> QED BY <1>3, <1>4

\* The entry that h looks at is erased.
LEMMA EraseFacts ==
    ASSUME SeqsOK, \A e \in Events : FewEntries(e),
           NEW h \in Holders, next[h] \in 1..Len(list[h]), Erase(h), UNCHANGED m_insertPool
    PROVE  /\ SeqsOK' /\ Entry(h) \in Events
           /\ \A k \in Holders : /\ Slots(k)' \subseteq Slots(k)
                                 /\ Slots(k) \ {Entry(h)} \subseteq Slots(k)'
                                 /\ k # h => list'[k] = list[k] /\ Slots(k)' = Slots(k)
           /\ \A e \in Events :
                 /\ FewEntries(e)' /\ InLists(e)' \in Nat
                 /\ InLists(e) = InLists(e)' + (IF e = Entry(h) THEN 1 ELSE 0)
  <1> DEFINE s == RemoveAt(list[h], next[h])
             x == Entry(h)
  <1>1. list[h] \in Seq(Events) /\ x = list[h][next[h]] /\ x \in Events
    BY DEF SeqsOK, Entry
  <1>2. /\ s \in Seq(Events) /\ ToSet(s) \subseteq ToSet(list[h])
        /\ ToSet(list[h]) \ {x} \subseteq ToSet(s)
        /\ \A e : Count(s, e) = IF x = e THEN Count(list[h], e) - 1 ELSE Count(list[h], e)
    BY <1>1, RemoveAtFacts
  <1>3. \A e : Count(list[h], e) \in Nat
    BY <1>1, PlacesFacts
  <1>4. list' = [list EXCEPT ![h] = s]
    BY DEF Erase
  <1> HIDE DEF s, x
  <1>5. /\ SeqsOK' /\ list'[h] = s
        /\ \A k \in Holders : k # h => list'[k] = list[k] /\ Slots(k)' = Slots(k)
        /\ \A e \in Events :
              /\ FewEntries(e)' /\ InLists(e) \in Nat /\ InLists(e)' \in Nat
              /\ InLists(e)' + Count(list[h], e) = InLists(e) + Count(s, e)
    BY <1>2, <1>4, ListChange
  <1>6. Slots(h)' \subseteq Slots(h) /\ Slots(h) \ {x} \subseteq Slots(h)'
    BY <1>2, <1>5 DEF Slots
  <1>7. \A e \in Events : InLists(e) = InLists(e)' + (IF e = x THEN 1 ELSE 0)
    <2> SUFFICES ASSUME NEW e \in Events
                 PROVE  InLists(e) = InLists(e)' + (IF e = x THEN 1 ELSE 0)
      OBVIOUS
    <2>1. /\ InLists(e) \in Nat /\ InLists(e)' \in Nat /\ Count(list[h], e) \in Nat
          /\ InLists(e)' + Count(list[h], e) = InLists(e) + Count(s, e)
      BY <1>3, <1>5
    <2>2. Count(s, e) = IF e = x THEN Count(list[h], e) - 1 ELSE Count(list[h], e)
      BY <1>2
    <2> QED BY <2>1, <2>2
  <1> QED BY <1>1, <1>5, <1>6, <1>7 DEF x

-------------------------------------------------------------------------------
(* The invariant of timed events.                                            *)

\* A callback runs in its thread's update, of the entry that Update is at;
\* a holder that is no more has no entries and no thread.
Running ==
    \A h \in Holders :
        /\ running[h] # Null =>
              /\ updating[h] /\ next[h] <= Len(list[h])
              /\ running[h] = list[h][next[h]]
        /\ h \notin mHolders =>
              /\ ~updating[h] /\ adding[h] = Null
              /\ list[h] = <<>> /\ m_insertPool[h] = <<>>

Owned ==
    /\ World \in mHolders
    /\ \A o \in Eventables : m_events[o] \subseteq EventsOf(o)
    /\ \A o \in Eventables : life[o] = "deleted" => m_events[o] = {}

\* An event nobody has added yet is nowhere.
Fresh ==
    \A e \in fresh :
        /\ e \notin m_events[ObjectOf[e]] /\ instanceId[e] = Out
        /\ \A h \in Holders : e \notin Slots(h)

\* An object's holder is that of its map, of the world, or none.
HolderRight ==
    \A o \in Eventables :
        /\ life[o] \in {"in", "entering"} => m_instanceId[o] \in Maps \cap mHolders
        /\ life[o] \in {"out", "deleted"} => m_instanceId[o] = Out
        /\ life[o] = "in" => m_holder[o] = m_instanceId[o]
        /\ life[o] # "in" => m_holder[o] \in {World, Null} \cup ({m_instanceId[o]} \ {Out})

\* One event of an object at a time is on its way to the object's holder.
AddingRight ==
    \A t \in Holders : adding[t] # Null =>
        LET o == ObjectOf[adding[t]] IN
        /\ adding[t] \in m_events[o] /\ m_holder[o] # Null
        /\ \A u \in Holders : adding[u] # Null /\ ObjectOf[adding[u]] = o => u = t
        /\ ~deleted[adding[t]] => instanceId[adding[t]] = m_holder[o]

\* An event that has a holder has its object's, which has it in turn.
Homes ==
    \A e \in Events : ~deleted[e] /\ instanceId[e] # Out =>
        /\ e \in m_events[ObjectOf[e]]
        /\ instanceId[e] = m_holder[ObjectOf[e]]
        /\ e \in MapOnly => instanceId[e] # World

Entered ==
    \A e \in Events : ~deleted[e] /\ instanceId[e] # Out =>
        \E h \in Holders : adding[h] = e \/ (instanceId[e] = h /\ e \in Slots(h))

\* A map's thread executes callbacks of objects in the map, or out of world
\* since.
RunInPlace ==
    /\ \A m \in Maps : running[m] # Null => m_instanceId[ObjectOf[running[m]]] \in {m, Out}
    /\ running[World] \notin MapOnly

RanOnce == \A e \in ran : deleted[e] \/ \E h \in Holders : running[h] = e

Counted == \A e \in Events : FewEntries(e) /\ ref[e] = Own(e) + InLists(e)

\* No event is left behind by an object that has a map's holder.
AllMoved ==
    EarlyAdds = FALSE =>
        \A e \in Events :
            Live(e) /\ m_holder[ObjectOf[e]] \in Maps => instanceId[e] = m_holder[ObjectOf[e]]

EventsInv ==
    /\ EventsTypeOK /\ Running /\ Owned /\ Fresh /\ HolderRight /\ AddingRight
    /\ Homes /\ Entered /\ RunInPlace /\ RanOnce /\ Counted /\ AllMoved

\* An event is in its object's m_events or not.
LEMMA OwnFacts == \A e : Own(e) \in Nat /\ (Own(e) = 1 <=> e \in m_events[ObjectOf[e]])
  BY DEF Own

\* The lists and pools are sequences of events.
LEMMA SeqsTyped == EventsTypeOK => SeqsOK
  BY DEF EventsTypeOK, SeqsOK

\* Maps, the world and the values for none are different things.
LEMMA HoldersFacts ==
    /\ World \in Holders /\ Maps \subseteq Holders /\ Out \notin Holders
    /\ Null \notin Holders
    /\ \A e \in Events : ObjectOf[e] \in Eventables /\ e # Null /\ Period[e] \in Nat
    /\ World \notin Maps /\ Out \notin Maps /\ Null \notin Maps /\ World # Null
    /\ World # Out
    /\ IsFiniteSet(Events)
  BY EventsAssumption DEF Holders

\* The invariant holds at the start ...
LEMMA InitHolds == EventsInit => EventsInv
  <1> SUFFICES ASSUME EventsInit PROVE EventsInv
    OBVIOUS
  <1>1. EventsTypeOK
    BY EventsAssumption DEF EventsInit, EventsTypeOK, Holders
  <1>2. \A h \in Holders : Slots(h) = {}
    BY DEF EventsInit, Slots, ToSet
  <1>3. Fresh
    BY <1>2, HoldersFacts DEF EventsInit, Fresh
  <1>4. Counted
    <2>1. \A e \in Events : FewEntries(e) /\ InLists(e) = 0
      BY <1>1, <1>2, SeqsTyped, NotInLists
    <2>2. \A e \in Events : ref[e] = 0 /\ Own(e) = 0
      BY HoldersFacts DEF EventsInit, Own
    <2> QED BY <2>1, <2>2 DEF Counted
  <1>5. Running /\ Owned
    BY HoldersFacts DEF EventsInit, Running, Owned
  <1>6. HolderRight
    BY HoldersFacts DEF EventsInit, HolderRight
  <1>7. AddingRight
    BY HoldersFacts DEF EventsInit, AddingRight
  <1>8. Homes /\ Entered /\ RunInPlace /\ RanOnce /\ AllMoved
    BY HoldersFacts, EventsAssumption DEF EventsInit, Homes, Entered,
       RunInPlace, RanOnce, AllMoved, Live
  <1> QED BY <1>1, <1>3, <1>4, <1>5, <1>6, <1>7, <1>8 DEF EventsInv

\* ... and while nothing happens.
LEMMA StutterHolds == EventsInv /\ UNCHANGED vars => EventsInv'
  BY DEF EventsInv, vars, objectVars, timeVars, threadVars, EventsTypeOK,
     Running, Owned, Fresh, HolderRight,
         AddingRight, Homes, Entered, RunInPlace, RanOnce, Counted, AllMoved,
         Live, Slots, Own,
         InLists, FewEntries

-------------------------------------------------------------------------------
(* Operations on an object.                                                  *)

\* event_AddEvent
LEMMA AddEventHolds ==
    ASSUME EventsInv, NEW t \in Holders, NEW e \in Events, AddEvent(t, e)
    PROVE  EventsInv'
  <1> DEFINE o == ObjectOf[e]
             h == IF m_holder[o] # Null THEN m_holder[o]
                  ELSE IF HolderOf(m_instanceId[o]) # Null THEN HolderOf(m_instanceId[o])
                  ELSE World
  <1>1. /\ EventsTypeOK /\ SeqsOK /\ o \in Eventables /\ e \in fresh /\ e # Null
        /\ MayTouch(t, o)
        /\ m_holder' = [m_holder EXCEPT ![o] = h] /\ fresh' = fresh \ {e}
    BY HoldersFacts, SeqsTyped DEF AddEvent, EventsInv, EventsTypeOK
  <1>2. /\ life[o] # "deleted" /\ NotAdding(o) /\ t \in mHolders /\ adding[t] = Null
    BY <1>1 DEF MayTouch, Ready
  <1>3. /\ life[o] \in {"out", "entering", "in"} /\ World \in mHolders
        /\ mHolders \subseteq Holders
        /\ life[o] \in {"in", "entering"} => m_instanceId[o] \in Maps /\ m_instanceId[o] \in mHolders
        /\ life[o] = "out" => m_instanceId[o] = Out
        /\ life[o] = "in" => m_holder[o] = m_instanceId[o]
        /\ life[o] # "in" => m_holder[o] \in {World, Null} \cup ({m_instanceId[o]} \ {Out})
    BY <1>1, <1>2 DEF EventsInv, EventsTypeOK, HolderRight, Owned
  <1>4. /\ h \in mHolders /\ h \in Holders /\ h # Null /\ h # Out
        /\ m_holder[o] # Null => h = m_holder[o]
        /\ life[o] = "in" => m_holder[o] # Null
        /\ h \in {World, m_instanceId[o]}
    <2>1. CASE m_holder[o] # Null
      BY <1>3, <2>1, HoldersFacts
    <2>2. CASE m_holder[o] = Null
      BY <1>3, <2>2, HoldersFacts DEF HolderOf
    <2> QED BY <2>1, <2>2
  <1> HIDE DEF h
  <1>5. /\ m_holder'[o] = h /\ \A p \in Eventables : p # o => m_holder'[p] = m_holder[p]
        /\ m_holder' \in [Eventables -> Holders \cup {Null}]
    BY <1>1, <1>4 DEF EventsTypeOK
  <1>6. UNCHANGED <<life, m_instanceId, deleted, currTime, ran, mHolders, list,
                    m_insertPool, updating, next, running, last, moves>>
    BY DEF AddEvent, timeVars, threadVars
  <1>7. \A f \in Events : f \in fresh => f \notin m_events[ObjectOf[f]] /\ instanceId[f] = Out
                                          /\ \A k \in Holders : f \notin Slots(k)
    BY DEF EventsInv, Fresh
  <1>8. /\ \A k \in Holders : Slots(k)' = Slots(k)
        /\ \A f \in Events : InLists(f)' = InLists(f) /\ (FewEntries(f)' <=> FewEntries(f))
    BY <1>6 DEF Slots, InLists, FewEntries
  <1>9. HolderRight'
    BY <1>3, <1>4, <1>5, <1>6 DEF EventsInv, HolderRight
  <1>10. RunInPlace' /\ RanOnce'
    BY <1>6 DEF EventsInv, RunInPlace, RanOnce
  <1>11. CASE Refused(h, e)
    <2>1. UNCHANGED <<m_events, instanceId, ref, adding>> /\ h = World
      BY <1>11 DEF AddEvent, h, Refused
    <2>2. EventsTypeOK'
      BY <1>1, <1>5, <1>6, <2>1 DEF EventsTypeOK
    <2>3. Running' /\ Owned' /\ Fresh'
      BY <1>1, <1>6, <1>8, <2>1 DEF EventsInv, Running, Owned, Fresh
    <2>4. AddingRight'
      <3>1. \A u \in Holders : adding[u] # Null =>
                ObjectOf[adding[u]] # o /\ ObjectOf[adding[u]] \in Eventables
        BY <1>1, <1>2, HoldersFacts DEF NotAdding, EventsTypeOK
      <3> QED BY <1>5, <1>6, <2>1, <3>1 DEF EventsInv, AddingRight
    <2>5. Homes'
      BY <1>1, <1>4, <1>5, <1>6, <2>1, HoldersFacts
         DEF EventsInv, Homes, EventsTypeOK
    <2>6. Entered' /\ Counted'
      BY <1>1, <1>6, <1>8, <2>1, HoldersFacts DEF EventsInv, Entered, Counted,
         Own, EventsTypeOK
    <2>7. AllMoved'
      BY <1>1, <1>4, <1>5, <1>6, <2>1, HoldersFacts
         DEF EventsInv, AllMoved, Live
    <2> QED BY <1>9, <1>10, <2>2, <2>3, <2>4, <2>5, <2>6, <2>7 DEF EventsInv
  <1>12. CASE ~Refused(h, e)
    <2>1. /\ ref' = [ref EXCEPT ![e] = 1] /\ instanceId' = [instanceId EXCEPT ![e] = h]
          /\ m_events' = [m_events EXCEPT ![o] = @ \cup {e}]
          /\ adding' = [adding EXCEPT ![t] = e]
      BY <1>12 DEF AddEvent, h
    <2>2. /\ ref' \in [Events -> Nat] /\ ref'[e] = 1 /\ instanceId'[e] = h
          /\ \A f \in Events : f # e => ref'[f] = ref[f] /\ instanceId'[f] = instanceId[f]
          /\ instanceId' \in [Events -> Holders \cup {Out}]
      BY <1>1, <1>4, <2>1 DEF EventsTypeOK
    <2>3. /\ m_events' \in [Eventables -> SUBSET Events]
          /\ m_events'[o] = m_events[o] \cup {e}
          /\ \A p \in Eventables : p # o => m_events'[p] = m_events[p]
          /\ adding' \in [Holders -> Events \cup {Null}] /\ adding'[t] = e
          /\ \A k \in Holders : k # t => adding'[k] = adding[k]
      BY <1>1, <2>1 DEF EventsTypeOK
    <2>4. EventsTypeOK'
      BY <1>1, <1>5, <1>6, <2>2, <2>3 DEF EventsTypeOK
    <2>5. Running'
      BY <1>2, <1>6, <2>3 DEF EventsInv, Running
    <2>6. Owned'
      BY <1>1, <1>2, <1>6, <2>3 DEF EventsInv, Owned, EventsOf
    <2>7. Fresh'
      <3> SUFFICES ASSUME NEW f \in fresh'
                   PROVE  /\ f \notin m_events'[ObjectOf[f]] /\ instanceId'[f] = Out
                          /\ \A k \in Holders : f \notin Slots(k)'
        BY DEF Fresh
      <3>1. f \in Events /\ f \in fresh /\ f # e /\ ObjectOf[f] \in Eventables
        BY <1>1, HoldersFacts DEF EventsTypeOK
      <3> QED BY <1>7, <1>8, <2>2, <2>3, <3>1
    <2>8. AddingRight'
      <3> SUFFICES ASSUME NEW u \in Holders, adding'[u] # Null
                   PROVE  LET p == ObjectOf[adding'[u]] IN
                          /\ adding'[u] \in m_events'[p] /\ m_holder'[p] # Null
                          /\ \A v \in Holders : adding'[v] # Null /\ ObjectOf[adding'[v]] = p => v = u
                          /\ ~deleted'[adding'[u]] => instanceId'[adding'[u]] = m_holder'[p]
        BY DEF AddingRight
      <3>1. CASE u = t
        BY <1>2, <1>4, <1>5, <2>2, <2>3, <3>1 DEF NotAdding
      <3>2. CASE u # t
        <4>1. adding'[u] = adding[u] /\ adding[u] \in Events /\ ObjectOf[adding[u]] # o /\ adding[u] # e
          BY <1>1, <1>2, <2>3, <3>2 DEF NotAdding, EventsTypeOK
        <4>2. ObjectOf[adding[u]] \in Eventables
          BY <4>1, HoldersFacts
        <4>3. /\ adding[u] \in m_events[ObjectOf[adding[u]]]
              /\ m_holder[ObjectOf[adding[u]]] # Null
              /\ \A v \in Holders : adding[v] # Null /\ ObjectOf[adding[v]] = ObjectOf[adding[u]] => v = u
              /\ ~deleted[adding[u]] => instanceId[adding[u]] = m_holder[ObjectOf[adding[u]]]
          BY <4>1 DEF EventsInv, AddingRight
        <4> QED BY <1>5, <1>6, <2>2, <2>3, <4>1, <4>2, <4>3
      <3> QED BY <3>1, <3>2
    <2>9. Homes'
      <3>1. e \in MapOnly => h # World
        BY <1>12 DEF Refused
      <3>2. \A f \in Events : ~deleted[f] /\ instanceId[f] # Out /\ ObjectOf[f] = o => m_holder[o] # Null
        BY <1>1, HoldersFacts DEF EventsInv, Homes, EventsTypeOK
      <3> QED BY <1>4, <1>5, <1>6, <2>2, <2>3, <3>1, <3>2, HoldersFacts
                 DEF EventsInv, Homes
    <2>10. Entered'
      <3> SUFFICES ASSUME NEW f \in Events, ~deleted'[f], instanceId'[f] # Out
                   PROVE  \E k \in Holders : adding'[k] = f \/ (instanceId'[f] = k /\ f \in Slots(k)')
        BY DEF Entered
      <3>1. CASE f = e
        BY <2>3, <3>1
      <3>2. CASE f # e
        <4>1. /\ instanceId'[f] = instanceId[f]
              /\ \E k \in Holders : adding[k] = f \/ (instanceId[f] = k /\ f \in Slots(k))
          BY <1>6, <2>2, <3>2 DEF EventsInv, Entered
        <4>2. \A k \in Holders : adding[k] = f => adding'[k] = f
          BY <1>2, <2>3, HoldersFacts
        <4> QED BY <1>8, <4>1, <4>2
      <3> QED BY <3>1, <3>2
    <2>11. Counted'
      <3>1. Own(e)' = 1 /\ \A f \in Events : f # e => Own(f)' = Own(f)
        BY <2>3, HoldersFacts DEF Own
      <3>2. FewEntries(e) /\ InLists(e) = 0
        BY <1>1, <1>7, NotInLists
      <3> QED BY <1>8, <2>2, <3>1, <3>2 DEF EventsInv, Counted
    <2>12. AllMoved'
      <3> SUFFICES ASSUME EarlyAdds = FALSE, NEW f \in Events, Live(f)',
                          m_holder'[ObjectOf[f]] \in Maps
                   PROVE  instanceId'[f] = m_holder'[ObjectOf[f]]
        BY DEF AllMoved
      <3>1. CASE f = e
        BY <1>5, <2>2, <3>1
      <3>2. CASE f # e
        <4>1. f \in m_events[ObjectOf[f]] /\ ~deleted[f] /\ ObjectOf[f] \in Eventables
          BY <1>6, <2>3, <3>2, HoldersFacts DEF Live
        <4>2. ObjectOf[f] = o => m_holder[o] # Null
          <5> SUFFICES ASSUME ObjectOf[f] = o, m_holder[o] = Null PROVE FALSE
            OBVIOUS
          <5>1. h \in Maps /\ h # World
            BY <1>5, HoldersFacts
          <5>2. life[o] = "entering"
            BY <1>3, <1>4, <5>1, HoldersFacts
          <5>3. m_events[o] # {}
            BY <4>1
          <5> QED BY <5>2, <5>3 DEF AddEvent
        <4> QED BY <1>4, <1>5, <2>2, <3>2, <4>1, <4>2
                   DEF EventsInv, AllMoved, Live
      <3> QED BY <3>1, <3>2
    <2> QED BY <1>9, <1>10, <2>4, <2>5, <2>6, <2>7, <2>8, <2>9, <2>10, <2>11,
               <2>12 DEF EventsInv
  <1> QED BY <1>11, <1>12

\* A list that only grew still has the entry of a callback.
LEMMA StillRunning ==
    ASSUME Running, SeqsOK, next \in [Holders -> Nat \ {0}],
           UNCHANGED <<running, updating, next, mHolders>>,
           NEW h \in mHolders,
           \A k \in Holders : /\ Extended(list[k], list'[k])
                              /\ k # h => list'[k] = list[k] /\ m_insertPool'[k] = m_insertPool[k],
           \A k \in Holders : k \notin mHolders => adding'[k] = adding[k],
           SeqsOK'
    PROVE  Running'
  <1> SUFFICES ASSUME NEW k \in Holders
               PROVE  /\ running'[k] # Null =>
                            /\ updating'[k] /\ next'[k] <= Len(list'[k])
                            /\ running'[k] = list'[k][next'[k]]
                      /\ k \notin mHolders' =>
                            /\ ~updating'[k] /\ adding'[k] = Null
                            /\ list'[k] = <<>> /\ m_insertPool'[k] = <<>>
    BY DEF Running
  <1>1. /\ running[k] # Null => /\ updating[k] /\ next[k] <= Len(list[k])
                                /\ running[k] = list[k][next[k]]
        /\ k \notin mHolders => /\ ~updating[k] /\ adding[k] = Null
                                /\ list[k] = <<>> /\ m_insertPool[k] = <<>>
    BY DEF Running
  <1>2. /\ next[k] \in Nat /\ next[k] >= 1 /\ Len(list[k]) \in Nat
        /\ Len(list'[k]) \in Nat
        /\ Len(list[k]) <= Len(list'[k]) /\ \A i \in 1..Len(list[k]) : list'[k][i] = list[k][i]
    BY DEF SeqsOK, Extended
  <1>3. ASSUME running'[k] # Null
        PROVE  updating'[k] /\ next'[k] <= Len(list'[k]) /\ running'[k] = list'[k][next'[k]]
    BY <1>1, <1>2, <1>3
  <1>4. k \notin mHolders' => ~updating'[k] /\ adding'[k] = Null
                              /\ list'[k] = <<>> /\ m_insertPool'[k] = <<>>
    BY <1>1
  <1> QED BY <1>3, <1>4

\* m_holder->AddEvent
LEMMA HolderAddEventHolds ==
    ASSUME EventsInv, NEW t \in Holders, HolderAddEvent(t)
    PROVE  EventsInv'
  <1> DEFINE e == adding[t]
             o == ObjectOf[e]
             h == m_holder[o]
  <1>1. /\ EventsTypeOK /\ SeqsOK /\ e \in Events /\ o \in Eventables
        /\ h # Null /\ h \in Holders /\ Enter(t, h, {e})
        /\ ref' = [ref EXCEPT ![e] = @ + 1] /\ adding' = [adding EXCEPT ![t] = Null]
    BY HoldersFacts, SeqsTyped DEF HolderAddEvent, EventsInv, EventsTypeOK
  <1>2. /\ e \in m_events[o]
        /\ \A u \in Holders : adding[u] # Null /\ ObjectOf[adding[u]] = o => u = t
        /\ ~deleted[e] => instanceId[e] = h
    BY <1>1, HoldersFacts DEF EventsInv, AddingRight
  <1>3. h \in mHolders
    <2>1. HolderRight /\ World \in mHolders /\ life[o] \in {"out", "entering", "in", "deleted"}
      BY <1>1 DEF EventsInv, EventsTypeOK, Owned
    <2> QED BY <1>1, <2>1 DEF HolderRight
  <1>4. UNCHANGED <<life, m_instanceId, m_holder, m_events, instanceId,
                    deleted, currTime, ran,
                    mHolders, updating, next, running, last, fresh, moves>>
    BY DEF HolderAddEvent, timeVars, threadVars, objectVars
  <1>5. /\ SeqsOK'
        /\ \A k \in Holders : /\ Extended(list[k], list'[k])
                              /\ Slots(k)' = IF k = h THEN Slots(k) \cup {e} ELSE Slots(k)
                              /\ k # h => list'[k] = list[k] /\ m_insertPool'[k] = m_insertPool[k]
        /\ \A f \in Events : FewEntries(f)' /\ InLists(f)' = InLists(f) + (IF f \in {e} THEN 1 ELSE 0)
    <2> DEFINE S == {e}
    <2>1. S \in SUBSET Events /\ (\A f \in Events : FewEntries(f)) /\ IsFiniteSet(Events)
      BY <1>1, HoldersFacts DEF EventsInv, Counted
    <2>2. Enter(t, h, S)
      BY <1>1
    <2> HIDE DEF e, o, h
    <2> HIDE DEF S
    <2>3. /\ SeqsOK'
          /\ \A k \in Holders : /\ Extended(list[k], list'[k])
                                /\ Slots(k)' = IF k = h THEN Slots(k) \cup S ELSE Slots(k)
                                /\ k # h => list'[k] = list[k] /\ m_insertPool'[k] = m_insertPool[k]
          /\ \A f \in Events : FewEntries(f)' /\ InLists(f)' = InLists(f) + (IF f \in S THEN 1 ELSE 0)
      BY <1>1, <2>1, <2>2, EnterFacts
    <2> QED BY <2>3 DEF S
  <1>6. e # Null
    BY <1>1, HoldersFacts
  <1>7. /\ ref' \in [Events -> Nat] /\ ref'[e] = ref[e] + 1 /\ \A f \in Events : f # e => ref'[f] = ref[f]
        /\ adding' \in [Holders -> Events \cup {Null}] /\ adding'[t] = Null
        /\ \A k \in Holders : k # t => adding'[k] = adding[k]
    BY <1>1 DEF EventsTypeOK
  <1> HIDE DEF e, o, h
  <1>8. EventsTypeOK'
    BY <1>1, <1>4, <1>5, <1>7 DEF EventsTypeOK, SeqsOK
  <1>9. Running'
    <2>1. \A k \in Holders : k \notin mHolders => adding'[k] = adding[k]
      <3>1. \A k \in Holders : k \notin mHolders => adding[k] = Null
        BY DEF EventsInv, Running
      <3> QED BY <1>7, <3>1
    <2>2. Running /\ next \in [Holders -> Nat \ {0}]
      BY <1>1 DEF EventsInv, EventsTypeOK
    <2> QED BY <1>1, <1>3, <1>4, <1>5, <2>1, <2>2, StillRunning
  <1>10. Owned' /\ HolderRight' /\ RunInPlace' /\ RanOnce'
    BY <1>4 DEF EventsInv, Owned, HolderRight, RunInPlace, RanOnce
  <1>11. Homes' /\ AllMoved'
    BY <1>4 DEF EventsInv, Homes, AllMoved, Live
  <1>12. Fresh'
    BY <1>2, <1>4, <1>5 DEF EventsInv, Fresh, o
  <1>13. AddingRight'
    BY <1>4, <1>7 DEF EventsInv, AddingRight
  <1>14. Entered'
    <2> SUFFICES ASSUME NEW f \in Events, ~deleted'[f], instanceId'[f] # Out
                 PROVE  \E k \in Holders : adding'[k] = f \/ (instanceId'[f] = k /\ f \in Slots(k)')
      BY DEF Entered
    <2>1. PICK k \in Holders : adding[k] = f \/ (instanceId[f] = k /\ f \in Slots(k))
      BY <1>4 DEF EventsInv, Entered
    <2>2. CASE adding[k] = f /\ k = t
      BY <1>1, <1>2, <1>4, <1>5, <2>2 DEF e
    <2>3. CASE adding[k] = f /\ k # t
      BY <1>7, <2>3
    <2>4. CASE instanceId[f] = k /\ f \in Slots(k)
      BY <1>4, <1>5, <2>4
    <2> QED BY <2>1, <2>2, <2>3, <2>4
  <1>15. Counted'
    <2> SUFFICES ASSUME NEW f \in Events
                 PROVE  FewEntries(f)' /\ ref'[f] = Own(f)' + InLists(f)'
      BY DEF Counted
    <2>1. /\ FewEntries(f) /\ ref[f] = Own(f) + InLists(f) /\ Own(f)' = Own(f)
          /\ Own(f) \in Nat /\ InLists(f) \in Nat
      BY <1>4, OwnFacts, InListsType DEF EventsInv, Counted, Own
    <2> QED BY <1>5, <1>7, <2>1
  <1> QED BY <1>8, <1>9, <1>10, <1>11, <1>12, <1>13, <1>14, <1>15 DEF EventsInv

\* event_RemoveEvents
LEMMA RemoveEventHolds ==
    ASSUME EventsInv, NEW t \in Holders, NEW e \in Events, RemoveEvent(t, e)
    PROVE  EventsInv'
  <1> DEFINE o == ObjectOf[e]
  <1>1. /\ EventsTypeOK /\ o \in Eventables /\ e \in m_events[o] /\ NotAdding(o)
    BY HoldersFacts DEF RemoveEvent, MayTouch, EventsInv
  <1>2. UNCHANGED <<life, m_instanceId, m_holder, instanceId, currTime, ran,
                    mHolders, list,
                    m_insertPool, updating, next, running, last, adding, fresh,
                    moves>>
    BY DEF RemoveEvent, timeVars, threadVars, objectVars
  <1>3. /\ deleted' = [f \in Events |-> deleted[f] \/ f \in {e}]
        /\ ref' = [f \in Events |-> IF f \in {e} THEN ref[f] - 1 ELSE ref[f]]
        /\ m_events' = [m_events EXCEPT ![o] = @ \ {e}]
    BY DEF RemoveEvent, Marked, Dropped
  <1>4. /\ deleted' \in [Events -> BOOLEAN] /\ deleted'[e] /\ \A f \in Events : f # e => deleted'[f] = deleted[f]
        /\ m_events' \in [Eventables -> SUBSET Events]
        /\ m_events'[o] = m_events[o] \ {e}
        /\ \A p \in Eventables : p # o => m_events'[p] = m_events[p]
    BY <1>1, <1>3 DEF EventsTypeOK
  <1>5. \A k \in Holders : Slots(k)' = Slots(k)
    BY <1>2 DEF Slots
  <1>6. Counted' /\ ref' \in [Events -> Nat]
    <2>1. ASSUME NEW f \in Events
          PROVE  FewEntries(f)' /\ ref'[f] = Own(f)' + InLists(f)' /\ ref'[f] \in Nat
      <3>1. /\ FewEntries(f) /\ ref[f] = Own(f) + InLists(f)
            /\ Own(f) \in Nat /\ InLists(f) \in Nat
        BY OwnFacts, InListsType DEF EventsInv, Counted
      <3>2. (FewEntries(f)' <=> FewEntries(f)) /\ InLists(f)' = InLists(f)
        BY <1>2 DEF FewEntries, InLists
      <3>3. Own(f)' = (IF f = e THEN 0 ELSE Own(f)) /\ (f = e => Own(f) = 1)
        BY <1>1, <1>4, HoldersFacts DEF Own
      <3>4. ref'[f] = IF f = e THEN ref[f] - 1 ELSE ref[f]
        BY <1>3
      <3> QED BY <3>1, <3>2, <3>3, <3>4
    <2>2. ref' = [f \in Events |-> ref'[f]]
      BY <1>3
    <2> QED BY <2>1, <2>2 DEF Counted
  <1>7. EventsTypeOK'
    BY <1>1, <1>2, <1>4, <1>6 DEF EventsTypeOK
  <1>8. Running' /\ HolderRight' /\ RunInPlace'
    BY <1>2 DEF EventsInv, Running, HolderRight, RunInPlace
  <1>9. Owned'
    BY <1>1, <1>2, <1>4 DEF EventsInv, Owned, EventsOf
  <1>10. Fresh'
    <2>1. \A f \in fresh : f \in Events /\ ObjectOf[f] \in Eventables
      BY <1>1, HoldersFacts DEF EventsTypeOK
    <2>2. \A f \in Events : f \in m_events'[ObjectOf[f]] => f \in m_events[ObjectOf[f]]
      BY <1>4, HoldersFacts
    <2> QED BY <1>2, <1>5, <2>1, <2>2 DEF EventsInv, Fresh
  <1>11. Homes' /\ Entered' /\ AllMoved'
    BY <1>2, <1>4, <1>5, HoldersFacts DEF EventsInv, Homes, Entered, AllMoved,
       Live
  <1>12. RanOnce'
    <2>1. \A f \in ran : f \in Events
      BY <1>1, EventsAssumption DEF EventsTypeOK
    <2> QED BY <1>2, <1>4, <2>1 DEF EventsInv, RanOnce
  <1>13. AddingRight'
    <2>1. \A u \in Holders : adding[u] # Null =>
              /\ ObjectOf[adding[u]] # o /\ ObjectOf[adding[u]] \in Eventables
              /\ adding[u] \in Events /\ adding[u] # e
      BY <1>1, HoldersFacts DEF NotAdding, EventsTypeOK
    <2> QED BY <1>2, <1>4, <2>1 DEF EventsInv, AddingRight
  <1> QED BY <1>6, <1>7, <1>8, <1>9, <1>10, <1>11, <1>12, <1>13 DEF EventsInv

\* ~EventableObject
LEMMA DeleteObjectHolds ==
    ASSUME EventsInv, NEW t \in Holders, NEW o \in Eventables, DeleteObject(t, o)
    PROVE  EventsInv'
  <1>1. EventsTypeOK /\ NotAdding(o) /\ m_events[o] \subseteq EventsOf(o)
    BY DEF DeleteObject, MayTouch, EventsInv, Owned
  <1>2. UNCHANGED <<instanceId, currTime, ran, mHolders, list,
                    m_insertPool, updating, next, running, last, adding, moves>>
    BY DEF DeleteObject, timeVars, threadVars
  <1>3. /\ deleted' = [f \in Events |-> deleted[f] \/ f \in m_events[o]]
        /\ ref' = [f \in Events |-> IF f \in m_events[o] THEN ref[f] - 1 ELSE ref[f]]
        /\ m_events' = [m_events EXCEPT ![o] = {}]
        /\ life' = [life EXCEPT ![o] = "deleted"]
        /\ m_instanceId' = [m_instanceId EXCEPT ![o] = Out]
        /\ m_holder' = [m_holder EXCEPT ![o] = Null]
        /\ fresh' = fresh \ EventsOf(o)
    BY DEF DeleteObject, Marked, Dropped
  <1>4. /\ deleted' \in [Events -> BOOLEAN]
        /\ \A f \in Events : deleted'[f] <=> deleted[f] \/ f \in m_events[o]
        /\ m_events' \in [Eventables -> SUBSET Events] /\ m_events'[o] = {}
        /\ \A p \in Eventables : p # o => m_events'[p] = m_events[p]
        /\ life' \in [Eventables -> {"out", "entering", "in", "deleted"}]
        /\ life'[o] = "deleted"
        /\ \A p \in Eventables : p # o => life'[p] = life[p]
        /\ m_instanceId' \in [Eventables -> Maps \cup {Out}] /\ m_instanceId'[o] = Out
        /\ \A p \in Eventables : p # o => m_instanceId'[p] = m_instanceId[p]
        /\ m_holder' \in [Eventables -> Holders \cup {Null}] /\ m_holder'[o] = Null
        /\ \A p \in Eventables : p # o => m_holder'[p] = m_holder[p]
        /\ fresh' \subseteq fresh /\ fresh' \subseteq Events
    BY <1>1, <1>3 DEF EventsTypeOK
  <1>5. \A k \in Holders : Slots(k)' = Slots(k)
    BY <1>2 DEF Slots
  <1>6. \A f \in Events : f \in m_events[ObjectOf[f]] /\ ObjectOf[f] = o <=> f \in m_events[o]
    BY <1>1 DEF EventsOf
  <1>7. Counted' /\ ref' \in [Events -> Nat]
    <2>1. ASSUME NEW f \in Events
          PROVE  FewEntries(f)' /\ ref'[f] = Own(f)' + InLists(f)' /\ ref'[f] \in Nat
      <3>1. /\ FewEntries(f) /\ ref[f] = Own(f) + InLists(f)
            /\ Own(f) \in Nat /\ InLists(f) \in Nat
        BY OwnFacts, InListsType DEF EventsInv, Counted
      <3>2. (FewEntries(f)' <=> FewEntries(f)) /\ InLists(f)' = InLists(f)
        BY <1>2 DEF FewEntries, InLists
      <3>3. /\ Own(f)' = (IF f \in m_events[o] THEN 0 ELSE Own(f))
            /\ f \in m_events[o] => Own(f) = 1
        BY <1>4, <1>6, HoldersFacts DEF Own
      <3>4. ref'[f] = IF f \in m_events[o] THEN ref[f] - 1 ELSE ref[f]
        BY <1>3
      <3> QED BY <3>1, <3>2, <3>3, <3>4
    <2>2. ref' = [f \in Events |-> ref'[f]]
      BY <1>3
    <2> QED BY <2>1, <2>2 DEF Counted
  <1>8. EventsTypeOK'
    BY <1>1, <1>2, <1>4, <1>7 DEF EventsTypeOK
  <1>9. Running'
    BY <1>2 DEF EventsInv, Running
  <1>10. HolderRight'
    BY <1>2, <1>4 DEF EventsInv, HolderRight
  <1>11. RunInPlace'
    <2>1. /\ \A m \in Maps : running[m] # Null => ObjectOf[running[m]] \in Eventables
          /\ \A m \in Maps : m \in Holders
      BY <1>1, HoldersFacts DEF EventsTypeOK
    <2> QED BY <1>2, <1>4, <2>1 DEF EventsInv, RunInPlace
  <1>12. Owned'
    BY <1>2, <1>4 DEF EventsInv, Owned
  <1>13. Fresh'
    <2>1. \A f \in fresh' : f \in Events /\ f \in fresh /\ ObjectOf[f] \in Eventables
      BY <1>4, HoldersFacts
    <2> QED BY <1>2, <1>4, <1>5, <2>1 DEF EventsInv, Fresh
  <1>14. Homes' /\ Entered' /\ AllMoved'
    <2>1. \A f \in Events : ~deleted'[f] /\ instanceId[f] # Out
             => ~deleted[f] /\ f \in m_events[ObjectOf[f]] /\ ObjectOf[f] # o /\ ObjectOf[f] \in Eventables
      BY <1>4, <1>6, HoldersFacts DEF EventsInv, Homes
    <2>2. Homes'
      BY <1>2, <1>4, <2>1 DEF EventsInv, Homes
    <2>3. Entered'
      BY <1>2, <1>5, <2>1 DEF EventsInv, Entered
    <2>4. AllMoved'
      <3>1. \A f \in Events : f \in m_events'[ObjectOf[f]] => ObjectOf[f] # o /\ ObjectOf[f] \in Eventables
        BY <1>4, HoldersFacts
      <3> QED BY <1>2, <1>4, <3>1 DEF EventsInv, AllMoved, Live
    <2> QED BY <2>2, <2>3, <2>4
  <1>15. RanOnce'
    <2>1. \A f \in ran : f \in Events
      BY <1>1, EventsAssumption DEF EventsTypeOK
    <2> QED BY <1>2, <1>4, <2>1 DEF EventsInv, RanOnce
  <1>16. AddingRight'
    <2>1. \A u \in Holders : adding[u] # Null =>
              /\ ObjectOf[adding[u]] # o /\ ObjectOf[adding[u]] \in Eventables
              /\ adding[u] \in Events
      BY <1>1, HoldersFacts DEF NotAdding, EventsTypeOK
    <2>2. \A u \in Holders : adding[u] # Null => (deleted'[adding[u]] <=> deleted[adding[u]])
      <3>1. \A f \in Events : ObjectOf[f] # o => f \notin m_events[o]
        BY <1>6
      <3> QED BY <1>4, <2>1, <3>1
    <2> QED BY <1>2, <1>4, <2>1, <2>2 DEF EventsInv, AddingRight
  <1> QED BY <1>7, <1>8, <1>9, <1>10, <1>11, <1>12, <1>13, <1>14, <1>15,
             <1>16 DEF EventsInv

\* Object::AddToWorld
LEMMA AddToWorldHolds ==
    ASSUME EventsInv, NEW o \in Eventables, NEW m \in Maps, AddToWorld(o, m)
    PROVE  EventsInv'
  <1>1. /\ EventsTypeOK /\ life[o] = "out" /\ Quiet(World, o) /\ m \in mHolders
        /\ m_instanceId[o] = Out
    BY DEF AddToWorld, EventsInv, HolderRight
  <1>2. UNCHANGED <<m_holder, m_events, instanceId, deleted, ref, currTime,
                    ran, mHolders,
                    list, m_insertPool, updating, next, running, last, adding,
                    fresh>>
    BY DEF AddToWorld, timeVars, threadVars
  <1>3. /\ life' \in [Eventables -> {"out", "entering", "in", "deleted"}]
        /\ life'[o] = "entering"
        /\ \A p \in Eventables : p # o => life'[p] = life[p]
        /\ m_instanceId' \in [Eventables -> Maps \cup {Out}] /\ m_instanceId'[o] = m
        /\ \A p \in Eventables : p # o => m_instanceId'[p] = m_instanceId[p]
        /\ moves' \in Nat
    BY <1>1 DEF AddToWorld, EventsTypeOK
  <1>4. EventsTypeOK'
    BY <1>1, <1>2, <1>3 DEF EventsTypeOK
  <1>5. HolderRight'
    BY <1>1, <1>2, <1>3, HoldersFacts DEF EventsInv, HolderRight
  <1>6. RunInPlace'
    <2>1. \A k \in Maps : running[k] # Null => ObjectOf[running[k]] \in Eventables /\ ObjectOf[running[k]] # o
      BY <1>1, HoldersFacts DEF EventsTypeOK, Quiet, InCallbackOf
    <2> QED BY <1>2, <1>3, <2>1 DEF EventsInv, RunInPlace
  <1>7. Owned'
    BY <1>2, <1>3 DEF EventsInv, Owned
  <1>8. Running' /\ Fresh' /\ AddingRight' /\ Homes' /\ Entered' /\ RanOnce'
        /\ Counted' /\ AllMoved'
    BY <1>2 DEF EventsInv, Running, Fresh, AddingRight, Homes, Entered,
       RanOnce, Counted, AllMoved,
                Live, Slots, Own, InLists, FewEntries
  <1> QED BY <1>4, <1>5, <1>6, <1>7, <1>8 DEF EventsInv

\* event_Relocate.  i is a map or none.
LEMMA RelocateHolds ==
    ASSUME EventsInv, NEW t, NEW o \in Eventables, NEW i \in Maps \cup {Out}, Relocate(t, o, i),
           UNCHANGED <<m_events, deleted, currTime, ran, mHolders, updating,
                       next, running, last,
                       adding, fresh, moves>>
    PROVE  /\ m_holder' \in [Eventables -> Holders \cup {Null}] /\ m_holder'[o] = HolderOf(i)
           /\ \A p \in Eventables : p # o => m_holder'[p] = m_holder[p]
           /\ \A e \in Events : ObjectOf[e] # o => instanceId'[e] = instanceId[e]
           /\ \A e \in m_events[o] : ~deleted[e] /\ HolderOf(i) # Null /\ m_holder[o] # HolderOf(i)
                                        => instanceId'[e] = HolderOf(i)
           /\ m_holder[o] = HolderOf(i) => instanceId' = instanceId
           /\ instanceId' \in [Events -> Holders \cup {Out}]
           /\ ref' \in [Events -> Nat] /\ SeqsOK'
           /\ Running' /\ Fresh' /\ Homes' /\ Entered' /\ RanOnce' /\ Counted'
           /\ AllMoved'
  <1> DEFINE nh == HolderOf(i)
             S == {e \in m_events[o] : ~deleted[e]}
  <1>1. /\ EventsTypeOK /\ SeqsOK /\ nh \in mHolders \cup {Null}
        /\ mHolders \subseteq Holders
        /\ nh \in Maps \cup {Null}
        /\ S \in SUBSET Events /\ m_events[o] \subseteq Events
        /\ \A e \in Events : e \in m_events[o] => ObjectOf[e] = o
    <2>1. EventsTypeOK /\ SeqsOK /\ mHolders \subseteq Holders /\ m_events[o] \subseteq Events
      BY SeqsTyped DEF EventsInv, EventsTypeOK
    <2>2. nh \in mHolders \cup {Null} /\ nh \in Maps \cup {Null}
      BY <2>1, HoldersFacts DEF HolderOf
    <2>3. \A e \in Events : e \in m_events[o] => ObjectOf[e] = o
      BY DEF EventsInv, Owned, EventsOf
    <2> QED BY <2>1, <2>2, <2>3
  <1>2. /\ m_holder' \in [Eventables -> Holders \cup {Null}] /\ m_holder'[o] = nh
        /\ \A p \in Eventables : p # o => m_holder'[p] = m_holder[p]
    BY <1>1 DEF Relocate, NewHolder, EventsTypeOK
  <1>3. RanOnce'
    BY DEF EventsInv, RanOnce
  <1>4. \A e \in Events : ObjectOf[e] \in Eventables
    BY HoldersFacts
  <1>5. \A e \in Events : Own(e)' = Own(e)
    BY DEF Own
  <1>6. \A e \in Events : /\ FewEntries(e) /\ ref[e] = Own(e) + InLists(e) /\ ref[e] \in Nat
                          /\ Own(e) \in Nat /\ InLists(e) \in Nat
    BY <1>1, OwnFacts, InListsType DEF EventsInv, Counted, EventsTypeOK
  <1>7. CASE nh = m_holder[o]
    <2>1. UNCHANGED <<instanceId, ref, list, m_insertPool>>
      BY <1>7 DEF Relocate
    <2>2. \A p \in Eventables : m_holder'[p] = m_holder[p]
      BY <1>2, <1>7
    <2>3. Running' /\ Fresh' /\ Entered' /\ Counted' /\ SeqsOK'
      BY <1>1, <2>1 DEF EventsInv, Running, Fresh, Entered, Counted, SeqsOK,
         Slots, Own, InLists, FewEntries
    <2>4. Homes' /\ AllMoved'
      BY <1>4, <2>1, <2>2 DEF EventsInv, Homes, AllMoved, Live
    <2>5. instanceId \in [Events -> Holders \cup {Out}] /\ ref \in [Events -> Nat]
      BY <1>1 DEF EventsTypeOK
    <2> QED BY <1>2, <1>3, <1>7, <2>1, <2>3, <2>4, <2>5
  <1>8. CASE nh # m_holder[o] /\ nh = Null
    <2>1. /\ instanceId' = [e \in Events |-> IF e \in m_events[o] THEN Out ELSE instanceId[e]]
          /\ UNCHANGED <<ref, list, m_insertPool>>
      BY <1>8 DEF Relocate
    <2>2. /\ instanceId' \in [Events -> Holders \cup {Out}]
          /\ \A e \in Events : instanceId'[e] = IF e \in m_events[o] THEN Out ELSE instanceId[e]
          /\ ref \in [Events -> Nat]
      BY <1>1, <2>1 DEF EventsTypeOK
    <2>3. \A k \in Holders : Slots(k)' = Slots(k)
      BY <2>1 DEF Slots
    <2>4. Running' /\ Counted' /\ SeqsOK'
      BY <1>1, <2>1 DEF EventsInv, Running, Counted, SeqsOK, Own, InLists,
         FewEntries
    <2>5. Fresh'
      <3>1. \A e \in fresh : e \in Events
        BY <1>1 DEF EventsTypeOK
      <3> QED BY <2>2, <2>3, <3>1 DEF EventsInv, Fresh
    <2>6. \A e \in Events : ~deleted[e] /\ instanceId'[e] # Out
             => /\ instanceId[e] # Out /\ instanceId'[e] = instanceId[e]
                /\ e \in m_events[ObjectOf[e]] /\ ObjectOf[e] # o
      BY <2>2 DEF EventsInv, Homes
    <2>7. Homes' /\ Entered'
      BY <1>2, <1>4, <2>3, <2>6 DEF EventsInv, Homes, Entered
    <2>8. AllMoved'
      <3>1. \A e \in Events : m_holder'[ObjectOf[e]] \in Maps
                => ObjectOf[e] # o /\ m_holder'[ObjectOf[e]] = m_holder[ObjectOf[e]]
        BY <1>2, <1>4, <1>8, HoldersFacts
      <3>2. \A e \in Events : ObjectOf[e] # o => instanceId'[e] = instanceId[e]
        BY <1>1, <2>2
      <3> QED BY <3>1, <3>2 DEF EventsInv, AllMoved, Live
    <2> QED BY <1>1, <1>2, <1>3, <1>8, <2>1, <2>2, <2>4, <2>5, <2>7, <2>8
  <1>9. CASE nh # m_holder[o] /\ nh # Null
    <2>1. /\ instanceId' = [e \in Events |-> IF e \in S THEN nh ELSE instanceId[e]]
          /\ ref' = [e \in Events |-> IF e \in S THEN ref[e] + 1 ELSE ref[e]]
          /\ Enter(t, nh, S)
      BY <1>9 DEF Relocate
    <2>2. nh \in mHolders /\ nh \in Holders /\ nh \in Maps /\ nh # Out
      BY <1>1, <1>9, HoldersFacts
    <2> HIDE DEF S, nh
    <2>3. /\ SeqsOK'
          /\ \A k \in Holders : /\ Extended(list[k], list'[k])
                                /\ Slots(k)' = IF k = nh THEN Slots(k) \cup S ELSE Slots(k)
                                /\ k # nh => list'[k] = list[k] /\ m_insertPool'[k] = m_insertPool[k]
          /\ \A f \in Events : FewEntries(f)' /\ InLists(f)' = InLists(f) + (IF f \in S THEN 1 ELSE 0)
      <3>1. IsFiniteSet(Events)
        BY HoldersFacts
      <3> QED BY <1>1, <1>6, <2>1, <2>2, <3>1, EnterFacts
    <2>4. /\ instanceId' \in [Events -> Holders \cup {Out}] /\ ref' \in [Events -> Nat]
          /\ \A e \in Events : /\ instanceId'[e] = IF e \in S THEN nh ELSE instanceId[e]
                               /\ ref'[e] = IF e \in S THEN ref[e] + 1 ELSE ref[e]
      BY <1>1, <1>6, <2>1, <2>2 DEF EventsTypeOK
    <2>5. Running'
      <3>1. Running /\ next \in [Holders -> Nat \ {0}]
        BY <1>1 DEF EventsInv, EventsTypeOK
      <3> QED BY <1>1, <2>2, <2>3, <3>1, StillRunning
    <2>6. Counted'
      <3> SUFFICES ASSUME NEW f \in Events
                   PROVE  FewEntries(f)' /\ ref'[f] = Own(f)' + InLists(f)'
        BY DEF Counted
      <3> QED BY <1>5, <1>6, <2>3, <2>4
    <2>7. \A e \in Events : e \in S <=> e \in m_events[o] /\ ~deleted[e]
      BY DEF S
    <2>8. Fresh'
      <3>1. \A e \in fresh : e \in Events /\ e \notin S
        BY <1>1, <2>7 DEF EventsTypeOK, EventsInv, Fresh
      <3> QED BY <2>3, <2>4, <3>1 DEF EventsInv, Fresh
    <2>9. Homes'
      <3> SUFFICES ASSUME NEW e \in Events, ~deleted'[e], instanceId'[e] # Out
                   PROVE  /\ e \in m_events'[ObjectOf[e]]
                          /\ instanceId'[e] = m_holder'[ObjectOf[e]]
                          /\ e \in MapOnly => instanceId'[e] # World
        BY DEF Homes
      <3>1. CASE e \in S
        BY <1>1, <1>2, <2>2, <2>4, <2>7, <3>1, HoldersFacts DEF nh
      <3>2. CASE e \notin S
        <4>1. instanceId'[e] = instanceId[e]
          BY <2>4, <3>2
        <4>2. /\ e \in m_events[ObjectOf[e]] /\ instanceId[e] = m_holder[ObjectOf[e]]
              /\ e \in MapOnly => instanceId[e] # World
          BY <4>1 DEF EventsInv, Homes
        <4>3. ObjectOf[e] # o
          BY <2>7, <3>2, <4>2
        <4> QED BY <1>2, <1>4, <4>1, <4>2, <4>3
      <3> QED BY <3>1, <3>2
    <2>10. Entered'
      <3> SUFFICES ASSUME NEW f \in Events, ~deleted'[f], instanceId'[f] # Out
                   PROVE  \E k \in Holders : adding'[k] = f \/ (instanceId'[f] = k /\ f \in Slots(k)')
        BY DEF Entered
      <3>1. CASE f \in S
        BY <2>2, <2>3, <2>4, <3>1
      <3>2. CASE f \notin S
        <4>1. instanceId'[f] = instanceId[f]
          BY <2>4, <3>2
        <4>2. PICK k \in Holders : adding[k] = f \/ (instanceId[f] = k /\ f \in Slots(k))
          BY <4>1 DEF EventsInv, Entered
        <4> QED BY <2>3, <4>1, <4>2
      <3> QED BY <3>1, <3>2
    <2>11. AllMoved'
      <3> SUFFICES ASSUME EarlyAdds = FALSE, NEW f \in Events, Live(f)', m_holder'[ObjectOf[f]] \in Maps
                   PROVE  instanceId'[f] = m_holder'[ObjectOf[f]]
        BY DEF AllMoved
      <3>1. f \in m_events[ObjectOf[f]] /\ ~deleted[f] /\ Live(f)
        BY DEF Live
      <3>2. CASE ObjectOf[f] = o
        BY <1>2, <2>4, <2>7, <3>1, <3>2 DEF nh
      <3>3. CASE ObjectOf[f] # o
        <4>1. f \notin S
          BY <1>1, <2>7, <3>3
        <4> QED BY <1>2, <1>4, <2>4, <3>1, <3>3, <4>1 DEF EventsInv, AllMoved
      <3> QED BY <3>2, <3>3
    <2>12. /\ \A e \in Events : ObjectOf[e] # o => instanceId'[e] = instanceId[e]
           /\ \A e \in m_events[o] : ~deleted[e] => instanceId'[e] = nh
      BY <1>1, <2>4, <2>7
    <2> QED BY <1>2, <1>3, <1>9, <2>3, <2>4, <2>5, <2>6, <2>8, <2>9, <2>10,
               <2>11, <2>12 DEF nh
  <1> QED BY <1>7, <1>8, <1>9

\* Nobody is adding an event to an object whose holder has changed, or has
\* one that took the event.
LEMMA StillAdding ==
    ASSUME EventsInv, NEW o \in Eventables,
           UNCHANGED <<m_events, deleted, adding>>,
           \A p \in Eventables : p # o => m_holder'[p] = m_holder[p],
           \A e \in Events : ObjectOf[e] # o => instanceId'[e] = instanceId[e],
           NotAdding(o) \/ m_holder'[o] # Null,
           \A e \in m_events[o] : ~NotAdding(o) /\ ~deleted[e] =>
              \/ instanceId'[e] = m_holder'[o]
              \/ m_holder'[o] = m_holder[o] /\ instanceId'[e] = instanceId[e]
    PROVE  AddingRight'
  <1> SUFFICES ASSUME NEW u \in Holders, adding[u] # Null
               PROVE  LET p == ObjectOf[adding[u]] IN
                      /\ adding[u] \in m_events[p] /\ m_holder'[p] # Null
                      /\ \A v \in Holders : adding[v] # Null /\ ObjectOf[adding[v]] = p => v = u
                      /\ ~deleted[adding[u]] => instanceId'[adding[u]] = m_holder'[p]
    BY DEF AddingRight
  <1> DEFINE e == adding[u]
             p == ObjectOf[e]
  <1>1. e \in Events /\ p \in Eventables
    BY HoldersFacts DEF EventsInv, EventsTypeOK
  <1>2. /\ e \in m_events[p] /\ m_holder[p] # Null
        /\ \A v \in Holders : adding[v] # Null /\ ObjectOf[adding[v]] = p => v = u
        /\ ~deleted[e] => instanceId[e] = m_holder[p]
    BY DEF EventsInv, AddingRight
  <1>3. NotAdding(o) => p # o
    BY DEF NotAdding
  <1> HIDE DEF e, p
  <1>4. m_holder'[p] # Null /\ (~deleted[e] => instanceId'[e] = m_holder'[p])
    BY <1>1, <1>2, <1>3 DEF p
  <1> QED BY <1>2, <1>4 DEF e, p

\* Object::RemoveFromWorld
LEMMA RemoveFromWorldHolds ==
    ASSUME EventsInv, NEW t \in Holders, NEW o \in Eventables, RemoveFromWorld(t, o)
    PROVE  EventsInv'
  <1>1. /\ EventsTypeOK /\ NotAdding(o) /\ Relocate(t, o, Out)
        /\ life' = [life EXCEPT ![o] = "out"]
        /\ m_instanceId' = [m_instanceId EXCEPT ![o] = Out]
    BY DEF RemoveFromWorld, MayTouch, EventsInv
  <1>2. UNCHANGED <<m_events, deleted, currTime, ran, mHolders, updating, next,
                    running, last,
                    adding, fresh, moves>>
    BY DEF RemoveFromWorld, timeVars, threadVars
  <1>3. HolderOf(Out) = Null
    BY <1>1, HoldersFacts DEF HolderOf, EventsTypeOK
  <1>4. /\ m_holder' \in [Eventables -> Holders \cup {Null}] /\ m_holder'[o] = Null
        /\ \A p \in Eventables : p # o => m_holder'[p] = m_holder[p]
        /\ \A e \in Events : ObjectOf[e] # o => instanceId'[e] = instanceId[e]
        /\ instanceId' \in [Events -> Holders \cup {Out}]
        /\ ref' \in [Events -> Nat] /\ SeqsOK'
        /\ Running' /\ Fresh' /\ Homes' /\ Entered' /\ RanOnce' /\ Counted' /\ AllMoved'
    BY <1>1, <1>2, <1>3, RelocateHolds
  <1>5. /\ life' \in [Eventables -> {"out", "entering", "in", "deleted"}]
        /\ life'[o] = "out"
        /\ \A p \in Eventables : p # o => life'[p] = life[p]
        /\ m_instanceId' \in [Eventables -> Maps \cup {Out}] /\ m_instanceId'[o] = Out
        /\ \A p \in Eventables : p # o => m_instanceId'[p] = m_instanceId[p]
    BY <1>1 DEF EventsTypeOK
  <1>6. EventsTypeOK'
    BY <1>1, <1>2, <1>4, <1>5 DEF EventsTypeOK, SeqsOK
  <1>7. HolderRight'
    BY <1>2, <1>4, <1>5 DEF EventsInv, HolderRight
  <1>8. RunInPlace'
    <2>1. \A m \in Maps : running[m] # Null => ObjectOf[running[m]] \in Eventables
      BY <1>1, HoldersFacts DEF EventsTypeOK
    <2> QED BY <1>2, <1>5, <2>1 DEF EventsInv, RunInPlace
  <1>9. Owned'
    BY <1>2, <1>5 DEF EventsInv, Owned
  <1>10. AddingRight'
    BY <1>1, <1>2, <1>4, StillAdding
  <1> QED BY <1>4, <1>6, <1>7, <1>8, <1>9, <1>10 DEF EventsInv

\* Object::PushToWorld
LEMMA PushToWorldHolds ==
    ASSUME EventsInv, NEW m \in Maps, NEW o \in Eventables, PushToWorld(m, o)
    PROVE  EventsInv'
  <1>1. /\ EventsTypeOK /\ Relocate(m, o, m) /\ m_instanceId[o] = m /\ m \in mHolders
        /\ life' = [life EXCEPT ![o] = "in"]
    BY DEF PushToWorld, EventsInv, HolderRight
  <1>2. UNCHANGED <<m_events, deleted, currTime, ran, mHolders, updating, next,
                    running, last,
                    adding, fresh, moves>> /\ UNCHANGED m_instanceId
    BY DEF PushToWorld, timeVars, threadVars
  <1>3. HolderOf(m) = m /\ m # Null
    BY <1>1, HoldersFacts DEF HolderOf
  <1>4. /\ m_holder' \in [Eventables -> Holders \cup {Null}] /\ m_holder'[o] = m
        /\ \A p \in Eventables : p # o => m_holder'[p] = m_holder[p]
        /\ \A e \in Events : ObjectOf[e] # o => instanceId'[e] = instanceId[e]
        /\ \A e \in m_events[o] : ~deleted[e] /\ m_holder[o] # m => instanceId'[e] = m
        /\ m_holder[o] = m => instanceId' = instanceId
        /\ instanceId' \in [Events -> Holders \cup {Out}]
        /\ ref' \in [Events -> Nat] /\ SeqsOK'
        /\ Running' /\ Fresh' /\ Homes' /\ Entered' /\ RanOnce' /\ Counted' /\ AllMoved'
    <2>1. m \in Maps \cup {Out}
      OBVIOUS
    <2> DEFINE nh == HolderOf(m)
    <2>2. /\ m_holder' \in [Eventables -> Holders \cup {Null}] /\ m_holder'[o] = nh
          /\ \A p \in Eventables : p # o => m_holder'[p] = m_holder[p]
          /\ \A e \in Events : ObjectOf[e] # o => instanceId'[e] = instanceId[e]
          /\ \A e \in m_events[o] : ~deleted[e] /\ nh # Null /\ m_holder[o] # nh
                                       => instanceId'[e] = nh
          /\ m_holder[o] = nh => instanceId' = instanceId
          /\ instanceId' \in [Events -> Holders \cup {Out}]
          /\ ref' \in [Events -> Nat] /\ SeqsOK'
          /\ Running' /\ Fresh' /\ Homes' /\ Entered' /\ RanOnce' /\ Counted'
          /\ AllMoved'
      <3>1. Relocate(m, o, m)
        BY <1>1
      <3> QED BY <1>2, <2>1, <3>1, RelocateHolds
    <2>3. nh = m /\ nh # Null
      BY <1>3
    <2> HIDE DEF nh
    <2> QED BY <2>2, <2>3
  <1>5. /\ life' \in [Eventables -> {"out", "entering", "in", "deleted"}]
        /\ life'[o] = "in"
        /\ \A p \in Eventables : p # o => life'[p] = life[p]
    BY <1>1 DEF EventsTypeOK
  <1>6. EventsTypeOK'
    BY <1>1, <1>2, <1>4, <1>5 DEF EventsTypeOK, SeqsOK
  <1>7. HolderRight'
    BY <1>1, <1>2, <1>4, <1>5 DEF EventsInv, HolderRight
  <1>8. RunInPlace'
    BY <1>2 DEF EventsInv, RunInPlace
  <1>9. Owned'
    BY <1>2, <1>5 DEF EventsInv, Owned
  <1>10. AddingRight'
    <2>1. \A e \in m_events[o] : ~NotAdding(o) /\ ~deleted[e] =>
              \/ instanceId'[e] = m_holder'[o]
              \/ m_holder'[o] = m_holder[o] /\ instanceId'[e] = instanceId[e]
      BY <1>4
    <2>2. NotAdding(o) \/ m_holder'[o] # Null
      BY <1>3, <1>4
    <2>3. /\ \A p \in Eventables : p # o => m_holder'[p] = m_holder[p]
          /\ \A e \in Events : ObjectOf[e] # o => instanceId'[e] = instanceId[e]
      BY <1>4
    <2> QED BY <1>2, <2>1, <2>2, <2>3, StillAdding
  <1> QED BY <1>4, <1>6, <1>7, <1>8, <1>9, <1>10 DEF EventsInv

\* GameObject::Update, Aura::EventUpdateAA
LEMMA LeaveWorldHolderHolds ==
    ASSUME EventsInv, NEW o \in Eventables, LeaveWorldHolder(o)
    PROVE  EventsInv'
  <1> DEFINE i == m_instanceId[o]
  <1>1. /\ EventsTypeOK /\ NotAdding(o) /\ Relocate(World, o, i)
        /\ i \in Maps \cup {Out}
        /\ life[o] # "in" /\ m_holder[o] = World
    BY HoldersFacts DEF LeaveWorldHolder, EventsInv, EventsTypeOK, HolderRight
  <1>2. UNCHANGED <<m_events, deleted, currTime, ran, mHolders, updating, next,
                    running, last,
                    adding, fresh, moves>> /\ UNCHANGED <<life, m_instanceId>>
    BY DEF LeaveWorldHolder, timeVars, threadVars
  <1> HIDE DEF i
  <1>3. /\ m_holder' \in [Eventables -> Holders \cup {Null}]
        /\ m_holder'[o] = HolderOf(i)
        /\ \A p \in Eventables : p # o => m_holder'[p] = m_holder[p]
        /\ \A e \in Events : ObjectOf[e] # o => instanceId'[e] = instanceId[e]
        /\ instanceId' \in [Events -> Holders \cup {Out}]
        /\ ref' \in [Events -> Nat] /\ SeqsOK'
        /\ Running' /\ Fresh' /\ Homes' /\ Entered' /\ RanOnce' /\ Counted' /\ AllMoved'
    BY <1>1, <1>2, RelocateHolds
  <1>4. HolderOf(i) \in {Null} \cup ({i} \ {Out})
    BY <1>1, HoldersFacts DEF HolderOf, EventsTypeOK
  <1>5. EventsTypeOK'
    BY <1>1, <1>2, <1>3 DEF EventsTypeOK, SeqsOK
  <1>6. HolderRight'
    BY <1>1, <1>2, <1>3, <1>4 DEF EventsInv, HolderRight, i
  <1>7. RunInPlace' /\ Owned'
    BY <1>2 DEF EventsInv, RunInPlace, Owned
  <1>8. AddingRight'
    BY <1>1, <1>2, <1>3, StillAdding
  <1> QED BY <1>3, <1>5, <1>6, <1>7, <1>8 DEF EventsInv

-------------------------------------------------------------------------------
(* EventableObjectHolder::Update                                             *)

\* What Update takes over from the pool is not stale, and as often there.
LEMMA FromPoolFacts ==
    ASSUME SeqsOK, NEW h \in Holders
    PROVE  /\ FromPool(h) \in Seq(Events)
           /\ \A e \in Events : e \in ToSet(FromPool(h)) <=> e \in ToSet(m_insertPool[h]) /\ ~Stale(h, e)
           /\ \A e \in Events : Count(FromPool(h), e) = IF Stale(h, e) THEN 0 ELSE Count(m_insertPool[h], e)
  <1> DEFINE pool == m_insertPool[h]
             I == {i \in 1..Len(pool) : ~Stale(h, pool[i])}
  <1>1. pool \in Seq(Events) /\ I \in SUBSET (1..Len(pool))
    BY DEF SeqsOK
  <1>2. FromPool(h) = At(pool, I)
    BY DEF FromPool
  <1>3. ToSet(pool) = {pool[i] : i \in 1..Len(pool)}
    BY <1>1 DEF ToSet
  <1> HIDE DEF pool
  <1>4. \A e : e \in {pool[i] : i \in I} <=> e \in ToSet(pool) /\ ~Stale(h, e)
    BY <1>3
  <1>5. \A e \in Events : {i \in I : pool[i] = e} = IF Stale(h, e) THEN {} ELSE Places(pool, e)
    BY DEF Places
  <1> HIDE DEF I
  <1>6. /\ At(pool, I) \in Seq(Events) /\ ToSet(At(pool, I)) = {pool[i] : i \in I}
        /\ \A e : Count(At(pool, I), e) = Cardinality({i \in I : pool[i] = e})
    BY <1>1, AtFacts
  <1>7. \A e \in Events : Count(At(pool, I), e) = IF Stale(h, e) THEN 0 ELSE Count(pool, e)
    BY <1>5, <1>6, FS_EmptySet DEF Count
  <1> QED BY <1>2, <1>4, <1>6, <1>7 DEF pool

\* Update takes over the insert pool.
LEMMA BeginUpdateHolds ==
    ASSUME EventsInv, NEW h \in Holders, BeginUpdate(h)
    PROVE  EventsInv'
  <1> DEFINE taken == FromPool(h)
             s == list[h] \o taken
  <1>1. /\ EventsTypeOK /\ SeqsOK /\ h \in mHolders /\ ~updating[h]
        /\ updating' = [updating EXCEPT ![h] = TRUE]
        /\ list' = [list EXCEPT ![h] = s]
        /\ m_insertPool' = [m_insertPool EXCEPT ![h] = <<>>]
        /\ ref' = [e \in Events |-> IF Stale(h, e) THEN ref[e] - Count(m_insertPool[h], e) ELSE ref[e]]
    BY SeqsTyped DEF BeginUpdate, EventsInv
  <1>2. UNCHANGED <<life, m_instanceId, m_holder, m_events, instanceId,
                    deleted, currTime, ran,
                    mHolders, next, running, last, adding, fresh, moves>>
    BY DEF BeginUpdate, timeVars, objectVars
  <1>3. /\ taken \in Seq(Events)
        /\ \A e \in Events : e \in ToSet(taken) <=> e \in ToSet(m_insertPool[h]) /\ ~Stale(h, e)
        /\ \A e \in Events : Count(taken, e) = IF Stale(h, e) THEN 0 ELSE Count(m_insertPool[h], e)
    <2> HIDE DEF taken
    <2> QED BY <1>1, FromPoolFacts DEF taken
  <1> HIDE DEF taken
  <1>4. /\ list[h] \in Seq(Events) /\ m_insertPool[h] \in Seq(Events)
        /\ s \in Seq(Events)
        /\ ToSet(s) = ToSet(list[h]) \cup ToSet(taken) /\ Extended(list[h], s)
        /\ \A e : Count(s, e) = Count(list[h], e) + Count(taken, e)
        /\ \A e : /\ Count(list[h], e) \in Nat /\ Count(m_insertPool[h], e) \in Nat
                  /\ Count(taken, e) \in Nat
    <2>1. list[h] \in Seq(Events) /\ m_insertPool[h] \in Seq(Events)
      BY <1>1 DEF SeqsOK
    <2>2. s \in Seq(Events) /\ ToSet(s) = ToSet(list[h]) \cup ToSet(taken)
      BY <1>3, <2>1, ConcatFacts
    <2>3. \A e : Count(s, e) = Count(list[h], e) + Count(taken, e)
      BY <1>3, <2>1, CountConcat
    <2>4. Extended(list[h], s)
      BY <1>3, <2>1, ExtendedConcat
    <2>5. \A e : Count(list[h], e) \in Nat /\ Count(m_insertPool[h], e) \in Nat /\ Count(taken, e) \in Nat
      BY <1>3, <2>1, PlacesFacts
    <2> QED BY <2>1, <2>2, <2>3, <2>4, <2>5
  <1> HIDE DEF s
  <1>5. \A e \in Events : /\ IsFiniteSet(Entries(list, e)) /\ IsFiniteSet(Entries(m_insertPool, e))
                          /\ ref[e] = Own(e) + InLists(e) /\ Own(e) \in Nat
    BY OwnFacts DEF EventsInv, Counted, FewEntries
  <1>6. Counted' /\ ref' \in [Events -> Nat]
    <2>1. ASSUME NEW e \in Events
          PROVE  FewEntries(e)' /\ ref'[e] = Own(e)' + InLists(e)' /\ ref'[e] \in Nat
      <3> DEFINE c(F) == Cardinality(Entries(F, e))
      <3>1. /\ IsFiniteSet(Entries(list', e)) /\ c(list) \in Nat /\ c(list') \in Nat
            /\ c(list') + Count(list[h], e) = c(list) + Count(s, e)
        BY <1>1, <1>4, <1>5, EntriesChange DEF SeqsOK
      <3>2. /\ IsFiniteSet(Entries(m_insertPool', e))
            /\ c(m_insertPool) \in Nat /\ c(m_insertPool') \in Nat
            /\ c(m_insertPool') + Count(m_insertPool[h], e) = c(m_insertPool) + Count(<<>>, e)
        <4>1. <<>> \in Seq(Events)
          OBVIOUS
        <4> QED BY <1>1, <1>5, <4>1, EntriesChange DEF SeqsOK
      <3>3. InLists(e) = c(list) + c(m_insertPool) /\ InLists(e)' = c(list') + c(m_insertPool')
        BY DEF InLists
      <3>4. FewEntries(e)' /\ Own(e)' = Own(e)
        BY <1>2, <3>1, <3>2 DEF FewEntries, Own
      <3> HIDE DEF c
      <3>5. c(list') = c(list) + (IF Stale(h, e) THEN 0 ELSE Count(m_insertPool[h], e))
        BY <1>3, <1>4, <3>1
      <3>6. c(m_insertPool) = c(m_insertPool') + Count(m_insertPool[h], e)
        BY <1>4, <3>2, CountEmpty
      <3>7. ref'[e] = IF Stale(h, e) THEN ref[e] - Count(m_insertPool[h], e) ELSE ref[e]
        BY <1>1
      <3>8. InLists(e)' = IF Stale(h, e) THEN InLists(e) - Count(m_insertPool[h], e) ELSE InLists(e)
        BY <1>4, <3>1, <3>2, <3>3, <3>5, <3>6
      <3>9. InLists(e)' \in Nat /\ InLists(e) \in Nat
        BY <3>1, <3>2, <3>3
      <3>10. ref[e] = Own(e) + InLists(e) /\ Own(e) \in Nat /\ Count(m_insertPool[h], e) \in Nat
        BY <1>4, <1>5
      <3> QED BY <3>4, <3>7, <3>8, <3>9, <3>10
    <2>2. ref' = [e \in Events |-> ref'[e]]
      BY <1>1
    <2> QED BY <2>1, <2>2 DEF Counted
  <1>7. /\ SeqsOK' /\ list'[h] = s /\ m_insertPool'[h] = <<>>
        /\ \A k \in Holders : k # h => list'[k] = list[k] /\ m_insertPool'[k] = m_insertPool[k]
                                       /\ updating'[k] = updating[k]
        /\ updating' \in [Holders -> BOOLEAN] /\ updating'[h]
    BY <1>1, <1>4 DEF SeqsOK, EventsTypeOK
  <1>8. EventsTypeOK'
    BY <1>1, <1>2, <1>6, <1>7 DEF EventsTypeOK, SeqsOK
  <1>9. Running'
    <2>1. Running
      BY DEF EventsInv
    <2>2. running[h] = Null
      BY <1>1, <2>1 DEF Running
    <2> QED BY <1>1, <1>2, <1>7, <2>1, <2>2 DEF Running
  <1>10. Owned' /\ HolderRight' /\ AddingRight' /\ Homes' /\ RunInPlace' /\ RanOnce'
         /\ AllMoved'
    BY <1>2 DEF EventsInv, Owned, HolderRight, AddingRight, Homes, RunInPlace,
       RanOnce, AllMoved, Live
  <1>11. /\ \A k \in Holders, e \in Events : e \in Slots(k)' => e \in Slots(k)
         /\ \A e \in Events, k \in Holders : e \in Slots(k) /\ ~deleted[e] /\ instanceId[e] = k => e \in Slots(k)'
    <2>1. ToSet(<<>>) = {}
      BY DEF ToSet
    <2>2. \A k \in Holders : k # h => Slots(k)' = Slots(k)
      BY <1>7 DEF Slots
    <2>3. Slots(h)' = ToSet(list[h]) \cup ToSet(taken)
      BY <1>4, <1>7, <2>1 DEF Slots
    <2>4. \A e \in Events : e \in Slots(h)' => e \in Slots(h)
      BY <1>3, <2>3 DEF Slots
    <2>5. \A e \in Events : e \in Slots(h) /\ ~deleted[e] /\ instanceId[e] = h => e \in Slots(h)'
      BY <1>3, <2>3 DEF Slots, Stale
    <2> QED BY <2>2, <2>4, <2>5
  <1>12. Fresh'
    <2>1. \A e \in fresh : e \in Events
      BY <1>1 DEF EventsTypeOK
    <2> QED BY <1>2, <1>11, <2>1 DEF EventsInv, Fresh
  <1>13. Entered'
    BY <1>2, <1>11 DEF EventsInv, Entered
  <1> QED BY <1>6, <1>8, <1>9, <1>10, <1>12, <1>13 DEF EventsInv

\* Update erases the entry that it is at, of an event without a home that
\* it does not keep.
LEMMA EraseHolds ==
    ASSUME EventsInv, NEW h \in Holders, next[h] <= Len(list[h]), updating[h], Erase(h),
           ref' = Dropped({Entry(h)}),
           \A e \in Events : deleted[e] => deleted'[e],
           \A e \in Events : deleted'[e] => deleted[e] \/ e = Entry(h),
           Stale(h, Entry(h)) \/ deleted'[Entry(h)],
           UNCHANGED <<m_insertPool, m_events, instanceId, m_holder, mHolders,
                       adding, fresh, updating,
                       m_instanceId, life>>,
           deleted' \in [Events -> BOOLEAN]
    PROVE  /\ ref' \in [Events -> Nat] /\ SeqsOK' /\ Entry(h) \in Events
           /\ \A k \in Holders : k # h => list'[k] = list[k]
           /\ Counted' /\ Entered' /\ Fresh' /\ Owned' /\ HolderRight'
           /\ AddingRight' /\ Homes' /\ AllMoved'
  <1> DEFINE x == Entry(h)
  <1>1. EventsTypeOK /\ SeqsOK /\ next[h] \in 1..Len(list[h])
    <2>1. EventsTypeOK /\ SeqsOK
      BY SeqsTyped DEF EventsInv
    <2>2. next[h] \in Nat \ {0} /\ list[h] \in Seq(Events)
      BY <2>1 DEF EventsTypeOK
    <2> QED BY <2>1, <2>2
  <1>2. \A e \in Events : /\ FewEntries(e) /\ ref[e] = Own(e) + InLists(e)
                          /\ Own(e) \in Nat /\ InLists(e) \in Nat
    BY OwnFacts, InListsType DEF EventsInv, Counted
  <1> HIDE DEF x
  <1>3. /\ SeqsOK' /\ x \in Events
        /\ \A k \in Holders : /\ Slots(k)' \subseteq Slots(k)
                              /\ Slots(k) \ {x} \subseteq Slots(k)'
                              /\ k # h => list'[k] = list[k] /\ Slots(k)' = Slots(k)
        /\ \A e \in Events :
              /\ FewEntries(e)' /\ InLists(e)' \in Nat
              /\ InLists(e) = InLists(e)' + (IF e = x THEN 1 ELSE 0)
    BY <1>1, <1>2, EraseFacts DEF x
  <1>4. Counted' /\ ref' \in [Events -> Nat]
    <2>1. ASSUME NEW e \in Events
          PROVE  FewEntries(e)' /\ ref'[e] = Own(e)' + InLists(e)' /\ ref'[e] \in Nat
      <3>1. ref'[e] = IF e = x THEN ref[e] - 1 ELSE ref[e]
        BY DEF Dropped, x
      <3>2. Own(e)' = Own(e)
        BY DEF Own
      <3>3. /\ FewEntries(e)' /\ InLists(e)' \in Nat
            /\ InLists(e) = InLists(e)' + (IF e = x THEN 1 ELSE 0)
        BY <1>3
      <3>4. ref[e] = Own(e) + InLists(e) /\ Own(e) \in Nat
        BY <1>2
      <3>5. ref'[e] = Own(e) + InLists(e)'
        BY <3>1, <3>3, <3>4
      <3> QED BY <3>2, <3>3, <3>4, <3>5
    <2>2. ref' = [e \in Events |-> ref'[e]]
      BY DEF Dropped
    <2> QED BY <2>1, <2>2 DEF Counted
  <1>5. Entered'
    <2> SUFFICES ASSUME NEW e \in Events, ~deleted'[e], instanceId'[e] # Out
                 PROVE  \E k \in Holders : adding'[k] = e \/ (instanceId'[e] = k /\ e \in Slots(k)')
      BY DEF Entered
    <2>1. ~deleted[e] /\ instanceId[e] # Out
      OBVIOUS
    <2>2. PICK k \in Holders : adding[k] = e \/ (instanceId[e] = k /\ e \in Slots(k))
      BY <2>1 DEF EventsInv, Entered
    <2>3. CASE adding[k] = e
      BY <2>3
    <2>4. CASE instanceId[e] = k /\ e \in Slots(k)
      <3>1. e = x => k # h
        BY <2>1, <2>4 DEF x, Stale
      <3> QED BY <1>3, <2>4, <3>1
    <2> QED BY <2>2, <2>3, <2>4
  <1>6. Fresh'
    BY <1>3 DEF EventsInv, Fresh
  <1>7. Owned' /\ HolderRight'
    BY DEF EventsInv, Owned, HolderRight
  <1>8. Homes' /\ AllMoved'
    BY DEF EventsInv, Homes, AllMoved, Live
  <1>9. AddingRight'
    <2>1. \A u \in Holders : adding[u] # Null => adding[u] \in Events
      BY <1>1 DEF EventsTypeOK
    <2> QED BY <2>1 DEF EventsInv, AddingRight
  <1> QED BY <1>3, <1>4, <1>5, <1>6, <1>7, <1>8, <1>9 DEF x

\* An entry that is of no use is dropped.
LEMMA DropEntryHolds ==
    ASSUME EventsInv, NEW h \in Holders, DropEntry(h)
    PROVE  EventsInv'
  <1>1. /\ EventsTypeOK /\ running[h] = Null /\ updating[h] /\ next[h] <= Len(list[h])
        /\ Stale(h, Entry(h)) /\ Erase(h) /\ ref' = Dropped({Entry(h)})
    BY DEF DropEntry, Visiting, EventsInv
  <1>2. UNCHANGED <<life, m_instanceId, m_holder, m_events, instanceId,
                    deleted, currTime, ran, mHolders,
                    m_insertPool, updating, next, running, last, adding, fresh,
                    moves>>
    BY DEF DropEntry, timeVars, threadVars, objectVars
  <1>3. /\ ref' \in [Events -> Nat] /\ SeqsOK' /\ \A k \in Holders : k # h => list'[k] = list[k]
        /\ Counted' /\ Entered' /\ Fresh' /\ Owned' /\ HolderRight' /\ AddingRight'
        /\ Homes' /\ AllMoved'
    <2>1. deleted' \in [Events -> BOOLEAN]
      BY <1>1, <1>2 DEF EventsTypeOK
    <2> QED BY <1>1, <1>2, <2>1, EraseHolds
  <1>4. EventsTypeOK'
    BY <1>1, <1>2, <1>3 DEF EventsTypeOK, SeqsOK
  <1>5. Running'
    BY <1>1, <1>2, <1>3 DEF EventsInv, Running
  <1>6. RunInPlace' /\ RanOnce'
    BY <1>2 DEF EventsInv, RunInPlace, RanOnce
  <1> QED BY <1>3, <1>4, <1>5, <1>6 DEF EventsInv

\* An event whose time has not come waits.
LEMMA LetWaitHolds ==
    ASSUME EventsInv, NEW h \in Holders, LetWait(h)
    PROVE  EventsInv'
  <1>1. /\ EventsTypeOK /\ running[h] = Null /\ updating[h] /\ next[h] <= Len(list[h])
        /\ currTime[Entry(h)] > 0
        /\ currTime' = [currTime EXCEPT ![Entry(h)] = @ - 1]
        /\ next' = [next EXCEPT ![h] = @ + 1]
    BY DEF LetWait, Visiting, EventsInv
  <1>2. UNCHANGED <<life, m_instanceId, m_holder, m_events, instanceId,
                    deleted, ref, ran, mHolders,
                    list, m_insertPool, updating, running, last, adding, fresh,
                    moves>>
    BY DEF LetWait, objectVars
  <1>3. Entry(h) \in Events
    BY <1>1 DEF EventsTypeOK, Entry
  <1>4. /\ next' \in [Holders -> Nat \ {0}] /\ \A k \in Holders : k # h => next'[k] = next[k]
        /\ currTime' \in [Events -> Nat] /\ \A e \in Events : currTime'[e] <= currTime[e]
    BY <1>1, <1>3 DEF EventsTypeOK
  <1>5. EventsTypeOK'
    <2>1. \A e \in Events : currTime'[e] <= Period[e]
      BY <1>1, <1>4, HoldersFacts DEF EventsTypeOK
    <2> QED BY <1>1, <1>2, <1>4, <2>1 DEF EventsTypeOK
  <1>6. Running'
    BY <1>1, <1>2, <1>4 DEF EventsInv, Running
  <1>7. Owned' /\ Fresh' /\ HolderRight' /\ AddingRight' /\ Homes' /\ Entered'
        /\ RunInPlace' /\ RanOnce'
        /\ Counted' /\ AllMoved'
    BY <1>2 DEF EventsInv, Owned, Fresh, HolderRight, AddingRight, Homes,
       Entered, RunInPlace, RanOnce,
                Counted, AllMoved, Live, Slots, Own, InLists, FewEntries
  <1> QED BY <1>5, <1>6, <1>7 DEF EventsInv

\* What Update is about to execute: an event of an object that is where it
\* is executed, and not for the second time where that would matter.
LEMMA AboutToStart ==
    ASSUME EventsInv, NEW h \in Holders, Visiting(h), ~Stale(h, Entry(h))
    PROVE  LET e == Entry(h)
               o == ObjectOf[e]
           IN  /\ e \in Events /\ life[o] # "deleted" /\ e \in m_events[o]
               /\ h \in Maps => m_instanceId[o] = h
               /\ e \in MapOnly => h # World /\ m_instanceId[o] = h /\ e \notin ran
  <1> DEFINE e == Entry(h)
             o == ObjectOf[e]
  <1>1. /\ EventsTypeOK /\ e \in Events /\ o \in Eventables /\ running[h] = Null
        /\ ~deleted[e] /\ instanceId[e] = h
    <2>1. EventsTypeOK /\ running[h] = Null /\ ~deleted[e] /\ instanceId[e] = h
      BY DEF EventsInv, Visiting, Stale
    <2>2. next[h] \in Nat \ {0} /\ list[h] \in Seq(Events) /\ next[h] <= Len(list[h])
      BY <2>1 DEF EventsTypeOK, Visiting
    <2>3. e \in Events
      BY <2>2 DEF Entry
    <2> QED BY <2>1, <2>3, HoldersFacts
  <1> HIDE DEF e, o
  <1>2. e \in m_events[o] /\ h = m_holder[o] /\ (e \in MapOnly => h # World)
    BY <1>1, HoldersFacts DEF EventsInv, Homes, o
  <1>3. life[o] # "deleted"
    BY <1>1, <1>2 DEF EventsInv, Owned
  <1>4. h \in Maps => m_instanceId[o] = h
    BY <1>1, <1>2, HoldersFacts DEF EventsInv, HolderRight, EventsTypeOK
  <1>5. e \in MapOnly => h \in Maps
    BY <1>2 DEF Holders
  <1>6. e \in MapOnly => e \notin ran
    <2> SUFFICES ASSUME e \in MapOnly, e \in ran PROVE FALSE
      OBVIOUS
    <2>1. PICK k \in Holders : running[k] = e
      BY <1>1 DEF EventsInv, RanOnce
    <2>2. k # h /\ k # World
      BY <1>1, <2>1, HoldersFacts DEF EventsInv, RunInPlace
    <2>3. k \in Maps
      BY <2>2 DEF Holders
    <2>4. m_instanceId[o] \in {k, Out}
      BY <1>1, <2>1, <2>3, HoldersFacts DEF EventsInv, RunInPlace, o
    <2> QED BY <1>4, <1>5, <2>2, <2>4, HoldersFacts
  <1> QED BY <1>1, <1>2, <1>3, <1>4, <1>5, <1>6 DEF e, o

\* cb->execute begins.
LEMMA StartHolds ==
    ASSUME EventsInv, NEW h \in Holders, Start(h)
    PROVE  EventsInv'
  <1> DEFINE e == Entry(h)
  <1>1. /\ EventsTypeOK /\ Visiting(h) /\ ~Stale(h, e)
        /\ running' = [running EXCEPT ![h] = e]
        /\ last' = [last EXCEPT ![h] = next[h] = Len(list[h])]
        /\ ran' = ran \cup ({e} \cap OneShot)
    BY DEF Start, EventsInv
  <1>2. UNCHANGED <<life, m_instanceId, m_holder, m_events, instanceId,
                    deleted, ref, currTime, mHolders,
                    list, m_insertPool, updating, next, adding, fresh, moves>>
    BY DEF Start, objectVars
  <1>3. /\ e \in Events /\ (h \in Maps => m_instanceId[ObjectOf[e]] = h)
        /\ e \in MapOnly => h # World
    BY <1>1, AboutToStart
  <1>4. /\ updating[h] /\ running[h] = Null /\ next[h] <= Len(list[h])
        /\ e = list[h][next[h]]
    BY <1>1 DEF Visiting, Entry
  <1> HIDE DEF e
  <1>5. /\ running' \in [Holders -> Events \cup {Null}] /\ running'[h] = e
        /\ \A k \in Holders : k # h => running'[k] = running[k]
        /\ last' \in [Holders -> BOOLEAN]
    BY <1>1, <1>3 DEF EventsTypeOK
  <1>6. EventsTypeOK'
    BY <1>1, <1>2, <1>5 DEF EventsTypeOK
  <1>7. Running'
    BY <1>2, <1>4, <1>5 DEF EventsInv, Running
  <1>8. RunInPlace'
    <2>1. \A m \in Maps : m \in Holders
      BY HoldersFacts
    <2> QED BY <1>2, <1>3, <1>5, <2>1, HoldersFacts DEF EventsInv, RunInPlace
  <1>9. RanOnce'
    <2> SUFFICES ASSUME NEW f \in ran'
                 PROVE  deleted'[f] \/ \E k \in Holders : running'[k] = f
      BY DEF RanOnce
    <2>1. CASE f \in ran
      <3>1. f # Null
        BY <1>1, <2>1, EventsAssumption DEF EventsTypeOK
      <3> QED BY <1>2, <1>4, <1>5, <2>1, <3>1 DEF EventsInv, RanOnce
    <2>2. CASE f = e
      BY <1>5, <2>2
    <2> QED BY <1>1, <2>1, <2>2
  <1>10. Owned' /\ Fresh' /\ HolderRight' /\ AddingRight' /\ Homes' /\ Entered'
         /\ Counted' /\ AllMoved'
    BY <1>2 DEF EventsInv, Owned, Fresh, HolderRight, AddingRight, Homes,
       Entered,
                Counted, AllMoved, Live, Slots, Own, InLists, FewEntries
  <1> QED BY <1>6, <1>7, <1>8, <1>9, <1>10 DEF EventsInv

\* The callback of an event that has expired or was removed ends.
LEMMA FinishLastHolds ==
    ASSUME EventsInv, NEW h \in Holders, FinishLast(h)
    PROVE  EventsInv'
  <1> DEFINE e == running[h]
  <1>1. /\ EventsTypeOK /\ e # Null /\ Erase(h) /\ e \in Events
        /\ deleted' = [f \in Events |-> deleted[f] \/ f \in {e}] /\ ref' = Dropped({e})
        /\ running' = [running EXCEPT ![h] = Null] /\ last' = [last EXCEPT ![h] = FALSE]
        /\ next' = [next EXCEPT ![h] = IF last[h] THEN Len(list'[h]) + 1 ELSE next[h]]
    BY DEF FinishLast, Marked, GoOn, EventsInv, EventsTypeOK
  <1>2. UNCHANGED <<life, m_instanceId, m_holder, m_events, instanceId,
                    currTime, ran, mHolders,
                    m_insertPool, updating, adding, fresh, moves>>
    BY DEF FinishLast, timeVars, objectVars
  <1>3. updating[h] /\ next[h] <= Len(list[h]) /\ e = Entry(h)
    BY <1>1 DEF EventsInv, Running, Entry
  <1> HIDE DEF e
  <1>4. /\ deleted' \in [Events -> BOOLEAN] /\ deleted'[e]
        /\ \A f \in Events : deleted'[f] <=> deleted[f] \/ f = e
    BY <1>1 DEF EventsTypeOK
  <1>5. /\ ref' \in [Events -> Nat] /\ SeqsOK' /\ \A k \in Holders : k # h => list'[k] = list[k]
        /\ Counted' /\ Entered' /\ Fresh' /\ Owned' /\ HolderRight' /\ AddingRight'
        /\ Homes' /\ AllMoved'
    BY <1>1, <1>2, <1>3, <1>4, EraseHolds
  <1>6. /\ running' \in [Holders -> Events \cup {Null}] /\ running'[h] = Null
        /\ \A k \in Holders : k # h => running'[k] = running[k] /\ next'[k] = next[k]
        /\ last' \in [Holders -> BOOLEAN] /\ next' \in [Holders -> Nat \ {0}]
    <2>1. Len(list'[h]) \in Nat
      BY <1>5 DEF SeqsOK
    <2> QED BY <1>1, <2>1 DEF EventsTypeOK
  <1>7. EventsTypeOK'
    BY <1>1, <1>2, <1>4, <1>5, <1>6 DEF EventsTypeOK, SeqsOK
  <1>8. Running'
    BY <1>2, <1>3, <1>5, <1>6 DEF EventsInv, Running
  <1>9. RunInPlace'
    BY <1>2, <1>6, HoldersFacts, EventsAssumption DEF EventsInv, RunInPlace
  <1>10. RanOnce'
    <2>1. \A f \in ran : f \in Events
      BY <1>1, EventsAssumption DEF EventsTypeOK
    <2> QED BY <1>2, <1>4, <1>6, <2>1 DEF EventsInv, RanOnce, e
  <1> QED BY <1>5, <1>7, <1>8, <1>9, <1>10 DEF EventsInv

\* The callback of an event that is to run again ends.
LEMMA FinishAgainHolds ==
    ASSUME EventsInv, NEW h \in Holders, FinishAgain(h)
    PROVE  EventsInv'
  <1> DEFINE e == running[h]
  <1>1. /\ EventsTypeOK /\ e # Null /\ e \in Events /\ e \notin OneShot
        /\ currTime' = [currTime EXCEPT ![e] = Period[e]] /\ list' = list
        /\ running' = [running EXCEPT ![h] = Null] /\ last' = [last EXCEPT ![h] = FALSE]
        /\ next' = [next EXCEPT ![h] = IF last[h] THEN Len(list'[h]) + 1 ELSE next[h] + 1]
    BY DEF FinishAgain, GoOn, EventsInv, EventsTypeOK
  <1>2. UNCHANGED <<life, m_instanceId, m_holder, m_events, instanceId,
                    deleted, ref, ran, mHolders,
                    list, m_insertPool, updating, adding, fresh, moves>>
    BY DEF FinishAgain, objectVars
  <1>3. \A f \in ran : f # e
    BY <1>1 DEF EventsTypeOK
  <1>4. /\ running' \in [Holders -> Events \cup {Null}] /\ running'[h] = Null
        /\ \A k \in Holders : k # h => running'[k] = running[k] /\ next'[k] = next[k]
        /\ last' \in [Holders -> BOOLEAN] /\ next' \in [Holders -> Nat \ {0}]
    <2>1. Len(list'[h]) \in Nat
      BY <1>1 DEF EventsTypeOK
    <2> QED BY <1>1, <2>1 DEF EventsTypeOK
  <1>5. EventsTypeOK'
    <2>1. /\ currTime' \in [Events -> Nat]
          /\ \A f \in Events : currTime'[f] <= Period[f]
      BY <1>1, HoldersFacts DEF EventsTypeOK
    <2> QED BY <1>1, <1>2, <1>4, <2>1 DEF EventsTypeOK
  <1>6. Running'
    BY <1>2, <1>4 DEF EventsInv, Running
  <1>7. RunInPlace'
    BY <1>2, <1>4, HoldersFacts, EventsAssumption DEF EventsInv, RunInPlace
  <1>8. RanOnce'
    BY <1>2, <1>3, <1>4 DEF EventsInv, RanOnce
  <1>9. Owned' /\ Fresh' /\ HolderRight' /\ AddingRight' /\ Homes' /\ Entered'
        /\ Counted' /\ AllMoved'
    BY <1>2 DEF EventsInv, Owned, Fresh, HolderRight, AddingRight, Homes,
       Entered,
                Counted, AllMoved, Live, Slots, Own, InLists, FewEntries
  <1> QED BY <1>5, <1>6, <1>7, <1>8, <1>9 DEF EventsInv

\* Update leaves the loop.
LEMMA EndUpdateHolds ==
    ASSUME EventsInv, NEW h \in Holders, EndUpdate(h)
    PROVE  EventsInv'
  <1>1. /\ EventsTypeOK /\ running[h] = Null
        /\ updating' = [updating EXCEPT ![h] = FALSE] /\ next' = [next EXCEPT ![h] = 1]
    BY DEF EndUpdate, EventsInv
  <1>2. UNCHANGED <<life, m_instanceId, m_holder, m_events, instanceId,
                    deleted, ref, currTime, ran, mHolders,
                    list, m_insertPool, running, last, adding, fresh, moves>>
    BY DEF EndUpdate, objectVars, timeVars
  <1>3. EventsTypeOK'
    BY <1>1, <1>2 DEF EventsTypeOK
  <1>4. Running'
    BY <1>1, <1>2 DEF EventsInv, Running, EventsTypeOK
  <1>5. Owned' /\ Fresh' /\ HolderRight' /\ AddingRight' /\ Homes' /\ Entered'
        /\ RunInPlace' /\ RanOnce'
        /\ Counted' /\ AllMoved'
    BY <1>2 DEF EventsInv, Owned, Fresh, HolderRight, AddingRight, Homes,
       Entered, RunInPlace, RanOnce,
                Counted, AllMoved, Live, Slots, Own, InLists, FewEntries
  <1> QED BY <1>3, <1>4, <1>5 DEF EventsInv

\* ~EventableObjectHolder
LEMMA DestroyHolderHolds ==
    ASSUME EventsInv, NEW m \in Maps, DestroyHolder(m)
    PROVE  EventsInv'
  <1>1. /\ EventsTypeOK /\ SeqsOK /\ m \in Holders /\ ~updating[m] /\ adding[m] = Null
        /\ \A o \in Eventables : m_instanceId[o] # m
        /\ mHolders' = mHolders \ {m}
        /\ list' = [list EXCEPT ![m] = <<>>]
        /\ m_insertPool' = [m_insertPool EXCEPT ![m] = <<>>]
        /\ ref' = [e \in Events |-> ref[e] - Count(list[m], e) - Count(m_insertPool[m], e)]
    BY SeqsTyped, HoldersFacts DEF DestroyHolder, EventsInv
  <1>2. UNCHANGED <<life, m_instanceId, m_holder, m_events, instanceId,
                    deleted, currTime, ran,
                    updating, next, running, last, adding, fresh, moves>>
    BY DEF DestroyHolder, timeVars, threadVars, objectVars
  <1>3. /\ SeqsOK' /\ list'[m] = <<>> /\ m_insertPool'[m] = <<>>
        /\ \A k \in Holders : k # m => list'[k] = list[k] /\ m_insertPool'[k] = m_insertPool[k]
    BY <1>1 DEF SeqsOK
  <1>4. Counted' /\ ref' \in [Events -> Nat]
    <2>1. ASSUME NEW e \in Events
          PROVE  FewEntries(e)' /\ ref'[e] = Own(e)' + InLists(e)' /\ ref'[e] \in Nat
      <3> DEFINE c(F) == Cardinality(Entries(F, e))
      <3>1. /\ IsFiniteSet(Entries(list, e))
            /\ IsFiniteSet(Entries(m_insertPool, e)) /\ <<>> \in Seq(Events)
            /\ ref[e] = Own(e) + InLists(e) /\ Own(e) \in Nat
        BY OwnFacts DEF EventsInv, Counted, FewEntries
      <3>2. /\ IsFiniteSet(Entries(list', e)) /\ c(list) \in Nat /\ c(list') \in Nat
            /\ Count(list[m], e) \in Nat
            /\ c(list') + Count(list[m], e) = c(list) + Count(<<>>, e)
        BY <1>1, <3>1, EntriesChange DEF SeqsOK
      <3>3. /\ IsFiniteSet(Entries(m_insertPool', e))
            /\ Count(m_insertPool[m], e) \in Nat
            /\ c(m_insertPool) \in Nat /\ c(m_insertPool') \in Nat
            /\ c(m_insertPool') + Count(m_insertPool[m], e) = c(m_insertPool) + Count(<<>>, e)
        BY <1>1, <3>1, EntriesChange DEF SeqsOK
      <3>4. InLists(e) = c(list) + c(m_insertPool) /\ InLists(e)' = c(list') + c(m_insertPool')
        BY DEF InLists
      <3>5. FewEntries(e)' /\ Own(e)' = Own(e) /\ Count(<<>>, e) = 0
        BY <1>2, <3>2, <3>3, CountEmpty DEF FewEntries, Own
      <3> HIDE DEF c
      <3>6. ref'[e] = ref[e] - Count(list[m], e) - Count(m_insertPool[m], e)
        BY <1>1
      <3>7. /\ c(list') = c(list) - Count(list[m], e)
            /\ c(m_insertPool') = c(m_insertPool) - Count(m_insertPool[m], e)
        BY <3>2, <3>3, <3>5
      <3>8. InLists(e)' = InLists(e) - Count(list[m], e) - Count(m_insertPool[m], e)
        BY <3>2, <3>3, <3>4, <3>7
      <3>9. InLists(e) \in Nat /\ InLists(e)' \in Nat
        BY <3>2, <3>3, <3>4
      <3>10. Count(list[m], e) \in Nat /\ Count(m_insertPool[m], e) \in Nat
        BY <3>2, <3>3
      <3>11. ref'[e] = Own(e) + InLists(e)'
        BY <3>1, <3>6, <3>8, <3>9, <3>10
      <3> QED BY <3>1, <3>5, <3>9, <3>11
    <2>2. ref' = [e \in Events |-> ref'[e]]
      BY <1>1
    <2> QED BY <2>1, <2>2 DEF Counted
  <1>5. EventsTypeOK'
    BY <1>1, <1>2, <1>3, <1>4 DEF EventsTypeOK, SeqsOK
  <1>6. Running'
    BY <1>1, <1>2, <1>3 DEF EventsInv, Running
  <1>7. Owned'
    BY <1>1, <1>2, HoldersFacts DEF EventsInv, Owned
  <1>8. HolderRight'
    BY <1>1, <1>2 DEF EventsInv, HolderRight
  <1>9. \A k \in Holders : IF k = m THEN Slots(k)' = {} ELSE Slots(k)' = Slots(k)
    BY <1>3 DEF Slots, ToSet
  <1>10. Fresh'
    BY <1>2, <1>9 DEF EventsInv, Fresh
  <1>11. Entered'
    <2> SUFFICES ASSUME NEW e \in Events, ~deleted'[e], instanceId'[e] # Out
                 PROVE  \E k \in Holders : adding'[k] = e \/ (instanceId'[e] = k /\ e \in Slots(k)')
      BY DEF Entered
    <2>1. ~deleted[e] /\ instanceId[e] # Out /\ ObjectOf[e] \in Eventables
      BY <1>2, HoldersFacts
    <2>2. PICK k \in Holders : adding[k] = e \/ (instanceId[e] = k /\ e \in Slots(k))
      BY <2>1 DEF EventsInv, Entered
    <2>3. instanceId[e] # m
      <3> SUFFICES ASSUME m_holder[ObjectOf[e]] = m PROVE FALSE
        BY <2>1 DEF EventsInv, Homes
      <3> QED BY <1>1, <2>1, HoldersFacts DEF EventsInv, HolderRight
    <2> QED BY <1>2, <1>9, <2>2, <2>3
  <1>12. AddingRight' /\ Homes' /\ RunInPlace' /\ RanOnce' /\ AllMoved'
    BY <1>2 DEF EventsInv, AddingRight, Homes, RunInPlace, RanOnce, AllMoved,
       Live
  <1> QED BY <1>4, <1>5, <1>6, <1>7, <1>8, <1>10, <1>11, <1>12 DEF EventsInv

-------------------------------------------------------------------------------
(* Every step, and what follows.                                             *)

\* What a holder's thread does on its own keeps the invariant, ...
LEMMA WorkHolds ==
    ASSUME EventsInv, NEW h \in Holders, Work(h) PROVE EventsInv'
  BY HolderAddEventHolds, BeginUpdateHolds, DropEntryHolds, LetWaitHolds,
     StartHolds,
     FinishLastHolds, FinishAgainHolds, EndUpdateHolds DEF Work

\* ... and so does every step.
LEMMA NextHolds == EventsInv /\ [EventsNext]_vars => EventsInv'
  <1> SUFFICES ASSUME EventsInv, [EventsNext]_vars PROVE EventsInv'
    OBVIOUS
  <1>1. ASSUME NEW t \in Holders, NEW e \in Events, AddEvent(t, e) \/ RemoveEvent(t, e)
        PROVE  EventsInv'
    BY <1>1, AddEventHolds, RemoveEventHolds
  <1>2. ASSUME NEW t \in Holders, NEW o \in Eventables, DeleteObject(t, o) \/ RemoveFromWorld(t, o)
        PROVE  EventsInv'
    BY <1>2, DeleteObjectHolds, RemoveFromWorldHolds
  <1>3. ASSUME NEW o \in Eventables, NEW m \in Maps, AddToWorld(o, m) \/ PushToWorld(m, o)
        PROVE  EventsInv'
    BY <1>3, AddToWorldHolds, PushToWorldHolds
  <1>4. ASSUME NEW o \in Eventables, LeaveWorldHolder(o) PROVE EventsInv'
    BY <1>4, LeaveWorldHolderHolds
  <1>5. ASSUME NEW m \in Maps, DestroyHolder(m) PROVE EventsInv'
    BY <1>5, DestroyHolderHolds
  <1>6. ASSUME NEW h \in Holders, Work(h) PROVE EventsInv'
    BY <1>6, WorkHolds
  <1>7. CASE UNCHANGED vars
    BY <1>7, StutterHolds
  <1> QED BY <1>1, <1>2, <1>3, <1>4, <1>5, <1>6, <1>7 DEF EventsNext, Operation

\* The invariant that the three properties below follow from: holders, objects
\* and their events agree whatever the threads do between the steps of
\* event_AddEvent, event_Relocate and EventableObjectHolder::Update.
THEOREM EventsInvariance == EventsSpec => []EventsInv
  BY InitHolds, NextHolds, PTL DEF EventsSpec

\* The invariant counts for References, ...
LEMMA PointersGood == EventsInv => References
  <1> SUFFICES ASSUME EventsInv PROVE References
    OBVIOUS
  <1>1. CountedReferences
    <2> SUFFICES ASSUME NEW e \in Events
                 PROVE  ref[e] = Cardinality({o \in Eventables : e \in m_events[o]})
                                   + Cardinality(Entries(list, e)) + Cardinality(Entries(m_insertPool, e))
      BY DEF CountedReferences
    <2> DEFINE owners == {o \in Eventables : e \in m_events[o]}
    <2>1. owners = IF e \in m_events[ObjectOf[e]] THEN {ObjectOf[e]} ELSE {}
      BY HoldersFacts DEF EventsInv, Owned, EventsOf
    <2>2. Cardinality(owners) = Own(e)
      BY <2>1, FS_EmptySet, FS_Singleton DEF Own
    <2> HIDE DEF owners
    <2>3. FewEntries(e) /\ ref[e] = Own(e) + InLists(e) /\ Own(e) \in Nat
      BY OwnFacts DEF EventsInv, Counted
    <2>4. Cardinality(Entries(list, e)) \in Nat /\ Cardinality(Entries(m_insertPool, e)) \in Nat
      BY <2>3, FS_CardinalityType DEF FewEntries
    <2>5. InLists(e) = Cardinality(Entries(list, e)) + Cardinality(Entries(m_insertPool, e))
      BY DEF InLists
    <2>6. ref[e] = Cardinality(owners) + Cardinality(Entries(list, e)) + Cardinality(Entries(m_insertPool, e))
      BY <2>2, <2>3, <2>4, <2>5
    <2> QED BY <2>6 DEF owners
  <1>2. NoDanglingHolder
    <2>1. \A o \in Eventables : m_holder[o] \in mHolders \cup {Null}
      BY HoldersFacts DEF EventsInv, EventsTypeOK, HolderRight, Owned
    <2>2. ASSUME NEW t \in Holders, adding[t] # Null
          PROVE  ref[adding[t]] > 0 /\ m_holder[ObjectOf[adding[t]]] # Null
      <3> DEFINE e == adding[t]
      <3>1. e \in Events /\ e \in m_events[ObjectOf[e]] /\ m_holder[ObjectOf[e]] # Null
        BY <2>2 DEF EventsInv, EventsTypeOK, AddingRight
      <3> HIDE DEF e
      <3>2. ref[e] = Own(e) + InLists(e) /\ InLists(e) \in Nat /\ Own(e) = 1
        BY <3>1, InListsType DEF EventsInv, Counted, Own
      <3>3. ref[e] > 0
        BY <3>2
      <3> QED BY <3>1, <3>3 DEF e
    <2> QED BY <2>1, <2>2 DEF NoDanglingHolder
  <1> QED BY <1>1, <1>2 DEF References, EventsInv

\* m_refs of an event is the number of places that point to it, duplicates
\* left by event_Relocate included, so DecRef frees it neither early nor never;
\* and no object points at the holder of a map that has ended.
THEOREM ReferencesCounted == EventsSpec => []References
  BY EventsInvariance, PointersGood, PTL

\* ... and says where the events of an object in a map are.
LEMMA NoneLeftBehind == EventsInv /\ EarlyAdds = FALSE => EventsFollow
  <1> SUFFICES ASSUME EventsInv, EarlyAdds = FALSE, NEW e \in Events, Live(e), life[ObjectOf[e]] = "in",
                      \A t \in Holders : adding[t] # e
               PROVE  e \in Slots(m_instanceId[ObjectOf[e]])
    BY DEF EventsFollow, Slots
  <1> DEFINE m == m_instanceId[ObjectOf[e]]
  <1>1. m \in Maps /\ m_holder[ObjectOf[e]] = m
    BY HoldersFacts DEF EventsInv, HolderRight
  <1>2. ~deleted[e] /\ instanceId[e] = m
    BY <1>1 DEF EventsInv, AllMoved, Live
  <1>3. m # Out
    BY <1>1, HoldersFacts
  <1> HIDE DEF m
  <1>4. e \in Slots(m)
    BY <1>2, <1>3 DEF EventsInv, Entered
  <1> QED BY <1>4 DEF m

\* event_Relocate takes each event along: as long as an object has all its
\* events from one holder when it enters a map, the map's holder has every one
\* of them, however the object's changes of maps, the new events and the old
\* holder's updates are interleaved.
THEOREM EventsGoAlong ==
    ASSUME EarlyAdds = FALSE
    PROVE  EventsSpec => []EventsFollow
  <1>1. EventsInv => EventsFollow
    BY NoneLeftBehind
  <1> QED BY <1>1, EventsInvariance, PTL

\* EventableObjectHolder::Update never calls back for an event that was removed
\* or an object that was deleted, whichever entries are left in which lists;
\* one that is not to run in WorldRunnable is called by its map's thread only
\* and, if it is a one-shot, once.
THEOREM CallbacksAllowed == EventsSpec => RunsAllowed
  <1> DEFINE Allowed ==
               \A h \in Holders : Started(h) =>
                  LET e == running'[h]
                      o == ObjectOf[e]
                  IN  /\ life[o] # "deleted" /\ e \in m_events[o]
                      /\ e \in MapOnly => m_instanceId[o] = h /\ e \notin ran
  <1>1. EventsInv /\ [EventsNext]_vars => [Allowed]_vars
    <2> SUFFICES ASSUME EventsInv, EventsNext, NEW h \in Holders, Started(h)
                 PROVE  LET e == running'[h]
                            o == ObjectOf[e]
                        IN  /\ life[o] # "deleted" /\ e \in m_events[o]
                            /\ e \in MapOnly => m_instanceId[o] = h /\ e \notin ran
      OBVIOUS
    <2>1. Start(h)
      <3>1. running[h] = Null /\ running'[h] # Null
        BY DEF Started
      <3>2. running \in [Holders -> Events \cup {Null}]
        BY DEF EventsInv, EventsTypeOK
      <3>3. running' # running
        BY <3>1
      <3>4. \E k \in Holders : Start(k) \/ FinishLast(k) \/ FinishAgain(k)
        <4>1. ASSUME NEW k \in Holders, Work(k)
              PROVE  Start(k) \/ FinishLast(k) \/ FinishAgain(k)
          BY <3>3, <4>1 DEF Work, HolderAddEvent, BeginUpdate, DropEntry,
             LetWait, EndUpdate, threadVars
        <4>2. ASSUME NEW k \in Holders, Operation(k) PROVE FALSE
          BY <3>3, <4>2 DEF Operation, AddEvent, RemoveEvent, DeleteObject,
             RemoveFromWorld, threadVars
        <4>3. ASSUME NEW p \in Eventables, NEW m \in Maps, AddToWorld(p, m) \/ PushToWorld(m, p)
              PROVE  FALSE
          BY <3>3, <4>3 DEF AddToWorld, PushToWorld, threadVars
        <4>4. ASSUME NEW p \in Eventables, LeaveWorldHolder(p) PROVE FALSE
          BY <3>3, <4>4 DEF LeaveWorldHolder, threadVars
        <4>5. ASSUME NEW m \in Maps, DestroyHolder(m) PROVE FALSE
          BY <3>3, <4>5 DEF DestroyHolder, threadVars
        <4> QED BY <4>1, <4>2, <4>3, <4>4, <4>5 DEF EventsNext
      <3>5. ASSUME NEW k \in Holders, FinishLast(k) \/ FinishAgain(k) PROVE FALSE
        <4>1. running' = [running EXCEPT ![k] = Null]
          BY <3>5 DEF FinishLast, FinishAgain, GoOn
        <4> QED BY <3>1, <3>2, <4>1
      <3>6. PICK k \in Holders : Start(k)
        BY <3>4, <3>5
      <3>7. running' = [running EXCEPT ![k] = Entry(k)]
        BY <3>6 DEF Start
      <3>8. k = h
        BY <3>1, <3>2, <3>7
      <3> QED BY <3>6, <3>8
    <2>2. Visiting(h) /\ ~Stale(h, Entry(h)) /\ running'[h] = Entry(h)
      BY <2>1 DEF Start, EventsInv, EventsTypeOK
    <2> QED BY <2>2, AboutToStart
  <1>2. EventsSpec => [][Allowed]_vars
    BY <1>1, EventsInvariance, PTL DEF EventsSpec
  <1> QED BY <1>2 DEF RunsAllowed
===============================================================================
