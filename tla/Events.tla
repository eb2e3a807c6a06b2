-------------------------------- MODULE Events --------------------------------
(***************************************************************************)
(* Timed events (world/EventableObject, EventMgr).  An object keeps its    *)
(* events; a holder, one per map and one of the world thread, keeps a list *)
(* of events of many objects and runs them in its thread's loop.  When an  *)
(* object changes maps its events are entered in the new holder's list and *)
(* left in the old one's, which drops them when it meets them.             *)
(*                                                                         *)
(* An object that is in a map is worked on by the map's thread, another    *)
(* one by the world thread; besides, a callback works on its own object.   *)
(* A holder is named by its thread.  Out stands for instance id 0.         *)
(***************************************************************************)
EXTENDS Naturals, Sequences, SequencesExt, FiniteSets

CONSTANTS
    Eventables,   \* the objects
    Maps,
    World,        \* WORLD_INSTANCE
    Events,       \* each is added once
    ObjectOf,     \* event -> its object
    MapOnly,      \* events with EVENT_FLAG_DO_NOT_EXECUTE_IN_WORLD_CONTEXT,
    OneShot,      \* events with repeats = 1, the others repeat for ever
    Period,       \* event -> its time, in updates of a holder
    MaxMoves,     \* how often objects enter a map (bound)
    EarlyAdds,    \* whether an event is added to an object that waits in
                  \* m_objectinsertpool and has others from a former map
    Out, Null

ASSUME EventsAssumption ==
    /\ ObjectOf \in [Events -> Eventables]
    /\ MapOnly \subseteq Events /\ OneShot \subseteq Events
    /\ World \notin Maps /\ Out \notin Maps \cup {World}
    /\ Null \notin Events \cup Maps \cup {World}
    /\ Period \in [Events -> Nat] /\ MaxMoves \in Nat /\ EarlyAdds \in BOOLEAN
    /\ IsFiniteSet(Events)

Holders == Maps \cup {World}

VARIABLES
    \* objects
    life,          \* "out", "entering", "in" or "deleted"
    m_instanceId,  \* what event_GetInstanceID returns
    m_holder,
    m_events,
    \* events
    instanceId,
    deleted,
    ref,
    currTime,
    \* holders
    mHolders,      \* the holders EventMgr knows
    list,          \* EventableObjectHolder::m_events
    m_insertPool,
    \* threads
    updating,      \* it holds its holder's m_lock
    next,          \* the entry Update looks at
    running,       \* the event whose callback it executes
    last,          \* ... whose entry was the list's last: itr is end()
    adding,        \* an event between event_AddEvent and AddEvent
    \* history
    fresh,         \* events nobody has added yet
    ran,           \* one-shot events that were started
    moves

objectVars == <<life, m_instanceId, m_holder>>
timeVars == <<currTime, ran>>
threadVars == <<updating, next, running, last>>
vars == <<objectVars, m_events, instanceId, deleted, ref, timeVars, mHolders,
          list, m_insertPool, threadVars, adding, fresh, moves>>

EventsOf(o) == {e \in Events : ObjectOf[e] = o}

\* Where e is in the sequence s, and how often.
Places(s, e) == {i \in 1..Len(s) : s[i] = e}
Count(s, e) == Cardinality(Places(s, e))

\* The elements of s at the places of I, in their order.
At(s, I) ==
    LET Rank(i) == Cardinality({j \in I : j <= i})
    IN [n \in 1..Cardinality(I) |-> s[CHOOSE i \in I : Rank(i) = n]]

\* Operators named ..._bug are the mistakes the properties are tested
\* against; no specification uses them.

\* event_RemoveEvents marks what it removes.
Marked_bug(S) == deleted
Marked(S) == [e \in Events |-> deleted[e] \/ e \in S]

\* DecRef of each event in S.
Dropped_bug(S) == [e \in Events |-> IF e \in S /\ ref[e] > 1 THEN ref[e] - 1
                                    ELSE ref[e]]   \* keeps the last one
Dropped(S) == [e \in Events |-> IF e \in S THEN ref[e] - 1 ELSE ref[e]]

\* Update has no use for this entry of holder h.
Stale(h, e) == deleted[e] \/ instanceId[e] # h

\* "If we are flagged not to run in WorldRunnable then we won't!"
Refused(h, e) == h = World /\ e \in MapOnly

\* Another thread is in the update of holder h.
Taken(t, h) == t # h /\ updating[h]

\* Whoever enters an event never waits for a holder: AttemptAcquire.
NeverWaits_bug(t, h) == ~Taken(t, h)               \* Acquire
NeverWaits(t, h) == TRUE

\* event_Relocate resets m_holder in every case.
NewHolder(o, h) == h

\* What Update takes over from the insert pool.
FromPool_bug(h) == <<>>                            \* cleared unseen
FromPool(h) ==
    LET pool == m_insertPool[h]
    IN At(pool, {i \in 1..Len(pool) : ~Stale(h, pool[i])})

-------------------------------------------------------------------------------
(* All objects are out of world and have no events.                        *)

EventsInit ==
    /\ life = [o \in Eventables |-> "out"]
    /\ m_instanceId = [o \in Eventables |-> Out]
    /\ m_holder = [o \in Eventables |-> Null]
    /\ m_events = [o \in Eventables |-> {}]
    /\ instanceId = [e \in Events |-> Out]
    /\ deleted = [e \in Events |-> FALSE]
    /\ ref = [e \in Events |-> 0]
    /\ currTime = Period
    /\ mHolders = Holders
    /\ list = [h \in Holders |-> <<>>]
    /\ m_insertPool = [h \in Holders |-> <<>>]
    /\ updating = [h \in Holders |-> FALSE]
    /\ next = [h \in Holders |-> 1]
    /\ running = [h \in Holders |-> Null]
    /\ last = [h \in Holders |-> FALSE]
    /\ adding = [h \in Holders |-> Null]
    /\ fresh = Events
    /\ ran = {}
    /\ moves = 0

-------------------------------------------------------------------------------
(* Who works on an object.                                                 *)

Owner(o) == IF life[o] = "in" THEN m_instanceId[o] ELSE World

InCallbackOf(t, o) == running[t] # Null /\ ObjectOf[running[t]] = o

\* A thread is between two of its own steps: outside its update or in a
\* callback, and not in the middle of event_AddEvent.
Ready(t) == (updating[t] => running[t] # Null) /\ adding[t] = Null

\* No event of o is between event_AddEvent and the holder's AddEvent.
NotAdding(o) == \A u \in Holders : adding[u] # Null => ObjectOf[adding[u]] # o

\* A callback that outlasts its object's entry into a map is assumed to
\* leave the object alone from then on, and two threads not to overlap on
\* one object while one of them adds an event to it.
MayTouch(t, o) ==
    /\ t \in mHolders /\ Ready(t) /\ life[o] # "deleted"
    /\ \/ t = Owner(o)
       \/ InCallbackOf(t, o) /\ life[o] # "in"
    /\ NotAdding(o)

\* No other thread executes a callback of o.
Quiet(t, o) == \A u \in Holders \ {t} : ~InCallbackOf(u, o)

\* EventableObjectHolder::AddEvent, AddObject: events S, which have no order
\* of their own, are entered in the list of h or, when its thread is at
\* work, in its insert pool.  That a third thread has the lock for the
\* moment it takes to enter its own makes no difference.
Enter(t, h, S) ==
    /\ NeverWaits(t, h)
    /\ IF Taken(t, h)
       THEN /\ m_insertPool' = [m_insertPool EXCEPT ![h] = @ \o SetToSeq(S)]
            /\ UNCHANGED list
       ELSE /\ list' = [list EXCEPT ![h] = @ \o SetToSeq(S)]
            /\ UNCHANGED m_insertPool

\* GetEventHolder
HolderOf(i) == IF i \in mHolders THEN i ELSE Null

\* event_Relocate, where event_GetInstanceID is i.  The holder of the
\* events that move is changed, and the old entries left to be dropped.
Relocate(t, o, i) ==
    LET nh == HolderOf(i)
        S == {e \in m_events[o] : ~deleted[e]} IN
    /\ m_holder' = [m_holder EXCEPT ![o] = NewHolder(o, nh)]
    /\ IF nh = m_holder[o]
       THEN UNCHANGED <<instanceId, ref, list, m_insertPool>>
       ELSE IF nh = Null
       THEN /\ instanceId' = [e \in Events |-> IF e \in m_events[o] THEN Out
                                               ELSE instanceId[e]]
            /\ UNCHANGED <<ref, list, m_insertPool>>
       ELSE /\ instanceId' = [e \in Events |-> IF e \in S THEN nh
                                               ELSE instanceId[e]]
            /\ ref' = [e \in Events |-> IF e \in S THEN ref[e] + 1 ELSE ref[e]]
            /\ Enter(t, nh, S)

-------------------------------------------------------------------------------
(* Operations on an object, by a thread that works on it.                  *)

\* event_AddEvent: m_holder is found when it is not set; there is always
\* that of the world.
AddEvent(t, e) ==
    LET o == ObjectOf[e]
        found == HolderOf(m_instanceId[o])
        h == IF m_holder[o] # Null THEN m_holder[o]
             ELSE IF found # Null THEN found ELSE World IN
    /\ e \in fresh /\ MayTouch(t, o)
    /\ (life[o] = "entering" /\ m_holder[o] = Null /\ m_events[o] # {})
          => EarlyAdds
    /\ fresh' = fresh \ {e}
    /\ m_holder' = [m_holder EXCEPT ![o] = h]
    /\ IF Refused(h, e)
       THEN UNCHANGED <<m_events, instanceId, ref, adding>>
       ELSE /\ ref' = [ref EXCEPT ![e] = 1]
            /\ instanceId' = [instanceId EXCEPT ![e] = h]
            /\ m_events' = [m_events EXCEPT ![o] = @ \cup {e}]
            /\ adding' = [adding EXCEPT ![t] = e]
    /\ UNCHANGED <<life, m_instanceId, deleted, timeVars, mHolders, list,
                   m_insertPool, threadVars, moves>>

\* m_holder->AddEvent, after m_lock has been released: m_holder is read
\* again.
HolderAddEvent(t) ==
    LET e == adding[t]
        h == m_holder[ObjectOf[e]] IN
    /\ e # Null /\ h # Null
    /\ ref' = [ref EXCEPT ![e] = @ + 1]
    /\ Enter(t, h, {e})
    /\ adding' = [adding EXCEPT ![t] = Null]
    /\ UNCHANGED <<objectVars, m_events, instanceId, deleted, timeVars,
                   mHolders, threadVars, fresh, moves>>

\* event_RemoveEvents of one type
RemoveEvent(t, e) ==
    LET o == ObjectOf[e] IN
    /\ MayTouch(t, o) /\ e \in m_events[o]
    /\ deleted' = Marked({e})
    /\ ref' = Dropped({e})
    /\ m_events' = [m_events EXCEPT ![o] = @ \ {e}]
    /\ UNCHANGED <<objectVars, instanceId, timeVars, mHolders, list,
                   m_insertPool, threadVars, adding, fresh, moves>>

\* ~EventableObject.  An object that has just entered a map outlives a
\* callback the world thread still executes for it.
DeleteObject(t, o) ==
    /\ MayTouch(t, o) /\ t = Owner(o) /\ Quiet(t, o)
    /\ life[o] # "entering"
    /\ life' = [life EXCEPT ![o] = "deleted"]
    /\ m_instanceId' = [m_instanceId EXCEPT ![o] = Out]
    /\ m_holder' = [m_holder EXCEPT ![o] = Null]
    /\ deleted' = Marked(m_events[o])
    /\ ref' = Dropped(m_events[o])
    /\ m_events' = [m_events EXCEPT ![o] = {}]
    /\ fresh' = fresh \ EventsOf(o)
    /\ UNCHANGED <<instanceId, timeVars, mHolders, list, m_insertPool,
                   threadVars, adding, moves>>

\* Object::RemoveFromWorld
RemoveFromWorld(t, o) ==
    /\ MayTouch(t, o) /\ t = Owner(o) /\ life[o] = "in"
    /\ life' = [life EXCEPT ![o] = "out"]
    /\ m_instanceId' = [m_instanceId EXCEPT ![o] = Out]
    /\ Relocate(t, o, Out)
    /\ UNCHANGED <<m_events, deleted, timeVars, mHolders, threadVars, adding,
                   fresh, moves>>

\* Object::AddToWorld.  A callback that took the object out of a map ends
\* before the client has answered and the object enters another.
AddToWorld(o, m) ==
    /\ MayTouch(World, o) /\ life[o] = "out" /\ Quiet(World, o)
    /\ m \in mHolders \cap Maps
    /\ moves < MaxMoves
    /\ moves' = moves + 1
    /\ life' = [life EXCEPT ![o] = "entering"]
    /\ m_instanceId' = [m_instanceId EXCEPT ![o] = m]
    /\ UNCHANGED <<m_holder, m_events, instanceId, deleted, ref, timeVars,
                   mHolders, list, m_insertPool, threadVars, adding, fresh>>

\* Object::PushToWorld, by the map's thread before its update
PushToWorld(m, o) ==
    /\ life[o] = "entering" /\ m_instanceId[o] = m
    /\ ~updating[m] /\ adding[m] = Null
    /\ life' = [life EXCEPT ![o] = "in"]
    /\ Relocate(m, o, m)
    /\ UNCHANGED <<m_instanceId, m_events, deleted, timeVars, mHolders,
                   threadVars, adding, fresh, moves>>

\* GameObject::Update, Aura::EventUpdateAA: a callback of the world thread
\* moves its object's events to where it is or will be.
LeaveWorldHolder(o) ==
    /\ InCallbackOf(World, o) /\ Ready(World) /\ life[o] # "deleted"
    /\ m_holder[o] = World /\ NotAdding(o)
    /\ Relocate(World, o, m_instanceId[o])
    /\ UNCHANGED <<life, m_instanceId, m_events, deleted, timeVars, mHolders,
                   threadVars, adding, fresh, moves>>

-------------------------------------------------------------------------------
(* EventableObjectHolder::Update                                           *)

BeginUpdate(h) ==
    /\ h \in mHolders /\ ~updating[h] /\ adding[h] = Null
    /\ updating' = [updating EXCEPT ![h] = TRUE]
    /\ list' = [list EXCEPT ![h] = @ \o FromPool(h)]
    /\ ref' = [e \in Events |-> IF Stale(h, e)
                                THEN ref[e] - Count(m_insertPool[h], e)
                                ELSE ref[e]]
    /\ m_insertPool' = [m_insertPool EXCEPT ![h] = <<>>]
    /\ UNCHANGED <<objectVars, m_events, instanceId, deleted, timeVars,
                   mHolders, next, running, last, adding, fresh, moves>>

\* Update comes to an entry.
Visiting(h) == updating[h] /\ running[h] = Null /\ next[h] <= Len(list[h])
Entry(h) == list[h][next[h]]
Erase(h) == list' = [list EXCEPT ![h] = RemoveAt(@, next[h])]

DropEntry(h) ==
    /\ Visiting(h) /\ Stale(h, Entry(h))
    /\ ref' = Dropped({Entry(h)})
    /\ Erase(h)
    /\ UNCHANGED <<objectVars, m_events, instanceId, deleted, timeVars,
                   mHolders, m_insertPool, threadVars, adding, fresh, moves>>

LetWait(h) ==
    /\ Visiting(h) /\ ~Stale(h, Entry(h)) /\ currTime[Entry(h)] > 0
    /\ currTime' = [currTime EXCEPT ![Entry(h)] = @ - 1]
    /\ next' = [next EXCEPT ![h] = @ + 1]
    /\ UNCHANGED <<objectVars, m_events, instanceId, deleted, ref, ran,
                   mHolders, list, m_insertPool, updating, running, last,
                   adding, fresh, moves>>

\* cb->execute: the callback runs until Finish.  (One with
\* EVENT_FLAG_DELETES_OBJECT has its entry erased before rather than after.)
Start(h) ==
    LET e == Entry(h) IN
    /\ Visiting(h) /\ ~Stale(h, e) /\ currTime[e] = 0
    /\ running' = [running EXCEPT ![h] = e]
    /\ last' = [last EXCEPT ![h] = next[h] = Len(list[h])]
    /\ ran' = ran \cup ({e} \cap OneShot)
    /\ UNCHANGED <<objectVars, m_events, instanceId, deleted, ref, currTime,
                   mHolders, list, m_insertPool, updating, next, adding, fresh, moves>>

\* The loop goes on at i; it does not see what the callback of the list's
\* last entry has appended.
GoOn(h, i) ==
    /\ running' = [running EXCEPT ![h] = Null]
    /\ last' = [last EXCEPT ![h] = FALSE]
    /\ next' = [next EXCEPT ![h] = IF last[h] THEN Len(list'[h]) + 1 ELSE i]

\* The event has expired or was removed in its callback, ...
FinishLast(h) ==
    LET e == running[h] IN
    /\ e # Null /\ adding[h] = Null
    /\ e \in OneShot \/ deleted[e]
    /\ deleted' = Marked({e})
    /\ ref' = Dropped({e})
    /\ Erase(h) /\ GoOn(h, next[h])
    /\ UNCHANGED <<objectVars, m_events, instanceId, timeVars, mHolders,
                   m_insertPool, updating, adding, fresh, moves>>

\* ... or is to run again.
FinishAgain(h) ==
    LET e == running[h] IN
    /\ e # Null /\ adding[h] = Null
    /\ e \notin OneShot /\ ~deleted[e]
    /\ currTime' = [currTime EXCEPT ![e] = Period[e]]
    /\ UNCHANGED list /\ GoOn(h, next[h] + 1)
    /\ UNCHANGED <<objectVars, m_events, instanceId, deleted, ref, ran,
                   mHolders, m_insertPool, updating, adding, fresh, moves>>

EndUpdate(h) ==
    /\ updating[h] /\ running[h] = Null /\ next[h] > Len(list[h])
    /\ updating' = [updating EXCEPT ![h] = FALSE]
    /\ next' = [next EXCEPT ![h] = 1]
    /\ UNCHANGED <<objectVars, m_events, instanceId, deleted, ref, timeVars,
                   mHolders, list, m_insertPool, running, last, adding, fresh,
                   moves>>

\* ~EventableObjectHolder: the map has ended, its objects are gone.
DestroyHolder(m) ==
    /\ m \in mHolders /\ ~updating[m] /\ adding[m] = Null
    /\ \A o \in Eventables : m_instanceId[o] # m
    /\ mHolders' = mHolders \ {m}
    /\ ref' = [e \in Events |-> ref[e] - Count(list[m], e)
                                       - Count(m_insertPool[m], e)]
    /\ list' = [list EXCEPT ![m] = <<>>]
    /\ m_insertPool' = [m_insertPool EXCEPT ![m] = <<>>]
    /\ UNCHANGED <<objectVars, m_events, instanceId, deleted, timeVars,
                   threadVars, adding, fresh, moves>>

-------------------------------------------------------------------------------
\* What a thread does on its own ...
Work(h) ==
    \/ HolderAddEvent(h) \/ BeginUpdate(h) \/ DropEntry(h) \/ LetWait(h)
    \/ Start(h) \/ FinishLast(h) \/ FinishAgain(h) \/ EndUpdate(h)

\* ... and what the game has it do with its objects.
Operation(t) ==
    \/ \E e \in Events : AddEvent(t, e) \/ RemoveEvent(t, e)
    \/ \E o \in Eventables : DeleteObject(t, o) \/ RemoveFromWorld(t, o)

EventsNext ==
    \/ \E h \in Holders : Work(h) \/ Operation(h)
    \/ \E o \in Eventables, m \in Maps : AddToWorld(o, m) \/ PushToWorld(m, o)
    \/ \E o \in Eventables : LeaveWorldHolder(o)
    \/ \E m \in Maps : DestroyHolder(m)

EventsSpec == EventsInit /\ [][EventsNext]_vars

\* Every thread goes on with its loop, and callbacks end.
Fairness ==
    /\ \A h \in Holders : WF_vars(Work(h))
    /\ \A o \in Eventables, m \in Maps : WF_vars(PushToWorld(m, o))

FairSpec == EventsSpec /\ Fairness

-------------------------------------------------------------------------------
\* Every variable holds a value of its kind.
EventsTypeOK ==
    /\ life \in [Eventables -> {"out", "entering", "in", "deleted"}]
    /\ m_instanceId \in [Eventables -> Maps \cup {Out}]
    /\ m_holder \in [Eventables -> Holders \cup {Null}]
    /\ m_events \in [Eventables -> SUBSET Events]
    /\ instanceId \in [Events -> Holders \cup {Out}]
    /\ deleted \in [Events -> BOOLEAN]
    /\ ref \in [Events -> Nat]
    /\ currTime \in [Events -> Nat] /\ \A e \in Events : currTime[e] <= Period[e]
    /\ mHolders \subseteq Holders
    /\ list \in [Holders -> Seq(Events)] /\ m_insertPool \in [Holders -> Seq(Events)]
    /\ updating \in [Holders -> BOOLEAN] /\ next \in [Holders -> Nat \ {0}]
    /\ running \in [Holders -> Events \cup {Null}] /\ last \in [Holders -> BOOLEAN]
    /\ adding \in [Holders -> Events \cup {Null}]
    /\ fresh \subseteq Events /\ ran \subseteq OneShot /\ moves \in Nat

\* The entries of e in the sequences F of the holders.
Entries(F, e) == UNION {{h} \X Places(F[h], e) : h \in Holders}

\* An event is freed exactly when nobody has a pointer to it: its count is
\* that of the lists it is in, duplicates included.
CountedReferences ==
    \A e \in Events :
        ref[e] = Cardinality({o \in Eventables : e \in m_events[o]})
                   + Cardinality(Entries(list, e))
                   + Cardinality(Entries(m_insertPool, e))

\* No object points at a holder of a map that has ended, and an event on
\* its way to one still exists.
NoDanglingHolder ==
    /\ \A o \in Eventables : m_holder[o] \in mHolders \cup {Null}
    /\ \A t \in Holders :
          adding[t] # Null => /\ ref[adding[t]] > 0
                              /\ m_holder[ObjectOf[adding[t]]] # Null

\* The pointers between objects, events and holders are good.
References == EventsTypeOK /\ CountedReferences /\ NoDanglingHolder

Live(e) == e \in m_events[ObjectOf[e]] /\ ~deleted[e]

\* An object's events go with it: while it is in a map, the map's holder
\* has each of them.
EventsFollow ==
    \A e \in Events :
        LET o == ObjectOf[e] IN
        Live(e) /\ life[o] = "in" /\ (\A t \in Holders : adding[t] # e)
            => LET m == m_instanceId[o] IN
               e \in ToSet(list[m]) \cup ToSet(m_insertPool[m])

Started(h) == running[h] = Null /\ running'[h] # Null

\* Wherever old entries of an event are left, a callback never starts after
\* its event was removed or its object was deleted; one that must not run in
\* the world thread ("We will not run in WorldRunnable") is started by the
\* thread of the map its object is in or about to enter, and, if it is a
\* one-shot, once.
RunsAllowed ==
    [][\A h \in Holders : Started(h) =>
          LET e == running'[h]
              o == ObjectOf[e]
          IN  /\ life[o] # "deleted" /\ e \in m_events[o]
              /\ e \in MapOnly => m_instanceId[o] = h /\ e \notin ran]_vars

\* An event of an object that stays in its map is executed again and again,
\* until it has expired or is removed; so no two holders wait for each other.
EventsRun ==
    \A e \in Events :
        (Live(e) /\ life[ObjectOf[e]] = "in")
            ~> ((\E h \in Holders : running[h] = e)
                  \/ ~Live(e) \/ life[ObjectOf[e]] # "in")
===============================================================================
