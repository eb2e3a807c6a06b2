# FrostwingCore: models and proofs

FrostwingCore is a World of Warcraft 3.3.5 server emulator (C++; ArcEmu, later
AscEmu). Two programs share a library: the **logon server** checks passwords and
lists realms; a **world server** per realm runs the game. This directory holds
TLA+ models of the parts of the two servers where several threads or programs
act on the same state, the TLC runs that check them, and TLAPS proofs.

Paths below are relative to `src/src/` of the repository.

## 1. Inventory

### The system's parts and their state

| part | state | operations | talks to |
|---|---|---|---|
| Sockets (`shared/Network`) | connected and deleted flags, send and receive buffers, the collector's queue | connect, send, read, `Disconnect` (once), `Delete`, collection 15 s later | workers call `OnRead`, `OnDisconnect`; any thread sends |
| Thread pool (`shared/Threading/ThreadPool.cpp`) | sets of active and free threads, exit tokens | `ExecuteTask`, `ThreadExit`, `IntegrityCheck`, `Shutdown` | runs every long-lived task of both servers |
| Database layer (`shared/Database/Database.cpp`) | connection pool, `queries_queue`, `query_buffer`, two threads | `Query`, `Execute`, `WaitExecute`, `AddQueryBuffer`, `EndThreads` | everybody; MySQL |
| World login (`world/WorldSocket`, `World`, `WorldSession`) | request and session of a socket, registry of sessions, login queue | handshake, admission, queueing, passes over the sessions, removal | link to the logon server, map threads |
| Link between the servers (`world/LogonComm*`, `logonserver/LogonCommServer`) | connection, registered realms, pending account requests, pings | connect, authenticate, register, account request, ping, drop and retry | login, realm list |
| Accounts and realms (`logonserver/AccountCache`) | account cache, IP bans, realm list | reload, realm added, removed, offline | link, game clients |
| Game clients at the logon server (`logonserver/AuthSocket`) | SRP6 state of a socket | challenge, proof, realm list, patch | account cache |
| Maps (`world/MapMgr`, `Object`) | one thread per map instance, its sessions and objects, pending inserts | insert, remove, update, transfer of a player | world thread, events |
| Cells (`world/MapMgr`, `MapCell`) | in-range sets, active and idle cells, events to unload and respawn | objects come, go, move, die | map thread only |
| Instances (`world/WorldCreator`) | saved instances, active maps per instance | pre-teleport, create, expire, reset | maps, groups, database |
| Events (`world/EventableObject`, `EventMgr`) | timed events per object and per holder | add, remove, relocate, update | map threads, world thread |
| Player protocols (trade, duel, summon, mail, auction, groups, guilds, dungeon finder, battlegrounds) | records shared by several players | request, accept, cancel, leave, disconnect | sessions, database |
| Game rules, data, AI, scripts, tools | very large | - | single-threaded per map, or data |

`PROJECT.json` lists every part with its status, including those that are not
modelled and why.

### What is hard

* Every socket callback runs on a socket worker (one with epoll, one per
  processor with IOCP), the world and each map have a thread, the database two,
  and the main thread collects sockets and stops everything. Many structures
  have a lock each, many pointers are read under a lock and used after it.
* Only events are reference-counted. Sockets are freed 15 seconds after they were
  closed, sessions 20 seconds after their socket went (or at once when the
  account logs in again), threads by themselves.
* Answers of the logon server meet sockets that have closed; ping timeouts meet
  disconnects; a queue is filled by callbacks and emptied by the world thread.
* Shutdown and the normal flow overlap: tokens are counted while threads start,
  queues are emptied while others push.

The `hazards` of `PROJECT.json` name each of these at its line, with the
properties that cover it, or a note on what TLC finds there.

### What makes each part correct

* Login: nothing that was deleted stays reachable from the registry, the update
  set, the login queue or the pending requests; the player limit is overshot by
  one at most; an account has one session (but for the queue, see `WorldLogin`); a
  login that no later one of the same socket overtakes is answered; the queue moves;
  dead sessions go.
* Thread pool: no deleted thread in a set; a submitted task runs; `Shutdown` ends.
* Database: connections are exclusive; queries run once and in order; a buffer
  is committed as a whole as far as statements and connections do not fail; nothing is lost
  when the threads end.
* Link: a reconnecting realm is registered once and shown online exactly while
  it is connected; the link comes back after failures.
* Sending: what the client receives is whole packets, and it receives them.
* Maps: a session is updated by the thread of the map its player is in; no session
  is lost between two threads; a player is on one map; dead sessions end.
* Cells: in-range sets are mutual; what is active is what is near players; no spawn
  is lost or doubled.
* Instances: the registry and the map managers agree; groups stay apart; what is
  saved is kept; managers end.
* Events: an event runs at most once, in the thread of its object, and a removed
  event never runs.

## 2. Plan

| order | module | what | shown to implement | proofs |
|---|---|---|---|---|
| 1 | `WorldLogin` | login, queue, registry, socket collection | - | `WorldLogin_proofs` |
| 2 | `ThreadPool` | the pool | - | `ThreadPool_proofs` |
| 3 | `Database` | asynchronous queries | `WriteQueue` | `Database_proofs` |
| 4 | `LogonLink` | link between the servers, realm list, crashes of either side | - | `LogonLink_proofs` |
| 5 | `MapThreads` | sessions and players between world thread and map threads | - | `MapThreads_proofs` |
| 6 | `Events` | timed events, holders, relocation | - | `Map_proofs` |
| 7 | `Instances` | creation, binding, expiry, end of instances with managers and groups | - | `Instances_proofs` |
| 8 | `SocketSend`, `CircularBuffer` | write buffer, write lock, epoll masks, overflow queue | `ByteStream` | `SocketSend_proofs` |
| 9 | `MapCells` | in-range sets, active cells, unloading and respawns | - | `Map_proofs` |

All of it is there. `SocketSend` uses `CircularBuffer` as a module of its own; the
others meet at a boundary each states: `WorldLogin` lets the world thread update every
session and `MapThreads` takes over where a player enters a map; `MapThreads` lets a
map end at any moment it may, and `Instances` says when its manager does; `Events`
has objects that enter and leave maps whose holders end.

Runs are kept to instances with two or three of each kind of actor: every hazard
listed needs at most two actors and one resource to show, plus a third to be in
the way. The operators named `..._bug` (and, in `MapCells` and `Instances`, those
whose comment begins with "Fault:") are plausible mistakes the properties are tested
against; no specification uses them.

## 3. Modules

### WorldLogin (with MCWorldLogin)

Threads are the socket workers and the world thread; `pc` says where in a handler
each is. A handler is cut where another thread can act between two accesses to
shared state. Mutexes are variables that hold their owner; all of them are
recursive in the code (`shared/Threading/Mutex.cpp`).

* `Accept`, `Drop`, `HandleAuthSession`, `SetRequest`, `SetPacket`: connection and
  `CMSG_AUTH_SESSION` up to the end of `_HandleAuthSession`. `ClientConnected` enters
  the request in `pending_logons` before `_HandleAuthSession` stores its number and
  the packet: both are steps of their own, because with several workers the answer
  or the disconnect can come in between. Nothing keeps a client from sending
  `CMSG_AUTH_SESSION` again, before or after it has been let in
  (`WorldSocket.cpp:605-609`): it does so up to `MaxRequests` times. Each request has a
  number, here `<<socket, n>>`; the newer one overwrites `mRequestID`, and `OnDisconnect`
  takes back that one only. A packet that is cut short (`WorldSocket.cpp:262-266`)
  makes no request, changes nothing and is not answered: it is no step.
* `HandleSessionInfo` to `EndCallback`: the logon server's answer, with `pendingLock`
  held throughout; `Kick` and `Kicked` for an account that is online,
  `CreateSession`, `Admit`, `AddQueuedSocket`, `MarkQueued`.
* `Authenticate`, `AddSession`, `AddGlobalSession`: shared by callbacks and the world
  thread.
* `UnlinkSession`, `CancelRequest`, `LeaveQueue`: `OnDisconnect` in its three parts.
* `UpdateQueuedSessions`, `PopQueue`, `LockSession`, `UnlockSession` and `StartPass`,
  `UpdateSession`, `PingTimedOut`, `EndPass`, `DeleteSessions`: the two passes of the
  world thread.
* `FreeSocket`, `LogoutDelayEnds`: time. The collector waits 15 s and the logout
  delay is 20 s, so a socket is freed only when no handler is in the middle of it and
  a logout delay ends after the collection. Without that assumption a handler
  that sleeps for 15 seconds would break every pointer in the code; with it, what
  is left are races of ordinary length.

`fault` records a bad access; the process does nothing after it. Sessions whose
player has entered a map are updated by the map's thread, which is the subject of
`MapThreads`; here the world thread updates all.

| run | instance | shows |
|---|---|---|
| `login_epoll` | 3 connections, 2 of one account, one of them sends `CMSG_AUTH_SESSION` twice; 1 worker, limit 1, queue timer of 2 loops, link up, broken or absent | `TypeOK`, `NoDanglingSession`; `NoStalePointer`: no freed socket in the login queue or, but for a request that a later one has overtaken, among the pending requests, none of them without its session; `UpdatedIsRegistered`: an updated session is the registered one of its account, but for an account that got two through the queue |
| `login_iocp` | 2 workers, limit 1, 3 accounts with a connection each | `PlayerLimitKept`: two threads pass the check together, and the limit is overshot by one player, never by two |
| `login_live` | 2 accounts, one of a GM, limit 1; the other's connection sends `CMSG_AUTH_SESSION` twice | `HandlersEnd` (but for the circle below), `EveryLoginAnswered`, `DeadSessionsDeleted`, `QueueMoves` |

Three connections are enough: one in the world, one being admitted, one in the
queue or of the same account. With epoll there is one worker
(`SocketMgrLinux.cpp`, `SpawnWorkerThreads`); two stand for IOCP, and there the two
workers, and the connections with their accounts, are interchangeable (symmetry; a
safety run).

What the code does not promise, and the properties therefore except by name:

* A session in the login queue is not seen by the callback's search for "another
  player on this account" (`WorldSocket.cpp:340`). An account whose client connects
  twice while its first session is queued gets into the world twice. The history
  `doubles` holds just these sessions; without it TLC finds
  `UpdatedIsRegistered` violated in `login_epoll`.
* A request that a later one of the same socket has overwritten in `mRequestID`
  stays in `pending_logons` when the socket closes (`WorldSocket.cpp:100-104`). When the
  answer comes after the collection, `HandleSessionInfo` follows the pointer: the fault
  `freed socket`. `PendingConnected`, a part of `NoStalePointer`, is about the last request a
  socket made before it was let in. The same overtaking makes the first answer fail the
  comparison of the numbers with `Authed` already set, and the later answer is not looked at:
  `EveryLoginAnswered` is about requests that are not overtaken.
* A client that sends `CMSG_AUTH_SESSION` again when it is in the world keeps
  `mRequestID`. If it is then silent, the world thread disconnects it under
  `SessionsMutex` and waits for `pendingLock`, while a callback that holds that one may
  wait for `SessionsMutex`: `Deadlocked`. The server does nothing more (`Dead`; `Next` lets it
  stutter there, so that TLC's check for deadlock shows that there is no other).

Variations in which TLC finds a violation:

* `World::UpdateQueuedSessions` (`World.cpp:1112`) takes a socket's session pointer
  while `OnDisconnect` is clearing it, and follows it.
* With `Workers = {w1, w2}` and a limit of 1 `QueueConnected`, a part of
  `NoStalePointer`, is violated: the callback sets `mQueued` only after
  `AddQueuedSocket` has returned (`WorldSocket.cpp:440-441`), so a disconnect in
  between leaves the socket in `mQueuedSessions`.

Fairness: every worker is scheduled and gets a mutex it waits for in the end
(strong fairness; the world thread sleeps between two loops, so it is not holding
its locks for ever); the world thread runs; the logon server answers requests it
received; collection and logout delays end. Clients are under no obligation: they
may connect, send or leave, or never do.

### ThreadPool (with MCThreadPool)

Each operation of the pool runs under `_mutex` and is one action (`ExecuteTask`,
`ThreadExit`, `IntegrityCheck`, `Shutdown`, one turn of its waiting loop
`AwaitThreads`). `thread_proc` between two operations is not protected and is cut
into `CheckTarget`, `CallRun`, `RunEnds`, `ClearTarget`, `Suspend`, `WakeUp`. `Threads`
are addresses (numbers, because a `std::set<Thread*>` is walked in their order), and
an address can be used again after its thread was deleted. `Counting` chooses the
controller: a semaphore remembers a `Resume` that comes early, `ResumeThread` does
not. `RunEnds` may happen at any time; under fairness it must once `OnShutdown` was
called.

Run `pool`: 3 threads, 2 tasks, 1 integrity check, tasks during shutdown. `TypeOK`
(no token is taken that is not there), `NoDanglingThread`, `TasksKept` (a task stays
with its thread until it runs, and who runs one is active), `TasksStart`,
`KnownThreadsEnd` (`Shutdown` ends when the pool knew all threads as it began). The two
about tasks are said as long as no integrity check was made. `MaxChecks` bounds the checks,
`MaxPosts` the resumes that `Shutdown`'s once-a-second loop can pile up on a thread that
does not run: enough for a token to be left over and taken by the wrong thread.

Variations in which TLC finds a violation:

* after an integrity check `TasksKept`: a thread `KillFreeThreads` has marked to die is
  still handed a task, and takes it along;
* with `Counting = FALSE` (Windows) `TasksStart`: `ThreadExit` puts a thread into the free
  pool before it calls `SuspendThread`, and a `ResumeThread` in between does nothing
  (`Shutdown` knows the race and resumes free threads again, lines 241-242, but a
  thread with a task is active);
* `ShutdownEnds` without the premise of `KnownThreadsEnd`, on both controllers: a thread
  `StartThread(NULL)` has started is in neither set until its first `ThreadExit` and
  takes the exit token of another.

Fairness: threads are scheduled, a task that was told to stop ends, the main thread
goes on with its loop.

### Database, WriteQueue

`Execute`, `WaitExecute`, `AddQueryBuffer` are called by clients and the main thread;
the execute thread runs `Take`, `SendQuery`, `FindNone`, `Drain`, `Finish`; the query thread
takes buffers and sends them as a transaction statement by statement
(`Begin`, `SendStatement`, `Commit`). Each of these may fail, as `_SendQuery` does: the database
refuses a statement, or the connection breaks, which rolls back its transaction (`Break`); then
`_SendQuery` connects again and repeats the statement, outside of a transaction now, or gives up.
`PerformQueryBuffer` goes on in any case and sends `COMMIT`. `Busy` is the connection pool: `GetFreeConnection` spins over
`AttemptAcquire`, which `Connect` abstracts to waiting for any free one. `EndThreads` is
modelled with its spinning loops item by item (`SpinBuffers`, `SpinQueries`,
`PushBack`, `Join`). The check for an empty queue and the pop of `run` are one step:
only the execute thread and `EndThreads` pop, and `pop` returns NULL on an empty queue,
which the code treats like finding none.

`WriteQueue` is what callers of `Execute` may count on: a query accepted is applied
once, in the order of acceptance until the database closes. `Promised` states that
`Database` implements it, with the histories `submitted` and `executed` as the
abstract queue.

Run `db`: two callers (a client and the main thread), 2 connections, 2 queries, 1
buffer, `EndThreads` at any moment and callers that go on. `ConnectionsHeld`: a
connection is held by one thread, which knows it; `ItemsKept`: every item is in one
place and runs once; `BufferAtomic`: of a buffer whose transaction was not lost
on the way all is saved that was not refused, or nothing; `Promised`; `EveryItemRuns` until the server shuts
down; `EndThreadsReturns`. Two connections are the tight case: the query thread
keeps one from its start to its end. A buffer has two statements: the smallest
number that can be torn. One buffer is enough for the run, since buffers meet
nobody but other statements on their connection; the theorem covers any number.
The workload is finite (each query and buffer is submitted once), so the system may
stop and deadlock is not checked; `EveryItemRuns` says that it stops only when all is
done.

That `EndThreads` leaves nothing in the queues, as its caller's comment
(`Master.cpp:501`) has it, is not the case: callers that still push after it has
returned, or while it spins, leave items in a queue nobody reads (TLC, with the
property that nothing is lost). That a buffer is saved as a whole or not at all, come what
may, is not the case either: `PerformQueryBuffer` ignores what `_SendQuery` returns
(`Database.cpp:193`), so a refused statement is missing from what is committed, and after a
reconnection in the middle of a buffer (`MySQLDatabase.cpp:151`) its first part is lost and the rest
saved alone. The histories `refused` and `broken` name just these two cases, and `BufferAtomic`
excepts no other. `MaxFailures` (1 in the run) bounds the failures, so each of them meets every
interleaving; the theorem bounds them by nothing but a number. `WaitExecute` ("Wait till the other queries are done, then execute",
`Database.cpp:238`) does not wait: `WriteQueue` has an action `ApplyNow` that is not
ordered with what was accepted.

Fairness: threads are scheduled; who spins for a connection that becomes free again
and again gets one; the database threads, which wake every 10 ms, are not
systematically asleep while an item is in the queue during `EndThreads`.

### LogonLink

One world server and the logon server. The world server's watcher thread opens a
connection (`ConnectAll`, `Reconnect`), proves the password (`SendChallenge`,
`Authenticated`), registers its realms in some order, waits for the acknowledgement
(`RegistrationDone`) or gives up (`ConnectFails`), and drops a link that is closed or
answers no ping (`DropLink`). Its socket worker handles what comes back
(`HandleAuthResponse`, `HandleRegistered`, `AdditionAck`) and learns of closed connections
(`WorldNotices`), for which it waits for `mapLock` (`ConnectionDropped`), which the watcher
holds while it waits for an answer. The logon server's handlers are
`HandleAuthChallenge`, `HandleRegister`, `HandleInvalid`, `LogonNotices`, `TimeoutSocket`.

`Faults` bounds what goes wrong: `Break` (a connection dies without a word),
`LogonCrashes` and `LogonStarts` (perhaps with another password), `WorldCrashes`, an answer
that comes too late, and `EarlyRequest`, a client's request that overtakes the
challenge because the socket is in `logons` before it has sent it.

Run `link`: 3 connections, 2 realms, 2 faults. `RealmList`: the list has every realm
once, online exactly while the socket that registered it is connected;
`NoForgottenConnection`: the end of an old connection never clears the entry of the
new one; `LinkRestored`: after the last fault the link comes back for good, unless the
logon server has the wrong password. Two faults are enough for one to hit the
recovery from another, and three connections for one to be dying at each end while
the third is new.

Assumed: one logon server; pings are on (the system at rest would exchange them, so
deadlock is not checked); one socket worker on each side (epoll); the world server's
address is allowed; a wait runs out only when no answer can come, or as a fault; what
the world server sent on a connection it has closed is handled before what it sends on
the next. Without the last (`Overtaking = TRUE`) `LinkRestored` is violated: a late
registration of the old connection removes the realm the new one has registered
(`LogonCommServer.cpp:185`), and nobody registers it again.

Fairness: both threads of the world server and the logon server's sockets go on; a
logon server that crashed is started again; the watcher sleeps 5 seconds between two
attempts without `mapLock`, so `ConnectionDropped` gets it (strong fairness).

Not modelled: session requests (they are in `WorldLogin`), population, account mapping,
the SQL command, `CheckServers`, shutdown.

### MapThreads (with MCMapThreads)

`instanceId` says which thread updates a session: the world thread while the player is
in no map, the map's thread otherwise. The world thread's pass (`BeginPass`,
`UpdateSession`, `Logout`, `DropSession`, `EndPass`) holds `SessionsMutex` throughout. The
client's answer to a teleport makes it add the player to a map: `HandleWorldportAck`
(`AddToWorld` up to `MapMgr::AddObject`), `AddObject` (needs `m_objectinsertlock`), `SetInstance`
(after it, when the map's thread may already have pushed the player and even put him out
again). A map's thread pushes who is in its insert pool (`BeginLoop`, `Push`, `EndPush`),
runs events that teleport (`TeleportPlayer`), updates sessions with handlers that teleport
(`HandleTeleport`), and ends (`EjectPlayer`, `DeleteMap`). A player is taken out of a map in two
steps, because `AddGlobalSession` in between waits for `SessionsMutex`: `TakeOut` within
these actions, and `GiveBack`. `Disconnect` happens at any time and `Terminate` is the world
thread's `InstanceShutdown`.

Run `maps`: 2 sessions, one logging in on the continent and one in an instance, and the world thread, 2 teleports.
`Served`: the thread a session's instance id names has it in its list, or will after a
step that is under way; `InPlace`: a player is in the pool or the storage of at most the
map he points at, and his session is updated by no thread but that map's;
`SessionsEnd`: a session whose client has gone is logged out and deleted, wherever its
player was on his way to. Each says what becomes of a map's end, which comes at any moment: "Teleport any left-over players out"
(`MapMgr.cpp:1275`) does not look into the insert pool, nor does it see who still finds the map and is about to be put there. Such a
player (`Stranded`) points at a map that is gone and no thread has his session. `Served` and
`SessionsEnd` hold for everybody else, and `InPlace` says that nobody else is left behind (`NobodyLeftBehind`). A teleport away and one back make every combination of a
player who returns to a thread that has not yet forgotten him; the second session is
the one whose pass is under way.

Assumed:

* A client takes longer to load a map, and a logout longer to be due, than a map's loop
  takes (`Alone`): so the old map's thread has dropped a session before the new one gets it.
  The code has no other protection here.
* The logout timer runs out before the session's next update.
* `Player::AddToWorld`'s test and use of `m_mapMgr` (`Player.cpp:3790`, `3799`) are one step, and so
  are the end of a teleport and `AddGlobalSession`; a map that ended is not started again
  under the same id.
* `AddObject` of a player to a map that has been deleted writes to freed memory; in the model it leaves no
  trace. If it stops the server instead, nothing ends any more.

Fairness: every thread goes on with its loop; who waits for one of the two locks gets it
in the end, since its holder sleeps between two loops. The run is finite (teleports are
counted), so deadlock is not checked.

Not modelled: pushing a position out of bounds back (`MapMgr.cpp:216`, which takes the
insert lock again and changes the pool while it is walked), logout to the
character screen, objects other than players (they are in `MapCells`).

### Events (with MCEvents)

Objects keep events, a holder per map and one of the world thread keep lists of them.
`AddEvent` and `HolderAddEvent` are the two halves of adding one: `event_AddEvent` releases the
object's lock before it calls the holder. `RemoveEvent` is `event_RemoveEvents`, `DeleteObject` the
destructor; `AddToWorld`, `PushToWorld`, `RemoveFromWorld`, `LeaveWorldHolder` are where
`event_Relocate` is called; `BeginUpdate`, `DropEntry`, `LetWait`, `Start`, `FinishLast`, `FinishAgain`,
`EndUpdate` are `EventableObjectHolder::Update` entry by entry, with callbacks that may do all of
the above to their object; a map's end takes its holder with it. A holder whose thread is at
work is entered through `m_insertPool` (`Enter`).

Run `events`: one object with a repeating event and a one-shot that must run in a map, two
maps and the world thread, 2 entries into maps. `References`: reference counts are
the number of lists an event is in, no object points at a holder that is gone;
`EventsFollow`: while an object is in a map, the map's holder has each of its events;
`RunsAllowed`: no callback starts after its event was removed or its object deleted, none
that is flagged starts in the world thread, and a one-shot starts once; `EventsRun`: an
event of an object in a map runs again and again. One object is enough: objects share
nothing but the holders' lists, whose other entries only take time. Two entries make
an object return to a map that still has its old entries.

Assumed: a callback that outlasts its object's entry into a map leaves the object alone
from then on; while one thread is between `event_AddEvent` and `AddEvent` with an event of an object
nobody else adds, removes, relocates or deletes, but for the map that pushes the object (`NotAdding`;
without it a second thread could reset `m_holder`, which `event_AddEvent` reads again after it has
released the lock); an object waiting to be pushed gets no new event if it has old ones. Without the last
(`EarlyAdds = TRUE`) `EventsFollow` is violated: the new event attaches the object to the
map's holder too early, and `PushToWorld`'s `event_Relocate` sees nothing to do
(`EventableObject.cpp:54`). `EVENT_FLAG_DELETES_OBJECT` only moves the erasure before the call;
`event_ModifyTime` and its relatives are not modelled. (A comment, `Object.cpp:2040`, says that
the id of an object outside the world is -1; it is `INSTANCEID_NOT_IN_WORLD`, 0, for which the
world holder is found only by the fallback in `AddEvent`.)

Fairness: each holder is updated for ever, and `PushToWorld` happens. Objects may stop
moving and events be used up, so deadlock is not checked.

### Instances (with MCInstances)

All instances of one map, of a kind: a dungeon without difficulties ("nonraid"), with
("normal"), a raid with bosses that make it persistent ("raid"), one that is persistent
from its creation ("raidAtOnce"). `Find`, `Create`, `Check` are `PreTeleport`, cut where it
releases `m_mapLock` and goes on with what it found; `GetInstance`, `NoInstance`, `AddToWorld` the end of the
teleport; `Push`, `LeaveMap`, `LogoutPlayer`, `FullLogin`, `Summon` a player's comings and goings;
`BossDies` makes a raid persistent and saves the players to it; `EndLoop`, `TeleportPlayers`,
`ReadInstance`, `UnlinkInstance`, `DropInstance`, `DeleteMap` are the end of a manager's thread, which reads
the instance without the lock; `Expire`, `CheckForExpiredInstances`, `ResetSavedInstances`, `Disband`
delete instances; `NewGroup`, `AddMember`, `RemovePlayer` change groups. A use of freed memory sets
`fault`, which ends the process.

Run `instances`: 2 travellers and a third player in their groups, 2 managers, all four
kinds, one instance and two groups (two instances and one group for "raidAtOnce").
`Consistent`: a registered instance and its manager know each other; `IdleManagersEnd`: no order
of comings, goings, expirations and resets leaves a thread running that nobody is in or
whose instance is gone; `GroupsApart`: in a dungeon, players of different groups are not
together without having been told to leave; `PersistentKept`: no step deletes a persistent
instance before its time. Travellers and managers are interchangeable. Ids are handed
out up to a bound, so deadlock is not checked; an id is enough for two managers in turn, and
"raidAtOnce" has two because there the choice between instances matters most.

Run `instances_saved` expects a violation: `PreTeleport` says "If we have it saved to the player then
use that" (`WorldCreator.cpp:371`) and notes the choice in the player's instance id, which
`RemoveFromWorld` (`Object.cpp:1046`) resets on his way, so `GetInstance` decides anew: a player
saved to one raid can be put into a fresh one his group owns.

`GroupsApart` is not said of raids, where TLC finds it violated with three players:
`AddToWorld` (`Object.cpp:936`) lets a group in while a player of another is still in the insert
pool. Another observation: `ResetSavedInstances` deletes any instance that belongs to no group
and can be reset, whoever made it.

Assumed: one difficulty; groups are raid groups; refusals that depend on combat or
numbers are nondeterministic; the eject event is the flag `told`; `TakeGroupLeaderID` is on; the
bool assignment of `SetPersistentInstanceId` has no effect, as in the code; the world thread adds
one player at a time. Not modelled: the GM flag and commands, battlegrounds,
`SafeDeleteInstance`, the database and restarts.

### SocketSend, CircularBuffer, ByteStream (with MCSocketSend)

`OutPacket`, `BurstSend`, `NoRoom`, `BurstPush`, `Enqueue` are a thread that sends a packet,
`UpdateQueuedPackets` the session's thread that sends what had to wait; `WriteCallback`,
`ReadCallback`, `PostWrite` the epoll worker; `Receive` the client. `m_writeMutex` is held from `BurstSend`
to `BurstPush`; the worker's look at the buffer after a read takes no lock. `armed`, `ready` and
`nospace` are what an edge-triggered epoll keeps of a socket. `CircularBuffer` is the two-region
buffer as a record with `Written`, `Removed`, `Prepared` (`AllocateB`) and `Space`.

Run `sock`: 2 senders, 5 packets of 1 to 4 bytes, 5 bytes of buffer and 2 of kernel
space. `BufferServed`: the regions never overlap, bytes that wait are registered for
`EPOLLOUT`; `StreamSpec`: `SocketSend` implements `ByteStream`, whose client receives a
prefix of whole packets, each once; `Flows`: everything sent arrives as long as no bytes
are put in region B. Packets fill the buffer alone or together, so that all ways through
it and the overflow queue happen.

`Flows` has its premise because without it TLC finds a packet that is never sent:
`WriteCallback` sends region A only, the socket stays writable, and an edge-triggered epoll
reports nothing more ("we don't have to do anything here. no more oneshots",
`SocketMgrLinux.cpp:168`; `SocketLinux.cpp:60`). `ByteStream` says nothing of the order of
packets: one sent directly overtakes those in the overflow queue.

Assumed: the connection stays up; a header is one byte; a worker that sends is one of the
senders; the kernel keeps its promises for stream sockets and epoll. Fairness: senders
and `WriteCallback`, which wait for a mutex held for a few instructions, strongly; the
session's update and the client's reading weakly. All packets are sent once, so deadlock
is not checked. The receiving side, Win32 and FreeBSD are not modelled.

### MapCells (with MCMapCells)

The map's thread alone does all this: a handler is one action, composed of operators
from one state of the map to the next, as the code calls them. `PushPlayer`, `RemovePlayer`,
`ChangePlayerLocation`, `ChangeCreatureLocation`, `PushCorpse`, `CorpseGoneIdle`,
`UpdateInRangeSet`, `UpdateCellActivity`, `LoadObjects`, `UnloadCell`, `DespawnCreature`,
`EventRespawnCreature` are named after their functions. `map.events` are the map's queued events, which
are handled at any moment.

Run `cells`: a row of 4 cells, 2 players who move any distance, a corpse, a spawn that stays and may be killed for good (`Mortal`),
one that walks, a forced cell, at most one respawn event queued (`Respawns`; the event may be one
that outlived its creature). `InRangeSetsMatch`: in-range sets are mutual, hold nobody too far or gone, and
miss nobody near; `CellsMatchPlayers`: active cells are those next to a player or a forced
cell, creatures are updated just when their cell is active, idle cells wait to be
unloaded with the event queued; `SpawnedOnce`: a spawn that stays in its cell has one
creature while the cell is loaded and none otherwise. Four cells are the smallest
row in which a player leaps out of the surroundings of where he was.

Not every creature comes back. One without a respawn time, a raid boss and one with `m_noRespawn` are
deleted (`DeleteCreature`: `Creature.cpp:303`, `789`, `1860`); `OnRespawn` takes a creature whose boss is dead
out of `_respawnObjects` and then returns (`back` in `EventRespawnCreature`); `LoadObjects` skips what the instance
keeps as killed (`Bar`, `barred`), and so also what fails to load. `gone`, which no code reads, names these spawns until
their cell is unloaded: `SpawnedOnce` says that they have no creature, and that nothing else is without one.

After a move by exactly two cells the code leaves cells running for nobody: the update around the new cell
does not reach all that the old one kept active, and the second update is made for more than 2 cells only
(`MapMgr.cpp:706`, `713`), though the comments there (`704`-`705`, `712`) say that both cells are covered. `left`, which
no code reads, names these cells, and `CellsMatchPlayers` says that no other cell runs for nobody and that
these stop when an update comes within two cells of them; without `left` TLC shows the move that breaks it. `SpawnedOnce` is not said of walking creatures: one that has walked
to another cell is loaded a second time when its own was unloaded meanwhile (`MapCell.cpp:173`).

Assumed: the grid is cut down to one row, since the code treats both axes alike;
positions keep clear of the last two columns of the grid (`endX` is off by one there); every
move calls `ChangeObjectLocation`; memory of a deleted creature is used again for the next of its
spawn (`Copies`, `HasRoom`), so that a stale event can find the wrong one. Not modelled:
transports, pets, game objects, farsight, battleground maps, shutdown, `LoadAllCells`.

## 4. Proofs

What TLC finds on an instance is proved for every value of the constants, from the
assumptions named in the modules (`LoginAssumption`, `PoolAssumption`,
`DatabaseAssumption`, `InstancesAssumption`, `LinkAssumption`, `SendAssumption`, `MapsAssumption`,
`CellsAssumption`: kinds of the constants, distinct threads, finite sets of accounts, threads,
connections and realms; `BoundAssumption`: how often a connection asks is a number). `CellsAssumption` also says that a spawn lies on the map and on its own path
(`Map.cpp:150` indexes `spawns` with its cell) and that players, corpses and creatures are different
objects, as their GUID types are. A theorem that needs more states it as its hypothesis.

`WorldLogin_proofs`. `TypeCorrectness` and `RegistrySafety`
(`Spec => []NoDanglingSession`) follow from the inductive invariant `IInv`:

* `TypeOK`, and `CursorsSet`: a thread at a step that reads its cursor has one.
* `CallbacksExclude`: whoever is between the answer and the end of its callback holds
  `pendingLock`, so at most one worker is; `CallbacksAlone` states this by itself.
* `OneWayIn`: a session that is queued or being let in is alive and not yet in the
  world, it is queued once, and two threads are never letting in the same one.
  This is what excludes that `AddSession` or `AddGlobalSession` enter a session the
  world thread has already deleted.
* `Bookkeeping`: the sessions a pass has still to visit are in the update set, those
  it will delete are not; an account is registered with a session of its own; and
  once `EndPass` is over no account is registered with one that will be deleted.
* `NoDanglingSession`.

`NoDanglingSession` is not inductive alone: `DeleteSessions` frees sessions whose
entries `EndPass` has removed under another lock, and a callback could enter one in
between. `OneWayIn` with `CallbacksExclude` shows that the entry is made exactly once,
before the session can be in a pass. There is one lemma per action group, and under
it one step per conjunct the action can disturb.

`LimitSafety` (`PlayerLimitKept`), for any limit and any number of workers, joins `LimitInv` to
`IInv`: while one thread is past the check of the limit and has not registered yet (`PastCheck`), at
most `PlayerLimit` players are registered, and while both that can be are (one worker, as callbacks
exclude each other, and the world thread), at most `PlayerLimit - 1`. So the bound of one beyond
the limit is the number of threads that can be past the check, less one. Accounts of GMs do not count. With limit 0 nobody else is ever
past the check. `SecondLoginFindsFirst` (`UpdatedIsRegistered`), for every limit, joins `UInv`: of two
sessions of one account that are on their way in, in the world or on their way out (`Active`) each is in
`doubles`; and one that has been put in the registry (`Placed`) is still what the registry has for its account,
or in `doubles`. A session comes to its account only in `Callback`, which has just found the account not
registered, so whoever else is active then is in the queue, or on his way from there to the registry, or in
`doubles` already. Hence what `EndPass` erases from the registry is never the entry of another session of the
account.

`PointerSafety` (`NoStalePointer`) and `NoFreedSocketUsed` are proved for one socket worker, which is
what `SocketMgrLinux` spawns; with two the property is false (section 3), because a socket can be
closed between `AddQueuedSocket` and `mQueued`. The invariant `PInv` is about what happens between a
socket's `Disconnect` and its collection, which two threads may share:

* `ClosedOnce`: a closing socket is in the hands of one thread that runs its `OnDisconnect`, and it has
  lost its session's pointer and its request when that thread comes to the login queue.
* `Served` and `TimedOut`: nobody closes the socket a callback is about; the world thread closes only sockets
  of sessions in its update set.
* `Pointers`: a socket that points to a session is open or about to be unlinked, and the session is alive
  and not to be deleted; it points back, or will be unlinked by the worker before its logout delay ends. So
  `DeleteSessions` leaves no pointer behind.
* `Requests` and `QueueMarked`: the last pending request of a socket that is not yet let in is known to it, or the
  worker has yet to write the number down; earlier ones are left behind. A queued socket has `mQueued`, or the worker has yet to set it. So `CancelRequest`
  misses what was overtaken only, and `LeaveQueue` nothing. `NoFreedSocketUsed` says what that means: where no
  client sends `CMSG_AUTH_SESSION` twice, nobody follows a pointer to a freed socket.

`NoWaitingInACircle` is about deadlock, for any number of workers. `Waits` says who may wait for whom: for
`pendingLock`, `queueMutex`, `SessionsMutex` or a session's `deleteMutex`. The code has no lock order: a
callback takes `deleteMutex` under `pendingLock` and then `queueMutex` or `SessionsMutex`; the world
thread holds the latter two while it wants a `deleteMutex`; and `OnDisconnect`, which either runs in the
midst of those, wants `pendingLock` and `queueMutex`. One circle closes, `Deadlocked`, and no other:
`HandlerLocks` says that whoever holds a `deleteMutex` is letting its session in under `pendingLock`; `OneWayIn`
that the world thread wants the mutex of no session that somebody else has still to let in. So whom it waits
for is past its last mutex, or refuses a client who was never queued (`MarkedOnce`). It waits for `pendingLock`
only when it closes a socket that has a request, and as the sockets it closes have sessions (`WorldCloses`),
that is one made by a socket already let in (`Once`): more than one request, and `SessionsMutex` held. In every other
state no thread waits for one who waits for one who waits (`ChainsEnd`). That a thread who waits for nobody can
step is not part of the theorem: it needs `ENABLED`, and TLC checks it as `HandlersEnd`.

`ThreadPool_proofs`. `TypeCorrectness` and `DanglingFreedom` follow from an
invariant with two parts beside those properties. `UnmarkedQuiet`: before `Shutdown`, a
thread nobody has marked is awake and outside the free pool, or suspended with at
most the one wake-up its task came with; so only a marked thread, which takes itself
out of the free pool, can reach `ThreadExit` while in it. `TokensSpent`: after it, an
unmarked thread enters the free pool only when no exit token is left. Without them a
thread could delete itself and stay in the free pool. `TypeOK` includes that
`_threadsToExit` never goes below zero, which is about the counting of tokens.
`NoTaskLost` (`TasksKept`) adds `GivenAwaits`: while no check has been made, an active thread that has not
begun a task holds each given one, and it is not past the point where `thread_proc` reads its target. For
that `HoldersActive` says that before `Shutdown` a thread that exits has no target, and `Submitted` that
a target is a task somebody submitted; `UnmarkedQuiet` gives that a free thread is suspended,
so what `ExecuteTask` writes into `ExecutionTarget` is not cleared by a thread on its way out.

`Database_proofs`. `TypeCorrectness`, `ConnectionSafety` (`ConnectionsHeld`) and
`Atomicity` (`BufferAtomic`). `Connected` says that a thread
that waits for a connection has none, without which `Connect` would forget one;
`Progress` and `HandsFull` tie what a thread has sent and holds to where it is. The
steps that only hand items around are one lemma, the others have one each. `Atomicity` rests
on `Atomic`, which is inductive once the items are known to be in one place: an open transaction is what its
connection's holder has sent of the buffer in its hands without what was refused
(`OpenTransactions`), and nothing of a buffer is stored before its commit unless it broke (`Unstored`).
So the implicit commit of `START TRANSACTION` finds nothing to commit, and `COMMIT` commits
what was not refused of a whole buffer, or nothing.

Its second part: `Conservation` (`ItemsKept`) and `PromiseKept` (`Promised`): the
refinement of `WriteQueue` holds for any number of callers, connections and items, not
on the small instance alone. `Effect` sorts all steps by what they do with the items: a
call, a push, a push back, a pop, a run, or nothing. For each there is a lemma that
moves one item from one place to another and leaves `OnePlace` true. The order needs
`SubmittedStay`, that a submitted query that has not run is in its queue or in the hands of
one of the two threads that pop it, and `InOrder`, that until `EndThreads` begins the queue is the
tail of what has been submitted and all before it has run, but for the one query the
execute thread has in hand. So what that thread runs is the first that waits
(`Apply`), what another thread runs has never been accepted (`ApplyNow`), and during the shutdown
it may be any that waits (`ApplyClosing`).

`Instances_proofs`. `RegistryConsistency` (`Consistent`), `IdleEnd` (`IdleManagersEnd`) and
`Persistence` (`PersistentKept`) follow from an inductive invariant of three parts: `TypeOK`;
`PlayersPlaced`, that a player is in the pool or storage only of the manager he points at;
and `Agree`, the conjunction of

* `EachOthers`, that a registered instance and its manager point at each other;
* `IdleManagersEnd` itself;
* `ForcedAreInactive` and `DeletedAreTold`: a manager that `forced_expire` was set for has its
  `InactiveMoveTime`, and one whose instance was deleted has been told to end or is
  forced. `Push` clears `InactiveMoveTime` only of a manager that is not forced, so without these
  two a player who comes late could keep a manager without an instance alive;
* `KindsKept`: only raids are persistent, and only dungeons without difficulties drop
  their instance with the manager. So `DropInstance` deletes no persistent one.

`PersistentKept` is an action property and needs the invariant only for `DropInstance` and
the resets. Most steps change one instance and one manager: the lemmas `RegistryStep`
and `StepOn` say once what such a step must show, and the step lemmas cite them.

`DungeonPrivacy` (`GroupsApart`) adds `Separate`. Its heart is `OwnersInside`: in a dungeon whoever is
inside is the player who made the instance, or is in the group it belongs to, or has been told to go. That
is inductive because the owner of a dungeon's instance hardly ever changes: it has one from the start
(`OwnersKnown`), whoever is let in is of the owning group, only a player who made it alone hands it to a group
(`NewGroup`), when nobody else is inside, and only a persistent instance is free again when the last player
in storage leaves. For raids, where the property is false, that happens while others wait in the insert pool.
`IdsKnown` ties the instance id of those inside to their manager, and `Works` says
that a manager that has let go of its instance has thrown its players out. What a step may change is split
into `ManagersStay`, `PlayersStay`, `OwnersStay` and `GroupsStay`, with lemmas for each.

`Map_proofs`, first part, `MapCells`. The operations are operators from one state of the map to the next and call each
other as the functions do, so the invariant is one of a state, and each operator has a lemma that says what
it keeps. A handler is in the middle of things between two calls; the invariant is therefore in three
layers. `Standing` is what every operation keeps: types, `Placed` (whatever is in use exists), `OnceDead` (a
creature is in the world or waits, in one cell), `RangeSound` (in-range sets are mutual and hold nobody
gone or too far), `AwakeInActive` and `IdlePending` (idle cells wait to be unloaded, with the event
queued). `Sound` adds `SpawnsOnce`, which fails while a creature is being put into its cell.
`Whole`, which every handler keeps, adds `RangeComplete` (nobody near is missed; in a handler: but for those
who have just come or moved) and `NobodyFrozen` (every cell near a player is active). From `Whole`:
`InRangeSafety` (`InRangeSetsMatch`), `SpawnSafety` (`SpawnedOnce`) and `NeverFrozen`. `SpawnsOnce` also says
that whoever waits to come back has his event queued in his cell, and that nobody of an unloaded cell is
left: that is why an event that outlives its cell finds nobody to bring back, even when the memory is used
again; of a spawn that is dead for good it says that there is none. The other half of `CellsMatchPlayers`, that a cell
is active for nobody only in `left`, is `RunsForSome`, which `IInv` adds to `Whole`: what the old cell kept
active is within reach of the update around the new one or of a second one, unless the distance is two
(`MapMgr.cpp:713`). From both `ActivitySafety`, for moves of any distance. What goes wrong at a distance of two is a cell
that runs for nobody, never one that is frozen: `NeverFrozen` needs `Whole` alone.

`Map_proofs`, second part, `Events`. `ReferencesCounted` (`References`), `CallbacksAllowed` (`RunsAllowed`) and,
from `EarlyAdds = FALSE`, `EventsGoAlong` (`EventsFollow`), for any number of objects, events, maps and changes of
maps. None of the three is inductive: they say what holds when a callback starts or an object is in a map, and
what makes it hold was done by other threads long before. `EventsInv` adds:

* `HolderRight`: an object's holder is that of its map once it is in; before, that of the map it is about to enter, of
  the world, or none. So no object keeps the holder of a map that has ended.
* `Homes` and `Entered`: an event that is not removed either has no holder (`instanceId` 0) or has its object's, and
  that holder has it in its list or its pool, or `adding` is about to bring it. Entries left in former holders' lists
  matter to neither, so it makes no difference how many there are. Every step of `event_Relocate` keeps both;
  `BeginUpdate` must not lose what waits in the pool, nor `DropEntry` what is at home.
* `AllMoved`: an object that has a map's holder has no live event elsewhere; `EarlyAdds` is what breaks it.
* `AddingRight`: one event of an object at a time is between the two halves of adding, and its object has a holder; this
  is where the assumption `NotAdding` is used.
* `RunInPlace` and `RanOnce`: a map's thread executes callbacks of objects in that map or out of world since, the world
  thread none that is flagged, and a one-shot that was started is being executed or marked. Together with `Homes` they
  exclude a second start by another holder while the first callback runs.
* `Counted`: `ref` is the object's pointer plus the entries in all lists and pools, which are finitely many.
* `Fresh`, `Owned`, `Running`: an event nobody has added is nowhere; events are their objects'; an update's cursor is on
  the event it executes, though callbacks append to the list it walks.

Counting needs facts about sequences: what `SetToSeq` enters is there once (`SetToSeqFacts`), concatenation adds and
`RemoveAt` takes out one (`CountConcat`, `RemoveAtFacts`), `At`, which picks places in their order, has what is at
those places (`AtFacts`), and a change of one holder's sequence changes the entries by the difference
(`EntriesChange`). They are proved with bijections between sets of places, without induction; that is why
`Events` picks places rather than filters recursively.

`LogonLink_proofs`. `RealmsRight` (`RealmList`) and `ConnectionsKnown`
(`NoForgottenConnection`), whether or not requests overtake a challenge (`Overtaking`). The
inductive invariant adds three facts to the properties. `OwnIds`: an id is registered by one
connection, so a socket that ends, or registers late, changes no realm that another one has
taken over under a new id. `OneOpen`: the world server has at most the connection it knows
open, during an attempt the attempt's. `DropsOld`: while the worker waits to forget a
connection, none other is open but one whose attempt cannot get on, because the one worker
that would handle its answer is the one that waits. So `ConnectionDropped` never clears the
entry of a new link that is up, though it looks for the server's id and not for the socket.

`SocketSend_proofs`. `BufferSafety` (`BufferServed`) and `StreamKept` (`StreamSpec`), for any
number of senders and packets and any size of packets and buffers. Four lemmas say what
the operators of `CircularBuffer` do to a buffer whose regions lie right: `PreparedKeeps`
(`AllocateB` changes no byte and no answer of `GetSpace`), `WrittenFits` (what there is space for goes
behind what is there and leaves as much less space, at least), `RemovedKeeps` (what is cut off
and what is left are what was there), `PacketBytes`. So the two writes of a header and the rest both
fit where `GetSpace` had room for their sum. `Registration` strengthens `PendingIsRegistered`: whenever
nobody holds the mutex, an asked-for `EPOLLOUT`, or a worker about to ask, means `m_writeLock` is set;
hence the worker that looks without a lock asks only while a sender is between its write and its push.
`OnceEach` is what the refinement needs: a packet is in one thread's hands, or waits in the
queue once, or has been put on the connection; only the queue's first can be both, between
`BurstSend` and `BurstPush` of whoever holds the queue's lock. So `BurstSend` is `Put` of a packet that has not
been put, `Receive` is `Receive`, and all other steps leave the stream as it is.

`MapThreads_proofs`. `PlayersInPlace` (`InPlace`) and `SessionsServed` (`Served`), for any number of
sessions, maps and teleports, with maps that end at any moment. The
invariant joins both properties with what ties the lists together:

* `Instanced`: the instance id names the player's map, except while the world thread is between
  `HandleWorldportAck` and `SetInstance` for just this player. `HandledInPlace` is its consequence.
* `MapsOwn` and `PlayersFound`: pools and storages hold the players of their map, a player of a map is
  in one of them or about to be, and a session whose player is in the storage is in the map's list.
  So emptying the pool (`EndPush`) loses nobody, and deleting the map (`DeleteMap`) only who is in its pool or
  about to be: with `Ends` (a map that has ended has nothing left) the ones who are `Stranded`.
* `OnTheWay`: while a player is on his way no map has his session, so who is stranded is in no list at all.
* `BetweenMaps`: who has been taken out and not given back is in no map, and nobody is pushed
  before `AddObject` is done. So two map threads never give back the same session.
* `Living` and `Shapes`: who is in a list, a map or a handler exists, and a thread has a session in
  hand just where its program counter says so.

Steps that move no session are covered by one lemma (`Stay`), the three ways out of a map by
another (`TakeOutStep`).

Only model-checked:

* all liveness (`HandlersEnd`, `Flows`, `SessionsEnd`, `EventsRun` and others) and what needs `ENABLED`: TLAPS
  proves neither here.

Every invariant and action property that a passing run checks is stated by a theorem.

## 5. Not modelled

The models are the concurrent core: where threads and programs act on the same
state, or a long sequence of one thread's steps must keep several structures in
line. By number of lines that is a small part of the repository, whose bulk is game
content and data (`SpellNameHashes.h`, `Player`, `Unit`, `Spell` and its effects,
scripts, tools, vendored libraries). Those files are tables and rules with no protocol in
them: a model of them would be a transliteration that no property tells apart
from its source.

* Authentication cryptography, terrain, collision: arithmetic and geometry over data.
* Configuration, logging, console, crash handling, loading of tables: I/O without a
  protocol.
* Locks and condition variables: wrappers; the modules use their documented meaning.
* Game clients at the logon server: one socket, one worker, question and answer.
* Trade, duel and summon: both players are in one map and handled by its thread.
* Auction house, mail, groups, guilds, channels, dungeon finder, battlegrounds: records
  changed under their managers' locks; what is hard in them is the rule book. What groups do
  to instances is in `Instances`.
* Opcode handlers: one at a time per session; those that move players or groups
  between threads are actions of `MapThreads` and `Instances`.

Known dangers that are left out because they hang on one line and a second reader finds
them sooner than a model does: a session that is queued when its client leaves is not
freed (`WorldSocket.cpp:94`); `getMSTime` wraps during a loop (`WorldRunnable.cpp:81`); an
`OnShutdown` that comes before `SocketWorkerThread::run` is forgotten
(`SocketMgrLinux.cpp:123`); a synchronous query overtakes those the same thread has queued
(`Database.cpp:247`); `run` overwrites the state an early `EndThreads` has set
(`Database.cpp:264`).
