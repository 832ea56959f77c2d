# A TLA+ model of the FOClassic server

FOClassic is an online role-playing game engine: a server (`src/Source/Server*.cpp`,
`MainServer.cpp` and the managers), a client, a map editor and a script compiler.
This directory holds TLA+ modules of the server's concurrent core, the TLC
configurations that check them on small instances, and TLAPS proofs of the properties
that matter most for every number of threads and objects.

Paths below are relative to `src/Source/`.

## 1. Inventory

### The server's parts and how they interact

    main thread (MainLoop) --SynchronizePoint / Synchronize--> MutexSynchronizer
         | pushes general, synchronize, finish jobs                 ^
         v                                                          |
    job deque (Jobs.cpp) --PopFront / PushBack--> logic threads (Logic_Work)
         ^  ^                                        |        |
         |  | JOB_CLIENT                 SYNC_LOCK   |        | BeginExecution
    network threads                                  v        v
    (Net_Listen, NetIO_Loop)            object locks (ThreadSync)  scripts
                                                     ^
    admin panel threads (AdminWork) --Process_Command-'    dump thread (Dump_Work)

| Part | State | Operations | What makes it correct |
|---|---|---|---|
| Object locks, `ThreadSync.*` | owner of every `SyncObject`; locked and busy lists, waiting flag, priority and priority stack of every `SyncManager` | `Lock`, `Unlock`, `UnlockAll`, `Suspend`, `Resume`, `PushPriority`, `PopPriority` | a running thread owns all it counts on, alone; lent objects come back; nobody waits for ever |
| Synchronizer, `Shared/Mutex.*` | counter, mutex, event | `Synchronize`, `SynchronizePoint`, `Resynchronize` | who has synchronized is alone; everybody who wants to be alone will be |
| Job queue, `Jobs.*` | the deque | `PushBack`, `PopFront`, `Erase` | no job is lost or doubled; every job is served; the server can be stopped |
| Deferred release, `Jobs.*` | lists of objects with a cycle, the current cycle | `DeferredRelease`, `SetDeferredReleaseCycle`, `ProcessDeferredReleasing` | nothing is released while somebody points to it; everything is released once |
| Main loop and logic threads, `Server.cpp` | jobs in hand, `FOQuit` | `MainLoop`, `Logic_Work` | the server serves everybody and ends |
| Admin panel, `MainServer.cpp` | a session per connection | `AdminWork`, `Process_Command` | a command leaves the server as consistent as one of a client |
| Script execution, `Script.cpp` | call depth, garbage locker, concurrent execution locker, section | `BeginExecution`, `EndExecution`, `SynchronizeThread`, `ResynchronizeThread`, `CollectGarbage` | scripts run with their objects, one at a time if so configured; the collector runs alone; priorities pair up; nobody waits for ever |
| World saving, `Server.cpp` | clients to save, dump buffers, two events, save index, files | `SaveWorld`, `Dump_Work`, `SaveClient`, loading | files are whole; the last world is loaded; nobody's state is lost; a save ends |
| Client sessions, `ServerClient.cpp`, events of the network in `Server.cpp` | connected clients, state, socket and reference count of each, jobs | accept, login, take over, disconnect, remove | who plays is the avatar in the game; one job per connection and avatar; references balance |
| Time events, `Server.cpp` | list of events, their users and marks | create, get, set, erase, process | an event in use stays; a marked one is not called again and has a user who deletes it; who is noted as a user lets go |
| Critters, items, maps, global groups, variables | the game's objects and their indices | create, look up, move, split, delete | indices agree; nothing is in two places; hex flags match the map's content |
| Dialogs, crafting, quests, access, texts, configuration, data files | tables read at start | parsing, look-up | (sequential) |
| Client, mapper, graphics, sound | | | (single-threaded user interface) |

The behaviours that are hard to test are those of the first ten rows: threads meet
only at the deque, the object locks, the synchronizer, the lockers of scripts and the
lists under a mutex of their own (clients to save, time events), and the orders in which they
do so are those of the scheduler. `PROJECT.json` lists the hazards one by one under
`hazards`, each at the line where it bites.

### Threads

* The **main thread** loops with a pause of 100 ms: synchronize point, world saving,
  reloading of client scripts. It does not execute jobs.
* **Logic threads** (`LogicThreadCount`, by default one per processor) execute jobs.
  With one logic thread the object locks are off (`LogicMT`, `Server.cpp:3470-3477`).
* **Network threads** accept connections, push their jobs, fill and empty buffers.
* **Admin panel threads**, one per connection, execute commands like a client's.
* The **dump thread** writes saved worlds to disk.

## 2. Modules

| Module | Models | Uses |
|---|---|---|
| `ObjectOwnership` | what the object locks promise: claims and active threads | |
| `ThreadSync` | the object locks | implements `ObjectOwnership` |
| `MCThreadSync` | `ThreadSync` with a bounded number of calls per job, for liveness | extends `ThreadSync` |
| `ThreadSync_proofs` | proofs about `ThreadSync` | extends `ThreadSync` |
| `LogicSync` | synchronizer, main loop, logic threads and panel threads | instantiates `ThreadSync` |
| `LogicSync_proofs` | proofs about `LogicSync`, alone and composed with the object locks | extends `LogicSync`, instantiates `ThreadSync_proofs` |
| `JobQueue` | the deque, `Logic_Work`, starting and stopping of threads | |
| `DeferredRelease` | deferred release on top of the deque | extends `JobQueue` |
| `CodeGuard` | what `MutexCode` promises: many inside or one who locks | |
| `ScriptExec` | execution of scripts, sections and the garbage collector | instantiates `ThreadSync`, implements `CodeGuard` |
| `MCScriptExec` | the calls of each thread | extends `ScriptExec` |
| `ScriptExec_proofs` | proofs about `ScriptExec` | extends `ScriptExec` |
| `WorldSave` | saving, the thread `Dump_Work`, clients that come and go, crashes, loading | |
| `WorldSave_proofs` | proofs about `WorldSave` | extends `WorldSave` |
| `ClientSession` | the sessions of one account | instantiates `ObjectOwnership` |
| `MCClientSession` | symmetry of connections and threads | extends `ClientSession` |
| `TimeEvents` | time events and the scripts that use them | |
| `MCTimeEvents` | symmetry of the threads | extends `TimeEvents` |
| `JobQueue_proofs` | proofs about `JobQueue` | extends `JobQueue` |
| `DeferredRelease_proofs` | proofs about `DeferredRelease` | extends `DeferredRelease`, `JobQueue_proofs` |
| `TimeEvents_proofs` | proofs about `TimeEvents` | extends `TimeEvents` |
| `ClientSession_proofs` | proofs about `ClientSession` | extends `ClientSession` |

A definition whose comment begins with *Faulty* is a variant of the one it precedes
with a plausible mistake in it. Nothing uses it; each is there to show that a property
fails when the code is wrong (`PROJECT.json`, `mutants`).

### ThreadSync

Every method runs under the one mutex `SyncLocker`, so each critical section is one
step. `Lock` takes a free object, its own, or one of a *lender*, a waiting thread of at
most the caller's priority; otherwise (`LockBusy`) the caller starts to wait and
becomes a lender itself. `WaitRound` is one round of the loop at `ThreadSync.cpp:53`:
it takes all busy objects it can, and returns when none is left. `Resume` moves the
lent objects to its local vector (`relock`) and locks them one by one (`Relock`), each
of which may wait. The vectors are sets: the order of `lockedObjects` is not used, that
of `busyObjects` is only the order of relocking, for which the model allows any.
`SyncObject::Unlock` takes an object from its owner and from everybody who waits for
it. Its one caller is the destructor of a script's `Synchronizer`
(`ServerScript.cpp:648`); `UnlockCallers` says which threads come to it.

`ObjectOwnership` knows neither lists nor priorities: a thread *claims* objects,
keeps its claims until it releases all, and is *active* only while no other active
thread claims one of them. A claim is what is locked, busy or still to be relocked; a
thread is active when it is in no call (`Running`). `Withdraw` is what `Unlock` does to claims.

### LogicSync

A thread is in one of fourteen stages. `SynchronizeLogicThreads` is three of the code's
calls: `Suspend` of its locks, `Synchronize` (arrive, lock, wait, pass, disallow, spin,
leave, a step for each line of `Mutex.cpp:178-187`), and `Resume`, which may wait for
objects. `SynchronizePoint` is the same up to the decrement. The locks are those of
`ThreadSync` through `INSTANCE`, so that a thread in a job may be waiting in a `Lock`
when somebody wants to be alone. The event is the POSIX one: a sleeping thread wakes by
the broadcast of `Allow` and goes on whatever the flag is by then.

The main thread locks objects, too: its `SaveWorld` (`Server.cpp:567`) runs a script
(`Server.cpp:4578`) whose look-ups use `SYNC_LOCK`, and nothing unlocks them afterwards
(`UnlockAll` is commented out, `Server.cpp:583`). So it comes to its `SynchronizePoint`,
and to the join at the end, with the objects it keeps. It lends them only while it waits
itself in `SynchronizeLogicThreads`. `KeptByMain` names the states in which somebody
waits for such an object.

### JobQueue

A job in the deque is `[type, data, owner]`; what the game does in a job is opaque but
for what concerns the queue: creating an object with its job, removing one, stopping
the world. `PopFront` takes the first job the thread may execute. The barrier appears
as the thread that wants to be alone (`stopper`): a thread with a synchronize job is
held until there is none. The count (`AllStopped`, `Server.cpp:643`,
`Mutex.cpp:182-186`) includes the main thread, which passes its `SynchronizePoint` only
while its loop goes on: a thread that wants to be alone after that waits for ever
(`Halted`), and the main thread for it.

### DeferredRelease

Adds the lists of `Jobs.cpp` (one, as the five are alike) and the statistics of
`JOB_THREAD_LOOP` from which the cycle is computed. Counting and setting the cycle are
two steps, as `stats_locker` is released in between. An object stands for one
reference, the one that goes with its job. The history variable `since` remembers the
threads' cycles at the time an object was deferred.

### ScriptExec

A thread is in one of twenty-four stages, one for each place in `BeginExecution`,
`EndExecution`, `SynchronizeThread` and `CollectGarbage` where it may have to wait or
another may come in between. A nested execution only changes the depth. `MutexCode` is
split where its code can be interrupted: the mutex, the test of the event, the counter
(which `LeaveCode` decrements without the mutex). The object locks are those of
`ThreadSync`; a thread in a script locks objects and may wait for them, and with
`ConcurrentExecution` off lends them before it waits for its turn. `concurrent` is
chosen at the start: each run covers both configurations. `CodeGuard` is a lock with
many *inside* or one who *locked*; a thread is inside from the moment it is counted.

### WorldSave

One world file per save index, one file per client, the buffers of `AddWorldSaveData`
(which grow in blocks and are used again), the list `SaveClients`, the two events by
which `SaveWorld` and `Dump_Work` take turns, or saving without `Dump_Work`
(`WorldSaveManager` off). The world is a version and a number of items for each client;
a client's data is a version that playing changes. A file is open while it is written:
a crash leaves it cut. `history` notes what a client was when it left, who was deleted,
the last save whose file is whole, and whether the numbers of the saves have come to
their end.

The numbers end in two ways (`history.wrapped`). `SaveWorldIndex` goes back to 0 after
the highest (`Server.cpp:4651`), and `LoadWorld`, which looks for the highest, finds the
older world until the numbers meet again. And if the server crashes after the last byte
of the file with the highest number, before `SaveWorldIndex` has gone on, it starts from
that number, and the next save is written to the number after it (`Server.cpp:4567`),
which `LoadWorld` never looks for (`Server.cpp:4665`). `LoadsLast` promises nothing from
then on. The second way was met in the proof of `LoadsLast`.

### ClientSession

The connections to one account by several clients, from `Net_Listen` to the release of
the last reference. A `Client` record has the fields the code tests; `refs` is its
reference count and `deferred` the references in the lists of deferred release. A logic
thread holds a `Client` from a popped job (`hand`), and during a login another that it
found (`found`). What the threads do between two calls in which they may wait for an
object lock is one step; the locks themselves are the abstract ones of
`ObjectOwnership`, so that a `Client` may be lent and changed while its thread waits.

A deferred reference may be released at any time. `ProcessDeferredReleasing` tests a
cycle (`Jobs.cpp:171-204`), but that is the cycle of the thread that looped last, as the
run `release_cycles` shows: a login that has found a `Client` and waits for its lock
(`CritterManager.cpp:777`) may find it deleted. The history variable `early` has the
clients whose reference was released while a login had found them, and `UseDeleted` is
the use of one that is no longer there; what follows is not modelled (`undefined`).

### TimeEvents

The list of events with `InProcess` and `EraseMe`, the callback at the end of a
script, and the event of each thread that is in `ProcessTimeEvents` (`cur`). There are
ten jobs `JOB_TIME_EVENTS` (`Server.h:131`, `Server.cpp:489`), so any thread may process
events while others do, even the same event once a script of its own has let it go:
`handed` has these. An event's number stands for the pointer to it. The seconds are
left out: any event may be due at any time, so that the order of the list does not matter.

`BeginExecution` is three steps: `EnterCode` waits for the garbage collector, `TakeTurn`
for the turn of the scripts, `Resume` for the objects lent meanwhile. The collector and
the objects are those of `ScriptExec`; here a thread may stay in these steps as long as
it likes. `Get` and `SetTimeEvent` wait in a loop of their own with whatever the thread
holds, including the turn. The use of a deleted event (`TimeEventDeleted`, and
`FinishEvent` when another processor has deleted its event) ends the behaviour
(`undefined`).

The module promises no progress. A thread may wait for ever in `GetTimeEvent`: for an
event whose script waits for the turn, for one whose script waits for its own event,
for one that was deleted and whose number is read from memory that is something else
(`Server.cpp:5341`, `5349`), or as a member of a cycle with the collector or the owner
of an object. These are listed as hazards; with that many exceptions a liveness
property would say nothing.

## 3. What is checked

| Run | Bounds | Shows |
|---|---|---|
| `locks` | 3 threads, 2 objects, priorities 3 and 5, 3 calls per job, one thread that destroys a `Synchronizer` | `OwnershipConsistent`: owner and lists agree; `NothingLentWhileRunning`: a running thread has all it counts on; `Exclusion`; `ImplementsOwnership`; `EveryCallReturns`: no deadlock and no endless stealing; `AllObjectsReturned` |
| `world_alone` | main, 2 logic threads, 2 objects, a panel thread that does not synchronize, quitting | `StopTheWorld`, `NothingKeptFromTheAlone`: who is alone can take every object but those the main thread has locked in `SaveWorld` or a panel thread keeps |
| `world_live` | main and 2 logic threads that all synchronize, 1 object, quitting | `SynchronizeReturns` and `ServerStops`, unless somebody waits for ever for what main keeps (`KeptByMain`), and the latter but when a call was too late (`Stranded`) |
| `queue` | 2 threads, one of which may fail to start, 1 object, main and a thread stop the world, quitting | `JobsConserved`; `ObjectsServed`: again and again; `WorldStops` and `ThreadsFinish`, unless a thread wants to be alone when the main loop or a thread has ended (`Halted`) |
| `release_one` | 1 thread, 2 objects, 6 cycles, the end of the server | `NoDanglingJob`, `ReleasedOnce`, `WaitsThreeCycles` |
| `scripts` | 3 threads with a small number of calls, depth 2, 1 object, both values of `ConcurrentExecution` | `CollectorAlone`, `OneAtATime`, `PriorityPaired`, `ImplementsGuard`; `ExecutionsEnd` but in the cycle `Trapped` |
| `saves` | 1 client that may delete its account, save numbers up to 2, worlds of 2 or 3 bytes in blocks of 2, 2 saves, 1 crash | `FilesWhole`, `LoadsLast`, `LeaversKept`, `ReturnsAsLeft`, `StopSavesAll`, `SavesEnd` |
| `sessions` | 3 connections, 2 logic threads | `JobsMatch`, `RefsBalance`, `NoDangling` but for what was released early, `PlaysTheAvatar` |
| `events` | 3 symmetric threads with any number of calls, 2 events, both values of `ConcurrentExecution` | `HeldUntilDone`, `MarkedIsHeld`, `UserPresent`, `HolderOnly` |
| `panel_synchronizes`, `release_cycles`, `saves_deleted` | | end in a counterexample, see below |

Three threads are enough for every relation the code draws between threads: who waits,
who lends and who picks from the lender while a third waits for both. Two objects make
the cycle of waiting; a third adds none that two do not have. For the synchronizer, two
logic threads and the main thread give two that want to be alone and one that only
stands in the point, in every order. Six cycles let an object wait its three and be
followed by another. `CycleMod` stands for 2^32 and is only large enough for the bound
on cycles. In `scripts` the third thread is the collector of the cycle described below;
one object is what a script and a job contend for. Three connections are one that plays,
one that takes over and one that comes while the second does. In `saves` a second index
is what it takes to begin again at the first, and a world of 3 before one of 2 leaves
the rest of an old buffer behind. Two events are one that a script reads or erases
while the other runs; three threads are two that process the same event and one whose
script interferes.

Deadlock is checked in `locks`, which goes on for ever. The other configurations turn
it off: the server stops (`Quit`, `PushFinish`, a crash), a bound on calls, cycles or
saves ends the run, or memory that was released has been used. That nobody is stuck is
what the liveness properties say, where there are any.

### Disagreements between code and intention

Three runs end in a counterexample.

* `panel_synchronizes`: `Synchronize( LogicThreadCount )` waits for all *others* when
  a logic thread or the main thread calls. A panel thread is neither
  (`Server.cpp:2592`): one of them still runs when it thinks it is alone.
* `release_cycles`: `real_min_cycle` is the minimum of the *current* thread's count
  (`Server.cpp:882` uses `stats` where `stats_thread` was meant), so that an object may
  be released as soon as a faster thread sets its cycle. The same instance also
  violates `NoDanglingJob`. Taking the minimum of the counts of all threads would not
  be enough either: the tag of an object is such a minimum, and a thread that was three
  cycles ahead when the object was deferred need not have made any since.
* `saves_deleted`: the stop of the server deletes the files of the accounts that asked
  for it and then saves the world, which writes them again (`Server.cpp:615-633`).

Others are exceptions that a property names and the passing run reaches:

* `Stranded` (`LogicSync`): when `FOQuit` is set while a logic thread goes on with a
  command that synchronizes, that thread waits for the main thread, which waits for it
  in `LogicThreads[i].Wait()` (`Server.cpp:592`). Also, a panel thread never calls
  `UnlockAll`: what its commands lock stays locked. `Halted` (`JobQueue`) is the same
  wait seen from the deque.
* `KeptByMain` (`LogicSync`): what the script of `SaveWorld` has looked up the main
  thread keeps (`Server.cpp:583`). A logic thread that waits for it does not come to the
  synchronizer, so that another that wants to be alone waits, too, and at the end the
  main thread joins a thread that waits for it.
* `Trapped` (`ScriptExec`): a collector waits for a script to end, the script for an
  object, and the object's owner, which is about to begin a script, for the collector's
  mutex (`Script.cpp:2240`): it lends its objects only after that (`Script.cpp:2245`).
* `overlap` (`ClientSession`): two logins both find no avatar and create one each.
  `marked`: a login takes over an avatar that `ProcessCritter` has already marked with
  `CanBeRemoved`, which nobody takes back. If it had found that avatar before it was
  removed and gets its lock afterwards (`CritterManager.cpp:777`), it also clears the
  account's entry in `SaveClients`, which may be that of a later avatar that a further
  login is copying. This takes four connections and was met in the proof of
  `NoDangling`; `sessions` has three, and does not reach it. `early`: a reference is released while a
  login waits for the lock of the `Client` (see `release_cycles`).
* `Pending` in `ReturnsAsLeft` (`WorldSave`): a login reads the file of a client that
  `Dump_Work` has still to write.
* `handed` (`TimeEvents`): the script of an event calls `GetTimeEvent`, or
  `SetTimeEvent` on its own event, and so lets go the event that `ProcessTimeEvents`
  will use when the script has ended (`Server.cpp:5535`). A second thread may then
  process it, and the first that is done ends it for both.

### Fairness

The schedulers of the supported systems run every thread, hence weak fairness of every
step of a thread. In `MCThreadSync` it is assumed of rounds, relocks, `Resume` and
`UnlockAll`: jobs end. In `LogicSync` strong fairness is assumed of `TakeLocker` (the
mutex does not starve a thread for ever) and of `SynchronizeJob` and `FinishJob`: a
thread that keeps popping jobs pops each kind. The last is a property of the deque,
checked in `JobQueue` as `WorldStops` and `ThreadsFinish` with weak fairness only,
except for `PassSynchronize`, which is strong because a held thread is woken by the
broadcast or is let in by `msLocker`, and the main thread pauses between its rounds.

In `ScriptExec` only weak fairness is used: scripts and jobs end (the time-out of
scripts sees to it), and as the number of calls is bounded no mutex has to be fair to
anybody; nothing is assumed of calls that a script may or may not make. In `WorldSave`
the main thread and `Dump_Work` run; clients need not come or go. `DeferredRelease`,
`ClientSession` and `TimeEvents` state no fairness and no liveness.

## 4. What is proved

`ThreadSync_proofs`, for all finite or infinite sets of threads and objects and all
priorities:

* `TypeCorrect`, `OwnersAgree`, `RunningOwnsAll`, `MutualExclusion`: `Spec` implies
  that `TypeOK`, `OwnershipConsistent`, `NothingLentWhileRunning` and `Exclusion`
  always hold. `Exclusion` alone is not inductive; it follows from the other three,
  which are inductive together (`IInv`): what a running thread counts on it has locked,
  and an object has one owner. `TakeKeepsOwnership` is the lemma on picking, used for
  both ways of locking and for the wait loop.
* `Refinement`: `Spec` implies `ImplementsOwnership`. Every step of `ThreadSync` changes
  at most one thread's claims (`OthersUnaffected`), or is an `Unlock`, and is a step of
  the abstract locks or none (`NextRefines`).

`LogicSync_proofs`, for all finite sets of logic threads, if only logic threads and the
main thread synchronize (`OnlyParties`, which `panel_synchronizes` shows to be
necessary):

* `BookKeeping`, `TypeCorrect`: `BarrierConsistent` and `TypeOK` always hold.
* `AloneInTheWorld`: `StopTheWorld` always holds. The invariant adds to the
  book-keeping that the flag is off while somebody spins or is alone, and that from the
  moment the counter is full until the flag is allowed again nobody passes
  (`FullCount`: a full counter means that all others are among the counted).
* `EverythingInReach`: `NothingKeptFromTheAlone` always holds, whoever locks objects
  while it is alone. What the main thread or a panel thread keeps is excepted. It joins
  the invariant of the synchronizer with that of the object locks, which
  `ThreadSync_proofs` gives for the instance: every step of `LogicSync` is a step of the
  locks or leaves them alone, and a logic thread that stands in the synchronizer has
  lent what it has.

`ScriptExec_proofs`, for all finite sets of threads, any objects, calls and depth. The
inductive invariant has two parts: `Stable`, which relates each thread's stage to
mutexes, turn, section, depth and priorities, and `Counted`, that the counter is the
number of executing threads.

* `CollectorExcludes`, `TakingTurns`, `PrioritiesPaired`, `TypeCorrect`:
  `CollectorAlone`, `OneAtATime`, `PriorityPaired` and `TypeOK` always hold.
* `Refinement`: `Spec` implies `ImplementsGuard`.

`TimeEvents_proofs`, for any threads, as many of them processing events as there are,
and any events:

* `TypeCorrect`, `ProcessedStays`, `ErasedNeverCalled`, `UsersLetGo`: `TypeOK`,
  `HeldUntilDone`, `MarkedIsHeld` and `UserPresent` always hold. The invariant adds that
  a processor is between taking its event and being done with it, and that no callback is
  left over from an earlier script (`Placed`); what a callback lets go of the thread's
  own event is then in `handed`, whether or not another processes it by now.
* `HeldByHolderOnly`: `Spec` implies `HolderOnly`. Another thread may mark the event, but
  every step looks at `InProcess` before it takes it, lets it go or deletes it, except the
  end of `ProcessTimeEvents` with an event that its script has let go (`OthersKeep`).

`JobQueue_proofs`, for all finite sets of threads, any objects, threads that fail to
start and threads that stop the world:

* `TypeCorrect`, `NothingLost`: `TypeOK` and `JobsConserved` always hold. The lemmas
  count: appending, removing at a position and changing one hand each change the copies
  of a job by what is put there and what was there, so that popping and putting back
  keep their number. The invariant adds that only a thread that has popped holds a job,
  that a thread has no loop job before it pushes it, and that the deque is erased only
  when all threads have ended. That `PopFront` finds a first job is by the well-founded
  order of positions.

`DeferredRelease_proofs`, on top of it, for all sets of threads and objects and any
bound on cycles below the last number of the type:

* `ReleaseTypeCorrect`, `NoLeakNoDouble`: `ReleaseTypeOK` and `ReleasedOnce` always
  hold. Instead of counting, the invariant says that no two entries are of one object
  and that exactly those objects have an entry that left and are not released
  (`EntriesDiffer`, `LeaversListed`). Releasing a prefix, of whatever length, keeps
  this. That nothing is left at the end rests on `LowCycles`: no entry's cycle comes
  near to the maximum that the main loop sets last, the wrap-around of `uint` included.
* `NothingDanglesAlone`, `ThreeCyclesAlone`, if one logic thread executes the jobs
  (`OneThread`): `NoDanglingJob` always holds and every step is one of
  `WaitsThreeCycles`. The condition is necessary: `release_cycles` has two threads and
  refutes both. With one thread `real_min_cycle` is the minimum it should be, and the
  deque is a queue: the job of an object that left comes to its front, and is dropped,
  before the loop job has been done twice. The invariant says so for a job in the deque
  and one in the hand (`QueuedBriefly`, `HeldBriefly`), and that an entry carries at
  least the cycle its thread had (`SinceOwnCycle`).

`ClientSession_proofs`, for any connections and all finite sets of threads:

* `SessionTypeCorrect`, `OneJobEach`, `ReferencesBalance`, `NothingDangles` and
  `OnlineIsTheAvatar`: the five invariants of the run `sessions` always hold, with the
  exceptions they name. The invariant counts the reference for the game as that of the
  critter job (`Owed`, `Balance`), which also holds while two avatars exist. It adds
  that who may still log in has no critter job (`Untried`, `Newcomers`), so that
  `AddCritter` gives the only one; that without `overlap` at most one thread creates an
  avatar, and only while there is none (`OneAvatar`); that what a login has found is the
  avatar, or due for removal and awaiting its release, or was released early
  (`FoundHeld`), so that but for the last the later lock finds memory that is still there; and that who is due for removal is
  offline (`DueAreOffline`). Of the object locks the proof uses only the atomicity of
  the steps: one job per Client (`HolderAlone`) keeps two threads from the same one.

`WorldSave_proofs`, for any finite set of accounts, any numbers of saves and crashes,
any highest number, any sizes of the worlds and of the buffers, with and without the
manager:

* `TypesKept`, `FilesAreWhole`, `LeaversAreKept`: `TypeOK`, `FilesWhole` and
  `LeaversKept` always hold. `LastIsLoaded`, `LeaversReturn`, `StopSaves`: `Spec` implies
  the action properties `LoadsLast`, `ReturnsAsLeft` and `StopSavesAll`. Together they
  are all that `saves` checks but liveness.
* The inductive invariant (`IInv`) has three parts. `Turns`: who of `SaveWorld` and
  `Dump_Work` may be where, given the two events; there are four situations with the
  manager (`Idle`, `Collecting`, `Woken`, `Writing`) and one without. `Clients`: the data
  of a client who has left are in `SaveClients`, or in the buffer where `Dump_Work` has
  still to write them, or in the file (`Kept`), for which the buffer must list each
  client once (`Cursor`); and, after the last `SaveWorld`, those of the connected as well
  (`LastCollected`). `World`: the buffers hold the first bytes of the world in order
  (`BuffersFilled`), the file the buffers before `next` (`FileWritten`), the indexes to
  delete are neither the last nor the current one (`OldErased`), and the highest file is
  the last save (`LastKnown`).
* What `AddWorldSaveData` collects is a fold over the bytes. Induction over data being
  out of reach, `FoldTableExists` turns the fold into a table of its intermediate
  results, and `CollectFills` takes the least prefix for which the claim would fail
  (`LeastExists`, from the theorem on the least natural number): there the step before
  is right and `AddByteFills` says that the next is.

The proofs rest on the constant assumptions of the modules only (`NoThread` is not a
thread, the sets of threads are finite and disjoint, priorities are naturals, a file that
does not exist is no data) and on the two conditions named above: `OnlyParties` and
`OneThread`.

Only model-checked: liveness, that is `EveryCallReturns`, `AllObjectsReturned`,
`SynchronizeReturns`, `ServerStops`, `ObjectsServed`, `WorldStops`, `ThreadsFinish`,
`ExecutionsEnd` and `SavesEnd`. Liveness under fairness and
`ENABLED` are out of the prover's reach. Every invariant and every action property of a
passing run is also a theorem.

## 5. What is not modelled

* Memory-level races (`GetForCurThread` appending to `Managers`, the test of `Sock` in
  `Shutdown`), spurious wake-ups, and the Windows events and completion ports: the
  POSIX build with libevent is the one modelled.
* `Singleplayer`, a server with one logic thread (`LogicMT` off: there is nothing to
  interleave), registration of accounts.
* `WorldSave` assumes that the file of a client can be opened, that the callbacks delete
  at most one old save and not the newest, and checks one client; what a world contains
  is a version.
* `ClientSession`: one account; each `Client` is allocated once; STATE_TRANSFERRING and
  STATE_PLAYING are one; `SaveWorld` needs all threads to be idle, which `LogicSync`
  shows.
* Progress of scripts that use time events (see `TimeEvents` above), and the garbage
  collector and object locks in that module; `ScriptExec` has both, without time events.
* The content of jobs and scripts: critters, items, maps, variables, dialogs, quests,
  crafting. This is sequential code on objects that its thread has locked. Its one
  concurrent hazard is in the look-ups, which find an object and then wait for its lock
  (`Item.cpp:611`); several re-check afterwards, some do not. Combat, movement and path
  finding are computations over data that TLC could enumerate only on toy maps, against
  a reference that would be the same formula.
* Parsing, texts, configuration, access lists: sequential, without state to relate.
* The client, the mapper, graphics and sound: single-threaded user interface.
* Vendored libraries (`Libs/`, `AngelScript/`, `Legacy/`), which are most of the lines of
  the repository.

## 6. Where to go on

In this order: the look-ups of items in containers, composed with `ObjectOwnership`
(find, wait, re-check); the network buffers between logic and network threads;
registration in `ClientSession`.
