------------------------------ MODULE LogicSync ------------------------------
(***************************************************************************)
(* Stopping the world: the main loop, the logic threads and the admin      *)
(* panel threads of Server.cpp around MutexSynchronizer (Mutex.cpp),       *)
(* composed with the object locks of ThreadSync.                           *)
(*                                                                         *)
(* A thread that must be alone (world saving, reloading scripts, dialogs   *)
(* or maps, a console command) calls SynchronizeLogicThreads: it lends its *)
(* objects (Suspend), waits until LogicThreadCount other threads stand in  *)
(* the synchronizer, takes its objects back (Resume) and goes on until     *)
(* ResynchronizeLogicThreads.  The others come to stand there when they    *)
(* execute SynchronizePoint: the main thread once in every round of its    *)
(* loop, a logic thread when it pops a JOB_THREAD_SYNCHRONIZE job, and     *)
(* any thread that calls SynchronizeLogicThreads itself.                   *)
(*                                                                         *)
(* MutexEvent is the POSIX one: Wait is one test of the flag and one       *)
(* pthread_cond_wait, so that a woken thread goes on whatever the flag.    *)
(***************************************************************************)
EXTENDS Naturals, FiniteSets

CONSTANTS Logic,        \* the logic threads (LogicThreadCount of them)
          Main,         \* the thread of MainLoop
          Admins,       \* threads of the admin panel that execute commands
          NoThread,     \* nobody owns the mutex or the object
          Object,       \* the game objects with a SyncObject
          Synchronizers,\* the threads that call SynchronizeLogicThreads
          ExclusiveLockers, \* the threads that lock objects while alone
          MayQuit       \* whether FOQuit may be set

Threads == Logic \cup {Main} \cup Admins

ASSUME ThreadsAssumption ==
  /\ IsFiniteSet(Logic) /\ IsFiniteSet(Admins)
  /\ Main \notin Logic \cup Admins
  /\ Logic \cap Admins = {}
  /\ NoThread \notin Threads
  /\ Synchronizers \subseteq Threads
  /\ ExclusiveLockers \subseteq Threads
  /\ MayQuit \in BOOLEAN

VARIABLES
  stage,      \* where each thread is, see Stages
  inPoint,    \* whether the thread's call is SynchronizePoint
  msCounter,  \* MutexSynchronizer::msCounter
  msLocker,   \* the owner of MutexSynchronizer::msLocker
  allowed,    \* the flag of MutexSynchronizer::msEvent
  foQuit,     \* FOQuit
  finishJobs, \* the JOB_THREAD_FINISH jobs in the queue
  roundCalls, \* synchronizations the main thread may still make this round
  curMngr, lockedObjects, busyObjects, isWaiting,       \* of ThreadSync
  threadPriority, priorityStack, pc, relock             \* of ThreadSync

lockVars == <<curMngr, lockedObjects, busyObjects, isWaiting,
              threadPriority, priorityStack, pc, relock>>
barrier  == <<msCounter, msLocker, allowed>>
ending   == <<foQuit, finishJobs, roundCalls>>
vars     == <<stage, inPoint, barrier, ending, lockVars>>

(***************************************************************************)
(* All commands run at the default priority here.                          *)
(***************************************************************************)
Locks == INSTANCE ThreadSync WITH
  Thread <- Threads, Priorities <- {}, DefaultPriority <- 3,
  MaxPriorityDepth <- 0, UnlockCallers <- {}

(***************************************************************************)
(* "idle"    top of the thread's loop        "job"     in a job, a round   *)
(*                                                     or a command        *)
(* "arrive"  before ++msCounter              "lock"    at msLocker.Lock    *)
(* "wait"    at msEvent.Wait                 "sleep"   in pthread_cond_wait*)
(* "passed"  before --msCounter              "disallow" at msEvent.Disallow*)
(* "spin"    until msCounter = count         "leave"   at msLocker.Unlock  *)
(* "resume"  at Resume                       "alone"   synchronized        *)
(* "join"    main waits for the threads      "done"    has left its loop   *)
(***************************************************************************)
Stages == {"idle", "job", "arrive", "lock", "wait", "sleep", "passed",
           "disallow", "spin", "leave", "resume", "alone", "join", "done"}

TypeOK ==
  /\ stage      \in [Threads -> Stages]
  /\ inPoint    \in [Threads -> BOOLEAN]
  /\ msCounter  \in Nat
  /\ msLocker   \in Threads \cup {NoThread}
  /\ allowed    \in BOOLEAN
  /\ foQuit     \in BOOLEAN
  /\ finishJobs \in Nat
  /\ roundCalls \in Nat

Init ==
  /\ stage      = [t \in Threads |-> "idle"]
  /\ inPoint    = [t \in Threads |-> FALSE]
  /\ msCounter  = 0
  /\ msLocker   = NoThread
  /\ allowed    = TRUE
  /\ foQuit     = FALSE
  /\ finishJobs = 0
  /\ roundCalls = 0
  /\ Locks!Init

Go(t, from, to) == stage[t] = from /\ stage' = [stage EXCEPT ![t] = to]

-----------------------------------------------------------------------------
(***************************************************************************)
(* MutexSynchronizer: Synchronize and SynchronizePoint are the same up to  *)
(* the decrement of the counter.                                           *)
(***************************************************************************)
Arrive(t) ==
  /\ Go(t, "arrive", "lock")
  /\ msCounter' = msCounter + 1
  /\ UNCHANGED <<inPoint, msLocker, allowed, ending, lockVars>>

TakeLocker(t) ==
  /\ msLocker = NoThread
  /\ Go(t, "lock", "wait")
  /\ msLocker' = t
  /\ UNCHANGED <<inPoint, msCounter, allowed, ending, lockVars>>

WaitEvent(t) ==
  /\ Go(t, "wait", IF allowed THEN "passed" ELSE "sleep")
  /\ UNCHANGED <<inPoint, barrier, ending, lockVars>>

\* Faulty: the counter is decremented twice.
PassTwice(t) ==
  /\ Go(t, "passed", IF inPoint[t] THEN "leave" ELSE "disallow")
  /\ msCounter' = msCounter - 2
  /\ UNCHANGED <<inPoint, msLocker, allowed, ending, lockVars>>

Pass(t) ==
  /\ Go(t, "passed", IF inPoint[t] THEN "leave" ELSE "disallow")
  /\ msCounter' = msCounter - 1
  /\ UNCHANGED <<inPoint, msLocker, allowed, ending, lockVars>>

Disallow(t) ==
  /\ Go(t, "disallow", "spin")
  /\ allowed' = FALSE
  /\ UNCHANGED <<inPoint, msCounter, msLocker, ending, lockVars>>

\* Faulty: the caller counts itself.
CountReachedWithSelf(t) ==
  /\ msCounter + 1 = Cardinality(Logic)
  /\ Go(t, "spin", "leave")
  /\ UNCHANGED <<inPoint, barrier, ending, lockVars>>

(***************************************************************************)
(* The loop of Synchronize ends when it reads exactly count.               *)
(***************************************************************************)
CountReached(t) ==
  /\ msCounter = Cardinality(Logic)
  /\ Go(t, "spin", "leave")
  /\ UNCHANGED <<inPoint, barrier, ending, lockVars>>

\* Faulty: a thread that only stood in the point keeps msLocker.
LeaveKeepsLocker(t) ==
  /\ Go(t, "leave", CASE ~inPoint[t] -> "resume"
                      [] inPoint[t] /\ t = Main -> "job"
                      [] OTHER -> "idle")
  /\ msLocker' = IF inPoint[t] THEN t ELSE NoThread
  /\ UNCHANGED <<inPoint, msCounter, allowed, ending, lockVars>>

(***************************************************************************)
(* msLocker.Unlock.  A logic thread pushes its job back and goes for the   *)
(* next one, the main thread goes on with its round.                       *)
(***************************************************************************)
Leave(t) ==
  /\ Go(t, "leave", CASE ~inPoint[t] -> "resume"
                      [] inPoint[t] /\ t = Main -> "job"
                      [] OTHER -> "idle")
  /\ msLocker' = NoThread
  /\ UNCHANGED <<inPoint, msCounter, allowed, ending, lockVars>>

(***************************************************************************)
(* Resynchronize: the event is allowed and its sleepers wake.              *)
(***************************************************************************)
Resynchronize(t) ==
  /\ stage[t] = "alone"
  /\ Locks!Running(t)
  /\ stage' = [u \in Threads |-> IF u = t THEN "job"
                                 ELSE IF stage[u] = "sleep" THEN "passed"
                                 ELSE stage[u]]
  /\ allowed' = TRUE
  /\ UNCHANGED <<inPoint, msCounter, msLocker, ending, lockVars>>

-----------------------------------------------------------------------------
(***************************************************************************)
(* SynchronizeLogicThreads, called in a job, a round of the main loop or a *)
(* command: Suspend, Synchronize( LogicThreadCount ), Resume.  A round of  *)
(* the main loop calls it at most twice, to save the world and to reload   *)
(* the client scripts.                                                     *)
(***************************************************************************)
SynchronizeLogicThreads(t) ==
  /\ t \in Synchronizers
  /\ Go(t, "job", "arrive")
  /\ Locks!Suspend(t)
  /\ inPoint' = [inPoint EXCEPT ![t] = FALSE]
  /\ t = Main => roundCalls > 0
  /\ roundCalls' = IF t = Main THEN roundCalls - 1 ELSE roundCalls
  /\ UNCHANGED <<barrier, foQuit, finishJobs>>

ResumeLocks(t) ==
  /\ Go(t, "resume", "alone")
  /\ Locks!Resume(t)
  /\ UNCHANGED <<inPoint, barrier, ending>>

(***************************************************************************)
(* The next step of a Lock or a Resume in progress.                        *)
(***************************************************************************)
LockStep(t) ==
  /\ Locks!WaitRound(t) \/ Locks!Relock(t)
  /\ UNCHANGED <<stage, inPoint, barrier, ending>>

(***************************************************************************)
(* A job or a command locks objects; who is alone does, if it executes     *)
(* game code.  The main thread does so in SaveWorld, whose script may look *)
(* up what it likes, and there is no UnlockAll in its rounds: it keeps     *)
(* what it has locked, and comes with it to SynchronizePoint and to the    *)
(* join.                                                                   *)
(***************************************************************************)
LockObject(t) ==
  /\ \/ stage[t] = "job" /\ t # Main
     \/ stage[t] = "alone" /\ t \in ExclusiveLockers
  /\ \E o \in Object : Locks!Lock(t, o)
  /\ UNCHANGED <<stage, inPoint, barrier, ending>>

-----------------------------------------------------------------------------
(***************************************************************************)
(* Logic_Work: UnlockAll and the next job, one of the game (a client, a    *)
(* critter, a map, a garbager...), JOB_THREAD_SYNCHRONIZE or               *)
(* JOB_THREAD_FINISH.                                                      *)
(***************************************************************************)
GameJob(t) ==
  /\ t \in Logic
  /\ Go(t, "idle", "job")
  /\ Locks!UnlockAll(t)
  /\ UNCHANGED <<inPoint, barrier, ending>>

\* Faulty: the locks of the last job are kept.
SynchronizeJobLocked(t) ==
  /\ t \in Logic
  /\ Locks!Running(t)
  /\ Go(t, "idle", "arrive")
  /\ inPoint' = [inPoint EXCEPT ![t] = TRUE]
  /\ UNCHANGED <<barrier, ending, lockVars>>

\* Faulty: there is one synchronize job for all logic threads.
SynchronizeJobSingle(t) ==
  /\ t \in Logic
  /\ \A u \in Logic : inPoint[u] => stage[u] \in {"idle", "job", "done"}
  /\ Go(t, "idle", "arrive")
  /\ Locks!UnlockAll(t)
  /\ inPoint' = [inPoint EXCEPT ![t] = TRUE]
  /\ UNCHANGED <<barrier, ending>>

SynchronizeJob(t) ==
  /\ t \in Logic
  /\ Go(t, "idle", "arrive")
  /\ Locks!UnlockAll(t)
  /\ inPoint' = [inPoint EXCEPT ![t] = TRUE]
  /\ UNCHANGED <<barrier, ending>>

FinishJob(t) ==
  /\ t \in Logic
  /\ finishJobs > 0
  /\ Go(t, "idle", "done")
  /\ Locks!UnlockAll(t)
  /\ finishJobs' = finishJobs - 1
  /\ UNCHANGED <<inPoint, barrier, foQuit, roundCalls>>

EndJob(t) ==
  /\ Locks!Running(t)
  /\ Go(t, "job", "idle")
  /\ UNCHANGED <<inPoint, barrier, ending, lockVars>>

-----------------------------------------------------------------------------
(***************************************************************************)
(* MainLoop: a round begins with SynchronizePoint while FOQuit is not set; *)
(* then the finish jobs are pushed and the logic threads are joined.       *)
(***************************************************************************)
BeginRound ==
  /\ ~foQuit
  /\ Go(Main, "idle", "arrive")
  /\ inPoint' = [inPoint EXCEPT ![Main] = TRUE]
  /\ roundCalls' = 2
  /\ UNCHANGED <<barrier, foQuit, finishJobs, lockVars>>

\* Faulty: one finish job too few.
StopLogicThreadsButOne ==
  /\ foQuit
  /\ Go(Main, "idle", "join")
  /\ finishJobs' = Cardinality(Logic) - 1
  /\ UNCHANGED <<inPoint, barrier, foQuit, roundCalls, lockVars>>

StopLogicThreads ==
  /\ foQuit
  /\ Go(Main, "idle", "join")
  /\ finishJobs' = Cardinality(Logic)
  /\ UNCHANGED <<inPoint, barrier, foQuit, roundCalls, lockVars>>

LogicThreadsJoined ==
  /\ \A t \in Logic : stage[t] = "done"
  /\ Go(Main, "join", "done")
  /\ Locks!UnlockAll(Main)
  /\ UNCHANGED <<inPoint, barrier, ending>>

Quit ==
  /\ MayQuit
  /\ foQuit' = TRUE
  /\ UNCHANGED <<stage, inPoint, barrier, finishJobs, roundCalls, lockVars>>

(***************************************************************************)
(* An admin panel thread executes a command (AdminWork, MainServer.cpp).   *)
(***************************************************************************)
AdminCommand(t) ==
  /\ t \in Admins
  /\ Go(t, "idle", "job")
  /\ UNCHANGED <<inPoint, barrier, ending, lockVars>>

-----------------------------------------------------------------------------
SynchronizerStep(t) ==
  \/ Arrive(t) \/ TakeLocker(t) \/ WaitEvent(t) \/ Pass(t) \/ Disallow(t)
  \/ CountReached(t) \/ Leave(t) \/ Resynchronize(t) \/ ResumeLocks(t)

Next ==
  \/ \E t \in Threads :
       \/ SynchronizerStep(t) \/ SynchronizeLogicThreads(t)
       \/ LockStep(t) \/ LockObject(t)
       \/ GameJob(t) \/ SynchronizeJob(t) \/ FinishJob(t) \/ EndJob(t)
       \/ AdminCommand(t)
  \/ BeginRound \/ StopLogicThreads \/ LogicThreadsJoined \/ Quit

Spec == Init /\ [][Next]_vars

(***************************************************************************)
(* Fairness.  Threads run; jobs, rounds and exclusive sections end.  The   *)
(* job queue is first in first out, so that a logic thread that goes on    *)
(* popping jobs pops a synchronize job, and a finish job once they are     *)
(* there (checked in JobQueue).  The mutex does not starve a thread.       *)
(***************************************************************************)
Fairness ==
  /\ \A t \in Threads :
       /\ WF_vars(Arrive(t)) /\ WF_vars(WaitEvent(t)) /\ WF_vars(Pass(t))
       /\ WF_vars(Disallow(t)) /\ WF_vars(CountReached(t)) /\ WF_vars(Leave(t))
       /\ WF_vars(Resynchronize(t)) /\ WF_vars(ResumeLocks(t))
       /\ WF_vars(LockStep(t)) /\ WF_vars(EndJob(t))
       /\ SF_vars(TakeLocker(t))
  /\ \A t \in Logic : SF_vars(SynchronizeJob(t)) /\ SF_vars(FinishJob(t))
  /\ WF_vars(BeginRound) /\ WF_vars(StopLogicThreads) /\ WF_vars(LogicThreadsJoined)

FairSpec == Spec /\ Fairness

-----------------------------------------------------------------------------
(***************************************************************************)
(* The threads that msCounter counts.                                      *)
(***************************************************************************)
Counted == {t \in Threads : stage[t] \in {"lock", "wait", "sleep", "passed"}}

HasLocker(t) ==
  stage[t] \in {"wait", "sleep", "passed", "disallow", "spin", "leave"}

(***************************************************************************)
(* The synchronizer's book-keeping: its counter is the number of threads   *)
(* that have come and not passed, and its mutex is owned by the one thread *)
(* between msLocker.Lock and msLocker.Unlock.                              *)
(***************************************************************************)
BarrierConsistent ==
  /\ msCounter = Cardinality(Counted)
  /\ \A t \in Threads : HasLocker(t) <=> msLocker = t

(***************************************************************************)
(* A thread that has returned from Synchronize is alone: every logic       *)
(* thread and the main thread stand in the synchronizer until it calls     *)
(* Resynchronize.                                                          *)
(***************************************************************************)
StopTheWorld ==
  \A t \in Threads : stage[t] \in {"resume", "alone"} =>
    \A u \in (Logic \cup {Main}) \ {t} : stage[u] \in {"lock", "wait", "sleep"}

(***************************************************************************)
(* While a thread is alone no object of the game is out of its reach: what *)
(* it does not own is free or lent by a thread that stands in the          *)
(* synchronizer, so that neither its Resume nor its Lock can wait for ever *)
(* for a logic thread that is stopped.  Only what the main thread has      *)
(* locked in SaveWorld, or a panel thread, may be kept from it.            *)
(***************************************************************************)
NothingKeptFromTheAlone ==
  \A t \in Threads : stage[t] = "alone" =>
    \A o \in Object : Locks!CanTake(t, o) \/ curMngr[o] \in Admins \cup {Main}

(***************************************************************************)
(* Somebody waits in Lock for an object that the main thread keeps.  It    *)
(* lends it only while it waits itself, in SynchronizeLogicThreads.        *)
(***************************************************************************)
KeptByMain ==
  /\ ~isWaiting[Main]
  /\ \E t \in Threads : pc[t] = "wait" /\ \E o \in busyObjects[t] : curMngr[o] = Main

(***************************************************************************)
(* A call of SynchronizeLogicThreads eventually stops the world, if the    *)
(* main loop goes on, and, the exclusive section over, the caller goes on  *)
(* with its job in any case; unless somebody waits for ever for an object  *)
(* that the main thread keeps, and so never comes to the synchronizer, or  *)
(* never ends its exclusive section.                                       *)
(***************************************************************************)
SynchronizeReturns ==
  \/ <>[]KeptByMain
  \/ \A t \in Synchronizers :
       /\ (stage[t] = "arrive" /\ ~inPoint[t]) ~> stage[t] = "alone" \/ foQuit
       /\ stage[t] = "alone" ~> stage[t] = "job"

(***************************************************************************)
(* Once FOQuit is set the main loop ends, every logic thread finishes and  *)
(* the main thread gets past the join.  Two things prevent it: a call of   *)
(* SynchronizeLogicThreads that counts on the main thread too late, and an *)
(* object that the main thread keeps while it waits for the threads.       *)
(***************************************************************************)
Stranded == stage[Main] = "join" /\ \E t \in Logic : stage[t] = "spin"

ServerStops ==
  <>[]KeptByMain \/ (foQuit ~> stage[Main] = "done" \/ Stranded)
=============================================================================
