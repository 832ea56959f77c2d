----------------------------- MODULE ScriptExec -----------------------------
(***************************************************************************)
(* The execution of scripts by several threads: BeginExecution,            *)
(* EndExecution, SynchronizeThread, ResynchronizeThread and CollectGarbage *)
(* of Script.cpp around MutexCode (Mutex.cpp), composed with the object    *)
(* locks of ThreadSync.                                                    *)
(*                                                                         *)
(* A job locks objects and calls scripts, scripts lock objects and call    *)
(* scripts again.  The outermost BeginExecution of a thread enters the     *)
(* code that the garbage collector locks; if scripts must not run at the   *)
(* same time (ConcurrentExecution is off) it then lends its objects, waits *)
(* for its turn and takes them back.  If they may, a script can ask for a  *)
(* section of its own with Synchronize().                                  *)
(***************************************************************************)
EXTENDS Naturals, FiniteSets

CONSTANTS Thread,      \* the logic threads
          Object,      \* the game objects with a SyncObject
          NoThread,
          MaxCalls,    \* bound: locks, executions, sections and collections
                       \* of each thread
          MaxDepth     \* bound: nested executions and sections

ASSUME NoThreadAssumption == NoThread \notin Thread
ASSUME BoundAssumption == MaxCalls \in [Thread -> Nat] /\ MaxDepth \in Nat \ {0}
ASSUME ThreadAssumption == IsFiniteSet(Thread)

VARIABLES
  concurrent,   \* ConcurrentExecution, read from the configuration
  stage,        \* where each thread is, see Stages
  depth,        \* ExecutionRecursionCounter
  calls,        \* what the thread may still call, of MaxCalls
  mcLocker,     \* owner of GarbageLocker.mcLocker
  mcAllowed,    \* flag of GarbageLocker.mcEvent
  mcCounter,    \* GarbageLocker.mcCounter
  turn,         \* owner of ConcurrentExecutionLocker
  section,      \* SynchronizeThreadId
  nesting,      \* SynchronizeThreadCounter
  sectionOpen,  \* flag of SynchronizeThreadLocker
  curMngr, lockedObjects, busyObjects, isWaiting,       \* of ThreadSync
  threadPriority, priorityStack, pc, relock             \* of ThreadSync

lockVars    == <<curMngr, lockedObjects, busyObjects, isWaiting,
                 threadPriority, priorityStack, pc, relock>>
garbageVars == <<mcLocker, mcAllowed, mcCounter>>
sectionVars == <<section, nesting, sectionOpen>>
vars == <<concurrent, stage, depth, calls, garbageVars, turn, sectionVars, lockVars>>

DefaultPriority == 3
Locks == INSTANCE ThreadSync WITH
  Priorities <- {5, 10}, MaxPriorityDepth <- 2, UnlockCallers <- {}

(***************************************************************************)
(* BeginExecution    "enter"  at mcLocker.Lock    "event"  at mcEvent.Wait *)
(*                   "sleep"  in pthread_cond_wait                         *)
(*                   "count"  before ++mcCounter  "suspend" at Suspend     *)
(*                   "turn"   at ConcurrentExecutionLocker.Lock            *)
(*                   "push"   at PushPriority     "resume" at Resume       *)
(* EndExecution      "left"   after LeaveCode     "pop"    at PopPriority  *)
(*                   "close"  at SynchronizeThreadLocalLocker.Lock         *)
(* SynchronizeThread "sync"   at SynchronizeThreadLocalLocker.Lock         *)
(*                   "lend"   at Suspend                                   *)
(*                   "await"  at Wait             "doze"   in cond_wait    *)
(*                   "reclaim" at Resume          "raise"  at PushPriority *)
(* both ways out     "lower"  at PopPriority                               *)
(* CollectGarbage    "gc"     at mcLocker.Lock    "stop"   at Disallow     *)
(*                   "spin"   until mcCounter = 0 "collect" GarbageCollect *)
(***************************************************************************)
Collecting == {"gc", "stop", "spin", "collect"}

Stages == Collecting \cup
  {"idle", "job", "enter", "event", "sleep", "count", "suspend", "turn",
   "push", "resume", "left", "pop", "close", "sync", "lend", "await", "doze",
   "reclaim", "raise", "lower"}

TypeOK ==
  /\ concurrent  \in BOOLEAN
  /\ stage       \in [Thread -> Stages]
  /\ depth       \in [Thread -> 0..MaxDepth]
  /\ calls       \in [Thread -> Nat]
  /\ mcLocker    \in Thread \cup {NoThread}
  /\ mcAllowed   \in BOOLEAN
  /\ mcCounter   \in Nat
  /\ turn        \in Thread \cup {NoThread}
  /\ section     \in Thread \cup {NoThread}
  /\ nesting     \in 0..MaxDepth
  /\ sectionOpen \in BOOLEAN

Init ==
  /\ concurrent  \in BOOLEAN
  /\ stage       = [t \in Thread |-> "idle"]
  /\ depth       = [t \in Thread |-> 0]
  /\ calls       = MaxCalls
  /\ mcLocker    = NoThread
  /\ mcAllowed   = TRUE
  /\ mcCounter   = 0
  /\ turn        = NoThread
  /\ section     = NoThread
  /\ nesting     = 0
  /\ sectionOpen = TRUE
  /\ Locks!Init

Go(t, from, to) == stage[t] = from /\ stage' = [stage EXCEPT ![t] = to]

InJob(t)    == stage[t] = "job" /\ Locks!Running(t)
InScript(t) == InJob(t) /\ depth[t] > 0

Spend(t) == calls[t] > 0 /\ calls' = [calls EXCEPT ![t] = @ - 1]

-----------------------------------------------------------------------------
(***************************************************************************)
(* A logic thread's job and the objects it locks, in scripts or not.  The  *)
(* loop of Logic_Work begins with UnlockAll: an idle thread, which waits   *)
(* for a job, has nothing locked.                                          *)
(***************************************************************************)
StartJob(t) ==
  /\ calls[t] > 0
  /\ Go(t, "idle", "job")
  /\ UNCHANGED <<concurrent, depth, calls, garbageVars, turn, sectionVars, lockVars>>

\* A job ends: UnlockAll at the top of the loop.
EndJob(t) ==
  /\ InJob(t) /\ depth[t] = 0
  /\ Go(t, "job", "idle")
  /\ Locks!UnlockAll(t)
  /\ UNCHANGED <<concurrent, depth, calls, garbageVars, turn, sectionVars>>

LockObject(t) ==
  /\ InJob(t)
  /\ Spend(t)
  /\ \E o \in Object : Locks!Lock(t, o)
  /\ UNCHANGED <<concurrent, stage, depth, garbageVars, turn, sectionVars>>

LockStep(t) ==
  /\ Locks!WaitRound(t) \/ Locks!Relock(t)
  /\ UNCHANGED <<concurrent, stage, depth, calls, garbageVars, turn, sectionVars>>

-----------------------------------------------------------------------------
(***************************************************************************)
(* BeginExecution: GarbageLocker.EnterCode ...                             *)
(***************************************************************************)
BeginExecution(t) ==
  /\ InJob(t)
  /\ Spend(t)
  /\ IF depth[t] = 0
     THEN Go(t, "job", "enter") /\ UNCHANGED depth
     ELSE /\ depth[t] < MaxDepth
          /\ depth' = [depth EXCEPT ![t] = @ + 1]
          /\ UNCHANGED stage
  /\ UNCHANGED <<concurrent, garbageVars, turn, sectionVars, lockVars>>

EnterCode(t) ==
  /\ mcLocker = NoThread
  /\ Go(t, "enter", "event")
  /\ mcLocker' = t
  /\ UNCHANGED <<concurrent, depth, calls, mcAllowed, mcCounter, turn, sectionVars, lockVars>>

\* Faulty: mcEvent is not waited for.
WaitCodeSkipped(t) ==
  /\ Go(t, "event", "count")
  /\ UNCHANGED <<concurrent, depth, calls, garbageVars, turn, sectionVars, lockVars>>

WaitCode(t) ==
  /\ Go(t, "event", IF mcAllowed THEN "count" ELSE "sleep")
  /\ UNCHANGED <<concurrent, depth, calls, garbageVars, turn, sectionVars, lockVars>>

(***************************************************************************)
(* The counter is incremented under mcLocker, then mcLocker unlocked.      *)
(***************************************************************************)
CountCode(t) ==
  /\ Go(t, "count", IF concurrent THEN "push" ELSE "suspend")
  /\ mcCounter' = mcCounter + 1
  /\ mcLocker' = NoThread
  /\ UNCHANGED <<concurrent, depth, calls, mcAllowed, turn, sectionVars, lockVars>>

(***************************************************************************)
(* ... then, when scripts run one at a time, the thread's turn ...         *)
(***************************************************************************)
SuspendForTurn(t) ==
  /\ Go(t, "suspend", "turn")
  /\ Locks!Suspend(t)
  /\ UNCHANGED <<concurrent, depth, calls, garbageVars, turn, sectionVars>>

TakeTurn(t) ==
  /\ turn = NoThread
  /\ Go(t, "turn", "push")
  /\ turn' = t
  /\ UNCHANGED <<concurrent, depth, calls, garbageVars, sectionVars, lockVars>>

(***************************************************************************)
(* ... and a priority above the jobs that execute no script.               *)
(***************************************************************************)
PushScript(t) ==
  /\ Go(t, "push", IF concurrent THEN "job" ELSE "resume")
  /\ Locks!PushPriority(t, 5)
  /\ depth' = IF concurrent THEN [depth EXCEPT ![t] = 1] ELSE depth
  /\ UNCHANGED <<concurrent, calls, garbageVars, turn, sectionVars>>

ResumeScript(t) ==
  /\ Go(t, "resume", "job")
  /\ Locks!Resume(t)
  /\ depth' = [depth EXCEPT ![t] = 1]
  /\ UNCHANGED <<concurrent, calls, garbageVars, turn, sectionVars>>

-----------------------------------------------------------------------------
\* Faulty: the nested end leaves the code, too.
EndExecutionNested(t) ==
  /\ InScript(t)
  /\ depth' = [depth EXCEPT ![t] = @ - 1]
  /\ mcCounter' = mcCounter - 1
  /\ IF depth[t] > 1 THEN UNCHANGED stage ELSE Go(t, "job", "left")
  /\ UNCHANGED <<concurrent, calls, mcLocker, mcAllowed, turn, sectionVars, lockVars>>

(***************************************************************************)
(* EndExecution: LeaveCode, the turn, the priority, and a section that the *)
(* script has not closed.                                                  *)
(***************************************************************************)
EndExecution(t) ==
  /\ InScript(t)
  /\ depth' = [depth EXCEPT ![t] = @ - 1]
  /\ IF depth[t] > 1
     THEN UNCHANGED <<stage, mcCounter>>
     ELSE Go(t, "job", "left") /\ mcCounter' = mcCounter - 1
  /\ UNCHANGED <<concurrent, calls, mcLocker, mcAllowed, turn, sectionVars, lockVars>>

GiveTurn(t) ==
  /\ ~concurrent
  /\ Go(t, "left", "pop")
  /\ turn' = NoThread
  /\ UNCHANGED <<concurrent, depth, calls, garbageVars, sectionVars, lockVars>>

PopScript(t) ==
  /\ IF concurrent THEN Go(t, "left", "close") ELSE Go(t, "pop", "job")
  /\ Locks!PopPriority(t)
  /\ UNCHANGED <<concurrent, depth, calls, garbageVars, turn, sectionVars>>

(***************************************************************************)
(* The section is free and whoever sleeps before it wakes.                 *)
(***************************************************************************)
FreeSection(t, to) ==
  /\ section' = NoThread
  /\ nesting' = 0
  /\ sectionOpen' = TRUE
  /\ stage' = [u \in Thread |-> IF u = t THEN to
                                ELSE IF stage[u] = "doze" THEN "reclaim"
                                ELSE stage[u]]

\* Faulty: the section is closed, its priority stays.
CloseSectionOnly(t) ==
  /\ stage[t] = "close"
  /\ IF section = t THEN FreeSection(t, "job")
     ELSE Go(t, "close", "job") /\ UNCHANGED sectionVars
  /\ UNCHANGED <<concurrent, depth, calls, garbageVars, turn, lockVars>>

\* Faulty: a section left open is not closed.
CloseSectionNot(t) ==
  /\ Go(t, "close", "job")
  /\ UNCHANGED <<concurrent, depth, calls, garbageVars, turn, sectionVars, lockVars>>

CloseSection(t) ==
  /\ stage[t] = "close"
  /\ IF section = t THEN FreeSection(t, "lower")
     ELSE Go(t, "close", "job") /\ UNCHANGED sectionVars
  /\ UNCHANGED <<concurrent, depth, calls, garbageVars, turn, lockVars>>

-----------------------------------------------------------------------------
(***************************************************************************)
(* SynchronizeThread: enters the free section, enters it again, or lends   *)
(* the objects and sleeps until it is freed, to try again.                 *)
(***************************************************************************)
SynchronizeThread(t) ==
  /\ concurrent
  /\ InScript(t)
  /\ Spend(t)
  /\ Go(t, "job", "sync")
  /\ UNCHANGED <<concurrent, depth, garbageVars, turn, sectionVars, lockVars>>

EnterSection(t) ==
  /\ Locks!Running(t)
  /\ section = NoThread
  /\ Go(t, "sync", "raise")
  /\ section' = t
  /\ nesting' = 1
  /\ sectionOpen' = FALSE
  /\ UNCHANGED <<concurrent, depth, calls, garbageVars, turn, lockVars>>

NestSection(t) ==
  /\ section = t /\ nesting < MaxDepth
  /\ Go(t, "sync", "job")
  /\ nesting' = nesting + 1
  /\ UNCHANGED <<concurrent, depth, calls, garbageVars, turn, section, sectionOpen, lockVars>>

SectionBusy(t) ==
  /\ Locks!Running(t)
  /\ section \notin {NoThread, t}
  /\ Go(t, "sync", "lend")
  /\ UNCHANGED <<concurrent, depth, calls, garbageVars, turn, sectionVars, lockVars>>

SuspendForSection(t) ==
  /\ Go(t, "lend", "await")
  /\ Locks!Suspend(t)
  /\ UNCHANGED <<concurrent, depth, calls, garbageVars, turn, sectionVars>>

WaitSection(t) ==
  /\ Go(t, "await", IF sectionOpen THEN "reclaim" ELSE "doze")
  /\ UNCHANGED <<concurrent, depth, calls, garbageVars, turn, sectionVars, lockVars>>

ResumeForSection(t) ==
  /\ Go(t, "reclaim", "sync")
  /\ Locks!Resume(t)
  /\ UNCHANGED <<concurrent, depth, calls, garbageVars, turn, sectionVars>>

PushSection(t) ==
  /\ Go(t, "raise", "job")
  /\ Locks!PushPriority(t, 10)
  /\ UNCHANGED <<concurrent, depth, calls, garbageVars, turn, sectionVars>>

(***************************************************************************)
(* ResynchronizeThread: called by another thread it only reports an error. *)
(***************************************************************************)
ResynchronizeThread(t) ==
  /\ InScript(t)
  /\ section = t
  /\ IF nesting = 1 THEN FreeSection(t, "lower")
     ELSE nesting' = nesting - 1 /\ UNCHANGED <<stage, section, sectionOpen>>
  /\ UNCHANGED <<concurrent, depth, calls, garbageVars, turn, lockVars>>

PopSection(t) ==
  /\ Go(t, "lower", "job")
  /\ Locks!PopPriority(t)
  /\ UNCHANGED <<concurrent, depth, calls, garbageVars, turn, sectionVars>>

-----------------------------------------------------------------------------
(***************************************************************************)
(* JOB_GARBAGE_SCRIPT.  There is one such job, so one collector at a time. *)
(* ScriptGarbager may decide not to collect, which changes nothing here,   *)
(* or to collect twice, which is as good as two jobs.                      *)
(***************************************************************************)
GarbageJob(t) ==
  /\ \A u \in Thread : stage[u] \notin Collecting
  /\ Spend(t)
  /\ Go(t, "idle", "gc")
  /\ UNCHANGED <<concurrent, depth, garbageVars, turn, sectionVars, lockVars>>

LockCode(t) ==
  /\ mcLocker = NoThread
  /\ Go(t, "gc", "stop")
  /\ mcLocker' = t
  /\ UNCHANGED <<concurrent, depth, calls, mcAllowed, mcCounter, turn, sectionVars, lockVars>>

\* Faulty: mcLocker is unlocked before the counter is waited for.
DisallowCodeEarly(t) ==
  /\ Go(t, "stop", "spin")
  /\ mcAllowed' = FALSE
  /\ mcLocker' = NoThread
  /\ UNCHANGED <<concurrent, depth, calls, mcCounter, turn, sectionVars, lockVars>>

DisallowCode(t) ==
  /\ Go(t, "stop", "spin")
  /\ mcAllowed' = FALSE
  /\ UNCHANGED <<concurrent, depth, calls, mcLocker, mcCounter, turn, sectionVars, lockVars>>

CodeEmpty(t) ==
  /\ mcCounter = 0
  /\ Go(t, "spin", "collect")
  /\ mcLocker' = NoThread
  /\ UNCHANGED <<concurrent, depth, calls, mcAllowed, mcCounter, turn, sectionVars, lockVars>>

\* Faulty: the event is not allowed again.
UnlockCodeSilent(t) ==
  /\ Go(t, "collect", "idle")
  /\ UNCHANGED <<concurrent, depth, calls, garbageVars, turn, sectionVars, lockVars>>

UnlockCode(t) ==
  /\ stage[t] = "collect"
  /\ mcAllowed' = TRUE
  /\ stage' = [u \in Thread |-> IF u = t THEN "idle"
                                ELSE IF stage[u] = "sleep" THEN "count"
                                ELSE stage[u]]
  /\ UNCHANGED <<concurrent, depth, calls, mcLocker, mcCounter, turn, sectionVars, lockVars>>

-----------------------------------------------------------------------------
Begin(t) ==
  \/ EnterCode(t) \/ WaitCode(t) \/ CountCode(t)
  \/ SuspendForTurn(t) \/ TakeTurn(t) \/ PushScript(t) \/ ResumeScript(t)

End(t) == GiveTurn(t) \/ PopScript(t) \/ CloseSection(t) \/ PopSection(t)

Section(t) ==
  \/ EnterSection(t) \/ NestSection(t) \/ SectionBusy(t)
  \/ SuspendForSection(t) \/ WaitSection(t) \/ ResumeForSection(t)
  \/ PushSection(t)

Collect(t) == LockCode(t) \/ DisallowCode(t) \/ CodeEmpty(t) \/ UnlockCode(t)

Next ==
  \E t \in Thread :
    \/ StartJob(t) \/ EndJob(t) \/ LockObject(t) \/ LockStep(t)
    \/ BeginExecution(t) \/ Begin(t) \/ EndExecution(t) \/ End(t)
    \/ SynchronizeThread(t) \/ Section(t) \/ ResynchronizeThread(t)
    \/ GarbageJob(t) \/ Collect(t)

Spec == Init /\ [][Next]_vars

(***************************************************************************)
(* Fairness: threads run, scripts and jobs end, and calls are bounded, so  *)
(* that no mutex and no loop has to be fair to anybody.                    *)
(***************************************************************************)
Fairness ==
  \A t \in Thread :
    /\ WF_vars(Begin(t)) /\ WF_vars(End(t)) /\ WF_vars(Section(t))
    /\ WF_vars(Collect(t)) /\ WF_vars(LockStep(t))
    /\ WF_vars(EndExecution(t)) /\ WF_vars(EndJob(t))

FairSpec == Spec /\ Fairness

-----------------------------------------------------------------------------
(***************************************************************************)
(* The threads that mcCounter counts.                                      *)
(***************************************************************************)
Executing(t) ==
  \/ depth[t] > 0
  \/ stage[t] \in {"suspend", "turn", "push", "resume"}

(***************************************************************************)
(* No thread executes a script, or will without passing the collector,     *)
(* while the garbage is collected, and the counter that says so is that of *)
(* the outermost executions.                                               *)
(***************************************************************************)
CollectorAlone ==
  /\ mcCounter = Cardinality({t \in Thread : Executing(t)})
  /\ \A t, u \in Thread : stage[t] = "collect" => ~Executing(u) /\ stage[u] # "count"

(***************************************************************************)
(* Without ConcurrentExecution one thread at a time executes scripts, with *)
(* it one thread at a time is in a section; a section never outlives the   *)
(* execution that opened it.                                               *)
(***************************************************************************)
OneAtATime ==
  /\ ~concurrent => \A t \in Thread : depth[t] > 0 => turn = t
  /\ section # NoThread => depth[section] > 0 \/ stage[section] \in {"left", "close"}

(***************************************************************************)
(* What an execution and a section push on a thread's priorities they pop: *)
(* between executions a thread has the priority it began with, in a script *)
(* 5, in a section 10, also when the script has left its section open.     *)
(***************************************************************************)
PriorityPaired ==
  \A t \in Thread :
    /\ stage[t] = "idle" => threadPriority[t] = DefaultPriority /\ priorityStack[t] = <<>>
    /\ stage[t] = "job" => threadPriority[t] =
         CASE depth[t] = 0 -> DefaultPriority
           [] depth[t] > 0 /\ section = t -> 10
           [] OTHER -> 5

(***************************************************************************)
(* The garbage collector and the scripts exclude each other as CodeGuard   *)
(* says.                                                                   *)
(***************************************************************************)
Guard == INSTANCE CodeGuard WITH
  inside <- {t \in Thread : Executing(t)},
  locked <- {t \in Thread : stage[t] = "collect"}

ImplementsGuard == Guard!Spec

(***************************************************************************)
(* The collector waits for a script, the script for an object, its owner   *)
(* before the collector's mutex, with the object not lent.                 *)
(***************************************************************************)
Trapped ==
  \E c, u, w \in Thread :
    /\ stage[c] = "spin" /\ stage[u] = "enter" /\ Executing(w)
    /\ lockedObjects[u] \cap busyObjects[w] # {}

(***************************************************************************)
(* All executions, sections and collections that have begun end, whoever   *)
(* waits for mutexes, turns, sections, objects or priorities of others:    *)
(* the only cycle of waiting there is is Trapped.                          *)
(***************************************************************************)
Quiet(t) == stage[t] \in {"idle", "job"} /\ depth[t] = 0 /\ section # t

ExecutionsEnd == []<>(Trapped \/ \A t \in Thread : Quiet(t))
=============================================================================
