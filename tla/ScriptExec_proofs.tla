-------------------------- MODULE ScriptExec_proofs --------------------------
(***************************************************************************)
(* Proofs about the execution of scripts, for any number of threads,       *)
(* objects, calls and nested executions: the garbage collector is alone,   *)
(* and scripts take turns or sections.                                     *)
(***************************************************************************)
EXTENDS ScriptExec, FiniteSetTheorems, SequenceTheorems, TLAPS

Inside == {t \in Thread : Executing(t)}

(***************************************************************************)
(* The stages of a thread in an execution, those of one that asks for a    *)
(* section, and those with GarbageLocker.mcLocker.                         *)
(***************************************************************************)
SectionStages == {"sync", "lend", "await", "doze", "reclaim", "raise"}
ScriptStages  == SectionStages \cup {"job", "lower"}
HoldingStages == {"event", "sleep", "count", "stop", "spin"}

(***************************************************************************)
(* The inductive invariant: which stages a script can be in, mcLocker with *)
(* the thread whose stage says so, one collector, the event disallowed     *)
(* from its spin on, nobody past the event when it collects, the turn and  *)
(* the section with a thread in an execution, and the section entered      *)
(* before its priority is pushed and left before it is popped.             *)
(***************************************************************************)
DepthOfStage ==
  \A t \in Thread :
    /\ depth[t] > 0 => stage[t] \in ScriptStages
    /\ stage[t] \in SectionStages => depth[t] > 0

LockerHeld == \A t \in Thread : stage[t] \in HoldingStages <=> mcLocker = t

OneCollector ==
  \A t, u \in Thread : stage[t] \in Collecting /\ stage[u] \in Collecting => t = u

Disallowed == \A t \in Thread : stage[t] \in {"spin", "collect"} => ~mcAllowed

NobodyInside ==
  \A t, u \in Thread : stage[t] = "collect" => ~Executing(u) /\ stage[u] # "count"

TurnHeld ==
  ~concurrent => \A t \in Thread :
    /\ depth[t] > 0 \/ stage[t] \in {"push", "resume", "left"} <=> turn = t
    /\ stage[t] \notin SectionStages \cup {"lower", "close"}

SectionHeld ==
  section # NoThread =>
    /\ concurrent
    /\ nesting > 0
    /\ depth[section] > 0 \/ stage[section] \in {"left", "close"}

Entered ==
  \A t \in Thread :
    /\ stage[t] = "raise" => section = t
    /\ stage[t] = "lower" => section # t

Counted == mcCounter = Cardinality(Inside)

Stable == /\ TypeOK /\ DepthOfStage /\ LockerHeld /\ OneCollector /\ Disallowed
          /\ NobodyInside /\ TurnHeld /\ SectionHeld /\ Entered

IInv == Stable /\ Counted

(***************************************************************************)
(* Init establishes the inductive invariant: nobody is inside the code.    *)
(***************************************************************************)
LEMMA InitIInv == Init => IInv
<1> SUFFICES ASSUME Init PROVE IInv
  OBVIOUS
<1>1. Inside = {}
  BY DEF Init, Inside, Executing
<1>2. Counted
  BY <1>1, FS_EmptySet DEF Init, Counted
<1>3. TypeOK
  BY BoundAssumption DEF Init, TypeOK, Stages
<1>4. DepthOfStage /\ LockerHeld /\ OneCollector /\ Disallowed /\ NobodyInside
  BY NoThreadAssumption
  DEF Init, DepthOfStage, LockerHeld, OneCollector, Disallowed, NobodyInside,
      SectionStages, HoldingStages, Collecting
<1>5. TurnHeld /\ SectionHeld /\ Entered
  BY NoThreadAssumption DEF Init, TurnHeld, SectionHeld, Entered, SectionStages
<1> QED BY <1>2, <1>3, <1>4, <1>5 DEF IInv, Stable

(***************************************************************************)
(* There are finitely many threads inside.                                 *)
(***************************************************************************)
LEMMA InsideFinite == IsFiniteSet(Inside) /\ Cardinality(Inside) \in Nat
<1>1. IsFiniteSet(Inside)
  BY ThreadAssumption, FS_Subset DEF Inside
<1> QED BY <1>1, FS_CardinalityType

(***************************************************************************)
(* The steps of BeginExecution keep the invariant but for the counter.     *)
(***************************************************************************)
LEMMA BeginStable ==
  ASSUME Stable, NEW t \in Thread
  PROVE  BeginExecution(t) \/ Begin(t) => Stable'
<1> USE NoThreadAssumption, BoundAssumption
    DEF Stable, TypeOK, DepthOfStage, LockerHeld, OneCollector, Disallowed,
        NobodyInside, TurnHeld, SectionHeld, Entered, Executing, Stages, Collecting,
        ScriptStages, SectionStages, HoldingStages, garbageVars, sectionVars, Go
<1>1. BeginExecution(t) => Stable'
  BY DEF BeginExecution, InJob, Spend
<1>2. EnterCode(t) => Stable'
  BY DEF EnterCode
<1>3. WaitCode(t) => Stable'
  BY DEF WaitCode
<1>4. CountCode(t) => Stable'
  BY DEF CountCode
<1>5. SuspendForTurn(t) => Stable'
  BY DEF SuspendForTurn
<1>6. TakeTurn(t) => Stable'
  BY DEF TakeTurn
<1>7. PushScript(t) => Stable'
  BY DEF PushScript
<1>8. ResumeScript(t) => Stable'
  BY DEF ResumeScript
<1> QED BY <1>1, <1>2, <1>3, <1>4, <1>5, <1>6, <1>7, <1>8 DEF Begin

(***************************************************************************)
(* A section that is freed leaves well-typed stages.                       *)
(***************************************************************************)
LEMMA FreeSectionTypes ==
  ASSUME stage \in [Thread -> Stages], NEW t \in Thread, FreeSection(t, "job") \/ FreeSection(t, "lower")
  PROVE  /\ stage' \in [Thread -> Stages]
         /\ section' = NoThread /\ nesting' = 0 /\ sectionOpen' \in BOOLEAN
<1>1. PICK to \in {"job", "lower"} : FreeSection(t, to)
  OBVIOUS
<1>2. to \in Stages /\ "reclaim" \in Stages
  BY DEF Stages
<1> QED BY <1>1, <1>2 DEF FreeSection

(***************************************************************************)
(* So do those of EndExecution: LeaveCode decrements a counter that is not *)
(* zero, and the section is not left to a thread without an execution.     *)
(***************************************************************************)
LEMMA EndStable ==
  ASSUME IInv, NEW t \in Thread
  PROVE  EndExecution(t) \/ End(t) => Stable'
<1> USE NoThreadAssumption, BoundAssumption
    DEF IInv, Stable, DepthOfStage, LockerHeld, OneCollector, Disallowed,
        NobodyInside, TurnHeld, SectionHeld, Entered, Executing, Collecting,
        ScriptStages, SectionStages, HoldingStages, garbageVars, sectionVars, Go
<1>1. EndExecution(t) => Stable'
  <2> SUFFICES ASSUME EndExecution(t) PROVE Stable'
    OBVIOUS
  <2>1. t \in Inside
    BY DEF EndExecution, InScript, Inside
  <2>2. mcCounter > 0
    BY <2>1, InsideFinite, ThreadAssumption, FS_Subset, FS_EmptySet DEF Counted, Inside
  <2>3. TypeOK'
    BY <2>2 DEF EndExecution, InScript, TypeOK, Stages
  <2> QED BY <2>3 DEF EndExecution, InScript, InJob, TypeOK
<1>2. GiveTurn(t) => Stable'
  BY DEF GiveTurn, TypeOK, Stages
<1>3. PopScript(t) => Stable'
  BY DEF PopScript, TypeOK, Stages
<1>4. CloseSection(t) => Stable'
  <2> SUFFICES ASSUME CloseSection(t) PROVE Stable'
    OBVIOUS
  <2>1. TypeOK'
    <3>1. CASE section = t
      BY <3>1, FreeSectionTypes DEF CloseSection, TypeOK
    <3>2. CASE section # t
      BY <3>2 DEF CloseSection, TypeOK, Stages
    <3> QED BY <3>1, <3>2
  <2> QED BY <2>1 DEF CloseSection, FreeSection, TypeOK
<1>5. PopSection(t) => Stable'
  BY DEF PopSection, TypeOK, Stages
<1> QED BY <1>1, <1>2, <1>3, <1>4, <1>5 DEF End

(***************************************************************************)
(* So do those of SynchronizeThread and ResynchronizeThread.               *)
(***************************************************************************)
LEMMA SectionStable ==
  ASSUME Stable, NEW t \in Thread
  PROVE  SynchronizeThread(t) \/ Section(t) \/ ResynchronizeThread(t) => Stable'
<1> USE NoThreadAssumption, BoundAssumption
    DEF Stable, DepthOfStage, LockerHeld, OneCollector, Disallowed,
        NobodyInside, TurnHeld, SectionHeld, Entered, Executing, Collecting,
        ScriptStages, SectionStages, HoldingStages, garbageVars, sectionVars, Go
<1>1. SynchronizeThread(t) => Stable'
  BY DEF SynchronizeThread, InScript, InJob, Spend, TypeOK, Stages
<1>2. EnterSection(t) => Stable'
  <2> SUFFICES ASSUME EnterSection(t) PROVE Stable'
    OBVIOUS
  <2>1. TypeOK'
    <3>1. nesting' \in 0..MaxDepth
      BY DEF EnterSection, TypeOK
    <3> QED BY <3>1 DEF EnterSection, TypeOK, Stages
  <2> QED BY <2>1 DEF EnterSection, TypeOK
<1>3. NestSection(t) => Stable'
  BY DEF NestSection, TypeOK, Stages
<1>4. SectionBusy(t) => Stable'
  BY DEF SectionBusy, TypeOK, Stages
<1>5. SuspendForSection(t) => Stable'
  BY DEF SuspendForSection, TypeOK, Stages
<1>6. WaitSection(t) => Stable'
  BY DEF WaitSection, TypeOK, Stages
<1>7. ResumeForSection(t) => Stable'
  BY DEF ResumeForSection, TypeOK, Stages
<1>8. PushSection(t) => Stable'
  BY DEF PushSection, TypeOK, Stages
<1>9. ResynchronizeThread(t) => Stable'
  <2> SUFFICES ASSUME ResynchronizeThread(t) PROVE Stable'
    OBVIOUS
  <2>1. nesting \in 1..MaxDepth
    BY DEF ResynchronizeThread, TypeOK
  <2>2. TypeOK'
    <3>1. CASE nesting = 1
      BY <3>1, FreeSectionTypes DEF ResynchronizeThread, TypeOK
    <3>2. CASE nesting # 1
      BY <2>1, <3>2 DEF ResynchronizeThread, TypeOK
    <3> QED BY <3>1, <3>2
  <2> QED BY <2>1, <2>2 DEF ResynchronizeThread, InScript, InJob, FreeSection, TypeOK
<1> QED BY <1>1, <1>2, <1>3, <1>4, <1>5, <1>6, <1>7, <1>8, <1>9 DEF Section

(***************************************************************************)
(* So do the collector's, which finds nobody inside when it reads zero.    *)
(***************************************************************************)
LEMMA CollectStable ==
  ASSUME IInv, NEW t \in Thread
  PROVE  GarbageJob(t) \/ Collect(t) => Stable'
<1> USE NoThreadAssumption, BoundAssumption
    DEF IInv, Stable, DepthOfStage, LockerHeld, OneCollector, Disallowed,
        NobodyInside, TurnHeld, SectionHeld, Entered, Executing, Collecting,
        ScriptStages, SectionStages, HoldingStages, garbageVars, sectionVars, Go
<1>1. GarbageJob(t) => Stable'
  BY DEF GarbageJob, Spend, TypeOK, Stages
<1>2. LockCode(t) => Stable'
  BY DEF LockCode, TypeOK, Stages
<1>3. DisallowCode(t) => Stable'
  <2> SUFFICES ASSUME DisallowCode(t) PROVE Stable'
    OBVIOUS
  <2>1. TypeOK'
    BY DEF DisallowCode, TypeOK, Stages
  <2> QED BY <2>1 DEF DisallowCode, TypeOK
<1>4. CodeEmpty(t) => Stable'
  <2> SUFFICES ASSUME CodeEmpty(t) PROVE Stable'
    OBVIOUS
  <2>1. \A u \in Thread : ~Executing(u)
    <3>1. Inside = {}
      BY ThreadAssumption, FS_Subset, FS_EmptySet DEF CodeEmpty, Counted, Inside
    <3> QED BY <3>1 DEF Inside
  <2>2. TypeOK' /\ DepthOfStage' /\ LockerHeld'
    BY DEF CodeEmpty, TypeOK, Stages
  <2>3. OneCollector' /\ Disallowed' /\ TurnHeld' /\ SectionHeld' /\ Entered'
    BY DEF CodeEmpty, TypeOK
  <2>4. NobodyInside'
    BY <2>1 DEF CodeEmpty, TypeOK
  <2> QED BY <2>2, <2>3, <2>4
<1>5. UnlockCode(t) => Stable'
  BY DEF UnlockCode, TypeOK, Stages
<1> QED BY <1>1, <1>2, <1>3, <1>4, <1>5 DEF Collect

(***************************************************************************)
(* And those of a job outside the locks of this module.                    *)
(***************************************************************************)
LEMMA JobStable ==
  ASSUME Stable, NEW t \in Thread
  PROVE  StartJob(t) \/ EndJob(t) \/ LockObject(t) \/ LockStep(t) => Stable'
BY NoThreadAssumption
DEF StartJob, EndJob, LockObject, LockStep, InJob, Spend, Go, Stable, TypeOK,
    DepthOfStage, LockerHeld, OneCollector, Disallowed, NobodyInside, TurnHeld,
    SectionHeld, Entered, Executing, Stages, Collecting, ScriptStages, SectionStages,
    HoldingStages, garbageVars, sectionVars

(***************************************************************************)
(* Every step keeps the invariant but for the counter.                     *)
(***************************************************************************)
LEMMA NextStable == IInv /\ [Next]_vars => Stable'
<1> SUFFICES ASSUME IInv, [Next]_vars PROVE Stable'
  OBVIOUS
<1>1. CASE UNCHANGED vars
  BY <1>1
  DEF IInv, Stable, TypeOK, DepthOfStage, LockerHeld, OneCollector, Disallowed,
      NobodyInside, TurnHeld, SectionHeld, Entered, Executing, vars, garbageVars, sectionVars
<1>2. CASE Next
  BY <1>2, BeginStable, EndStable, SectionStable, CollectStable, JobStable DEF Next, IInv
<1> QED BY <1>1, <1>2

(***************************************************************************)
(* The steps that leave the threads inside as they are ...                 *)
(***************************************************************************)
LEMMA Outside ==
  ASSUME Stable, NEW t \in Thread,
         \/ UNCHANGED vars
         \/ StartJob(t) \/ EndJob(t) \/ LockObject(t) \/ LockStep(t)
         \/ BeginExecution(t) \/ EnterCode(t) \/ WaitCode(t) \/ SuspendForTurn(t)
         \/ TakeTurn(t) \/ PushScript(t) \/ ResumeScript(t) \/ End(t)
         \/ SynchronizeThread(t) \/ Section(t) \/ ResynchronizeThread(t)
         \/ GarbageJob(t) \/ LockCode(t) \/ DisallowCode(t)
  PROVE  /\ Inside' = Inside /\ mcCounter' = mcCounter
         /\ \A u \in Thread : stage'[u] = "collect" <=> stage[u] = "collect"
<1> USE DEF Stable, TypeOK, DepthOfStage, Executing, Inside, Go, garbageVars,
            SectionStages, ScriptStages
<1>1. CASE UNCHANGED vars
  BY <1>1 DEF vars
<1>2. CASE StartJob(t) \/ EndJob(t) \/ LockObject(t) \/ LockStep(t)
  BY <1>2 DEF StartJob, EndJob, LockObject, LockStep
<1>3. CASE BeginExecution(t) \/ EnterCode(t) \/ WaitCode(t)
  BY <1>3 DEF BeginExecution, InJob, EnterCode, WaitCode
<1>4. CASE SuspendForTurn(t) \/ TakeTurn(t) \/ PushScript(t) \/ ResumeScript(t)
  BY <1>4 DEF SuspendForTurn, TakeTurn, PushScript, ResumeScript
<1>5. CASE End(t)
  BY <1>5 DEF End, GiveTurn, PopScript, CloseSection, PopSection, FreeSection
<1>6. CASE SynchronizeThread(t) \/ Section(t)
  BY <1>6
  DEF SynchronizeThread, Section, EnterSection, NestSection, SectionBusy,
      SuspendForSection, WaitSection, ResumeForSection, PushSection
<1>7. CASE ResynchronizeThread(t)
  BY <1>7 DEF ResynchronizeThread, InScript, InJob, FreeSection
<1>8. CASE GarbageJob(t) \/ LockCode(t) \/ DisallowCode(t)
  BY <1>8 DEF GarbageJob, LockCode, DisallowCode
<1> QED BY <1>1, <1>2, <1>3, <1>4, <1>5, <1>6, <1>7, <1>8

(***************************************************************************)
(* ... and those that do not: CountCode counts the thread it adds, nobody  *)
(* collecting; the outermost EndExecution removes one; a collection begins *)
(* when nobody is inside.                                                  *)
(***************************************************************************)
LEMMA InsideStep ==
  ASSUME IInv, NEW t \in Thread
  PROVE  /\ CountCode(t) =>
              /\ t \notin Inside /\ Inside' = Inside \cup {t}
              /\ mcCounter' = mcCounter + 1
              /\ \A u \in Thread : stage[u] # "collect" /\ stage'[u] # "collect"
         /\ EndExecution(t) =>
              /\ \/ Inside' = Inside /\ mcCounter' = mcCounter
                 \/ t \in Inside /\ Inside' = Inside \ {t} /\ mcCounter' = mcCounter - 1
              /\ \A u \in Thread : stage'[u] = "collect" <=> stage[u] = "collect"
         /\ CodeEmpty(t) =>
              /\ Inside = {} /\ Inside' = {} /\ mcCounter' = mcCounter
              /\ \A u \in Thread : stage[u] # "collect"
              /\ \A u \in Thread : stage'[u] = "collect" <=> u = t
         /\ UnlockCode(t) =>
              /\ Inside' = Inside /\ mcCounter' = mcCounter
              /\ stage[t] = "collect"
              /\ \A u \in Thread : stage'[u] # "collect"
<1> USE DEF IInv, Stable, TypeOK, Executing, Inside, Go
<1>1. CountCode(t) =>
        /\ t \notin Inside /\ Inside' = Inside \cup {t}
        /\ mcCounter' = mcCounter + 1
        /\ \A u \in Thread : stage[u] # "collect" /\ stage'[u] # "collect"
  BY DEF CountCode, DepthOfStage, ScriptStages, SectionStages, NobodyInside
<1>2. EndExecution(t) =>
        /\ \/ Inside' = Inside /\ mcCounter' = mcCounter
           \/ t \in Inside /\ Inside' = Inside \ {t} /\ mcCounter' = mcCounter - 1
        /\ \A u \in Thread : stage'[u] = "collect" <=> stage[u] = "collect"
  BY DEF EndExecution, InScript, InJob
<1>3. ASSUME CodeEmpty(t)
      PROVE  /\ Inside = {} /\ Inside' = {} /\ mcCounter' = mcCounter
             /\ \A u \in Thread : stage[u] # "collect"
             /\ \A u \in Thread : stage'[u] = "collect" <=> u = t
  <2>1. Inside = {}
    BY <1>3, InsideFinite, FS_EmptySet DEF CodeEmpty, Counted
  <2>2. Inside' = Inside
    BY <1>3 DEF CodeEmpty
  <2>3. \A u \in Thread : stage[u] = "collect" => u = t
    BY <1>3 DEF CodeEmpty, OneCollector, Collecting
  <2> QED BY <1>3, <2>1, <2>2, <2>3 DEF CodeEmpty
<1>4. UnlockCode(t) =>
        /\ Inside' = Inside /\ mcCounter' = mcCounter
        /\ stage[t] = "collect"
        /\ \A u \in Thread : stage'[u] # "collect"
  BY DEF UnlockCode, OneCollector, Collecting, DepthOfStage, ScriptStages, SectionStages
<1> QED BY <1>1, <1>2, <1>3, <1>4

(***************************************************************************)
(* Every step keeps the counter that of the threads inside.                *)
(***************************************************************************)
LEMMA NextCounted == IInv /\ [Next]_vars => Counted'
<1> SUFFICES ASSUME IInv, [Next]_vars PROVE Counted'
  OBVIOUS
<1>1. ASSUME NEW t \in Thread, CountCode(t) PROVE Counted'
  BY <1>1, InsideStep, InsideFinite, FS_AddElement DEF IInv, Counted
<1>2. ASSUME NEW t \in Thread, EndExecution(t) PROVE Counted'
  BY <1>2, InsideStep, InsideFinite, FS_RemoveElement DEF IInv, Counted
<1>3. ASSUME NEW t \in Thread, CodeEmpty(t) \/ UnlockCode(t) PROVE Counted'
  BY <1>3, InsideStep DEF IInv, Counted
<1>4. CASE UNCHANGED vars
  BY <1>4 DEF vars, garbageVars, IInv, Counted, Inside, Executing
<1> QED BY <1>1, <1>2, <1>3, <1>4, Outside DEF Next, Begin, Collect, IInv, Counted

(***************************************************************************)
(* The inductive invariant holds of every run.                             *)
(***************************************************************************)
THEOREM Invariance == Spec => []IInv
<1>1. IInv /\ [Next]_vars => IInv'
  BY NextStable, NextCounted DEF IInv
<1> QED BY <1>1, InitIInv, PTL DEF Spec

(***************************************************************************)
(* Types, whatever the number of threads, calls and nested executions.     *)
(***************************************************************************)
THEOREM TypeCorrect == Spec => []TypeOK
<1>1. IInv => TypeOK
  BY DEF IInv, Stable
<1> QED BY <1>1, Invariance, PTL

(***************************************************************************)
(* The garbage is collected while no thread executes a script, and the     *)
(* counter of GarbageLocker is the number of threads that do.              *)
(***************************************************************************)
THEOREM CollectorExcludes == Spec => []CollectorAlone
<1>1. IInv => CollectorAlone
  BY DEF IInv, Stable, Counted, Inside, NobodyInside, CollectorAlone
<1> QED BY <1>1, Invariance, PTL

(***************************************************************************)
(* One thread at a time has the turn or the section, and only while its    *)
(* execution lasts.                                                        *)
(***************************************************************************)
THEOREM TakingTurns == Spec => []OneAtATime
<1>1. IInv => OneAtATime
  BY DEF IInv, Stable, TurnHeld, SectionHeld, OneAtATime
<1> QED BY <1>1, Invariance, PTL

(***************************************************************************)
(* MutexCode around scripts and collector, with its counter, event and     *)
(* mutex, implements CodeGuard.                                            *)
(***************************************************************************)
THEOREM Refinement == Spec => ImplementsGuard
<1>1. Init => Guard!Init
  BY DEF Init, Guard!Init, Executing
<1>2. IInv /\ [Next]_vars => [Guard!Next]_Guard!vars
  <2> SUFFICES ASSUME IInv, [Next]_vars PROVE [Guard!Next]_Guard!vars
    OBVIOUS
  <2> USE DEF Inside
  <2>1. ASSUME NEW t \in Thread, CountCode(t) PROVE Guard!EnterCode(t)
    BY <2>1, InsideStep DEF Guard!EnterCode
  <2>2. ASSUME NEW t \in Thread, EndExecution(t)
        PROVE  Guard!LeaveCode(t) \/ UNCHANGED Guard!vars
    BY <2>2, InsideStep DEF Guard!LeaveCode, Guard!vars
  <2>3. ASSUME NEW t \in Thread, CodeEmpty(t) PROVE Guard!LockCode(t)
    BY <2>3, InsideStep DEF Guard!LockCode
  <2>4. ASSUME NEW t \in Thread, UnlockCode(t) PROVE Guard!UnlockCode(t)
    BY <2>4, InsideStep DEF Guard!UnlockCode
  <2>5. ASSUME Inside' = Inside, \A u \in Thread : stage'[u] = "collect" <=> stage[u] = "collect"
        PROVE  UNCHANGED Guard!vars
    BY <2>5 DEF Guard!vars
  <2>6. CASE UNCHANGED vars
    BY <2>6, <2>5 DEF vars, Executing
  <2>7. CASE Next
    BY <2>1, <2>2, <2>3, <2>4, <2>5, <2>7, Outside
    DEF Next, Begin, Collect, IInv, Guard!Next
  <2> QED BY <2>6, <2>7
<1> QED BY <1>1, <1>2, Invariance, PTL DEF Spec, ImplementsGuard, Guard!Spec

-----------------------------------------------------------------------------
(***************************************************************************)
(* The priorities: whether the execution's is pushed, and the section's.   *)
(***************************************************************************)
Pushed(t) == depth[t] > 0 \/ stage[t] \in {"resume", "left", "pop"}

Raised(t) == stage[t] = "lower" \/ (section = t /\ stage[t] # "raise")

HasPriority(t, p, stack) == threadPriority[t] = p /\ priorityStack[t] = stack

PriorityOfStage ==
  /\ threadPriority \in [Thread -> Nat]
  /\ priorityStack \in [Thread -> Seq(Nat)]
  /\ \A t \in Thread :
       /\ ~Pushed(t) /\ ~Raised(t) => HasPriority(t, 3, <<>>)
       /\ Pushed(t) /\ ~Raised(t) => HasPriority(t, 5, <<3>>)
       /\ ~Pushed(t) /\ Raised(t) => HasPriority(t, 5, <<3>>)
       /\ Pushed(t) /\ Raised(t) => HasPriority(t, 10, <<5, 3>>)

(***************************************************************************)
(* A thread has the priority it began with in Init.                        *)
(***************************************************************************)
LEMMA InitPriority == Init => PriorityOfStage
BY NoThreadAssumption
DEF Init, Locks!Init, DefaultPriority, PriorityOfStage, Pushed, Raised, HasPriority

(***************************************************************************)
(* Four steps push and pop ...                                             *)
(***************************************************************************)
Prioritize(t) == PushScript(t) \/ PushSection(t) \/ PopScript(t) \/ PopSection(t)

(***************************************************************************)
(* ... and no other step changes a priority or what is pushed.             *)
(***************************************************************************)
LEMMA SamePriority ==
  ASSUME IInv, [Next]_vars, \A t \in Thread : ~Prioritize(t)
  PROVE  /\ UNCHANGED <<threadPriority, priorityStack>>
         /\ \A u \in Thread : Pushed(u)' = Pushed(u) /\ Raised(u)' = Raised(u)
<1> DEFINE Same == /\ UNCHANGED <<threadPriority, priorityStack>>
                   /\ \A u \in Thread : (Pushed(u)' <=> Pushed(u)) /\ (Raised(u)' <=> Raised(u))
<1> USE NoThreadAssumption
    DEF IInv, Stable, TypeOK, DepthOfStage, SectionHeld, ScriptStages,
        SectionStages, Pushed, Raised, Go, sectionVars, lockVars, Locks!priority
<1>1. CASE UNCHANGED vars
  BY <1>1 DEF vars
<1>2. ASSUME NEW t \in Thread, StartJob(t) \/ EndJob(t) PROVE Same
  BY <1>2 DEF StartJob, EndJob, Locks!UnlockAll
<1>3. ASSUME NEW t \in Thread, LockObject(t) \/ LockStep(t) PROVE Same
  BY <1>3 DEF LockObject, LockStep, Locks!Lock, Locks!WaitRound, Locks!Relock
<1>4. ASSUME NEW t \in Thread, BeginExecution(t) PROVE Same
  BY <1>4 DEF BeginExecution, InJob
<1>5. ASSUME NEW t \in Thread, Begin(t) PROVE Same
  BY <1>5
  DEF Prioritize, Begin, EnterCode, WaitCode, CountCode, SuspendForTurn,
      TakeTurn, ResumeScript, Locks!Suspend, Locks!Resume
<1>6. ASSUME NEW t \in Thread, EndExecution(t) PROVE Same
  BY <1>6 DEF EndExecution, InScript, InJob
<1>7. ASSUME NEW t \in Thread, End(t) PROVE Same
  BY <1>7 DEF Prioritize, End, GiveTurn, CloseSection, FreeSection
<1>8. ASSUME NEW t \in Thread, SynchronizeThread(t) PROVE Same
  BY <1>8 DEF SynchronizeThread, InScript, InJob
<1>9. ASSUME NEW t \in Thread, Section(t) PROVE Same
  BY <1>9
  DEF Prioritize, Section, EnterSection, NestSection, SectionBusy,
      SuspendForSection, WaitSection, ResumeForSection, Locks!Suspend, Locks!Resume
<1>10. ASSUME NEW t \in Thread, ResynchronizeThread(t) PROVE Same
  BY <1>10 DEF ResynchronizeThread, InScript, InJob, FreeSection
<1>11. ASSUME NEW t \in Thread, GarbageJob(t) \/ Collect(t) PROVE Same
  BY <1>11 DEF GarbageJob, Collect, LockCode, DisallowCode, CodeEmpty, UnlockCode
<1> QED BY <1>1, <1>2, <1>3, <1>4, <1>5, <1>6, <1>7, <1>8, <1>9, <1>10, <1>11 DEF Next

(***************************************************************************)
(* Two stacks of two priorities are equal when their priorities are.       *)
(***************************************************************************)
LEMMA PairsEqual ==
  ASSUME NEW s \in Seq(Nat), NEW u \in Seq(Nat), Len(s) = 2, Len(u) = 2,
         \A i \in 1..2 : s[i] = u[i]
  PROVE  s = u
BY SeqEqual

(***************************************************************************)
(* The stacks there are, and what PushPriority and PopPriority make them.  *)
(***************************************************************************)
LEMMA Stacks ==
  /\ Head(<<3>>) = 3 /\ Tail(<<3>>) = <<>> /\ <<3>> \o <<>> = <<3>>
  /\ Head(<<5, 3>>) = 5 /\ Tail(<<5, 3>>) = <<3>> /\ <<5>> \o <<3>> = <<5, 3>>
<1>1. Head(<<3>>) = 3 /\ Tail(<<3>>) = <<>>
  OBVIOUS
<1>2. Head(<<5, 3>>) = 5 /\ Tail(<<5, 3>>) = <<3>>
  OBVIOUS
<1>3. <<3>> \o <<>> = <<3>>
  OBVIOUS
<1>4. <<5>> \o <<3>> = <<5, 3>>
  <2>1. <<5>> \o <<3>> \in Seq(Nat) /\ <<5, 3>> \in Seq(Nat)
    OBVIOUS
  <2>2. Len(<<5>> \o <<3>>) = 2 /\ Len(<<5, 3>>) = 2
    OBVIOUS
  <2>3. \A i \in 1..2 : (<<5>> \o <<3>>)[i] = <<5, 3>>[i]
    OBVIOUS
  <2> QED BY <2>1, <2>2, <2>3, PairsEqual, Zenon
<1> QED BY <1>1, <1>2, <1>3, <1>4

(***************************************************************************)
(* The four steps push and pop on the stack of their thread, ...           *)
(***************************************************************************)
LEMMA PrioritizeTypes ==
  ASSUME PriorityOfStage, NEW t \in Thread, Prioritize(t)
  PROVE  \E p \in Nat, s \in Seq(Nat) :
           /\ threadPriority' = [threadPriority EXCEPT ![t] = p]
           /\ priorityStack' = [priorityStack EXCEPT ![t] = s]
<1>1. ASSUME NEW p \in Nat, Locks!PushPriority(t, p)
      PROVE  \E q \in Nat, s \in Seq(Nat) :
               /\ threadPriority' = [threadPriority EXCEPT ![t] = q]
               /\ priorityStack' = [priorityStack EXCEPT ![t] = s]
  <2>1. <<threadPriority[t]>> \o priorityStack[t] \in Seq(Nat)
    BY DEF PriorityOfStage
  <2> QED BY <1>1, <2>1 DEF Locks!PushPriority
<1>2. ASSUME Locks!PopPriority(t)
      PROVE  \E q \in Nat, s \in Seq(Nat) :
               /\ threadPriority' = [threadPriority EXCEPT ![t] = q]
               /\ priorityStack' = [priorityStack EXCEPT ![t] = s]
  <2>1. priorityStack[t] \in Seq(Nat) /\ priorityStack[t] # <<>>
    BY <1>2 DEF PriorityOfStage, Locks!PopPriority
  <2>2. Head(priorityStack[t]) \in Nat /\ Tail(priorityStack[t]) \in Seq(Nat)
    BY <2>1
  <2> QED BY <1>2, <2>2 DEF Locks!PopPriority
<1> QED BY <1>1, <1>2 DEF Prioritize, PushScript, PushSection, PopScript, PopSection

(***************************************************************************)
(* ... and what the stage says of it becomes true again.                   *)
(***************************************************************************)
LEMMA PrioritizeKeeps ==
  ASSUME IInv, PriorityOfStage, NEW t \in Thread, Prioritize(t)
  PROVE  PriorityOfStage'
<1> DEFINE Now(p, stack) == threadPriority'[t] = p /\ priorityStack'[t] = stack
<1> USE DEF Pushed, Raised
<1>1. PICK p \in Nat, s \in Seq(Nat) :
        /\ threadPriority' = [threadPriority EXCEPT ![t] = p]
        /\ priorityStack' = [priorityStack EXCEPT ![t] = s]
  BY PrioritizeTypes
<1>2. /\ threadPriority' \in [Thread -> Nat] /\ priorityStack' \in [Thread -> Seq(Nat)]
      /\ \A u \in Thread \ {t} :
           threadPriority'[u] = threadPriority[u] /\ priorityStack'[u] = priorityStack[u]
  BY <1>1 DEF PriorityOfStage
<1>3. \A u \in Thread \ {t} : (Pushed(u)' <=> Pushed(u)) /\ (Raised(u)' <=> Raised(u))
  BY DEF IInv, Stable, TypeOK, Prioritize, PushScript, PushSection, PopScript, PopSection,
         Go, sectionVars
<1>4. DepthOfStage /\ stage \in [Thread -> Stages] /\ depth \in [Thread -> 0..MaxDepth]
  BY DEF IInv, Stable, TypeOK
<1>5. section = t => nesting > 0 /\ (depth[t] > 0 \/ stage[t] \in {"left", "close"})
  BY NoThreadAssumption DEF IInv, Stable, SectionHeld
<1>6. ASSUME PushScript(t) PROVE Now(5, <<3>>) /\ Pushed(t)' /\ ~Raised(t)'
  <2>1. ~Pushed(t) /\ ~Raised(t) /\ section # t
    BY <1>4, <1>5, <1>6 DEF PushScript, Go, DepthOfStage, ScriptStages, SectionStages
  <2>2. Now(5, <<3>>)
    BY <1>6, <2>1, Stacks DEF PushScript, Locks!PushPriority, PriorityOfStage, HasPriority
  <2>3. Pushed(t)' /\ ~Raised(t)'
    BY <1>4, <1>6, <2>1 DEF PushScript, Go, sectionVars
  <2> QED BY <2>2, <2>3
<1>7. ASSUME PushSection(t), section = t PROVE Now(10, <<5, 3>>) /\ Pushed(t)' /\ Raised(t)'
  <2>1. Pushed(t) /\ ~Raised(t)
    BY <1>4, <1>7 DEF PushSection, Go, DepthOfStage, SectionStages
  <2>2. Now(10, <<5, 3>>)
    BY <1>7, <2>1, Stacks DEF PushSection, Locks!PushPriority, PriorityOfStage, HasPriority
  <2>3. Pushed(t)' /\ Raised(t)'
    BY <1>4, <1>7, <2>1 DEF PushSection, Go, sectionVars
  <2> QED BY <2>2, <2>3
<1>8. ASSUME PopScript(t), ~Raised(t) PROVE Now(3, <<>>) /\ ~Pushed(t)' /\ ~Raised(t)'
  <2>1. Pushed(t) /\ depth[t] = 0
    BY <1>4, <1>8 DEF PopScript, Go, DepthOfStage, ScriptStages, SectionStages
  <2>2. Now(3, <<>>)
    BY <1>8, <2>1, Stacks DEF PopScript, Locks!PopPriority, PriorityOfStage, HasPriority
  <2>3. ~Pushed(t)' /\ ~Raised(t)'
    BY <1>4, <1>8, <2>1 DEF PopScript, Go, sectionVars
  <2> QED BY <2>2, <2>3
<1>9. ASSUME PopScript(t), Raised(t) PROVE Now(5, <<3>>) /\ ~Pushed(t)' /\ Raised(t)'
  <2>1. Pushed(t) /\ depth[t] = 0 /\ section = t
    BY <1>4, <1>9 DEF PopScript, Go, DepthOfStage, ScriptStages, SectionStages
  <2>2. Now(5, <<3>>)
    BY <1>9, <2>1, Stacks DEF PopScript, Locks!PopPriority, PriorityOfStage, HasPriority
  <2>3. ~Pushed(t)' /\ Raised(t)'
    BY <1>4, <1>9, <2>1 DEF PopScript, Go, sectionVars
  <2> QED BY <2>2, <2>3
<1>10. ASSUME PopSection(t), section # t
       PROVE  /\ ~Raised(t)'
              /\ Pushed(t)' => Now(5, <<3>>)
              /\ ~Pushed(t)' => Now(3, <<>>)
  <2>1. Raised(t) /\ (Pushed(t)' <=> Pushed(t)) /\ ~Raised(t)'
    BY <1>4, <1>10 DEF PopSection, Go, sectionVars
  <2>2. Pushed(t) => Now(5, <<3>>)
    BY <1>10, <2>1, Stacks DEF PopSection, Locks!PopPriority, PriorityOfStage, HasPriority
  <2>3. ~Pushed(t) => Now(3, <<>>)
    BY <1>10, <2>1, Stacks DEF PopSection, Locks!PopPriority, PriorityOfStage, HasPriority
  <2> QED BY <2>1, <2>2, <2>3
<1>11. (PushSection(t) => section = t) /\ (PopSection(t) => section # t)
  BY DEF IInv, Stable, Entered, PushSection, PopSection, Go
<1>12. /\ ~Pushed(t)' /\ ~Raised(t)' => Now(3, <<>>)
       /\ Pushed(t)' /\ ~Raised(t)' => Now(5, <<3>>)
       /\ ~Pushed(t)' /\ Raised(t)' => Now(5, <<3>>)
       /\ Pushed(t)' /\ Raised(t)' => Now(10, <<5, 3>>)
  BY <1>6, <1>7, <1>8, <1>9, <1>10, <1>11 DEF Prioritize
<1>13. \A u \in Thread \ {t} :
         /\ ~Pushed(u)' /\ ~Raised(u)' => HasPriority(u, 3, <<>>)'
         /\ Pushed(u)' /\ ~Raised(u)' => HasPriority(u, 5, <<3>>)'
         /\ ~Pushed(u)' /\ Raised(u)' => HasPriority(u, 5, <<3>>)'
         /\ Pushed(u)' /\ Raised(u)' => HasPriority(u, 10, <<5, 3>>)'
  <2> HIDE DEF Pushed, Raised
  <2> QED BY <1>2, <1>3 DEF PriorityOfStage, HasPriority
<1> HIDE DEF Pushed, Raised
<1> QED BY <1>2, <1>12, <1>13 DEF PriorityOfStage, HasPriority

(***************************************************************************)
(* What is pushed and popped is what the stage says.                       *)
(***************************************************************************)
LEMMA NextPriority == IInv /\ PriorityOfStage /\ [Next]_vars => PriorityOfStage'
<1> SUFFICES ASSUME IInv, PriorityOfStage, [Next]_vars PROVE PriorityOfStage'
  OBVIOUS
<1>1. CASE \A t \in Thread : ~Prioritize(t)
  BY <1>1, SamePriority DEF PriorityOfStage, HasPriority
<1> QED BY <1>1, PrioritizeKeeps

(***************************************************************************)
(* Every execution and every section pops what it has pushed, whatever the *)
(* order in which the script closes its section and ends.                  *)
(***************************************************************************)
THEOREM PrioritiesPaired == Spec => []PriorityPaired
<1>1. IInv /\ PriorityOfStage => PriorityPaired
  <2> SUFFICES ASSUME IInv, PriorityOfStage, NEW t \in Thread
               PROVE  /\ stage[t] = "idle" => threadPriority[t] = DefaultPriority /\ priorityStack[t] = <<>>
                      /\ stage[t] = "job" => threadPriority[t] =
                           CASE depth[t] = 0 -> DefaultPriority
                             [] depth[t] > 0 /\ section = t -> 10
                             [] OTHER -> 5
    BY DEF PriorityPaired
  <2>1. depth[t] \in Nat /\ (stage[t] = "idle" => depth[t] = 0)
    BY DEF IInv, Stable, TypeOK, DepthOfStage, ScriptStages, SectionStages
  <2>2. stage[t] \in {"idle", "job"} /\ section = t => depth[t] > 0
    BY NoThreadAssumption DEF IInv, Stable, SectionHeld
  <2>3. CASE stage[t] = "idle"
    BY <2>1, <2>2, <2>3 DEF PriorityOfStage, HasPriority, Pushed, Raised, DefaultPriority
  <2>4. CASE stage[t] = "job"
    BY <2>1, <2>2, <2>4 DEF PriorityOfStage, HasPriority, Pushed, Raised, DefaultPriority
  <2> QED BY <2>3, <2>4
<1> QED BY <1>1, InitPriority, NextPriority, Invariance, PTL DEF Spec
=============================================================================
