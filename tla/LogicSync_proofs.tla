--------------------------- MODULE LogicSync_proofs ---------------------------
(***************************************************************************)
(* Proofs about stopping the world, for any number of logic threads, and   *)
(* about the objects of the threads that stand still.  The assumption is   *)
(* that no admin panel thread calls SynchronizeLogicThreads: count is the  *)
(* number of the OTHER logic and main threads only when the caller is one  *)
(* of them.                                                                *)
(***************************************************************************)
EXTENDS LogicSync, FiniteSetTheorems, TLAPS

Parties == Logic \cup {Main}

InBarrier == {"lock", "wait", "sleep"}

(***************************************************************************)
(* The thread has read the full count and has not resynchronized yet.      *)
(***************************************************************************)
Stopping(t) ==
  stage[t] \in {"resume", "alone"} \/ (stage[t] = "leave" /\ ~inPoint[t])

(***************************************************************************)
(* The inductive invariant: types and book-keeping, admin threads out of   *)
(* the synchronizer, the event disallowed from the spin on, and everybody  *)
(* else standing in the synchronizer once the count is reached.            *)
(***************************************************************************)
AdminsOutside == \A a \in Admins : stage[a] \in {"idle", "job"}

SpinDisallowed == \A t \in Threads : stage[t] = "spin" => ~allowed

Stopped ==
  \A t \in Threads : Stopping(t) =>
    /\ ~allowed
    /\ \A u \in Parties \ {t} : stage[u] \in InBarrier

OnlyParties == Synchronizers \cap Admins = {}

IInv == /\ OnlyParties
        /\ TypeOK
        /\ BarrierConsistent
        /\ AdminsOutside
        /\ SpinDisallowed
        /\ Stopped

(***************************************************************************)
(* There are finitely many threads, and finitely many are counted.         *)
(***************************************************************************)
LEMMA ThreadsFinite == IsFiniteSet(Threads)
<1>1. IsFiniteSet({Main})
  BY FS_Singleton
<1>2. IsFiniteSet(Logic \cup {Main})
  BY <1>1, ThreadsAssumption, FS_Union
<1> QED BY <1>2, ThreadsAssumption, FS_Union DEF Threads

(***************************************************************************)
(* So that msCounter can be the number of counted threads.                 *)
(***************************************************************************)
LEMMA CountedFinite == IsFiniteSet(Counted)
BY ThreadsFinite, FS_Subset DEF Counted

(***************************************************************************)
(* Init establishes the inductive invariant.                               *)
(***************************************************************************)
LEMMA InitIInv == OnlyParties /\ Init => IInv
<1> SUFFICES ASSUME OnlyParties, Init PROVE IInv
  OBVIOUS
<1>1. TypeOK
  BY DEF Init, TypeOK, Stages
<1>2. Counted = {}
  BY DEF Init, Counted
<1>3. BarrierConsistent
  BY <1>2, FS_EmptySet, ThreadsAssumption DEF Init, BarrierConsistent, HasLocker
<1>4. AdminsOutside /\ SpinDisallowed /\ Stopped
  BY DEF Init, AdminsOutside, SpinDisallowed, Stopped, Stopping, Threads
<1> QED BY <1>1, <1>3, <1>4 DEF IInv

(***************************************************************************)
(* When the spinning thread reads the full count, every other logic or     *)
(* main thread has come and is kept out by the mutex: the counting         *)
(* argument of MutexSynchronizer::Synchronize.                             *)
(***************************************************************************)
LEMMA FullCount ==
  ASSUME IInv, NEW t \in Threads, stage[t] = "spin",
         msCounter = Cardinality(Logic)
  PROVE  \A u \in Parties \ {t} : stage[u] = "lock"
<1> USE DEF IInv
<1>1. t \in Parties
  BY DEF AdminsOutside, Threads, Parties
<1>2. IsFiniteSet(Parties) /\ Cardinality(Parties) = Cardinality(Logic) + 1
  BY ThreadsAssumption, FS_AddElement DEF Parties
<1>3. /\ IsFiniteSet(Parties \ {t})
      /\ Cardinality(Parties \ {t}) = Cardinality(Logic)
  <2>1. Cardinality(Logic) \in Nat
    BY ThreadsAssumption, FS_CardinalityType
  <2>2. /\ IsFiniteSet(Parties \ {t})
        /\ Cardinality(Parties \ {t}) = Cardinality(Parties) - 1
    BY <1>1, <1>2, FS_RemoveElement
  <2> QED BY <1>2, <2>1, <2>2
<1>4. Counted \subseteq Parties \ {t}
  BY DEF AdminsOutside, Counted, Threads, Parties
<1>5. Counted = Parties \ {t}
  BY <1>3, <1>4, FS_Subset DEF BarrierConsistent
<1> QED
  BY <1>5 DEF Counted, BarrierConsistent, HasLocker, Threads, Parties

(***************************************************************************)
(* What a step of thread t does to the counted set when it moves t between *)
(* stages and no other thread moves.                                       *)
(***************************************************************************)
LEMMA CountedMove ==
  ASSUME IInv, NEW t \in Threads, NEW from, NEW to, Go(t, from, to)
  PROVE  /\ \A u \in Threads \ {t} : stage'[u] = stage[u]
         /\ stage[t] = from /\ stage'[t] = to
         /\ from \notin {"lock", "wait", "sleep", "passed"} /\ to \in {"lock", "wait", "sleep", "passed"}
              => Cardinality(Counted') = Cardinality(Counted) + 1
         /\ from \in {"lock", "wait", "sleep", "passed"} /\ to \notin {"lock", "wait", "sleep", "passed"}
              => Cardinality(Counted') = Cardinality(Counted) - 1
         /\ (from \in {"lock", "wait", "sleep", "passed"} <=> to \in {"lock", "wait", "sleep", "passed"})
              => Counted' = Counted
<1> USE DEF IInv
<1>1. /\ \A u \in Threads \ {t} : stage'[u] = stage[u]
      /\ stage[t] = from /\ stage'[t] = to
  BY DEF Go, TypeOK
<1>2. ASSUME from \notin {"lock", "wait", "sleep", "passed"}, to \in {"lock", "wait", "sleep", "passed"}
      PROVE  Cardinality(Counted') = Cardinality(Counted) + 1
  <2>1. t \notin Counted /\ Counted' = Counted \cup {t}
    BY <1>1, <1>2 DEF Counted
  <2> QED BY <2>1, CountedFinite, FS_AddElement
<1>3. ASSUME from \in {"lock", "wait", "sleep", "passed"}, to \notin {"lock", "wait", "sleep", "passed"}
      PROVE  Cardinality(Counted') = Cardinality(Counted) - 1
  <2>1. t \in Counted /\ Counted' = Counted \ {t}
    BY <1>1, <1>3 DEF Counted
  <2> QED BY <2>1, CountedFinite, FS_RemoveElement
<1>4. ASSUME from \in {"lock", "wait", "sleep", "passed"} <=> to \in {"lock", "wait", "sleep", "passed"}
      PROVE  Counted' = Counted
  BY <1>1, <1>4 DEF Counted
<1> QED BY <1>1, <1>2, <1>3, <1>4

(***************************************************************************)
(* A thread that moves outside the synchronizer disturbs nothing: no other *)
(* thread can be stopping, or it would have found this one inside.         *)
(***************************************************************************)
LEMMA OutsideMove ==
  ASSUME IInv, TypeOK', NEW t \in Threads,
         NEW from \in {"idle", "job", "join"},
         NEW to \in {"idle", "job", "arrive", "join", "done"},
         Go(t, from, to), t \in Admins => to \in {"idle", "job"},
         \A u \in Threads \ {t} : inPoint'[u] = inPoint[u],
         UNCHANGED barrier
  PROVE  IInv'
<1> USE DEF IInv
<1>1. /\ \A u \in Threads \ {t} : stage'[u] = stage[u]
      /\ stage[t] = from /\ stage'[t] = to
      /\ Counted' = Counted
  BY CountedMove
<1>2. BarrierConsistent'
  BY <1>1 DEF BarrierConsistent, HasLocker, barrier
<1>3. AdminsOutside' /\ SpinDisallowed'
  BY <1>1 DEF AdminsOutside, SpinDisallowed, Threads, barrier
<1>4. Stopped'
  BY <1>1 DEF AdminsOutside, Stopped, Stopping, InBarrier, Threads, Parties, barrier
<1> QED BY <1>2, <1>3, <1>4 DEF OnlyParties

(***************************************************************************)
(* A step that leaves stages and synchronizer alone keeps the invariant.   *)
(***************************************************************************)
LEMMA SameBarrier ==
  ASSUME IInv, TypeOK', UNCHANGED <<stage, inPoint, barrier>>
  PROVE  IInv'
BY DEF IInv, BarrierConsistent, AdminsOutside, SpinDisallowed, Stopped, Stopping,
       HasLocker, Counted, OnlyParties, barrier

(***************************************************************************)
(* Every step keeps the inductive invariant.                               *)
(***************************************************************************)
LEMMA NextIInv == IInv /\ [Next]_vars => IInv'
<1> SUFFICES ASSUME IInv, [Next]_vars PROVE IInv'
  OBVIOUS
<1> USE DEF IInv
<1>0. OnlyParties'
  BY DEF OnlyParties
<1>1. ASSUME NEW t \in Threads, Arrive(t) PROVE IInv'
  <2>1. Cardinality(Counted') = Cardinality(Counted) + 1
    BY <1>1, CountedMove DEF Arrive
  <2>2. TypeOK'
    BY <1>1 DEF Arrive, Go, TypeOK, Stages, ending
  <2>3. BarrierConsistent'
    BY <1>1, <2>1 DEF Arrive, Go, TypeOK, BarrierConsistent, HasLocker
  <2>4. AdminsOutside' /\ SpinDisallowed'
    BY <1>1 DEF Arrive, Go, TypeOK, AdminsOutside, SpinDisallowed
  <2>5. Stopped'
    BY <1>1 DEF Arrive, Go, TypeOK, AdminsOutside, Stopped, Stopping, InBarrier, Threads, Parties
  <2> QED BY <1>0, <2>2, <2>3, <2>4, <2>5
<1>2. ASSUME NEW t \in Threads, TakeLocker(t) PROVE IInv'
  <2>1. Counted' = Counted
    BY <1>2, CountedMove DEF TakeLocker
  <2>2. TypeOK'
    BY <1>2 DEF TakeLocker, Go, TypeOK, Stages, ending
  <2>3. BarrierConsistent'
    BY <1>2, <2>1, ThreadsAssumption DEF TakeLocker, Go, TypeOK, BarrierConsistent, HasLocker
  <2>4. AdminsOutside' /\ SpinDisallowed'
    BY <1>2 DEF TakeLocker, Go, TypeOK, AdminsOutside, SpinDisallowed
  <2>5. Stopped'
    BY <1>2 DEF TakeLocker, Go, TypeOK, AdminsOutside, Stopped, Stopping, InBarrier, Threads, Parties
  <2> QED BY <1>0, <2>2, <2>3, <2>4, <2>5
<1>3. ASSUME NEW t \in Threads, WaitEvent(t) PROVE IInv'
  <2>1. Counted' = Counted
    BY <1>3, CountedMove DEF WaitEvent
  <2>2. TypeOK'
    BY <1>3 DEF WaitEvent, Go, TypeOK, Stages, barrier, ending
  <2>3. BarrierConsistent'
    BY <1>3, <2>1 DEF WaitEvent, Go, TypeOK, BarrierConsistent, HasLocker, barrier
  <2>4. AdminsOutside' /\ SpinDisallowed'
    BY <1>3 DEF WaitEvent, Go, TypeOK, AdminsOutside, SpinDisallowed, barrier
  <2>5. Stopped'
    BY <1>3 DEF WaitEvent, Go, TypeOK, AdminsOutside, Stopped, Stopping, InBarrier, Threads, Parties, barrier
  <2> QED BY <1>0, <2>2, <2>3, <2>4, <2>5
<1>4. ASSUME NEW t \in Threads, Pass(t) PROVE IInv'
  <2>1. Cardinality(Counted') = Cardinality(Counted) - 1
    BY <1>4, CountedMove DEF Pass
  <2>2. BarrierConsistent'
    BY <1>4, <2>1 DEF Pass, Go, TypeOK, BarrierConsistent, HasLocker
  <2>3. TypeOK'
    <3>1. t \in Counted
      BY <1>4 DEF Pass, Go, Counted
    <3>2. msCounter - 1 \in Nat
      BY <3>1, CountedFinite, FS_EmptySet DEF BarrierConsistent, TypeOK
    <3> QED BY <1>4, <3>2 DEF Pass, Go, TypeOK, Stages, ending
  <2>4. AdminsOutside' /\ SpinDisallowed'
    BY <1>4 DEF Pass, Go, TypeOK, AdminsOutside, SpinDisallowed
  <2>5. Stopped'
    BY <1>4 DEF Pass, Go, TypeOK, AdminsOutside, Stopped, Stopping, InBarrier, Threads, Parties
  <2> QED BY <1>0, <2>2, <2>3, <2>4, <2>5
<1>5. ASSUME NEW t \in Threads, Disallow(t) PROVE IInv'
  <2>1. Counted' = Counted
    BY <1>5, CountedMove DEF Disallow
  <2>2. TypeOK'
    BY <1>5 DEF Disallow, Go, TypeOK, Stages, ending
  <2>3. BarrierConsistent'
    BY <1>5, <2>1 DEF Disallow, Go, TypeOK, BarrierConsistent, HasLocker
  <2>4. AdminsOutside' /\ SpinDisallowed'
    BY <1>5 DEF Disallow, Go, TypeOK, AdminsOutside, SpinDisallowed
  <2>5. Stopped'
    BY <1>5 DEF Disallow, Go, TypeOK, AdminsOutside, Stopped, Stopping, InBarrier, Threads, Parties
  <2> QED BY <1>0, <2>2, <2>3, <2>4, <2>5
<1>6. ASSUME NEW t \in Threads, CountReached(t) PROVE IInv'
  <2>1. Counted' = Counted
    BY <1>6, CountedMove DEF CountReached
  <2>2. TypeOK'
    BY <1>6 DEF CountReached, Go, TypeOK, Stages, barrier, ending
  <2>3. BarrierConsistent'
    BY <1>6, <2>1 DEF CountReached, Go, TypeOK, BarrierConsistent, HasLocker, barrier
  <2>4. AdminsOutside' /\ SpinDisallowed'
    BY <1>6 DEF CountReached, Go, TypeOK, AdminsOutside, SpinDisallowed, barrier
  <2>5. \A u \in Parties \ {t} : stage[u] = "lock"
    BY <1>6, FullCount DEF CountReached, Go
  <2>6. Stopped'
    BY <1>6, <2>5 DEF CountReached, Go, TypeOK, AdminsOutside, SpinDisallowed, Stopped,
       Stopping, InBarrier, Threads, Parties, barrier
  <2> QED BY <1>0, <2>2, <2>3, <2>4, <2>6
<1>7. ASSUME NEW t \in Threads, Leave(t) PROVE IInv'
  <2>1. Counted' = Counted
    BY <1>7, CountedMove DEF Leave
  <2>2. TypeOK'
    BY <1>7 DEF Leave, Go, TypeOK, Stages, ending
  <2>3. BarrierConsistent'
    BY <1>7, <2>1, ThreadsAssumption DEF Leave, Go, TypeOK, BarrierConsistent, HasLocker
  <2>4. AdminsOutside' /\ SpinDisallowed'
    BY <1>7 DEF Leave, Go, TypeOK, AdminsOutside, SpinDisallowed
  <2>5. Stopped'
    BY <1>7 DEF Leave, Go, TypeOK, AdminsOutside, Stopped, Stopping, InBarrier, Threads, Parties
  <2> QED BY <1>0, <2>2, <2>3, <2>4, <2>5
<1>8. ASSUME NEW t \in Threads, Resynchronize(t) PROVE IInv'
  <2>1. \A u \in Parties \ {t} : stage[u] \in InBarrier
    BY <1>8 DEF Resynchronize, Stopped, Stopping
  <2>2. Counted' = Counted
    BY <1>8 DEF Resynchronize, Counted, TypeOK
  <2>3. TypeOK'
    BY <1>8 DEF Resynchronize, TypeOK, Stages, ending
  <2>4. BarrierConsistent'
    BY <1>8, <2>2 DEF Resynchronize, TypeOK, BarrierConsistent, HasLocker
  <2>5. AdminsOutside' /\ SpinDisallowed'
    BY <1>8, <2>1 DEF Resynchronize, TypeOK, AdminsOutside, SpinDisallowed, InBarrier, Threads, Parties
  <2>6. Stopped'
    BY <1>8, <2>1 DEF Resynchronize, TypeOK, AdminsOutside, Stopped, Stopping, InBarrier, Threads, Parties
  <2> QED BY <1>0, <2>3, <2>4, <2>5, <2>6
<1>9. ASSUME NEW t \in Threads, ResumeLocks(t) PROVE IInv'
  <2>1. Counted' = Counted
    BY <1>9, CountedMove DEF ResumeLocks
  <2>2. TypeOK'
    BY <1>9 DEF ResumeLocks, Go, TypeOK, Stages, barrier, ending
  <2>3. BarrierConsistent'
    BY <1>9, <2>1 DEF ResumeLocks, Go, TypeOK, BarrierConsistent, HasLocker, barrier
  <2>4. AdminsOutside' /\ SpinDisallowed'
    BY <1>9 DEF ResumeLocks, Go, TypeOK, AdminsOutside, SpinDisallowed, barrier
  <2>5. Stopped'
    BY <1>9 DEF ResumeLocks, Go, TypeOK, AdminsOutside, Stopped, Stopping, InBarrier, Threads, Parties, barrier
  <2> QED BY <1>0, <2>2, <2>3, <2>4, <2>5
<1>10. ASSUME NEW t \in Threads, SynchronizeLogicThreads(t) PROVE IInv'
  <2>1. TypeOK'
    BY <1>10 DEF SynchronizeLogicThreads, Go, TypeOK, Stages, barrier
  <2>2. t \notin Admins /\ \A u \in Threads \ {t} : inPoint'[u] = inPoint[u]
    BY <1>10 DEF SynchronizeLogicThreads, OnlyParties, TypeOK
  <2> QED BY <1>10, <2>1, <2>2, OutsideMove DEF SynchronizeLogicThreads
<1>11. ASSUME NEW t \in Threads, SynchronizeJob(t) PROVE IInv'
  <2>1. TypeOK'
    BY <1>11 DEF SynchronizeJob, Go, TypeOK, Stages, barrier, ending
  <2>2. t \notin Admins /\ \A u \in Threads \ {t} : inPoint'[u] = inPoint[u]
    BY <1>11, ThreadsAssumption DEF SynchronizeJob, TypeOK
  <2> QED BY <1>11, <2>1, <2>2, OutsideMove DEF SynchronizeJob
<1>12. ASSUME NEW t \in Threads, GameJob(t) \/ EndJob(t) \/ AdminCommand(t) PROVE IInv'
  <2>1. TypeOK'
    BY <1>12 DEF GameJob, EndJob, AdminCommand, Go, TypeOK, Stages, barrier, ending
  <2> QED BY <1>12, <2>1, OutsideMove DEF GameJob, EndJob, AdminCommand
<1>13. ASSUME NEW t \in Threads, FinishJob(t) PROVE IInv'
  <2>1. TypeOK'
    BY <1>13 DEF FinishJob, Go, TypeOK, Stages, barrier
  <2> QED BY <1>13, <2>1, ThreadsAssumption, OutsideMove DEF FinishJob
<1>14. CASE BeginRound
  <2>1. TypeOK' /\ Main \in Threads /\ Main \notin Admins
    BY <1>14, ThreadsAssumption DEF BeginRound, Go, TypeOK, Stages, Threads, barrier
  <2>2. \A u \in Threads \ {Main} : inPoint'[u] = inPoint[u]
    BY <1>14 DEF BeginRound, TypeOK
  <2> QED BY <1>14, <2>1, <2>2, OutsideMove DEF BeginRound
<1>15. CASE StopLogicThreads \/ LogicThreadsJoined
  <2>1. Cardinality(Logic) \in Nat /\ Main \in Threads /\ Main \notin Admins
    BY ThreadsAssumption, FS_CardinalityType DEF Threads
  <2>2. TypeOK'
    BY <1>15, <2>1 DEF StopLogicThreads, LogicThreadsJoined, Go, TypeOK, Stages, barrier, ending
  <2> QED BY <1>15, <2>1, <2>2, OutsideMove DEF StopLogicThreads, LogicThreadsJoined
<1>16. ASSUME NEW t \in Threads, LockStep(t) \/ LockObject(t) PROVE IInv'
  BY <1>16, SameBarrier DEF LockStep, LockObject, TypeOK, barrier, ending
<1>17. CASE Quit
  BY <1>17, SameBarrier DEF Quit, TypeOK, barrier
<1>18. CASE UNCHANGED vars
  BY <1>18, SameBarrier DEF vars, TypeOK, barrier, ending
<1> QED
  BY <1>1, <1>2, <1>3, <1>4, <1>5, <1>6, <1>7, <1>8, <1>9, <1>10, <1>11, <1>12,
     <1>13, <1>14, <1>15, <1>16, <1>17, <1>18 DEF Next, SynchronizerStep

(***************************************************************************)
(* The inductive invariant holds of every run in which only logic threads  *)
(* and the main thread synchronize.                                        *)
(***************************************************************************)
THEOREM Invariance == OnlyParties => (Spec => []IInv)
<1> SUFFICES ASSUME OnlyParties PROVE Spec => []IInv
  OBVIOUS
<1>1. Init => IInv
  BY InitIInv
<1> QED BY <1>1, NextIInv, PTL DEF Spec

(***************************************************************************)
(* MutexSynchronizer's counter and mutex, whatever the number of threads.  *)
(***************************************************************************)
THEOREM BookKeeping == OnlyParties => (Spec => [](TypeOK /\ BarrierConsistent))
<1>1. IInv => TypeOK /\ BarrierConsistent
  BY DEF IInv
<1> QED BY <1>1, Invariance, PTL

(***************************************************************************)
(* Types, whatever the number of threads.                                  *)
(***************************************************************************)
THEOREM TypeCorrect == OnlyParties => (Spec => []TypeOK)
<1>1. IInv => TypeOK
  BY DEF IInv
<1> QED BY <1>1, Invariance, PTL

(***************************************************************************)
(* A logic thread or the main thread that has returned from Synchronize is *)
(* alone until it resynchronizes.                                          *)
(***************************************************************************)
THEOREM AloneInTheWorld == OnlyParties => (Spec => []StopTheWorld)
<1>1. IInv => StopTheWorld
  BY DEF IInv, Stopped, Stopping, StopTheWorld, InBarrier, Parties
<1> QED BY <1>1, Invariance, PTL

-----------------------------------------------------------------------------
(***************************************************************************)
(* The objects of stopped threads, for any number of logic threads and     *)
(* objects: whoever is alone in the world can lock every object.  What is  *)
(* proved about the locks in ThreadSync_proofs is used here through an     *)
(* instance, for the steps that LogicSync makes of them.                   *)
(***************************************************************************)
Facts == INSTANCE ThreadSync_proofs WITH
  Thread <- Threads, Priorities <- {}, DefaultPriority <- 3,
  MaxPriorityDepth <- 0, UnlockCallers <- {}

LocksSound == Facts!IInv

(***************************************************************************)
(* The stages of a thread in Synchronize or SynchronizePoint.              *)
(***************************************************************************)
CallStages ==
  {"arrive", "lock", "wait", "sleep", "passed", "disallow", "spin", "leave"}

(***************************************************************************)
(* The inductive invariant: who calls Synchronize lends its objects, a     *)
(* logic thread that comes to SynchronizePoint has none, who begins anew   *)
(* is in no call of the locks, and all have the same priority.  The main   *)
(* thread comes to SynchronizePoint with what it has locked in SaveWorld.  *)
(***************************************************************************)
Lending ==
  \A t \in Threads :
    /\ threadPriority[t] = 3
    /\ stage[t] \in {"idle", "join", "done"} => pc[t] = "run" /\ relock[t] = {}
    /\ stage[t] \in {"job", "alone"} => pc[t] # "suspend"
    /\ stage[t] = "resume" => pc[t] = "suspend"
    /\ stage[t] \in CallStages /\ ~inPoint[t] => pc[t] = "suspend"
    /\ stage[t] \in CallStages /\ inPoint[t] =>
         /\ pc[t] = "run" /\ relock[t] = {}
         /\ t = Main \/ lockedObjects[t] = {}
    /\ stage[t] = "job" /\ t = Main => pc[t] = "run" /\ relock[t] = {}

LInv == LocksSound /\ Lending

(***************************************************************************)
(* Init establishes the invariant.                                         *)
(***************************************************************************)
LEMMA InitLInv == Init => LInv
<1> SUFFICES ASSUME Init PROVE LInv
  OBVIOUS
<1>1. Facts!PriorityAssumption /\ Facts!NoThreadAssumption
  BY ThreadsAssumption DEF Facts!PriorityAssumption, Facts!NoThreadAssumption
<1>2. Facts!Init
  BY DEF Init, Locks!Init, Facts!Init
<1>3. LocksSound
  BY <1>1, <1>2, Facts!InitIInv DEF LocksSound
<1>4. Lending
  BY DEF Init, Locks!Init, Lending, CallStages, Threads
<1> QED BY <1>3, <1>4 DEF LInv

(***************************************************************************)
(* What LogicSync does with the locks is what ThreadSync allows.           *)
(***************************************************************************)
LEMMA LocksStep == [Next]_vars => [Facts!Next]_Facts!vars
<1> SUFFICES ASSUME [Next]_vars PROVE [Facts!Next]_Facts!vars
  OBVIOUS
<1>1. ASSUME NEW t \in Threads, NEW o \in Object, Locks!Lock(t, o)
      PROVE  Facts!Lock(t, o)
  BY <1>1
  DEF Locks!Lock, Locks!LockGranted, Locks!LockBusy, Locks!CanTake, Locks!Lenders,
      Locks!Take, Locks!Lent, Locks!Running, Locks!priority,
      Facts!Lock, Facts!LockGranted, Facts!LockBusy, Facts!CanTake, Facts!Lenders,
      Facts!Take, Facts!Lent, Facts!Running, Facts!priority
<1>2. ASSUME NEW t \in Threads, Locks!WaitRound(t) \/ Locks!Relock(t)
      PROVE  Facts!WaitRound(t) \/ Facts!Relock(t)
  BY <1>2
  DEF Locks!WaitRound, Locks!Relock, Locks!LockGranted, Locks!LockBusy, Locks!CanTake,
      Locks!Lenders, Locks!Take, Locks!Lent, Locks!priority,
      Facts!WaitRound, Facts!Relock, Facts!LockGranted, Facts!LockBusy, Facts!CanTake,
      Facts!Lenders, Facts!Take, Facts!Lent, Facts!priority
<1>3. ASSUME NEW t \in Threads, Locks!UnlockAll(t) \/ Locks!Suspend(t) \/ Locks!Resume(t)
      PROVE  Facts!UnlockAll(t) \/ Facts!Suspend(t) \/ Facts!Resume(t)
  BY <1>3
  DEF Locks!UnlockAll, Locks!Suspend, Locks!Resume, Locks!Running, Locks!priority,
      Locks!ownership, Facts!UnlockAll, Facts!Suspend, Facts!Resume, Facts!Running,
      Facts!priority, Facts!ownership
<1>4. \/ \E t \in Threads :
           \/ \E o \in Object : Locks!Lock(t, o)
           \/ Locks!WaitRound(t) \/ Locks!Relock(t)
           \/ Locks!UnlockAll(t) \/ Locks!Suspend(t) \/ Locks!Resume(t)
      \/ UNCHANGED lockVars
  BY DEF Next, vars, SynchronizerStep, Arrive, TakeLocker, WaitEvent, Pass, Disallow,
         CountReached, Leave, Resynchronize, ResumeLocks, SynchronizeLogicThreads,
         LockStep, LockObject, GameJob, SynchronizeJob, FinishJob, EndJob,
         AdminCommand, BeginRound, StopLogicThreads, LogicThreadsJoined, Quit, Threads
<1>5. ASSUME UNCHANGED lockVars PROVE UNCHANGED Facts!vars
  BY <1>5 DEF lockVars, Facts!vars, Facts!ownership, Facts!priority
<1> QED BY <1>1, <1>2, <1>3, <1>4, <1>5 DEF Facts!Next

(***************************************************************************)
(* So the locks stay sound.                                                *)
(***************************************************************************)
LEMMA NextLocksSound == LocksSound /\ [Next]_vars => LocksSound'
<1>1. Facts!PriorityAssumption /\ Facts!NoThreadAssumption
  BY ThreadsAssumption DEF Facts!PriorityAssumption, Facts!NoThreadAssumption
<1> QED BY <1>1, LocksStep, Facts!NextIInv DEF LocksSound

(***************************************************************************)
(* What a step of Lock, in progress or begun, does to the other threads:   *)
(* it may take objects from them, nothing else.                            *)
(***************************************************************************)
LEMMA LockEffect ==
  ASSUME LocksSound, NEW t \in Threads, LockStep(t) \/ LockObject(t)
  PROVE  /\ UNCHANGED <<stage, inPoint, threadPriority>>
         /\ pc'[t] # "suspend"
         /\ \A u \in Threads \ {t} :
              /\ pc'[u] = pc[u] /\ relock'[u] = relock[u]
              /\ lockedObjects'[u] \subseteq lockedObjects[u]
              /\ lockedObjects[u] = {} => busyObjects'[u] = busyObjects[u]
<1>1. /\ pc \in [Threads -> {"run", "wait", "suspend"}]
      /\ lockedObjects \in [Threads -> SUBSET Object]
      /\ busyObjects \in [Threads -> SUBSET Object]
      /\ relock \in [Threads -> SUBSET Object]
      /\ \A u \in Threads, o \in Object : o \in lockedObjects[u] <=> curMngr[o] = u
  BY DEF LocksSound, Facts!IInv, Facts!TypeOK, Facts!OwnershipConsistent
<1> DEFINE Effect ==
      /\ UNCHANGED <<stage, inPoint, threadPriority>>
      /\ pc'[t] # "suspend"
      /\ \A u \in Threads \ {t} : pc'[u] = pc[u] /\ relock'[u] = relock[u]
      /\ \E S \in SUBSET Object :
           \/ Locks!Take(t, S)
           \/ /\ busyObjects' = [busyObjects EXCEPT ![t] = @ \cup S]
              /\ UNCHANGED lockedObjects
<1>2. ASSUME NEW o \in Object, Locks!Lock(t, o), UNCHANGED <<stage, inPoint>> PROVE Effect
  BY <1>1, <1>2 DEF Locks!Lock, Locks!LockGranted, Locks!LockBusy, Locks!Running, Locks!priority
<1>3. ASSUME Locks!Relock(t), UNCHANGED <<stage, inPoint>> PROVE Effect
  <2>1. PICK o \in Object : Locks!LockGranted(t, o) \/ Locks!LockBusy(t, o)
    BY <1>1, <1>3 DEF Locks!Relock
  <2> QED
    BY <1>1, <1>3, <2>1 DEF Locks!Relock, Locks!LockGranted, Locks!LockBusy, Locks!priority
<1>4. ASSUME Locks!WaitRound(t), UNCHANGED <<stage, inPoint>> PROVE Effect
  <2> DEFINE S == {o \in busyObjects[t] : Locks!CanTake(t, o)}
  <2>1. S \in SUBSET Object /\ Locks!Take(t, S)
    BY <1>1, <1>4 DEF Locks!WaitRound
  <2>2. /\ UNCHANGED <<stage, inPoint, threadPriority, relock>>
        /\ pc[t] = "wait"
        /\ pc' = pc \/ pc' = [pc EXCEPT ![t] = "run"]
    BY <1>4 DEF Locks!WaitRound, Locks!priority
  <2>3. pc'[t] # "suspend" /\ \A u \in Threads \ {t} : pc'[u] = pc[u]
    BY <1>1, <2>2
  <2> HIDE DEF S
  <2> QED BY <2>1, <2>2, <2>3
<1>5. Effect
  BY <1>2, <1>3, <1>4 DEF LockStep, LockObject
<1>6. PICK S \in SUBSET Object :
        \/ Locks!Take(t, S)
        \/ /\ busyObjects' = [busyObjects EXCEPT ![t] = @ \cup S]
           /\ UNCHANGED lockedObjects
  BY <1>5
<1>7. ASSUME NEW u \in Threads \ {t}
      PROVE  /\ lockedObjects'[u] \subseteq lockedObjects[u]
             /\ lockedObjects[u] = {} => busyObjects'[u] = busyObjects[u]
  <2>1. CASE Locks!Take(t, S)
    <3>1. /\ lockedObjects'[u] = lockedObjects[u] \ Locks!Lent(u, S)
          /\ busyObjects'[u] = busyObjects[u] \cup Locks!Lent(u, S)
      BY <2>1 DEF Locks!Take
    <3>2. lockedObjects[u] = {} => Locks!Lent(u, S) = {}
      BY <1>1 DEF Locks!Lent
    <3> QED BY <3>1, <3>2
  <2>2. CASE busyObjects' = [busyObjects EXCEPT ![t] = @ \cup S] /\ UNCHANGED lockedObjects
    BY <1>1, <2>2
  <2> QED BY <1>6, <2>1, <2>2
<1> QED BY <1>5, <1>7

(***************************************************************************)
(* A step of Lock is one of a thread in its job or alone.                  *)
(***************************************************************************)
LEMMA LockStepKeeps ==
  ASSUME TypeOK, LInv, NEW t \in Threads, LockStep(t) \/ LockObject(t)
  PROVE  Lending'
<1>2. stage[t] \in {"job", "alone"}
  BY DEF LInv, TypeOK, Stages, Lending, CallStages, LockStep, LockObject,
         Locks!WaitRound, Locks!Relock
<1>3. /\ UNCHANGED <<stage, inPoint, threadPriority>>
      /\ pc'[t] # "suspend"
      /\ \A u \in Threads \ {t} :
           /\ pc'[u] = pc[u] /\ relock'[u] = relock[u]
           /\ lockedObjects'[u] \subseteq lockedObjects[u]
           /\ lockedObjects[u] = {} => busyObjects'[u] = busyObjects[u]
  BY LockEffect DEF LInv
<1>4. ~(stage[t] = "job" /\ t = Main)
  BY DEF LInv, Lending, LockStep, LockObject, Locks!WaitRound, Locks!Relock
<1> QED BY <1>2, <1>3, <1>4 DEF LInv, Lending, CallStages

(***************************************************************************)
(* Every step keeps the invariant.                                         *)
(***************************************************************************)
LEMMA NextLInv ==
  IInv /\ LInv /\ [Next]_vars => LInv'
<1> SUFFICES ASSUME IInv, LInv, [Next]_vars PROVE LInv'
  OBVIOUS
<1> USE DEF Lending, CallStages, Go
<1>1. TypeOK /\ Main \in Threads /\ Main \notin Logic /\ Main \notin Admins /\ AdminsOutside
  BY ThreadsAssumption DEF IInv, Threads
<1>2. /\ pc \in [Threads -> {"run", "wait", "suspend"}]
      /\ lockedObjects \in [Threads -> SUBSET Object]
      /\ busyObjects \in [Threads -> SUBSET Object]
      /\ relock \in [Threads -> SUBSET Object]
  BY DEF LInv, LocksSound, Facts!IInv, Facts!TypeOK
<1>3. Lending
  BY DEF LInv
<1>4. ASSUME NEW t \in Threads, LockStep(t) \/ LockObject(t)
      PROVE  Lending'
  BY <1>1, <1>4, LockStepKeeps
<1>5. ASSUME NEW t \in Threads,
             \/ Arrive(t) \/ TakeLocker(t) \/ WaitEvent(t) \/ Pass(t) \/ Disallow(t)
             \/ CountReached(t) \/ Leave(t)
      PROVE  Lending'
  BY <1>1, <1>2, <1>3, <1>5
  DEF Arrive, TakeLocker, WaitEvent, Pass, Disallow, CountReached, Leave, lockVars,
      TypeOK, Stages
<1>6. ASSUME NEW t \in Threads, Resynchronize(t) PROVE Lending'
  BY <1>1, <1>2, <1>3, <1>6 DEF Resynchronize, Locks!Running, lockVars, TypeOK, Stages
<1>7. ASSUME NEW t \in Threads, ResumeLocks(t) PROVE Lending'
  BY <1>1, <1>2, <1>3, <1>7 DEF ResumeLocks, Locks!Resume, Locks!priority, TypeOK, Stages
<1>8. ASSUME NEW t \in Threads, SynchronizeLogicThreads(t) PROVE Lending'
  BY <1>1, <1>2, <1>3, <1>8
  DEF SynchronizeLogicThreads, Locks!Suspend, Locks!ownership, Locks!priority, TypeOK, Stages
<1>9. ASSUME NEW t \in Threads, GameJob(t) \/ SynchronizeJob(t) \/ FinishJob(t)
      PROVE  Lending'
  BY <1>1, <1>2, <1>3, <1>9
  DEF GameJob, SynchronizeJob, FinishJob, Locks!UnlockAll, Locks!Running, Locks!priority,
      TypeOK, Stages
<1>10. ASSUME NEW t \in Threads, EndJob(t) \/ AdminCommand(t)
       PROVE  Lending'
  BY <1>1, <1>2, <1>3, <1>10
  DEF EndJob, AdminCommand, Locks!Running, lockVars, TypeOK, Stages
<1>11. ASSUME BeginRound \/ StopLogicThreads PROVE Lending'
  BY <1>1, <1>2, <1>3, <1>11 DEF BeginRound, StopLogicThreads, lockVars, TypeOK, Stages
<1>12. ASSUME LogicThreadsJoined PROVE Lending'
  BY <1>1, <1>2, <1>3, <1>12
  DEF LogicThreadsJoined, Locks!UnlockAll, Locks!Running, Locks!priority, TypeOK, Stages
<1>13. ASSUME Quit \/ UNCHANGED vars PROVE Lending'
  BY <1>1, <1>2, <1>3, <1>13 DEF Quit, vars, lockVars, TypeOK
<1>14. LocksSound'
  BY NextLocksSound DEF LInv
<1>15. Lending'
  <2> HIDE DEF Lending, CallStages, Go
  <2> QED
    BY <1>4, <1>5, <1>6, <1>7, <1>8, <1>9, <1>10, <1>11, <1>12, <1>13
    DEF Next, SynchronizerStep
<1> QED BY <1>14, <1>15 DEF LInv

(***************************************************************************)
(* A thread that is alone finds every object free, its own or lent, or     *)
(* with the main thread or a panel thread: no logic thread that stands in  *)
(* the synchronizer keeps one.                                             *)
(***************************************************************************)
THEOREM EverythingInReach ==
  OnlyParties => (Spec => []NothingKeptFromTheAlone)
<1> SUFFICES ASSUME OnlyParties PROVE Spec => []NothingKeptFromTheAlone
  OBVIOUS
<1>1. IInv /\ LInv => NothingKeptFromTheAlone
  <2> SUFFICES ASSUME IInv, LInv, NEW t \in Threads, stage[t] = "alone", NEW o \in Object
               PROVE  Locks!CanTake(t, o) \/ curMngr[o] \in Admins \cup {Main}
    BY DEF NothingKeptFromTheAlone
  <2>1. curMngr[o] \in Threads \cup {NoThread}
    BY DEF LInv, LocksSound, Facts!IInv, Facts!TypeOK
  <2>2. ASSUME NEW u \in Logic \ {t}, curMngr[o] = u PROVE u \in Locks!Lenders(t)
    <3>1. u \in Threads /\ stage[u] \in InBarrier
      BY <2>2 DEF IInv, Stopped, Stopping, Parties, Threads
    <3>2. o \in lockedObjects[u]
      BY <2>2, <3>1 DEF LInv, LocksSound, Facts!IInv, Facts!OwnershipConsistent
    <3>3. pc[u] = "suspend"
      BY <2>2, <3>1, <3>2, ThreadsAssumption DEF LInv, Lending, CallStages, InBarrier, IInv, TypeOK
    <3>4. isWaiting[u]
      BY <3>1, <3>3 DEF LInv, LocksSound, Facts!IInv, Facts!NothingLentWhileRunning, Facts!Settled
    <3> QED BY <3>1, <3>4 DEF LInv, Lending, Locks!Lenders
  <2> QED BY <2>1, <2>2 DEF Locks!CanTake, Threads, Parties
<1>2. Init => LInv
  BY InitLInv
<1> QED BY <1>1, <1>2, NextLInv, Invariance, PTL DEF Spec
=============================================================================
