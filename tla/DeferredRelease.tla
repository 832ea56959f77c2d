--------------------------- MODULE DeferredRelease ---------------------------
(***************************************************************************)
(* Deferred releasing (Jobs.cpp) on top of the job queue.                  *)
(*                                                                         *)
(* An object that leaves the game is still pointed to by its job in the    *)
(* deque and by threads that work with it.  It is released later: the      *)
(* object is listed with DeferredReleaseCycle, and the deferred release    *)
(* job releases those at the head of the list that are three cycles old.   *)
(* The cycle is set by the JOB_THREAD_LOOP job of every thread, from the   *)
(* numbers of cycles the threads have made; the last action of the main    *)
(* loop sets it to the maximum.  The five lists of the code, one per class *)
(* of objects, are alike; the model has one.  An object has one reference  *)
(* to release: the one that goes with its job.                             *)
(***************************************************************************)
EXTENDS JobQueue

CONSTANTS CycleMod,  \* 2^32: the cycle numbers are uint
          MaxCycle   \* bound: cycles of a thread

ASSUME CycleAssumption ==
  /\ CycleMod \in Nat /\ MaxCycle \in Nat
  /\ MaxCycle + 3 < CycleMod

VARIABLES
  loopCycles,    \* StatisticsThread::LoopCycles of each thread
  statsThreads,  \* stats_ptrs: the threads that have a StatisticsThread
  releaseCycle,  \* DeferredReleaseCycle
  deferred,      \* the objects to release, each with its cycle
  released,      \* the objects released
  since          \* history: the cycles of the threads when an object was
                 \* deferred

releaseVars == <<loopCycles, statsThreads, releaseCycle, deferred, released, since>>
vars == <<queueVars, releaseVars>>

Entry == [object : Object, cycle : 0..CycleMod - 1]

ReleaseTypeOK ==
  /\ TypeOK
  /\ loopCycles   \in [Thread -> 0..MaxCycle]
  /\ statsThreads \subseteq Thread
  /\ releaseCycle \in 0..CycleMod - 1
  /\ deferred     \in Seq(Entry)
  /\ released     \subseteq Object
  /\ since        \in [Object -> [Thread -> 0..MaxCycle]]

ReleaseInit ==
  /\ Init
  /\ loopCycles   = [t \in Thread |-> 0]
  /\ statsThreads = {}
  /\ releaseCycle = 0
  /\ deferred     = <<>>
  /\ released     = {}
  /\ since        = [o \in Object |-> loopCycles]

-----------------------------------------------------------------------------
Defer(o) ==
  /\ deferred' = Append(deferred, [object |-> o, cycle |-> releaseCycle])
  /\ since' = [since EXCEPT ![o] = loopCycles]
  /\ UNCHANGED <<loopCycles, statsThreads, releaseCycle, released>>

\* Faulty: two cycles are enough.
FreshShort(cycle, entry) == entry.cycle > (cycle - 2) % CycleMod

(***************************************************************************)
(* The entries released at a given cycle: the longest prefix of entries    *)
(* below cycle - 2, in unsigned arithmetic.                                *)
(***************************************************************************)
Fresh(cycle, entry) == entry.cycle >= (cycle - 2) % CycleMod

Ripe(cycle) ==
  IF \E i \in DOMAIN deferred : Fresh(cycle, deferred[i])
  THEN SelectInSeq(deferred, LAMBDA entry : Fresh(cycle, entry)) - 1
  ELSE Len(deferred)

\* Faulty: the first cycles are not waited for.
ProcessWithoutWaiting(cycle) ==
  /\ released' = released \cup {deferred[i].object : i \in 1..Ripe(cycle)}
  /\ deferred' = SubSeq(deferred, Ripe(cycle) + 1, Len(deferred))

ProcessDeferredReleasing(cycle) ==
  IF cycle < 3
  THEN UNCHANGED <<deferred, released>>
  ELSE /\ released' = released \cup {deferred[i].object : i \in 1..Ripe(cycle)}
       /\ deferred' = SubSeq(deferred, Ripe(cycle) + 1, Len(deferred))

-----------------------------------------------------------------------------
(***************************************************************************)
(* The loop job counts a cycle and computes the statistics of all threads  *)
(* (under stats_locker), then sets the cycle of deferred releasing.  The   *)
(* minimum over the threads is of LoopCycles of the current thread.        *)
(***************************************************************************)
RealMinCycle(t) == Min({loopCycles[t] : u \in statsThreads})

CountCycle(t) ==
  /\ Popped(t, "loop")
  /\ loopCycles[t] < MaxCycle
  /\ Begin(t)
  /\ loopCycles' = [loopCycles EXCEPT ![t] = @ + 1]
  /\ statsThreads' = statsThreads \cup {t}
  /\ UNCHANGED <<releaseCycle, deferred, released, since>>

SetCycle(t) ==
  /\ hand[t].type = "loop"
  /\ EndJob(t)
  /\ releaseCycle' = RealMinCycle(t)
  /\ UNCHANGED <<loopCycles, statsThreads, deferred, released, since>>

Release(t) ==
  /\ hand[t].type = "release"
  /\ EndJob(t)
  /\ ProcessDeferredReleasing(releaseCycle)
  /\ UNCHANGED <<loopCycles, statsThreads, releaseCycle, since>>

(***************************************************************************)
(* Objects are removed by jobs and, when the threads have finished, by the *)
(* main thread; each removal defers the object.                            *)
(***************************************************************************)
RemoveAndDefer(o) ==
  /\ \E t \in Thread : RemoveObject(t, o) \/ RemoveClient(t, o)
  /\ Defer(o)

LastRemove(o) ==
  /\ mainState = "last"
  /\ object[o] = "live"
  /\ object' = [object EXCEPT ![o] = "gone"]
  /\ Defer(o)
  /\ UNCHANGED <<jobs, hand, state, mainState, finishes, stopper>>

\* Faulty: the maximum of the cycle overflows.
LastReleaseOverflow ==
  /\ mainState = "last"
  /\ mainState' = "ended"
  /\ releaseCycle' = CycleMod
  /\ ProcessDeferredReleasing(CycleMod - 1)
  /\ UNCHANGED <<jobs, hand, state, object, finishes, stopper,
                 loopCycles, statsThreads, since>>

\* Faulty: the cycle is not set before the last release.
LastReleaseEarly ==
  /\ mainState = "last"
  /\ mainState' = "ended"
  /\ ProcessDeferredReleasing(releaseCycle)
  /\ UNCHANGED <<jobs, hand, state, object, finishes, stopper,
                 loopCycles, statsThreads, releaseCycle, since>>

LastRelease ==
  /\ mainState = "last"
  /\ mainState' = "ended"
  /\ releaseCycle' = CycleMod - 1
  /\ ProcessDeferredReleasing(CycleMod - 1)
  /\ UNCHANGED <<jobs, hand, state, object, finishes, stopper,
                 loopCycles, statsThreads, since>>

(***************************************************************************)
(* The steps of the queue that releasing has no part in.                   *)
(***************************************************************************)
OtherStep ==
  /\ \/ \E t \in Thread :
          \/ InitThread(t) \/ PopJob(t) \/ StartThread(t)
          \/ hand[t].type # "loop" /\ Begin(t)
          \/ hand[t].type \in {"object", "garbage"} /\ EndJob(t)
          \/ DropJob(t) \/ PassSynchronize(t) \/ Finish(t)
     \/ \E o \in Object : AddObject(o) /\ mainState \in {"starting", "loop"}
     \/ PushFinish \/ EraseJobs
  /\ UNCHANGED releaseVars

ReleaseNext ==
  \/ \E t \in Thread : CountCycle(t) \/ SetCycle(t) \/ Release(t)
  \/ \E o \in Object : RemoveAndDefer(o) \/ LastRemove(o)
  \/ LastRelease \/ OtherStep

ReleaseSpec == ReleaseInit /\ [][ReleaseNext]_vars

-----------------------------------------------------------------------------
(***************************************************************************)
(* Pointers do not dangle: no job in the deque or in the hand of a thread  *)
(* is one of a released object.                                            *)
(***************************************************************************)
NoDanglingJob ==
  \A o \in released :
    /\ \A i \in DOMAIN jobs : jobs[i].data # o
    /\ \A t \in Thread : hand[t].data # o

(***************************************************************************)
(* Every object that has left the game waits to be released exactly once   *)
(* or has been; when the server has ended, nothing waits.                  *)
(***************************************************************************)
ReleasedOnce ==
  /\ \A o \in Object :
       Cardinality({i \in DOMAIN deferred : deferred[i].object = o})
         = (IF object[o] = "gone" /\ o \notin released THEN 1 ELSE 0)
  /\ \A o \in released : object[o] = "gone"
  /\ mainState = "ended" => deferred = <<>>

(***************************************************************************)
(* Three cycles: while the server loops, an object is released only when   *)
(* every logic thread that takes part in the statistics has made three     *)
(* cycles since the object was deferred, so that it has done with all jobs *)
(* it had begun before.                                                    *)
(***************************************************************************)
WaitsThreeCycles ==
  [][\A o \in released' \ released :
        mainState' = "ended" \/ \A t \in statsThreads : loopCycles[t] >= since[o][t] + 3]_vars
=============================================================================
