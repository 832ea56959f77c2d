----------------------- MODULE DeferredRelease_proofs -----------------------
(***************************************************************************)
(* Proofs about DeferredRelease, for any number of threads and objects:    *)
(* types, and that every object that leaves is released once.              *)
(* With one thread, that no job points to an object that was released, and *)
(* that objects wait three cycles.                                         *)
(***************************************************************************)
EXTENDS DeferredRelease, JobQueue_proofs

(***************************************************************************)
(* ReleasedOnce without counting: an entry per object, for those that left *)
(* the game and are not released yet.                                      *)
(***************************************************************************)
EntriesDiffer ==
  \A i, j \in DOMAIN deferred : deferred[i].object = deferred[j].object => i = j

Listed(o) == \E i \in DOMAIN deferred : deferred[i].object = o

LeaversListed ==
  \A o \in Object : Listed(o) <=> object[o] = "gone" /\ o \notin released

ReleasedGone == \A o \in released : object[o] = "gone"

(***************************************************************************)
(* No cycle comes near to the last one, which releases all; a thread takes *)
(* part in the statistics before it asks for their minimum.                *)
(***************************************************************************)
LowCycles ==
  /\ mainState # "ended" => releaseCycle <= MaxCycle
  /\ \A i \in DOMAIN deferred : deferred[i].cycle <= MaxCycle
  /\ \A t \in Thread : state[t] = "busy" /\ hand[t].type = "loop" => t \in statsThreads

NothingWaitsAtEnd == mainState = "ended" => deferred = <<>>

RInv ==
  /\ IInv /\ ReleaseTypeOK
  /\ EntriesDiffer /\ LeaversListed /\ ReleasedGone
  /\ LowCycles /\ NothingWaitsAtEnd

LEMMA SmallRemainder ==
  ASSUME NEW n \in Nat, NEW a \in Nat, a < n
  PROVE  a % n = a
  OBVIOUS

LEMMA ReleasedOnceFollows == RInv => ReleasedOnce
<1> SUFFICES ASSUME RInv PROVE ReleasedOnce
  OBVIOUS
<1>1. ASSUME NEW o \in Object
      PROVE  Cardinality({i \in DOMAIN deferred : deferred[i].object = o})
               = (IF object[o] = "gone" /\ o \notin released THEN 1 ELSE 0)
  <2>1. CASE object[o] = "gone" /\ o \notin released
    <3>1. PICK i \in DOMAIN deferred : deferred[i].object = o
      BY <2>1 DEF RInv, LeaversListed, Listed
    <3>2. {j \in DOMAIN deferred : deferred[j].object = o} = {i}
      BY <3>1 DEF RInv, EntriesDiffer
    <3>3. Cardinality({i}) = 1
      BY FS_Singleton
    <3> QED
      BY <2>1, <3>2, <3>3
  <2>2. CASE ~(object[o] = "gone" /\ o \notin released)
    <3>1. {j \in DOMAIN deferred : deferred[j].object = o} = {}
      BY <2>2 DEF RInv, LeaversListed, Listed
    <3> QED
      BY <2>2, <3>1, FS_EmptySet
  <2> QED
    BY <2>1, <2>2
<1> QED
  BY <1>1 DEF RInv, ReleasedGone, NothingWaitsAtEnd, ReleasedOnce

LEMMA RipeInRange ==
  ASSUME deferred \in Seq(Entry), NEW cycle
  PROVE  Ripe(cycle) \in 0..Len(deferred)
<1> DEFINE F(entry) == Fresh(cycle, entry)
           I == {i \in 1..Len(deferred) : F(deferred[i])}
<1>1. DOMAIN deferred = 1..Len(deferred) /\ Len(deferred) \in Nat
  OBVIOUS
<1>2. CASE I # {}
  <2>1. Min(I) \in I
    BY <1>1, <1>2, FirstExists
  <2>2. Ripe(cycle) = Min(I) - 1
    BY <1>1, <1>2 DEF Ripe, SelectInSeq
  <2> QED
    BY <1>1, <2>1, <2>2
<1>3. CASE I = {}
  BY <1>1, <1>3 DEF Ripe
<1> QED
  BY <1>2, <1>3

LEMMA AllRipeAtEnd ==
  ASSUME RInv
  PROVE  Ripe(CycleMod - 1) = Len(deferred)
<1>1. (CycleMod - 1 - 2) % CycleMod = CycleMod - 3 /\ CycleMod - 3 > MaxCycle
  <2>1. CycleMod - 1 - 2 = CycleMod - 3 /\ CycleMod - 3 \in Nat /\ CycleMod - 3 < CycleMod
    BY CycleAssumption
  <2> QED
    BY <2>1, SmallRemainder, CycleAssumption
<1>2. ASSUME NEW i \in DOMAIN deferred PROVE ~Fresh(CycleMod - 1, deferred[i])
  <2>1. deferred[i] \in Entry
    BY DEF RInv, ReleaseTypeOK
  <2>2. deferred[i].cycle <= MaxCycle /\ deferred[i].cycle \in Nat
    BY <2>1 DEF RInv, LowCycles, Entry
  <2> QED
    BY <1>1, <2>2, CycleAssumption DEF Fresh
<1> QED
  BY <1>2 DEF Ripe

-----------------------------------------------------------------------------
(***************************************************************************)
(* The steps of the queue, whose invariant is JobQueue's.                  *)
(***************************************************************************)
LEMMA QueueStepKeeps ==
  ASSUME RInv, IInv', UNCHANGED releaseVars,
         \A o \in Object : object'[o] = "gone" <=> object[o] = "gone",
         mainState' = "ended" <=> mainState = "ended",
         \A t \in Thread :
           state'[t] = "busy" /\ hand'[t].type = "loop" =>
             state[t] = "busy" /\ hand[t].type = "loop"
  PROVE  RInv'
<1>1. ReleaseTypeOK'
  BY DEF RInv, IInv, ReleaseTypeOK, releaseVars
<1>2. EntriesDiffer' /\ NothingWaitsAtEnd'
  BY DEF RInv, EntriesDiffer, NothingWaitsAtEnd, releaseVars
<1>3. LeaversListed' /\ ReleasedGone'
  BY DEF RInv, LeaversListed, Listed, ReleasedGone, ReleaseTypeOK, releaseVars
<1>4. LowCycles'
  BY DEF RInv, LowCycles, releaseVars
<1> QED
  BY <1>1, <1>2, <1>3, <1>4 DEF RInv

LEMMA OtherStepKeeps ==
  ASSUME RInv, OtherStep
  PROVE  RInv'
<1>1. IInv /\ TypeOK /\ UNCHANGED releaseVars
  BY DEF RInv, IInv, OtherStep
<1>2. ASSUME NEW t \in Thread, InitThread(t) \/ StartThread(t)
      PROVE  RInv'
  <2>1. IInv'
    BY <1>1, <1>2, InitThreadKeeps, StartThreadKeeps
  <2>2. /\ UNCHANGED <<hand, object>>
        /\ \A u \in Thread : state'[u] = "busy" => state[u] = "busy"
        /\ mainState' = "ended" <=> mainState = "ended"
    BY <1>1, <1>2 DEF InitThread, StartThread, TypeOK
  <2> QED
    BY <1>1, <2>1, <2>2, QueueStepKeeps
<1>3. ASSUME NEW t \in Thread, PopJob(t)
      PROVE  RInv'
  <2>1. IInv'
    BY <1>1, <1>3, PopJobKeeps
  <2>2. /\ UNCHANGED <<object, mainState>>
        /\ state'[t] = "popped"
        /\ \A u \in Thread \ {t} : state'[u] = state[u] /\ hand'[u] = hand[u]
    BY <1>1, <1>3 DEF PopJob, PopFront, TypeOK
  <2> QED
    BY <1>1, <2>1, <2>2, QueueStepKeeps
<1>4. ASSUME NEW t \in Thread, hand[t].type # "loop", Begin(t)
      PROVE  RInv'
  <2>1. IInv'
    BY <1>1, <1>4, BeginKeeps
  <2>2. /\ UNCHANGED <<hand, object, mainState>>
        /\ \A u \in Thread \ {t} : state'[u] = state[u]
    BY <1>1, <1>4 DEF Begin, TypeOK
  <2> QED
    BY <1>1, <1>4, <2>1, <2>2, QueueStepKeeps
<1>5. ASSUME NEW t \in Thread, EndJob(t) \/ DropJob(t) \/ PassSynchronize(t) \/ Finish(t)
      PROVE  RInv'
  <2>1. IInv'
    BY <1>1, <1>5, EndJobKeeps, DropJobKeeps, FinishKeeps
  <2>2. /\ UNCHANGED <<object, mainState>>
        /\ state'[t] # "busy"
        /\ \A u \in Thread \ {t} : state'[u] = state[u] /\ hand'[u] = hand[u]
    BY <1>1, <1>5 DEF EndJob, DropJob, PassSynchronize, Finish, PutBack, Drop, TypeOK
  <2> QED
    BY <1>1, <2>1, <2>2, QueueStepKeeps
<1>6. ASSUME NEW o \in Object, AddObject(o)
      PROVE  RInv'
  <2>1. IInv'
    BY <1>1, <1>6, AddObjectKeeps
  <2>2. /\ UNCHANGED <<hand, state, mainState>>
        /\ \A p \in Object : object'[p] = "gone" <=> object[p] = "gone"
    BY <1>1, <1>6 DEF AddObject, TypeOK
  <2> QED
    BY <1>1, <2>1, <2>2, QueueStepKeeps
<1>7. CASE PushFinish \/ EraseJobs
  <2>1. IInv'
    BY <1>1, <1>7, PushFinishKeeps, EraseJobsKeeps
  <2>2. /\ UNCHANGED <<hand, state, object>>
        /\ mainState' # "ended" /\ mainState # "ended"
    BY <1>7 DEF PushFinish, EraseJobs
  <2> QED
    BY <1>1, <2>1, <2>2, QueueStepKeeps
<1> QED
  BY <1>2, <1>3, <1>4, <1>5, <1>6, <1>7 DEF OtherStep

-----------------------------------------------------------------------------
(***************************************************************************)
(* The cycles.                                                             *)
(***************************************************************************)
LEMMA CountCycleKeeps ==
  ASSUME RInv, NEW t \in Thread, CountCycle(t)
  PROVE  RInv'
<1>1. /\ IInv' /\ Begin(t) /\ loopCycles[t] < MaxCycle /\ TypeOK
      /\ loopCycles' = [loopCycles EXCEPT ![t] = @ + 1] /\ statsThreads' = statsThreads \cup {t}
      /\ UNCHANGED <<releaseCycle, deferred, released, since>>
  BY BeginKeeps DEF RInv, IInv, CountCycle
<1>2. /\ UNCHANGED <<hand, object, mainState>>
      /\ \A u \in Thread \ {t} : state'[u] = state[u]
  BY <1>1 DEF Begin, TypeOK
<1>3. ReleaseTypeOK'
  <2>1. loopCycles[t] + 1 \in 0..MaxCycle
    BY <1>1, CycleAssumption DEF RInv, ReleaseTypeOK
  <2> QED
    BY <1>1, <2>1 DEF RInv, IInv, ReleaseTypeOK
<1>4. EntriesDiffer' /\ NothingWaitsAtEnd'
  BY <1>1, <1>2 DEF RInv, EntriesDiffer, NothingWaitsAtEnd
<1>5. LeaversListed' /\ ReleasedGone'
  BY <1>1, <1>2 DEF RInv, LeaversListed, Listed, ReleasedGone
<1>6. LowCycles'
  BY <1>1, <1>2 DEF RInv, LowCycles
<1> QED
  BY <1>1, <1>3, <1>4, <1>5, <1>6 DEF RInv

LEMMA SetCycleKeeps ==
  ASSUME RInv, NEW t \in Thread, SetCycle(t)
  PROVE  RInv'
<1>1. /\ IInv' /\ EndJob(t) /\ hand[t].type = "loop" /\ state[t] = "busy" /\ TypeOK
      /\ releaseCycle' = RealMinCycle(t)
      /\ UNCHANGED <<loopCycles, statsThreads, deferred, released, since>>
  BY EndJobKeeps DEF RInv, IInv, SetCycle, EndJob
<1>2. /\ UNCHANGED <<object, mainState>> /\ state'[t] = "idle"
      /\ \A u \in Thread \ {t} : state'[u] = state[u] /\ hand'[u] = hand[u]
  BY <1>1 DEF EndJob, PutBack, Drop, TypeOK
<1>3. releaseCycle' \in 0..MaxCycle
  <2>1. loopCycles[t] \in 0..MaxCycle /\ t \in statsThreads
    BY <1>1 DEF RInv, ReleaseTypeOK, LowCycles
  <2>2. {loopCycles[t] : u \in statsThreads} = {loopCycles[t]}
    BY <2>1
  <2>3. Min({loopCycles[t]}) = loopCycles[t]
    BY <2>1, CycleAssumption DEF Min
  <2> QED
    BY <1>1, <2>1, <2>2, <2>3 DEF RealMinCycle
<1>4. ReleaseTypeOK'
  <2>1. 0..MaxCycle \subseteq 0..CycleMod - 1
    BY CycleAssumption
  <2> QED
    BY <1>1, <1>3, <2>1 DEF RInv, IInv, ReleaseTypeOK
<1>5. EntriesDiffer' /\ NothingWaitsAtEnd'
  BY <1>1, <1>2 DEF RInv, EntriesDiffer, NothingWaitsAtEnd
<1>6. LeaversListed' /\ ReleasedGone'
  BY <1>1, <1>2 DEF RInv, LeaversListed, Listed, ReleasedGone
<1>7. LowCycles'
  BY <1>1, <1>2, <1>3, CycleAssumption DEF RInv, LowCycles
<1> QED
  BY <1>1, <1>4, <1>5, <1>6, <1>7 DEF RInv

-----------------------------------------------------------------------------
(***************************************************************************)
(* An object that leaves is appended to the list, where it is not yet.     *)
(***************************************************************************)
LEMMA DeferKeeps ==
  ASSUME RInv, IInv', NEW o \in Object, Defer(o), object[o] = "live",
         object' = [object EXCEPT ![o] = "gone"],
         mainState # "ended", mainState' = mainState,
         \A t \in Thread :
           state'[t] = "busy" /\ hand'[t].type = "loop" =>
             state[t] = "busy" /\ hand[t].type = "loop"
  PROVE  RInv'
<1> DEFINE e == [object |-> o, cycle |-> releaseCycle]
<1>1. /\ TypeOK' /\ ReleaseTypeOK /\ object \in [Object -> {"none", "live", "gone"}]
      /\ deferred' = Append(deferred, e) /\ since' = [since EXCEPT ![o] = loopCycles]
      /\ UNCHANGED <<loopCycles, statsThreads, releaseCycle, released>>
  BY DEF RInv, IInv, ReleaseTypeOK, TypeOK, Defer
<1>2. e \in Entry /\ deferred \in Seq(Entry)
  BY <1>1 DEF ReleaseTypeOK, Entry
<1>3. e.object = o /\ e.cycle = releaseCycle
  OBVIOUS
<1> HIDE DEF e
<1>4. /\ deferred' \in Seq(Entry) /\ Len(deferred) \in Nat
      /\ DOMAIN deferred = 1..Len(deferred) /\ DOMAIN deferred' = 1..Len(deferred) + 1
      /\ \A i \in 1..Len(deferred) : deferred'[i] = deferred[i]
      /\ deferred'[Len(deferred) + 1] = e
  BY <1>1, <1>2, AppendProperties
<1>5. ~Listed(o) /\ o \notin released
  BY DEF RInv, LeaversListed, ReleasedGone
<1>6. ReleaseTypeOK'
  BY <1>1, <1>4 DEF ReleaseTypeOK
<1>7. EntriesDiffer'
  BY <1>3, <1>4, <1>5 DEF RInv, EntriesDiffer, Listed
<1>8. LeaversListed'
  <2>1. ASSUME NEW p \in Object
        PROVE  Listed(p)' <=> object'[p] = "gone" /\ p \notin released'
    <3>1. CASE p = o
      <4>1. Len(deferred) + 1 \in DOMAIN deferred'
        BY <1>4
      <4>2. Listed(p)'
        BY <1>3, <1>4, <3>1, <4>1 DEF Listed
      <4> QED
        BY <1>1, <1>5, <3>1, <4>2
    <3>2. CASE p # o
      <4>1. Listed(p)' <=> Listed(p)
        BY <1>3, <1>4, <3>2 DEF Listed
      <4>2. object'[p] = object[p]
        BY <1>1, <3>2
      <4> QED
        BY <1>1, <4>1, <4>2 DEF RInv, LeaversListed
    <3> QED
      BY <3>1, <3>2
  <2> QED
    BY <2>1 DEF LeaversListed
<1>9. ReleasedGone'
  BY <1>1 DEF RInv, ReleasedGone, ReleaseTypeOK
<1>10. LowCycles' /\ NothingWaitsAtEnd'
  BY <1>1, <1>3, <1>4 DEF RInv, LowCycles, NothingWaitsAtEnd
<1> QED
  BY <1>6, <1>7, <1>8, <1>9, <1>10 DEF RInv

LEMMA RemoveAndDeferKeeps ==
  ASSUME RInv, NEW o \in Object, RemoveAndDefer(o)
  PROVE  RInv'
<1>1. IInv /\ TypeOK /\ Defer(o)
  BY DEF RInv, IInv, RemoveAndDefer
<1>2. PICK t \in Thread : RemoveObject(t, o) \/ RemoveClient(t, o)
  BY DEF RemoveAndDefer
<1>3. IInv'
  BY <1>1, <1>2, RemoveObjectKeeps, RemoveClientKeeps
<1>4. /\ object[o] = "live" /\ object' = [object EXCEPT ![o] = "gone"]
      /\ mainState' = mainState /\ state[t] \in {"popped", "busy"}
  BY <1>2 DEF RemoveObject, RemoveClient, Popped
<1>5. mainState # "ended"
  BY <1>1, <1>4 DEF IInv, ErasedLast, JobsErased
<1>6. \A u \in Thread :
        state'[u] = "busy" /\ hand'[u].type = "loop" =>
          state[u] = "busy" /\ hand[u].type = "loop"
  <2>1. CASE RemoveObject(t, o)
    BY <2>1 DEF RemoveObject
  <2>2. CASE RemoveClient(t, o)
    BY <1>1, <2>2 DEF RemoveClient, Drop, TypeOK
  <2> QED
    BY <1>2, <2>1, <2>2
<1> QED
  BY <1>1, <1>3, <1>4, <1>5, <1>6, DeferKeeps

LEMMA LastRemoveKeeps ==
  ASSUME RInv, NEW o \in Object, LastRemove(o)
  PROVE  RInv'
<1>1. /\ IInv /\ TypeOK /\ Defer(o) /\ mainState = "last"
      /\ object[o] = "live" /\ object' = [object EXCEPT ![o] = "gone"]
      /\ UNCHANGED <<jobs, hand, state, mainState, finishes, stopper>>
  BY DEF RInv, IInv, LastRemove
<1>2. IInv'
  <2>1. TypeOK'
    BY <1>1 DEF TypeOK
  <2>2. \A p \in Object :
          object'[p] = object[p] \/ (object[p] = "live" /\ object'[p] = "gone")
    BY <1>1 DEF TypeOK
  <2> QED
    BY <1>1, <2>1, <2>2, SameCounts, OutsideKeeps
<1> QED
  BY <1>1, <1>2, DeferKeeps

(***************************************************************************)
(* A prefix of the list is released: those objects have no other entry.    *)
(***************************************************************************)
LEMMA PrefixReleased ==
  ASSUME RInv, NEW k \in 0..Len(deferred),
         released' = released \cup {deferred[i].object : i \in 1..k},
         deferred' = SubSeq(deferred, k + 1, Len(deferred)),
         object' = object
  PROVE  /\ deferred' \in Seq(Entry) /\ released' \subseteq Object
         /\ EntriesDiffer' /\ LeaversListed' /\ ReleasedGone'
         /\ \A i \in DOMAIN deferred' : deferred'[i].cycle <= MaxCycle
         /\ k = Len(deferred) => deferred' = <<>>
<1>1. deferred \in Seq(Entry) /\ released \subseteq Object
      /\ DOMAIN deferred = 1..Len(deferred) /\ Len(deferred) \in Nat
  BY DEF RInv, ReleaseTypeOK
<1>2. /\ deferred' \in Seq(Entry) /\ Len(deferred') = Len(deferred) - k
      /\ DOMAIN deferred' = 1..Len(deferred) - k
      /\ \A i \in 1..Len(deferred) - k : deferred'[i] = deferred[k + i]
  BY <1>1, SubSeqProperties
<1>3. \A i \in 1..k : deferred[i].object \in Object /\ object[deferred[i].object] = "gone"
                      /\ deferred[i].object \notin released
  <2>1. ASSUME NEW i \in 1..k
        PROVE  deferred[i].object \in Object /\ Listed(deferred[i].object)
    <3>1. i \in DOMAIN deferred /\ deferred[i] \in Entry
      BY <1>1
    <3> QED
      BY <3>1 DEF Listed, Entry
  <2> QED
    BY <2>1 DEF RInv, LeaversListed
<1>4. \A i \in DOMAIN deferred' : k + i \in DOMAIN deferred /\ deferred'[i] = deferred[k + i]
  BY <1>1, <1>2
<1>5. EntriesDiffer'
  <2>1. ASSUME NEW i \in DOMAIN deferred', NEW j \in DOMAIN deferred',
               deferred'[i].object = deferred'[j].object
        PROVE  i = j
    <3>1. k + i = k + j
      BY <1>4, <2>1 DEF RInv, EntriesDiffer
    <3> QED
      BY <1>2, <3>1
  <2> QED
    BY <2>1 DEF EntriesDiffer
<1>6. LeaversListed'
  <2>1. ASSUME NEW o \in Object
        PROVE  Listed(o)' <=> object'[o] = "gone" /\ o \notin released'
    <3>1. ASSUME NEW i \in DOMAIN deferred', deferred'[i].object = o
          PROVE  object[o] = "gone" /\ o \notin released'
      <4>1. k + i \in DOMAIN deferred /\ deferred[k + i].object = o
        BY <1>4, <3>1
      <4>2. object[o] = "gone" /\ o \notin released
        BY <4>1 DEF RInv, LeaversListed, Listed
      <4>3. ASSUME NEW j \in 1..k, deferred[j].object = o PROVE FALSE
        <5> DEFINE n == Len(deferred)
        <5>1. n \in Nat /\ k \in 0..n /\ i \in 1..n - k /\ j \in 1..k
          BY <1>1, <1>2
        <5> HIDE DEF n
        <5>2. j \in 1..n /\ j # k + i
          BY <5>1
        <5>3. j \in DOMAIN deferred
          BY <1>1, <5>2 DEF n
        <5> QED
          BY <4>1, <4>3, <5>2, <5>3 DEF RInv, EntriesDiffer
      <4> QED
        BY <4>2, <4>3
    <3>2. ASSUME object[o] = "gone", o \notin released'
          PROVE  \E i \in DOMAIN deferred' : deferred'[i].object = o
      <4>1. PICK j \in DOMAIN deferred : deferred[j].object = o
        BY <3>2 DEF RInv, LeaversListed, Listed
      <4>2. j \notin 1..k
        BY <3>2, <4>1
      <4>3. j - k \in DOMAIN deferred' /\ k + (j - k) = j
        <5> DEFINE n == Len(deferred)
        <5>1. n \in Nat /\ k \in 0..n /\ j \in 1..n /\ j \notin 1..k
          BY <1>1, <4>1, <4>2
        <5> HIDE DEF n
        <5>2. j - k \in 1..n - k /\ k + (j - k) = j
          BY <5>1
        <5> QED
          BY <1>2, <5>2 DEF n
      <4>4. deferred'[j - k] = deferred[j]
        BY <1>4, <4>3
      <4> QED
        BY <4>1, <4>3, <4>4
    <3> QED
      BY <3>1, <3>2 DEF Listed
  <2> QED
    BY <2>1 DEF LeaversListed
<1>7. ReleasedGone' /\ released' \subseteq Object
  BY <1>1, <1>3 DEF RInv, ReleasedGone
<1>8. \A i \in DOMAIN deferred' : deferred'[i].cycle <= MaxCycle
  BY <1>4 DEF RInv, LowCycles
<1>9. k = Len(deferred) => deferred' = <<>>
  BY <1>2, EmptySeq
<1> QED
  BY <1>2, <1>5, <1>6, <1>7, <1>8, <1>9

LEMMA ReleaseKeeps ==
  ASSUME RInv, NEW t \in Thread, Release(t)
  PROVE  RInv'
<1>1. /\ IInv' /\ EndJob(t) /\ TypeOK /\ state[t] = "busy" /\ deferred \in Seq(Entry)
      /\ ProcessDeferredReleasing(releaseCycle)
      /\ UNCHANGED <<loopCycles, statsThreads, releaseCycle, since>>
  BY EndJobKeeps DEF RInv, IInv, Release, EndJob, ReleaseTypeOK
<1>2. /\ UNCHANGED <<object, mainState>> /\ state'[t] = "idle"
      /\ \A u \in Thread \ {t} : state'[u] = state[u] /\ hand'[u] = hand[u]
  BY <1>1 DEF EndJob, PutBack, Drop, TypeOK
<1>3. mainState # "ended"
  BY <1>1 DEF RInv, IInv, ErasedLast, JobsErased
<1>4. /\ deferred' \in Seq(Entry) /\ released' \subseteq Object
      /\ EntriesDiffer' /\ LeaversListed' /\ ReleasedGone'
      /\ \A i \in DOMAIN deferred' : deferred'[i].cycle <= MaxCycle
  <2>1. CASE UNCHANGED <<deferred, released>>
    BY <1>1, <1>2, <2>1
       DEF RInv, ReleaseTypeOK, EntriesDiffer, LeaversListed, Listed, ReleasedGone, LowCycles
  <2>2. CASE ~(releaseCycle < 3)
    <3>1. Ripe(releaseCycle) \in 0..Len(deferred)
      BY <1>1, RipeInRange
    <3> QED
      BY <1>1, <1>2, <2>2, <3>1, PrefixReleased DEF ProcessDeferredReleasing
  <2> QED
    BY <1>1, <2>1, <2>2 DEF ProcessDeferredReleasing
<1>5. ReleaseTypeOK'
  BY <1>1, <1>4 DEF RInv, IInv, ReleaseTypeOK
<1>6. LowCycles' /\ NothingWaitsAtEnd'
  BY <1>1, <1>2, <1>3, <1>4 DEF RInv, LowCycles, NothingWaitsAtEnd
<1> QED
  BY <1>1, <1>4, <1>5, <1>6 DEF RInv

LEMMA LastReleaseKeeps ==
  ASSUME RInv, LastRelease
  PROVE  RInv'
<1>1. /\ IInv /\ TypeOK /\ mainState = "last" /\ mainState' = "ended"
      /\ deferred \in Seq(Entry) /\ releaseCycle' = CycleMod - 1
      /\ ProcessDeferredReleasing(CycleMod - 1)
      /\ UNCHANGED <<jobs, hand, state, object, finishes, stopper,
                     loopCycles, statsThreads, since>>
  BY DEF RInv, IInv, LastRelease, ReleaseTypeOK
<1>2. IInv'
  <2>1. TypeOK'
    BY <1>1 DEF TypeOK
  <2> QED
    BY <1>1, <2>1, SameCounts, OutsideKeeps
<1>3. ~(CycleMod - 1 < 3) /\ CycleMod - 1 \in 0..CycleMod - 1
  BY CycleAssumption
<1>4. Ripe(CycleMod - 1) = Len(deferred) /\ Len(deferred) \in 0..Len(deferred)
  BY <1>1, AllRipeAtEnd
<1>5. /\ deferred' \in Seq(Entry) /\ released' \subseteq Object
      /\ EntriesDiffer' /\ LeaversListed' /\ ReleasedGone' /\ deferred' = <<>>
  BY <1>1, <1>3, <1>4, PrefixReleased DEF ProcessDeferredReleasing
<1>6. ReleaseTypeOK'
  BY <1>1, <1>2, <1>3, <1>5 DEF RInv, IInv, ReleaseTypeOK
<1>7. LowCycles' /\ NothingWaitsAtEnd'
  BY <1>1, <1>5 DEF RInv, LowCycles, NothingWaitsAtEnd
<1> QED
  BY <1>2, <1>5, <1>6, <1>7 DEF RInv

-----------------------------------------------------------------------------
LEMMA ReleaseInitially == ReleaseInit => RInv
<1> SUFFICES ASSUME ReleaseInit PROVE RInv
  OBVIOUS
<1>1. IInv /\ TypeOK /\ mainState = "starting" /\ object = [o \in Object |-> "none"]
      /\ state = [t \in Thread |-> "off"]
  BY Initially DEF ReleaseInit, Init, IInv
<1>2. ReleaseTypeOK
  BY <1>1, CycleAssumption DEF ReleaseInit, ReleaseTypeOK
<1>3. EntriesDiffer /\ LeaversListed /\ ReleasedGone
  BY <1>1 DEF ReleaseInit, EntriesDiffer, LeaversListed, Listed, ReleasedGone
<1>4. LowCycles /\ NothingWaitsAtEnd
  BY <1>1, CycleAssumption DEF ReleaseInit, LowCycles, NothingWaitsAtEnd
<1> QED
  BY <1>1, <1>2, <1>3, <1>4 DEF RInv

LEMMA ReleaseInductive == RInv /\ [ReleaseNext]_vars => RInv'
<1> SUFFICES ASSUME RInv, [ReleaseNext]_vars PROVE RInv'
  OBVIOUS
<1>1. CASE UNCHANGED vars
  <2>1. UNCHANGED queueVars /\ UNCHANGED releaseVars
    BY <1>1 DEF vars
  <2>2. IInv'
    BY <2>1, Inductive DEF RInv
  <2> QED
    BY <2>1, <2>2, QueueStepKeeps DEF queueVars
<1>2. ASSUME NEW t \in Thread, CountCycle(t) \/ SetCycle(t) \/ Release(t) PROVE RInv'
  BY <1>2, CountCycleKeeps, SetCycleKeeps, ReleaseKeeps
<1>3. ASSUME NEW o \in Object, RemoveAndDefer(o) \/ LastRemove(o) PROVE RInv'
  BY <1>3, RemoveAndDeferKeeps, LastRemoveKeeps
<1>4. CASE LastRelease \/ OtherStep
  BY <1>4, LastReleaseKeeps, OtherStepKeeps
<1> QED
  BY <1>1, <1>2, <1>3, <1>4 DEF ReleaseNext

(***************************************************************************)
(* The lists of deferred objects and the cycles, which are uint, keep      *)
(* their types.                                                            *)
(***************************************************************************)
THEOREM ReleaseTypeCorrect == ReleaseSpec => []ReleaseTypeOK
<1>1. RInv => ReleaseTypeOK
  BY DEF RInv
<1> QED
  BY <1>1, ReleaseInitially, ReleaseInductive, PTL DEF ReleaseSpec

(***************************************************************************)
(* DeferReleaseObject and ProcessDeferredReleasing neither leak an object  *)
(* nor release one twice, whatever the cycles of the threads are.          *)
(***************************************************************************)
THEOREM NoLeakNoDouble == ReleaseSpec => []ReleasedOnce
<1>1. RInv => ReleasedOnce
  BY ReleasedOnceFollows
<1> QED
  BY <1>1, ReleaseInitially, ReleaseInductive, PTL DEF ReleaseSpec

-----------------------------------------------------------------------------
(***************************************************************************)
(* One logic thread.  Then the deque is a queue: the job of an object that *)
(* has left comes to its front before the loop job has been done twice.    *)
(***************************************************************************)
OneThread == \A t, u \in Thread : t = u

(***************************************************************************)
(* What a job is can be told from its data and its type.                   *)
(***************************************************************************)
Formed(job) ==
  /\ job.type = "loop" => job.data = NoObject /\ job.owner \in Thread
  /\ job.data \in Object => job.type = "object"

WellFormed ==
  /\ \A p \in DOMAIN jobs : Formed(jobs[p])
  /\ \A t \in Thread : Formed(hand[t])

(***************************************************************************)
(* The loop job comes before the job at p.                                 *)
(***************************************************************************)
LoopBefore(p) ==
  \/ \E t \in Thread : hand[t].type = "loop"
  \/ \E q \in DOMAIN jobs : q < p /\ jobs[q].type = "loop"

(***************************************************************************)
(* While an object that is to be released has a job, the cycle is at most  *)
(* the next one after its own, and not even that while the loop job or,    *)
(* with the object's own job, the thread has still to come.                *)
(***************************************************************************)
HeldBriefly(o, c) ==
  \A t \in Thread :
    hand[t].data = o =>
      releaseCycle <= c + 1 /\ (state[t] = "busy" => releaseCycle <= c)

QueuedBriefly(o, c) ==
  \A p \in DOMAIN jobs :
    jobs[p].data = o => releaseCycle <= c + 1 /\ (LoopBefore(p) => releaseCycle <= c)

DroppedSoon ==
  \A i \in DOMAIN deferred :
    /\ HeldBriefly(deferred[i].object, deferred[i].cycle)
    /\ QueuedBriefly(deferred[i].object, deferred[i].cycle)

(***************************************************************************)
(* The cycle of deferred releasing is that of the thread.                  *)
(***************************************************************************)
InLoopJob(t) == state[t] = "busy" /\ hand[t].type = "loop"

CycleOfThread ==
  mainState # "ended" =>
    \A t \in Thread :
      loopCycles[t] = IF InLoopJob(t) THEN releaseCycle + 1 ELSE releaseCycle

SinceOwnCycle ==
  \A i \in DOMAIN deferred : \A t \in Thread :
    since[deferred[i].object][t] <= deferred[i].cycle

NothingQueuedAtEnd == JobsErased => jobs = <<>>

SInv ==
  /\ RInv /\ NoDanglingJob
  /\ WellFormed /\ DroppedSoon /\ CycleOfThread /\ SinceOwnCycle /\ NothingQueuedAtEnd

NoJobOf(o) ==
  /\ \A p \in DOMAIN jobs : jobs[p].data # o
  /\ \A t \in Thread : hand[t].data # o

Brief(o, c) == HeldBriefly(o, c) /\ QueuedBriefly(o, c)

(***************************************************************************)
(* What a step of the deque leaves true of an object that has left.        *)
(***************************************************************************)
Still(o) ==
  /\ NoJobOf(o) => NoJobOf(o)'
  /\ \A c \in Int : Brief(o, c) => Brief(o, c)'

LEMMA ThatThread == ASSUME OneThread, NEW t \in Thread PROVE Thread = {t}
  BY DEF OneThread

LEMMA NoJobFormed == Formed(NoJob) /\ NoJob.data \notin Object /\ NoJob.type = "nop"
  BY NoObjectAssumption DEF Formed, NoJob, Job

LEMMA PushStill ==
  ASSUME TypeOK, WellFormed, NEW new \in JobRecord, Formed(new), PushBack(new), hand' = hand,
         \A t \in Thread : state'[t] = "busy" => state[t] = "busy",
         releaseCycle' = releaseCycle
  PROVE  WellFormed' /\ \A o \in Object : new.data # o => Still(o)
<1>1. jobs \in Seq(JobRecord) /\ jobs' = Append(jobs, new)
  BY DEF TypeOK, PushBack
<1>2. /\ Len(jobs) \in Nat
      /\ DOMAIN jobs = 1..Len(jobs) /\ DOMAIN jobs' = 1..Len(jobs) + 1
      /\ \A p \in 1..Len(jobs) : jobs'[p] = jobs[p]
      /\ jobs'[Len(jobs) + 1] = new
  BY <1>1, AppendProperties
<1>3. WellFormed'
  <2>1. ASSUME NEW p \in DOMAIN jobs' PROVE Formed(jobs'[p])
    <3>1. p \in DOMAIN jobs \/ p = Len(jobs) + 1
      BY <1>2
    <3> QED
      BY <1>2, <3>1 DEF WellFormed
  <2> QED
    BY <2>1 DEF WellFormed, Formed
<1>4. ASSUME NEW o \in Object, new.data # o PROVE Still(o)
  <2>1. ASSUME NEW p \in DOMAIN jobs', jobs'[p].data = o
        PROVE  /\ p \in DOMAIN jobs /\ jobs[p].data = o
               /\ LoopBefore(p)' => LoopBefore(p)
    <3>1. p \in DOMAIN jobs /\ jobs[p].data = o
      BY <1>2, <1>4, <2>1
    <3>2. ASSUME NEW q \in DOMAIN jobs', q < p PROVE q \in DOMAIN jobs /\ jobs'[q] = jobs[q]
      BY <1>2, <3>1, <3>2
    <3> QED
      BY <3>1, <3>2 DEF LoopBefore
  <2>2. NoJobOf(o) => NoJobOf(o)'
    BY <2>1 DEF NoJobOf
  <2>3. ASSUME NEW c \in Int, Brief(o, c) PROVE Brief(o, c)'
    BY <2>1, <2>3 DEF Brief, HeldBriefly, QueuedBriefly
  <2> QED
    BY <2>2, <2>3 DEF Still
<1> QED
  BY <1>3, <1>4

(***************************************************************************)
(* A single thread may execute any job: it takes the first.                *)
(***************************************************************************)
LEMMA FirstIsTaken ==
  ASSUME OneThread, TypeOK, NEW t \in Thread, PopFront(t)
  PROVE  /\ jobs # <<>> /\ hand' = [hand EXCEPT ![t] = jobs[1]]
         /\ jobs' = RemoveAt(jobs, 1)
<1> DEFINE Mine(job) == MayExecute(t, job)
           I == {i \in 1..Len(jobs) : Mine(jobs[i])}
<1>1. jobs \in Seq(JobRecord) /\ DOMAIN jobs = 1..Len(jobs) /\ Len(jobs) \in Nat
  BY DEF TypeOK
<1>2. \A i \in 1..Len(jobs) : Mine(jobs[i])
  <2>1. ASSUME NEW i \in 1..Len(jobs) PROVE Mine(jobs[i])
    <3>1. jobs[i] \in JobRecord
      BY <1>1
    <3>2. jobs[i].owner \in Thread \cup {NoThread}
      BY <3>1 DEF JobRecord
    <3> QED
      BY <3>2 DEF MayExecute, OneThread
  <2> QED
    BY <2>1
<1>3. I = 1..Len(jobs) /\ Len(jobs) # 0
  BY <1>1, <1>2 DEF PopFront
<1>4. 1 \in I /\ \A i \in I : 1 <= i
  BY <1>1, <1>3
<1>5. Min(I) = 1
  <2> HIDE DEF I
  <2>1. \A x \in I : (\A i \in I : x <= i) => x <= 1
    BY <1>4
  <2>2. \A x \in I : x \in Int
    BY <1>1, <1>3
  <2> QED
    BY <1>4, <2>1, <2>2 DEF Min
<1>6. SelectInSeq(jobs, Mine) = 1
  BY <1>3, <1>4, <1>5 DEF SelectInSeq
<1>7. hand' = [hand EXCEPT ![t] = jobs[1]]
  BY <1>6 DEF PopFront
<1>8. jobs' = RemoveAt(jobs, 1)
  BY <1>3, <1>4, <1>6 DEF PopFront, RemoveFirstMatch
<1> QED
  BY <1>1, <1>3, <1>7, <1>8

LEMMA PopStill ==
  ASSUME OneThread, TypeOK, WellFormed, NEW t \in Thread, PopFront(t), state'[t] = "popped",
         releaseCycle' = releaseCycle
  PROVE  WellFormed' /\ \A o \in Object : Still(o)
<1>1. /\ Len(jobs) \in Nat \ {0} /\ DOMAIN jobs = 1..Len(jobs)
      /\ DOMAIN jobs' = 1..Len(jobs) - 1
      /\ \A p \in 1..Len(jobs) - 1 : jobs'[p] = jobs[p + 1]
      /\ hand'[t] = jobs[1]
  <2>1. jobs \in Seq(JobRecord) /\ jobs # <<>> /\ jobs' = RemoveAt(jobs, 1)
        /\ hand'[t] = jobs[1]
    BY FirstIsTaken DEF TypeOK
  <2>2. Len(jobs) \in Nat \ {0} /\ DOMAIN jobs = 1..Len(jobs) /\ jobs' = Tail(jobs)
    BY <2>1 DEF RemoveAt
  <2> QED
    BY <2>1, <2>2
<1>2. \A p \in DOMAIN jobs' : p + 1 \in DOMAIN jobs /\ jobs'[p] = jobs[p + 1]
  BY <1>1
<1>3. Thread = {t} /\ 1 \in DOMAIN jobs
  BY <1>1, ThatThread
<1>4. WellFormed'
  BY <1>1, <1>2, <1>3 DEF WellFormed, Formed
<1>5. ASSUME NEW o \in Object PROVE Still(o)
  <2>1. NoJobOf(o) => NoJobOf(o)'
    BY <1>1, <1>2, <1>3 DEF NoJobOf
  <2>2. ASSUME NEW c \in Int, Brief(o, c) PROVE Brief(o, c)'
    <3>1. HeldBriefly(o, c)'
      BY <1>1, <1>3, <2>2 DEF Brief, HeldBriefly, QueuedBriefly
    <3>2. ASSUME NEW p \in DOMAIN jobs', jobs'[p].data = o
          PROVE  releaseCycle <= c + 1 /\ (LoopBefore(p)' => releaseCycle <= c)
      <4>1. p + 1 \in DOMAIN jobs /\ jobs[p + 1].data = o /\ p \in Int /\ p >= 1
        BY <1>1, <1>2, <3>2
      <4>2. CASE jobs[1].type = "loop"
        <5>1. LoopBefore(p + 1)
          BY <1>3, <4>1, <4>2 DEF LoopBefore
        <5> QED
          BY <2>2, <4>1, <5>1 DEF Brief, QueuedBriefly
      <4>3. CASE jobs[1].type # "loop"
        <5>1. ASSUME NEW q \in DOMAIN jobs', q < p, jobs'[q].type = "loop"
              PROVE  q + 1 \in DOMAIN jobs /\ q + 1 < p + 1 /\ jobs[q + 1].type = "loop"
          BY <1>1, <1>2, <4>1, <5>1
        <5>2. LoopBefore(p)' => LoopBefore(p + 1)
          BY <1>1, <1>3, <4>3, <5>1 DEF LoopBefore
        <5> QED
          BY <2>2, <4>1, <5>2 DEF Brief, QueuedBriefly
      <4> QED
        BY <4>2, <4>3
    <3> QED
      BY <3>1, <3>2 DEF Brief, QueuedBriefly
  <2> QED
    BY <2>1, <2>2 DEF Still
<1> QED
  BY <1>4, <1>5

LEMMA HandsForget ==
  ASSUME OneThread, TypeOK, WellFormed, NEW t \in Thread, NEW next, Drop(t, next), jobs' = jobs,
         releaseCycle' = releaseCycle
  PROVE  WellFormed' /\ \A o \in Object : Still(o)
<1>1. Thread = {t} /\ hand'[t] = NoJob
  BY ThatThread DEF Drop, TypeOK
<1>2. WellFormed'
  BY <1>1, NoJobFormed DEF WellFormed, Formed
<1>3. ASSUME NEW o \in Object PROVE Still(o)
  <2>1. NoJob.data # o /\ NoJob.type # "loop"
    BY NoJobFormed
  <2>2. \A p \in DOMAIN jobs : LoopBefore(p)' => LoopBefore(p)
    BY <1>1, <2>1 DEF LoopBefore
  <2> QED
    BY <1>1, <2>1, <2>2 DEF Still, NoJobOf, Brief, HeldBriefly, QueuedBriefly
<1> QED
  BY <1>2, <1>3

(***************************************************************************)
(* A job that goes to the back is behind the loop job, if it was not the   *)
(* loop job itself: then the cycle is the next one.                        *)
(***************************************************************************)
LEMMA PutBackStill ==
  ASSUME OneThread, TypeOK, WellFormed, NEW t \in Thread, PutBack(t),
         hand[t].data \in Object => state[t] = "busy",
         releaseCycle \in Int,
         \/ hand[t].type # "loop" /\ releaseCycle' = releaseCycle
         \/ /\ hand[t].type = "loop" /\ releaseCycle' = releaseCycle + 1
            /\ \A p \in DOMAIN jobs : jobs[p].type # "loop"
  PROVE  WellFormed' /\ \A o \in Object : Still(o)
<1>1. /\ hand[t] \in JobRecord /\ jobs \in Seq(JobRecord)
      /\ jobs' = Append(jobs, hand[t])
      /\ Thread = {t} /\ hand'[t] = NoJob
  BY ThatThread DEF TypeOK, PutBack, PushBack, Drop
<1>2. /\ Len(jobs) \in Nat
      /\ DOMAIN jobs = 1..Len(jobs) /\ DOMAIN jobs' = 1..Len(jobs) + 1
      /\ \A p \in 1..Len(jobs) : jobs'[p] = jobs[p]
      /\ jobs'[Len(jobs) + 1] = hand[t]
  BY <1>1, AppendProperties
<1>3. \A p \in DOMAIN jobs' : \/ p \in DOMAIN jobs /\ jobs'[p] = jobs[p]
                              \/ p = Len(jobs) + 1 /\ jobs'[p] = hand[t]
  BY <1>2
<1>4. WellFormed'
  BY <1>1, <1>3, NoJobFormed DEF WellFormed, Formed
<1>5. ASSUME NEW o \in Object PROVE Still(o)
  <2>1. NoJob.data # o /\ NoJob.type # "loop"
    BY NoJobFormed
  <2>2. NoJobOf(o) => NoJobOf(o)'
    BY <1>1, <1>3, <2>1 DEF NoJobOf
  <2>3. ASSUME NEW c \in Int, Brief(o, c) PROVE Brief(o, c)'
    <3>1. HeldBriefly(o, c)'
      BY <1>1, <2>1 DEF HeldBriefly
    <3>2. ASSUME NEW p \in DOMAIN jobs', jobs'[p].data = o
          PROVE  releaseCycle' <= c + 1 /\ (LoopBefore(p)' => releaseCycle' <= c)
      <4>1. CASE p = Len(jobs) + 1
        <5>1. hand[t].data = o /\ hand[t].type # "loop"
          BY <1>2, <3>2, <4>1, NoObjectAssumption DEF WellFormed, Formed
        <5>2. releaseCycle <= c
          BY <2>3, <5>1 DEF Brief, HeldBriefly
        <5> QED
          BY <5>1, <5>2
      <4>2. CASE p \in DOMAIN jobs
        <5>1. jobs[p].data = o
          BY <1>2, <3>2, <4>2
        <5>2. \A q \in DOMAIN jobs' : q < p => q \in DOMAIN jobs /\ jobs'[q] = jobs[q]
          BY <1>2, <4>2
        <5>3. CASE hand[t].type # "loop" /\ releaseCycle' = releaseCycle
          <6>1. LoopBefore(p)' => LoopBefore(p)
            BY <1>1, <2>1, <5>2 DEF LoopBefore
          <6> QED
            BY <2>3, <4>2, <5>1, <5>3, <6>1 DEF Brief, QueuedBriefly
        <5>4. CASE /\ hand[t].type = "loop" /\ releaseCycle' = releaseCycle + 1
                   /\ \A q \in DOMAIN jobs : jobs[q].type # "loop"
          <6>1. LoopBefore(p) /\ ~LoopBefore(p)'
            BY <1>1, <2>1, <5>2, <5>4 DEF LoopBefore
          <6>2. releaseCycle <= c
            BY <2>3, <4>2, <5>1, <6>1 DEF Brief, QueuedBriefly
          <6> QED
            BY <5>4, <6>1, <6>2
        <5> QED
          BY <5>3, <5>4
      <4> QED
        BY <1>3, <4>1, <4>2
    <3> QED
      BY <3>1, <3>2 DEF Brief, QueuedBriefly
  <2> QED
    BY <2>2, <2>3 DEF Still
<1> QED
  BY <1>4, <1>5

(***************************************************************************)
(* The loop job in the hand of its thread is in the deque no more.         *)
(***************************************************************************)
LEMMA NoOtherLoopJob ==
  ASSUME OneThread, IInv, WellFormed, NEW t \in Thread, state[t] = "busy", hand[t].type = "loop"
  PROVE  \A p \in DOMAIN jobs : jobs[p].type # "loop"
<1> DEFINE P == {p \in DOMAIN jobs : jobs[p] = LoopJob(t)}
           H == {u \in Thread : hand[u] = LoopJob(t)}
<1>1. ASSUME NEW job \in JobRecord, Formed(job), job.type = "loop" PROVE job = LoopJob(t)
  BY <1>1 DEF Formed, OneThread, JobRecord, LoopJob, Job
<1>2. jobs \in Seq(JobRecord) /\ hand[t] \in JobRecord
  BY DEF IInv, TypeOK
<1>3. H = {t}
  BY <1>1, <1>2, ThatThread DEF WellFormed
<1>4. Cardinality(P) + Cardinality(H) = 1
  BY DEF IInv, JobsConserved, LoopJobsConserved, Working, Copies
<1>5. IsFiniteSet(P) /\ Cardinality(P) \in Nat
  BY <1>2, PositionsFinite DEF Positions
<1>6. P = {}
  <2>1. Cardinality(H) = 1
    BY <1>3, FS_Singleton
  <2> HIDE DEF P, H
  <2>2. Cardinality(P) = 0
    BY <1>4, <1>5, <2>1
  <2> QED
    BY <1>5, <2>2, FS_EmptySet
<1>7. ASSUME NEW p \in DOMAIN jobs, jobs[p].type = "loop" PROVE FALSE
  <2>1. jobs[p] \in JobRecord
    BY <1>2
  <2>2. p \in P
    BY <1>1, <1>7, <2>1 DEF WellFormed
  <2> QED
    BY <1>6, <2>2
<1> QED
  BY <1>7

(***************************************************************************)
(* A step may defer objects in the present cycle and release those that    *)
(* have no job any more.                                                   *)
(***************************************************************************)
LEMMA StillDropped ==
  ASSUME SInv, RInv',
         \A o \in Object : object[o] = "gone" => Still(o),
         \A i \in DOMAIN deferred' :
           \/ \E j \in DOMAIN deferred : deferred'[i] = deferred[j]
           \/ deferred'[i].cycle = releaseCycle',
         \A o \in released' \ released : object[o] = "gone" /\ NoJobOf(o)
  PROVE  DroppedSoon' /\ NoDanglingJob'
<1>1. ASSUME NEW o \in released' PROVE NoJobOf(o)'
  <2>1. o \in Object /\ object[o] = "gone" /\ NoJobOf(o)
    BY <1>1 DEF SInv, RInv, ReleaseTypeOK, ReleasedGone, NoDanglingJob, NoJobOf
  <2> QED
    BY <2>1 DEF Still
<1>2. ASSUME NEW i \in DOMAIN deferred', NEW o, NEW c,
             o = deferred'[i].object, c = deferred'[i].cycle
      PROVE  Brief(o, c)'
  <2>1. CASE \E j \in DOMAIN deferred : deferred'[i] = deferred[j]
    <3>1. PICK j \in DOMAIN deferred : o = deferred[j].object /\ c = deferred[j].cycle
      BY <1>2, <2>1
    <3>2. deferred[j] \in Entry
      BY <3>1 DEF SInv, RInv, ReleaseTypeOK
    <3>3. o \in Object /\ c \in Int /\ object[o] = "gone" /\ Brief(o, c)
      BY <3>1, <3>2, CycleAssumption
         DEF SInv, RInv, LeaversListed, Listed, DroppedSoon, Brief, Entry
    <3> QED
      BY <3>3 DEF Still
  <2>2. CASE deferred'[i].cycle = releaseCycle'
    <3>1. releaseCycle' \in Int
      BY CycleAssumption DEF RInv, ReleaseTypeOK
    <3> QED
      BY <1>2, <2>2, <3>1 DEF Brief, HeldBriefly, QueuedBriefly
  <2> QED
    BY <2>1, <2>2
<1>3. DroppedSoon'
  <2>1. ASSUME NEW i \in DOMAIN deferred'
        PROVE  \E o, c : /\ o = deferred'[i].object /\ c = deferred'[i].cycle
                         /\ HeldBriefly(o, c)' /\ QueuedBriefly(o, c)'
    BY <1>2 DEF Brief
  <2> QED
    BY <2>1 DEF DroppedSoon, HeldBriefly, QueuedBriefly, LoopBefore
<1> QED
  BY <1>1, <1>3 DEF NoDanglingJob, NoJobOf

(***************************************************************************)
(* A step of the deque that has no part in releasing.                      *)
(***************************************************************************)
LEMMA QueueStepKeepsS ==
  ASSUME SInv, RInv', WellFormed', UNCHANGED releaseVars,
         \A o \in Object : object[o] = "gone" => Still(o),
         \A t \in Thread : InLoopJob(t)' <=> InLoopJob(t),
         mainState = "ended" => mainState' = "ended",
         NothingQueuedAtEnd'
  PROVE  SInv'
<1>1. DroppedSoon' /\ NoDanglingJob'
  BY StillDropped DEF releaseVars
<1>2. CycleOfThread' /\ SinceOwnCycle'
  BY DEF SInv, CycleOfThread, SinceOwnCycle, releaseVars, InLoopJob
<1> QED
  BY <1>1, <1>2 DEF SInv

LEMMA OtherStepKeepsS ==
  ASSUME OneThread, SInv, OtherStep
  PROVE  SInv'
<1>1. /\ RInv /\ RInv' /\ IInv /\ TypeOK /\ WellFormed /\ UNCHANGED releaseVars
      /\ NothingQueuedAtEnd /\ releaseCycle' = releaseCycle
  BY OtherStepKeeps DEF SInv, RInv, IInv, OtherStep, releaseVars
<1>2. mainState \in {"starting", "loop", "finishing", "last", "ended"}
  BY <1>1 DEF TypeOK
<1>3. \A t \in Thread : state[t] # "done" => ~JobsErased
  BY <1>1 DEF IInv, ErasedLast
<1>4. ASSUME NEW t \in Thread, InitThread(t) PROVE SInv'
  <2>1. CASE PushBack(LoopJob(t)) /\ state' = [state EXCEPT ![t] = "idle"]
    <3>1. LoopJob(t) \in JobRecord /\ Formed(LoopJob(t)) /\ LoopJob(t).data \notin Object
      BY CountedAreJobs, NoObjectAssumption DEF Formed, LoopJob, Job
    <3>2. hand' = hand /\ \A u \in Thread : state'[u] = "busy" <=> state[u] = "busy"
      BY <1>1, <1>4, <2>1 DEF InitThread, TypeOK
    <3>3. WellFormed' /\ \A o \in Object : LoopJob(t).data # o => Still(o)
      BY <1>1, <2>1, <3>1, <3>2, PushStill
    <3>4. NothingQueuedAtEnd'
      BY <1>3, <1>4 DEF InitThread, NothingQueuedAtEnd, JobsErased
    <3> QED
      BY <1>1, <1>4, <3>1, <3>2, <3>3, <3>4, QueueStepKeepsS DEF InitThread, InLoopJob
  <2>2. CASE UNCHANGED jobs /\ state' = [state EXCEPT ![t] = "done"]
    <3>1. hand' = hand /\ \A u \in Thread : state'[u] = "busy" <=> state[u] = "busy"
      BY <1>1, <1>4, <2>2 DEF InitThread, TypeOK
    <3>2. \A o \in Object : Still(o)
      BY <1>1, <2>2, <3>1 DEF Still, NoJobOf, Brief, HeldBriefly, QueuedBriefly, LoopBefore
    <3>3. WellFormed'
      BY <1>1, <2>2, <3>1 DEF WellFormed, Formed
    <3>4. NothingQueuedAtEnd'
      BY <1>1, <1>4, <2>2 DEF InitThread, NothingQueuedAtEnd, JobsErased
    <3> QED
      BY <1>1, <1>4, <3>1, <3>2, <3>3, <3>4, QueueStepKeepsS DEF InitThread, InLoopJob
  <2> QED
    BY <1>4, <2>1, <2>2 DEF InitThread
<1>5. ASSUME NEW t \in Thread, StartThread(t) PROVE SInv'
  <2>1. SynchronizeJob \in JobRecord /\ Formed(SynchronizeJob)
        /\ SynchronizeJob.data \notin Object
    BY CountedAreJobs, NoObjectAssumption DEF Formed, SynchronizeJob, Job
  <2>2. /\ hand' = hand /\ PushBack(SynchronizeJob)
        /\ \A u \in Thread : state'[u] = "busy" <=> state[u] = "busy"
        /\ mainState' \in {"starting", "loop"} /\ mainState = "starting"
    BY <1>1, <1>5 DEF StartThread, TypeOK
  <2>3. WellFormed' /\ \A o \in Object : SynchronizeJob.data # o => Still(o)
    BY <1>1, <2>1, <2>2, PushStill
  <2>4. NothingQueuedAtEnd'
    BY <2>2 DEF NothingQueuedAtEnd, JobsErased
  <2> QED
    BY <1>1, <2>1, <2>2, <2>3, <2>4, QueueStepKeepsS DEF InLoopJob
<1>6. ASSUME NEW t \in Thread, PopJob(t) PROVE SInv'
  <2>1. /\ PopFront(t) /\ state[t] = "idle" /\ state'[t] = "popped" /\ Thread = {t}
        /\ UNCHANGED mainState
    BY <1>1, <1>6, ThatThread DEF PopJob, TypeOK
  <2>2. WellFormed' /\ \A o \in Object : Still(o)
    BY <1>1, <2>1, PopStill
  <2>3. NothingQueuedAtEnd'
    BY <1>3, <2>1 DEF NothingQueuedAtEnd, JobsErased
  <2> QED
    BY <1>1, <2>1, <2>2, <2>3, QueueStepKeepsS DEF InLoopJob
<1>7. ASSUME NEW t \in Thread, hand[t].type # "loop", Begin(t) PROVE SInv'
  <2>1. /\ UNCHANGED <<jobs, hand, mainState>> /\ Thread = {t}
        /\ hand[t].data \in Object => object[hand[t].data] = "live"
    BY <1>1, <1>7, ThatThread DEF Begin, Popped, WellFormed, Formed
  <2>2. ASSUME NEW o \in Object, object[o] = "gone" PROVE Still(o)
    BY <1>1, <2>1, <2>2
       DEF Still, NoJobOf, Brief, HeldBriefly, QueuedBriefly, LoopBefore
  <2>3. WellFormed' /\ NothingQueuedAtEnd'
    BY <1>1, <2>1 DEF WellFormed, Formed, NothingQueuedAtEnd, JobsErased
  <2> QED
    BY <1>1, <1>7, <2>1, <2>2, <2>3, QueueStepKeepsS DEF InLoopJob
<1>8. ASSUME NEW t \in Thread,
             \/ hand[t].type \in {"object", "garbage"} /\ EndJob(t)
             \/ PassSynchronize(t)
      PROVE  SInv'
  <2>1. /\ PutBack(t) /\ UNCHANGED mainState /\ Thread = {t} /\ state[t] \in {"popped", "busy"}
        /\ hand[t].type # "loop" /\ state'[t] = "idle"
        /\ hand[t].data \in Object => state[t] = "busy"
    BY <1>1, <1>8, ThatThread
       DEF EndJob, PassSynchronize, Popped, WellFormed, Formed, PutBack, Drop, TypeOK
  <2>2. releaseCycle \in Int
    BY <1>1, CycleAssumption DEF RInv, ReleaseTypeOK
  <2>3. WellFormed' /\ \A o \in Object : Still(o)
    BY <1>1, <2>1, <2>2, PutBackStill
  <2>4. NothingQueuedAtEnd'
    BY <1>3, <2>1 DEF NothingQueuedAtEnd, JobsErased
  <2> QED
    BY <1>1, <2>1, <2>3, <2>4, QueueStepKeepsS DEF InLoopJob
<1>9. ASSUME NEW t \in Thread, DropJob(t) \/ Finish(t) PROVE SInv'
  <2>1. PICK next : Drop(t, next) /\ next \in {"idle", "done"}
    BY <1>9 DEF DropJob, Finish
  <2>2. /\ UNCHANGED <<jobs, mainState>> /\ Thread = {t} /\ state[t] = "popped"
        /\ state'[t] # "busy"
    BY <1>1, <1>9, <2>1, ThatThread DEF DropJob, Finish, Popped, Drop, TypeOK
  <2>3. WellFormed' /\ \A o \in Object : Still(o)
    BY <1>1, <2>1, <2>2, HandsForget
  <2>4. NothingQueuedAtEnd'
    BY <1>1, <2>2 DEF NothingQueuedAtEnd, JobsErased
  <2> QED
    BY <1>1, <2>2, <2>3, <2>4, QueueStepKeepsS DEF InLoopJob
<1>10. ASSUME NEW o \in Object, AddObject(o), mainState \in {"starting", "loop"} PROVE SInv'
  <2>1. ObjectJob(o) \in JobRecord /\ Formed(ObjectJob(o)) /\ ObjectJob(o).data = o
    BY CountedAreJobs DEF Formed, ObjectJob, Job
  <2>2. PushBack(ObjectJob(o)) /\ object[o] = "none" /\ UNCHANGED <<hand, state, mainState>>
    BY <1>10 DEF AddObject
  <2>3. WellFormed' /\ \A p \in Object : ObjectJob(o).data # p => Still(p)
    BY <1>1, <2>1, <2>2, PushStill
  <2>4. \A p \in Object : object[p] = "gone" => Still(p)
    BY <2>1, <2>2, <2>3
  <2>5. NothingQueuedAtEnd'
    BY <1>10, <2>2 DEF NothingQueuedAtEnd, JobsErased
  <2> QED
    BY <1>1, <2>2, <2>3, <2>4, <2>5, QueueStepKeepsS DEF InLoopJob
<1>11. CASE PushFinish
  <2>1. FinishJob \in JobRecord /\ Formed(FinishJob) /\ FinishJob.data \notin Object
    BY CountedAreJobs, NoObjectAssumption DEF Formed, FinishJob, Job
  <2>2. PushBack(FinishJob) /\ UNCHANGED <<hand, state>> /\ mainState' = "finishing"
        /\ mainState # "ended"
    BY <1>11 DEF PushFinish
  <2>3. WellFormed' /\ \A o \in Object : FinishJob.data # o => Still(o)
    BY <1>1, <2>1, <2>2, PushStill
  <2>4. NothingQueuedAtEnd'
    BY <2>2 DEF NothingQueuedAtEnd, JobsErased
  <2> QED
    BY <1>1, <2>1, <2>2, <2>3, <2>4, QueueStepKeepsS DEF InLoopJob
<1>12. CASE EraseJobs
  <2>1. jobs' = <<>> /\ UNCHANGED <<hand, state>> /\ mainState' = "last"
        /\ mainState = "finishing"
    BY <1>12 DEF EraseJobs
  <2>2. \A t \in Thread : hand[t] = NoJob
    BY <1>1, <1>12 DEF EraseJobs, IInv, HandsEmpty
  <2>3. ASSUME NEW o \in Object PROVE Still(o)
    BY <2>1, <2>2, NoJobFormed DEF Still, NoJobOf, Brief, HeldBriefly, QueuedBriefly
  <2>4. WellFormed' /\ NothingQueuedAtEnd'
    BY <2>1, <2>2, NoJobFormed DEF WellFormed, Formed, NothingQueuedAtEnd
  <2> QED
    BY <1>1, <2>1, <2>3, <2>4, QueueStepKeepsS DEF InLoopJob
<1> QED
  BY <1>4, <1>5, <1>6, <1>7, <1>8, <1>9, <1>10, <1>11, <1>12 DEF OtherStep

LEMMA CountCycleKeepsS ==
  ASSUME OneThread, SInv, NEW t \in Thread, CountCycle(t)
  PROVE  SInv'
<1>1. /\ RInv /\ RInv' /\ TypeOK /\ loopCycles \in [Thread -> 0..MaxCycle]
      /\ state[t] = "popped" /\ hand[t].type = "loop" /\ state'[t] = "busy"
      /\ loopCycles' = [loopCycles EXCEPT ![t] = @ + 1]
      /\ UNCHANGED <<jobs, hand, object, mainState, releaseCycle, deferred, released, since>>
      /\ Thread = {t}
  BY CountCycleKeeps, ThatThread
     DEF SInv, RInv, IInv, ReleaseTypeOK, CountCycle, Begin, Popped, TypeOK
<1>2. hand[t].data \notin Object
  BY <1>1, NoObjectAssumption DEF SInv, WellFormed, Formed
<1>3. \A o \in Object : Still(o)
  BY <1>1, <1>2 DEF Still, NoJobOf, Brief, HeldBriefly, QueuedBriefly, LoopBefore
<1>4. DroppedSoon' /\ NoDanglingJob'
  BY <1>1, <1>3, StillDropped
<1>5. WellFormed' /\ NothingQueuedAtEnd' /\ SinceOwnCycle'
  BY <1>1 DEF SInv, WellFormed, Formed, NothingQueuedAtEnd, JobsErased, SinceOwnCycle
<1>6. CycleOfThread'
  <2>1. loopCycles'[t] = loopCycles[t] + 1
    BY <1>1
  <2> QED
    BY <1>1, <2>1 DEF SInv, CycleOfThread, InLoopJob
<1> QED
  BY <1>1, <1>4, <1>5, <1>6 DEF SInv

(***************************************************************************)
(* The next cycle begins when the loop job goes to the back.               *)
(***************************************************************************)
LEMMA SetCycleKeepsS ==
  ASSUME OneThread, SInv, NEW t \in Thread, SetCycle(t)
  PROVE  SInv'
<1>1. /\ RInv /\ RInv' /\ IInv /\ TypeOK /\ loopCycles \in [Thread -> 0..MaxCycle]
      /\ releaseCycle \in Int /\ t \in statsThreads
      /\ PutBack(t) /\ state[t] = "busy" /\ hand[t].type = "loop" /\ state'[t] = "idle"
      /\ releaseCycle' = RealMinCycle(t)
      /\ UNCHANGED <<mainState, loopCycles, deferred, released, since>>
      /\ Thread = {t} /\ WellFormed /\ mainState # "ended"
  <2>1. /\ RInv /\ RInv' /\ IInv /\ TypeOK /\ WellFormed /\ EndJob(t)
        /\ hand[t].type = "loop" /\ releaseCycle' = RealMinCycle(t)
        /\ UNCHANGED <<loopCycles, deferred, released, since>>
    BY SetCycleKeeps DEF SInv, RInv, IInv, SetCycle
  <2>2. /\ loopCycles \in [Thread -> 0..MaxCycle] /\ releaseCycle \in 0..CycleMod - 1
        /\ state[t] = "busy" /\ t \in statsThreads
    BY <2>1 DEF RInv, ReleaseTypeOK, LowCycles, EndJob
  <2>3. releaseCycle \in Int
    BY <2>2, CycleAssumption
  <2>4. PutBack(t) /\ state'[t] = "idle" /\ UNCHANGED mainState
    BY <2>1 DEF EndJob, PutBack, Drop, TypeOK
  <2>5. mainState # "ended"
    BY <2>1, <2>2 DEF IInv, ErasedLast, JobsErased
  <2> QED
    BY <2>1, <2>2, <2>3, <2>4, <2>5, ThatThread
<1>2. releaseCycle' = loopCycles[t] /\ loopCycles[t] = releaseCycle + 1
  <2>1. {loopCycles[t] : u \in statsThreads} = {loopCycles[t]}
    BY <1>1
  <2>2. Min({loopCycles[t]}) = loopCycles[t]
    BY <1>1, CycleAssumption DEF Min
  <2> QED
    BY <1>1, <2>1, <2>2 DEF RealMinCycle, SInv, CycleOfThread, InLoopJob
<1>3. \A p \in DOMAIN jobs : jobs[p].type # "loop"
  BY <1>1, NoOtherLoopJob
<1>4. WellFormed' /\ \A o \in Object : Still(o)
  BY <1>1, <1>2, <1>3, PutBackStill
<1>5. DroppedSoon' /\ NoDanglingJob'
  BY <1>1, <1>4, StillDropped
<1>6. NothingQueuedAtEnd' /\ SinceOwnCycle'
  BY <1>1 DEF SInv, IInv, ErasedLast, NothingQueuedAtEnd, JobsErased, SinceOwnCycle
<1>7. CycleOfThread'
  BY <1>1, <1>2 DEF CycleOfThread, InLoopJob
<1> QED
  BY <1>1, <1>4, <1>5, <1>6, <1>7 DEF SInv

-----------------------------------------------------------------------------
LEMMA DeferKeepsS ==
  ASSUME SInv, RInv', NEW o \in Object, Defer(o), object[o] = "live",
         WellFormed', NothingQueuedAtEnd',
         \A p \in Object : object[p] = "gone" => Still(p),
         mainState # "ended", \A t \in Thread : ~InLoopJob(t) /\ ~InLoopJob(t)'
  PROVE  SInv'
<1> DEFINE e == [object |-> o, cycle |-> releaseCycle]
<1>1. /\ deferred' = Append(deferred, e) /\ since' = [since EXCEPT ![o] = loopCycles]
      /\ UNCHANGED <<loopCycles, releaseCycle, released>>
      /\ deferred \in Seq(Entry) /\ e \in Entry /\ since \in [Object -> [Thread -> 0..MaxCycle]]
      /\ loopCycles \in [Thread -> 0..MaxCycle]
  BY DEF Defer, SInv, RInv, ReleaseTypeOK, Entry
<1>2. e.object = o /\ e.cycle = releaseCycle
  OBVIOUS
<1> HIDE DEF e
<1>3. \A i \in DOMAIN deferred' : \/ i \in DOMAIN deferred /\ deferred'[i] = deferred[i]
                                  \/ deferred'[i] = e
  <2>1. /\ DOMAIN deferred = 1..Len(deferred) /\ DOMAIN deferred' = 1..Len(deferred) + 1
        /\ \A i \in 1..Len(deferred) : deferred'[i] = deferred[i]
        /\ deferred'[Len(deferred) + 1] = e /\ Len(deferred) \in Nat
    BY <1>1, AppendProperties
  <2> QED
    BY <2>1
<1>4. DroppedSoon' /\ NoDanglingJob'
  BY <1>1, <1>2, <1>3, StillDropped
<1>5. SinceOwnCycle'
  <2>1. ASSUME NEW i \in DOMAIN deferred', NEW t \in Thread
        PROVE  since'[deferred'[i].object][t] <= deferred'[i].cycle
    <3>1. CASE i \in DOMAIN deferred /\ deferred'[i] = deferred[i]
      <4>1. deferred[i].object # o
        BY <3>1 DEF SInv, RInv, LeaversListed, Listed
      <4>2. since'[deferred[i].object] = since[deferred[i].object]
        <5>1. deferred[i] \in Entry
          BY <1>1, <3>1
        <5> QED
          BY <1>1, <4>1, <5>1 DEF Entry
      <4> QED
        BY <3>1, <4>2 DEF SInv, SinceOwnCycle
    <3>2. CASE deferred'[i] = e
      <4>1. since'[o][t] = loopCycles[t] /\ loopCycles[t] = releaseCycle
        BY <1>1 DEF SInv, CycleOfThread
      <4>2. loopCycles[t] \in Int
        BY <1>1, CycleAssumption
      <4> QED
        BY <1>2, <3>2, <4>1, <4>2
    <3> QED
      BY <1>3, <3>1, <3>2
  <2> QED
    BY <2>1 DEF SinceOwnCycle
<1>6. CycleOfThread'
  BY <1>1 DEF SInv, CycleOfThread
<1> QED
  BY <1>4, <1>5, <1>6 DEF SInv

LEMMA RemoveAndDeferKeepsS ==
  ASSUME OneThread, SInv, NEW o \in Object, RemoveAndDefer(o)
  PROVE  SInv'
<1>1. RInv /\ RInv' /\ TypeOK /\ WellFormed /\ Defer(o) /\ releaseCycle' = releaseCycle
  BY RemoveAndDeferKeeps DEF SInv, RInv, IInv, RemoveAndDefer, Defer
<1>2. PICK t \in Thread : RemoveObject(t, o) \/ RemoveClient(t, o)
  BY DEF RemoveAndDefer
<1>3. /\ Thread = {t} /\ UNCHANGED <<jobs, mainState>> /\ object[o] = "live"
      /\ state[t] \in {"popped", "busy"}
  BY <1>2, ThatThread DEF RemoveObject, RemoveClient, Popped
<1>4. ~JobsErased /\ mainState # "ended"
  BY <1>3 DEF SInv, RInv, IInv, ErasedLast, JobsErased
<1>5. NothingQueuedAtEnd'
  BY <1>3, <1>4 DEF NothingQueuedAtEnd, JobsErased
<1>6. CASE RemoveObject(t, o)
  <2>1. UNCHANGED <<hand, state>> /\ hand[t].type # "loop"
    BY <1>6 DEF RemoveObject
  <2>2. \A p \in Object : Still(p)
    BY <1>1, <1>3, <2>1 DEF Still, NoJobOf, Brief, HeldBriefly, QueuedBriefly, LoopBefore
  <2>3. WellFormed'
    BY <1>1, <1>3, <2>1 DEF WellFormed, Formed
  <2> QED
    BY <1>1, <1>3, <1>4, <1>5, <2>1, <2>2, <2>3, DeferKeepsS DEF InLoopJob
<1>7. CASE RemoveClient(t, o)
  <2>1. Drop(t, "idle") /\ state[t] = "popped" /\ state'[t] = "idle"
    BY <1>1, <1>7 DEF RemoveClient, Popped, Drop, TypeOK
  <2>2. WellFormed' /\ \A p \in Object : Still(p)
    BY <1>1, <1>3, <2>1, HandsForget
  <2> QED
    BY <1>1, <1>3, <1>4, <1>5, <2>1, <2>2, DeferKeepsS DEF InLoopJob
<1> QED
  BY <1>2, <1>6, <1>7

LEMMA LastRemoveKeepsS ==
  ASSUME OneThread, SInv, NEW o \in Object, LastRemove(o)
  PROVE  SInv'
<1>1. /\ RInv /\ RInv' /\ IInv /\ WellFormed /\ NothingQueuedAtEnd /\ Defer(o)
      /\ mainState = "last" /\ object[o] = "live" /\ releaseCycle' = releaseCycle
      /\ UNCHANGED <<jobs, hand, state, mainState>>
  BY LastRemoveKeeps DEF SInv, RInv, LastRemove, Defer
<1>2. \A t \in Thread : ~InLoopJob(t) /\ ~InLoopJob(t)'
  BY <1>1 DEF IInv, ErasedLast, JobsErased, InLoopJob
<1>3. \A p \in Object : Still(p)
  BY <1>1 DEF Still, NoJobOf, Brief, HeldBriefly, QueuedBriefly, LoopBefore
<1>4. WellFormed' /\ NothingQueuedAtEnd'
  BY <1>1 DEF WellFormed, Formed, NothingQueuedAtEnd, JobsErased
<1> QED
  BY <1>1, <1>2, <1>3, <1>4, DeferKeepsS

-----------------------------------------------------------------------------
(***************************************************************************)
(* What is released is three cycles old: the entries before the first      *)
(* fresh one.                                                              *)
(***************************************************************************)
LEMMA RipeIsOld ==
  ASSUME deferred \in Seq(Entry), releaseCycle \in 0..CycleMod - 1, ~(releaseCycle < 3)
  PROVE  /\ Ripe(releaseCycle) \in 0..Len(deferred)
         /\ \A i \in 1..Ripe(releaseCycle) :
              deferred[i] \in Entry /\ deferred[i].cycle + 3 <= releaseCycle
<1> DEFINE F(entry) == Fresh(releaseCycle, entry)
           I == {i \in 1..Len(deferred) : F(deferred[i])}
<1>1. DOMAIN deferred = 1..Len(deferred) /\ Len(deferred) \in Nat
  OBVIOUS
<1>2. Ripe(releaseCycle) \in 0..Len(deferred)
  BY RipeInRange
<1>3. ASSUME NEW i \in 1..Ripe(releaseCycle) PROVE i \in 1..Len(deferred) /\ i \notin I
  <2>1. CASE I # {}
    <3>1. Min(I) \in I /\ \A j \in I : Min(I) <= j
      BY <1>1, <2>1, FirstExists
    <3>2. Ripe(releaseCycle) = Min(I) - 1
      BY <1>1, <2>1 DEF Ripe, SelectInSeq
    <3> QED
      BY <1>1, <3>1, <3>2
  <2>2. CASE I = {}
    BY <1>1, <1>2, <2>2
  <2> QED
    BY <2>1, <2>2
<1>4. (releaseCycle - 2) % CycleMod = releaseCycle - 2
  <2>1. releaseCycle - 2 \in Nat /\ releaseCycle - 2 < CycleMod
    BY CycleAssumption
  <2> QED
    BY <2>1, SmallRemainder, CycleAssumption
<1>5. ASSUME NEW i \in 1..Ripe(releaseCycle)
      PROVE  deferred[i] \in Entry /\ deferred[i].cycle + 3 <= releaseCycle
  <2>1. i \in 1..Len(deferred) /\ ~Fresh(releaseCycle, deferred[i])
    BY <1>3, <1>5
  <2>2. deferred[i] \in Entry /\ deferred[i].cycle \in Int
    <3>1. deferred[i] \in Entry
      BY <1>1, <2>1
    <3> QED
      BY <3>1, CycleAssumption DEF Entry
  <2> QED
    BY <1>4, <2>1, <2>2, CycleAssumption DEF Fresh
<1> QED
  BY <1>2, <1>5

(***************************************************************************)
(* So the object has no job any more, and the thread has made three cycles *)
(* since it was deferred.                                                  *)
(***************************************************************************)
LEMMA ReleasedAreDone ==
  ASSUME SInv, NEW t \in Thread, Release(t), NEW o \in released' \ released
  PROVE  /\ o \in Object /\ object[o] = "gone" /\ NoJobOf(o)
         /\ mainState # "ended"
         /\ \A u \in Thread : ~InLoopJob(u) => loopCycles[u] >= since[o][u] + 3
<1>1. /\ RInv /\ IInv /\ deferred \in Seq(Entry) /\ releaseCycle \in 0..CycleMod - 1
      /\ state[t] = "busy" /\ ProcessDeferredReleasing(releaseCycle)
  BY DEF SInv, RInv, ReleaseTypeOK, Release, EndJob
<1>2. mainState # "ended"
  BY <1>1 DEF IInv, ErasedLast, JobsErased
<1>3. /\ ~(releaseCycle < 3)
      /\ o \in {deferred[i].object : i \in 1..Ripe(releaseCycle)}
  BY <1>1 DEF ProcessDeferredReleasing
<1>4. PICK i \in 1..Ripe(releaseCycle) : o = deferred[i].object
  BY <1>3
<1>5. /\ i \in DOMAIN deferred /\ deferred[i] \in Entry
      /\ deferred[i].cycle + 3 <= releaseCycle
  BY <1>1, <1>3, RipeIsOld
<1>6. o \in Object /\ object[o] = "gone" /\ deferred[i].cycle \in Int /\ releaseCycle \in Int
  BY <1>1, <1>4, <1>5, CycleAssumption DEF RInv, LeaversListed, Listed, Entry
<1>7. ~(releaseCycle <= deferred[i].cycle + 1)
  BY <1>5, <1>6
<1>8. NoJobOf(o)
  BY <1>4, <1>5, <1>7 DEF SInv, DroppedSoon, HeldBriefly, QueuedBriefly, NoJobOf
<1>9. ASSUME NEW u \in Thread, ~InLoopJob(u) PROVE loopCycles[u] >= since[o][u] + 3
  <2>1. loopCycles[u] = releaseCycle /\ since[o][u] <= deferred[i].cycle
    BY <1>2, <1>4, <1>5, <1>9 DEF SInv, CycleOfThread, SinceOwnCycle
  <2>2. since[o][u] \in Int
    BY <1>1, <1>6, CycleAssumption DEF RInv, ReleaseTypeOK
  <2> QED
    BY <1>5, <1>6, <2>1, <2>2
<1> QED
  BY <1>2, <1>6, <1>8, <1>9

(***************************************************************************)
(* Only a part of the list is left over.                                   *)
(***************************************************************************)
LEMMA RestOfList ==
  ASSUME deferred \in Seq(Entry), NEW k \in 0..Len(deferred),
         deferred' = SubSeq(deferred, k + 1, Len(deferred))
  PROVE  \A i \in DOMAIN deferred' : \E j \in DOMAIN deferred : deferred'[i] = deferred[j]
<1>1. /\ Len(deferred) \in Nat /\ DOMAIN deferred = 1..Len(deferred)
      /\ DOMAIN deferred' = 1..Len(deferred) - k
      /\ \A i \in 1..Len(deferred) - k : deferred'[i] = deferred[k + i]
  BY SubSeqProperties
<1>2. \A i \in 1..Len(deferred) - k : k + i \in 1..Len(deferred)
  BY <1>1
<1> QED
  BY <1>1, <1>2

LEMMA ReleaseKeepsS ==
  ASSUME OneThread, SInv, NEW t \in Thread, Release(t)
  PROVE  SInv'
<1>1. /\ RInv /\ RInv' /\ IInv /\ TypeOK /\ WellFormed /\ deferred \in Seq(Entry)
      /\ releaseCycle \in Int /\ Thread = {t}
      /\ PutBack(t) /\ state[t] = "busy" /\ hand[t].type = "release" /\ state'[t] = "idle"
      /\ ProcessDeferredReleasing(releaseCycle)
      /\ UNCHANGED <<object, mainState, loopCycles, releaseCycle, since>>
  <2>1. /\ RInv /\ RInv' /\ IInv /\ TypeOK /\ WellFormed /\ EndJob(t)
        /\ hand[t].type = "release" /\ ProcessDeferredReleasing(releaseCycle)
        /\ UNCHANGED <<loopCycles, releaseCycle, since>>
    BY ReleaseKeeps DEF SInv, RInv, IInv, Release
  <2>2. deferred \in Seq(Entry) /\ releaseCycle \in 0..CycleMod - 1
    BY <2>1 DEF RInv, ReleaseTypeOK
  <2>3. releaseCycle \in Int
    BY <2>2, CycleAssumption
  <2>4. /\ PutBack(t) /\ state[t] = "busy" /\ state'[t] = "idle"
        /\ UNCHANGED <<object, mainState>>
    BY <2>1 DEF EndJob, PutBack, Drop, TypeOK
  <2> QED
    BY <2>1, <2>2, <2>3, <2>4, ThatThread
<1>2. mainState # "ended" /\ ~JobsErased
  BY <1>1 DEF IInv, ErasedLast, JobsErased
<1>3. WellFormed' /\ \A o \in Object : Still(o)
  BY <1>1, PutBackStill
<1>4. \A i \in DOMAIN deferred' : \E j \in DOMAIN deferred : deferred'[i] = deferred[j]
  <2>1. CASE UNCHANGED deferred
    BY <2>1
  <2>2. CASE deferred' = SubSeq(deferred, Ripe(releaseCycle) + 1, Len(deferred))
    BY <1>1, <2>2, RipeInRange, RestOfList
  <2> QED
    BY <1>1, <2>1, <2>2 DEF ProcessDeferredReleasing
<1>5. DroppedSoon' /\ NoDanglingJob'
  BY <1>1, <1>3, <1>4, StillDropped, ReleasedAreDone
<1>6. SinceOwnCycle'
  <2>1. ASSUME NEW i \in DOMAIN deferred', NEW u \in Thread
        PROVE  since'[deferred'[i].object][u] <= deferred'[i].cycle
    <3>1. PICK j \in DOMAIN deferred : deferred'[i] = deferred[j]
      BY <1>4
    <3> QED
      BY <1>1, <3>1 DEF SInv, SinceOwnCycle
  <2> QED
    BY <2>1 DEF SinceOwnCycle
<1>7. CycleOfThread' /\ NothingQueuedAtEnd'
  BY <1>1, <1>2 DEF SInv, CycleOfThread, InLoopJob, NothingQueuedAtEnd, JobsErased
<1> QED
  BY <1>1, <1>3, <1>5, <1>6, <1>7 DEF SInv

LEMMA LastReleaseKeepsS ==
  ASSUME OneThread, SInv, LastRelease
  PROVE  SInv'
<1>1. /\ RInv /\ RInv' /\ IInv /\ WellFormed /\ jobs = <<>> /\ mainState' = "ended"
      /\ UNCHANGED <<jobs, hand>>
      /\ \A t \in Thread : hand[t] = NoJob
  BY LastReleaseKeeps
     DEF SInv, RInv, IInv, LastRelease, NothingQueuedAtEnd, JobsErased, ErasedLast, HandsEmpty
<1>2. deferred' = <<>>
  BY <1>1 DEF RInv, NothingWaitsAtEnd
<1>3. WellFormed' /\ NothingQueuedAtEnd' /\ CycleOfThread'
  BY <1>1 DEF WellFormed, Formed, NothingQueuedAtEnd, CycleOfThread
<1>4. DroppedSoon' /\ SinceOwnCycle'
  BY <1>2 DEF DroppedSoon, SinceOwnCycle
<1>5. NoDanglingJob'
  <2>1. released' \subseteq Object
    BY <1>1 DEF RInv, ReleaseTypeOK
  <2> QED
    BY <1>1, <2>1, NoJobFormed DEF NoDanglingJob
<1> QED
  BY <1>1, <1>3, <1>4, <1>5 DEF SInv

-----------------------------------------------------------------------------
LEMMA SInitially == ReleaseInit => SInv
<1> SUFFICES ASSUME ReleaseInit PROVE SInv
  OBVIOUS
<1> DEFINE G == {GeneralJob(g) : g \in General}
<1>1. /\ RInv /\ released = {} /\ deferred = <<>> /\ mainState = "starting"
      /\ releaseCycle = 0 /\ jobs = SetToSeq(G)
      /\ \A t \in Thread : hand[t] = NoJob /\ state[t] = "off" /\ loopCycles[t] = 0
  BY ReleaseInitially DEF ReleaseInit, Init
<1>2. \A p \in DOMAIN jobs : jobs[p] \in G
  <2>1. IsFiniteSet(G)
    <3>1. IsFiniteSet({GeneralJob("garbage")} \cup {GeneralJob("release")})
      BY FS_Singleton, FS_Union
    <3>2. G \subseteq {GeneralJob("garbage")} \cup {GeneralJob("release")}
      BY ThreadAssumption
    <3> QED
      BY <3>1, <3>2, FS_Subset
  <2>2. \E f : f \in [1..Cardinality(G) -> G] /\ IsInjective(f)
    BY <2>1, FS_CardinalityType DEF ExistsBijection, Bijection, Injection, IsInjective
  <2>3. SetToSeq(G) \in [1..Cardinality(G) -> G]
    BY <2>2 DEF SetToSeq
  <2> QED
    BY <1>1, <2>3
<1>3. WellFormed
  <2>1. \A job \in G : Formed(job)
    BY ThreadAssumption, NoObjectAssumption DEF GeneralJob, Job, Formed
  <2> QED
    BY <1>1, <1>2, <2>1, NoJobFormed DEF WellFormed
<1>4. NoDanglingJob /\ DroppedSoon /\ SinceOwnCycle
  BY <1>1 DEF NoDanglingJob, DroppedSoon, SinceOwnCycle
<1>5. CycleOfThread /\ NothingQueuedAtEnd
  BY <1>1 DEF CycleOfThread, InLoopJob, NothingQueuedAtEnd, JobsErased
<1> QED
  BY <1>1, <1>3, <1>4, <1>5 DEF SInv

LEMMA SInductive == OneThread /\ SInv /\ [ReleaseNext]_vars => SInv'
<1> SUFFICES ASSUME OneThread, SInv, [ReleaseNext]_vars PROVE SInv'
  OBVIOUS
<1>1. CASE UNCHANGED vars
  <2>1. RInv' /\ UNCHANGED queueVars /\ UNCHANGED releaseVars
    BY <1>1, ReleaseInductive DEF vars, SInv
  <2>2. \A o \in Object : Still(o)
    BY <2>1 DEF queueVars, releaseVars, Still, NoJobOf, Brief, HeldBriefly, QueuedBriefly,
                LoopBefore
  <2>3. WellFormed' /\ NothingQueuedAtEnd'
    BY <2>1 DEF SInv, queueVars, WellFormed, Formed, NothingQueuedAtEnd, JobsErased
  <2> QED
    BY <2>1, <2>2, <2>3, QueueStepKeepsS DEF queueVars, InLoopJob
<1>2. ASSUME NEW t \in Thread, CountCycle(t) \/ SetCycle(t) \/ Release(t) PROVE SInv'
  BY <1>2, CountCycleKeepsS, SetCycleKeepsS, ReleaseKeepsS
<1>3. ASSUME NEW o \in Object, RemoveAndDefer(o) \/ LastRemove(o) PROVE SInv'
  BY <1>3, RemoveAndDeferKeepsS, LastRemoveKeepsS
<1>4. CASE LastRelease \/ OtherStep
  BY <1>4, LastReleaseKeepsS, OtherStepKeepsS
<1> QED
  BY <1>1, <1>2, <1>3, <1>4 DEF ReleaseNext

LEMMA OneThreadInvariant == OneThread => (ReleaseSpec => []SInv)
<1> SUFFICES ASSUME OneThread PROVE ReleaseSpec => []SInv
  OBVIOUS
<1> QED
  BY SInitially, SInductive, PTL DEF ReleaseSpec

(***************************************************************************)
(* With one logic thread no job, in the deque or being done, points to a   *)
(* released object: three cycles of the thread are time enough for the job *)
(* to be popped and dropped.                                               *)
(***************************************************************************)
THEOREM NothingDanglesAlone == OneThread => (ReleaseSpec => []NoDanglingJob)
<1>1. SInv => NoDanglingJob
  BY DEF SInv
<1> QED
  BY <1>1, OneThreadInvariant, PTL

(***************************************************************************)
(* With one logic thread an object is released, while the server loops, no *)
(* earlier than three cycles of the thread after it was deferred.          *)
(***************************************************************************)
THEOREM ThreeCyclesAlone == OneThread => (ReleaseSpec => WaitsThreeCycles)
<1> SUFFICES ASSUME OneThread PROVE ReleaseSpec => WaitsThreeCycles
  OBVIOUS
<1>1. ASSUME SInv, [ReleaseNext]_vars, NEW o \in released' \ released, mainState' # "ended",
             NEW t \in statsThreads
      PROVE  loopCycles[t] >= since[o][t] + 3
  <2>1. \/ \E u \in Thread : Release(u)
        \/ LastRelease
    BY <1>1 DEF ReleaseNext, CountCycle, SetCycle, RemoveAndDefer, LastRemove, Defer,
                OtherStep, releaseVars, vars
  <2>2. PICK u \in Thread : Release(u)
    BY <1>1, <2>1 DEF LastRelease
  <2>3. t \in Thread /\ t = u
    BY <1>1 DEF OneThread, SInv, RInv, ReleaseTypeOK
  <2>4. ~InLoopJob(t)
    BY <2>2, <2>3 DEF Release, InLoopJob
  <2> QED
    BY <1>1, <2>2, <2>3, <2>4, ReleasedAreDone
<1>2. SInv /\ [ReleaseNext]_vars =>
        [\A o \in released' \ released :
           mainState' = "ended" \/ \A t \in statsThreads : loopCycles[t] >= since[o][t] + 3]_vars
  BY <1>1
<1> QED
  BY <1>2, OneThreadInvariant, PTL DEF ReleaseSpec, WaitsThreeCycles
=============================================================================
