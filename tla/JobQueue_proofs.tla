--------------------------- MODULE JobQueue_proofs ---------------------------
(***************************************************************************)
(* Proofs about JobQueue, for any number of threads and objects: types,    *)
(* and that no job is lost or doubled between the deque and the threads.   *)
(***************************************************************************)
EXTENDS JobQueue, FiniteSetTheorems, SequenceTheorems, TLAPS

Same(a, b) == IF a = b THEN 1 ELSE 0

Positions(s, job) == {i \in DOMAIN s : s[i] = job}
Holders(h, job)   == {t \in Thread : h[t] = job}

-----------------------------------------------------------------------------
(***************************************************************************)
(* Counting in the deque: what Append and RemoveAt do to the positions of  *)
(* a job.                                                                  *)
(***************************************************************************)
LEMMA PositionsFinite ==
  ASSUME NEW S, NEW s \in Seq(S), NEW job
  PROVE  IsFiniteSet(Positions(s, job)) /\ Cardinality(Positions(s, job)) \in Nat
<1>1. Positions(s, job) \subseteq 1..Len(s) /\ Len(s) \in Nat
  BY DEF Positions
<1>2. IsFiniteSet(1..Len(s))
  BY <1>1, FS_Interval
<1>3. IsFiniteSet(Positions(s, job))
  BY <1>1, <1>2, FS_Subset
<1> QED
  BY <1>3, FS_CardinalityType

LEMMA AppendCounts ==
  ASSUME NEW S, NEW s \in Seq(S), NEW e \in S, NEW job
  PROVE  /\ Append(s, e) \in Seq(S)
         /\ Cardinality(Positions(Append(s, e), job)) =
              Cardinality(Positions(s, job)) + Same(e, job)
<1> DEFINE a == Append(s, e)
<1>0. /\ a \in Seq(S) /\ Len(a) = Len(s) + 1 /\ Len(s) \in Nat
      /\ DOMAIN a = 1..Len(s) + 1 /\ DOMAIN s = 1..Len(s)
      /\ \A i \in 1..Len(s) : a[i] = s[i]
      /\ a[Len(s) + 1] = e
  BY AppendProperties
<1> HIDE DEF a
<1>1. CASE e = job
  <2>1. Positions(a, job) = Positions(s, job) \cup {Len(s) + 1}
    BY <1>0, <1>1 DEF Positions
  <2>2. Len(s) + 1 \notin Positions(s, job)
    BY <1>0 DEF Positions
  <2> QED
    BY <1>0, <1>1, <2>1, <2>2, PositionsFinite, FS_AddElement DEF Same, a
<1>2. CASE e # job
  <2>1. Positions(a, job) = Positions(s, job)
    BY <1>0, <1>2 DEF Positions
  <2> QED
    BY <1>0, <1>2, <2>1, PositionsFinite DEF Same, a
<1> QED
  BY <1>1, <1>2

LEMMA RemoveCounts ==
  ASSUME NEW S, NEW s \in Seq(S), NEW k \in 1..Len(s), NEW job
  PROVE  /\ RemoveAt(s, k) \in Seq(S)
         /\ Cardinality(Positions(RemoveAt(s, k), job)) =
              Cardinality(Positions(s, job)) - Same(s[k], job)
<1> DEFINE r == RemoveAt(s, k)
           f == [i \in Positions(r, job) |-> IF i < k THEN i ELSE i + 1]
           T == Positions(s, job) \ {k}
<1>1. /\ r \in Seq(S) /\ Len(r) = Len(s) - 1
      /\ \A i \in 1..Len(s) - 1 : r[i] = IF i < k THEN s[i] ELSE s[i + 1]
  <2> DEFINE a == SubSeq(s, 1, k - 1)
             b == SubSeq(s, k + 1, Len(s))
  <2>1. a \in Seq(S) /\ Len(a) = k - 1 /\ \A i \in 1..k - 1 : a[i] = s[i]
    BY SubSeqProperties
  <2>2. b \in Seq(S) /\ Len(b) = Len(s) - k /\ \A i \in 1..Len(s) - k : b[i] = s[k + i]
    BY SubSeqProperties
  <2>3. r = a \o b
    BY DEF RemoveAt
  <2> HIDE DEF a, b, r
  <2>4. a \o b \in Seq(S) /\ Len(a \o b) = Len(a) + Len(b)
    BY <2>1, <2>2, ConcatProperties
  <2>5. ASSUME NEW i \in 1..Len(s) - 1
        PROVE  r[i] = IF i < k THEN s[i] ELSE s[i + 1]
    <3>1. \A j \in 1..Len(a) + Len(b) :
            (a \o b)[j] = IF j <= Len(a) THEN a[j] ELSE b[j - Len(a)]
      BY <2>1, <2>2, ConcatProperties
    <3>2. CASE i < k
      BY <2>1, <2>2, <2>3, <3>1, <3>2
    <3>3. CASE i >= k
      <4>1. r[i] = b[i - (k - 1)]
        BY <2>1, <2>2, <2>3, <3>1, <3>3
      <4>2. i - (k - 1) \in 1..Len(s) - k /\ k + (i - (k - 1)) = i + 1
        BY <3>3
      <4> QED
        BY <2>2, <3>3, <4>1, <4>2
    <3> QED
      BY <3>2, <3>3
  <2>6. Len(r) = Len(s) - 1
    BY <2>1, <2>2, <2>3, <2>4
  <2> QED
    BY <2>3, <2>4, <2>5, <2>6
<1> HIDE DEF r
<1>2. f \in Bijection(Positions(r, job), T)
  <2>1. f \in [Positions(r, job) -> T]
    BY <1>1 DEF Positions
  <2>2. \A i, j \in Positions(r, job) : f[i] = f[j] => i = j
    BY <1>1 DEF Positions
  <2>3. ASSUME NEW p \in T PROVE \E i \in Positions(r, job) : f[i] = p
    <3>1. CASE p < k
      <4>1. p \in Positions(r, job) /\ f[p] = p
        BY <1>1, <3>1 DEF Positions
      <4> QED
        BY <4>1
    <3>2. CASE p > k
      <4>1. p - 1 \in Positions(r, job) /\ f[p - 1] = p
        BY <1>1, <3>2 DEF Positions
      <4> QED
        BY <4>1
    <3> QED
      BY <3>1, <3>2 DEF Positions
  <2> QED
    BY <2>1, <2>2, <2>3 DEF Bijection, Injection, Surjection, IsInjective
<1>3. IsFiniteSet(Positions(r, job))
  BY <1>1, PositionsFinite
<1>4. Cardinality(T) = Cardinality(Positions(r, job))
  BY <1>2, <1>3, FS_Bijection DEF ExistsBijection
<1>5. Cardinality(T) = Cardinality(Positions(s, job)) - Same(s[k], job)
  <2>1. k \in Positions(s, job) <=> s[k] = job
    BY DEF Positions
  <2>2. s[k] # job => T = Positions(s, job)
    BY <2>1
  <2>3. CASE s[k] = job
    <3>1. IsFiniteSet(Positions(s, job)) /\ k \in Positions(s, job)
      BY <2>1, <2>3, PositionsFinite
    <3>2. Same(s[k], job) = 1
      BY <2>3 DEF Same
    <3> QED
      BY <3>1, <3>2, FS_RemoveElement
  <2>4. CASE ~(s[k] = job)
    <3>1. Cardinality(Positions(s, job)) \in Nat
      BY PositionsFinite
    <3>2. Same(s[k], job) = 0
      BY <2>4 DEF Same
    <3>3. T = Positions(s, job)
      BY <2>2, <2>4
    <3> HIDE DEF T
    <3> QED
      BY <3>1, <3>2, <3>3
  <2> QED
    BY <2>3, <2>4
<1> QED
  BY <1>1, <1>4, <1>5 DEF r

(***************************************************************************)
(* Counting in the hands: what a thread gets instead of its job.           *)
(***************************************************************************)
LEMMA HoldersFinite ==
  ASSUME NEW h, NEW job
  PROVE  IsFiniteSet(Holders(h, job)) /\ Cardinality(Holders(h, job)) \in Nat
<1>1. Holders(h, job) \subseteq Thread
  BY DEF Holders
<1> QED
  BY <1>1, ThreadAssumption, FS_Subset, FS_CardinalityType
SameBut(g, h, t) == \A u \in Thread \ {t} : g[u] = h[u]

LEMMA HandCounts ==
  ASSUME NEW h, NEW g, NEW job, NEW t \in Thread, SameBut(g, h, t)
  PROVE  Cardinality(Holders(g, job)) =
           Cardinality(Holders(h, job)) - Same(h[t], job) + Same(g[t], job)
<1> DEFINE U == Holders(h, job) \ {t}
<1> USE DEF SameBut
<1>1. IsFiniteSet(U) /\ Cardinality(U) \in Nat
  BY HoldersFinite, FS_RemoveElement, FS_CardinalityType
<1>2. Cardinality(U) = Cardinality(Holders(h, job)) - Same(h[t], job)
  <2>1. CASE h[t] = job
    <3>1. t \in Holders(h, job) /\ Same(h[t], job) = 1
      BY <2>1 DEF Holders, Same
    <3> QED
      BY <3>1, HoldersFinite, FS_RemoveElement
  <2>2. CASE h[t] # job
    <3>1. U = Holders(h, job) /\ Same(h[t], job) = 0
      BY <2>2 DEF Holders, Same
    <3> QED
      BY <3>1, HoldersFinite
  <2> QED
    BY <2>1, <2>2
<1>3. Cardinality(Holders(g, job)) = Cardinality(U) + Same(g[t], job)
  <2>1. CASE g[t] = job
    <3>1. Holders(g, job) = U \cup {t} /\ t \notin U /\ Same(g[t], job) = 1
      BY <2>1 DEF Holders, Same
    <3> QED
      BY <1>1, <3>1, FS_AddElement
  <2>2. CASE g[t] # job
    <3>1. Holders(g, job) = U /\ Same(g[t], job) = 0
      BY <2>2 DEF Holders, Same
    <3> QED
      BY <1>1, <3>1
  <2> QED
    BY <2>1, <2>2
<1> QED
  BY <1>2, <1>3

-----------------------------------------------------------------------------
(***************************************************************************)
(* PopFront finds the first job that the thread may execute.               *)
(***************************************************************************)
LEMMA FirstExists ==
  ASSUME NEW n \in Nat, NEW I \in SUBSET (1..n), I # {}
  PROVE  Min(I) \in I /\ \A i \in I : Min(I) <= i
<1> DEFINE Less == {p \in Nat \X Nat : p[1] < p[2]}
<1>1. IsWellFoundedOn(Less, Nat)
  BY NatLessThanWellFounded DEF OpToRel
<1>2. PICK x \in I : \A y \in I : <<y, x>> \notin Less
  <2>1. I \subseteq Nat
    OBVIOUS
  <2> HIDE DEF Less
  <2> QED
    BY <1>1, <2>1, WFMin
<1>3. ASSUME NEW y \in I PROVE x <= y
  <2>1. x \in Nat /\ y \in Nat
    OBVIOUS
  <2>2. y < x => <<y, x>> \in Less
    BY <2>1
  <2> QED
    BY <1>2, <2>1, <2>2
<1> QED
  BY <1>3 DEF Min

LEMMA PopFrontTakes ==
  ASSUME TypeOK, NEW t \in Thread, PopFront(t)
  PROVE  \E k \in 1..Len(jobs) :
           /\ MayExecute(t, jobs[k])
           /\ hand' = [hand EXCEPT ![t] = jobs[k]]
           /\ jobs' = RemoveAt(jobs, k)
<1> DEFINE Mine(job) == MayExecute(t, job)
           I == {i \in 1..Len(jobs) : Mine(jobs[i])}
           k == SelectInSeq(jobs, Mine)
<1>1. DOMAIN jobs = 1..Len(jobs) /\ Len(jobs) \in Nat
  BY DEF TypeOK
<1>2. I # {}
  BY <1>1 DEF PopFront
<1>3. k = Min(I)
  BY <1>2 DEF SelectInSeq
<1>4. k \in I
  BY <1>1, <1>2, <1>3, FirstExists
<1>5. hand' = [hand EXCEPT ![t] = jobs[k]]
  BY DEF PopFront
<1>6. jobs' = RemoveAt(jobs, k)
  BY <1>2 DEF PopFront, RemoveFirstMatch
<1> QED
  BY <1>4, <1>5, <1>6

-----------------------------------------------------------------------------
(***************************************************************************)
(* The invariant: only a thread that has popped holds a job, a thread that *)
(* has not pushed its loop job yet has none, and when the jobs are erased  *)
(* all threads have ended.                                                 *)
(***************************************************************************)
HandsEmpty == \A t \in Thread : state[t] \in {"popped", "busy"} \/ hand[t] = NoJob

NotYetLooping ==
  \A t \in Thread : state[t] \in {"off", "new"} => Copies(LoopJob(t)) = 0

ErasedLast == JobsErased => \A t \in Thread : state[t] = "done"

IInv == TypeOK /\ JobsConserved /\ HandsEmpty /\ NotYetLooping /\ ErasedLast

Counted ==
  {ObjectJob(o) : o \in Object} \cup {LoopJob(t) : t \in Thread} \cup {SynchronizeJob}

LEMMA CountedAreJobs ==
  /\ NoJob \in JobRecord /\ FinishJob \in JobRecord /\ SynchronizeJob \in JobRecord
  /\ \A o \in Object : ObjectJob(o) \in JobRecord
  /\ \A t \in Thread : LoopJob(t) \in JobRecord
  /\ \A job \in Counted : job # NoJob /\ job # FinishJob
<1>1. NoJob \in JobRecord /\ FinishJob \in JobRecord /\ SynchronizeJob \in JobRecord
  BY DEF JobRecord, NoJob, FinishJob, SynchronizeJob, Job
<1>2. \A o \in Object : ObjectJob(o) \in JobRecord
  BY DEF JobRecord, ObjectJob, Job
<1>3. \A t \in Thread : LoopJob(t) \in JobRecord
  BY DEF JobRecord, LoopJob, Job
<1>4. \A job \in Counted : job.type \in {"object", "loop", "synchronize"}
  BY DEF Counted, ObjectJob, LoopJob, SynchronizeJob, Job
<1>5. NoJob.type = "nop" /\ FinishJob.type = "finish"
  BY DEF NoJob, FinishJob, Job
<1> QED
  BY <1>1, <1>2, <1>3, <1>4, <1>5

LEMMA CopiesCount ==
  ASSUME NEW job
  PROVE  Copies(job) = Cardinality(Positions(jobs, job)) + Cardinality(Holders(hand, job))
  BY DEF Copies, Positions, Holders

LEMMA CopiesNatural ==
  ASSUME TypeOK, NEW job
  PROVE  Copies(job) \in Nat
<1>1. jobs \in Seq(JobRecord)
  BY DEF TypeOK
<1>2. Cardinality(Positions(jobs, job)) \in Nat /\ Cardinality(Holders(hand, job)) \in Nat
  BY <1>1, PositionsFinite, HoldersFinite
<1> QED
  BY <1>2, CopiesCount

-----------------------------------------------------------------------------
(***************************************************************************)
(* What the steps do to the number of copies of a job.                     *)
(***************************************************************************)
LEMMA PushBackCounts ==
  ASSUME TypeOK, NEW new \in JobRecord, PushBack(new), hand' = hand, NEW job
  PROVE  /\ jobs' \in Seq(JobRecord)
         /\ Copies(job)' = Copies(job) + Same(new, job)
<1>1. jobs \in Seq(JobRecord) /\ jobs' = Append(jobs, new)
  BY DEF TypeOK, PushBack
<1>2. /\ jobs' \in Seq(JobRecord)
      /\ Cardinality(Positions(jobs', job)) = Cardinality(Positions(jobs, job)) + Same(new, job)
  BY <1>1, AppendCounts
<1>3. /\ Cardinality(Positions(jobs, job)) \in Nat
      /\ Cardinality(Holders(hand, job)) \in Nat
  BY <1>1, PositionsFinite, HoldersFinite
<1>4. Copies(job)' = Cardinality(Positions(jobs', job)) + Cardinality(Holders(hand, job))
  BY DEF Copies, Positions, Holders
<1>5. Same(new, job) \in Nat
  BY DEF Same
<1> QED
  BY <1>2, <1>3, <1>4, <1>5, CopiesCount

LEMMA PopFrontCounts ==
  ASSUME TypeOK, NEW t \in Thread, hand[t] = NoJob, PopFront(t), NEW job, job # NoJob
  PROVE  /\ jobs' \in Seq(JobRecord)
         /\ hand' \in [Thread -> JobRecord]
         /\ MayExecute(t, hand'[t])
         /\ \A u \in Thread \ {t} : hand'[u] = hand[u]
         /\ Copies(job)' = Copies(job)
<1>1. PICK k \in 1..Len(jobs) : /\ MayExecute(t, jobs[k])
                                /\ hand' = [hand EXCEPT ![t] = jobs[k]]
                                /\ jobs' = RemoveAt(jobs, k)
  BY PopFrontTakes
<1>2. jobs \in Seq(JobRecord) /\ hand \in [Thread -> JobRecord] /\ jobs[k] \in JobRecord
  BY DEF TypeOK
<1>3. /\ jobs' \in Seq(JobRecord)
      /\ Cardinality(Positions(jobs', job)) =
           Cardinality(Positions(jobs, job)) - Same(jobs[k], job)
  BY <1>1, <1>2, RemoveCounts
<1>4. Cardinality(Holders(hand', job)) =
        Cardinality(Holders(hand, job)) - Same(hand[t], job) + Same(jobs[k], job)
  <2>1. hand'[t] = jobs[k] /\ \A u \in Thread \ {t} : hand'[u] = hand[u]
    BY <1>1, <1>2
  <2>2. SameBut(hand', hand, t)
    BY <2>1 DEF SameBut
  <2>3. Cardinality(Holders(hand', job)) =
          Cardinality(Holders(hand, job)) - Same(hand[t], job) + Same(hand'[t], job)
    BY <2>2, HandCounts, Zenon
  <2> QED
    BY <2>1, <2>3
<1>5. Same(hand[t], job) = 0 /\ Same(jobs[k], job) \in Nat
  BY DEF Same
<1>6. /\ Cardinality(Positions(jobs, job)) \in Nat
      /\ Cardinality(Holders(hand, job)) \in Nat
  BY <1>2, PositionsFinite, HoldersFinite
<1>7. Copies(job)' = Cardinality(Positions(jobs', job)) + Cardinality(Holders(hand', job))
  BY DEF Copies, Positions, Holders
<1>8. Copies(job)' = Copies(job)
  BY <1>3, <1>4, <1>5, <1>6, <1>7, CopiesCount
<1> QED
  BY <1>1, <1>2, <1>3, <1>8

LEMMA DropCounts ==
  ASSUME TypeOK, NEW t \in Thread, NEW next, Drop(t, next), jobs' = jobs, NEW job, job # NoJob
  PROVE  /\ hand' \in [Thread -> JobRecord]
         /\ Copies(job)' = Copies(job) - Same(hand[t], job)
<1>1. /\ jobs \in Seq(JobRecord) /\ hand \in [Thread -> JobRecord]
      /\ hand' = [hand EXCEPT ![t] = NoJob] /\ NoJob \in JobRecord
  BY CountedAreJobs DEF TypeOK, Drop
<1>2. Cardinality(Holders(hand', job)) =
        Cardinality(Holders(hand, job)) - Same(hand[t], job) + Same(NoJob, job)
  <2>1. hand'[t] = NoJob /\ \A u \in Thread \ {t} : hand'[u] = hand[u]
    BY <1>1
  <2>2. SameBut(hand', hand, t)
    BY <2>1 DEF SameBut
  <2>3. Cardinality(Holders(hand', job)) =
          Cardinality(Holders(hand, job)) - Same(hand[t], job) + Same(hand'[t], job)
    BY <2>2, HandCounts, Zenon
  <2> QED
    BY <2>1, <2>3
<1>3. Same(NoJob, job) = 0 /\ Same(hand[t], job) \in Nat
  BY DEF Same
<1>4. /\ Cardinality(Positions(jobs, job)) \in Nat
      /\ Cardinality(Holders(hand, job)) \in Nat
  BY <1>1, PositionsFinite, HoldersFinite
<1>5. Copies(job)' = Cardinality(Positions(jobs, job)) + Cardinality(Holders(hand', job))
  BY DEF Copies, Positions, Holders
<1>6. Copies(job)' = Copies(job) - Same(hand[t], job)
  BY <1>2, <1>3, <1>4, <1>5, CopiesCount
<1> QED
  BY <1>1, <1>6

LEMMA PutBackCounts ==
  ASSUME TypeOK, NEW t \in Thread, PutBack(t), NEW job, job # NoJob
  PROVE  /\ jobs' \in Seq(JobRecord)
         /\ hand' \in [Thread -> JobRecord]
         /\ Copies(job)' = Copies(job)
<1>1. /\ jobs \in Seq(JobRecord) /\ hand \in [Thread -> JobRecord] /\ hand[t] \in JobRecord
      /\ jobs' = Append(jobs, hand[t])
      /\ hand' = [hand EXCEPT ![t] = NoJob] /\ NoJob \in JobRecord
  BY CountedAreJobs DEF TypeOK, PutBack, PushBack, Drop
<1>2. /\ jobs' \in Seq(JobRecord)
      /\ Cardinality(Positions(jobs', job)) =
           Cardinality(Positions(jobs, job)) + Same(hand[t], job)
  BY <1>1, AppendCounts
<1>3. Cardinality(Holders(hand', job)) =
        Cardinality(Holders(hand, job)) - Same(hand[t], job) + Same(NoJob, job)
  <2>1. hand'[t] = NoJob /\ \A u \in Thread \ {t} : hand'[u] = hand[u]
    BY <1>1
  <2>2. SameBut(hand', hand, t)
    BY <2>1 DEF SameBut
  <2>3. Cardinality(Holders(hand', job)) =
          Cardinality(Holders(hand, job)) - Same(hand[t], job) + Same(hand'[t], job)
    BY <2>2, HandCounts, Zenon
  <2> QED
    BY <2>1, <2>3
<1>4. Same(NoJob, job) = 0 /\ Same(hand[t], job) \in Nat
  BY DEF Same
<1>5. /\ Cardinality(Positions(jobs, job)) \in Nat
      /\ Cardinality(Holders(hand, job)) \in Nat
  BY <1>1, PositionsFinite, HoldersFinite
<1>6. Copies(job)' = Cardinality(Positions(jobs', job)) + Cardinality(Holders(hand', job))
  BY DEF Copies, Positions, Holders
<1>7. Copies(job)' = Copies(job)
  BY <1>2, <1>3, <1>4, <1>5, <1>6, CopiesCount
<1> QED
  BY <1>1, <1>2, <1>7

LEMMA SameCounts ==
  ASSUME UNCHANGED <<jobs, hand>>, NEW job
  PROVE  Copies(job)' = Copies(job)
  BY DEF Copies

-----------------------------------------------------------------------------
(***************************************************************************)
(* A step that moves jobs but neither makes nor drops a counted one, starts*)
(* no thread and creates no object.                                        *)
(***************************************************************************)
LEMMA Quiet ==
  ASSUME IInv, TypeOK', HandsEmpty',
         \A job \in Counted : Copies(job)' = Copies(job),
         \A o \in Object : \/ object'[o] = object[o]
                           \/ object[o] = "live" /\ object'[o] = "gone",
         mainState' \in {"last", "ended"} <=> mainState \in {"last", "ended"},
         \A t \in Thread :
           /\ MayExecute(t, hand'[t])
           /\ \/ state'[t] = state[t]
              \/ state[t] \in {"idle", "popped", "busy"}
                   /\ state'[t] \in {"idle", "popped", "busy", "done"}
              \/ state[t] = "new" /\ state'[t] = "done"
  PROVE  IInv'
<1>1. ObjectJobsConserved'
  <2>1. ASSUME NEW o \in Object
        PROVE  /\ Copies(ObjectJob(o))' <= 1
               /\ object'[o] = "none" => Copies(ObjectJob(o))' = 0
               /\ object'[o] = "live" /\ ~JobsErased' => Copies(ObjectJob(o))' = 1
    <3>1. ObjectJob(o) \in Counted
      BY DEF Counted
    <3>2. Copies(ObjectJob(o))' = Copies(ObjectJob(o))
      BY <3>1
    <3> QED
      BY <3>2 DEF IInv, JobsConserved, ObjectJobsConserved, JobsErased
  <2> QED
    BY <2>1 DEF ObjectJobsConserved
<1>2. LoopJobsConserved'
  <2>1. ASSUME NEW t \in Thread
        PROVE  MayExecute(t, hand[t])' /\ (Working(t)' => Copies(LoopJob(t))' = 1)
    <3>1. LoopJob(t) \in Counted
      BY DEF Counted
    <3>2. Copies(LoopJob(t))' = Copies(LoopJob(t))
      BY <3>1
    <3>3. Working(t)' => Working(t)
      BY DEF Working
    <3> QED
      BY <3>2, <3>3 DEF IInv, JobsConserved, LoopJobsConserved, MayExecute
  <2> QED
    BY <2>1 DEF LoopJobsConserved
<1>3. SynchronizeJobsConserved'
  <2>1. Copies(SynchronizeJob)' = Copies(SynchronizeJob)
    BY DEF Counted
  <2>2. {t \in Thread : state'[t] # "off"} = {t \in Thread : state[t] # "off"}
    OBVIOUS
  <2> QED
    BY <2>1, <2>2 DEF IInv, JobsConserved, SynchronizeJobsConserved, JobsErased
<1>4. NotYetLooping'
  <2>1. ASSUME NEW t \in Thread, state'[t] \in {"off", "new"}
        PROVE  Copies(LoopJob(t))' = 0
    <3>1. Copies(LoopJob(t))' = Copies(LoopJob(t))
      BY DEF Counted
    <3>2. state[t] \in {"off", "new"}
      BY <2>1
    <3> QED
      BY <3>1, <3>2 DEF IInv, NotYetLooping
  <2> QED
    BY <2>1 DEF NotYetLooping
<1>5. ErasedLast'
  BY DEF IInv, ErasedLast, JobsErased
<1> QED
  BY <1>1, <1>2, <1>3, <1>4, <1>5 DEF IInv, JobsConserved

-----------------------------------------------------------------------------
(***************************************************************************)
(* One lemma per action: the invariant is inductive.                       *)
(***************************************************************************)
LEMMA NoJobIsAnybodys == \A t \in Thread : MayExecute(t, NoJob)
  BY DEF MayExecute, NoJob, Job

LEMMA PopJobKeeps ==
  ASSUME IInv, NEW t \in Thread, PopJob(t)
  PROVE  IInv'
<1>1. hand[t] = NoJob /\ TypeOK
  BY DEF IInv, HandsEmpty, PopJob
<1>2. \A job \in Counted : job # NoJob
  BY CountedAreJobs
<1>3. \A job \in Counted : Copies(job)' = Copies(job)
  BY <1>1, <1>2, PopFrontCounts DEF PopJob
<1>4. /\ jobs' \in Seq(JobRecord) /\ hand' \in [Thread -> JobRecord]
      /\ MayExecute(t, hand'[t]) /\ \A u \in Thread \ {t} : hand'[u] = hand[u]
  BY <1>1, FinishJob # NoJob, PopFrontCounts DEF PopJob, FinishJob, NoJob, Job
<1>5. state' = [state EXCEPT ![t] = "popped"] /\ state[t] = "idle"
      /\ UNCHANGED <<object, mainState, finishes, stopper>>
  BY DEF PopJob
<1>6. TypeOK'
  BY <1>1, <1>4, <1>5 DEF TypeOK
<1>7. HandsEmpty'
  BY <1>1, <1>4, <1>5 DEF IInv, HandsEmpty, TypeOK
<1>8. \A u \in Thread : MayExecute(u, hand'[u])
  BY <1>4 DEF IInv, JobsConserved, LoopJobsConserved
<1>9. \A u \in Thread : \/ state'[u] = state[u]
                        \/ state[u] = "idle" /\ state'[u] = "popped"
  BY <1>1, <1>5 DEF TypeOK
<1> QED
  BY <1>3, <1>5, <1>6, <1>7, <1>8, <1>9, Quiet

LEMMA BeginKeeps ==
  ASSUME IInv, NEW t \in Thread, Begin(t)
  PROVE  IInv'
<1>1. TypeOK /\ state[t] = "popped"
  BY DEF IInv, Begin, Popped
<1>2. state' = [state EXCEPT ![t] = "busy"]
      /\ UNCHANGED <<jobs, hand, object, mainState, finishes, stopper>>
  BY DEF Begin
<1>3. TypeOK'
  BY <1>1, <1>2 DEF TypeOK
<1>4. HandsEmpty'
  BY <1>1, <1>2 DEF IInv, HandsEmpty, TypeOK
<1>5. \A job \in Counted : Copies(job)' = Copies(job)
  BY <1>2, SameCounts
<1>6. \A u \in Thread : MayExecute(u, hand'[u])
  BY <1>2 DEF IInv, JobsConserved, LoopJobsConserved
<1>7. \A u \in Thread : \/ state'[u] = state[u]
                        \/ state[u] = "popped" /\ state'[u] = "busy"
  BY <1>1, <1>2 DEF TypeOK
<1> QED
  BY <1>2, <1>3, <1>4, <1>5, <1>6, <1>7, Quiet

LEMMA PutBackKeeps ==
  ASSUME IInv, NEW t \in Thread, state[t] \in {"popped", "busy"}, PutBack(t),
         UNCHANGED <<object, mainState, finishes, stopper>>
  PROVE  IInv'
<1>1. TypeOK /\ FinishJob # NoJob
  BY DEF IInv, FinishJob, NoJob, Job
<1>2. hand' = [hand EXCEPT ![t] = NoJob] /\ state' = [state EXCEPT ![t] = "idle"]
  BY DEF PutBack, Drop
<1>3. jobs' \in Seq(JobRecord) /\ hand' \in [Thread -> JobRecord]
  BY <1>1, PutBackCounts
<1>4. \A job \in Counted : Copies(job)' = Copies(job)
  BY <1>1, CountedAreJobs, PutBackCounts
<1>5. TypeOK'
  BY <1>1, <1>2, <1>3 DEF TypeOK
<1>6. HandsEmpty'
  BY <1>1, <1>2 DEF IInv, HandsEmpty, TypeOK
<1>7. \A u \in Thread : MayExecute(u, hand'[u])
  BY <1>1, <1>2, NoJobIsAnybodys DEF IInv, JobsConserved, LoopJobsConserved, TypeOK
<1>8. \A u \in Thread : \/ state'[u] = state[u]
                        \/ state[u] \in {"popped", "busy"} /\ state'[u] = "idle"
  BY <1>1, <1>2 DEF TypeOK
<1> QED
  BY <1>4, <1>5, <1>6, <1>7, <1>8, Quiet

LEMMA EndJobKeeps ==
  ASSUME IInv, NEW t \in Thread, EndJob(t) \/ PassSynchronize(t)
  PROVE  IInv'
  BY PutBackKeeps DEF EndJob, PassSynchronize, Popped

LEMMA FinishKeeps ==
  ASSUME IInv, NEW t \in Thread, Finish(t)
  PROVE  IInv'
<1>1. TypeOK /\ state[t] = "popped" /\ hand[t].type = "finish" /\ FinishJob # NoJob
  BY DEF IInv, Finish, Popped, FinishJob, NoJob, Job
<1>2. /\ Drop(t, "done") /\ hand' = [hand EXCEPT ![t] = NoJob]
      /\ state' = [state EXCEPT ![t] = "done"]
      /\ UNCHANGED <<jobs, object, mainState, finishes, stopper>>
  BY DEF Finish, Drop
<1>3. hand' \in [Thread -> JobRecord]
  BY <1>1, <1>2, DropCounts
<1>4. ASSUME NEW job \in Counted PROVE Copies(job)' = Copies(job)
  <2>1. job # NoJob /\ Copies(job) \in Nat
    BY <1>1, CountedAreJobs, CopiesNatural
  <2>2. Same(hand[t], job) = 0
    BY <1>1 DEF Same, Counted, ObjectJob, LoopJob, SynchronizeJob, Job
  <2> QED
    BY <1>1, <1>2, <2>1, <2>2, DropCounts
<1>5. TypeOK'
  BY <1>1, <1>2, <1>3 DEF TypeOK
<1>6. HandsEmpty'
  BY <1>1, <1>2 DEF IInv, HandsEmpty, TypeOK
<1>7. \A u \in Thread : MayExecute(u, hand'[u])
  BY <1>1, <1>2, NoJobIsAnybodys DEF IInv, JobsConserved, LoopJobsConserved, TypeOK
<1>8. \A u \in Thread : \/ state'[u] = state[u]
                        \/ state[u] = "popped" /\ state'[u] = "done"
  BY <1>1, <1>2 DEF TypeOK
<1> QED
  BY <1>2, <1>4, <1>5, <1>6, <1>7, <1>8, Quiet

(***************************************************************************)
(* The steps of StopWorld, ResumeWorld and PushFinish, and the removal of  *)
(* an object whose job is elsewhere, move nothing that is counted.         *)
(***************************************************************************)
LEMMA OutsideKeeps ==
  ASSUME IInv, state' = state, hand' = hand, TypeOK',
         \A job \in Counted : Copies(job)' = Copies(job),
         \A o \in Object : \/ object'[o] = object[o]
                           \/ object[o] = "live" /\ object'[o] = "gone",
         mainState' \in {"last", "ended"} <=> mainState \in {"last", "ended"}
  PROVE  IInv'
<1>1. HandsEmpty'
  BY DEF IInv, HandsEmpty
<1>2. \A u \in Thread : MayExecute(u, hand'[u])
  BY DEF IInv, JobsConserved, LoopJobsConserved
<1> QED
  BY <1>1, <1>2, Quiet

LEMMA StopWorldKeeps ==
  ASSUME IInv, (\E s \in Stoppers : StopWorld(s)) \/ ResumeWorld
  PROVE  IInv'
<1>1. /\ UNCHANGED <<jobs, hand, state, object, mainState, finishes>>
      /\ stopper' \in Thread \cup {Main, NoThread}
  BY ThreadAssumption DEF StopWorld, ResumeWorld
<1>2. TypeOK'
  BY <1>1 DEF IInv, TypeOK
<1> QED
  BY <1>1, <1>2, SameCounts, OutsideKeeps

LEMMA RemoveObjectKeeps ==
  ASSUME IInv, NEW t \in Thread, NEW o \in Object, RemoveObject(t, o)
  PROVE  IInv'
<1>1. /\ UNCHANGED <<jobs, hand, state, mainState, finishes, stopper>>
      /\ object[o] = "live" /\ object' = [object EXCEPT ![o] = "gone"]
  BY DEF RemoveObject
<1>2. TypeOK'
  BY <1>1 DEF IInv, TypeOK
<1>3. \A p \in Object :
        object'[p] = object[p] \/ (object[p] = "live" /\ object'[p] = "gone")
  BY <1>1 DEF IInv, TypeOK
<1> QED
  BY <1>1, <1>2, <1>3, SameCounts, OutsideKeeps

LEMMA PushFinishKeeps ==
  ASSUME IInv, PushFinish
  PROVE  IInv'
<1>1. /\ UNCHANGED <<hand, state, object, stopper>>
      /\ mainState \in {"loop", "finishing"} /\ mainState' = "finishing"
      /\ finishes < Cardinality(Thread) /\ finishes' = finishes + 1
      /\ PushBack(FinishJob) /\ TypeOK
  BY DEF IInv, PushFinish
<1>2. FinishJob \in JobRecord
  BY CountedAreJobs
<1>3. jobs' \in Seq(JobRecord)
  BY <1>1, <1>2, PushBackCounts
<1>4. ASSUME NEW job \in Counted PROVE Copies(job)' = Copies(job)
  <2>1. Same(FinishJob, job) = 0 /\ Copies(job) \in Nat
    BY <1>1, CountedAreJobs, CopiesNatural DEF Same
  <2> QED
    BY <1>1, <1>2, <2>1, PushBackCounts
<1>5. finishes' \in 0..Cardinality(Thread)
  <2>1. Cardinality(Thread) \in Nat
    BY ThreadAssumption, FS_CardinalityType
  <2> QED
    BY <1>1, <2>1 DEF TypeOK
<1>6. TypeOK'
  BY <1>1, <1>3, <1>5 DEF TypeOK
<1> QED
  BY <1>1, <1>4, <1>6, OutsideKeeps

LEMMA CountedDiffer ==
  /\ \A o, p \in Object : ObjectJob(o) = ObjectJob(p) => o = p
  /\ \A t, u \in Thread : LoopJob(t) = LoopJob(u) => t = u
  /\ \A o \in Object, t \in Thread : ObjectJob(o) # LoopJob(t)
  /\ \A o \in Object : ObjectJob(o) # SynchronizeJob
  /\ \A t \in Thread : LoopJob(t) # SynchronizeJob
  BY DEF ObjectJob, LoopJob, SynchronizeJob, Job

LEMMA PushedCounts ==
  ASSUME TypeOK, NEW new \in Counted, PushBack(new), hand' = hand
  PROVE  /\ jobs' \in Seq(JobRecord)
         /\ Copies(new)' = Copies(new) + 1
         /\ \A job \in Counted \ {new} : Copies(job)' = Copies(job)
<1>1. new \in JobRecord
  BY CountedAreJobs DEF Counted
<1>2. jobs' \in Seq(JobRecord)
  BY <1>1, PushBackCounts
<1>3. Copies(new)' = Copies(new) + 1
  <2>1. Same(new, new) = 1
    BY DEF Same
  <2> QED
    BY <1>1, <2>1, PushBackCounts
<1>4. ASSUME NEW job \in Counted \ {new} PROVE Copies(job)' = Copies(job)
  <2>1. Same(new, job) = 0 /\ Copies(job) \in Nat
    BY CopiesNatural DEF Same
  <2> QED
    BY <1>1, <2>1, PushBackCounts
<1> QED
  BY <1>2, <1>3, <1>4

LEMMA InitThreadKeeps ==
  ASSUME IInv, NEW t \in Thread, InitThread(t)
  PROVE  IInv'
<1>1. /\ TypeOK /\ state[t] = "new" /\ hand[t] = NoJob
      /\ UNCHANGED <<hand, object, mainState, finishes, stopper>>
  BY DEF IInv, HandsEmpty, InitThread
<1>2. CASE state' = [state EXCEPT ![t] = "done"] /\ UNCHANGED jobs
  <2>1. TypeOK'
    BY <1>1, <1>2 DEF TypeOK
  <2>2. HandsEmpty'
    BY <1>1, <1>2 DEF IInv, HandsEmpty, TypeOK
  <2>3. \A job \in Counted : Copies(job)' = Copies(job)
    BY <1>1, <1>2, SameCounts
  <2>4. \A u \in Thread : MayExecute(u, hand'[u])
    BY <1>1 DEF IInv, JobsConserved, LoopJobsConserved
  <2>5. \A u \in Thread :
          state'[u] = state[u] \/ (state[u] = "new" /\ state'[u] = "done")
    BY <1>1, <1>2 DEF TypeOK
  <2> QED
    BY <1>1, <2>1, <2>2, <2>3, <2>4, <2>5, Quiet
<1>3. CASE PushBack(LoopJob(t)) /\ state' = [state EXCEPT ![t] = "idle"]
  <2>1. /\ jobs' \in Seq(JobRecord)
        /\ Copies(LoopJob(t))' = Copies(LoopJob(t)) + 1
        /\ \A job \in Counted \ {LoopJob(t)} : Copies(job)' = Copies(job)
    BY <1>1, <1>3, PushedCounts DEF Counted
  <2>2. TypeOK'
    BY <1>1, <1>3, <2>1 DEF TypeOK
  <2>3. HandsEmpty'
    BY <1>1, <1>3 DEF IInv, HandsEmpty, TypeOK
  <2>4. ObjectJobsConserved'
    <3>1. ASSUME NEW o \in Object PROVE Copies(ObjectJob(o))' = Copies(ObjectJob(o))
      BY <2>1, CountedDiffer DEF Counted
    <3> QED
      BY <1>1, <3>1 DEF IInv, JobsConserved, ObjectJobsConserved, JobsErased
  <2>5. ASSUME NEW u \in Thread, u # t PROVE Copies(LoopJob(u))' = Copies(LoopJob(u))
    BY <2>1, <2>5, CountedDiffer DEF Counted
  <2>6. Copies(LoopJob(t))' = 1
    BY <1>1, <2>1 DEF IInv, NotYetLooping
  <2>7. state'[t] = "idle" /\ \A u \in Thread \ {t} : state'[u] = state[u]
    BY <1>1, <1>3 DEF TypeOK
  <2>8. LoopJobsConserved'
    <3>1. ASSUME NEW u \in Thread
          PROVE  MayExecute(u, hand[u])' /\ (Working(u)' => Copies(LoopJob(u))' = 1)
      <4>1. MayExecute(u, hand[u])'
        BY <1>1 DEF IInv, JobsConserved, LoopJobsConserved, MayExecute
      <4>2. CASE u = t
        BY <2>6, <4>1, <4>2
      <4>3. CASE u # t
        BY <2>5, <2>7, <4>1, <4>3 DEF IInv, JobsConserved, LoopJobsConserved, Working
      <4> QED
        BY <4>2, <4>3
    <3> QED
      BY <3>1 DEF LoopJobsConserved
  <2>9. SynchronizeJobsConserved'
    <3>1. Copies(SynchronizeJob)' = Copies(SynchronizeJob)
      BY <2>1, CountedDiffer DEF Counted
    <3>2. {u \in Thread : state'[u] # "off"} = {u \in Thread : state[u] # "off"}
      BY <1>1, <2>7
    <3> QED
      BY <1>1, <3>1, <3>2 DEF IInv, JobsConserved, SynchronizeJobsConserved, JobsErased
  <2>10. NotYetLooping'
    <3>1. ASSUME NEW u \in Thread, state'[u] \in {"off", "new"}
          PROVE  Copies(LoopJob(u))' = 0
      BY <2>5, <2>7, <3>1 DEF IInv, NotYetLooping
    <3> QED
      BY <3>1 DEF NotYetLooping
  <2>11. ErasedLast'
    BY <1>1 DEF IInv, ErasedLast, JobsErased
  <2> QED
    BY <2>2, <2>3, <2>4, <2>8, <2>9, <2>10, <2>11 DEF IInv, JobsConserved
<1> QED
  BY <1>2, <1>3 DEF InitThread

LEMMA AddObjectKeeps ==
  ASSUME IInv, NEW o \in Object, AddObject(o)
  PROVE  IInv'
<1>1. /\ TypeOK /\ object[o] = "none" /\ object' = [object EXCEPT ![o] = "live"]
      /\ PushBack(ObjectJob(o))
      /\ UNCHANGED <<hand, state, mainState, finishes, stopper>>
  BY DEF IInv, AddObject
<1>2. /\ jobs' \in Seq(JobRecord)
      /\ Copies(ObjectJob(o))' = Copies(ObjectJob(o)) + 1
      /\ \A job \in Counted \ {ObjectJob(o)} : Copies(job)' = Copies(job)
  BY <1>1, PushedCounts DEF Counted
<1>3. TypeOK'
  BY <1>1, <1>2 DEF TypeOK
<1>4. HandsEmpty' /\ ErasedLast'
  BY <1>1 DEF IInv, HandsEmpty, ErasedLast, JobsErased
<1>5. Copies(ObjectJob(o))' = 1
  BY <1>1, <1>2 DEF IInv, JobsConserved, ObjectJobsConserved
<1>6. ObjectJobsConserved'
  <2>1. ASSUME NEW p \in Object
        PROVE  /\ Copies(ObjectJob(p))' <= 1
               /\ object'[p] = "none" => Copies(ObjectJob(p))' = 0
               /\ object'[p] = "live" /\ ~JobsErased' => Copies(ObjectJob(p))' = 1
    <3>1. CASE p = o
      <4>1. object'[p] = "live"
        BY <1>1, <3>1 DEF TypeOK
      <4> QED
        BY <1>5, <3>1, <4>1
    <3>2. CASE p # o
      <4>1. Copies(ObjectJob(p))' = Copies(ObjectJob(p))
        BY <1>2, <3>2, CountedDiffer DEF Counted
      <4>2. object'[p] = object[p]
        BY <1>1, <3>2 DEF TypeOK
      <4> QED
        BY <1>1, <4>1, <4>2 DEF IInv, JobsConserved, ObjectJobsConserved, JobsErased
    <3> QED
      BY <3>1, <3>2
  <2> QED
    BY <2>1 DEF ObjectJobsConserved
<1>7. ASSUME NEW t \in Thread PROVE Copies(LoopJob(t))' = Copies(LoopJob(t))
  BY <1>2, CountedDiffer DEF Counted
<1>8. LoopJobsConserved' /\ NotYetLooping'
  BY <1>1, <1>7
     DEF IInv, JobsConserved, LoopJobsConserved, NotYetLooping, MayExecute, Working
<1>9. SynchronizeJobsConserved'
  <2>1. Copies(SynchronizeJob)' = Copies(SynchronizeJob)
    BY <1>2, CountedDiffer DEF Counted
  <2> QED
    BY <1>1, <2>1 DEF IInv, JobsConserved, SynchronizeJobsConserved, JobsErased
<1> QED
  BY <1>3, <1>4, <1>6, <1>8, <1>9 DEF IInv, JobsConserved

(***************************************************************************)
(* A thread drops the job of an object only when the object is gone.       *)
(***************************************************************************)
LEMMA DroppedKeeps ==
  ASSUME IInv, NEW t \in Thread, Popped(t, "object"), Drop(t, "idle"),
         object' \in [Object -> {"none", "live", "gone"}],
         \A o \in Object :
           /\ object'[o] = object[o] \/ (object[o] = "live" /\ object'[o] = "gone")
           /\ hand[t] = ObjectJob(o) => object'[o] = "gone",
         UNCHANGED <<jobs, mainState, finishes, stopper>>
  PROVE  IInv'
<1>1. /\ TypeOK /\ state[t] = "popped" /\ hand[t].type = "object"
      /\ hand' = [hand EXCEPT ![t] = NoJob] /\ state' = [state EXCEPT ![t] = "idle"]
  BY DEF IInv, Popped, Drop
<1>2. ASSUME NEW job \in Counted
      PROVE  /\ hand' \in [Thread -> JobRecord]
             /\ Copies(job)' = Copies(job) - Same(hand[t], job)
  BY <1>1, CountedAreJobs, DropCounts
<1>3. TypeOK'
  <2>1. hand' \in [Thread -> JobRecord]
    BY <1>2 DEF Counted
  <2> QED
    BY <1>1, <2>1 DEF TypeOK
<1>4. HandsEmpty'
  BY <1>1 DEF IInv, HandsEmpty, TypeOK
<1>5. ObjectJobsConserved'
  <2>1. ASSUME NEW o \in Object
        PROVE  /\ Copies(ObjectJob(o))' <= 1
               /\ object'[o] = "none" => Copies(ObjectJob(o))' = 0
               /\ object'[o] = "live" /\ ~JobsErased' => Copies(ObjectJob(o))' = 1
    <3>1. /\ Copies(ObjectJob(o))' = Copies(ObjectJob(o)) - Same(hand[t], ObjectJob(o))
          /\ Copies(ObjectJob(o)) \in Nat
      BY <1>1, <1>2, CopiesNatural DEF Counted
    <3>2. CASE hand[t] = ObjectJob(o)
      <4>1. object'[o] = "gone" /\ Same(hand[t], ObjectJob(o)) = 1
        BY <3>2 DEF Same
      <4> QED
        BY <3>1, <4>1 DEF IInv, JobsConserved, ObjectJobsConserved
    <3>3. CASE hand[t] # ObjectJob(o)
      <4>1. Same(hand[t], ObjectJob(o)) = 0
        BY <3>3 DEF Same
      <4>2. Copies(ObjectJob(o))' = Copies(ObjectJob(o))
        BY <3>1, <4>1
      <4> QED
        BY <4>2 DEF IInv, JobsConserved, ObjectJobsConserved, JobsErased
    <3> QED
      BY <3>2, <3>3
  <2> QED
    BY <2>1 DEF ObjectJobsConserved
<1>6. ASSUME NEW u \in Thread PROVE Copies(LoopJob(u))' = Copies(LoopJob(u))
  <2>1. Same(hand[t], LoopJob(u)) = 0
    BY <1>1 DEF Same, LoopJob, Job
  <2> QED
    BY <1>1, <1>2, <2>1, CopiesNatural DEF Counted
<1>7. /\ state'[t] = "idle" /\ hand'[t] = NoJob
      /\ \A u \in Thread \ {t} : state'[u] = state[u] /\ hand'[u] = hand[u]
  BY <1>1 DEF TypeOK
<1>8. LoopJobsConserved' /\ NotYetLooping'
  BY <1>1, <1>6, <1>7, NoJobIsAnybodys
     DEF IInv, JobsConserved, LoopJobsConserved, NotYetLooping, MayExecute, Working
<1>9. SynchronizeJobsConserved'
  <2>1. Same(hand[t], SynchronizeJob) = 0
    BY <1>1 DEF Same, SynchronizeJob, Job
  <2>2. Copies(SynchronizeJob)' = Copies(SynchronizeJob)
    BY <1>1, <1>2, <2>1, CopiesNatural DEF Counted
  <2>3. {u \in Thread : state'[u] # "off"} = {u \in Thread : state[u] # "off"}
    BY <1>1, <1>7
  <2> QED
    BY <2>2, <2>3 DEF IInv, JobsConserved, SynchronizeJobsConserved, JobsErased
<1>10. ErasedLast'
  <2>1. ~JobsErased
    BY <1>1 DEF IInv, ErasedLast
  <2> QED
    BY <2>1 DEF ErasedLast, JobsErased
<1> QED
  BY <1>3, <1>4, <1>5, <1>8, <1>9, <1>10 DEF IInv, JobsConserved

LEMMA DropJobKeeps ==
  ASSUME IInv, NEW t \in Thread, DropJob(t)
  PROVE  IInv'
<1>1. object' \in [Object -> {"none", "live", "gone"}]
  BY DEF IInv, TypeOK, DropJob
<1>2. \A o \in Object : hand[t] = ObjectJob(o) => object'[o] = "gone"
  BY DEF DropJob, ObjectJob, Job
<1> QED
  BY <1>1, <1>2, DroppedKeeps DEF DropJob

LEMMA RemoveClientKeeps ==
  ASSUME IInv, NEW t \in Thread, NEW o \in Object, RemoveClient(t, o)
  PROVE  IInv'
<1>1. /\ object \in [Object -> {"none", "live", "gone"}]
      /\ hand[t].data = o /\ object[o] = "live" /\ object' = [object EXCEPT ![o] = "gone"]
  BY DEF IInv, TypeOK, RemoveClient
<1>2. \A p \in Object : hand[t] = ObjectJob(p) => p = o
  BY <1>1 DEF ObjectJob, Job
<1>3. /\ object' \in [Object -> {"none", "live", "gone"}]
      /\ \A p \in Object :
           /\ object'[p] = object[p] \/ (object[p] = "live" /\ object'[p] = "gone")
           /\ hand[t] = ObjectJob(p) => object'[p] = "gone"
  BY <1>1, <1>2
<1> QED
  BY <1>3, DroppedKeeps DEF RemoveClient

LEMMA StartThreadKeeps ==
  ASSUME IInv, NEW t \in Thread, StartThread(t)
  PROVE  IInv'
<1>1. /\ TypeOK /\ mainState = "starting" /\ mainState' \in {"starting", "loop"}
      /\ state[t] = "off" /\ state' = [state EXCEPT ![t] = "new"] /\ hand[t] = NoJob
      /\ PushBack(SynchronizeJob)
      /\ UNCHANGED <<hand, object, finishes, stopper>>
  BY DEF IInv, HandsEmpty, StartThread
<1>2. /\ jobs' \in Seq(JobRecord)
      /\ Copies(SynchronizeJob)' = Copies(SynchronizeJob) + 1
      /\ \A job \in Counted \ {SynchronizeJob} : Copies(job)' = Copies(job)
  BY <1>1, PushedCounts DEF Counted
<1>3. state'[t] = "new" /\ \A u \in Thread \ {t} : state'[u] = state[u]
  BY <1>1 DEF TypeOK
<1>4. TypeOK'
  BY <1>1, <1>2 DEF TypeOK
<1>5. HandsEmpty' /\ ErasedLast'
  BY <1>1, <1>3 DEF IInv, HandsEmpty, ErasedLast, JobsErased
<1>6. ObjectJobsConserved'
  <2>1. ASSUME NEW o \in Object PROVE Copies(ObjectJob(o))' = Copies(ObjectJob(o))
    BY <1>2, CountedDiffer DEF Counted
  <2> QED
    BY <1>1, <2>1 DEF IInv, JobsConserved, ObjectJobsConserved, JobsErased
<1>7. ASSUME NEW u \in Thread PROVE Copies(LoopJob(u))' = Copies(LoopJob(u))
  BY <1>2, CountedDiffer DEF Counted
<1>8. LoopJobsConserved' /\ NotYetLooping'
  BY <1>1, <1>3, <1>7
     DEF IInv, JobsConserved, LoopJobsConserved, NotYetLooping, MayExecute, Working
<1>9. SynchronizeJobsConserved'
  <2> DEFINE On == {u \in Thread : state[u] # "off"}
  <2>1. {u \in Thread : state'[u] # "off"} = On \cup {t} /\ t \notin On
    BY <1>1, <1>3
  <2>2. IsFiniteSet(On)
    BY ThreadAssumption, FS_Subset
  <2>3. Cardinality(On \cup {t}) = Cardinality(On) + 1
    BY <2>1, <2>2, FS_AddElement
  <2>4. Copies(SynchronizeJob) = Cardinality(On)
    BY <1>1 DEF IInv, JobsConserved, SynchronizeJobsConserved, JobsErased
  <2> QED
    BY <1>2, <2>1, <2>3, <2>4 DEF SynchronizeJobsConserved
<1> QED
  BY <1>4, <1>5, <1>6, <1>8, <1>9 DEF IInv, JobsConserved

(***************************************************************************)
(* When the jobs are erased every thread has ended and holds none.         *)
(***************************************************************************)
LEMMA EraseJobsKeeps ==
  ASSUME IInv, EraseJobs
  PROVE  IInv'
<1>1. /\ TypeOK /\ jobs' = <<>> /\ mainState' = "last"
      /\ \A t \in Thread : state[t] = "done" /\ hand[t] = NoJob
      /\ UNCHANGED <<hand, state, object, finishes, stopper>>
  BY DEF IInv, HandsEmpty, EraseJobs
<1>2. TypeOK'
  BY <1>1 DEF TypeOK
<1>3. ASSUME NEW job \in Counted PROVE Copies(job)' = 0
  <2>1. job # NoJob
    BY CountedAreJobs
  <2>2. {i \in DOMAIN jobs' : jobs'[i] = job} = {}
    BY <1>1
  <2>3. {t \in Thread : hand'[t] = job} = {}
    BY <1>1, <2>1
  <2> QED
    BY <2>2, <2>3, FS_EmptySet DEF Copies
<1>4. ObjectJobsConserved'
  <2>1. \A o \in Object : Copies(ObjectJob(o))' = 0
    BY <1>3 DEF Counted
  <2> QED
    BY <1>1, <2>1 DEF ObjectJobsConserved, JobsErased
<1>5. LoopJobsConserved' /\ HandsEmpty' /\ NotYetLooping' /\ ErasedLast'
  BY <1>1, NoJobIsAnybodys
     DEF LoopJobsConserved, HandsEmpty, NotYetLooping, ErasedLast, Working, MayExecute
<1>6. SynchronizeJobsConserved'
  BY <1>1 DEF SynchronizeJobsConserved, JobsErased
<1> QED
  BY <1>2, <1>4, <1>5, <1>6 DEF IInv, JobsConserved

-----------------------------------------------------------------------------
(***************************************************************************)
(* At the beginning the deque holds the general jobs alone.                *)
(***************************************************************************)
LEMMA Initially == Init => IInv
<1> SUFFICES ASSUME Init PROVE IInv
  OBVIOUS
<1> DEFINE G == {GeneralJob(g) : g \in General}
<1>1. IsFiniteSet(G)
  <2>1. G \subseteq {GeneralJob("garbage"), GeneralJob("release")}
    BY ThreadAssumption
  <2>2. IsFiniteSet({GeneralJob("garbage"), GeneralJob("release")})
    <3>1. IsFiniteSet({GeneralJob("garbage")})
      BY FS_Singleton
    <3> QED
      BY <3>1, FS_AddElement
  <2> QED
    BY <2>1, <2>2, FS_Subset
<1>2. jobs \in [1..Cardinality(G) -> G] /\ Cardinality(G) \in Nat
  <2>1. \E f : f \in [1..Cardinality(G) -> G] /\ IsInjective(f)
    BY <1>1, FS_CardinalityType DEF ExistsBijection, Bijection, Injection, IsInjective
  <2>2. Cardinality(G) \in Nat
    BY <1>1, FS_CardinalityType
  <2> QED
    BY <2>1, <2>2 DEF Init, SetToSeq
<1>3. \A job \in G : job \in JobRecord /\ job \notin Counted
  <2>1. \A job \in G : job \in JobRecord
    BY ThreadAssumption DEF GeneralJob, JobRecord, Job
  <2>2. \A job \in Counted : job.type \in {"object", "loop", "synchronize"}
    BY DEF Counted, ObjectJob, LoopJob, SynchronizeJob, Job
  <2>3. \A job \in G : job.type \in {"garbage", "release"}
    BY ThreadAssumption DEF GeneralJob, Job
  <2> QED
    BY <2>1, <2>2, <2>3
<1> HIDE DEF G
<1>4. jobs \in Seq(JobRecord)
  <2>1. jobs \in Seq(G) /\ Len(jobs) = Cardinality(G)
    BY <1>2, SeqDef
  <2>2. \A i \in 1..Len(jobs) : jobs[i] \in JobRecord
    BY <1>2, <1>3, <2>1
  <2> QED
    BY <1>2, <2>1, <2>2, SeqDef
<1>5. \A t \in Thread : hand[t] = NoJob /\ state[t] = "off"
  BY DEF Init
<1>6. TypeOK
  <2>1. Cardinality(Thread) \in Nat
    BY ThreadAssumption, FS_CardinalityType
  <2> QED
    BY <1>4, <2>1, CountedAreJobs DEF Init, TypeOK
<1>7. ASSUME NEW job \in Counted PROVE Copies(job) = 0
  <2>1. job # NoJob
    BY CountedAreJobs
  <2>2. {i \in DOMAIN jobs : jobs[i] = job} = {}
    BY <1>2, <1>3
  <2>3. {t \in Thread : hand[t] = job} = {}
    BY <1>5, <2>1
  <2> QED
    BY <2>2, <2>3, FS_EmptySet DEF Copies
<1>8. ObjectJobsConserved
  <2>1. \A o \in Object : Copies(ObjectJob(o)) = 0
    BY <1>7 DEF Counted
  <2> QED
    BY <2>1 DEF Init, ObjectJobsConserved
<1>9. LoopJobsConserved /\ HandsEmpty /\ ErasedLast
  BY <1>5, NoJobIsAnybodys
     DEF Init, LoopJobsConserved, HandsEmpty, ErasedLast, JobsErased, Working
<1>10. NotYetLooping
  BY <1>7 DEF NotYetLooping, Counted
<1>11. SynchronizeJobsConserved
  <2>1. {t \in Thread : state[t] # "off"} = {}
    BY <1>5
  <2>2. Copies(SynchronizeJob) = 0
    BY <1>7 DEF Counted
  <2> QED
    BY <2>1, <2>2, FS_EmptySet DEF SynchronizeJobsConserved
<1> QED
  BY <1>6, <1>8, <1>9, <1>10, <1>11 DEF IInv, JobsConserved

LEMMA Inductive == IInv /\ [Next]_queueVars => IInv'
<1> SUFFICES ASSUME IInv, [Next]_queueVars PROVE IInv'
  OBVIOUS
<1>1. CASE UNCHANGED queueVars
  <2>1. TypeOK'
    BY <1>1 DEF IInv, TypeOK, queueVars
  <2> QED
    BY <1>1, <2>1, SameCounts, OutsideKeeps DEF queueVars
<1>2. ASSUME NEW t \in Thread, Execute(t) PROVE IInv'
  BY <1>2, InitThreadKeeps, PopJobKeeps, BeginKeeps, DropJobKeeps, FinishKeeps DEF Execute
<1>3. ASSUME NEW t \in Thread, PassSynchronize(t) \/ EndJob(t) \/ StartThread(t)
      PROVE  IInv'
  BY <1>3, EndJobKeeps, StartThreadKeeps
<1>4. ASSUME NEW t \in Thread, NEW o \in Object, RemoveObject(t, o) \/ RemoveClient(t, o)
      PROVE  IInv'
  BY <1>4, RemoveObjectKeeps, RemoveClientKeeps
<1>5. CASE \E o \in Object : AddObject(o)
  BY <1>5, AddObjectKeeps
<1>6. CASE (\E s \in Stoppers : StopWorld(s)) \/ ResumeWorld
  BY <1>6, StopWorldKeeps
<1>7. CASE PushFinish \/ EraseJobs
  BY <1>7, PushFinishKeeps, EraseJobsKeeps
<1> QED
  BY <1>1, <1>2, <1>3, <1>4, <1>5, <1>6, <1>7 DEF Next

-----------------------------------------------------------------------------
(***************************************************************************)
(* The deque and the hands hold jobs, and no more finish jobs are pushed   *)
(* than there are threads.                                                 *)
(***************************************************************************)
THEOREM TypeCorrect == Spec => []TypeOK
<1>1. IInv => TypeOK
  BY DEF IInv
<1> QED
  BY <1>1, Initially, Inductive, PTL DEF Spec

(***************************************************************************)
(* PushBack, PopFront and the ways out of Logic_Work's loop lose no job    *)
(* and double none, in any interleaving of any number of threads.          *)
(***************************************************************************)
THEOREM NothingLost == Spec => []JobsConserved
<1>1. IInv => JobsConserved
  BY DEF IInv
<1> QED
  BY <1>1, Initially, Inductive, PTL DEF Spec
=============================================================================
