----------------------------- MODULE ThreadSync -----------------------------
(***************************************************************************)
(* The object locks of the server: SyncObject and SyncManager of           *)
(* ThreadSync.{h,cpp}.                                                     *)
(*                                                                         *)
(* Every game object (critter, item, map, location, variable) carries a    *)
(* SyncObject and every thread owns one SyncManager.  A thread locks       *)
(* objects one after another (SYNC_LOCK) and gives them all back at once   *)
(* (UnlockAll, at the start of every job).  A thread that has to wait for  *)
(* a busy object LENDS everything it holds: a thread of the same or of a   *)
(* higher priority may pick its objects, which then join the list of       *)
(* objects the waiting thread has to take back before it goes on.          *)
(*                                                                         *)
(* Every method runs under the one mutex SyncLocker, released between two  *)
(* rounds of the waiting loop and between two Lock calls of Resume; each   *)
(* of these critical sections is one step here.  The vectors are sets: the *)
(* order of lockedObjects is never used, the order of busyObjects is only  *)
(* the order in which Resume relocks them, and the model allows any.       *)
(* Everything is a no-op in the code when LogicMT is off (one logic        *)
(* thread); this module is the LogicMT case.                               *)
(***************************************************************************)
EXTENDS Naturals, Sequences, FiniteSets

CONSTANTS Thread,            \* the threads, each with its SyncManager
          Object,            \* the SyncObjects
          NoThread,          \* NULL as a value of curMngr
          Priorities,        \* the arguments of PushPriority (2, 5, 10)
          DefaultPriority,   \* 3, the priority of a new SyncManager
          MaxPriorityDepth,  \* bound: longest priorityStack
          UnlockCallers      \* threads that call SyncObject::Unlock

ASSUME NoThreadAssumption == NoThread \notin Thread
ASSUME PriorityAssumption ==
  /\ Priorities \subseteq Nat
  /\ DefaultPriority \in Nat
  /\ MaxPriorityDepth \in Nat
ASSUME UnlockAssumption == UnlockCallers \subseteq Thread

VARIABLES
  curMngr,         \* SyncObject::curMngr: the thread that owns the object
  lockedObjects,   \* SyncManager::lockedObjects
  busyObjects,     \* SyncManager::busyObjects
  isWaiting,       \* SyncManager::isWaiting
  threadPriority,  \* SyncManager::threadPriority
  priorityStack,   \* SyncManager::priorityStack, its top first
  pc,              \* "run": outside the wait loop, "wait": in the loop of
                   \* Lock, "suspend": between Suspend and Resume
  relock           \* busy_objs of Resume: what it has still to Lock

ownership == <<curMngr, lockedObjects, busyObjects>>
priority  == <<threadPriority, priorityStack>>
vars      == <<ownership, isWaiting, priority, pc, relock>>

TypeOK ==
  /\ curMngr        \in [Object -> Thread \cup {NoThread}]
  /\ lockedObjects  \in [Thread -> SUBSET Object]
  /\ busyObjects    \in [Thread -> SUBSET Object]
  /\ isWaiting      \in [Thread -> BOOLEAN]
  /\ threadPriority \in [Thread -> Nat]
  /\ priorityStack  \in [Thread -> Seq(Nat)]
  /\ pc             \in [Thread -> {"run", "wait", "suspend"}]
  /\ relock         \in [Thread -> SUBSET Object]

\* Faulty: the constructor of SyncManager leaves isWaiting uninitialized.
InitUninitialized ==
  /\ curMngr        = [o \in Object |-> NoThread]
  /\ lockedObjects  = [t \in Thread |-> {}]
  /\ busyObjects    = [t \in Thread |-> {}]
  /\ isWaiting      = [t \in Thread |-> NoThread]
  /\ threadPriority = [t \in Thread |-> DefaultPriority]
  /\ priorityStack  = [t \in Thread |-> <<>>]
  /\ pc             = [t \in Thread |-> "run"]
  /\ relock         = [t \in Thread |-> {}]

Init ==
  /\ curMngr        = [o \in Object |-> NoThread]
  /\ lockedObjects  = [t \in Thread |-> {}]
  /\ busyObjects    = [t \in Thread |-> {}]
  /\ isWaiting      = [t \in Thread |-> FALSE]
  /\ threadPriority = [t \in Thread |-> DefaultPriority]
  /\ priorityStack  = [t \in Thread |-> <<>>]
  /\ pc             = [t \in Thread |-> "run"]
  /\ relock         = [t \in Thread |-> {}]

(***************************************************************************)
(* A thread executes game code: it is in no call of this module.           *)
(***************************************************************************)
Running(t) == pc[t] = "run" /\ relock[t] = {}

\* Faulty: picks from threads that run.
LendersRunning(t) == {u \in Thread : threadPriority[t] >= threadPriority[u]}

\* Faulty: equals do not lend to each other.
LendersStrict(t) == {u \in Thread : isWaiting[u] /\ threadPriority[t] > threadPriority[u]}

(***************************************************************************)
(* The threads t may pick objects from: they wait, with at most the        *)
(* priority of t.  Lock may give o to t when it is free, t's already, or a *)
(* lender's.                                                               *)
(***************************************************************************)
Lenders(t) == {u \in Thread : isWaiting[u] /\ threadPriority[t] >= threadPriority[u]}

CanTake(t, o) == curMngr[o] \in {NoThread, t} \cup Lenders(t)

Lent(u, S) == {o \in S : curMngr[o] = u}

\* Faulty: an object picked stays in the locked list of the lender.
TakeKeepsListed(t, S) ==
  /\ curMngr' = [o \in Object |-> IF o \in S THEN t ELSE curMngr[o]]
  /\ lockedObjects' = [lockedObjects EXCEPT ![t] = @ \cup S]
  /\ busyObjects' = [u \in Thread |->
        IF u = t THEN busyObjects[u] \ S
                 ELSE busyObjects[u] \cup Lent(u, S)]

\* Faulty: the lender does not remember what it has lent.
TakeForgetsLent(t, S) ==
  /\ curMngr' = [o \in Object |-> IF o \in S THEN t ELSE curMngr[o]]
  /\ lockedObjects' = [u \in Thread |->
        IF u = t THEN lockedObjects[u] \cup S
                 ELSE lockedObjects[u] \ Lent(u, S)]
  /\ busyObjects' = [busyObjects EXCEPT ![t] = @ \ S]

(***************************************************************************)
(* t becomes the owner of the objects of S.  What is picked from a waiting *)
(* thread goes on that thread's busy list.                                 *)
(***************************************************************************)
Take(t, S) ==
  /\ curMngr' = [o \in Object |-> IF o \in S THEN t ELSE curMngr[o]]
  /\ lockedObjects' = [u \in Thread |->
        IF u = t THEN lockedObjects[u] \cup S
                 ELSE lockedObjects[u] \ Lent(u, S)]
  /\ busyObjects' = [u \in Thread |->
        IF u = t THEN busyObjects[u] \ S
                 ELSE busyObjects[u] \cup Lent(u, S)]

(***************************************************************************)
(* The first critical section of Lock: take the object, or remember it as  *)
(* busy and enter the wait loop.                                           *)
(***************************************************************************)
LockGranted(t, o) ==
  /\ CanTake(t, o)
  /\ Take(t, {o})
  /\ UNCHANGED <<isWaiting, pc>>

LockBusy(t, o) ==
  /\ ~CanTake(t, o)
  /\ isWaiting' = [isWaiting EXCEPT ![t] = TRUE]
  /\ busyObjects' = [busyObjects EXCEPT ![t] = @ \cup {o}]
  /\ pc' = [pc EXCEPT ![t] = "wait"]
  /\ UNCHANGED <<curMngr, lockedObjects>>

Lock(t, o) ==
  /\ Running(t)
  /\ LockGranted(t, o) \/ LockBusy(t, o)
  /\ UNCHANGED <<priority, relock>>

\* Faulty: returns as soon as a busy object has been taken.
WaitRoundFirst(t) ==
  LET S == {o \in busyObjects[t] : CanTake(t, o)} IN
  /\ pc[t] = "wait"
  /\ Take(t, S)
  /\ IF S # {}
     THEN /\ isWaiting' = [isWaiting EXCEPT ![t] = FALSE]
          /\ pc' = [pc EXCEPT ![t] = "run"]
     ELSE UNCHANGED <<isWaiting, pc>>
  /\ UNCHANGED <<priority, relock>>

(***************************************************************************)
(* One round of the wait loop: take every busy object that can be taken;   *)
(* Lock returns when none is left.                                         *)
(***************************************************************************)
WaitRound(t) ==
  LET S == {o \in busyObjects[t] : CanTake(t, o)} IN
  /\ pc[t] = "wait"
  /\ Take(t, S)
  /\ IF S = busyObjects[t]
     THEN /\ isWaiting' = [isWaiting EXCEPT ![t] = FALSE]
          /\ pc' = [pc EXCEPT ![t] = "run"]
     ELSE UNCHANGED <<isWaiting, pc>>
  /\ UNCHANGED <<priority, relock>>

\* Faulty: the list is cleared, the objects keep their owner.
UnlockAllListOnly(t) ==
  /\ Running(t)
  /\ lockedObjects' = [lockedObjects EXCEPT ![t] = {}]
  /\ UNCHANGED <<curMngr, busyObjects, isWaiting, priority, pc, relock>>

UnlockAll(t) ==
  /\ Running(t)
  /\ curMngr' = [o \in Object |->
        IF o \in lockedObjects[t] THEN NoThread ELSE curMngr[o]]
  /\ lockedObjects' = [lockedObjects EXCEPT ![t] = {}]
  /\ UNCHANGED <<busyObjects, isWaiting, priority, pc, relock>>

(***************************************************************************)
(* SyncObject::Unlock, called when a script's Synchronizer is destroyed,   *)
(* takes o from whoever owns it and from every busy list, so that a thread *)
(* waiting for o alone returns without it.                                 *)
(***************************************************************************)
Unlock(t, o) ==
  /\ t \in UnlockCallers
  /\ Running(t)
  /\ curMngr' = [curMngr EXCEPT ![o] = NoThread]
  /\ lockedObjects' = [u \in Thread |-> lockedObjects[u] \ Lent(u, {o})]
  /\ busyObjects' = [u \in Thread |-> busyObjects[u] \ {o}]
  /\ UNCHANGED <<isWaiting, priority, pc, relock>>

Suspend(t) ==
  /\ Running(t)
  /\ isWaiting' = [isWaiting EXCEPT ![t] = TRUE]
  /\ pc' = [pc EXCEPT ![t] = "suspend"]
  /\ UNCHANGED <<ownership, priority, relock>>

(***************************************************************************)
(* Resume stops lending and moves the lent objects to its local list, then *)
(* locks them one by one (Relock), each with a Lock that may wait.         *)
(***************************************************************************)
Resume(t) ==
  /\ pc[t] = "suspend"
  /\ isWaiting' = [isWaiting EXCEPT ![t] = FALSE]
  /\ relock' = [relock EXCEPT ![t] = busyObjects[t]]
  /\ busyObjects' = [busyObjects EXCEPT ![t] = {}]
  /\ pc' = [pc EXCEPT ![t] = "run"]
  /\ UNCHANGED <<curMngr, lockedObjects, priority>>

Relock(t) ==
  /\ pc[t] = "run"
  /\ \E o \in relock[t] :
        /\ LockGranted(t, o) \/ LockBusy(t, o)
        /\ relock' = [relock EXCEPT ![t] = @ \ {o}]
  /\ UNCHANGED priority

(***************************************************************************)
(* BeginExecution pushes between Suspend and Resume, the other callers     *)
(* while they run.  The callers pair every pop with a push; PopPriority on *)
(* an empty stack is undefined.                                            *)
(***************************************************************************)
PushPriority(t, p) ==
  /\ Running(t) \/ pc[t] = "suspend"
  /\ Len(priorityStack[t]) < MaxPriorityDepth
  /\ priorityStack' = [priorityStack EXCEPT ![t] = <<threadPriority[t]>> \o @]
  /\ threadPriority' = [threadPriority EXCEPT ![t] = p]
  /\ UNCHANGED <<ownership, isWaiting, pc, relock>>

PopPriority(t) ==
  /\ Running(t)
  /\ priorityStack[t] # <<>>
  /\ threadPriority' = [threadPriority EXCEPT ![t] = Head(priorityStack[t])]
  /\ priorityStack' = [priorityStack EXCEPT ![t] = Tail(@)]
  /\ UNCHANGED <<ownership, isWaiting, pc, relock>>

Next ==
  \E t \in Thread :
    \/ \E o \in Object : Lock(t, o) \/ Unlock(t, o)
    \/ WaitRound(t) \/ Relock(t)
    \/ UnlockAll(t) \/ Suspend(t) \/ Resume(t)
    \/ \E p \in Priorities : PushPriority(t, p)
    \/ PopPriority(t)

Spec == Init /\ [][Next]_vars

(***************************************************************************)
(* Both lists of the pair (object, manager) agree: a manager lists exactly *)
(* the objects that name it as owner.  The code searches lockedObjects for *)
(* an object it picks and erases what it finds, which is undefined when    *)
(* the object is not there.                                                *)
(***************************************************************************)
OwnershipConsistent ==
  \A t \in Thread, o \in Object : o \in lockedObjects[t] <=> curMngr[o] = t

(***************************************************************************)
(* What a thread counts on: everything it has locked since its last        *)
(* UnlockAll, lent objects included.                                       *)
(***************************************************************************)
Claim(t) == lockedObjects[t] \cup busyObjects[t] \cup relock[t]

(***************************************************************************)
(* A thread that runs owns all it counts on: nothing is left lent when     *)
(* Lock or Resume returns, nothing is picked from a thread that runs, and  *)
(* the lists a waiting thread takes back from never overlap what it owns.  *)
(***************************************************************************)
Settled(t) ==
  /\ isWaiting[t] <=> pc[t] # "run"
  /\ ~isWaiting[t] => busyObjects[t] = {}
  /\ pc[t] = "suspend" => relock[t] = {}
  /\ busyObjects[t] \cap lockedObjects[t] = {}
  /\ relock[t] \cap (lockedObjects[t] \cup busyObjects[t]) = {}

NothingLentWhileRunning == \A t \in Thread : Settled(t)

(***************************************************************************)
(* Two threads that run game code at the same time never count on the      *)
(* same object.                                                            *)
(***************************************************************************)
Exclusion ==
  \A t, u \in Thread :
    t # u /\ Running(t) /\ Running(u) => Claim(t) \cap Claim(u) = {}

(***************************************************************************)
(* The detailed locks implement the abstract ones: every claim is kept     *)
(* until UnlockAll or the end of the object, whoever had it in between.    *)
(***************************************************************************)
Ownership == INSTANCE ObjectOwnership WITH
  claim  <- [t \in Thread |-> Claim(t)],
  active <- [t \in Thread |-> Running(t)]

ImplementsOwnership == Ownership!Spec
=============================================================================
