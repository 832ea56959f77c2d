-------------------------- MODULE ThreadSync_proofs --------------------------
(***************************************************************************)
(* Proofs about the object locks of ThreadSync, for any set of threads and *)
(* of objects, any priorities and any nesting of PushPriority.             *)
(***************************************************************************)
EXTENDS ThreadSync, TLAPS

(***************************************************************************)
(* The inductive invariant: types, agreement of the two lists of owners,   *)
(* and what busyObjects and relock hold in each phase of a call.           *)
(***************************************************************************)
IInv == TypeOK /\ OwnershipConsistent /\ NothingLentWhileRunning

(***************************************************************************)
(* The priority stack: pushing and popping stay within sequences of        *)
(* priorities (PushPriority, PopPriority of ThreadSync.cpp).               *)
(***************************************************************************)
LEMMA StackTypes ==
  ASSUME NEW s \in Seq(Nat), NEW p \in Nat
  PROVE  /\ <<p>> \o s \in Seq(Nat)
         /\ s # <<>> => Head(s) \in Nat /\ Tail(s) \in Seq(Nat)
OBVIOUS

(***************************************************************************)
(* Init establishes the inductive invariant.                               *)
(***************************************************************************)
LEMMA InitIInv == Init => IInv
BY PriorityAssumption, NoThreadAssumption
   DEF Init, IInv, TypeOK, OwnershipConsistent, NothingLentWhileRunning, Settled

(***************************************************************************)
(* The move of objects to a new owner, common to Lock and to the rounds of *)
(* the wait loop: the lists keep their types and go on agreeing with       *)
(* curMngr, and only waiting threads see their busy list grow.             *)
(***************************************************************************)
LEMMA TakeKeepsOwnership ==
  ASSUME IInv, NEW t \in Thread, NEW S \in SUBSET Object, Take(t, S),
         \A o \in S : CanTake(t, o)
  PROVE  /\ curMngr' \in [Object -> Thread \cup {NoThread}]
         /\ lockedObjects' \in [Thread -> SUBSET Object]
         /\ busyObjects' \in [Thread -> SUBSET Object]
         /\ OwnershipConsistent'
         /\ \A u \in Thread : busyObjects'[u] \cap lockedObjects'[u] = {}
         /\ \A u \in Thread \ {t} : ~isWaiting[u] =>
               /\ busyObjects'[u] = busyObjects[u]
               /\ lockedObjects'[u] = lockedObjects[u]
         /\ \A u \in Thread \ {t} :
               busyObjects'[u] \cup lockedObjects'[u] = busyObjects[u] \cup lockedObjects[u]
         /\ busyObjects'[t] = busyObjects[t] \ S
         /\ lockedObjects'[t] = lockedObjects[t] \cup S
<1> USE DEF IInv, TypeOK
<1>1. /\ curMngr' \in [Object -> Thread \cup {NoThread}]
      /\ lockedObjects' \in [Thread -> SUBSET Object]
      /\ busyObjects' \in [Thread -> SUBSET Object]
  BY DEF Take, Lent
<1>2. OwnershipConsistent'
  BY NoThreadAssumption DEF Take, Lent, OwnershipConsistent
<1>3. /\ busyObjects'[t] = busyObjects[t] \ S
      /\ lockedObjects'[t] = lockedObjects[t] \cup S
  BY DEF Take
<1>4. ASSUME NEW u \in Thread \ {t}, ~isWaiting[u]
      PROVE  /\ busyObjects'[u] = busyObjects[u]
             /\ lockedObjects'[u] = lockedObjects[u]
  <2>1. Lent(u, S) = {}
    BY <1>4, NoThreadAssumption DEF Lent, CanTake, Lenders
  <2> QED BY <2>1 DEF Take
<1>5. ASSUME NEW u \in Thread \ {t}
      PROVE  /\ busyObjects'[u] \cup lockedObjects'[u] = busyObjects[u] \cup lockedObjects[u]
             /\ busyObjects'[u] \cap lockedObjects'[u] = {}
  BY DEF Take, Lent, OwnershipConsistent, NothingLentWhileRunning, Settled
<1>6. busyObjects'[t] \cap lockedObjects'[t] = {}
  BY <1>3 DEF NothingLentWhileRunning, Settled
<1> QED BY <1>1, <1>2, <1>3, <1>4, <1>5, <1>6

(***************************************************************************)
(* One Lock, of the game code or of Resume, keeps what the invariant says  *)
(* of ownership and of the busy lists.  R is what Resume still has to lock *)
(* when this Lock is one of Resume's.                                      *)
(***************************************************************************)
LEMMA LockKeepsIInv ==
  ASSUME IInv, NEW t \in Thread, NEW o \in Object, pc[t] = "run",
         LockGranted(t, o) \/ LockBusy(t, o),
         UNCHANGED priority,
         relock' \in [Thread -> SUBSET Object],
         \A u \in Thread \ {t} : relock'[u] = relock[u],
         relock'[t] = relock[t] \ {o}
  PROVE  IInv'
<1> USE DEF IInv
<1>1. CASE LockGranted(t, o)
  <2>1. /\ Take(t, {o})
        /\ \A x \in {o} : CanTake(t, x)
        /\ UNCHANGED <<isWaiting, pc>>
    BY <1>1 DEF LockGranted
  <2>2. TypeOK' /\ OwnershipConsistent'
    BY <2>1, TakeKeepsOwnership DEF TypeOK, priority
  <2>3. ASSUME NEW u \in Thread PROVE Settled(u)'
    <3>1. Settled(u)
      BY DEF NothingLentWhileRunning, Settled
    <3>2. CASE u = t
      BY <2>1, <3>1, <3>2, TakeKeepsOwnership DEF Settled
    <3>3. CASE u # t
      BY <2>1, <3>1, <3>3, TakeKeepsOwnership DEF Settled
    <3> QED BY <3>2, <3>3
  <2> QED BY <2>2, <2>3 DEF NothingLentWhileRunning, Settled
<1>2. CASE LockBusy(t, o)
  <2>1. TypeOK'
    BY <1>2 DEF LockBusy, TypeOK, priority
  <2>2. OwnershipConsistent'
    BY <1>2 DEF LockBusy, OwnershipConsistent
  <2>3. NothingLentWhileRunning'
    BY <1>2 DEF LockBusy, NothingLentWhileRunning, Settled, TypeOK, OwnershipConsistent, CanTake
  <2> QED BY <2>1, <2>2, <2>3
<1> QED BY <1>1, <1>2

(***************************************************************************)
(* Every step keeps the inductive invariant.                               *)
(***************************************************************************)
LEMMA NextIInv == IInv /\ [Next]_vars => IInv'
<1> SUFFICES ASSUME IInv, [Next]_vars PROVE IInv'
  OBVIOUS
<1> USE DEF IInv
<1>1. ASSUME NEW t \in Thread, NEW o \in Object, Lock(t, o) PROVE IInv'
  <2>1. relock[t] \ {o} = relock[t]
    BY <1>1 DEF Lock, Running
  <2> QED BY <1>1, <2>1, LockKeepsIInv DEF Lock, Running, TypeOK
<1>2. ASSUME NEW t \in Thread, NEW o \in Object, Unlock(t, o) PROVE IInv'
  <2>1. TypeOK'
    BY <1>2 DEF Unlock, TypeOK, Lent, priority
  <2>2. OwnershipConsistent'
    BY <1>2, NoThreadAssumption DEF Unlock, TypeOK, Lent, OwnershipConsistent
  <2>3. NothingLentWhileRunning'
    BY <1>2 DEF Unlock, TypeOK, Lent, NothingLentWhileRunning, Settled
  <2> QED BY <2>1, <2>2, <2>3
<1>3. ASSUME NEW t \in Thread, WaitRound(t) PROVE IInv'
  <2> DEFINE S == {o \in busyObjects[t] : CanTake(t, o)}
  <2>1. /\ S \in SUBSET Object /\ S \subseteq busyObjects[t]
        /\ \A o \in S : CanTake(t, o)
        /\ Take(t, S)
        /\ UNCHANGED <<priority, relock>>
        /\ pc[t] = "wait"
    BY <1>3 DEF WaitRound, TypeOK
  <2>2. \/ /\ S = busyObjects[t]
           /\ isWaiting' = [isWaiting EXCEPT ![t] = FALSE]
           /\ pc' = [pc EXCEPT ![t] = "run"]
        \/ UNCHANGED <<isWaiting, pc>>
    BY <1>3 DEF WaitRound
  <2> HIDE DEF S
  <2>3. /\ TypeOK' /\ OwnershipConsistent'
        /\ busyObjects'[t] = busyObjects[t] \ S
        /\ lockedObjects'[t] = lockedObjects[t] \cup S
        /\ \A u \in Thread : busyObjects'[u] \cap lockedObjects'[u] = {}
        /\ \A u \in Thread \ {t} : ~isWaiting[u] => busyObjects'[u] = busyObjects[u]
        /\ \A u \in Thread \ {t} :
              busyObjects'[u] \cup lockedObjects'[u] = busyObjects[u] \cup lockedObjects[u]
    BY <2>1, <2>2, TakeKeepsOwnership DEF TypeOK, priority
  <2>4. ASSUME NEW u \in Thread PROVE Settled(u)'
    <3>1. Settled(u) /\ Settled(t)
      BY DEF NothingLentWhileRunning, Settled
    <3>2. CASE u = t
      <4>1. relock'[t] \cap (lockedObjects'[t] \cup busyObjects'[t]) = {}
        BY <2>1, <2>2, <2>3, <3>1 DEF Settled, TypeOK
      <4>2. /\ isWaiting'[t] <=> pc'[t] # "run"
            /\ ~isWaiting'[t] => busyObjects'[t] = {}
            /\ pc'[t] = "suspend" => relock'[t] = {}
        BY <2>1, <2>2, <2>3, <3>1 DEF Settled, TypeOK
      <4> QED BY <2>3, <3>2, <4>1, <4>2 DEF Settled
    <3>3. CASE u # t
      <4>1. isWaiting'[u] = isWaiting[u] /\ pc'[u] = pc[u] /\ relock'[u] = relock[u]
        BY <2>1, <2>2, <3>3 DEF TypeOK
      <4> QED BY <2>3, <3>1, <3>3, <4>1 DEF Settled
    <3> QED BY <3>2, <3>3
  <2> QED BY <2>3, <2>4 DEF NothingLentWhileRunning, Settled
<1>4. ASSUME NEW t \in Thread, Relock(t) PROVE IInv'
  <2>1. PICK o \in relock[t] :
          /\ LockGranted(t, o) \/ LockBusy(t, o)
          /\ relock' = [relock EXCEPT ![t] = @ \ {o}]
    BY <1>4 DEF Relock
  <2>2. o \in Object /\ pc[t] = "run" /\ UNCHANGED priority
    BY <1>4, <2>1 DEF Relock, TypeOK
  <2> QED BY <2>1, <2>2, LockKeepsIInv DEF TypeOK
<1>5. ASSUME NEW t \in Thread, UnlockAll(t) PROVE IInv'
  <2>1. TypeOK' /\ NothingLentWhileRunning'
    BY <1>5 DEF UnlockAll, TypeOK, NothingLentWhileRunning, Settled, priority
  <2>2. OwnershipConsistent'
    BY <1>5, NoThreadAssumption DEF UnlockAll, TypeOK, OwnershipConsistent
  <2> QED BY <2>1, <2>2
<1>6. ASSUME NEW t \in Thread, Suspend(t) PROVE IInv'
  BY <1>6 DEF Suspend, Running, TypeOK, OwnershipConsistent,
              NothingLentWhileRunning, Settled, ownership, priority
<1>7. ASSUME NEW t \in Thread, Resume(t) PROVE IInv'
  BY <1>7 DEF Resume, TypeOK, OwnershipConsistent, NothingLentWhileRunning, Settled, priority
<1>8. ASSUME NEW t \in Thread, NEW p \in Priorities, PushPriority(t, p) PROVE IInv'
  <2>1. threadPriority' \in [Thread -> Nat] /\ priorityStack' \in [Thread -> Seq(Nat)]
    BY <1>8, PriorityAssumption, StackTypes DEF PushPriority, TypeOK
  <2> QED BY <1>8, <2>1 DEF PushPriority, TypeOK, OwnershipConsistent,
                            NothingLentWhileRunning, Settled, ownership
<1>9. ASSUME NEW t \in Thread, PopPriority(t) PROVE IInv'
  <2>1. threadPriority' \in [Thread -> Nat] /\ priorityStack' \in [Thread -> Seq(Nat)]
    BY <1>9, StackTypes DEF PopPriority, TypeOK
  <2> QED BY <1>9, <2>1 DEF PopPriority, TypeOK, OwnershipConsistent,
                            NothingLentWhileRunning, Settled, ownership
<1>10. CASE UNCHANGED vars
  BY <1>10 DEF vars, TypeOK, OwnershipConsistent, NothingLentWhileRunning, Settled,
               ownership, priority
<1> QED BY <1>1, <1>2, <1>3, <1>4, <1>5, <1>6, <1>7, <1>8, <1>9, <1>10 DEF Next

(***************************************************************************)
(* The inductive invariant is an invariant of the object locks.            *)
(***************************************************************************)
THEOREM Invariance == Spec => []IInv
BY InitIInv, NextIInv, PTL DEF Spec

(***************************************************************************)
(* Types of the lock state (SyncObject, SyncManager).                      *)
(***************************************************************************)
THEOREM TypeCorrect == Spec => []TypeOK
BY Invariance, PTL DEF IInv

(***************************************************************************)
(* lockedObjects and curMngr always agree, so that the searches of Lock    *)
(* and Unlock in lockedObjects find what they erase.                       *)
(***************************************************************************)
THEOREM OwnersAgree == Spec => []OwnershipConsistent
BY Invariance, PTL DEF IInv

(***************************************************************************)
(* A thread that runs has nothing lent.                                    *)
(***************************************************************************)
THEOREM RunningOwnsAll == Spec => []NothingLentWhileRunning
BY Invariance, PTL DEF IInv

(***************************************************************************)
(* A thread that runs owns exclusively, as a state formula.                *)
(***************************************************************************)
LEMMA IInvExclusion == IInv => Exclusion
BY DEF IInv, TypeOK, OwnershipConsistent, NothingLentWhileRunning, Settled, Exclusion,
       Running, Claim

(***************************************************************************)
(* Mutual exclusion of the threads that run game code.                     *)
(***************************************************************************)
THEOREM MutualExclusion == Spec => []Exclusion
BY IInvExclusion, Invariance, PTL

(***************************************************************************)
(* A step of one thread that gives t the objects of S leaves the claims    *)
(* and the activity of the others alone.                                   *)
(***************************************************************************)
LEMMA OthersUnaffected ==
  ASSUME IInv, NEW t \in Thread, NEW S \in SUBSET Object, Take(t, S),
         \A o \in S : CanTake(t, o),
         NEW u \in Thread \ {t}, relock'[u] = relock[u], pc'[u] = pc[u]
  PROVE  Claim(u)' = Claim(u) /\ Running(u)' = Running(u)
BY TakeKeepsOwnership DEF Claim, Running

(***************************************************************************)
(* The refinement mapping: the variables of ObjectOwnership.               *)
(***************************************************************************)
claims  == [t \in Thread |-> Claim(t)]
running == [t \in Thread |-> Running(t)]

(***************************************************************************)
(* What a step of one thread may do to its claim is a step of the abstract *)
(* locks: keep it, add an object while running, or drop it while running.  *)
(***************************************************************************)
LEMMA AbstractStep ==
  ASSUME Exclusion', NEW t \in Thread,
         \A u \in Thread \ {t} : Claim(u)' = Claim(u) /\ Running(u)' = Running(u),
         \/ Claim(t)' = Claim(t)
         \/ Running(t) /\ \E o \in Object : Claim(t)' = Claim(t) \cup {o}
         \/ Running(t) /\ Running(t)' /\ Claim(t)' = {}
  PROVE  [Ownership!Next]_<<claims, running>>
<1>1. /\ claims' = [claims EXCEPT ![t] = Claim(t)']
      /\ running' = [running EXCEPT ![t] = Running(t)']
      /\ claims[t] = Claim(t) /\ running[t] = Running(t)
  BY DEF claims, running
<1>2. Running(t) \in BOOLEAN /\ Running(t)' \in BOOLEAN
  BY DEF Running
<1>3. ASSUME NEW D \in SUBSET Object, D \subseteq Claim(t)', Running(t)'
      PROVE  Ownership!Undisputed(t, D)
  BY <1>3 DEF Exclusion, Ownership!Undisputed
<1>4. CASE Claim(t)' = Claim(t)
  <2>1. claims' = claims
    BY <1>1, <1>4 DEF claims
  <2>2. CASE Running(t)' = Running(t)
    BY <1>1, <2>1, <2>2 DEF running
  <2>3. CASE Running(t) /\ ~Running(t)'
    <3>1. running' = [running EXCEPT ![t] = FALSE]
      BY <1>1, <1>2, <2>3
    <3>2. running[t]
      BY <1>1, <2>3
    <3>3. Ownership!Pause(t)
      BY <2>1, <3>1, <3>2 DEF Ownership!Pause, claims, running
    <3> QED BY <3>3 DEF Ownership!Next
  <2>4. CASE ~Running(t) /\ Running(t)'
    <3>1. Ownership!Undisputed(t, Claim(t))
      BY <1>4, <2>4 DEF Exclusion, Ownership!Undisputed
    <3>2. Ownership!Activate(t)
      BY <1>1, <2>1, <2>4, <3>1 DEF Ownership!Activate, claims, running
    <3> QED BY <3>2 DEF Ownership!Next
  <2> QED BY <1>2, <2>2, <2>3, <2>4
<1>5. ASSUME Running(t), NEW o \in Object, Claim(t)' = Claim(t) \cup {o}
      PROVE  [Ownership!Next]_<<claims, running>>
  <2>1. Running(t)' => Ownership!Undisputed(t, {o})
    BY <1>3, <1>5
  <2>2. Running(t)' => running' = running
    BY <1>1, <1>5 DEF running
  <2>3. Ownership!Request(t, o)
    BY <1>1, <1>2, <1>5, <2>1, <2>2 DEF Ownership!Request, claims, running
  <2> QED BY <2>3 DEF Ownership!Next
<1>6. CASE Running(t) /\ Running(t)' /\ Claim(t)' = {}
  <2>1. running' = running
    BY <1>1, <1>6 DEF running
  <2>2. Ownership!ReleaseAll(t)
    BY <1>1, <1>6, <2>1 DEF Ownership!ReleaseAll, claims, running
  <2> QED BY <2>2 DEF Ownership!Next
<1> QED BY <1>4, <1>5, <1>6

(***************************************************************************)
(* Every step of the locks is a step of ObjectOwnership or leaves its      *)
(* state alone.                                                            *)
(***************************************************************************)
LEMMA NextRefines ==
  ASSUME IInv, IInv', [Next]_vars
  PROVE  [Ownership!Next]_<<claims, running>>
<1> USE DEF IInv
<1>0. Exclusion'
  BY IInvExclusion, PTL
<1>1. ASSUME NEW t \in Thread, NEW o \in Object, LockGranted(t, o),
             pc[t] = "run",
             \A u \in Thread \ {t} : relock'[u] = relock[u]
      PROVE  /\ \A u \in Thread \ {t} : Claim(u)' = Claim(u) /\ Running(u)' = Running(u)
             /\ (lockedObjects[t] \cup busyObjects[t] \cup {o})
                  = lockedObjects'[t] \cup busyObjects'[t]
  <2>1. /\ Take(t, {o}) /\ CanTake(t, o) /\ UNCHANGED <<isWaiting, pc>>
    BY <1>1 DEF LockGranted
  <2>2. \A u \in Thread \ {t} : Claim(u)' = Claim(u) /\ Running(u)' = Running(u)
    BY <1>1, <2>1, OthersUnaffected
  <2>3. /\ busyObjects'[t] = busyObjects[t] \ {o}
        /\ lockedObjects'[t] = lockedObjects[t] \cup {o}
    BY <2>1, TakeKeepsOwnership
  <2> QED BY <2>2, <2>3
<1>2. ASSUME NEW t \in Thread, NEW o \in Object, LockBusy(t, o),
             \A u \in Thread \ {t} : relock'[u] = relock[u]
      PROVE  /\ \A u \in Thread \ {t} : Claim(u)' = Claim(u) /\ Running(u)' = Running(u)
             /\ (lockedObjects[t] \cup busyObjects[t] \cup {o})
                  = lockedObjects'[t] \cup busyObjects'[t]
  BY <1>2 DEF LockBusy, TypeOK, Claim, Running
<1>3. ASSUME NEW t \in Thread, NEW o \in Object, Lock(t, o)
      PROVE  [Ownership!Next]_<<claims, running>>
  <2>1. /\ Running(t) /\ pc[t] = "run" /\ UNCHANGED relock
        /\ LockGranted(t, o) \/ LockBusy(t, o)
    BY <1>3 DEF Lock, Running
  <2>2. /\ \A u \in Thread \ {t} : Claim(u)' = Claim(u) /\ Running(u)' = Running(u)
        /\ Claim(t)' = Claim(t) \cup {o}
    BY <1>1, <1>2, <2>1 DEF Claim
  <2> QED BY <1>0, <2>1, <2>2, AbstractStep
<1>4. ASSUME NEW t \in Thread, Relock(t)
      PROVE  [Ownership!Next]_<<claims, running>>
  <2>1. PICK o \in relock[t] :
          /\ LockGranted(t, o) \/ LockBusy(t, o)
          /\ relock' = [relock EXCEPT ![t] = @ \ {o}]
    BY <1>4 DEF Relock
  <2>2. /\ o \in Object /\ pc[t] = "run"
        /\ relock'[t] = relock[t] \ {o}
        /\ \A u \in Thread \ {t} : relock'[u] = relock[u]
    BY <1>4, <2>1 DEF Relock, TypeOK
  <2>3. /\ \A u \in Thread \ {t} : Claim(u)' = Claim(u) /\ Running(u)' = Running(u)
        /\ lockedObjects[t] \cup busyObjects[t] \cup {o}
             = lockedObjects'[t] \cup busyObjects'[t]
    BY <1>1, <1>2, <2>1, <2>2
  <2>4. Claim(t)' = Claim(t)
    BY <2>1, <2>2, <2>3 DEF Claim
  <2> QED BY <1>0, <2>3, <2>4, AbstractStep
<1>5. ASSUME NEW t \in Thread, WaitRound(t)
      PROVE  [Ownership!Next]_<<claims, running>>
  <2> DEFINE S == {o \in busyObjects[t] : CanTake(t, o)}
  <2>1. /\ S \in SUBSET Object /\ S \subseteq busyObjects[t]
        /\ \A o \in S : CanTake(t, o)
        /\ Take(t, S)
        /\ UNCHANGED relock
        /\ \A u \in Thread \ {t} : pc'[u] = pc[u]
    BY <1>5 DEF WaitRound, TypeOK
  <2> HIDE DEF S
  <2>2. \A u \in Thread \ {t} : Claim(u)' = Claim(u) /\ Running(u)' = Running(u)
    BY <2>1, OthersUnaffected
  <2>3. Claim(t)' = Claim(t)
    <3>1. /\ busyObjects'[t] = busyObjects[t] \ S
          /\ lockedObjects'[t] = lockedObjects[t] \cup S
      BY <2>1, TakeKeepsOwnership
    <3> QED BY <2>1, <3>1 DEF Claim
  <2> QED BY <1>0, <2>2, <2>3, AbstractStep
<1>6. ASSUME NEW t \in Thread, UnlockAll(t)
      PROVE  [Ownership!Next]_<<claims, running>>
  <2>1. \A u \in Thread \ {t} : Claim(u)' = Claim(u) /\ Running(u)' = Running(u)
    BY <1>6 DEF UnlockAll, TypeOK, Claim, Running
  <2>2. Running(t) /\ Running(t)' /\ Claim(t)' = {}
    BY <1>6 DEF UnlockAll, TypeOK, Claim, Running, NothingLentWhileRunning, Settled
  <2> QED BY <1>0, <2>1, <2>2, AbstractStep
<1>7. ASSUME NEW t \in Thread, Suspend(t) \/ Resume(t)
      PROVE  [Ownership!Next]_<<claims, running>>
  <2>1. \A u \in Thread \ {t} : Claim(u)' = Claim(u) /\ Running(u)' = Running(u)
    BY <1>7 DEF Suspend, Resume, TypeOK, Claim, Running, ownership
  <2>2. Claim(t)' = Claim(t)
    BY <1>7 DEF Suspend, Resume, TypeOK, Claim, ownership, NothingLentWhileRunning, Settled
  <2> QED BY <1>0, <2>1, <2>2, AbstractStep
<1>8. ASSUME UNCHANGED <<ownership, pc, relock>>
      PROVE  UNCHANGED <<claims, running>>
  BY <1>8 DEF ownership, claims, running, Claim, Running
<1>9. ASSUME NEW t \in Thread, NEW o \in Object, Unlock(t, o)
      PROVE  [Ownership!Next]_<<claims, running>>
  <2> DEFINE U == {u \in Thread : o \notin relock[u]}
  <2>1. \A u \in Thread : lockedObjects'[u] = lockedObjects[u] \ {o}
    BY <1>9 DEF Unlock, Lent, OwnershipConsistent, TypeOK
  <2>2. \A u \in Thread : Claim(u)' = IF u \in U THEN Claim(u) \ {o} ELSE Claim(u)
    <3>1. \A u \in Thread : busyObjects'[u] = busyObjects[u] \ {o} /\ relock'[u] = relock[u]
      BY <1>9 DEF Unlock
    <3>2. ASSUME NEW u \in Thread
          PROVE  Claim(u)' = (lockedObjects[u] \ {o}) \cup (busyObjects[u] \ {o}) \cup relock[u]
      BY <2>1, <3>1 DEF Claim
    <3> QED BY <3>2 DEF Claim
  <2>3. claims' = [u \in Thread |-> IF u \in U THEN claims[u] \ {o} ELSE claims[u]]
    BY <2>2 DEF claims
  <2>4. UNCHANGED running
    BY <1>9 DEF Unlock, running, Running
  <2>5. U \in SUBSET Thread
    OBVIOUS
  <2> HIDE DEF U
  <2>6. Ownership!Withdraw(o)
    BY <2>3, <2>4, <2>5 DEF Ownership!Withdraw, claims, running
  <2> QED BY <2>6 DEF Ownership!Next
<1>10. ASSUME NEW t \in Thread, NEW p \in Priorities, PushPriority(t, p)
       PROVE  UNCHANGED <<claims, running>>
  BY <1>8, <1>10 DEF PushPriority
<1>11. ASSUME NEW t \in Thread, PopPriority(t)
       PROVE  UNCHANGED <<claims, running>>
  BY <1>8, <1>11 DEF PopPriority
<1>12. CASE UNCHANGED vars
  BY <1>8, <1>12 DEF vars
<1> QED BY <1>3, <1>4, <1>5, <1>6, <1>7, <1>9, <1>10, <1>11, <1>12 DEF Next

(***************************************************************************)
(* The object locks implement ObjectOwnership: claims are kept until       *)
(* UnlockAll or the end of the object and never shared by two threads that *)
(* run.                                                                    *)
(***************************************************************************)
THEOREM Refinement == Spec => ImplementsOwnership
<1>1. Init => Ownership!Init
  BY DEF Init, Ownership!Init, Claim, Running
<1>2. IInv /\ IInv' /\ [Next]_vars => [Ownership!Next]_<<claims, running>>
  BY NextRefines
<1>3. IInv /\ IInv' /\ [Next]_vars
        => [Ownership!Next]_<<[t \in Thread |-> Claim(t)], [t \in Thread |-> Running(t)]>>
  BY <1>2 DEF claims, running
<1> QED BY <1>1, <1>3, Invariance, PTL DEF Spec, ImplementsOwnership, Ownership!Spec
=============================================================================
