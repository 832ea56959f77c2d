--------------------------- MODULE ObjectOwnership ---------------------------
(***************************************************************************)
(* What SyncObject and SyncManager promise to the code that uses them,     *)
(* without priorities, lists or rounds: a thread claims objects one by     *)
(* one, keeps every claim until it releases all of them, and while it is   *)
(* active no other active thread claims any of its objects.  A thread that *)
(* claims a busy object, or pauses, stops being active, and becomes active *)
(* again only when all its claims are its own.                             *)
(***************************************************************************)
CONSTANTS Thread, Object

VARIABLES claim,   \* what each thread counts on
          active   \* the threads that execute game code

TypeOK == claim \in [Thread -> SUBSET Object] /\ active \in [Thread -> BOOLEAN]

Init == claim = [t \in Thread |-> {}] /\ active = [t \in Thread |-> TRUE]

(***************************************************************************)
(* No active thread but t claims an object of S.                           *)
(***************************************************************************)
Undisputed(t, S) ==
  \A u \in Thread \ {t} : active[u] => claim[u] \cap S = {}

Request(t, o) ==
  /\ active[t]
  /\ claim' = [claim EXCEPT ![t] = @ \cup {o}]
  /\ \/ Undisputed(t, {o}) /\ UNCHANGED active
     \/ active' = [active EXCEPT ![t] = FALSE]

Pause(t) ==
  /\ active[t]
  /\ active' = [active EXCEPT ![t] = FALSE]
  /\ UNCHANGED claim

Activate(t) ==
  /\ ~active[t]
  /\ Undisputed(t, claim[t])
  /\ active' = [active EXCEPT ![t] = TRUE]
  /\ UNCHANGED claim

ReleaseAll(t) ==
  /\ active[t]
  /\ claim' = [claim EXCEPT ![t] = {}]
  /\ UNCHANGED active

(***************************************************************************)
(* The object is destroyed: some threads, whatever they do, no longer      *)
(* count on it.                                                            *)
(***************************************************************************)
Withdraw(o) ==
  /\ \E U \in SUBSET Thread :
       claim' = [u \in Thread |-> IF u \in U THEN claim[u] \ {o} ELSE claim[u]]
  /\ UNCHANGED active

Next ==
  \/ \E o \in Object : Withdraw(o)
  \/ \E t \in Thread :
       \/ \E o \in Object : Request(t, o)
       \/ Pause(t) \/ Activate(t) \/ ReleaseAll(t)

Spec == Init /\ [][Next]_<<claim, active>>

(***************************************************************************)
(* Active threads never claim the same object.                             *)
(***************************************************************************)
Exclusive ==
  \A t, u \in Thread :
    t # u /\ active[t] /\ active[u] => claim[t] \cap claim[u] = {}
=============================================================================
