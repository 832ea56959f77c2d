----------------------------- MODULE CodeGuard -----------------------------
(***************************************************************************)
(* What the script engine counts on from MutexCode (Mutex.cpp): scripts    *)
(* are executed by any number of threads at once, the garbage collector    *)
(* runs when there are none, and nothing is executed while it runs.        *)
(***************************************************************************)
CONSTANT Thread

VARIABLES
  inside,     \* the threads between EnterCode and LeaveCode
  locked      \* the threads between LockCode and UnlockCode

vars == <<inside, locked>>

Init == inside = {} /\ locked = {}

EnterCode(t) ==
  /\ locked = {}
  /\ inside' = inside \cup {t}
  /\ UNCHANGED locked

LeaveCode(t) ==
  /\ t \in inside
  /\ inside' = inside \ {t}
  /\ UNCHANGED locked

LockCode(t) ==
  /\ inside = {} /\ locked = {}
  /\ locked' = {t}
  /\ UNCHANGED inside

UnlockCode(t) ==
  /\ t \in locked
  /\ locked' = {}
  /\ UNCHANGED inside

Next ==
  \E t \in Thread : EnterCode(t) \/ LeaveCode(t) \/ LockCode(t) \/ UnlockCode(t)

Spec == Init /\ [][Next]_vars
=============================================================================
