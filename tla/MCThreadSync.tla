---------------------------- MODULE MCThreadSync ----------------------------
(***************************************************************************)
(* Instances of ThreadSync for TLC.                                        *)
(*                                                                         *)
(* For liveness every thread makes at most MaxCalls calls of Lock, Unlock, *)
(* Suspend and PushPriority: a job ends, and with it what the thread holds.        *)
(***************************************************************************)
EXTENDS ThreadSync

CONSTANT MaxCalls   \* bound: calls a thread makes

VARIABLE budget     \* the calls a thread has still to make

JobInit == Init /\ budget = [t \in Thread |-> MaxCalls]

Call(t) ==
  /\ budget[t] > 0
  /\ budget' = [budget EXCEPT ![t] = @ - 1]
  /\ \/ \E o \in Object : Lock(t, o) \/ Unlock(t, o)
     \/ Suspend(t)
     \/ \E p \in Priorities : PushPriority(t, p)

(***************************************************************************)
(* The thread makes the next step of a call, or its job ends.              *)
(***************************************************************************)
Continue(t) ==
  /\ UNCHANGED budget
  /\ WaitRound(t) \/ Relock(t) \/ Resume(t) \/ UnlockAll(t) \/ PopPriority(t)

JobNext == \E t \in Thread : Call(t) \/ Continue(t)

(***************************************************************************)
(* Fairness: the operating system runs every thread, a suspended thread is *)
(* resumed, and a job ends with UnlockAll.                                 *)
(***************************************************************************)
JobSpec ==
  /\ JobInit
  /\ [][JobNext]_<<vars, budget>>
  /\ \A t \in Thread :
       /\ WF_<<vars, budget>>(UNCHANGED budget /\ WaitRound(t))
       /\ WF_<<vars, budget>>(UNCHANGED budget /\ Relock(t))
       /\ WF_<<vars, budget>>(UNCHANGED budget /\ Resume(t))
       /\ WF_<<vars, budget>>(UNCHANGED budget /\ UnlockAll(t))

(***************************************************************************)
(* When jobs end, every Lock and every Resume returns, whatever the        *)
(* priorities: neither deadlock nor endless stealing between threads that  *)
(* wait for each other's objects (the loop at ThreadSync.cpp:53).          *)
(***************************************************************************)
EveryCallReturns == \A t \in Thread : (pc[t] # "run" ~> Running(t))

(***************************************************************************)
(* Jobs end with all objects free.                                         *)
(***************************************************************************)
AllObjectsReturned == <>[](\A o \in Object : curMngr[o] = NoThread)
=============================================================================
