---------------------------- MODULE MCScriptExec ----------------------------
(***************************************************************************)
(* ScriptExec with two threads that execute scripts and a third one with a *)
(* single call, which may be to collect the garbage.                       *)
(***************************************************************************)
EXTENDS ScriptExec, TLC

CONSTANTS t1, t2, t3

Calls == t1 :> 3 @@ t2 :> 3 @@ t3 :> 1
=============================================================================
