--------------------------- MODULE MCClientSession ---------------------------
(***************************************************************************)
(* ClientSession with its Clients and its threads interchangeable.         *)
(***************************************************************************)
EXTENDS ClientSession, TLC

Symmetry == Permutations(Client) \cup Permutations(Thread)
=============================================================================
