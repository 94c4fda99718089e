------------------------------- MODULE MCBillyFS -------------------------------
(***************************************************************************)
(* A small instance of BillyFS: two requests at a time, on a data file and *)
(* on a created one, with every verb enabled or with none.                 *)
(***************************************************************************)
EXTENDS BillyFS, TLC

CONSTANTS n1, n2, r1, r2

MCKind   == (n1 :> "dataFile") @@ (n2 :> "created")
MCVerbs  == {{"create", "update", "delete"}, {}}
Symmetry == Permutations(Fds)
=============================================================================
