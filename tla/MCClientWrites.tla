---------------------------- MODULE MCClientWrites ----------------------------
(***************************************************************************)
(* ClientWrites for two open files, two objects and two keys.              *)
(***************************************************************************)
EXTENDS ClientWrites, TLC

CONSTANTS h1, h2, o1, o2, k1, k2

Symmetry == Permutations(Handles) \cup Permutations(Objs) \cup Permutations(Keys)
=============================================================================
