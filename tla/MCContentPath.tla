---------------------------- MODULE MCContentPath ----------------------------
(***************************************************************************)
(* ContentPath for one ConfigMap: its yaml and one key under data/.  In    *)
(* MCContentPath.cfg the clock has room for both times to live, one after  *)
(* the other, and a request takes no time; the terms that latencies add to *)
(* BoundedStaleness are left to the theorem StalenessIsBounded.            *)
(* MCContentRace.cfg has requests that take time, over one file.           *)
(***************************************************************************)
EXTENDS ContentPath, TLC

CONSTANTS t1, t2, yaml, datakey

MCKey      == (yaml :> "yaml") @@ (datakey :> "data")
MCKeyOrder == <<"yaml", "data">>

Symmetry == Permutations(Threads)
=============================================================================
