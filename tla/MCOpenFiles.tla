----------------------------- MODULE MCOpenFiles -----------------------------
(***************************************************************************)
(* Small instances of OpenFiles: two descriptors, two blocks; one data     *)
(* file, one created file, or a yaml file and a created one.               *)
(***************************************************************************)
EXTENDS OpenFiles, TLC

CONSTANTS n1, n2, f1, f2

DataFileKind == [n \in Nodes |-> "dataFile"]
MixedKinds   == (n1 :> "yaml") @@ (n2 :> "created")
CreatedKind  == [n \in Nodes |-> "created"]

UpdateOnly == {{"update"}}
CreateOnly == {{"create"}}
OneVerb    == {{"update"}, {"create"}}

FdSymmetry == Permutations(Fds)
=============================================================================
