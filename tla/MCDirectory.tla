----------------------------- MODULE MCDirectory -----------------------------
(***************************************************************************)
(* Directory from the state a walk to one resource type directory leaves:  *)
(* namespace "n" (ID 2) with resource type "r" (ID 3), its object "a"      *)
(* (ID 4) and a file "x.yaml" (ID 5) that a create has left there.  The    *)
(* listing of "r" may still be cached, the others have expired, and an     *)
(* object called x.yaml may be there too, or may come.                     *)
(***************************************************************************)
EXTENDS Directory, TLC

CONSTANTS
    t1, t2,
    Listings    \* the objects that may be there at the start

MCUniverse ==
    (<<"namespaces">> :> {"n"}) @@ (<<"resources">> :> {"r"})
    @@ (<<"list", "n", "r">> :> {"a", "x.yaml"})
    @@ (<<"data", "n", "r", "a">> :> {"a"}) @@ (<<"data", "n", "r", "x.yaml">> :> {})

ObjectList == <<"list", "n", "r">>

MCThreads == {t1, t2}

Symmetry == Permutations(Threads)

WalkedInit ==
    /\ node = <<[name |-> RootName, type |-> "root", parent |-> 1],
                [name |-> "n", type |-> "namespace", parent |-> 1],
                [name |-> "r", type |-> "resourceType", parent |-> 2],
                [name |-> "a", type |-> "object", parent |-> 3],
                [name |-> "x.yaml", type |-> "file", parent |-> 3]>>
    /\ inodes = 1..5
    /\ childIndex = <<[EmptyDir EXCEPT !["n"] = 2], [EmptyDir EXCEPT !["r"] = 3],
                      [EmptyDir EXCEPT !["a"] = 4, !["x.yaml"] = 5], EmptyDir>>
    /\ nextID = 6
    /\ \E objects \in Listings :
          /\ cluster = [Universe EXCEPT ![ObjectList] = objects]
          /\ listCache \in {<<>>, ObjectList :> objects}
    /\ NoCallsYet

WalkedSpec == WalkedInit /\ [][DirNext]_vars
=============================================================================
