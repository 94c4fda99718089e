------------------------------ MODULE InodeTable ------------------------------
(***************************************************************************)
(* internal/kubefs/inode.go: the table of inodes behind the mount.  Every  *)
(* method holds t.mu for its whole body, so each is one step here.         *)
(*                                                                         *)
(* An *Inode outlives its removal from the table for as long as some       *)
(* goroutine keeps the pointer, and an ID is allotted once, so a pointer   *)
(* and its ID are the same thing in the model: `node' is the heap of       *)
(* Inodes ever allotted, `inodes' the IDs the table still maps.            *)
(***************************************************************************)
EXTENDS Integers

CONSTANTS
    Names,      \* the names a directory entry can have
    MaxID       \* model bound: AddChild stops allotting IDs above it

ASSUME MaxIDAssumption == MaxID \in Nat

VARIABLES
    node,        \* heap: ID |-> Inode, for every ID allotted so far
    inodes,      \* domain of t.inodes
    childIndex,  \* t.childIndex: ID |-> (name |-> child ID), NoID = no entry
    nextID       \* t.nextID

tableVars == <<node, inodes, childIndex, nextID>>

NoID        == 0
RootInodeID == 1
RootName    == ""

NodeType == {"root", "namespace", "resourceType", "object",
             "file", "dataDir", "dataFile"}

IsDir(type) == type \notin {"file", "dataFile"}

\* The types of the children fs.go adds below a directory of a type.
ChildTypes(type) ==
    CASE type = "root"         -> {"namespace"}
      [] type = "namespace"    -> {"resourceType"}
      [] type = "resourceType" -> {"object", "file"}
      [] type = "object"       -> {"file", "dataDir"}
      [] type = "dataDir"      -> {"dataFile"}
      [] OTHER                 -> {}

ID == 1..(nextID - 1)

Inode == [name : Names, type : NodeType \ {"root"}, parent : Nat \ {0}]

NewInode(p, n, type) == [name |-> n, type |-> type, parent |-> p]

EmptyDir == [n \in Names |-> NoID]

-----------------------------------------------------------------------------
\* Reads.

Children(p) == IF p \in DOMAIN childIndex THEN childIndex[p] ELSE EmptyDir

LookupChild(p, n) ==
    IF Children(p)[n] \in inodes THEN Children(p)[n] ELSE NoID

\* What removeSubtree visits from the IDs of S: the least set that contains
\* them and, with a directory, the children the index gives it.  (An entry
\* never leads to a dead ID: IndexConsistent.)
ClosedBelow(T) ==
    \A p \in T \cap DOMAIN childIndex, n \in Names :
        childIndex[p][n] # NoID => childIndex[p][n] \in T

SeededShallowSubtree(S) == S \cap inodes     \* fault: children are not visited

RemoveSubtree(S) ==
    LET Closed == {T \in SUBSET inodes : S \cap inodes \subseteq T /\ ClosedBelow(T)}
    IN  {x \in inodes : \A T \in Closed : x \in T}

-----------------------------------------------------------------------------
\* Methods that write.

\* fault: nextID stays
SeededReusedID(p, n, type) ==
    /\ Children(p)[n] = NoID /\ nextID <= MaxID
    /\ node' = [i \in 1..nextID |->
                  IF i = nextID THEN NewInode(p, n, type) ELSE node[i]]
    /\ UNCHANGED <<inodes, childIndex, nextID>>

\* fault: the existing child of that name is replaced
SeededReplacingAddChild(p, n, type) ==
    /\ nextID <= MaxID
    /\ node' = [i \in 1..nextID |->
                  IF i = nextID THEN NewInode(p, n, type) ELSE node[i]]
    /\ inodes' = inodes \cup {nextID}
    /\ childIndex' =
         [i \in DOMAIN childIndex \cup {p}
                  \cup (IF IsDir(type) THEN {nextID} ELSE {}) |->
            CASE i = nextID -> EmptyDir
              [] i = p      -> [Children(p) EXCEPT ![n] = nextID]
              [] OTHER      -> childIndex[i]]
    /\ nextID' = nextID + 1

\* t.childIndex[parentID] is created when it is missing, even for a parent
\* that is no longer in the table.
AddChild(p, n, type) ==
    IF Children(p)[n] # NoID
    THEN UNCHANGED tableVars
    ELSE /\ nextID <= MaxID
         /\ node' = [i \in 1..nextID |->
                       IF i = nextID THEN NewInode(p, n, type) ELSE node[i]]
         /\ inodes' = inodes \cup {nextID}
         /\ childIndex' =
              [i \in DOMAIN childIndex \cup {p}
                       \cup (IF IsDir(type) THEN {nextID} ELSE {}) |->
                 CASE i = nextID -> EmptyDir
                   [] i = p      -> [Children(p) EXCEPT ![n] = nextID]
                   [] OTHER      -> childIndex[i]]
         /\ nextID' = nextID + 1

\* fault: the entries of the removed children stay in their directory
SeededKeepingEntries(p, gone) ==
    LET doomed == {Children(p)[n] : n \in gone} \ {NoID}
        R      == RemoveSubtree(doomed)
    IN  /\ inodes' = inodes \ R
        /\ childIndex' = [i \in DOMAIN childIndex \ R |-> childIndex[i]]
        /\ UNCHANGED <<node, nextID>>

\* The common part of RemoveChild and RemoveChildren: the children of p whose
\* names are in `gone' go, each with its subtree.
RemoveNames(p, gone) ==
    LET doomed == {Children(p)[n] : n \in gone} \ {NoID}
        R      == RemoveSubtree(doomed)
    IN  /\ UNCHANGED <<node, nextID>>
        /\ inodes' = inodes \ R
        /\ childIndex' =
             [i \in DOMAIN childIndex \ R |->
                IF i = p
                THEN [n \in Names |-> IF n \in gone THEN NoID
                                                    ELSE childIndex[p][n]]
                ELSE childIndex[i]]

RemoveChild(p, n) == RemoveNames(p, {n})

RemoveChildren(p, keep) == RemoveNames(p, Names \ keep)

-----------------------------------------------------------------------------
\* The table on its own: callers hold pointers to any Inode ever allotted,
\* removed ones included, and call the methods in any order.

\* NewInodeTable
TableInit ==
    /\ node = <<[name |-> RootName, type |-> "root", parent |-> RootInodeID]>>
    /\ inodes = {RootInodeID}
    /\ childIndex = [i \in {RootInodeID} |-> EmptyDir]
    /\ nextID = RootInodeID + 1

TableNext ==
    \/ \E p \in ID, n \in Names : \E type \in ChildTypes(node[p].type) :
           AddChild(p, n, type)
    \/ \E p \in ID, n \in Names : RemoveChild(p, n)
    \/ \E p \in ID, keep \in SUBSET Names : RemoveChildren(p, keep)

TableSpec == TableInit /\ [][TableNext]_tableVars

-----------------------------------------------------------------------------
TableTypeOK ==
    /\ nextID \in Nat \ {0, 1}
    /\ node \in [ID -> Inode \cup {node[RootInodeID]}]
    /\ node[RootInodeID] = [name |-> RootName, type |-> "root", parent |-> RootInodeID]
    /\ \A i \in ID \ {RootInodeID} : node[i] \in Inode
    /\ inodes \subseteq ID
    /\ RootInodeID \in inodes
    /\ DOMAIN childIndex \subseteq ID
    /\ childIndex \in [DOMAIN childIndex -> [Names -> ID \cup {NoID}]]

\* An entry of a directory leads to a live inode that agrees on its name and
\* its parent, and was allotted after the directory: the two maps describe
\* one forest, and no inode is reached under two paths.
EntriesAgree ==
    \A p \in DOMAIN childIndex : \A n \in Names :
        LET c == childIndex[p][n]
        IN  c # NoID => /\ c \in inodes
                        /\ node[c].parent = p
                        /\ node[c].name = n
                        /\ c > p

\* Every live inode but the root is listed by the directory it was added to,
\* under its name.
LiveAreListed ==
    \A c \in inodes \ {RootInodeID} :
        /\ node[c].parent \in DOMAIN childIndex
        /\ childIndex[node[c].parent][node[c].name] = c

\* Live directories have an entry map, and only directories have one.
DirsAreIndexed ==
    /\ \A d \in inodes : IsDir(node[d].type) => d \in DOMAIN childIndex
    /\ \A d \in DOMAIN childIndex : IsDir(node[d].type)

\* t.inodes and t.childIndex, written separately by AddChild, RemoveChild,
\* RemoveChildren and removeSubtree, never disagree, whatever the order of
\* the calls and whether or not a caller's parent is still in the table.
IndexConsistent == EntriesAgree /\ LiveAreListed /\ DirsAreIndexed

\* An ID the kernel or an NFS client holds never comes to mean another inode:
\* its Inode does not change, it does not return after a removal, and a name
\* that stays in its directory keeps its inode (FUSE's stable Ino, NFS fileid).
InodeIdentity ==
    [][/\ \A i \in ID : node'[i] = node[i]
       /\ \A i \in ID : i \in inodes' => i \in inodes
       /\ \A p \in DOMAIN childIndex \cap DOMAIN childIndex', n \in Names :
            (childIndex[p][n] # NoID /\ childIndex'[p][n] # NoID)
                => childIndex'[p][n] = childIndex[p][n]]_tableVars

\* removeSubtree takes the whole subtree: no removal turns an inode whose
\* parent was live into one whose parent is gone.
RemovalTakesSubtree ==
    [][\A c \in inodes \cap inodes' :
          node[c].parent \in inodes => node[c].parent \in inodes']_tableVars
=============================================================================
