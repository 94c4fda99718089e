-------------------------- MODULE InodeTable_proofs --------------------------
(***************************************************************************)
(* The inode table for any set of names and any number of inodes: the type *)
(* invariant, the agreement of t.inodes with t.childIndex, the identity of *)
(* inodes, and that a removal takes the whole subtree.                     *)
(*                                                                         *)
(* The inductive invariant is TableTypeOK /\ IndexConsistent.  The heart   *)
(* is RemoveSubtreeFacts: the set removeSubtree visits is closed under the *)
(* index, so nothing below a removed directory stays; it is the least such *)
(* set, so nothing else goes; and the root is not in it, because an entry  *)
(* leads to an ID allotted later than the directory's.                     *)
(***************************************************************************)
EXTENDS InodeTable, TLAPS

TableInv == TableTypeOK /\ IndexConsistent

-----------------------------------------------------------------------------
\* IDs are positive, and the root's is the least: no entry leads to it.
LEMMA IDFacts ==
    ASSUME TableTypeOK
    PROVE  /\ nextID \in Nat /\ nextID > 1
           /\ ID \subseteq Nat /\ RootInodeID \in ID
           /\ \A p \in ID : p >= RootInodeID /\ p # NoID /\ p < nextID
<1>1. nextID \in Nat /\ nextID # 0 /\ nextID # 1
  BY DEF TableTypeOK
<1> QED
  BY <1>1 DEF ID, RootInodeID, NoID

LEMMA EntryFacts ==
    ASSUME TableInv, NEW p \in DOMAIN childIndex, NEW n \in Names,
           childIndex[p][n] # NoID
    PROVE  LET c == childIndex[p][n]
           IN  /\ c \in inodes /\ c # RootInodeID /\ c \in ID /\ c > p /\ p \in ID
               /\ node[c].parent = p /\ node[c].name = n
<1> DEFINE c == childIndex[p][n]
<1>1. c \in inodes /\ c > p /\ node[c].parent = p /\ node[c].name = n
  BY DEF TableInv, IndexConsistent, EntriesAgree
<1>2. p \in ID /\ c \in ID
  BY <1>1 DEF TableInv, TableTypeOK
<1>3. c # RootInodeID
  <2> HIDE DEF c
  <2>1. p \in Nat /\ c \in Nat /\ p >= RootInodeID
    BY <1>2, IDFacts DEF TableInv
  <2> QED
    BY <1>1, <2>1 DEF RootInodeID
<1> QED
  BY <1>1, <1>2, <1>3

\* What removeSubtree visits below live inodes other than the root.
LEMMA RemoveSubtreeFacts ==
    ASSUME TableInv, NEW S \in SUBSET inodes, RootInodeID \notin S
    PROVE  LET R == RemoveSubtree(S)
           IN  /\ S \subseteq R /\ R \subseteq inodes
               /\ ClosedBelow(R)
               /\ RootInodeID \notin R
               /\ \A x \in R : x \in S \/ node[x].parent \in R
<1> DEFINE R == RemoveSubtree(S)
<1>1. \A x \in inodes : x \in R <=>
          \A T \in SUBSET inodes : S \subseteq T /\ ClosedBelow(T) => x \in T
  BY DEF RemoveSubtree
<1>2. R \subseteq inodes
  BY DEF RemoveSubtree
<1>3. S \subseteq R
  BY <1>1
<1>4. ASSUME NEW p \in DOMAIN childIndex, NEW n \in Names,
             childIndex[p][n] # NoID
      PROVE  /\ childIndex[p][n] \in inodes
             /\ childIndex[p][n] # RootInodeID
             /\ node[childIndex[p][n]].parent = p
  BY <1>4, EntryFacts
<1>5. ClosedBelow(R)
  <2> SUFFICES ASSUME NEW p \in R \cap DOMAIN childIndex, NEW n \in Names,
                      childIndex[p][n] # NoID
               PROVE  childIndex[p][n] \in R
    BY DEF ClosedBelow
  <2>1. childIndex[p][n] \in inodes
    BY <1>4
  <2>2. ASSUME NEW T \in SUBSET inodes, S \subseteq T, ClosedBelow(T)
        PROVE  childIndex[p][n] \in T
    <3>1. p \in T
      BY <1>1, <1>2, <2>2
    <3> QED
      BY <3>1, <2>2 DEF ClosedBelow
  <2> QED
    BY <1>1, <2>1, <2>2
<1>6. RootInodeID \notin R
  <2> DEFINE T == inodes \ {RootInodeID}
  <2>1. ClosedBelow(T)
    BY <1>4 DEF ClosedBelow
  <2>2. S \subseteq T
    OBVIOUS
  <2> QED
    BY <1>1, <1>2, <2>1, <2>2
<1>7. \A x \in R : x \in S \/ node[x].parent \in R
  <2> DEFINE U == {x \in R : x \in S \/ node[x].parent \in R}
  <2>1. U \in SUBSET inodes /\ S \subseteq U
    BY <1>2, <1>3
  <2>2. ClosedBelow(U)
    BY <1>4, <1>5 DEF ClosedBelow
  <2> HIDE DEF R, U
  <2>3. R \subseteq U
    BY <1>1, <1>2, <2>1, <2>2
  <2> QED
    BY <2>3 DEF U
<1> QED
  BY <1>2, <1>3, <1>5, <1>6, <1>7

\* The inodes RemoveNames starts from are the ones its directory lists.
LEMMA DoomedAreListed ==
    ASSUME TableInv, NEW p \in ID, NEW gone \in SUBSET Names
    PROVE  LET doomed == {Children(p)[n] : n \in gone} \ {NoID}
           IN  /\ doomed \in SUBSET inodes
               /\ RootInodeID \notin doomed
               /\ \A c \in doomed : /\ p \in DOMAIN childIndex
                                    /\ node[c].parent = p
                                    /\ node[c].name \in gone
               /\ \A n \in gone : p \in DOMAIN childIndex /\ childIndex[p][n] # NoID
                                    => childIndex[p][n] \in doomed
<1> DEFINE doomed == {Children(p)[n] : n \in gone} \ {NoID}
<1>1. ASSUME NEW c \in doomed
      PROVE  /\ c \in inodes /\ c # RootInodeID
             /\ p \in DOMAIN childIndex
             /\ node[c].parent = p /\ node[c].name \in gone
  <2>1. PICK n \in gone : c = Children(p)[n] /\ c # NoID
    OBVIOUS
  <2>2. p \in DOMAIN childIndex /\ c = childIndex[p][n]
    BY <2>1 DEF Children, EmptyDir
  <2> QED
    BY <2>1, <2>2, EntryFacts
<1>2. ASSUME NEW n \in gone, p \in DOMAIN childIndex, childIndex[p][n] # NoID
      PROVE  childIndex[p][n] \in doomed
  BY <1>2 DEF Children
<1> QED
  BY <1>1, <1>2

-----------------------------------------------------------------------------
\* The type of the table.

LEMMA ChildTypesAreTypes ==
    ASSUME NEW type \in NodeType
    PROVE  /\ ChildTypes(type) \subseteq NodeType \ {"root"}
           /\ ChildTypes(type) # {} => IsDir(type)
BY DEF ChildTypes, NodeType, IsDir

LEMMA NodeTypes ==
    ASSUME TableTypeOK, NEW i \in ID
    PROVE  node[i].type \in NodeType
<1>1. CASE i = RootInodeID
  <2>1. node[i] = [name |-> RootName, type |-> "root", parent |-> RootInodeID]
    BY <1>1 DEF TableTypeOK
  <2>2. node[i].type = "root"
    BY <2>1
  <2> QED
    BY <2>2 DEF NodeType
<1>2. CASE i # RootInodeID
  <2>1. node[i] \in Inode
    BY <1>2 DEF TableTypeOK
  <2> QED
    BY <2>1 DEF Inode
<1> QED
  BY <1>1, <1>2

\* AddChild when it allots an ID.
Allots(p, n, type) == Children(p)[n] = NoID /\ AddChild(p, n, type)

LEMMA AllotsFacts ==
    ASSUME TableTypeOK, NEW p \in ID, NEW n \in Names,
           NEW type \in NodeType \ {"root"}, Allots(p, n, type)
    PROVE  /\ nextID' = nextID + 1 /\ nextID' \in Nat \ {0, 1}
           /\ ID' = ID \cup {nextID} /\ nextID \notin ID /\ nextID # NoID
           /\ nextID > p /\ p # nextID /\ RootInodeID # nextID
           /\ DOMAIN node' = ID' /\ inodes' = inodes \cup {nextID}
           /\ \A i \in ID : node'[i] = node[i]
           /\ node'[nextID] = NewInode(p, n, type)
           /\ DOMAIN childIndex' = DOMAIN childIndex \cup {p}
                                      \cup (IF IsDir(type) THEN {nextID} ELSE {})
           /\ IsDir(type) => childIndex'[nextID] = EmptyDir
           /\ childIndex'[p] = [Children(p) EXCEPT ![n] = nextID]
           /\ \A i \in DOMAIN childIndex \ {p} : childIndex'[i] = childIndex[i]
<1>1. /\ nextID' = nextID + 1
      /\ inodes' = inodes \cup {nextID}
      /\ node' = [i \in 1..nextID |->
                    IF i = nextID THEN NewInode(p, n, type) ELSE node[i]]
      /\ childIndex' =
           [i \in DOMAIN childIndex \cup {p}
                    \cup (IF IsDir(type) THEN {nextID} ELSE {}) |->
              CASE i = nextID -> EmptyDir
                [] i = p      -> [Children(p) EXCEPT ![n] = nextID]
                [] OTHER      -> childIndex[i]]
  BY DEF Allots, AddChild
<1>2. nextID \in Nat /\ nextID > 1 /\ p \in Nat /\ p < nextID
  BY IDFacts
<1>3. /\ nextID' \in Nat \ {0, 1} /\ ID' = ID \cup {nextID} /\ nextID \notin ID
      /\ ID' = 1..nextID /\ nextID # NoID /\ nextID > p /\ p # nextID
      /\ RootInodeID # nextID
  BY <1>1, <1>2 DEF ID, RootInodeID, NoID
<1>4. DOMAIN childIndex \subseteq ID
  BY DEF TableTypeOK
<1>5. nextID \in 1..nextID /\ ID \subseteq 1..nextID
  BY <1>3
<1>6. \A i \in ID : i # nextID
  BY <1>3
<1>7. /\ DOMAIN node' = ID' /\ \A i \in ID : node'[i] = node[i]
      /\ node'[nextID] = NewInode(p, n, type)
  BY <1>1, <1>3, <1>5, <1>6
<1>8. /\ DOMAIN childIndex' = DOMAIN childIndex \cup {p}
                                 \cup (IF IsDir(type) THEN {nextID} ELSE {})
      /\ IsDir(type) => childIndex'[nextID] = EmptyDir
      /\ childIndex'[p] = [Children(p) EXCEPT ![n] = nextID]
      /\ \A i \in DOMAIN childIndex \ {p} : childIndex'[i] = childIndex[i]
  BY <1>1, <1>3, <1>4, <1>6
<1> QED
  BY <1>1, <1>3, <1>7, <1>8

LEMMA ChildrenType ==
    ASSUME TableTypeOK, NEW p
    PROVE  Children(p) \in [Names -> ID \cup {NoID}]
BY DEF TableTypeOK, Children, EmptyDir

LEMMA AllotsKeepsType ==
    ASSUME TableTypeOK, NEW p \in ID, NEW n \in Names,
           NEW type \in NodeType \ {"root"}, Allots(p, n, type)
    PROVE  TableTypeOK'
<1>1. /\ nextID' \in Nat \ {0, 1}
      /\ ID' = ID \cup {nextID} /\ nextID \notin ID /\ RootInodeID # nextID
      /\ inodes' = inodes \cup {nextID}
  BY AllotsFacts
<1>2. RootInodeID \in ID /\ p \in Nat \ {0}
  BY IDFacts DEF NoID
<1>3. /\ \A i \in ID : node'[i] = node[i]
      /\ node'[nextID] = NewInode(p, n, type)
  <2>1. \A i \in ID : node'[i] = node[i]
    BY AllotsFacts
  <2>2. nextID \in 1..nextID
    BY IDFacts
  <2>3. node' = [i \in 1..nextID |->
                   IF i = nextID THEN NewInode(p, n, type) ELSE node[i]]
    BY DEF Allots, AddChild
  <2>4. node'[nextID] = NewInode(p, n, type)
    BY <2>2, <2>3
  <2> QED
    BY <2>1, <2>4
<1>4. /\ inodes \subseteq ID /\ RootInodeID \in inodes /\ DOMAIN childIndex \subseteq ID
      /\ \A i \in ID \ {RootInodeID} : node[i] \in Inode
      /\ node[RootInodeID] = [name |-> RootName, type |-> "root", parent |-> RootInodeID]
  BY DEF TableTypeOK
<1>5. node'[RootInodeID] = [name |-> RootName, type |-> "root", parent |-> RootInodeID]
  BY <1>2, <1>3, <1>4
<1>6. \A i \in ID' \ {RootInodeID} : node'[i] \in Inode
  <2>1. NewInode(p, n, type) \in Inode
    BY <1>2 DEF NewInode, Inode
  <2> QED
    BY <2>1, <1>1, <1>3, <1>4
<1>7. node' \in [ID' -> Inode \cup {node'[RootInodeID]}]
  <2>1. ID' = 1..nextID
    BY IDFacts, <1>1, AllotsFacts DEF ID
  <2>2. node' = [i \in ID' |-> node'[i]]
    BY <2>1 DEF Allots, AddChild
  <2>3. \A i \in ID' : node'[i] \in Inode \cup {node'[RootInodeID]}
    BY <1>6
  <2> QED
    BY <2>2, <2>3
<1>8. /\ DOMAIN childIndex' = DOMAIN childIndex \cup {p}
                                 \cup (IF IsDir(type) THEN {nextID} ELSE {})
      /\ IsDir(type) => childIndex'[nextID] = EmptyDir
      /\ childIndex'[p] = [Children(p) EXCEPT ![n] = nextID]
      /\ \A i \in DOMAIN childIndex \ {p} : childIndex'[i] = childIndex[i]
  BY AllotsFacts
<1>9. inodes' \subseteq ID' /\ RootInodeID \in inodes' /\ DOMAIN childIndex' \subseteq ID'
  BY <1>1, <1>4, <1>8
<1>10. childIndex' \in [DOMAIN childIndex' -> [Names -> ID' \cup {NoID}]]
  <2>1. childIndex' = [i \in DOMAIN childIndex' |-> childIndex'[i]]
    BY DEF Allots, AddChild
  <2>2. EmptyDir \in [Names -> ID' \cup {NoID}]
    BY DEF EmptyDir
  <2>3. [Children(p) EXCEPT ![n] = nextID] \in [Names -> ID' \cup {NoID}]
    BY <1>1, ChildrenType
  <2>4. ASSUME NEW i \in DOMAIN childIndex \ {p}
        PROVE  childIndex[i] \in [Names -> ID' \cup {NoID}]
    <3>1. childIndex[i] \in [Names -> ID \cup {NoID}]
      BY DEF TableTypeOK
    <3> QED
      BY <3>1, <1>1
  <2>5. ASSUME NEW i \in DOMAIN childIndex'
        PROVE  childIndex'[i] \in [Names -> ID' \cup {NoID}]
    <3>1. CASE i \in DOMAIN childIndex \ {p}
      BY <3>1, <2>4, <1>8
    <3>2. CASE i = p
      BY <3>2, <2>3, <1>8
    <3>3. CASE i = nextID /\ IsDir(type)
      BY <3>3, <2>2, <1>8
    <3> QED
      BY <3>1, <3>2, <3>3, <1>8
  <2> QED
    BY <2>1, <2>5
<1> QED
  BY <1>1, <1>5, <1>6, <1>7, <1>9, <1>10 DEF TableTypeOK

-----------------------------------------------------------------------------
\* The index after AddChild.

LEMMA AllotsKeepsIndex ==
    ASSUME TableInv, NEW p \in ID, NEW n \in Names,
           NEW type \in ChildTypes(node[p].type), Allots(p, n, type)
    PROVE  IndexConsistent'
<1>1. TableTypeOK /\ EntriesAgree /\ LiveAreListed /\ DirsAreIndexed
  BY DEF TableInv, IndexConsistent
<1>2. type \in NodeType \ {"root"} /\ IsDir(node[p].type)
  BY <1>1, NodeTypes, ChildTypesAreTypes
<1>3. /\ nextID \notin ID /\ nextID # NoID /\ nextID > p /\ p # nextID
      /\ inodes' = inodes \cup {nextID} /\ RootInodeID # nextID
      /\ \A i \in ID : node'[i] = node[i]
  BY <1>1, <1>2, AllotsFacts
<1>4. /\ node'[nextID].parent = p /\ node'[nextID].name = n
      /\ node'[nextID].type = type
  <2>1. nextID \in 1..nextID
    BY <1>1, IDFacts
  <2>2. node' = [i \in 1..nextID |->
                   IF i = nextID THEN NewInode(p, n, type) ELSE node[i]]
    BY DEF Allots, AddChild
  <2>3. node'[nextID] = NewInode(p, n, type)
    BY <2>1, <2>2
  <2> QED
    BY <2>3 DEF NewInode
<1>5. /\ DOMAIN childIndex' = DOMAIN childIndex \cup {p}
                                 \cup (IF IsDir(type) THEN {nextID} ELSE {})
      /\ IsDir(type) => childIndex'[nextID] = EmptyDir
      /\ childIndex'[p] = [Children(p) EXCEPT ![n] = nextID]
      /\ \A i \in DOMAIN childIndex \ {p} : childIndex'[i] = childIndex[i]
  BY <1>1, <1>2, AllotsFacts
<1>6. inodes \subseteq ID /\ DOMAIN childIndex \subseteq ID
  BY <1>1 DEF TableTypeOK
<1>7. /\ \A m \in Names \ {n} : childIndex'[p][m] = Children(p)[m]
      /\ childIndex'[p][n] = nextID
  <2>1. Children(p) \in [Names -> ID \cup {NoID}]
    BY <1>1, ChildrenType
  <2> QED
    BY <2>1, <1>5
<1>8. ASSUME NEW m \in Names, Children(p)[m] # NoID
      PROVE  p \in DOMAIN childIndex /\ Children(p)[m] = childIndex[p][m]
  BY <1>8 DEF Children, EmptyDir
<1>9. ASSUME NEW q \in DOMAIN childIndex, NEW m \in Names, childIndex[q][m] # NoID
      PROVE  /\ childIndex[q][m] \in inodes' /\ childIndex[q][m] > q
             /\ node'[childIndex[q][m]].parent = q
             /\ node'[childIndex[q][m]].name = m
  <2>1. /\ childIndex[q][m] \in inodes /\ childIndex[q][m] > q
        /\ node[childIndex[q][m]].parent = q /\ node[childIndex[q][m]].name = m
    BY <1>9, <1>1 DEF EntriesAgree
  <2> QED
    BY <2>1, <1>3, <1>6
<1>10. EntriesAgree'
  <2> SUFFICES ASSUME NEW q \in DOMAIN childIndex', NEW m \in Names,
                      childIndex'[q][m] # NoID
               PROVE  /\ childIndex'[q][m] \in inodes' /\ childIndex'[q][m] > q
                      /\ node'[childIndex'[q][m]].parent = q
                      /\ node'[childIndex'[q][m]].name = m
    BY DEF EntriesAgree
  <2>1. CASE q = p /\ m = n
    <3>1. childIndex'[q][m] = nextID
      BY <2>1, <1>7
    <3> QED
      BY <3>1, <2>1, <1>3, <1>4
  <2>2. CASE q = p /\ m # n
    <3>1. childIndex'[q][m] = Children(p)[m]
      BY <2>2, <1>7
    <3>2. p \in DOMAIN childIndex /\ childIndex'[q][m] = childIndex[p][m]
      BY <3>1, <1>8
    <3> QED
      BY <3>2, <2>2, <1>9
  <2>3. CASE q \in DOMAIN childIndex \ {p}
    BY <2>3, <1>5, <1>9
  <2>4. CASE q = nextID /\ IsDir(type)
    BY <2>4, <1>5 DEF EmptyDir
  <2> QED
    BY <2>1, <2>2, <2>3, <2>4, <1>5
<1>11. LiveAreListed'
  <2> SUFFICES ASSUME NEW c \in inodes' \ {RootInodeID}
               PROVE  /\ node'[c].parent \in DOMAIN childIndex'
                      /\ childIndex'[node'[c].parent][node'[c].name] = c
    BY DEF LiveAreListed
  <2>1. CASE c = nextID
    BY <2>1, <1>4, <1>5, <1>7
  <2>2. CASE c \in inodes \ {RootInodeID}
    <3>1. /\ c \in ID /\ c # NoID /\ node'[c] = node[c] /\ node[c] \in Inode
      BY <2>2, <1>1, <1>3, <1>6, IDFacts DEF TableTypeOK
    <3>2. /\ node[c].parent \in DOMAIN childIndex /\ node[c].name \in Names
          /\ childIndex[node[c].parent][node[c].name] = c
      BY <3>1, <2>2, <1>1 DEF LiveAreListed, Inode
    <3>3. CASE node[c].parent = p
      <4>1. Children(p)[node[c].name] = c
        BY <3>2, <3>3 DEF Children
      <4>2. node[c].name # n
        BY <4>1, <3>1 DEF Allots
      <4> QED
        BY <4>1, <4>2, <3>1, <3>2, <3>3, <1>5, <1>7
    <3>4. CASE node[c].parent # p
      BY <3>1, <3>2, <3>4, <1>5
    <3> QED
      BY <3>3, <3>4
  <2> QED
    BY <2>1, <2>2, <1>3
<1>12. DirsAreIndexed'
  <2>1. ASSUME NEW d \in inodes', IsDir(node'[d].type)
        PROVE  d \in DOMAIN childIndex'
    <3>1. CASE d = nextID
      BY <3>1, <2>1, <1>4, <1>5
    <3>2. CASE d \in inodes
      BY <3>2, <2>1, <1>1, <1>3, <1>5, <1>6 DEF DirsAreIndexed
    <3> QED
      BY <3>1, <3>2, <1>3
  <2>2. ASSUME NEW d \in DOMAIN childIndex'
        PROVE  IsDir(node'[d].type)
    <3>1. CASE d = nextID /\ IsDir(type)
      BY <3>1, <1>4
    <3>2. CASE d = p
      BY <3>2, <1>2, <1>3
    <3>3. CASE d \in DOMAIN childIndex
      BY <3>3, <1>1, <1>3, <1>6 DEF DirsAreIndexed
    <3> QED
      BY <3>1, <3>2, <3>3, <1>5
  <2> QED
    BY <2>1, <2>2 DEF DirsAreIndexed, IsDir
<1> QED
  BY <1>10, <1>11, <1>12 DEF IndexConsistent

-----------------------------------------------------------------------------
\* RemoveNames takes a set R that is closed under the index and holds, besides
\* the listed children, only inodes whose parent it holds.
Removes(R, p, gone) ==
    /\ R \subseteq inodes /\ RootInodeID \notin R
    /\ \A q \in R \cap DOMAIN childIndex : \A m \in Names :
          childIndex[q][m] # NoID => childIndex[q][m] \in R
    /\ \A m \in gone : p \in DOMAIN childIndex /\ childIndex[p][m] # NoID
                          => childIndex[p][m] \in R
    /\ \A c \in R : node[c].parent \in R
                    \/ (node[c].parent = p /\ node[c].name \in gone)
    /\ inodes' = inodes \ R /\ node' = node /\ nextID' = nextID
    /\ DOMAIN childIndex' = DOMAIN childIndex \ R
    /\ \A q \in DOMAIN childIndex' \ {p} : childIndex'[q] = childIndex[q]
    /\ p \in DOMAIN childIndex' =>
          childIndex'[p] = [m \in Names |-> IF m \in gone THEN NoID
                                                        ELSE childIndex[p][m]]

LEMMA RemoveNamesFacts ==
    ASSUME TableInv, NEW p \in ID, NEW gone \in SUBSET Names,
           RemoveNames(p, gone)
    PROVE  \E R : /\ Removes(R, p, gone)
                  /\ childIndex' = [i \in DOMAIN childIndex' |-> childIndex'[i]]
<1> DEFINE doomed == {Children(p)[n] : n \in gone} \ {NoID}
           R      == RemoveSubtree(doomed)
<1>1. /\ doomed \in SUBSET inodes /\ RootInodeID \notin doomed
      /\ \A c \in doomed : node[c].parent = p /\ node[c].name \in gone
      /\ \A n \in gone : p \in DOMAIN childIndex /\ childIndex[p][n] # NoID
                            => childIndex[p][n] \in doomed
  BY DoomedAreListed
<1>2. /\ inodes' = inodes \ R /\ node' = node /\ nextID' = nextID
      /\ childIndex' =
             [i \in DOMAIN childIndex \ R |->
                IF i = p
                THEN [n \in Names |-> IF n \in gone THEN NoID
                                                    ELSE childIndex[p][n]]
                ELSE childIndex[i]]
  BY DEF RemoveNames
<1> HIDE DEF doomed
<1>3. /\ doomed \subseteq R /\ R \subseteq inodes /\ ClosedBelow(R)
      /\ RootInodeID \notin R
      /\ \A x \in R : x \in doomed \/ node[x].parent \in R
  BY <1>1, RemoveSubtreeFacts
<1> HIDE DEF R
<1>4. \A q \in R \cap DOMAIN childIndex : \A m \in Names :
          childIndex[q][m] # NoID => childIndex[q][m] \in R
  BY <1>3 DEF ClosedBelow
<1>5. \A m \in gone : p \in DOMAIN childIndex /\ childIndex[p][m] # NoID
                          => childIndex[p][m] \in R
  BY <1>1, <1>3
<1>6. \A c \in R : node[c].parent \in R
                  \/ (node[c].parent = p /\ node[c].name \in gone)
  BY <1>1, <1>3
<1>7. /\ DOMAIN childIndex' = DOMAIN childIndex \ R
      /\ \A q \in DOMAIN childIndex' \ {p} : childIndex'[q] = childIndex[q]
      /\ p \in DOMAIN childIndex' =>
            childIndex'[p] = [m \in Names |-> IF m \in gone THEN NoID
                                                          ELSE childIndex[p][m]]
      /\ childIndex' = [i \in DOMAIN childIndex' |-> childIndex'[i]]
  BY <1>2
<1>8. Removes(R, p, gone)
  BY <1>2, <1>3, <1>4, <1>5, <1>6, <1>7 DEF Removes
<1> QED
  BY <1>7, <1>8

LEMMA RemoveNamesKeepsType ==
    ASSUME TableInv, NEW p \in ID, NEW gone \in SUBSET Names,
           RemoveNames(p, gone)
    PROVE  TableTypeOK'
<1>1. PICK R : /\ Removes(R, p, gone)
               /\ childIndex' = [i \in DOMAIN childIndex' |-> childIndex'[i]]
  BY RemoveNamesFacts
<1>2. /\ inodes' = inodes \ R /\ RootInodeID \notin R
      /\ node' = node /\ nextID' = nextID
      /\ DOMAIN childIndex' = DOMAIN childIndex \ R
      /\ \A q \in DOMAIN childIndex' \ {p} : childIndex'[q] = childIndex[q]
      /\ p \in DOMAIN childIndex' =>
            childIndex'[p] = [m \in Names |-> IF m \in gone THEN NoID
                                                          ELSE childIndex[p][m]]
  BY <1>1 DEF Removes
<1>3. ID' = ID
  BY <1>2 DEF ID
<1>4. ASSUME NEW q \in DOMAIN childIndex'
      PROVE  childIndex'[q] \in [Names -> ID \cup {NoID}]
  <2>1. childIndex[q] \in [Names -> ID \cup {NoID}]
    BY <1>2 DEF TableInv, TableTypeOK
  <2> QED
    BY <2>1, <1>2
<1>5. childIndex' \in [DOMAIN childIndex' -> [Names -> ID \cup {NoID}]]
  BY <1>1, <1>4
<1>6. DOMAIN childIndex' \subseteq ID
  BY <1>2 DEF TableInv, TableTypeOK
<1>7. /\ nextID' \in Nat \ {0, 1}
      /\ node' \in [ID' -> Inode \cup {node'[RootInodeID]}]
      /\ node'[RootInodeID] =
            [name |-> RootName, type |-> "root", parent |-> RootInodeID]
      /\ \A i \in ID' \ {RootInodeID} : node'[i] \in Inode
      /\ inodes' \subseteq ID' /\ RootInodeID \in inodes'
  BY <1>2, <1>3 DEF TableInv, TableTypeOK
<1> QED
  BY <1>3, <1>5, <1>6, <1>7 DEF TableTypeOK

LEMMA RemoveNamesKeepsIndex ==
    ASSUME TableInv, NEW p \in ID, NEW gone \in SUBSET Names,
           RemoveNames(p, gone)
    PROVE  IndexConsistent'
<1>1. TableTypeOK /\ EntriesAgree /\ LiveAreListed /\ DirsAreIndexed
  BY DEF TableInv, IndexConsistent
<1>2. PICK R : Removes(R, p, gone)
  BY RemoveNamesFacts
<1>3. /\ inodes' = inodes \ R /\ node' = node
      /\ DOMAIN childIndex' = DOMAIN childIndex \ R
      /\ \A q \in DOMAIN childIndex' \ {p} : childIndex'[q] = childIndex[q]
      /\ p \in DOMAIN childIndex' =>
            childIndex'[p] = [m \in Names |-> IF m \in gone THEN NoID
                                                          ELSE childIndex[p][m]]
  BY <1>2 DEF Removes
<1>4. EntriesAgree'
  <2> SUFFICES ASSUME NEW q \in DOMAIN childIndex', NEW m \in Names,
                      childIndex'[q][m] # NoID
               PROVE  /\ childIndex'[q][m] \in inodes' /\ childIndex'[q][m] > q
                      /\ node'[childIndex'[q][m]].parent = q
                      /\ node'[childIndex'[q][m]].name = m
    BY DEF EntriesAgree
  <2>1. childIndex'[q][m] = childIndex[q][m] /\ ~(q = p /\ m \in gone)
    BY <1>3
  <2>2. /\ childIndex[q][m] \in inodes /\ childIndex[q][m] > q
        /\ node[childIndex[q][m]].parent = q /\ node[childIndex[q][m]].name = m
    BY <2>1, <1>1, <1>3 DEF EntriesAgree
  <2>3. childIndex[q][m] \notin R
    <3>1. q \notin R
      BY <1>3
    <3> QED
      BY <3>1, <2>1, <2>2, <1>2 DEF Removes
  <2> QED
    BY <2>1, <2>2, <2>3, <1>3
<1>5. LiveAreListed'
  <2> SUFFICES ASSUME NEW c \in inodes' \ {RootInodeID}
               PROVE  /\ node[c].parent \in DOMAIN childIndex'
                      /\ childIndex'[node[c].parent][node[c].name] = c
    BY <1>3 DEF LiveAreListed
  <2>1. /\ c \in inodes /\ c \notin R /\ c \in ID /\ c # NoID /\ node[c] \in Inode
    BY <1>1, <1>3, IDFacts DEF TableTypeOK
  <2>2. /\ node[c].parent \in DOMAIN childIndex /\ node[c].name \in Names
        /\ childIndex[node[c].parent][node[c].name] = c
    BY <2>1, <1>1 DEF LiveAreListed, Inode
  <2>3. node[c].parent \notin R
    BY <2>1, <2>2, <1>2 DEF Removes
  <2>4. ~(node[c].parent = p /\ node[c].name \in gone)
    BY <2>1, <2>2, <1>2 DEF Removes
  <2> QED
    BY <2>2, <2>3, <2>4, <1>3
<1>6. DirsAreIndexed'
  <2>1. \A d \in inodes' : IsDir(node'[d].type) => d \in DOMAIN childIndex'
    BY <1>1, <1>3 DEF DirsAreIndexed
  <2>2. \A d \in DOMAIN childIndex' : IsDir(node'[d].type)
    BY <1>1, <1>3 DEF DirsAreIndexed
  <2> QED
    BY <2>1, <2>2 DEF DirsAreIndexed, IsDir
<1> QED
  BY <1>4, <1>5, <1>6 DEF IndexConsistent

-----------------------------------------------------------------------------
\* Identity of inodes and the reach of a removal, for one step.

Identity ==
    /\ \A i \in ID : node'[i] = node[i]
    /\ \A i \in ID : i \in inodes' => i \in inodes
    /\ \A p \in DOMAIN childIndex \cap DOMAIN childIndex', n \in Names :
          (childIndex[p][n] # NoID /\ childIndex'[p][n] # NoID)
              => childIndex'[p][n] = childIndex[p][n]

TakesSubtree ==
    \A c \in inodes \cap inodes' :
        node[c].parent \in inodes => node[c].parent \in inodes'

LEMMA AllotsStep ==
    ASSUME TableInv, NEW p \in ID, NEW n \in Names,
           NEW type \in NodeType \ {"root"}, Allots(p, n, type)
    PROVE  Identity /\ TakesSubtree
<1>1. /\ nextID \notin ID /\ inodes' = inodes \cup {nextID}
      /\ \A i \in ID : node'[i] = node[i]
      /\ childIndex'[p] = [Children(p) EXCEPT ![n] = nextID]
      /\ \A i \in DOMAIN childIndex \ {p} : childIndex'[i] = childIndex[i]
  BY AllotsFacts DEF TableInv
<1>2. ASSUME NEW q \in DOMAIN childIndex, NEW m \in Names, childIndex[q][m] # NoID
      PROVE  childIndex'[q][m] = childIndex[q][m]
  <2>1. CASE q = p
    <3>1. Children(p) = childIndex[p] /\ m # n
      BY <1>2, <2>1 DEF Children, Allots
    <3>2. Children(p) \in [Names -> ID \cup {NoID}]
      BY ChildrenType DEF TableInv
    <3> QED
      BY <2>1, <3>1, <3>2, <1>1
  <2>2. CASE q # p
    BY <2>2, <1>1
  <2> QED
    BY <2>1, <2>2
<1> QED
  BY <1>1, <1>2 DEF Identity, TakesSubtree

LEMMA RemoveNamesStep ==
    ASSUME TableInv, NEW p \in ID, NEW gone \in SUBSET Names,
           RemoveNames(p, gone)
    PROVE  Identity /\ TakesSubtree
<1>1. PICK R : Removes(R, p, gone)
  BY RemoveNamesFacts
<1>2. /\ inodes' = inodes \ R /\ node' = node
      /\ DOMAIN childIndex' = DOMAIN childIndex \ R
      /\ \A q \in DOMAIN childIndex' \ {p} : childIndex'[q] = childIndex[q]
      /\ p \in DOMAIN childIndex' =>
            childIndex'[p] = [m \in Names |-> IF m \in gone THEN NoID
                                                          ELSE childIndex[p][m]]
  BY <1>1 DEF Removes
<1>3. Identity
  BY <1>2 DEF Identity
<1>4. TakesSubtree
  <2> SUFFICES ASSUME NEW c \in inodes \ R, node[c].parent \in R
               PROVE  FALSE
    BY <1>2 DEF TakesSubtree
  <2>1. /\ c # RootInodeID /\ c # NoID /\ node[c] \in Inode
    <3>1. c \in ID /\ c # NoID
      BY IDFacts DEF TableInv, TableTypeOK
    <3>2. c # RootInodeID
      <4>1. node[RootInodeID].parent = RootInodeID
        BY DEF TableInv, TableTypeOK
      <4> QED
        BY <4>1, <1>1 DEF Removes
    <3> QED
      BY <3>1, <3>2 DEF TableInv, TableTypeOK
  <2>2. /\ node[c].parent \in DOMAIN childIndex /\ node[c].name \in Names
        /\ childIndex[node[c].parent][node[c].name] = c
    BY <2>1 DEF TableInv, IndexConsistent, LiveAreListed, Inode
  <2> QED
    BY <2>1, <2>2, <1>1 DEF Removes
<1> QED
  BY <1>3, <1>4

LEMMA TableStep ==
    ASSUME TableInv, [TableNext]_tableVars
    PROVE  TableInv' /\ (tableVars' # tableVars => Identity /\ TakesSubtree)
<1>1. CASE UNCHANGED tableVars
  BY <1>1 DEF tableVars, TableInv, TableTypeOK, IndexConsistent, EntriesAgree,
              LiveAreListed, DirsAreIndexed, ID
<1>2. ASSUME NEW p \in ID, NEW n \in Names,
             NEW type \in ChildTypes(node[p].type), AddChild(p, n, type)
      PROVE  TableInv' /\ (tableVars' # tableVars => Identity /\ TakesSubtree)
  <2>1. CASE Children(p)[n] # NoID
    BY <1>1, <1>2, <2>1 DEF AddChild
  <2>2. CASE Children(p)[n] = NoID
    <3>1. Allots(p, n, type)
      BY <1>2, <2>2 DEF Allots
    <3>2. type \in NodeType \ {"root"}
      BY NodeTypes, ChildTypesAreTypes DEF TableInv
    <3>3. TableTypeOK'
      BY <3>1, <3>2, AllotsKeepsType DEF TableInv
    <3>4. IndexConsistent'
      BY <3>1, AllotsKeepsIndex
    <3>5. Identity /\ TakesSubtree
      BY <3>1, <3>2, AllotsStep
    <3> QED
      BY <3>3, <3>4, <3>5 DEF TableInv
  <2> QED
    BY <2>1, <2>2
<1>3. ASSUME NEW p \in ID, NEW gone \in SUBSET Names, RemoveNames(p, gone)
      PROVE  TableInv' /\ Identity /\ TakesSubtree
  <2>1. TableTypeOK'
    BY <1>3, RemoveNamesKeepsType
  <2>2. IndexConsistent'
    BY <1>3, RemoveNamesKeepsIndex
  <2>3. Identity /\ TakesSubtree
    BY <1>3, RemoveNamesStep
  <2> QED
    BY <2>1, <2>2, <2>3 DEF TableInv
<1>4. ASSUME NEW p \in ID, NEW n \in Names, RemoveChild(p, n)
      PROVE  TableInv' /\ Identity /\ TakesSubtree
  BY <1>3, <1>4 DEF RemoveChild
<1>5. ASSUME NEW p \in ID, NEW keep \in SUBSET Names, RemoveChildren(p, keep)
      PROVE  TableInv' /\ Identity /\ TakesSubtree
  BY <1>3, <1>5 DEF RemoveChildren
<1> QED
  BY <1>1, <1>2, <1>4, <1>5 DEF TableNext

LEMMA TableStart == TableInit => TableInv
<1> SUFFICES ASSUME TableInit PROVE TableInv
  OBVIOUS
<1>1. ID = {RootInodeID} /\ nextID = 2
  BY DEF TableInit, ID, RootInodeID
<1>2. /\ node = [i \in {1} |-> [name |-> RootName, type |-> "root",
                                parent |-> RootInodeID]]
      /\ node[RootInodeID] =
            [name |-> RootName, type |-> "root", parent |-> RootInodeID]
  BY DEF TableInit, RootInodeID
<1>3. TableTypeOK
  <2>1. node \in [ID -> Inode \cup {node[RootInodeID]}]
    BY <1>1, <1>2 DEF RootInodeID
  <2>2. childIndex \in [DOMAIN childIndex -> [Names -> ID \cup {NoID}]]
    BY DEF TableInit, EmptyDir
  <2> QED
    BY <1>1, <1>2, <2>1, <2>2 DEF TableInit, TableTypeOK
<1>4. IndexConsistent
  <2>1. EntriesAgree
    BY DEF TableInit, EntriesAgree, EmptyDir
  <2>2. LiveAreListed
    BY DEF TableInit, LiveAreListed
  <2>3. DirsAreIndexed
    <3>1. node[RootInodeID].type = "root"
      BY <1>2
    <3> QED
      BY <3>1 DEF TableInit, DirsAreIndexed, IsDir
  <2> QED
    BY <2>1, <2>2, <2>3 DEF IndexConsistent
<1> QED
  BY <1>3, <1>4 DEF TableInv

-----------------------------------------------------------------------------
LEMMA TableInvariance == TableSpec => []TableInv
<1>1. TableInv /\ [TableNext]_tableVars => TableInv'
  BY TableStep
<1> QED
  BY TableStart, <1>1, PTL DEF TableSpec

\* The maps of the table keep their shape (TableTypeOK): t.nextID is above
\* every ID allotted, and the index maps names of allotted directories to
\* allotted inodes, whatever methods are called.
THEOREM TableTypeCorrect == TableSpec => []TableTypeOK
<1>1. TableInv => TableTypeOK
  BY DEF TableInv
<1> QED
  BY TableInvariance, <1>1, PTL

\* t.inodes and t.childIndex describe one forest after every sequence of
\* AddChild, RemoveChild and RemoveChildren, on live and on removed parents.
THEOREM IndexStaysConsistent == TableSpec => []IndexConsistent
<1>1. TableInv => IndexConsistent
  BY DEF TableInv
<1> QED
  BY TableInvariance, <1>1, PTL

\* An ID never comes to mean another inode, and a name that stays in its
\* directory keeps its inode.
THEOREM InodesKeepIdentity == TableSpec => InodeIdentity
<1>1. TableInv /\ [TableNext]_tableVars => [Identity]_tableVars
  BY TableStep
<1>2. (TableSpec => [][Identity]_tableVars)
  BY TableInvariance, <1>1, PTL DEF TableSpec
<1> QED
  BY <1>2 DEF InodeIdentity, Identity

\* No removal leaves an inode behind whose directory it took.
THEOREM RemovalsTakeSubtrees == TableSpec => RemovalTakesSubtree
<1>1. TableInv /\ [TableNext]_tableVars => [TakesSubtree]_tableVars
  BY TableStep
<1>2. (TableSpec => [][TakesSubtree]_tableVars)
  BY TableInvariance, <1>1, PTL DEF TableSpec
<1> QED
  BY <1>2 DEF RemovalTakesSubtree, TakesSubtree
=============================================================================
