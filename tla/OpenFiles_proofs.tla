--------------------------- MODULE OpenFiles_proofs ---------------------------
(***************************************************************************)
(* OpenFiles for any files, verbs, descriptors, handles and writes: its    *)
(* type invariant, and what its handles never lose but to a write that     *)
(* came during a flush.                                                    *)
(*                                                                         *)
(* The inductive invariant follows a written block from the buffer to the  *)
(* API: a flush that reads finds each block it owes either in what it has  *)
(* read or at the same place in the slice (FlushInv); a block of a buffer  *)
(* that is neither saved, reported nor late is marked by `dirty', owed by  *)
(* every flush of its handle, and a descriptor is left to flush it         *)
(* (LateInv).                                                              *)
(***************************************************************************)
EXTENDS OpenFiles, SequenceTheorems, TLAPS

\* Contents of the first w writes.
Seqs(w) == Seq(Origin \cup (1..w))

FileType(w) ==
    [node : Nodes, buf : Seqs(w), dirty : BOOLEAN, pending : BOOLEAN,
     saved : Seqs(w), reported : SUBSET (1..w)]

FdType(w) ==
    [h : Nat, op : {"none", "close", "fsync"}, step : {"idle", "reading", "accepted"},
     shared : BOOLEAN, slice : Seqs(w), sent : Seqs(w), owed : SUBSET (1..w)]

FilesOK(files, w)  == \A h \in DOMAIN files : files[h] \in FileType(w)
FdsOK(d, w)        == d \in [Fds -> FdType(w)]
RefersOK(d, hs)    == \A f \in Fds : /\ d[f].h # 0 => d[f].h \in hs
                                     /\ d[f].step # "idle" => d[f].h # 0
HandlesOK(hs, nxt) == nxt \in Nat \ {0} /\ hs \subseteq 1..(nxt - 1)
ClusterOK(c, w)    == c \in [Nodes -> Seqs(w)]
CacheOK(c, w)      == /\ c = [n \in Nodes |-> c[n]]
                      /\ \A n \in Nodes : c[n] \in Seq(Seqs(w)) /\ Len(c[n]) <= 1

TypeInv ==
    /\ verbs \in VerbChoices
    /\ writes \in 0..MaxWrites
    /\ HandlesOK(OpenHandles, nextHandle)
    /\ FilesOK(openFiles, writes)
    /\ FdsOK(fd, writes) /\ RefersOK(fd, OpenHandles)
    /\ ClusterOK(cluster, writes) /\ CacheOK(contentCache, writes)
    /\ applied \subseteq 1..writes /\ late \subseteq 1..writes /\ lost \subseteq 1..writes

\* Nothing but what was applied is taken for the cluster's.
PrivateInv ==
    /\ UnsavedIsPrivate
    /\ \A n \in Nodes : WritesIn(cluster[n]) \subseteq applied
    /\ \A f \in Fds : fd[f].step = "accepted" => WritesIn(fd[f].sent) \subseteq applied

\* Flush d of a handle with buffer buf has each block it owes in what it has
\* read, or in what it will read.
Covers(d, buf) ==
    /\ Len(d.sent) <= Len(d.slice)
    /\ \A i \in DOMAIN buf : buf[i] \in d.owed =>
          /\ i \in DOMAIN d.slice
          /\ buf[i] = IF i <= Len(d.sent) THEN d.sent[i] ELSE d.slice[i]

FlushInv ==
    /\ \A f \in Fds : fd[f].step = "reading" => Covers(fd[f], openFiles[fd[f].h].buf)
    /\ FlushCoversOwed

\* Write b of handle h is only in its buffer, and must not be lost.
AtRisk(h, b) ==
    /\ b \in WritesIn(openFiles[h].buf)
    /\ b \notin late /\ b \notin applied /\ b \notin openFiles[h].reported

LateInv ==
    /\ \A h \in OpenHandles, b \in 1..writes : AtRisk(h, b) =>
          /\ openFiles[h].dirty
          /\ \E f \in Fds : fd[f].h = h
          /\ \A f \in Fds : fd[f].h = h /\ Busy(f) => b \in fd[f].owed
    /\ LostOnlyIfLate

IInv == TypeInv /\ DirtyIsAllowed /\ PrivateInv /\ FlushInv /\ LateInv
-----------------------------------------------------------------------------
\* What `append' and the slices of WriteHandle, Truncate and FlushHandle do to
\* a content.

\* A content of v writes is one of w, w no less.
LEMMA SeqsGrow ==
    ASSUME NEW v \in Nat, NEW w \in Nat, v <= w
    PROVE  Seqs(v) \subseteq Seqs(w)
<1>1. Origin \cup (1..v) \subseteq Origin \cup (1..w)
  OBVIOUS
<1> QED
  BY <1>1 DEF Seqs

\* The writes in a content of the first w are of the first w.
LEMMA WritesInRange ==
    ASSUME NEW w \in Nat, NEW buf \in Seqs(w)
    PROVE  WritesIn(buf) \subseteq 1..w
BY DEF Seqs, WritesIn, Blocks

\* What it is to be in a content.
LEMMA WritesInDef ==
    ASSUME NEW buf, NEW b
    PROVE  b \in WritesIn(buf) <=> b \notin Origin /\ \E i \in DOMAIN buf : buf[i] = b
BY DEF WritesIn, Blocks

\* A cut content is a prefix.
LEMMA CutProperties ==
    ASSUME NEW w \in Nat, NEW buf \in Seqs(w), NEW size \in Nat, size < Len(buf)
    PROVE  /\ SubSeq(buf, 1, size) \in Seqs(w)
           /\ \A i \in DOMAIN SubSeq(buf, 1, size) :
                 i \in DOMAIN buf /\ SubSeq(buf, 1, size)[i] = buf[i]
           /\ WritesIn(SubSeq(buf, 1, size)) \subseteq WritesIn(buf)
<1>1. /\ SubSeq(buf, 1, size) \in Seqs(w)
      /\ \A i \in DOMAIN SubSeq(buf, 1, size) :
            i \in DOMAIN buf /\ SubSeq(buf, 1, size)[i] = buf[i]
  BY DEF Seqs
<1> DEFINE cut == SubSeq(buf, 1, size)
<1> HIDE DEF cut
<1>2. WritesIn(cut) \subseteq WritesIn(buf)
  <2>1. \A i \in DOMAIN cut : i \in DOMAIN buf /\ cut[i] = buf[i]
    BY <1>1 DEF cut
  <2> QED
    BY <2>1 DEF WritesIn, Blocks
<1> QED
  BY <1>1, <1>2 DEF cut

\* A write leaves every other block where it is, and adds holes only.
LEMMA WrittenProperties ==
    ASSUME NEW w \in Nat, NEW buf \in Seqs(w), NEW off \in Nat, NEW b \in 1..w
    PROVE  /\ Written(buf, off, b) \in Seqs(w)
           /\ \A i \in DOMAIN Written(buf, off, b) :
                 \/ i = off + 1 /\ Written(buf, off, b)[i] = b
                 \/ i # off + 1 /\ i \in DOMAIN buf /\ Written(buf, off, b)[i] = buf[i]
                 \/ Written(buf, off, b)[i] = Hole
           /\ WritesIn(Written(buf, off, b)) \subseteq WritesIn(buf) \cup {b}
<1> DEFINE n == IF off + 1 > Len(buf) THEN off + 1 ELSE Len(buf)
           new(i) == CASE i = off + 1 -> b
                       [] i # off + 1 /\ i <= Len(buf) -> buf[i]
                       [] OTHER -> Hole
<1>1. n \in Nat /\ Written(buf, off, b) = [i \in 1..n |-> new(i)]
  BY DEF Written, Seqs
<1>2. \A i \in 1..n : \/ i = off + 1 /\ new(i) = b
                      \/ i # off + 1 /\ i \in DOMAIN buf /\ new(i) = buf[i]
                      \/ new(i) = Hole
  BY DEF Seqs
<1>3. \A i \in 1..n : new(i) \in Origin \cup (1..w)
  BY <1>2 DEF Seqs, Origin
<1> HIDE DEF n, new
<1>4. Written(buf, off, b) \in Seqs(w)
  BY <1>1, <1>3 DEF Seqs
<1>5. \A i \in DOMAIN Written(buf, off, b) :
          \/ i = off + 1 /\ Written(buf, off, b)[i] = b
          \/ i # off + 1 /\ i \in DOMAIN buf /\ Written(buf, off, b)[i] = buf[i]
          \/ Written(buf, off, b)[i] = Hole
  BY <1>1, <1>2
<1>6. WritesIn(Written(buf, off, b)) \subseteq WritesIn(buf) \cup {b}
  BY <1>5, WritesInDef DEF Origin
<1> QED
  BY <1>4, <1>5, <1>6

-----------------------------------------------------------------------------
\* What TypeInv says of one handle and of one descriptor.
LEMMA FileFacts ==
    ASSUME TypeInv, NEW h \in OpenHandles
    PROVE  /\ openFiles[h] \in FileType(writes)
           /\ writes \in Nat /\ h \in 1..(nextHandle - 1) /\ h # 0 /\ h # nextHandle
BY DEF TypeInv, FilesOK, HandlesOK, OpenHandles

\* The same of a descriptor.
LEMMA FdFacts ==
    ASSUME TypeInv, NEW f \in Fds
    PROVE  /\ fd[f] \in FdType(writes) /\ writes \in Nat
           /\ fd[f].h # 0 => fd[f].h \in OpenHandles
           /\ fd[f].h # nextHandle
           /\ fd[f].step # "idle" => fd[f].h # 0
BY DEF TypeInv, FdsOK, RefersOK, HandlesOK

\* A descriptor for handle h, with no flush under way.
LEMMA FreshFd ==
    ASSUME NEW h \in Nat, NEW w \in Nat
    PROVE  /\ [NoFd EXCEPT !.h = h] \in FdType(w)
           /\ [NoFd EXCEPT !.h = h].h = h
           /\ [NoFd EXCEPT !.h = h].step = "idle"
<1>1. <<>> \in Seqs(w)
  BY DEF Seqs
<1>2. FALSE \in BOOLEAN
  OBVIOUS
<1>3. {} \in SUBSET (1..w)
  OBVIOUS
<1> QED
  BY <1>1, <1>2, <1>3 DEF NoFd, FdType

-----------------------------------------------------------------------------
\* A new handle, with a content the API has served or with none: its writes
\* are all applied, so nothing in it is at risk.
LEMMA NewHandleKeeps ==
    ASSUME IInv, NEW f \in Fds, NEW n \in Nodes, NEW content \in Seqs(writes),
           NEW pending \in BOOLEAN, NewHandle(f, n, content, pending),
           WritesIn(content) \subseteq applied,
           CacheOK(contentCache', writes),
           \A m \in Nodes : \A i \in DOMAIN contentCache'[m] :
               WritesIn(contentCache'[m][i]) \subseteq applied
    PROVE  IInv'
<1> DEFINE new == NewOpenFile(n, content, pending)
           newFd == [NoFd EXCEPT !.h = nextHandle]
<1>0. TypeInv /\ writes \in Nat /\ nextHandle \in Nat \ {0} /\ nextHandle \notin OpenHandles
  BY DEF IInv, TypeInv, HandlesOK
<1>1. /\ OpenHandles' = OpenHandles \cup {nextHandle}
      /\ openFiles'[nextHandle] = new
      /\ \A h \in OpenHandles : openFiles'[h] = openFiles[h]
  BY <1>0 DEF NewHandle, Opened, OpenHandles
<1>2. /\ new \in FileType(writes) /\ new.buf = content /\ new.saved = content
      /\ new.dirty = FALSE /\ new.reported = {}
  <2>1. FALSE \in BOOLEAN /\ {} \in SUBSET (1..writes)
    OBVIOUS
  <2> QED
    BY <2>1 DEF NewOpenFile, FileType
<1>3. /\ newFd \in FdType(writes) /\ newFd.h = nextHandle /\ newFd.step = "idle"
  BY <1>0, FreshFd
<1> HIDE DEF new, newFd
<1>4. /\ fd' = [fd EXCEPT ![f] = newFd] /\ fd[f].h = 0
      /\ nextHandle' = nextHandle + 1
      /\ UNCHANGED <<verbs, cluster, writes, dups, history>>
  BY DEF NewHandle, Opened, newFd, Refers
<1>5. fd \in [Fds -> FdType(writes)]
  BY DEF IInv, TypeInv, FdsOK
<1>6. /\ fd' \in [Fds -> FdType(writes)]
      /\ fd'[f] = newFd
      /\ \A g \in Fds \ {f} : fd'[g] = fd[g]
  BY <1>3, <1>4, <1>5
<1>7. TypeInv'
  <2>1. HandlesOK(OpenHandles, nextHandle)'
    BY <1>0, <1>1, <1>4 DEF TypeInv, HandlesOK
  <2>2. FilesOK(openFiles, writes)'
    BY <1>0, <1>1, <1>2, <1>4 DEF TypeInv, FilesOK, OpenHandles
  <2>3. FdsOK(fd, writes)' /\ RefersOK(fd, OpenHandles)'
    BY <1>0, <1>1, <1>3, <1>4, <1>6 DEF TypeInv, FdsOK, RefersOK
  <2> QED
    BY <1>0, <1>4, <2>1, <2>2, <2>3 DEF TypeInv, ClusterOK, history
<1>8. DirtyIsAllowed'
  BY <1>1, <1>2, <1>4 DEF IInv, DirtyIsAllowed
<1>9. PrivateInv'
  BY <1>1, <1>2, <1>3, <1>4, <1>6 DEF IInv, PrivateInv, UnsavedIsPrivate, history
<1>10. FlushInv'
  BY <1>0, <1>1, <1>3, <1>4, <1>6, FdFacts DEF IInv, FlushInv, FlushCoversOwed, history
<1>11. LateInv'
  <2>1. ASSUME NEW h \in OpenHandles', NEW b \in 1..writes', AtRisk(h, b)'
        PROVE  h \in OpenHandles /\ AtRisk(h, b)
    BY <1>1, <1>2, <1>4, <2>1 DEF AtRisk, history
  <2>2. ASSUME NEW h \in OpenHandles', NEW b \in 1..writes', AtRisk(h, b)'
        PROVE  /\ openFiles'[h].dirty
               /\ \E g \in Fds : fd'[g].h = h
               /\ \A g \in Fds : fd'[g].h = h /\ Busy(g)' => b \in fd'[g].owed
    <3>1. h \in OpenHandles /\ AtRisk(h, b)
      BY <2>1, <2>2
    <3>2. h # 0 /\ h # nextHandle
      BY <1>0, <3>1, FileFacts
    <3>3. /\ openFiles[h].dirty
          /\ \E g \in Fds : fd[g].h = h
          /\ \A g \in Fds : fd[g].h = h /\ Busy(g) => b \in fd[g].owed
      BY <1>4, <3>1 DEF IInv, LateInv
    <3> QED
      BY <1>1, <1>3, <1>4, <1>6, <3>1, <3>2, <3>3 DEF Busy
  <2>3. LostOnlyIfLate'
    BY <1>4 DEF IInv, LateInv, LostOnlyIfLate, history
  <2> QED
    BY <2>2, <2>3 DEF LateInv
<1> QED
  BY <1>7, <1>8, <1>9, <1>10, <1>11 DEF IInv

\* A content that is cached.
LEMMA CachedOne ==
    ASSUME NEW w \in Nat, NEW c, CacheOK(c, w), NEW n \in Nodes, NEW content \in Seqs(w)
    PROVE  CacheOK([c EXCEPT ![n] = <<content>>], w)
<1> DEFINE one == <<content>>
           new == [c EXCEPT ![n] = one]
<1>1. one \in Seq(Seqs(w)) /\ Len(one) <= 1
  OBVIOUS
<1> HIDE DEF one
<1>2. c = [m \in Nodes |-> c[m]]
  BY DEF CacheOK
<1>3. new[n] = one /\ \A m \in Nodes \ {n} : new[m] = c[m]
  BY <1>2
<1>4. new = [m \in Nodes |-> new[m]]
  BY <1>2
<1> HIDE DEF new
<1>5. \A m \in Nodes : new[m] \in Seq(Seqs(w)) /\ Len(new[m]) <= 1
  BY <1>1, <1>3 DEF CacheOK
<1>6. CacheOK(new, w)
  BY <1>4, <1>5 DEF CacheOK
<1> QED
  BY <1>6 DEF new, one

\* OpenFile: a cached content, the API's answer or an error text, copied.
LEMMA OpenFileKeeps ==
    ASSUME IInv, NEW f \in Fds, NEW n \in Nodes, OpenFile(f, n)
    PROVE  IInv'
<1>0. /\ TypeInv /\ writes \in Nat
      /\ CacheOK(contentCache, writes) /\ ClusterOK(cluster, writes)
      /\ \A m \in Nodes : \A i \in DOMAIN contentCache[m] :
             WritesIn(contentCache[m][i]) \subseteq applied
      /\ \A m \in Nodes : WritesIn(cluster[m]) \subseteq applied
  BY DEF IInv, TypeInv, PrivateInv, UnsavedIsPrivate
<1>1. FALSE \in BOOLEAN
  OBVIOUS
<1>2. CASE /\ contentCache[n] # <<>>
           /\ NewHandle(f, n, contentCache[n][1], FALSE)
           /\ UNCHANGED contentCache
  <2>1. contentCache[n] \in Seq(Seqs(writes)) /\ 1 \in DOMAIN contentCache[n]
    BY <1>0, <1>2 DEF CacheOK
  <2>2. /\ contentCache[n][1] \in Seqs(writes)
        /\ WritesIn(contentCache[n][1]) \subseteq applied
    BY <1>0, <2>1
  <2> QED
    BY <1>0, <1>1, <1>2, <2>2, NewHandleKeeps
<1>3. ASSUME NEW content \in {<<ErrorText>>} \cup (IF CanFetch(n) THEN {cluster[n]} ELSE {}),
             contentCache[n] = <<>>,
             NewHandle(f, n, content, FALSE),
             contentCache' = [contentCache EXCEPT ![n] = <<content>>]
      PROVE  IInv'
  <2>1. content \in Seqs(writes) /\ WritesIn(content) \subseteq applied
    <3>1. CASE content = cluster[n]
      BY <1>0, <3>1 DEF ClusterOK
    <3>2. CASE content = <<ErrorText>>
      BY <3>2 DEF Seqs, Origin, WritesIn, Blocks
    <3> QED
      BY <1>3, <3>1, <3>2
  <2>2. CacheOK(contentCache', writes)
    BY <1>0, <1>3, <2>1, CachedOne
  <2>3. \A m \in Nodes : \A i \in DOMAIN contentCache'[m] :
            WritesIn(contentCache'[m][i]) \subseteq applied
    BY <1>0, <1>3, <2>1 DEF CacheOK
  <2> QED
    BY <1>1, <1>3, <2>1, <2>2, <2>3, NewHandleKeeps
<1> QED
  BY <1>2, <1>3 DEF OpenFile

\* CreateAndOpen: an empty content.
LEMMA CreateAndOpenKeeps ==
    ASSUME IInv, NEW f \in Fds, NEW n \in Nodes, CreateAndOpen(f, n)
    PROVE  IInv'
<1>1. /\ NewHandle(f, n, <<>>, TRUE)
      /\ CacheOK(contentCache', writes)
      /\ \A m \in Nodes : \A i \in DOMAIN contentCache'[m] :
             WritesIn(contentCache'[m][i]) \subseteq applied
  BY DEF CreateAndOpen, IInv, TypeInv, PrivateInv, UnsavedIsPrivate
<1>2. <<>> \in Seqs(writes) /\ WritesIn(<<>>) \subseteq applied /\ TRUE \in BOOLEAN
  BY DEF Seqs, WritesIn, Blocks
<1> QED
  BY <1>1, <1>2, NewHandleKeeps

\* One more descriptor for a handle puts nothing at risk.
LEMMA DupKeeps ==
    ASSUME IInv, NEW f \in Fds, NEW g \in Fds, Dup(f, g)
    PROVE  IInv'
<1> DEFINE newFd == [NoFd EXCEPT !.h = fd[f].h]
<1>0. TypeInv /\ writes \in Nat /\ fd \in [Fds -> FdType(writes)]
  BY DEF IInv, TypeInv, FdsOK
<1>1. fd[f].h \in Nat /\ fd[f].h \in OpenHandles
  BY <1>0, FdFacts DEF Dup, Refers, FdType
<1>2. newFd \in FdType(writes) /\ newFd.h = fd[f].h /\ newFd.step = "idle"
  BY <1>0, <1>1, FreshFd
<1>3. /\ fd' = [fd EXCEPT ![g] = newFd] /\ fd[g].h = 0
      /\ UNCHANGED <<verbs, nextHandle, openFiles, contentCache, cluster, writes, history>>
  BY DEF Dup, newFd, Refers
<1> HIDE DEF newFd
<1>4. /\ fd' \in [Fds -> FdType(writes)]
      /\ fd'[g] = newFd
      /\ \A e \in Fds \ {g} : fd'[e] = fd[e]
  BY <1>0, <1>2, <1>3
<1>5. TypeInv'
  BY <1>0, <1>1, <1>2, <1>3, <1>4 DEF TypeInv, OpenHandles, FdsOK, RefersOK, history
<1>6. DirtyIsAllowed'
  BY <1>3 DEF IInv, DirtyIsAllowed, OpenHandles
<1>7. PrivateInv'
  BY <1>2, <1>3, <1>4 DEF IInv, PrivateInv, UnsavedIsPrivate, OpenHandles, history
<1>8. FlushInv'
  BY <1>2, <1>3, <1>4 DEF IInv, FlushInv, FlushCoversOwed, history
<1>9. LateInv'
  <2>1. ASSUME NEW h \in OpenHandles', NEW b \in 1..writes', AtRisk(h, b)'
        PROVE  /\ openFiles'[h].dirty
               /\ \E e \in Fds : fd'[e].h = h
               /\ \A e \in Fds : fd'[e].h = h /\ Busy(e)' => b \in fd'[e].owed
    <3>1. h \in OpenHandles /\ b \in 1..writes /\ AtRisk(h, b)
      BY <1>3, <2>1 DEF AtRisk, OpenHandles, history
    <3>2. /\ openFiles[h].dirty
          /\ \E e \in Fds : fd[e].h = h
          /\ \A e \in Fds : fd[e].h = h /\ Busy(e) => b \in fd[e].owed
      BY <3>1 DEF IInv, LateInv
    <3>3. h # 0
      BY <1>0, <3>1, FileFacts
    <3> QED
      BY <1>2, <1>3, <1>4, <3>2, <3>3 DEF Busy
  <2>2. LostOnlyIfLate'
    BY <1>3 DEF IInv, LateInv, LostOnlyIfLate, history
  <2> QED
    BY <2>1, <2>2 DEF LateInv
<1> QED
  BY <1>5, <1>6, <1>7, <1>8, <1>9 DEF IInv

\* A refused write changes nothing.
LEMMA WriteRefusedKeeps ==
    ASSUME IInv, NEW f \in Fds, WriteRefused(f)
    PROVE  IInv'
BY DEF WriteRefused, IInv, TypeInv, DirtyIsAllowed, PrivateInv, UnsavedIsPrivate, FlushInv,
       FlushCoversOwed, LateInv, LostOnlyIfLate, AtRisk, Busy, OpenHandles

\* An expired content is out of the cache, and changes no handle.
LEMMA ExpireContentKeeps ==
    ASSUME IInv, NEW n \in Nodes, ExpireContent(n)
    PROVE  IInv'
<1>1. /\ CacheOK(contentCache, writes)
      /\ contentCache' = [contentCache EXCEPT ![n] = <<>>]
      /\ UNCHANGED <<verbs, nextHandle, openFiles, cluster, fd, writes, history>>
  BY DEF ExpireContent, IInv, TypeInv
<1>2. CacheOK(contentCache', writes')
  BY <1>1 DEF CacheOK, Seqs
<1>3. PrivateInv'
  BY <1>1 DEF IInv, PrivateInv, UnsavedIsPrivate, CacheOK, OpenHandles, history
<1> QED
  BY <1>1, <1>2, <1>3 DEF IInv, TypeInv, DirtyIsAllowed, FlushInv, FlushCoversOwed,
       LateInv, LostOnlyIfLate, AtRisk, Busy, OpenHandles, history

-----------------------------------------------------------------------------
\* A flush that reads one more block has it where it had it, or has read it.
LEMMA ReadBlockKeeps ==
    ASSUME IInv, NEW f \in Fds, ReadBlock(f)
    PROVE  IInv'
<1> DEFINE old == fd[f]
           sent == Append(old.sent, old.slice[Len(old.sent) + 1])
           new == [old EXCEPT !.sent = sent]
<1>0. TypeInv /\ writes \in Nat /\ fd \in [Fds -> FdType(writes)] /\ old \in FdType(writes)
  BY DEF IInv, TypeInv, FdsOK
<1>1. /\ old.step = "reading" /\ Len(old.sent) < Len(old.slice)
      /\ fd' = [fd EXCEPT ![f].sent = sent]
      /\ UNCHANGED <<verbs, nextHandle, openFiles, contentCache, cluster, writes, history>>
  BY DEF ReadBlock
<1>2. /\ sent \in Seqs(writes) /\ Len(sent) = Len(old.sent) + 1
      /\ \A i \in 1..Len(old.sent) : sent[i] = old.sent[i]
      /\ sent[Len(sent)] = old.slice[Len(sent)]
  <2>1. old.sent \in Seqs(writes) /\ old.slice \in Seqs(writes)
    BY <1>0 DEF FdType
  <2>2. Len(old.sent) + 1 \in DOMAIN old.slice
    BY <1>1, <2>1 DEF Seqs
  <2> QED
    BY <2>1, <2>2 DEF Seqs
<1>3. /\ new \in FdType(writes)
      /\ new.h = old.h /\ new.step = old.step /\ new.owed = old.owed
      /\ new.slice = old.slice /\ new.sent = sent
  BY <1>0, <1>2 DEF FdType
<1>4. /\ fd' \in [Fds -> FdType(writes)]
      /\ fd'[f] = new
      /\ \A g \in Fds \ {f} : fd'[g] = fd[g]
  BY <1>0, <1>1, <1>3
<1>5. TypeInv'
  BY <1>1, <1>3, <1>4 DEF IInv, TypeInv, FdsOK, RefersOK, OpenHandles, history
<1>6. DirtyIsAllowed'
  BY <1>1 DEF IInv, DirtyIsAllowed, OpenHandles
<1>7. PrivateInv'
  BY <1>1, <1>3, <1>4 DEF IInv, PrivateInv, UnsavedIsPrivate, OpenHandles, history
<1>8. FlushInv'
  <2>1. Covers(new, openFiles[new.h].buf)
    <3>1. Covers(old, openFiles[old.h].buf)
      BY <1>1 DEF IInv, FlushInv
    <3>2. Len(old.sent) \in Nat /\ Len(old.slice) \in Nat
      BY <1>0 DEF FdType, Seqs
    <3>3. Len(new.sent) <= Len(new.slice)
      BY <1>1, <1>2, <1>3, <3>2
    <3>4. ASSUME NEW i \in DOMAIN openFiles[old.h].buf, openFiles[old.h].buf[i] \in old.owed
          PROVE  /\ i \in DOMAIN new.slice
                 /\ openFiles[old.h].buf[i] = IF i <= Len(new.sent) THEN new.sent[i]
                                                                    ELSE new.slice[i]
      <4>1. /\ i \in DOMAIN old.slice
            /\ openFiles[old.h].buf[i] = IF i <= Len(old.sent) THEN old.sent[i]
                                                               ELSE old.slice[i]
        BY <3>1, <3>4 DEF Covers
      <4>2. i \in Nat \ {0}
        BY <1>0, <4>1 DEF FdType, Seqs
      <4> HIDE DEF old, sent, new
      <4> QED
        BY <1>2, <1>3, <3>2, <4>1, <4>2
    <3> QED
      BY <1>3, <3>3, <3>4 DEF Covers
  <2>2. ASSUME NEW g \in Fds, fd'[g].step = "reading"
        PROVE  Covers(fd'[g], openFiles'[fd'[g].h].buf)
    BY <1>1, <1>4, <2>1, <2>2 DEF IInv, FlushInv
  <2>3. FlushCoversOwed'
    BY <1>1, <1>3, <1>4 DEF IInv, FlushInv, FlushCoversOwed, history
  <2> QED
    BY <2>2, <2>3 DEF FlushInv
<1>9. LateInv'
  BY <1>1, <1>3, <1>4 DEF IInv, LateInv, LostOnlyIfLate, AtRisk, Busy, OpenHandles, history
<1> QED
  BY <1>5, <1>6, <1>7, <1>8, <1>9 DEF IInv

\* A flush that begins owes all that is in the buffer, and will read it there.
LEMMA FlushBeginsKeeps ==
    ASSUME IInv, NEW f \in Fds, NEW op \in {"close", "fsync"}, FlushBegins(f, op)
    PROVE  IInv'
<1> DEFINE of == openFiles[fd[f].h]
           new == [h |-> fd[f].h, op |-> op, step |-> "reading", shared |-> TRUE,
                   slice |-> of.buf, sent |-> <<>>, owed |-> WritesIn(of.buf)]
<1>0. TypeInv /\ writes \in Nat /\ fd \in [Fds -> FdType(writes)]
  BY DEF IInv, TypeInv, FdsOK
<1>1. /\ fd[f].step = "idle" /\ fd[f].h # 0
      /\ fd' = [fd EXCEPT ![f] = new]
      /\ UNCHANGED <<verbs, nextHandle, openFiles, contentCache, cluster, writes, history>>
  BY DEF FlushBegins, Refers, Busy
<1>2. fd[f].h \in OpenHandles /\ fd[f].h \in Nat
  BY <1>0, <1>1, FdFacts DEF FdType
<1>3. /\ new \in FdType(writes)
      /\ new.h = fd[f].h /\ new.step = "reading" /\ new.owed = WritesIn(of.buf)
      /\ new.slice = of.buf /\ new.sent = <<>>
  <2>1. of.buf \in Seqs(writes)
    BY <1>0, <1>2, FileFacts DEF FileType
  <2>2. <<>> \in Seqs(writes) /\ TRUE \in BOOLEAN
    BY DEF Seqs
  <2>3. WritesIn(of.buf) \in SUBSET (1..writes)
    BY <1>0, <2>1, WritesInRange
  <2> QED
    BY <1>2, <2>1, <2>2, <2>3 DEF FdType
<1> HIDE DEF new
<1>4. /\ fd' \in [Fds -> FdType(writes)]
      /\ fd'[f] = new
      /\ \A g \in Fds \ {f} : fd'[g] = fd[g]
  BY <1>0, <1>1, <1>3
<1>5. TypeInv'
  BY <1>1, <1>2, <1>3, <1>4 DEF IInv, TypeInv, FdsOK, RefersOK, OpenHandles, history
<1>6. DirtyIsAllowed'
  BY <1>1 DEF IInv, DirtyIsAllowed, OpenHandles
<1>7. PrivateInv'
  BY <1>1, <1>3, <1>4 DEF IInv, PrivateInv, UnsavedIsPrivate, OpenHandles, history
<1>8. FlushInv'
  <2>1. Covers(new, openFiles[new.h].buf)
    <3>1. of.buf \in Seqs(writes)
      BY <1>0, <1>2, FileFacts DEF FileType
    <3> QED
      BY <1>3, <3>1 DEF Covers, Seqs
  <2>2. ASSUME NEW g \in Fds, fd'[g].step = "reading"
        PROVE  Covers(fd'[g], openFiles'[fd'[g].h].buf)
    BY <1>1, <1>4, <2>1, <2>2 DEF IInv, FlushInv
  <2>3. FlushCoversOwed'
    BY <1>1, <1>3, <1>4 DEF IInv, FlushInv, FlushCoversOwed, history
  <2> QED
    BY <2>2, <2>3 DEF FlushInv
<1>9. LateInv'
  <2>1. ASSUME NEW h \in OpenHandles, NEW b \in 1..writes, AtRisk(h, b)
        PROVE  /\ openFiles[h].dirty
               /\ \E g \in Fds : fd'[g].h = h
               /\ \A g \in Fds : fd'[g].h = h /\ Busy(g)' => b \in fd'[g].owed
    <3>1. /\ openFiles[h].dirty
          /\ \E g \in Fds : fd[g].h = h
          /\ \A g \in Fds : fd[g].h = h /\ Busy(g) => b \in fd[g].owed
      BY <2>1 DEF IInv, LateInv
    <3>2. b \in WritesIn(openFiles[h].buf)
      BY <2>1 DEF AtRisk
    <3> QED
      BY <1>3, <1>4, <3>1, <3>2 DEF Busy
  <2> QED
    BY <1>1, <2>1 DEF IInv, LateInv, LostOnlyIfLate, AtRisk, OpenHandles, history
<1> QED
  BY <1>5, <1>6, <1>7, <1>8, <1>9 DEF IInv
-----------------------------------------------------------------------------
\* What a flush sends when it has read its slice holds all that it owes and
\* that is still in the buffer.
LEMMA ReadyCovers ==
    ASSUME IInv, NEW f \in Fds, ReadyToSend(f)
    PROVE  /\ fd[f].h \in OpenHandles /\ NodeOf(f) \in Nodes
           /\ fd[f].sent \in Seqs(writes)
           /\ fd[f].owed \cap WritesIn(openFiles[fd[f].h].buf) \subseteq WritesIn(fd[f].sent)
<1> DEFINE d == fd[f]
           buf == openFiles[fd[f].h].buf
<1>1. /\ d \in FdType(writes) /\ d.h \in OpenHandles /\ openFiles[d.h] \in FileType(writes)
      /\ writes \in Nat
  BY FdFacts, FileFacts DEF IInv, ReadyToSend
<1>2. /\ d.sent \in Seqs(writes) /\ d.slice \in Seqs(writes) /\ buf \in Seqs(writes)
      /\ NodeOf(f) \in Nodes
  BY <1>1 DEF FdType, FileType, NodeOf
<1>3. Covers(d, buf) /\ Len(d.sent) = Len(d.slice)
  BY DEF IInv, FlushInv, ReadyToSend
<1> HIDE DEF d, buf
<1>4. ASSUME NEW b \in d.owed, b \in WritesIn(buf)
      PROVE  b \in WritesIn(d.sent)
  <2>1. PICK i \in DOMAIN buf : buf[i] = b
    BY <1>4 DEF WritesIn, Blocks
  <2>2. i \in DOMAIN d.sent /\ d.sent[i] = b
    BY <1>2, <1>3, <1>4, <2>1 DEF Covers, Seqs
  <2> QED
    BY <1>4, <2>2 DEF WritesIn, Blocks
<1> QED
  BY <1>1, <1>2, <1>4 DEF d, buf

\* The update makes that the cluster's, and applied.
LEMMA UpdateFacts ==
    ASSUME IInv, NEW f \in Fds, Update(f)
    PROVE  /\ ClusterOK(cluster', writes)
           /\ applied \subseteq applied' /\ applied' \subseteq 1..writes
           /\ \A n \in Nodes : WritesIn(cluster'[n]) \subseteq applied'
           /\ WritesIn(fd[f].sent) \subseteq applied'
           /\ fd[f].owed \cap WritesIn(openFiles[fd[f].h].buf) \subseteq applied'
<1> DEFINE sent == fd[f].sent
<1>1. /\ NodeOf(f) \in Nodes /\ sent \in Seqs(writes)
      /\ fd[f].owed \cap WritesIn(openFiles[fd[f].h].buf) \subseteq WritesIn(sent)
  BY ReadyCovers DEF Update
<1>2. /\ cluster' = [cluster EXCEPT ![NodeOf(f)] = sent]
      /\ applied' = applied \cup WritesIn(sent)
  BY DEF Update
<1>3. /\ ClusterOK(cluster, writes) /\ applied \subseteq 1..writes /\ writes \in Nat
      /\ \A n \in Nodes : WritesIn(cluster[n]) \subseteq applied
  BY DEF IInv, TypeInv, PrivateInv
<1>4. WritesIn(sent) \subseteq 1..writes
  BY <1>1, <1>3, WritesInRange
<1> HIDE DEF sent
<1>5. ClusterOK(cluster', writes)
  BY <1>1, <1>2, <1>3 DEF ClusterOK
<1>6. \A n \in Nodes : WritesIn(cluster'[n]) \subseteq applied'
  BY <1>1, <1>2, <1>3 DEF ClusterOK
<1> QED
  BY <1>1, <1>2, <1>3, <1>4, <1>5, <1>6 DEF sent

\* An update that is made has applied all the flush owes.
LEMMA ApiAcceptsKeeps ==
    ASSUME IInv, NEW f \in Fds, ApiAccepts(f)
    PROVE  IInv'
<1> DEFINE new == [fd[f] EXCEPT !.step = "accepted"]
<1>0. /\ TypeInv /\ writes \in Nat /\ fd \in [Fds -> FdType(writes)]
      /\ fd[f] \in FdType(writes)
  BY DEF IInv, TypeInv, FdsOK
<1>1. /\ Update(f) /\ fd[f].step = "reading"
      /\ fd' = [fd EXCEPT ![f].step = "accepted"]
      /\ UNCHANGED <<verbs, nextHandle, openFiles, contentCache, writes, late, lost>>
  BY DEF ApiAccepts, Update, ReadyToSend
<1>2. /\ new \in FdType(writes)
      /\ new.h = fd[f].h /\ new.step = "accepted" /\ new.owed = fd[f].owed
      /\ new.sent = fd[f].sent
  BY <1>0 DEF FdType
<1>3. /\ fd' \in [Fds -> FdType(writes)]
      /\ fd'[f] = new
      /\ \A g \in Fds \ {f} : fd'[g] = fd[g]
  BY <1>0, <1>1, <1>2
<1>4. /\ ClusterOK(cluster', writes)
      /\ applied \subseteq applied' /\ applied' \subseteq 1..writes
      /\ \A n \in Nodes : WritesIn(cluster'[n]) \subseteq applied'
      /\ WritesIn(fd[f].sent) \subseteq applied'
      /\ fd[f].owed \cap WritesIn(openFiles[fd[f].h].buf) \subseteq applied'
  BY <1>1, UpdateFacts
<1> HIDE DEF new
<1>5. TypeInv'
  BY <1>1, <1>2, <1>3, <1>4 DEF IInv, TypeInv, FdsOK, RefersOK, OpenHandles
<1>6. DirtyIsAllowed'
  BY <1>1 DEF IInv, DirtyIsAllowed, OpenHandles
<1>7. PrivateInv'
  <2>1. UnsavedIsPrivate'
    BY <1>1, <1>4 DEF IInv, PrivateInv, UnsavedIsPrivate, OpenHandles
  <2>2. \A g \in Fds : fd'[g].step = "accepted" => WritesIn(fd'[g].sent) \subseteq applied'
    BY <1>2, <1>3, <1>4 DEF IInv, PrivateInv
  <2> QED
    BY <1>4, <2>1, <2>2 DEF PrivateInv
<1>8. FlushInv'
  BY <1>1, <1>2, <1>3, <1>4 DEF IInv, FlushInv, FlushCoversOwed
<1>9. LateInv'
  BY <1>1, <1>2, <1>3, <1>4 DEF IInv, LateInv, LostOnlyIfLate, AtRisk, Busy, OpenHandles
<1> QED
  BY <1>5, <1>6, <1>7, <1>8, <1>9 DEF IInv

-----------------------------------------------------------------------------
\* A flush that returns leaves nothing at risk in its handle: what it owed is
\* applied, or reported.
LEMMA ReturnKeeps ==
    ASSUME IInv, NEW f \in Fds, NEW ok \in BOOLEAN, NEW op \in {"close", "fsync", "none"},
           NEW owed \in SUBSET (1..writes),
           Return(f, ok, op, owed), fd[f].h # 0,
           ok => fd[f].step = "accepted",
           ~ ok => \A b \in 1..writes : AtRisk(fd[f].h, b) => b \in owed,
           ClusterOK(cluster', writes), CacheOK(contentCache', writes),
           applied \subseteq applied', applied' \subseteq 1..writes,
           \A n \in Nodes : WritesIn(cluster'[n]) \subseteq applied',
           \A n \in Nodes : \A i \in DOMAIN contentCache'[n] :
               WritesIn(contentCache'[n][i]) \subseteq applied',
           UNCHANGED <<verbs, nextHandle, writes, late, lost>>
    PROVE  IInv'
<1> DEFINE h == fd[f].h
           of == openFiles[h]
           newFd == IF op = "close" THEN NoFd ELSE [NoFd EXCEPT !.h = h]
           new == IF ok THEN [of EXCEPT !.dirty = FALSE, !.pending = FALSE, !.saved = fd[f].sent]
                        ELSE [of EXCEPT !.reported = of.reported \cup owed]
<1>0. /\ TypeInv /\ writes \in Nat /\ fd \in [Fds -> FdType(writes)]
      /\ fd[f] \in FdType(writes) /\ h \in OpenHandles /\ h \in Nat
      /\ of \in FileType(writes)
  BY FdFacts, FileFacts DEF IInv, TypeInv, FdsOK, FdType
<1>1. /\ fd' = [fd EXCEPT ![f] = newFd]
      /\ openFiles' = [openFiles EXCEPT ![h] = new]
  BY DEF Return
<1>2. /\ newFd \in FdType(writes) /\ newFd.step = "idle"
      /\ newFd.h \in {0, h}
  <2>1. NoFd \in FdType(writes) /\ NoFd.h = 0 /\ NoFd.step = "idle"
    <3>1. <<>> \in Seqs(writes) /\ FALSE \in BOOLEAN
      BY DEF Seqs
    <3> QED
      BY <3>1 DEF NoFd, FdType
  <2> QED
    BY <1>0, <2>1, FreshFd
<1>3. /\ new \in FileType(writes) /\ new.node = of.node /\ new.buf = of.buf
      /\ new.dirty => of.dirty /\ ~ ok /\ new.pending = of.pending
      /\ new.saved = IF ok THEN fd[f].sent ELSE of.saved
      /\ new.reported = IF ok THEN of.reported ELSE of.reported \cup owed
  <2>1. fd[f].sent \in Seqs(writes) /\ FALSE \in BOOLEAN
    BY <1>0 DEF FdType
  <2>2. CASE ok
    BY <1>0, <2>1, <2>2 DEF FileType
  <2>3. CASE ~ ok
    BY <1>0, <2>3 DEF FileType
  <2> QED
    BY <2>2, <2>3
<1> HIDE DEF newFd, new
<1>4. /\ fd' \in [Fds -> FdType(writes)]
      /\ fd'[f] = newFd
      /\ \A g \in Fds \ {f} : fd'[g] = fd[g]
  BY <1>0, <1>1, <1>2
<1>5. /\ OpenHandles' = OpenHandles
      /\ openFiles'[h] = new
      /\ \A g \in OpenHandles \ {h} : openFiles'[g] = openFiles[g]
  BY <1>0, <1>1 DEF OpenHandles
<1>6. TypeInv'
  <2>1. FilesOK(openFiles, writes)'
    BY <1>3, <1>5 DEF IInv, TypeInv, FilesOK, OpenHandles
  <2>2. FdsOK(fd, writes)' /\ RefersOK(fd, OpenHandles)'
    BY <1>0, <1>2, <1>4, <1>5 DEF TypeInv, FdsOK, RefersOK
  <2> QED
    BY <1>5, <2>1, <2>2 DEF IInv, TypeInv
<1>7. DirtyIsAllowed'
  BY <1>0, <1>3, <1>5 DEF IInv, DirtyIsAllowed
<1>8. PrivateInv'
  <2>1. ASSUME ok PROVE WritesIn(fd[f].sent) \subseteq applied
    BY <2>1 DEF IInv, PrivateInv
  <2>2. \A g \in OpenHandles : WritesIn(openFiles'[g].saved) \subseteq applied'
    BY <1>0, <1>3, <1>5, <2>1 DEF IInv, PrivateInv, UnsavedIsPrivate
  <2>3. \A g \in Fds : fd'[g].step = "accepted" => WritesIn(fd'[g].sent) \subseteq applied'
    BY <1>2, <1>4 DEF IInv, PrivateInv
  <2> QED
    BY <1>5, <2>2, <2>3 DEF PrivateInv, UnsavedIsPrivate
<1>9. FlushInv'
  <2>1. ASSUME NEW g \in Fds, fd'[g].step # "idle"
        PROVE  fd'[g] = fd[g] /\ openFiles'[fd[g].h].buf = openFiles[fd[g].h].buf
    <3>1. fd'[g] = fd[g]
      BY <1>2, <1>4, <2>1
    <3>2. fd[g].h \in OpenHandles
      BY <1>0, <2>1, <3>1, FdFacts
    <3> QED
      BY <1>3, <1>5, <3>1, <3>2
  <2>2. ASSUME NEW g \in Fds, fd'[g].step = "reading"
        PROVE  Covers(fd'[g], openFiles'[fd'[g].h].buf)
    BY <2>1, <2>2 DEF IInv, FlushInv
  <2>3. ASSUME NEW g \in Fds, fd'[g].step = "accepted"
        PROVE  fd'[g].owed \cap WritesIn(openFiles'[fd'[g].h].buf) \subseteq applied'
    BY <2>1, <2>3 DEF IInv, FlushInv, FlushCoversOwed
  <2> QED
    BY <2>2, <2>3 DEF FlushInv, FlushCoversOwed
<1>10. LateInv'
  <2>1. ASSUME NEW g \in OpenHandles, NEW b \in 1..writes, AtRisk(g, b)'
        PROVE  AtRisk(g, b) /\ g # h
    <3>1. AtRisk(g, b)
      BY <1>3, <1>5, <2>1 DEF AtRisk
    <3>2. ASSUME g = h PROVE FALSE
      <4>1. CASE ok
        <5>1. b \in fd[f].owed
          BY <1>0, <3>1, <3>2, <4>1 DEF IInv, LateInv, Busy
        <5> QED
          BY <3>1, <3>2, <4>1, <5>1 DEF IInv, FlushInv, FlushCoversOwed, AtRisk
      <4>2. CASE ~ ok
        BY <1>3, <1>5, <2>1, <3>1, <3>2, <4>2 DEF AtRisk
      <4> QED
        BY <4>1, <4>2
    <3> QED
      BY <3>1, <3>2
  <2>2. ASSUME NEW g \in OpenHandles, NEW b \in 1..writes, AtRisk(g, b)'
        PROVE  /\ openFiles'[g].dirty
               /\ \E e \in Fds : fd'[e].h = g
               /\ \A e \in Fds : fd'[e].h = g /\ Busy(e)' => b \in fd'[e].owed
    <3>1. AtRisk(g, b) /\ g # h
      BY <2>1, <2>2
    <3>2. /\ openFiles[g].dirty
          /\ \E e \in Fds : fd[e].h = g
          /\ \A e \in Fds : fd[e].h = g /\ Busy(e) => b \in fd[e].owed
      BY <3>1 DEF IInv, LateInv
    <3>3. g # 0
      BY <1>0, FileFacts
    <3> QED
      BY <1>2, <1>4, <1>5, <3>1, <3>2, <3>3 DEF Busy
  <2>3. LostOnlyIfLate'
    BY DEF IInv, LateInv, LostOnlyIfLate
  <2> QED
    BY <1>5, <2>2, <2>3 DEF LateInv
<1> QED
  BY <1>6, <1>7, <1>8, <1>9, <1>10 DEF IInv
\* What a step that touches neither the cluster nor the cache gives ReturnKeeps.
LEMMA QuietFacts ==
    ASSUME IInv, UNCHANGED <<cluster, contentCache, applied>>
    PROVE  /\ ClusterOK(cluster', writes) /\ CacheOK(contentCache', writes)
           /\ applied \subseteq applied' /\ applied' \subseteq 1..writes
           /\ \A n \in Nodes : WritesIn(cluster'[n]) \subseteq applied'
           /\ \A n \in Nodes : \A i \in DOMAIN contentCache'[n] :
                 WritesIn(contentCache'[n][i]) \subseteq applied'
BY DEF IInv, TypeInv, PrivateInv, UnsavedIsPrivate

\* Nothing to do: nothing is at risk.  Nothing allowed: all of it is reported.
LEMMA FlushReturnsKeeps ==
    ASSUME IInv, NEW f \in Fds, NEW op \in {"close", "fsync"}, FlushReturns(f, op)
    PROVE  IInv'
<1> DEFINE of == openFiles[fd[f].h]
           owed == IF of.dirty THEN WritesIn(of.buf) ELSE {}
<1>1. /\ Return(f, FALSE, op, owed) /\ fd[f].h # 0
      /\ UNCHANGED <<verbs, nextHandle, contentCache, cluster, writes, history>>
  BY DEF FlushReturns, Refers
<1>2. TypeInv /\ writes \in Nat /\ fd[f].h \in OpenHandles /\ of \in FileType(writes)
  BY <1>1, FdFacts, FileFacts DEF IInv
<1>3. owed \in SUBSET (1..writes)
  BY <1>2, WritesInRange DEF FileType
<1>4. \A b \in 1..writes : AtRisk(fd[f].h, b) => b \in owed
  BY <1>2 DEF IInv, LateInv, AtRisk
<1> HIDE DEF owed
<1> QED
  BY <1>1, <1>3, <1>4, QuietFacts, ReturnKeeps DEF history

\* An error, and what the flush owed is reported.
LEMMA OwedAtRisk ==
    ASSUME IInv, NEW f \in Fds, ReadyToSend(f)
    PROVE  /\ fd[f].h # 0 /\ fd[f].op \in {"close", "fsync", "none"}
           /\ fd[f].owed \in SUBSET (1..writes)
           /\ \A b \in 1..writes : AtRisk(fd[f].h, b) => b \in fd[f].owed
<1>1. /\ fd[f] \in FdType(writes) /\ fd[f].h # 0 /\ fd[f].h \in OpenHandles
      /\ Busy(f)
  BY FdFacts DEF IInv, ReadyToSend, Busy
<1> QED
  BY <1>1 DEF IInv, LateInv, FdType

\* A refused save reports what it owed.
LEMMA ApiRejectsKeeps ==
    ASSUME IInv, NEW f \in Fds, ApiRejects(f)
    PROVE  IInv'
<1>1. /\ ReadyToSend(f) /\ Return(f, FALSE, fd[f].op, fd[f].owed)
      /\ UNCHANGED <<verbs, nextHandle, contentCache, cluster, writes, history>>
  BY DEF ApiRejects
<1> QED
  BY <1>1, OwedAtRisk, QuietFacts, ReturnKeeps DEF history

\* So does one that is made and whose answer is lost.
LEMMA ApiAcceptsUnheardKeeps ==
    ASSUME IInv, NEW f \in Fds, ApiAcceptsUnheard(f)
    PROVE  IInv'
<1>1. /\ Update(f) /\ ReadyToSend(f) /\ Return(f, FALSE, fd[f].op, fd[f].owed)
      /\ UNCHANGED <<verbs, nextHandle, contentCache, writes, late, lost>>
  BY DEF ApiAcceptsUnheard, Update
<1>2. /\ ClusterOK(cluster', writes)
      /\ applied \subseteq applied' /\ applied' \subseteq 1..writes
      /\ \A n \in Nodes : WritesIn(cluster'[n]) \subseteq applied'
  BY <1>1, UpdateFacts
<1>3. /\ CacheOK(contentCache', writes)
      /\ \A n \in Nodes : \A i \in DOMAIN contentCache'[n] :
            WritesIn(contentCache'[n][i]) \subseteq applied'
  BY <1>1, <1>2 DEF IInv, TypeInv, PrivateInv, UnsavedIsPrivate
<1> QED
  BY <1>1, <1>2, <1>3, OwedAtRisk, ReturnKeeps

\* A success: the flush has applied all it owed; the cached content goes.
LEMMA FlushEndsKeeps ==
    ASSUME IInv, NEW f \in Fds, FlushEnds(f)
    PROVE  IInv'
<1>1. /\ fd[f].step = "accepted" /\ Return(f, TRUE, fd[f].op, {})
      /\ contentCache' = [contentCache EXCEPT ![NodeOf(f)] = <<>>]
      /\ UNCHANGED <<verbs, nextHandle, cluster, writes, history>>
  BY DEF FlushEnds
<1>2. /\ CacheOK(contentCache, writes) /\ ClusterOK(cluster, writes)
      /\ applied \subseteq 1..writes
      /\ \A n \in Nodes : WritesIn(cluster[n]) \subseteq applied
      /\ \A n \in Nodes : \A i \in DOMAIN contentCache[n] :
            WritesIn(contentCache[n][i]) \subseteq applied
  BY DEF IInv, TypeInv, PrivateInv, UnsavedIsPrivate
<1>3. /\ CacheOK(contentCache', writes)
      /\ \A n \in Nodes : \A i \in DOMAIN contentCache'[n] :
            WritesIn(contentCache'[n][i]) \subseteq applied
  BY <1>1, <1>2 DEF CacheOK, Seqs
<1>4. /\ fd[f].h # 0 /\ fd[f].op \in {"close", "fsync", "none"}
      /\ {} \in SUBSET (1..writes) /\ TRUE \in BOOLEAN
  BY <1>1, FdFacts DEF IInv, FdType
<1> QED
  BY <1>1, <1>2, <1>3, <1>4, ReturnKeeps DEF history

-----------------------------------------------------------------------------
\* With its last descriptor gone a handle has nothing at risk, so what is lost
\* with it came late.
LEMMA ReleaseHandleKeeps ==
    ASSUME IInv, NEW h \in OpenHandles, ReleaseHandle(h)
    PROVE  IInv'
<1>0. TypeInv /\ writes \in Nat /\ openFiles[h] \in FileType(writes) /\ h # 0
  BY FileFacts DEF IInv
<1>1. /\ \A f \in Fds : fd[f].h # h
      /\ openFiles' = [g \in OpenHandles \ {h} |-> openFiles[g]]
      /\ lost' = lost \cup (WritesIn(openFiles[h].buf)
                              \ (applied \cup openFiles[h].reported))
      /\ UNCHANGED <<verbs, nextHandle, contentCache, cluster, fd, writes, applied, late>>
  BY DEF ReleaseHandle
<1>2. /\ OpenHandles' = OpenHandles \ {h}
      /\ \A g \in OpenHandles \ {h} : openFiles'[g] = openFiles[g]
  BY <1>1 DEF OpenHandles
<1>3. WritesIn(openFiles[h].buf) \subseteq 1..writes
  BY <1>0, WritesInRange DEF FileType
<1>4. TypeInv'
  <2>1. FilesOK(openFiles, writes)' /\ HandlesOK(OpenHandles, nextHandle)'
    BY <1>0, <1>1, <1>2 DEF TypeInv, FilesOK, HandlesOK, OpenHandles
  <2>2. RefersOK(fd, OpenHandles)'
    BY <1>0, <1>1, <1>2 DEF TypeInv, RefersOK
  <2>3. lost' \subseteq 1..writes
    BY <1>0, <1>1, <1>3 DEF TypeInv
  <2> QED
    BY <1>0, <1>1, <2>1, <2>2, <2>3 DEF TypeInv
<1>5. DirtyIsAllowed'
  BY <1>1, <1>2 DEF IInv, DirtyIsAllowed
<1>6. PrivateInv'
  BY <1>1, <1>2 DEF IInv, PrivateInv, UnsavedIsPrivate
<1>7. FlushInv'
  <2>1. ASSUME NEW f \in Fds, fd[f].step # "idle"
        PROVE  openFiles'[fd[f].h] = openFiles[fd[f].h]
    BY <1>0, <1>1, <1>2, <2>1, FdFacts
  <2> QED
    BY <1>1, <2>1 DEF IInv, FlushInv, FlushCoversOwed
<1>8. LateInv'
  <2>1. LostOnlyIfLate'
    BY <1>0, <1>1, <1>3 DEF IInv, LateInv, LostOnlyIfLate, AtRisk
  <2>2. ASSUME NEW g \in OpenHandles \ {h}, NEW b \in 1..writes, AtRisk(g, b)'
        PROVE  AtRisk(g, b)
    BY <1>1, <1>2, <2>2 DEF AtRisk
  <2> QED
    BY <1>1, <1>2, <2>1, <2>2 DEF IInv, LateInv, Busy
<1> QED
  BY <1>4, <1>5, <1>6, <1>7, <1>8 DEF IInv

\* A cut takes blocks away, and moves none.
LEMMA TruncateKeeps ==
    ASSUME IInv, NEW n \in Nodes, NEW size \in 0..MaxLen, Truncate(n, size)
    PROVE  IInv'
<1> DEFINE new(h) == IF openFiles[h].node = n /\ size < Len(openFiles[h].buf)
                     THEN [openFiles[h] EXCEPT !.buf = SubSeq(@, 1, size)]
                     ELSE openFiles[h]
<1>0. TypeInv /\ writes \in Nat /\ size \in Nat
  BY OpenFilesAssumption, FileFacts DEF IInv, TypeInv
<1>1. /\ openFiles' = [h \in OpenHandles |-> new(h)]
      /\ UNCHANGED <<verbs, nextHandle, contentCache, cluster, fd, writes, history>>
  BY DEF Truncate, OpenHandles
<1>2. ASSUME NEW h \in OpenHandles
      PROVE  /\ new(h) \in FileType(writes)
             /\ new(h).node = openFiles[h].node /\ new(h).dirty = openFiles[h].dirty
             /\ new(h).pending = openFiles[h].pending
             /\ new(h).saved = openFiles[h].saved
             /\ new(h).reported = openFiles[h].reported
             /\ \A i \in DOMAIN new(h).buf :
                   i \in DOMAIN openFiles[h].buf /\ new(h).buf[i] = openFiles[h].buf[i]
             /\ WritesIn(new(h).buf) \subseteq WritesIn(openFiles[h].buf)
  <2>1. openFiles[h] \in FileType(writes) /\ openFiles[h].buf \in Seqs(writes)
    BY <1>0, FileFacts DEF FileType
  <2>2. CASE openFiles[h].node = n /\ size < Len(openFiles[h].buf)
    <3> DEFINE cut == SubSeq(openFiles[h].buf, 1, size)
    <3>1. /\ cut \in Seqs(writes)
          /\ \A i \in DOMAIN cut : i \in DOMAIN openFiles[h].buf
                                   /\ cut[i] = openFiles[h].buf[i]
          /\ WritesIn(cut) \subseteq WritesIn(openFiles[h].buf)
      BY <1>0, <2>1, <2>2, CutProperties
    <3>2. new(h) = [openFiles[h] EXCEPT !.buf = cut]
      BY <2>2
    <3> HIDE DEF cut, new
    <3> QED
      BY <2>1, <3>1, <3>2 DEF FileType
  <2>3. CASE ~ (openFiles[h].node = n /\ size < Len(openFiles[h].buf))
    <3>1. new(h) = openFiles[h]
      BY <2>3
    <3> HIDE DEF new
    <3> QED
      BY <2>1, <3>1
  <2> QED
    BY <2>2, <2>3
<1> HIDE DEF new
<1>3. /\ OpenHandles' = OpenHandles
      /\ \A h \in OpenHandles : openFiles'[h] = new(h)
  BY <1>1 DEF OpenHandles
<1>4. TypeInv'
  <2>1. FilesOK(openFiles, writes)'
    BY <1>1, <1>2, <1>3 DEF FilesOK, OpenHandles
  <2> QED
    BY <1>0, <1>1, <1>3, <2>1 DEF TypeInv, history
<1>5. DirtyIsAllowed'
  BY <1>1, <1>2, <1>3 DEF IInv, DirtyIsAllowed
<1>6. PrivateInv'
  BY <1>1, <1>2, <1>3 DEF IInv, PrivateInv, UnsavedIsPrivate, history
<1>7. FlushInv'
  <2>1. ASSUME NEW f \in Fds, fd[f].step # "idle"
        PROVE  /\ fd[f].h \in OpenHandles
               /\ openFiles'[fd[f].h] = new(fd[f].h)
    BY <1>0, <1>3, <2>1, FdFacts
  <2>2. ASSUME NEW f \in Fds, fd[f].step = "reading"
        PROVE  Covers(fd[f], openFiles'[fd[f].h].buf)
    <3>1. Covers(fd[f], openFiles[fd[f].h].buf)
      BY <2>2 DEF IInv, FlushInv
    <3> QED
      BY <1>2, <2>1, <2>2, <3>1 DEF Covers
  <2>3. ASSUME NEW f \in Fds, fd[f].step = "accepted"
        PROVE  fd[f].owed \cap WritesIn(openFiles'[fd[f].h].buf) \subseteq applied
    BY <1>2, <2>1, <2>3 DEF IInv, FlushInv, FlushCoversOwed
  <2> QED
    BY <1>1, <2>2, <2>3 DEF FlushInv, FlushCoversOwed, history
<1>8. LateInv'
  <2>1. ASSUME NEW h \in OpenHandles, NEW b \in 1..writes, AtRisk(h, b)'
        PROVE  AtRisk(h, b)
    BY <1>1, <1>2, <1>3, <2>1 DEF AtRisk, history
  <2> QED
    BY <1>1, <1>2, <1>3, <2>1 DEF IInv, LateInv, LostOnlyIfLate, Busy, history
<1> QED
  BY <1>4, <1>5, <1>6, <1>7, <1>8 DEF IInv
-----------------------------------------------------------------------------
\* What has the types of v writes has those of w, w no less.
LEMMA TypesGrow ==
    ASSUME NEW v \in Nat, NEW w \in Nat, v <= w
    PROVE  FileType(v) \subseteq FileType(w) /\ FdType(v) \subseteq FdType(w)
<1>1. Seqs(v) \subseteq Seqs(w) /\ 1..v \subseteq 1..w
  BY SeqsGrow
<1> QED
  BY <1>1 DEF FileType, FdType

\* A flush of another goroutine sees a write at most at the block written.
LEMMA SliceAfterFacts ==
    ASSUME IInv, NEW g \in Fds, NEW h, NEW off \in Nat
    PROVE  LET d == SliceAfter(g, h, off, writes + 1)
           IN  /\ d \in FdType(writes + 1)
               /\ d.h = fd[g].h /\ d.step = fd[g].step
               /\ d.sent = fd[g].sent /\ d.owed = fd[g].owed
               /\ DOMAIN d.slice = DOMAIN fd[g].slice
               /\ Len(d.slice) = Len(fd[g].slice)
               /\ \A i \in DOMAIN fd[g].slice : i # off + 1 => d.slice[i] = fd[g].slice[i]
<1> DEFINE d == SliceAfter(g, h, off, writes + 1)
           old == fd[g]
           b == writes + 1
           slice == [old.slice EXCEPT ![off + 1] = b]
<1>1. /\ writes \in Nat /\ old \in FdType(writes)
      /\ old \in FdType(writes + 1) /\ old.slice \in Seqs(writes + 1)
  <2>1. writes \in Nat /\ old \in FdType(writes)
    BY FdFacts DEF IInv
  <2>2. old \in FdType(writes + 1)
    BY <2>1, TypesGrow
  <2> QED
    BY <2>1, <2>2 DEF FdType
<1>2. FALSE \in BOOLEAN
  OBVIOUS
<1>3. slice \in Seqs(writes + 1) /\ Len(slice) = Len(old.slice)
      /\ DOMAIN slice = DOMAIN old.slice
      /\ \A i \in DOMAIN old.slice : i # off + 1 => slice[i] = old.slice[i]
  <2>1. b \in Origin \cup (1..(writes + 1))
    BY <1>1
  <2> DEFINE s == old.slice
  <2>2. s \in Seq(Origin \cup (1..(writes + 1)))
    BY <1>1 DEF Seqs
  <2> HIDE DEF b, s
  <2>3. CASE off + 1 \in 1..Len(s)
    BY <2>1, <2>2, <2>3, ExceptSeq DEF Seqs, s
  <2>4. CASE off + 1 \notin 1..Len(s)
    <3>1. [s EXCEPT ![off + 1] = b] = s
      <4>1. off + 1 \notin DOMAIN s /\ s = [i \in DOMAIN s |-> s[i]]
        BY <2>2, <2>4
      <4> QED
        BY <4>1
    <3> QED
      BY <2>2, <3>1 DEF Seqs, s
  <2> QED
    BY <2>3, <2>4
<1> HIDE DEF slice, b, old
<1>4. CASE d = old
  BY <1>1, <1>4 DEF old
<1>5. CASE d = [old EXCEPT !.shared = FALSE]
  BY <1>1, <1>2, <1>5 DEF FdType, old
<1>6. CASE d = [old EXCEPT !.slice = slice]
  BY <1>1, <1>3, <1>6 DEF FdType, old
<1>7. d = old \/ d = [old EXCEPT !.shared = FALSE] \/ d = [old EXCEPT !.slice = slice]
  BY DEF SliceAfter, slice, b, old
<1> QED
  BY <1>4, <1>5, <1>6, <1>7

\* A write during a flush of its handle is late; any other is marked by dirty,
\* and no flush of the handle is under way that does not owe it.
LEMMA WriteHandleKeeps ==
    ASSUME IInv, NEW f \in Fds, NEW off \in 0..MaxLen, WriteHandle(f, off)
    PROVE  IInv'
<1> DEFINE h == fd[f].h
           b == writes + 1
           of == openFiles[h]
           buf == Written(of.buf, off, b)
           new == [of EXCEPT !.buf = buf, !.dirty = TRUE]
<1>0. /\ TypeInv /\ writes \in Nat /\ off \in Nat
      /\ h \in OpenHandles /\ h # 0 /\ of \in FileType(writes)
  BY OpenFilesAssumption, FdFacts, FileFacts DEF IInv, WriteHandle, Refers
<1>1. /\ fd[f].step = "idle" /\ writes' = b /\ b <= MaxWrites
      /\ openFiles' = [openFiles EXCEPT ![h] = new]
      /\ fd' = [g \in Fds |-> SliceAfter(g, h, off, b)]
      /\ late' = IF \E g \in Fds : fd[g].h = h /\ Busy(g) THEN late \cup {b} ELSE late
      /\ WriteError(h) = "none"
      /\ UNCHANGED <<verbs, nextHandle, contentCache, cluster, applied, lost>>
  <2>1. /\ fd[f].step = "idle" /\ writes' = b
        /\ fd' = [g \in Fds |-> SliceAfter(g, h, off, b)]
        /\ late' = IF \E g \in Fds : fd[g].h = h /\ Busy(g) THEN late \cup {b} ELSE late
        /\ WriteError(h) = "none"
        /\ UNCHANGED <<verbs, nextHandle, contentCache, cluster, applied, lost>>
    BY DEF WriteHandle, Busy, CacheAfter
  <2>2. b <= MaxWrites
    BY <1>0, OpenFilesAssumption DEF WriteHandle
  <2>3. openFiles' = [openFiles EXCEPT ![h] = new]
    BY <1>0 DEF WriteHandle, Store
  <2> QED
    BY <2>1, <2>2, <2>3
<1>2. b \in Nat /\ writes <= b /\ b \in 1..b /\ b \notin 1..writes
  BY <1>0
<1>3. /\ buf \in Seqs(b)
      /\ \A i \in DOMAIN buf :
            \/ i = off + 1 /\ buf[i] = b
            \/ i # off + 1 /\ i \in DOMAIN of.buf /\ buf[i] = of.buf[i]
            \/ buf[i] = Hole
      /\ WritesIn(buf) \subseteq WritesIn(of.buf) \cup {b}
  <2>1. of.buf \in Seqs(b)
    BY <1>0, <1>2, TypesGrow DEF FileType
  <2> QED
    BY <1>0, <1>2, <2>1, WrittenProperties
<1> HIDE DEF buf, b
<1>4. /\ new \in FileType(b) /\ new.node = of.node /\ new.buf = buf /\ new.dirty
      /\ new.pending = of.pending /\ new.saved = of.saved /\ new.reported = of.reported
  <2>1. of \in FileType(b) /\ TRUE \in BOOLEAN
    BY <1>0, <1>2, TypesGrow
  <2> QED
    BY <1>3, <2>1 DEF FileType
<1> HIDE DEF new
<1>5. /\ OpenHandles' = OpenHandles
      /\ openFiles'[h] = new
      /\ \A g \in OpenHandles \ {h} : openFiles'[g] = openFiles[g]
  BY <1>0, <1>1 DEF OpenHandles
<1>6. ASSUME NEW g \in Fds
      PROVE  /\ fd'[g] \in FdType(b)
             /\ fd'[g].h = fd[g].h /\ fd'[g].step = fd[g].step
             /\ fd'[g].sent = fd[g].sent /\ fd'[g].owed = fd[g].owed
             /\ DOMAIN fd'[g].slice = DOMAIN fd[g].slice
             /\ Len(fd'[g].slice) = Len(fd[g].slice)
             /\ \A i \in DOMAIN fd[g].slice : i # off + 1 => fd'[g].slice[i] = fd[g].slice[i]
  BY <1>0, <1>1, SliceAfterFacts DEF b
<1>7. TypeInv'
  <2>1. FilesOK(openFiles, writes)'
    <3>1. \A g \in OpenHandles : openFiles[g] \in FileType(b)
      BY <1>0, <1>2, TypesGrow, FileFacts
    <3> QED
      BY <1>1, <1>4, <1>5, <3>1 DEF FilesOK, OpenHandles
  <2>2. FdsOK(fd, writes)' /\ RefersOK(fd, OpenHandles)'
    BY <1>0, <1>1, <1>5, <1>6 DEF TypeInv, FdsOK, RefersOK
  <2>3. Seqs(writes) \subseteq Seqs(b)
    BY <1>0, <1>2, SeqsGrow
  <2>4. ClusterOK(cluster, writes)' /\ CacheOK(contentCache, writes)'
    BY <1>0, <1>1, <2>3 DEF TypeInv, ClusterOK, CacheOK
  <2>5. writes' \in 0..MaxWrites /\ late' \subseteq 1..writes'
        /\ applied' \subseteq 1..writes' /\ lost' \subseteq 1..writes'
    BY <1>0, <1>1, <1>2, OpenFilesAssumption DEF TypeInv
  <2> QED
    BY <1>0, <1>1, <1>5, <2>1, <2>2, <2>4, <2>5 DEF TypeInv
<1>8. DirtyIsAllowed'
  <2>1. /\ (IF of.pending THEN "create" ELSE "update") \in verbs
        /\ Kind[of.node] \in {"dataFile", "yaml", "json"}
    BY <1>1 DEF WriteError
  <2> QED
    BY <1>1, <1>4, <1>5, <2>1 DEF IInv, DirtyIsAllowed
<1>9. PrivateInv'
  BY <1>0, <1>1, <1>4, <1>5, <1>6 DEF IInv, PrivateInv, UnsavedIsPrivate
<1>10. FlushInv'
  <2>1. ASSUME NEW g \in Fds, fd[g].step # "idle"
        PROVE  /\ fd[g].h \in OpenHandles
               /\ fd[g].owed \subseteq 1..writes
    BY <1>0, <2>1, FdFacts DEF FdType
  <2>2. ASSUME NEW g \in Fds, fd[g].step = "reading"
        PROVE  Covers(fd'[g], openFiles'[fd[g].h].buf)
    <3>1. Covers(fd[g], openFiles[fd[g].h].buf)
      BY <2>2 DEF IInv, FlushInv
    <3>2. CASE fd[g].h # h
      <4>1. fd'[g] = fd[g]
        BY <1>1, <3>2 DEF SliceAfter
      <4> QED
        BY <1>5, <2>1, <2>2, <3>1, <3>2, <4>1
    <3>3. CASE fd[g].h = h
      <4>1. ASSUME NEW i \in DOMAIN buf, buf[i] \in fd[g].owed
            PROVE  i # off + 1 /\ i \in DOMAIN of.buf /\ buf[i] = of.buf[i]
        <5>1. buf[i] # b /\ buf[i] # Hole
          BY <1>0, <1>2, <2>1, <2>2, <4>1 DEF Hole
        <5> QED
          BY <1>3, <5>1
      <4>2. ASSUME NEW i \in DOMAIN buf, buf[i] \in fd'[g].owed
            PROVE  /\ i \in DOMAIN fd'[g].slice
                   /\ buf[i] = IF i <= Len(fd'[g].sent) THEN fd'[g].sent[i]
                                                        ELSE fd'[g].slice[i]
        <5>1. buf[i] \in fd[g].owed
          BY <1>6, <4>2
        <5>2. i # off + 1 /\ i \in DOMAIN of.buf /\ buf[i] = of.buf[i]
          BY <4>1, <5>1
        <5>3. /\ i \in DOMAIN fd[g].slice
              /\ of.buf[i] = IF i <= Len(fd[g].sent) THEN fd[g].sent[i]
                                                     ELSE fd[g].slice[i]
          BY <3>1, <3>3, <5>1, <5>2 DEF Covers
        <5> QED
          BY <1>6, <5>2, <5>3
      <4>3. Len(fd'[g].sent) <= Len(fd'[g].slice)
        BY <1>6, <3>1 DEF Covers
      <4> QED
        BY <1>4, <1>5, <3>3, <4>2, <4>3 DEF Covers
    <3> QED
      BY <3>2, <3>3
  <2>3. ASSUME NEW g \in Fds, fd[g].step = "accepted"
        PROVE  fd[g].owed \cap WritesIn(openFiles'[fd[g].h].buf) \subseteq applied
    BY <1>2, <1>3, <1>4, <1>5, <2>1, <2>3 DEF IInv, FlushInv, FlushCoversOwed
  <2> QED
    BY <1>1, <1>6, <2>2, <2>3 DEF FlushInv, FlushCoversOwed
<1>11. LateInv'
  <2>1. ASSUME NEW g \in OpenHandles, NEW w \in 1..b, AtRisk(g, w)'
        PROVE  /\ openFiles'[g].dirty
               /\ \E e \in Fds : fd'[e].h = g
               /\ \A e \in Fds : fd'[e].h = g /\ Busy(e)' => w \in fd'[e].owed
    <3>1. CASE w \in 1..writes /\ AtRisk(g, w)
      <4>1. /\ openFiles[g].dirty
            /\ \E e \in Fds : fd[e].h = g
            /\ \A e \in Fds : fd[e].h = g /\ Busy(e) => w \in fd[e].owed
        BY <3>1 DEF IInv, LateInv
      <4> QED
        BY <1>4, <1>5, <1>6, <4>1 DEF Busy
    <3>2. CASE w = b
      <4>1. g = h
        <5>1. ASSUME g # h PROVE FALSE
          <6>1. b \in WritesIn(openFiles[g].buf)
            BY <1>5, <2>1, <3>2, <5>1 DEF AtRisk
          <6> QED
            BY <1>0, <1>2, <6>1, FileFacts, WritesInRange DEF FileType
        <5> QED
          BY <5>1
      <4>2. ~ \E e \in Fds : fd[e].h = h /\ Busy(e)
        BY <1>1, <2>1, <3>2 DEF AtRisk
      <4> QED
        BY <1>4, <1>5, <1>6, <4>1, <4>2 DEF Busy
    <3>3. \/ w = b
          \/ w \in 1..writes /\ AtRisk(g, w)
      <4>1. w = b \/ w \in 1..writes
        BY <1>0 DEF b
      <4>2. ASSUME w # b PROVE AtRisk(g, w)
        BY <1>1, <1>3, <1>4, <1>5, <2>1, <4>2 DEF AtRisk
      <4> QED
        BY <4>1, <4>2
    <3> QED
      BY <3>1, <3>2, <3>3
  <2>2. LostOnlyIfLate'
    BY <1>1 DEF IInv, LateInv, LostOnlyIfLate
  <2> QED
    BY <1>1, <1>5, <2>1, <2>2 DEF LateInv
<1> QED
  BY <1>7, <1>8, <1>9, <1>10, <1>11 DEF IInv

-----------------------------------------------------------------------------
\* IInv is an invariant: it holds of an FS without handles, and every call,
\* every step of a flush and every answer of the API keeps it.
LEMMA IInvInit == Init => IInv
<1> SUFFICES ASSUME Init PROVE IInv
  OBVIOUS
<1>1. /\ OpenHandles = {} /\ writes = 0 /\ nextHandle = 1
      /\ cluster = [n \in Nodes |-> <<FromCluster>>]
      /\ contentCache = [n \in Nodes |-> <<>>]
      /\ fd = [f \in Fds |-> NoFd]
      /\ verbs \in VerbChoices /\ applied = {} /\ late = {} /\ lost = {}
  BY DEF Init, OpenHandles
<1>2. NoFd \in FdType(0) /\ NoFd.h = 0 /\ NoFd.step = "idle"
  <2>1. <<>> \in Seqs(0) /\ FALSE \in BOOLEAN
    BY DEF Seqs
  <2> QED
    BY <2>1 DEF NoFd, FdType
<1>3. <<FromCluster>> \in Seqs(0) /\ WritesIn(<<FromCluster>>) = {}
  BY DEF Seqs, Origin, WritesIn, Blocks
<1>4. FdsOK(fd, writes) /\ RefersOK(fd, OpenHandles)
  BY <1>1, <1>2 DEF FdsOK, RefersOK
<1>5. ClusterOK(cluster, writes) /\ CacheOK(contentCache, writes)
  BY <1>1, <1>3 DEF ClusterOK, CacheOK
<1>6. TypeInv
  BY <1>1, <1>4, <1>5, OpenFilesAssumption
     DEF TypeInv, HandlesOK, FilesOK, OpenHandles
<1>7. PrivateInv
  BY <1>1, <1>2, <1>3 DEF PrivateInv, UnsavedIsPrivate
<1> QED
  BY <1>1, <1>2, <1>6, <1>7
     DEF IInv, DirtyIsAllowed, FlushInv, FlushCoversOwed, LateInv, LostOnlyIfLate

\* Every step keeps the invariant.
LEMMA IInvKept == IInv /\ [Next]_vars => IInv'
<1> SUFFICES ASSUME IInv, [Next]_vars PROVE IInv'
  OBVIOUS
<1>1. CASE UNCHANGED vars
  BY <1>1 DEF vars, history, IInv, TypeInv, DirtyIsAllowed, PrivateInv,
     UnsavedIsPrivate, FlushInv, FlushCoversOwed, LateInv, LostOnlyIfLate, AtRisk,
     Busy, OpenHandles
<1>2. ASSUME NEW f \in Fds, NEW n \in Nodes, OpenFile(f, n) \/ CreateAndOpen(f, n)
      PROVE  IInv'
  BY <1>2, OpenFileKeeps, CreateAndOpenKeeps
<1>3. ASSUME NEW f \in Fds, NEW g \in Fds, Dup(f, g)
      PROVE  IInv'
  BY <1>3, DupKeeps
<1>4. ASSUME NEW f \in Fds, NEW off \in 0..MaxLen, WriteHandle(f, off)
      PROVE  IInv'
  BY <1>4, WriteHandleKeeps
<1>5. ASSUME NEW f \in Fds, NEW op \in {"close", "fsync"},
             FlushReturns(f, op) \/ FlushBegins(f, op)
      PROVE  IInv'
  BY <1>5, FlushReturnsKeeps, FlushBeginsKeeps
<1>6. ASSUME NEW f \in Fds,
             \/ WriteRefused(f) \/ ReadBlock(f) \/ ApiAccepts(f)
             \/ ApiAcceptsUnheard(f) \/ ApiRejects(f) \/ FlushEnds(f)
      PROVE  IInv'
  BY <1>6, WriteRefusedKeeps, ReadBlockKeeps, ApiAcceptsKeeps, ApiAcceptsUnheardKeeps,
     ApiRejectsKeeps, FlushEndsKeeps
<1>7. ASSUME NEW h \in OpenHandles, ReleaseHandle(h)
      PROVE  IInv'
  BY <1>7, ReleaseHandleKeeps
<1>8. ASSUME NEW n \in Nodes, ExpireContent(n)
      PROVE  IInv'
  BY <1>8, ExpireContentKeeps
<1>9. ASSUME NEW n \in Nodes, NEW size \in 0..MaxLen, Truncate(n, size)
      PROVE  IInv'
  BY <1>9, TruncateKeeps
<1> QED
  BY <1>1, <1>2, <1>3, <1>4, <1>5, <1>6, <1>7, <1>8, <1>9 DEF Next

\* It holds throughout.
LEMMA IInvHolds == Spec => []IInv
BY IInvInit, IInvKept, PTL DEF Spec

\* What is of the writes so far is of all the model allows.
LEMMA TypeInvIsTypeOK == TypeInv => TypeOK
<1> SUFFICES ASSUME TypeInv PROVE TypeOK
  OBVIOUS
<1>1. /\ writes \in Nat /\ MaxWrites \in Nat /\ writes <= MaxWrites
  BY OpenFilesAssumption DEF TypeInv
<1>2. Seqs(writes) \subseteq Content
  BY <1>1, SeqsGrow DEF Content, Seqs
<1>3. ASSUME NEW h \in OpenHandles
      PROVE  h \in 1..(nextHandle - 1) /\ openFiles[h] \in OpenFileType
  <2>1. 1..writes \subseteq 1..MaxWrites
    BY <1>1
  <2> QED
    BY <1>2, <1>3, <2>1, FileFacts DEF FileType, OpenFileType
<1>4. \A n \in Nodes : cluster[n] \in Content /\ Len(contentCache[n]) <= 1
  BY <1>2 DEF TypeInv, ClusterOK, CacheOK
<1>5. ASSUME NEW f \in Fds
      PROVE  /\ Refers(f) => fd[f].h \in OpenHandles
             /\ fd[f].slice \in Content /\ fd[f].sent \in Content
  BY <1>2, FdFacts DEF Refers, FdType
<1> QED
  BY <1>3, <1>4, <1>5 DEF TypeOK, TypeInv

\* The variables keep their types, for any number of files, descriptors,
\* handles and writes.
THEOREM OpenFilesTypeCorrect == Spec => []TypeOK
BY TypeInvIsTypeOK, IInvHolds, PTL DEF IInv

\* What WriteHandle lets in, FlushHandle and ApplyContent take: for any verbs
\* and any mix of files.
THEOREM WritesAreAllowed == Spec => []DirtyIsAllowed
<1>1. IInv => DirtyIsAllowed
  BY DEF IInv
<1> QED
  BY <1>1, IInvHolds, PTL

\* OpenFile's copy and FlushHandle's order keep a write in its own handle until
\* the API has it.
THEOREM UnsavedStaysPrivate == Spec => []UnsavedIsPrivate
<1>1. IInv => UnsavedIsPrivate
  BY DEF IInv, PrivateInv
<1> QED
  BY <1>1, IInvHolds, PTL

\* FlushHandle sends the slice it took without a copy, while WriteHandle and
\* Truncate change it: what it owed and is still there is sent all the same.
THEOREM FlushSavesWhatItOwes == Spec => []FlushCoversOwed
<1>1. IInv => FlushCoversOwed
  BY DEF IInv, FlushInv
<1> QED
  BY <1>1, IInvHolds, PTL

\* A write is lost without a word only if it came while a flush of its handle
\* was under way: no number of handles, descriptors, cuts and failed flushes
\* loses another.
THEOREM OnlyLateWritesAreLost == Spec => []LostOnlyIfLate
<1>1. IInv => LostOnlyIfLate
  BY DEF IInv, LateInv
<1> QED
  BY <1>1, IInvHolds, PTL
=============================================================================
