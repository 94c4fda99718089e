----------------------------- MODULE BillyFS_proofs -----------------------------
(***************************************************************************)
(* The properties of BillyFS, for any files, verbs, requests and writes.   *)
(*                                                                         *)
(* BillyFS moves the handles of OpenFiles by the actions of OpenFiles, but *)
(* for the content that a Stat puts in the cache, so that the invariant of *)
(* OpenFiles_proofs holds.  To it comes who holds which      *)
(* handle (LinkInv), what a request that is served alone may rely on       *)
(* (AloneInv), and how far a WRITE has come that is alone with its file    *)
(* (PosixInv).                                                             *)
(***************************************************************************)
EXTENDS BillyFS, OpenFiles_proofs

Ops   == {"none", "stat", "remove", "write", "setattr", "create"}
Steps == {"idle", "list", "look", "get", "open", "store", "use", "failed", "close", "release"}
Holding == {"use", "failed", "close"}

USE DEF Holding

RpcTypeAt(w) ==
    [op : Ops, node : Nodes, step : Steps, h : Nat, off : 0..MaxLen, alone : BOOLEAN,
     content : Seqs(w)]

Error == <<ErrorText>>

RangesInv ==
    /\ rpc \in [Rpcs -> RpcTypeAt(writes)]
    /\ live \subseteq Nodes /\ gone \subseteq Nodes /\ excused \subseteq Nodes
    /\ requests \in 0..MaxRequests
    /\ crashed \in [yes : BOOLEAN, alone : BOOLEAN]
    /\ posix \in [Nodes -> Seqs(writes)] /\ failed \subseteq 1..MaxRefs
    /\ nextHandle + dups <= MaxRefs + 1 /\ dups = 0

\* What request c may rely on if it is served alone, while the nodes in the
\* table are t.
WalkOK(c, t) ==
    c.alone /\ c.step = "get" => c.node \in t

AloneInv ==
    /\ \A q, r \in Rpcs : q # r /\ rpc[r].alone /\ ~ At(r, "idle") => At(q, "idle")
    /\ \A r \in Rpcs : WalkOK(rpc[r], live)
    /\ NilOnlyIfRaced

\* Request c with its descriptor d: the handle it holds, and the flush in it.
LinkOK(c, d, handles) ==
    /\ c.step \in Holding =>
          /\ c.h \in DOMAIN handles /\ c.h # 0 /\ d.h = c.h
          /\ handles[c.h].node = c.node
          /\ handles[c.h].dirty => c.op = "write" /\ c.step = "close"
    /\ c.step = "release" => c.h \in DOMAIN handles /\ c.h # 0 /\ d.h = 0
    /\ c.step \notin Holding /\ c.step # "release" => c.h = 0 /\ d.h = 0
    /\ d.step # "idle" =>
          /\ c.step = "close" /\ d.op = "close"
          /\ handles[c.h].dirty /\ WritesIn(handles[c.h].buf) \subseteq d.owed

LinkInv ==
    /\ \A r \in Rpcs : LinkOK(rpc[r], fd[r], openFiles)
    /\ \A q, r \in Rpcs : q # r /\ rpc[q].h = rpc[r].h => rpc[r].h = 0
    /\ LeftBehindIsReported
    /\ \A r \in Rpcs : At(r, "store") => WritesIn(rpc[r].content) \subseteq applied
    /\ late = {}

\* How far request c with descriptor d has come with the file `of' it holds, if
\* the object has content v and should have p.
FarOK(c, d, of, v, p) ==
    /\ c.step = "store" => c.content \in {v, Error}
    /\ c.step = "use" /\ c.op = "write" => of.buf \in {v, Error}
    /\ c.step = "close" /\ of.dirty =>
          /\ c.off + 1 \in DOMAIN of.buf
          /\ of.buf = Written(p, c.off, of.buf[c.off + 1])
          /\ d.step # "idle" => d.slice = of.buf
          /\ d.step = "reading" => d.sent = SubSeq(d.slice, 1, Len(d.sent))
          /\ d.step = "accepted" => d.sent = of.buf /\ v = of.buf

\* The content of an object whose save has not been made, or has returned.
CalmOK(v, p, cached) == v = p /\ cached \in {<<>>, <<v>>, <<Error>>}

PosixInv ==
    \A n \in Nodes \ excused :
        /\ \A q, r \in Serving : rpc[q].node = n /\ rpc[r].node = n => q = r
        /\ \A r \in Serving : rpc[r].node = n =>
              FarOK(rpc[r], fd[r], openFiles[rpc[r].h], cluster[n], posix[n])
        /\ (\A r \in Serving : rpc[r].node = n => fd[r].step # "accepted") =>
              CalmOK(cluster[n], posix[n], contentCache[n])

BillyInv == IInv /\ RangesInv /\ AloneInv /\ LinkInv /\ PosixInv

-----------------------------------------------------------------------------
\* What the ranges say of one request.
LEMMA RpcFacts ==
    ASSUME BillyInv, NEW r \in Rpcs
    PROVE  /\ TypeInv /\ writes \in Nat
           /\ rpc[r] \in RpcTypeAt(writes) /\ rpc[r].node \in Nodes
           /\ fd[r] \in FdType(writes)
           /\ LinkOK(rpc[r], fd[r], openFiles) /\ WalkOK(rpc[r], live)
<1>1. TypeInv /\ writes \in Nat /\ fd[r] \in FdType(writes)
  BY FdFacts DEF BillyInv, IInv, Rpcs
<1> QED
  BY <1>1 DEF BillyInv, RangesInv, LinkInv, AloneInv, RpcTypeAt

\* A request of the first v writes is one of the first w.
LEMMA RpcTypesGrow ==
    ASSUME NEW v \in Nat, NEW w \in Nat, v <= w
    PROVE  RpcTypeAt(v) \subseteq RpcTypeAt(w)
BY SeqsGrow DEF RpcTypeAt

\* A request without a handle that waits for nothing.
LEMMA NoRpcFacts ==
    ASSUME NEW w \in Nat
    PROVE  /\ NoRpc \in RpcTypeAt(w) /\ NoRpc.step = "idle" /\ NoRpc.h = 0
           /\ NoRpc.alone /\ NoRpc.off = 0
<1>1. (CHOOSE n \in Nodes : TRUE) \in Nodes
  BY BillyFSAssumption
<1>2. 0 \in 0..MaxLen /\ <<>> \in Seqs(w) /\ TRUE \in BOOLEAN
  BY OpenFilesAssumption DEF Seqs
<1> QED
  BY <1>1, <1>2 DEF NoRpc, RpcTypeAt, Ops, Steps

\* What another request does to a file.
SameFile(new, of, n) ==
    /\ new.node = of.node /\ new.dirty = of.dirty /\ new.reported = of.reported
    /\ WritesIn(new.buf) \subseteq WritesIn(of.buf)
    /\ of.node # n => new.buf = of.buf

\* Handle h may stay behind.
LeftOK(h, of, fail, app) == h \in fail /\ WritesIn(of.buf) \subseteq app \cup of.reported

\* A step of request r to `new', with descriptor d, that leaves what it does not
\* hold alone: the request and the tables, the handles, the node.
Moves(r, new, d) ==
    /\ rpc[r].step # "idle"
    /\ rpc' = [rpc EXCEPT ![r] = new] /\ fd' = [fd EXCEPT ![r] = d]
    /\ new \in RpcTypeAt(writes')
    /\ \/ new.step = "idle"
       \/ new.op = rpc[r].op /\ new.node = rpc[r].node /\ new.alone = rpc[r].alone
    /\ WalkOK(new, live')
    /\ live' \subseteq Nodes /\ gone' \subseteq Nodes
    /\ crashed' \in [yes : BOOLEAN, alone : BOOLEAN] /\ NilOnlyIfRaced'
    /\ requests' = requests
    /\ failed \subseteq failed' /\ failed' \subseteq 1..MaxRefs
    /\ nextHandle' + dups' <= MaxRefs + 1 /\ dups' = 0

HandlesMove(r, new, d) ==
    /\ writes <= writes' /\ late' = late /\ applied \subseteq applied'
    /\ LinkOK(new, d, openFiles') /\ new.h \in {0, rpc[r].h, nextHandle}
    /\ OpenHandles' \subseteq OpenHandles \cup {nextHandle}
    /\ \A h \in OpenHandles \ {rpc[r].h} :
          h \in OpenHandles' /\ SameFile(openFiles'[h], openFiles[h], rpc[r].node)
    /\ \A h \in OpenHandles' \cap {rpc[r].h, nextHandle} : 
          h = new.h \/ LeftOK(h, openFiles'[h], failed', applied')

NodeMoves(r, new, d) ==
    LET m == rpc[r].node
    IN  /\ excused \subseteq excused' /\ excused' \subseteq Nodes
        /\ posix' \in [Nodes -> Seqs(writes')]
        /\ new.step = "store" => WritesIn(new.content) \subseteq applied'
        /\ \A n \in Nodes \ {m} : /\ cluster'[n] = cluster[n] /\ posix'[n] = posix[n]
                                  /\ contentCache'[n] = contentCache[n]
        /\ m \notin excused' =>
              /\ new.step # "idle" =>
                    FarOK(new, d, openFiles'[new.h], cluster'[m], posix'[m])
              /\ d.step # "accepted" => CalmOK(cluster'[m], posix'[m], contentCache'[m])

\* Such a step keeps the invariant.
LEMMA RequestStep ==
    ASSUME BillyInv, IInv', NEW r \in Rpcs, NEW new, NEW d,
           Moves(r, new, d), HandlesMove(r, new, d), NodeMoves(r, new, d)
    PROVE  BillyInv'
<1> USE DEF Moves, HandlesMove, NodeMoves
<1> DEFINE c == rpc[r]
           m == rpc[r].node
<1>0. /\ writes \in Nat /\ writes' \in Nat /\ TypeInv
      /\ rpc \in [Rpcs -> RpcTypeAt(writes)] /\ fd \in [Fds -> FdType(writes)]
      /\ c \in RpcTypeAt(writes) /\ m \in Nodes
      /\ nextHandle \notin OpenHandles
      /\ \A q \in Rpcs : rpc[q].h # 0 => rpc[q].h \in OpenHandles
  <2>1. writes' \in Nat
    BY OpenFilesAssumption DEF IInv, TypeInv
  <2>2. nextHandle \notin OpenHandles /\ fd \in [Fds -> FdType(writes)]
    BY RpcFacts DEF TypeInv, HandlesOK, FdsOK
  <2>3. ASSUME NEW q \in Rpcs, rpc[q].h # 0 PROVE rpc[q].h \in OpenHandles
    <3>1. LinkOK(rpc[q], fd[q], openFiles)
      BY RpcFacts
    <3> QED
      BY <2>3, <3>1 DEF LinkOK, OpenHandles
  <2> QED
    BY <2>1, <2>2, <2>3, RpcFacts DEF BillyInv, RangesInv
<1>1. /\ rpc'[r] = new /\ fd'[r] = d
      /\ \A q \in Rpcs \ {r} : rpc'[q] = rpc[q] /\ fd'[q] = fd[q]
  BY <1>0 DEF Rpcs
<1>2. RangesInv'
  <2>1. RpcTypeAt(writes) \subseteq RpcTypeAt(writes')
    BY <1>0, RpcTypesGrow
  <2>2. rpc' \in [Rpcs -> RpcTypeAt(writes')]
    BY <1>0, <2>1
  <2> QED
    BY <2>2 DEF BillyInv, RangesInv
<1>3. AloneInv'
  <2>1. ASSUME NEW q \in Rpcs, q # r, rpc[q].alone
        PROVE  rpc[q].step = "idle"
    BY <2>1 DEF BillyInv, AloneInv, At
  <2>2. ASSUME NEW q \in Rpcs, q # r
        PROVE  WalkOK(rpc'[q], live')
    BY <1>1, <2>1, <2>2 DEF WalkOK
  <2>3. ASSUME NEW p \in Rpcs, NEW q \in Rpcs, q # p, rpc'[q].alone, rpc'[q].step # "idle"
        PROVE  rpc'[p].step = "idle"
    <3>1. q = r
      BY <1>1, <2>1, <2>3
    <3>2. c.alone /\ p # r
      BY <1>1, <2>3, <3>1
    <3> QED
      BY <1>1, <3>2 DEF BillyInv, AloneInv, At
  <2> QED
    BY <1>1, <2>2, <2>3 DEF AloneInv, At
<1>4. ASSUME NEW q \in Rpcs, q # r, rpc[q].h # 0
      PROVE  /\ rpc[q].h \in OpenHandles' /\ rpc[q].h \in OpenHandles
             /\ SameFile(openFiles'[rpc[q].h], openFiles[rpc[q].h], m)
  <2>1. rpc[q].h # c.h
    BY <1>4 DEF BillyInv, LinkInv
  <2> QED
    BY <1>0, <1>4, <2>1
<1>5. LinkInv'
  <2>1. ASSUME NEW q \in Rpcs, q # r
        PROVE  LinkOK(rpc[q], fd[q], openFiles')
    <3>1. LinkOK(rpc[q], fd[q], openFiles)
      BY RpcFacts
    <3> QED
      BY <1>4, <2>1, <3>1 DEF LinkOK, SameFile, OpenHandles
  <2>2. ASSUME NEW p \in Rpcs, NEW q \in Rpcs, p # q, rpc'[p].h = rpc'[q].h
        PROVE  rpc'[q].h = 0
    <3>1. \A s \in Rpcs \ {r} : rpc[s].h # 0 => rpc[s].h # c.h /\ rpc[s].h # nextHandle
      BY <1>0 DEF BillyInv, LinkInv
    <3>2. p # r /\ q # r => rpc[q].h = 0
      BY <1>1, <2>2 DEF BillyInv, LinkInv
    <3> QED
      BY <1>1, <2>2, <3>1, <3>2
  <2>3. ASSUME NEW h \in OpenHandles', \A q \in Rpcs : rpc'[q].h # h
        PROVE  LeftOK(h, openFiles'[h], failed', applied')
    <3>1. h # new.h
      BY <1>1, <2>3
    <3>2. CASE h \in {c.h, nextHandle}
      BY <2>3, <3>1, <3>2
    <3>3. CASE h \notin {c.h, nextHandle}
      <4>1. h \in OpenHandles /\ SameFile(openFiles'[h], openFiles[h], m)
        BY <3>3
      <4>2. \A q \in Rpcs : rpc[q].h # h
        BY <1>1, <2>3, <3>3
      <4>3. LeftOK(h, openFiles[h], failed, applied)
        BY <4>1, <4>2 DEF BillyInv, LinkInv, LeftBehindIsReported, LeftOK
      <4> QED
        BY <4>1, <4>3 DEF SameFile, LeftOK
    <3> QED
      BY <3>2, <3>3
  <2>4. ASSUME NEW q \in Rpcs, rpc'[q].step = "store"
        PROVE  WritesIn(rpc'[q].content) \subseteq applied'
    BY <1>1, <2>4 DEF BillyInv, LinkInv, At
  <2>5. LeftBehindIsReported'
    BY <2>3 DEF LeftBehindIsReported, LeftOK
  <2> QED
    BY <1>1, <2>1, <2>2, <2>4, <2>5 DEF BillyInv, LinkInv, At
<1>6. PosixInv'
  <2> SUFFICES ASSUME NEW n \in Nodes \ excused'
               PROVE  /\ \A p, q \in Serving' : rpc'[p].node = n /\ rpc'[q].node = n => p = q
                      /\ \A q \in Serving' : rpc'[q].node = n =>
                            FarOK(rpc'[q], fd'[q], openFiles'[rpc'[q].h], cluster'[n], posix'[n])
                      /\ (\A q \in Serving' : rpc'[q].node = n => fd'[q].step # "accepted") =>
                            CalmOK(cluster'[n], posix'[n], contentCache'[n])
    BY DEF PosixInv
  <2>1. /\ \A p, q \in Serving : rpc[p].node = n /\ rpc[q].node = n => p = q
        /\ \A q \in Serving : rpc[q].node = n =>
              FarOK(rpc[q], fd[q], openFiles[rpc[q].h], cluster[n], posix[n])
        /\ (\A q \in Serving : rpc[q].node = n => fd[q].step # "accepted") =>
              CalmOK(cluster[n], posix[n], contentCache[n])
    BY DEF BillyInv, PosixInv
  <2>2. /\ r \in Serving
        /\ \A q \in Rpcs \ {r} : q \in Serving' <=> q \in Serving
        /\ \A q \in Serving' : q \in Serving /\ rpc'[q].node = rpc[q].node
    BY <1>1 DEF Serving, At
  <2>3. CASE n = m
    <3>1. \A q \in Serving' : rpc'[q].node = n => q = r
      BY <2>1, <2>2, <2>3
    <3>2. new.step = "idle" => d.step # "accepted"
      BY DEF LinkOK
    <3>3. r \in Serving' <=> new.step # "idle"
      BY <1>1 DEF Serving, At
    <3>4. r \in Serving' => rpc'[r].node = n
      BY <2>2, <2>3
    <3>5. \A q \in Serving' : rpc'[q].node = n =>
              FarOK(rpc'[q], fd'[q], openFiles'[rpc'[q].h], cluster'[n], posix'[n])
      BY <1>1, <2>3, <3>1, <3>3
    <3>6. (\A q \in Serving' : rpc'[q].node = n => fd'[q].step # "accepted") =>
              d.step # "accepted"
      BY <1>1, <3>2, <3>3, <3>4
    <3> QED
      BY <2>3, <3>1, <3>5, <3>6
  <2>4. CASE n # m
    <3>1. /\ cluster'[n] = cluster[n] /\ posix'[n] = posix[n]
          /\ contentCache'[n] = contentCache[n]
      BY <2>4
    <3>2. \A q \in Serving' : rpc'[q].node = n => q # r /\ q \in Serving
      BY <2>2, <2>4
    <3>3. \A q \in Serving : rpc[q].node = n => q \in Serving' /\ q # r /\ q \in Rpcs
      BY <2>2, <2>4 DEF Serving
    <3>4. ASSUME NEW q \in Serving, rpc[q].node = n
          PROVE  FarOK(rpc[q], fd[q], openFiles'[rpc[q].h], cluster[n], posix[n])
      <4>1. q \in Rpcs /\ q # r
        BY <3>3, <3>4
      <4>2. /\ FarOK(rpc[q], fd[q], openFiles[rpc[q].h], cluster[n], posix[n])
            /\ LinkOK(rpc[q], fd[q], openFiles)
        BY <2>1, <3>4, <4>1, RpcFacts
      <4>3. rpc[q].step \in Holding =>
                /\ openFiles'[rpc[q].h].buf = openFiles[rpc[q].h].buf
                /\ openFiles'[rpc[q].h].dirty = openFiles[rpc[q].h].dirty
        BY <1>4, <2>4, <3>4, <4>1, <4>2 DEF LinkOK, SameFile
      <4> QED
        BY <4>2, <4>3 DEF FarOK
    <3>5. \A q \in Rpcs : q # r => rpc'[q] = rpc[q] /\ fd'[q] = fd[q]
      BY <1>1
    <3>6. Serving' \subseteq Rpcs
      BY DEF Serving
    <3>7. \A p, q \in Serving' : rpc'[p].node = n /\ rpc'[q].node = n => p = q
      BY <2>1, <3>2, <3>5, <3>6
    <3>8. \A q \in Serving' : rpc'[q].node = n =>
              FarOK(rpc'[q], fd'[q], openFiles'[rpc'[q].h], cluster'[n], posix'[n])
      BY <3>1, <3>2, <3>4, <3>5, <3>6
    <3>9. (\A q \in Serving' : rpc'[q].node = n => fd'[q].step # "accepted") =>
              CalmOK(cluster'[n], posix'[n], contentCache'[n])
      BY <2>1, <3>1, <3>3, <3>5
    <3> QED
      BY <3>7, <3>8, <3>9
  <2> QED
    BY <2>3, <2>4
<1> QED
  BY <1>2, <1>3, <1>5, <1>6 DEF BillyInv
-----------------------------------------------------------------------------
\* What is known of the node of a request, if it is not excused.
LEMMA OnlyOneServes ==
    ASSUME BillyInv, NEW r \in Rpcs, rpc[r].step # "idle", rpc[r].node \notin excused
    PROVE  /\ FarOK(rpc[r], fd[r], openFiles[rpc[r].h], cluster[rpc[r].node],
                    posix[rpc[r].node])
           /\ fd[r].step # "accepted" =>
                 CalmOK(cluster[rpc[r].node], posix[rpc[r].node], contentCache[rpc[r].node])
<1>1. r \in Serving /\ rpc[r].node \in Nodes \ excused
  BY RpcFacts DEF Serving, At
<1> QED
  BY <1>1 DEF BillyInv, PosixInv

\* What a step of the walk leaves as it was.
LEMMA TablesKept ==
    ASSUME BillyInv
    PROVE  /\ live \subseteq Nodes /\ gone \subseteq Nodes
           /\ crashed \in [yes : BOOLEAN, alone : BOOLEAN] /\ NilOnlyIfRaced
           /\ failed \subseteq 1..MaxRefs
BY DEF BillyInv, RangesInv, AloneInv

\* A step of the walk, of Stat or of Remove: it holds no file, and leaves all
\* files alone.
LEMMA WalkStep ==
    ASSUME BillyInv, NEW r \in Rpcs, NEW new \in RpcTypeAt(writes),
           rpc[r].step \in {"list", "look", "get", "open", "store"},
           rpc' = [rpc EXCEPT ![r] = new],
           new.step \in {"idle", "look", "get", "open", "store"}, new.h = 0,
           \/ new.step = "idle"
           \/ new.op = rpc[r].op /\ new.node = rpc[r].node /\ new.alone = rpc[r].alone,
           UNCHANGED <<files, requests, shadow>>,
           live' \subseteq Nodes, gone' \subseteq Nodes,
           crashed' \in [yes : BOOLEAN, alone : BOOLEAN],
           WalkOK(new, live'), NilOnlyIfRaced',
           new.step = "store" =>
              /\ WritesIn(new.content) \subseteq applied
              /\ new.content \in {cluster[rpc[r].node], Error}
    PROVE  BillyInv'
<1>1. IInv'
  BY IInvKept DEF BillyInv, files, vars
<1>2. UNCHANGED <<writes, fd, openFiles, nextHandle, dups, late, applied, cluster, contentCache,
                  posix, excused, failed, requests>>
  BY DEF files, history, shadow
<1>3. /\ LinkOK(rpc[r], fd[r], openFiles) /\ writes \in Nat /\ fd[r].h = 0 /\ fd[r].step = "idle"
      /\ rpc[r].h = 0
  BY RpcFacts DEF LinkOK
<1>4. 0 \notin OpenHandles /\ nextHandle \notin OpenHandles
  BY RpcFacts DEF TypeInv, HandlesOK
<1>5. Moves(r, new, fd[r])
  <2>1. fd' = [fd EXCEPT ![r] = fd[r]]
    BY <1>2, RpcFacts DEF TypeInv, FdsOK, Rpcs
  <2>2. nextHandle + dups <= MaxRefs + 1 /\ dups = 0
    BY DEF BillyInv, RangesInv
  <2> QED
    BY <1>2, <2>1, <2>2, TablesKept DEF Moves
<1>6. HandlesMove(r, new, fd[r])
  <2>1. LinkOK(new, fd[r], openFiles) /\ OpenHandles' = OpenHandles
    BY <1>2, <1>3 DEF LinkOK, OpenHandles
  <2> QED
    BY <1>2, <1>3, <1>4, <2>1 DEF HandlesMove, SameFile
<1>7. NodeMoves(r, new, fd[r])
  <2>1. rpc[r].node \notin excused =>
           /\ new.step # "idle" => FarOK(new, fd[r], openFiles[new.h], cluster[rpc[r].node],
                                         posix[rpc[r].node])
           /\ CalmOK(cluster[rpc[r].node], posix[rpc[r].node], contentCache[rpc[r].node])
    BY <1>3, OnlyOneServes DEF FarOK
  <2>2. posix \in [Nodes -> Seqs(writes)] /\ excused \subseteq Nodes
    BY DEF BillyInv, RangesInv
  <2> QED
    BY <1>2, <2>1, <2>2 DEF NodeMoves
<1> QED
  BY <1>1, <1>5, <1>6, <1>7, RequestStep
\* A request that goes on, or is answered.
LEMMA GoesFacts ==
    ASSUME BillyInv, NEW r \in Rpcs, NEW step \in Steps, Goes(r, step)
    PROVE  LET new == [rpc[r] EXCEPT !.step = step]
           IN  /\ rpc' = [rpc EXCEPT ![r] = new] /\ new \in RpcTypeAt(writes)
               /\ new.step = step /\ new.op = rpc[r].op /\ new.node = rpc[r].node
               /\ new.alone = rpc[r].alone /\ new.h = rpc[r].h /\ new.off = rpc[r].off
               /\ new.content = rpc[r].content
<1>1. rpc[r] \in RpcTypeAt(writes) /\ rpc \in [Rpcs -> RpcTypeAt(writes)]
  BY RpcFacts DEF BillyInv, RangesInv
<1> QED
  BY <1>1 DEF Goes, RpcTypeAt

\* The place of an answered request is idle.
LEMMA AnswersFacts ==
    ASSUME BillyInv, NEW r \in Rpcs, Answers(r)
    PROVE  /\ rpc' = [rpc EXCEPT ![r] = NoRpc] /\ NoRpc \in RpcTypeAt(writes)
           /\ NoRpc.step = "idle" /\ NoRpc.h = 0
           /\ \A t : WalkOK(NoRpc, t)
BY NoRpcFacts, RpcFacts DEF Answers, WalkOK

\* An answer without effect on the files.
LEMMA AnswerStep ==
    ASSUME BillyInv, NEW r \in Rpcs, Answers(r),
           rpc[r].step \in {"list", "look", "get", "open", "store"},
           UNCHANGED <<files, requests, shadow>>,
           live' \subseteq Nodes, gone' \subseteq Nodes,
           crashed' \in [yes : BOOLEAN, alone : BOOLEAN], NilOnlyIfRaced'
    PROVE  BillyInv'
<1> DEFINE new == NoRpc
<1>1. /\ rpc' = [rpc EXCEPT ![r] = new] /\ new \in RpcTypeAt(writes)
      /\ new.step = "idle" /\ new.h = 0 /\ WalkOK(new, live')
  BY AnswersFacts
<1> HIDE DEF new
<1> QED
  BY <1>1, WalkStep

\* The listing may leave fewer nodes.
LEMMA ListKeeps ==
    ASSUME BillyInv, NEW r \in Rpcs, List(r)
    PROVE  BillyInv'
<1>1. /\ At(r, "list") /\ UNCHANGED <<files, gone, requests, crashed, shadow>>
  BY DEF List
<1>2. CASE Answers(r) /\ UNCHANGED live
  BY <1>1, <1>2, AnswerStep, TablesKept DEF At, NilOnlyIfRaced
<1>3. CASE live' = KeptByListing /\ Goes(r, "look")
  <2> DEFINE new == [rpc[r] EXCEPT !.step = "look"]
  <2>1. /\ rpc' = [rpc EXCEPT ![r] = new] /\ new \in RpcTypeAt(writes)
        /\ new.step = "look" /\ new.op = rpc[r].op /\ new.node = rpc[r].node
        /\ new.alone = rpc[r].alone /\ new.h = rpc[r].h
    BY <1>3, GoesFacts DEF Steps
  <2>2. rpc[r].h = 0
    BY <1>1, RpcFacts DEF LinkOK, At
  <2>3. live' \subseteq Nodes
    BY <1>3, TablesKept DEF KeptByListing
  <2> HIDE DEF new
  <2>4. WalkOK(new, live')
    BY <2>1, <2>3 DEF WalkOK
  <2>5. /\ gone' \subseteq Nodes /\ crashed' \in [yes : BOOLEAN, alone : BOOLEAN]
        /\ NilOnlyIfRaced'
    BY <1>1, TablesKept DEF NilOnlyIfRaced
  <2> QED
    BY <1>1, <2>1, <2>2, <2>3, <2>4, <2>5, WalkStep DEF At
<1> QED
  BY <1>2, <1>3 DEF List

\* A name that is looked up is in the table.
LEMMA LookKeeps ==
    ASSUME BillyInv, NEW r \in Rpcs, Look(r)
    PROVE  BillyInv'
<1>1. /\ At(r, "look") /\ UNCHANGED <<files, live, gone, requests, crashed, shadow>>
  BY DEF Look
<1>2. CASE Answers(r)
  BY <1>1, <1>2, AnswerStep, TablesKept DEF At, NilOnlyIfRaced
<1>3. CASE rpc[r].node \in live /\ Goes(r, "get")
  <2> DEFINE new == [rpc[r] EXCEPT !.step = "get"]
  <2>1. /\ rpc' = [rpc EXCEPT ![r] = new] /\ new \in RpcTypeAt(writes)
        /\ new.step = "get" /\ new.op = rpc[r].op /\ new.node = rpc[r].node
        /\ new.alone = rpc[r].alone /\ new.h = rpc[r].h
    BY <1>3, GoesFacts DEF Steps
  <2>2. rpc[r].h = 0 /\ WalkOK(rpc[r], live)
    BY <1>1, RpcFacts DEF LinkOK, At
  <2> HIDE DEF new
  <2>3. WalkOK(new, live')
    BY <1>1, <1>3, <2>1, <2>2 DEF WalkOK, At
  <2>4. /\ live' \subseteq Nodes /\ gone' \subseteq Nodes
        /\ crashed' \in [yes : BOOLEAN, alone : BOOLEAN] /\ NilOnlyIfRaced'
    BY <1>1, TablesKept DEF NilOnlyIfRaced
  <2> QED
    BY <1>1, <2>1, <2>2, <2>3, <2>4, WalkStep DEF At
<1> QED
  BY <1>2, <1>3 DEF Look, LookedUp

\* The second look finds nothing only if the request is not alone.
LEMMA GetKeeps ==
    ASSUME BillyInv, NEW r \in Rpcs, Get(r)
    PROVE  BillyInv'
<1>1. /\ At(r, "get") /\ UNCHANGED <<files, live, gone, requests, shadow>>
      /\ rpc[r] \in RpcTypeAt(writes) /\ WalkOK(rpc[r], live) /\ rpc[r].h = 0
  BY RpcFacts DEF Get, LinkOK, At
<1>2. live' \subseteq Nodes /\ gone' \subseteq Nodes
  BY <1>1, TablesKept
<1>3. CASE rpc[r].node \notin live
  <2>1. crashed' = [yes |-> TRUE, alone |-> rpc[r].alone] /\ Answers(r)
    BY <1>3 DEF Get
  <2>2. ~ rpc[r].alone
    BY <1>1, <1>3 DEF WalkOK, At
  <2>3. crashed' \in [yes : BOOLEAN, alone : BOOLEAN]
    <3>1. rpc[r].alone \in BOOLEAN /\ TRUE \in BOOLEAN
      BY <1>1 DEF RpcTypeAt
    <3> QED
      BY <2>1, <3>1
  <2>4. NilOnlyIfRaced'
    BY <2>1, <2>2 DEF NilOnlyIfRaced
  <2> QED
    BY <1>1, <1>2, <2>1, <2>3, <2>4, AnswerStep DEF At
<1>4. CASE rpc[r].node \in live
  <2> DEFINE new == [rpc[r] EXCEPT !.step = "open"]
  <2>1. Goes(r, "open") /\ UNCHANGED crashed
    BY <1>4 DEF Get
  <2>2. /\ rpc' = [rpc EXCEPT ![r] = new] /\ new \in RpcTypeAt(writes)
        /\ new.step = "open" /\ new.op = rpc[r].op /\ new.node = rpc[r].node
        /\ new.alone = rpc[r].alone /\ new.h = rpc[r].h
    BY <2>1, GoesFacts DEF Steps
  <2> HIDE DEF new
  <2>3. WalkOK(new, live')
    BY <1>1, <1>4, <2>2 DEF WalkOK, At
  <2>4. crashed' \in [yes : BOOLEAN, alone : BOOLEAN] /\ NilOnlyIfRaced'
    BY <2>1, TablesKept DEF NilOnlyIfRaced
  <2> QED
    BY <1>1, <1>2, <2>2, <2>3, <2>4, WalkStep DEF At
<1> QED
  BY <1>3, <1>4

\* A file that vanished, a Stat that is answered from the cache, a Remove, a
\* CREATE that is refused.
LEMMA AnsweredKeeps ==
    ASSUME BillyInv, NEW r \in Rpcs,
           Vanished(r) \/ StatHit(r) \/ Remove(r) \/ RemoveRefused(r) \/ CreateRefused(r)
    PROVE  BillyInv'
<1>1. /\ Answers(r) /\ At(r, "open") /\ UNCHANGED <<files, requests, crashed, shadow>>
      /\ live' \subseteq live /\ gone' \subseteq gone \cup {rpc[r].node}
  BY DEF Vanished, StatHit, Remove, RemoveRefused, CreateRefused, Reaches
<1>2. /\ live' \subseteq Nodes /\ gone' \subseteq Nodes
      /\ crashed' \in [yes : BOOLEAN, alone : BOOLEAN] /\ NilOnlyIfRaced'
  BY <1>1, TablesKept, RpcFacts DEF NilOnlyIfRaced
<1> QED
  BY <1>1, <1>2, AnswerStep DEF At
-----------------------------------------------------------------------------
\* Stat's fetch: the object's content or an error text.
LEMMA StatFetchesKeeps ==
    ASSUME BillyInv, NEW r \in Rpcs, StatFetches(r)
    PROVE  BillyInv'
<1> DEFINE m == rpc[r].node
<1>1. /\ rpc[r] \in RpcTypeAt(writes) /\ m \in Nodes /\ At(r, "open") /\ rpc[r].h = 0
      /\ UNCHANGED <<files, live, gone, requests, crashed, shadow>>
      /\ WalkOK(rpc[r], live) /\ rpc[r].op = "stat"
      /\ rpc \in [Rpcs -> RpcTypeAt(writes)]
  BY RpcFacts DEF StatFetches, Reaches, LinkOK, At, BillyInv, RangesInv
<1>2. /\ cluster[m] \in Seqs(writes) /\ WritesIn(cluster[m]) \subseteq applied
  BY <1>1, RpcFacts DEF BillyInv, IInv, PrivateInv, TypeInv, ClusterOK
<1>3. Error \in Seqs(writes) /\ WritesIn(Error) \subseteq applied
  BY DEF Error, Seqs, Origin, WritesIn, Blocks
<1>4. PICK content \in {cluster[m], Error} :
          rpc' = [rpc EXCEPT ![r].step = "store", ![r].content = content]
  BY DEF StatFetches, Error
<1>5. content \in Seqs(writes) /\ WritesIn(content) \subseteq applied
  BY <1>2, <1>3, <1>4
<1> DEFINE new == [rpc[r] EXCEPT !.step = "store", !.content = content]
<1>6. /\ rpc' = [rpc EXCEPT ![r] = new] /\ new \in RpcTypeAt(writes)
      /\ new.step = "store" /\ new.op = rpc[r].op /\ new.node = rpc[r].node
      /\ new.alone = rpc[r].alone /\ new.h = rpc[r].h /\ new.content = content
  BY <1>1, <1>4, <1>5 DEF RpcTypeAt, Steps
<1> HIDE DEF new
<1>7. WalkOK(new, live')
  BY <1>1, <1>6 DEF WalkOK, At
<1>8. /\ live' \subseteq Nodes /\ gone' \subseteq Nodes
      /\ crashed' \in [yes : BOOLEAN, alone : BOOLEAN] /\ NilOnlyIfRaced'
  BY <1>1, TablesKept DEF NilOnlyIfRaced
<1> QED
  BY <1>1, <1>4, <1>5, <1>6, <1>7, <1>8, WalkStep DEF At

\* What a request takes from the node it serves.
LEMMA NodeFacts ==
    ASSUME BillyInv, NEW n \in Nodes
    PROVE  /\ cluster[n] \in Seqs(writes) /\ WritesIn(cluster[n]) \subseteq applied
           /\ contentCache[n] \in Seq(Seqs(writes)) /\ Len(contentCache[n]) <= 1
           /\ contentCache = [m \in Nodes |-> contentCache[m]]
           /\ \A i \in DOMAIN contentCache[n] : WritesIn(contentCache[n][i]) \subseteq applied
           /\ posix \in [Nodes -> Seqs(writes)] /\ excused \subseteq Nodes
           /\ nextHandle + dups <= MaxRefs + 1 /\ dups = 0
           /\ Error \in Seqs(writes) /\ WritesIn(Error) = {}
<1>1. Error \in Seqs(writes) /\ WritesIn(Error) = {}
  BY DEF Error, Seqs, Origin, WritesIn, Blocks
<1> QED
  BY <1>1 DEF BillyInv, RangesInv, IInv, PrivateInv, UnsavedIsPrivate, TypeInv, ClusterOK, CacheOK

\* A content that was applied may be cached.
LEMMA CacheKeeps ==
    ASSUME IInv, NEW n \in Nodes, NEW content \in Seqs(writes),
           WritesIn(content) \subseteq applied,
           contentCache' = [contentCache EXCEPT ![n] = <<content>>],
           UNCHANGED <<verbs, nextHandle, openFiles, cluster, fd, writes, dups, history>>
    PROVE  IInv'
<1>1. CacheOK(contentCache, writes)
  BY DEF IInv, TypeInv
<1>2. CacheOK(contentCache', writes')
  <2>1. writes \in Nat
    BY OpenFilesAssumption DEF IInv, TypeInv
  <2> QED
    BY <1>1, <2>1, CachedOne
<1>3. PrivateInv'
  BY <1>1 DEF IInv, PrivateInv, UnsavedIsPrivate, CacheOK, OpenHandles, history
<1> QED
  BY <1>1, <1>2, <1>3 DEF IInv, TypeInv, DirtyIsAllowed, FlushInv, FlushCoversOwed,
       LateInv, LostOnlyIfLate, AtRisk, Busy, OpenHandles, history

\* Stat caches what it has fetched: of a node it serves alone, what the object
\* still holds, or the error text.
LEMMA StatStoresKeeps ==
    ASSUME BillyInv, NEW r \in Rpcs, StatStores(r)
    PROVE  BillyInv'
<1> DEFINE m == rpc[r].node
           content == rpc[r].content
           new == NoRpc
<1>1. /\ rpc[r].step = "store" /\ m \in Nodes /\ content \in Seqs(writes)
      /\ WritesIn(content) \subseteq applied
      /\ LinkOK(rpc[r], fd[r], openFiles)
  BY RpcFacts DEF StatStores, At, BillyInv, LinkInv, RpcTypeAt
<1>2. /\ contentCache' = [contentCache EXCEPT ![m] = <<content>>]
      /\ Answers(r)
      /\ UNCHANGED <<verbs, nextHandle, openFiles, cluster, fd, writes, dups, history>>
      /\ UNCHANGED <<live, gone, requests, crashed, posix, excused, failed>>
  BY DEF StatStores, shadow
<1>3. IInv'
  BY <1>1, <1>2, CacheKeeps DEF BillyInv
<1>4. /\ rpc' = [rpc EXCEPT ![r] = new] /\ new \in RpcTypeAt(writes)
      /\ new.step = "idle" /\ new.h = 0 /\ WalkOK(new, live')
  BY <1>2, AnswersFacts
<1> HIDE DEF new
<1>5. /\ fd[r].h = 0 /\ fd[r].step = "idle" /\ rpc[r].h = 0 /\ writes \in Nat
      /\ 0 \notin OpenHandles /\ nextHandle \notin OpenHandles
  BY <1>1, RpcFacts DEF LinkOK, TypeInv, HandlesOK
<1>6. Moves(r, new, fd[r])
  <2>1. fd' = [fd EXCEPT ![r] = fd[r]]
    BY <1>2, RpcFacts DEF TypeInv, FdsOK, Rpcs
  <2> QED
    BY <1>1, <1>2, <1>4, <2>1, TablesKept, NodeFacts DEF Moves, NilOnlyIfRaced
<1>7. HandlesMove(r, new, fd[r])
  <2>1. LinkOK(new, fd[r], openFiles) /\ OpenHandles' = OpenHandles
    BY <1>2, <1>4, <1>5 DEF LinkOK, OpenHandles
  <2> QED
    BY <1>2, <1>4, <1>5, <2>1 DEF HandlesMove, SameFile, history
<1>8. NodeMoves(r, new, fd[r])
  <2>1. m \notin excused => CalmOK(cluster[m], posix[m], contentCache'[m])
    <3>1. contentCache'[m] = <<content>>
      BY <1>1, <1>2, NodeFacts
    <3> QED
      BY <1>1, <1>5, <3>1, OnlyOneServes DEF CalmOK, FarOK
  <2>2. \A n \in Nodes \ {m} : contentCache'[n] = contentCache[n]
    BY <1>1, <1>2, NodeFacts
  <2> QED
    BY <1>1, <1>2, <1>4, <2>1, <2>2, NodeFacts DEF NodeMoves
<1> QED
  BY <1>3, <1>6, <1>7, <1>8, RequestStep
-----------------------------------------------------------------------------
\* The request opens a file of its own: with a content the object has, with
\* an error text, or, of what it creates, with none.
LEMMA OpensOwn ==
    ASSUME BillyInv, IInv', NEW r \in Rpcs, NEW content \in Seqs(writes), NEW pending \in BOOLEAN,
           NEW step \in {"use", "close"},
           rpc[r].step = "open", NewHandle(r, rpc[r].node, content, pending),
           rpc' = [rpc EXCEPT ![r].step = step, ![r].h = nextHandle],
           step = "use" => rpc[r].op # "create",
           live' \subseteq Nodes, gone' \subseteq Nodes, UNCHANGED <<requests, crashed, shadow>>,
           step = "use" /\ rpc[r].node \notin excused =>
               content \in {cluster[rpc[r].node], Error},
           \A n \in Nodes \ {rpc[r].node} : contentCache'[n] = contentCache[n],
           rpc[r].node \notin excused =>
               contentCache'[rpc[r].node] \in
                   {contentCache[rpc[r].node], <<cluster[rpc[r].node]>>, <<Error>>}
    PROVE  BillyInv'
<1> DEFINE m == rpc[r].node
           of == NewOpenFile(m, content, pending)
           d == [NoFd EXCEPT !.h = nextHandle]
           new == [rpc[r] EXCEPT !.step = step, !.h = nextHandle]
<1>1. /\ rpc[r] \in RpcTypeAt(writes) /\ m \in Nodes /\ writes \in Nat
      /\ rpc \in [Rpcs -> RpcTypeAt(writes)]
      /\ nextHandle \in Nat \ {0} /\ nextHandle \notin OpenHandles /\ 0 \notin OpenHandles
      /\ rpc[r].h = 0 /\ fd[r].step = "idle" /\ WalkOK(rpc[r], live)
  BY RpcFacts DEF LinkOK, TypeInv, HandlesOK, BillyInv, RangesInv
<1>2. /\ rpc' = [rpc EXCEPT ![r] = new] /\ new \in RpcTypeAt(writes)
      /\ new.step = step /\ new.op = rpc[r].op /\ new.node = m
      /\ new.alone = rpc[r].alone /\ new.h = nextHandle
  BY <1>1 DEF RpcTypeAt, Steps
<1>3. d \in FdType(writes) /\ d.h = nextHandle /\ d.step = "idle"
  BY <1>1, FreshFd
<1>4. of.node = m /\ of.dirty = FALSE /\ of.buf = content
  BY DEF NewOpenFile
<1>5. /\ openFiles' = [h \in OpenHandles \cup {nextHandle} |->
             IF h = nextHandle THEN of ELSE openFiles[h]]
      /\ fd' = [fd EXCEPT ![r] = d]
      /\ UNCHANGED <<verbs, cluster, writes, dups, applied, late>>
      /\ nextHandle' = nextHandle + 1 /\ nextHandle + dups <= MaxRefs
  BY DEF NewHandle, Opened, CanRefer, history
<1>6. UNCHANGED <<requests, crashed, posix, excused, failed>>
  BY DEF shadow
<1> HIDE DEF of, d, new
<1>7. /\ OpenHandles' = OpenHandles \cup {nextHandle} /\ openFiles'[nextHandle] = of
      /\ \A h \in OpenHandles : openFiles'[h] = openFiles[h]
  BY <1>1, <1>5 DEF OpenHandles
<1>8. Moves(r, new, d)
  <2>1. WalkOK(new, live')
    BY <1>1, <1>2 DEF WalkOK
  <2>2. nextHandle' + dups' <= MaxRefs + 1 /\ dups' = 0
    BY <1>1, <1>5, NodeFacts, OpenFilesAssumption
  <2> QED
    BY <1>1, <1>2, <1>5, <1>6, <2>1, <2>2, TablesKept DEF Moves, NilOnlyIfRaced
<1>9. HandlesMove(r, new, d)
  <2>1. LinkOK(new, d, openFiles')
    BY <1>1, <1>2, <1>3, <1>4, <1>7 DEF LinkOK, OpenHandles
  <2> QED
    BY <1>1, <1>2, <1>5, <1>7, <2>1 DEF HandlesMove, SameFile
<1>10. NodeMoves(r, new, d)
  <2>1. ASSUME m \notin excused
        PROVE  /\ FarOK(new, d, openFiles'[new.h], cluster[m], posix[m])
               /\ CalmOK(cluster[m], posix[m], contentCache'[m])
    <3>1. CalmOK(cluster[m], posix[m], contentCache[m])
      BY <1>1, <2>1, OnlyOneServes
    <3>2. FarOK(new, d, openFiles'[new.h], cluster[m], posix[m])
      BY <1>2, <1>4, <1>7, <2>1 DEF FarOK
    <3> QED
      BY <2>1, <3>1, <3>2 DEF CalmOK
  <2> QED
    BY <1>1, <1>2, <1>5, <1>6, <2>1, NodeFacts DEF NodeMoves
<1> QED
  BY <1>8, <1>9, <1>10, RequestStep

\* For a WRITE or a SETATTR.
LEMMA OpenOwnKeeps ==
    ASSUME BillyInv, NEW r \in Rpcs, OpenOwn(r)
    PROVE  BillyInv'
<1> DEFINE m == rpc[r].node
           step == "use"
<1>1. /\ rpc[r].op \in {"write", "setattr"} /\ rpc[r].step = "open" /\ m \in live /\ m \in Nodes
      /\ OpenFile(r, m)
      /\ rpc' = [rpc EXCEPT ![r].step = step, ![r].h = nextHandle]
      /\ UNCHANGED <<live, gone, requests, crashed, shadow>>
  BY RpcFacts DEF OpenOwn, At
<1>2. IInv'
  BY <1>1, OpenFileKeeps DEF BillyInv, Rpcs
<1>3. /\ live' \subseteq Nodes /\ gone' \subseteq Nodes /\ step \in {"use", "close"}
      /\ step = "use" => rpc[r].op # "create"
      /\ FALSE \in BOOLEAN
  BY <1>1, TablesKept
<1>4. m \notin excused => CalmOK(cluster[m], posix[m], contentCache[m])
  BY <1>1, OnlyOneServes, RpcFacts DEF LinkOK
<1> HIDE DEF step
<1>5. CASE /\ contentCache[m] # <<>>
           /\ NewHandle(r, m, contentCache[m][1], FALSE)
           /\ UNCHANGED contentCache
  <2> DEFINE content == contentCache[m][1]
  <2>1. content \in Seqs(writes) /\ (m \notin excused => content \in {cluster[m], Error})
    BY <1>1, <1>4, <1>5, NodeFacts DEF CalmOK
  <2>2. /\ NewHandle(r, m, content, FALSE)
        /\ \A n \in Nodes \ {m} : contentCache'[n] = contentCache[n]
        /\ contentCache'[m] = contentCache[m]
    BY <1>5
  <2> HIDE DEF content
  <2> QED
    BY <1>1, <1>2, <1>3, <2>1, <2>2, OpensOwn
<1>6. ASSUME NEW content \in {<<ErrorText>>} \cup (IF CanFetch(m) THEN {cluster[m]} ELSE {}),
             NewHandle(r, m, content, FALSE),
             contentCache' = [contentCache EXCEPT ![m] = <<content>>]
      PROVE  BillyInv'
  <2>1. content \in {cluster[m], Error}
    BY <1>6 DEF Error
  <2>2. content \in Seqs(writes)
    BY <1>1, <2>1, NodeFacts
  <2>3. /\ \A n \in Nodes \ {m} : contentCache'[n] = contentCache[n]
        /\ contentCache'[m] \in {contentCache[m], <<cluster[m]>>, <<Error>>}
    BY <1>1, <1>6, <2>1, NodeFacts
  <2> QED
    BY <1>1, <1>2, <1>3, <1>6, <2>1, <2>2, <2>3, OpensOwn
<1> QED
  BY <1>1, <1>5, <1>6 DEF OpenFile

\* For a CREATE.
LEMMA CreateOwnKeeps ==
    ASSUME BillyInv, NEW r \in Rpcs, CreateOwn(r)
    PROVE  BillyInv'
<1> DEFINE m == rpc[r].node
           step == "close"
           content == <<>>
<1>1. /\ rpc[r].step = "open" /\ m \in Nodes /\ CreateAndOpen(r, m)
      /\ live' = live \cup {m} /\ gone' \subseteq gone
      /\ rpc' = [rpc EXCEPT ![r].step = step, ![r].h = nextHandle]
      /\ UNCHANGED <<requests, crashed, shadow>>
  BY RpcFacts DEF CreateOwn, Reaches, At
<1>2. IInv'
  BY <1>1, CreateAndOpenKeeps DEF BillyInv, Rpcs
<1>3. NewHandle(r, m, content, TRUE) /\ UNCHANGED contentCache
  BY <1>1 DEF CreateAndOpen
<1>4. /\ content \in Seqs(writes) /\ TRUE \in BOOLEAN /\ step \in {"use", "close"}
      /\ live' \subseteq Nodes /\ gone' \subseteq Nodes /\ step # "use"
  BY <1>1, TablesKept DEF Seqs
<1> HIDE DEF step, content
<1> QED
  BY <1>1, <1>2, <1>3, <1>4, OpensOwn
-----------------------------------------------------------------------------
\* The numbers handed out so far.
LEMMA HandlesInRange ==
    ASSUME BillyInv
    PROVE  OpenHandles \subseteq 1..MaxRefs
<1>1. OpenHandles \subseteq 1..(nextHandle - 1) /\ nextHandle \in Nat
  BY DEF BillyInv, IInv, TypeInv, HandlesOK
<1>2. nextHandle <= MaxRefs + 1 /\ MaxRefs \in Nat
  BY <1>1, OpenFilesAssumption DEF BillyInv, RangesInv
<1>3. ASSUME NEW h \in 1..(nextHandle - 1) PROVE h \in 1..MaxRefs
  BY <1>1, <1>2
<1> QED
  BY <1>1, <1>3

\* The file a request holds.
LEMMA HeldFacts ==
    ASSUME BillyInv, NEW r \in Rpcs, rpc[r].step \in Holding
    PROVE  LET h == rpc[r].h
           IN  /\ h \in OpenHandles /\ h # 0 /\ h # nextHandle /\ h \in Nat
               /\ fd[r].h = h /\ openFiles[h].node = rpc[r].node /\ NodeOf(r) = rpc[r].node
               /\ openFiles[h].dirty => rpc[r].op = "write" /\ rpc[r].step = "close"
               /\ rpc[r].step = "use" => fd[r].step = "idle"
               /\ fd[r].step # "idle" =>
                     /\ fd[r].op = "close" /\ openFiles[h].dirty
                     /\ WritesIn(openFiles[h].buf) \subseteq fd[r].owed
               /\ openFiles[h] \in FileType(writes) /\ nextHandle \notin OpenHandles
               /\ h \in 1..MaxRefs /\ failed \subseteq 1..MaxRefs
               /\ \A g \in Fds \ {r} : fd[g].h # h
<1> DEFINE h == rpc[r].h
<1>1. LinkOK(rpc[r], fd[r], openFiles) /\ TypeInv
  BY RpcFacts
<1>2. h \in OpenHandles /\ h # 0 /\ fd[r].h = h /\ openFiles[h].node = rpc[r].node
  BY <1>1 DEF LinkOK, OpenHandles
<1>3. /\ openFiles[h].dirty => rpc[r].op = "write" /\ rpc[r].step = "close"
      /\ rpc[r].step = "use" => fd[r].step = "idle"
      /\ fd[r].step # "idle" =>
            /\ fd[r].op = "close" /\ openFiles[h].dirty
            /\ WritesIn(openFiles[h].buf) \subseteq fd[r].owed
  BY <1>1 DEF LinkOK
<1>4. ASSUME NEW g \in Fds \ {r} PROVE fd[g].h # h
  <2>1. LinkOK(rpc[g], fd[g], openFiles)
    BY RpcFacts DEF Rpcs
  <2>2. rpc[g].h # h
    BY <1>2 DEF BillyInv, LinkInv, Rpcs
  <2>3. fd[g].h \in {0, rpc[g].h}
    <3>1. rpc[g].step \in Steps
      BY RpcFacts DEF RpcTypeAt, Rpcs
    <3> QED
      BY <2>1, <3>1 DEF LinkOK, Steps
  <2> QED
    BY <1>2, <2>2, <2>3
<1>5. /\ h # nextHandle /\ h \in Nat /\ openFiles[h] \in FileType(writes)
      /\ nextHandle \notin OpenHandles
  <2>1. nextHandle \in Nat /\ OpenHandles \subseteq 1..(nextHandle - 1)
    BY <1>1 DEF TypeInv, HandlesOK
  <2> HIDE DEF h
  <2>2. openFiles[h] \in FileType(writes)
    BY <1>1, <1>2, FileFacts
  <2> QED
    BY <1>2, <2>1, <2>2
<1>6. h \in 1..MaxRefs /\ failed \subseteq 1..MaxRefs
  BY <1>2, HandlesInRange DEF BillyInv, RangesInv
<1> QED
  BY <1>2, <1>3, <1>4, <1>5, <1>6 DEF NodeOf

\* A step of a request that holds a file, to `new' with descriptor d.
HeldMoves(r, new, d) ==
    /\ rpc[r].step \in Holding
    /\ rpc' = [rpc EXCEPT ![r] = new] /\ fd' = [fd EXCEPT ![r] = d]
    /\ new \in RpcTypeAt(writes')
    /\ new.step \in {"idle", "failed", "close", "release"} /\ new.h \in {0, rpc[r].h}
    /\ \/ new.step = "idle"
       \/ new.op = rpc[r].op /\ new.node = rpc[r].node /\ new.alone = rpc[r].alone
    /\ UNCHANGED <<live, gone, requests, crashed, nextHandle, dups, late>>
    /\ writes <= writes' /\ applied \subseteq applied'
    /\ LinkOK(new, d, openFiles') /\ OpenHandles' = OpenHandles
    /\ \A h \in OpenHandles \ {rpc[r].h} :
          SameFile(openFiles'[h], openFiles[h], rpc[r].node)
    /\ failed \subseteq failed' /\ failed' \subseteq 1..MaxRefs
    /\ new.h = rpc[r].h \/ LeftOK(rpc[r].h, openFiles'[rpc[r].h], failed', applied')

\* Such a step keeps the invariant.
LEMMA HeldStep ==
    ASSUME BillyInv, IInv', NEW r \in Rpcs, NEW new, NEW d,
           HeldMoves(r, new, d), NodeMoves(r, new, d)
    PROVE  BillyInv'
<1> USE DEF HeldMoves
<1>1. Moves(r, new, d)
  <2>1. WalkOK(new, live')
    BY DEF WalkOK
  <2>2. nextHandle' + dups' <= MaxRefs + 1 /\ dups' = 0
    BY DEF BillyInv, RangesInv
  <2> QED
    BY <2>1, <2>2, TablesKept DEF Moves, NilOnlyIfRaced
<1>2. HandlesMove(r, new, d)
  <2>1. nextHandle \notin OpenHandles /\ rpc[r].h # nextHandle
    BY HeldFacts
  <2> QED
    BY <2>1 DEF HandlesMove
<1> QED
  BY <1>1, <1>2, RequestStep

\* A block that was written at an offset is there.
LEMMA WrittenAt ==
    ASSUME NEW w \in Nat, NEW buf \in Seqs(w), NEW off \in Nat, NEW b
    PROVE  off + 1 \in DOMAIN Written(buf, off, b) /\ Written(buf, off, b)[off + 1] = b
<1> DEFINE n == IF off + 1 > Len(buf) THEN off + 1 ELSE Len(buf)
           f(i) == CASE i = off + 1 -> b
                     [] i # off + 1 /\ i <= Len(buf) -> buf[i]
                     [] OTHER -> Hole
<1>1. off + 1 \in 1..n /\ f(off + 1) = b
  BY DEF Seqs
<1>2. Written(buf, off, b) = [i \in 1..n |-> f(i)]
  BY DEF Written
<1> HIDE DEF n, f
<1> QED
  BY <1>1, <1>2

\* No other descriptor has the handle, and no flush of it is under way: the
\* write is in the buffer only, over what the object holds.
LEMMA WriteOwnKeeps ==
    ASSUME BillyInv, NEW r \in Rpcs, NEW off \in 0..MaxLen, WriteOwn(r, off)
    PROVE  BillyInv'
<1> DEFINE m == rpc[r].node
           h == rpc[r].h
           b == writes + 1
           buf == Written(openFiles[h].buf, off, b)
           of == [openFiles[h] EXCEPT !.buf = buf, !.dirty = TRUE]
           new == [rpc[r] EXCEPT !.step = "close", !.off = off]
<1>0. /\ rpc[r].step = "use" /\ rpc[r].op = "write" /\ off \in Nat
      /\ rpc[r] \in RpcTypeAt(writes) /\ writes \in Nat /\ m \in Nodes
      /\ rpc \in [Rpcs -> RpcTypeAt(writes)] /\ fd \in [Fds -> FdType(writes)]
      /\ TypeInv
  BY RpcFacts, OpenFilesAssumption DEF WriteOwn, At, BillyInv, RangesInv, TypeInv, FdsOK
<1>1. /\ h \in OpenHandles /\ h # 0 /\ fd[r].h = h /\ openFiles[h].node = m /\ fd[r].step = "idle"
      /\ openFiles[h] \in FileType(writes) /\ failed \subseteq 1..MaxRefs
      /\ \A g \in Fds \ {r} : fd[g].h # h
  BY <1>0, HeldFacts
<1>2. /\ WriteHandle(r, off)
      /\ rpc' = [rpc EXCEPT ![r].step = "close", ![r].off = off]
      /\ excused' = IF ErrorText \in Blocks(openFiles[h].buf) THEN excused \cup {m} ELSE excused
      /\ UNCHANGED <<live, gone, requests, crashed, posix, failed>>
  BY DEF WriteOwn
<1>3. IInv'
  BY <1>2, WriteHandleKeeps DEF BillyInv, Rpcs
<1>4. /\ Store(h, off, b) /\ fd' = [g \in Fds |-> SliceAfter(g, h, off, b)]
      /\ writes' = writes + 1 /\ contentCache' = contentCache
      /\ late' = IF \E g \in Fds : fd[g].h = h /\ Busy(g) THEN late \cup {b} ELSE late
      /\ UNCHANGED <<verbs, nextHandle, cluster, dups, applied>>
  BY <1>1, <1>2 DEF WriteHandle, CacheAfter
<1>5. ~ \E g \in Fds : fd[g].h = h /\ Busy(g)
  BY <1>1 DEF Busy
<1>6. fd' = fd /\ late' = late
  <2>1. \A g \in Fds : SliceAfter(g, h, off, b) = fd[g]
    BY <1>5 DEF SliceAfter
  <2> QED
    BY <1>0, <1>4, <1>5, <2>1
<1>7. openFiles[h].buf \in Seqs(writes)
  BY <1>1 DEF FileType
<1>8. openFiles' = [openFiles EXCEPT ![h] = of]
  BY <1>1, <1>4 DEF Store, OpenHandles
<1>9. /\ of.node = m /\ of.buf = buf /\ of.dirty = TRUE
  BY <1>1 DEF FileType
<1>10. /\ rpc' = [rpc EXCEPT ![r] = new] /\ new \in RpcTypeAt(writes)
       /\ new.step = "close" /\ new.op = "write" /\ new.node = m /\ new.off = off
       /\ new.alone = rpc[r].alone /\ new.h = h
  BY <1>0, <1>2 DEF RpcTypeAt, Steps
<1>11. off + 1 \in DOMAIN buf /\ buf[off + 1] = b
  BY <1>0, <1>7, WrittenAt
<1> HIDE DEF buf, of, new, b
<1>12. /\ OpenHandles' = OpenHandles /\ openFiles'[h] = of
       /\ \A g \in OpenHandles \ {h} : openFiles'[g] = openFiles[g]
  BY <1>1, <1>8 DEF OpenHandles
<1>13. new \in RpcTypeAt(writes') /\ writes <= writes'
  <2>1. RpcTypeAt(writes) \subseteq RpcTypeAt(writes')
    BY <1>0, <1>4, RpcTypesGrow
  <2> QED
    BY <1>0, <1>4, <1>10, <2>1
<1>14. LinkOK(new, fd[r], openFiles')
  BY <1>1, <1>9, <1>10, <1>12 DEF LinkOK, OpenHandles
<1>15. NodeMoves(r, new, fd[r])
  <2>1. ASSUME m \notin excused'
        PROVE  /\ FarOK(new, fd[r], openFiles'[new.h], cluster[m], posix[m])
               /\ CalmOK(cluster[m], posix[m], contentCache[m])
    <3>1. m \notin excused /\ ErrorText \notin Blocks(openFiles[h].buf)
      BY <1>2, <2>1
    <3>2. /\ openFiles[h].buf \in {cluster[m], Error}
          /\ CalmOK(cluster[m], posix[m], contentCache[m])
      BY <1>0, <1>1, <3>1, OnlyOneServes DEF FarOK
    <3>3. ErrorText \in Blocks(Error)
      BY DEF Blocks, Error
    <3>4. openFiles[h].buf = posix[m]
      BY <3>1, <3>2, <3>3 DEF CalmOK
    <3>5. of.buf = Written(posix[m], off, of.buf[off + 1])
      BY <1>9, <1>11, <3>4 DEF buf
    <3>6. FarOK(new, fd[r], of, cluster[m], posix[m])
      BY <1>1, <1>9, <1>10, <1>11, <3>5 DEF FarOK
    <3> QED
      BY <1>10, <1>12, <3>2, <3>6
  <2>2. excused \subseteq excused' /\ excused' \subseteq Nodes
    BY <1>0, <1>2, NodeFacts
  <2>3. posix' \in [Nodes -> Seqs(writes')]
    <3>1. Seqs(writes) \subseteq Seqs(writes')
      BY <1>0, <1>4, SeqsGrow
    <3>2. posix' \in [Nodes -> Seqs(writes)]
      BY <1>0, <1>2, NodeFacts
    <3> QED
      BY <3>1, <3>2
  <2> QED
    BY <1>2, <1>4, <1>10, <2>1, <2>2, <2>3 DEF NodeMoves
<1>16. fd' = [fd EXCEPT ![r] = fd[r]]
  BY <1>0, <1>6 DEF Rpcs
<1>17. \A g \in OpenHandles \ {h} : SameFile(openFiles'[g], openFiles[g], m)
  BY <1>12 DEF SameFile
<1>18. HeldMoves(r, new, fd[r])
  BY <1>0, <1>1, <1>2, <1>4, <1>6, <1>10, <1>12, <1>13, <1>14, <1>16, <1>17 DEF HeldMoves
<1> QED
  BY <1>3, <1>15, <1>18, HeldStep
\* To be done with a file in which nothing was written.
LEMMA GoesClean ==
    ASSUME BillyInv, IInv', NEW r \in Rpcs, rpc[r].step = "use",
           NEW step \in {"failed", "close"}, Goes(r, step),
           UNCHANGED <<verbs, nextHandle, contentCache, cluster, fd, writes, dups, late, applied>>,
           UNCHANGED <<live, gone, requests, crashed, posix, failed>>,
           excused \subseteq excused', excused' \subseteq Nodes,
           OpenHandles' = OpenHandles,
           \A h \in OpenHandles : SameFile(openFiles'[h], openFiles[h], rpc[r].node),
           ~ openFiles[rpc[r].h].dirty
    PROVE  BillyInv'
<1> DEFINE m == rpc[r].node
           h == rpc[r].h
           new == [rpc[r] EXCEPT !.step = step]
<1>1. /\ h \in OpenHandles /\ h # 0 /\ fd[r].h = h /\ openFiles[h].node = m /\ fd[r].step = "idle"
  BY HeldFacts
<1>2. /\ rpc' = [rpc EXCEPT ![r] = new] /\ new \in RpcTypeAt(writes)
      /\ new.step = step /\ new.op = rpc[r].op /\ new.node = m
      /\ new.alone = rpc[r].alone /\ new.h = h
  <2>1. step \in Steps
    BY DEF Steps
  <2> QED
    BY <2>1, GoesFacts
<1> HIDE DEF new
<1>3. openFiles'[h].node = m /\ openFiles'[h].dirty = openFiles[h].dirty
  BY <1>1 DEF SameFile
<1>4. HeldMoves(r, new, fd[r])
  <2>1. LinkOK(new, fd[r], openFiles')
    BY <1>1, <1>2, <1>3 DEF LinkOK, OpenHandles
  <2>2. fd' = [fd EXCEPT ![r] = fd[r]] /\ writes \in Nat
    BY RpcFacts DEF TypeInv, FdsOK, Rpcs
  <2>3. /\ writes' = writes /\ applied \subseteq applied' /\ new \in RpcTypeAt(writes')
        /\ UNCHANGED <<live, gone, requests, crashed, nextHandle, dups, late>>
    BY <1>2
  <2>4. \A g \in OpenHandles \ {h} : SameFile(openFiles'[g], openFiles[g], m)
    OBVIOUS
  <2>5. writes <= writes' /\ OpenHandles' = OpenHandles /\ rpc[r].step \in Holding
    BY <2>2
  <2>6. failed \subseteq failed' /\ failed' \subseteq 1..MaxRefs
    BY <1>1, HeldFacts
  <2> QED
    BY <2>1, <2>2, <2>3, <2>4, <2>5, <2>6, <1>2 DEF HeldMoves
<1>5. NodeMoves(r, new, fd[r])
  <2>1. m \notin excused => CalmOK(cluster[m], posix[m], contentCache[m])
    BY <1>1, OnlyOneServes
  <2>2. FarOK(new, fd[r], openFiles'[new.h], cluster[m], posix[m])
    BY <1>2, <1>3 DEF FarOK
  <2>3. posix \in [Nodes -> Seqs(writes)]
    BY DEF BillyInv, RangesInv
  <2> QED
    BY <1>2, <2>1, <2>2, <2>3 DEF NodeMoves
<1> QED
  BY <1>4, <1>5, HeldStep

\* A refused write, or a refused cut, leaves the file as it was.
LEMMA RefusedKeeps ==
    ASSUME BillyInv, NEW r \in Rpcs, WriteOwnRefused(r) \/ TruncateRefused(r)
    PROVE  BillyInv'
<1> DEFINE step == "failed"
<1>1. /\ rpc[r].step = "use" /\ Goes(r, step) /\ step \in {"failed", "close"}
      /\ UNCHANGED <<verbs, nextHandle, openFiles, contentCache, cluster, fd, writes, dups,
                     late, applied>>
      /\ UNCHANGED <<live, gone, requests, crashed, posix, failed, excused>>
  BY DEF WriteOwnRefused, WriteRefused, TruncateRefused, At, shadow, files, history
<1> HIDE DEF step
<1>2. IInv'
  <2>1. CASE WriteOwnRefused(r)
    BY <2>1, WriteRefusedKeeps DEF WriteOwnRefused, BillyInv, Rpcs
  <2>2. CASE TruncateRefused(r)
    BY <2>2, IInvKept DEF TruncateRefused, BillyInv, files, vars
  <2> QED
    BY <2>1, <2>2
<1>3. ~ openFiles[rpc[r].h].dirty
  BY <1>1, HeldFacts
<1>4. excused \subseteq Nodes
  BY DEF BillyInv, RangesInv
<1>5. OpenHandles' = OpenHandles
  BY <1>1 DEF OpenHandles
<1>6. \A h \in OpenHandles : SameFile(openFiles'[h], openFiles[h], rpc[r].node)
  BY <1>1 DEF SameFile
<1> QED
  BY <1>1, <1>2, <1>3, <1>4, <1>5, <1>6, GoesClean

\* The cut is of the buffers of the node, the other handles' with it.
LEMMA TruncateOwnKeeps ==
    ASSUME BillyInv, NEW r \in Rpcs, NEW size \in 0..MaxLen, TruncateOwn(r, size)
    PROVE  BillyInv'
<1> DEFINE m == rpc[r].node
<1>1. /\ rpc[r].step = "use" /\ rpc[r].op = "setattr" /\ Goes(r, "close") /\ m \in Nodes
      /\ Truncate(m, size)
      /\ excused' = IF size # Len(posix[m]) THEN excused \cup {m} ELSE excused
      /\ UNCHANGED <<live, gone, requests, crashed, posix, failed>>
  BY RpcFacts DEF TruncateOwn, At
<1>2. excused \subseteq excused' /\ excused' \subseteq Nodes
  BY <1>1, NodeFacts
<1>3. ~ openFiles[rpc[r].h].dirty
  BY <1>1, HeldFacts
<1>4. IInv'
  BY <1>1, TruncateKeeps DEF BillyInv
<1>5. /\ UNCHANGED <<verbs, nextHandle, contentCache, cluster, fd, writes, dups, late, applied>>
      /\ openFiles' = [h \in DOMAIN openFiles |->
            IF openFiles[h].node = m /\ size < Len(openFiles[h].buf)
            THEN [openFiles[h] EXCEPT !.buf = SubSeq(@, 1, size)]
            ELSE openFiles[h]]
  BY <1>1 DEF Truncate, history
<1>6. OpenHandles' = OpenHandles
  BY <1>5 DEF OpenHandles
<1>7. ASSUME NEW h \in OpenHandles
      PROVE  SameFile(openFiles'[h], openFiles[h], m)
  <2> DEFINE of == openFiles[h]
  <2>1. of \in FileType(writes) /\ writes \in Nat /\ of.buf \in Seqs(writes)
    BY FileFacts, RpcFacts DEF FileType
  <2>2. CASE of.node = m /\ size < Len(of.buf)
    <3> DEFINE cut == SubSeq(of.buf, 1, size)
    <3>1. WritesIn(cut) \subseteq WritesIn(of.buf)
      BY <2>1, <2>2, CutProperties
    <3> HIDE DEF cut
    <3>2. openFiles'[h] = [of EXCEPT !.buf = cut]
      BY <1>5, <2>2 DEF OpenHandles, cut
    <3> QED
      BY <2>1, <2>2, <3>1, <3>2 DEF SameFile, FileType
  <2>3. CASE ~ (of.node = m /\ size < Len(of.buf))
    BY <1>5, <2>3 DEF SameFile, OpenHandles
  <2> QED
    BY <2>2, <2>3
<1> DEFINE step == "close"
<1>8. step \in {"failed", "close"} /\ Goes(r, step)
  BY <1>1
<1> HIDE DEF step
<1> QED
  BY <1>1, <1>2, <1>3, <1>4, <1>5, <1>6, <1>7, <1>8, GoesClean

\* A descriptor may leave a handle that is clean, as it is.
LEMMA DropKeeps ==
    ASSUME IInv, NEW f \in Fds, fd[f].h \in OpenHandles, fd[f].step = "idle",
           ~ openFiles[fd[f].h].dirty, fd' = [fd EXCEPT ![f] = NoFd],
           UNCHANGED <<verbs, nextHandle, openFiles, contentCache, cluster, writes, dups, history>>
    PROVE  IInv'
<1>1. TypeInv /\ writes \in Nat /\ fd \in [Fds -> FdType(writes)]
  BY FdFacts DEF IInv, TypeInv, FdsOK
<1>2. NoFd \in FdType(writes) /\ NoFd.h = 0 /\ NoFd.step = "idle"
  <2>1. <<>> \in Seqs(writes) /\ FALSE \in BOOLEAN
    BY DEF Seqs
  <2> QED
    BY <2>1 DEF NoFd, FdType
<1>3. /\ fd' \in [Fds -> FdType(writes)] /\ fd'[f] = NoFd
      /\ \A g \in Fds \ {f} : fd'[g] = fd[g]
      /\ \A g \in Fds : fd'[g].step # "idle" => g # f
  BY <1>1, <1>2
<1>4. OpenHandles' = OpenHandles
  BY DEF OpenHandles
<1>5. TypeInv'
  <2>1. FdsOK(fd, writes)' /\ RefersOK(fd, OpenHandles)'
    BY <1>1, <1>2, <1>3, <1>4 DEF TypeInv, FdsOK, RefersOK
  <2> QED
    BY <1>1, <1>4, <2>1 DEF TypeInv, FilesOK, ClusterOK, CacheOK, history
<1>6. DirtyIsAllowed' /\ PrivateInv'
  BY <1>2, <1>3, <1>4 DEF IInv, DirtyIsAllowed, PrivateInv, UnsavedIsPrivate, history
<1>7. FlushInv'
  BY <1>2, <1>3 DEF IInv, FlushInv, FlushCoversOwed, history
<1>8. LateInv'
  <2>1. ASSUME NEW h \in OpenHandles, NEW b \in 1..writes, AtRisk(h, b)
        PROVE  /\ openFiles[h].dirty /\ h # fd[f].h
               /\ \E g \in Fds : fd'[g].h = h
               /\ \A g \in Fds : fd'[g].h = h /\ Busy(g)' => b \in fd'[g].owed
    <3>1. /\ openFiles[h].dirty /\ \E g \in Fds : fd[g].h = h
          /\ \A g \in Fds : fd[g].h = h /\ Busy(g) => b \in fd[g].owed
      BY <2>1 DEF IInv, LateInv
    <3> QED
      BY <1>2, <1>3, <3>1 DEF Busy
  <2>2. \A h \in OpenHandles, b \in 1..writes : AtRisk(h, b)' => AtRisk(h, b)
    BY DEF AtRisk, history
  <2> QED
    BY <1>4, <2>1, <2>2 DEF IInv, LateInv, LostOnlyIfLate, history
<1> QED
  BY <1>5, <1>6, <1>7, <1>8 DEF IInv

\* A clean handle is left behind with what the cluster has, and the answer is
\* an error.
LEMMA LeavesKeeps ==
    ASSUME BillyInv, NEW r \in Rpcs, Leaves(r)
    PROVE  BillyInv'
<1> DEFINE m == rpc[r].node
           h == rpc[r].h
           new == NoRpc
<1>1. /\ rpc[r].step = "failed" /\ rpc[r].step \in Holding /\ Answers(r)
      /\ fd' = [fd EXCEPT ![r] = NoFd] /\ failed' = failed \cup {h}
      /\ UNCHANGED <<verbs, nextHandle, openFiles, contentCache, cluster, writes, dups, history>>
      /\ UNCHANGED <<live, gone, requests, crashed, posix, excused>>
  BY DEF Leaves, At
<1>2. /\ h \in OpenHandles /\ h # 0 /\ fd[r].h = h /\ fd[r].step = "idle"
      /\ ~ openFiles[h].dirty /\ openFiles[h] \in FileType(writes) /\ writes \in Nat
      /\ h \in 1..MaxRefs /\ failed \subseteq 1..MaxRefs
  BY <1>1, HeldFacts, RpcFacts
<1>3. IInv'
  BY <1>1, <1>2, DropKeeps DEF BillyInv, Rpcs
<1>4. /\ rpc' = [rpc EXCEPT ![r] = new] /\ new \in RpcTypeAt(writes)
      /\ new.step = "idle" /\ new.h = 0
  BY <1>1, AnswersFacts
<1> HIDE DEF new
<1>5. LeftOK(h, openFiles'[h], failed', applied')
  <2>1. ASSUME NEW b \in WritesIn(openFiles[h].buf)
        PROVE  b \in applied \cup openFiles[h].reported
    <3>1. b \in 1..writes
      BY <1>2, <2>1, WritesInRange DEF FileType
    <3>2. late = {} /\ ~ AtRisk(h, b)
      BY <1>2, <3>1 DEF BillyInv, IInv, LateInv, LinkInv
    <3> QED
      BY <2>1, <3>2 DEF AtRisk
  <2> QED
    BY <1>1, <2>1 DEF LeftOK, history
<1>6. HeldMoves(r, new, NoFd)
  <2>1. LinkOK(new, NoFd, openFiles')
    BY <1>4 DEF LinkOK, NoFd
  <2>2. \A g \in OpenHandles \ {h} : SameFile(openFiles'[g], openFiles[g], m)
    BY <1>1 DEF SameFile
  <2>3. /\ writes <= writes' /\ new \in RpcTypeAt(writes') /\ OpenHandles' = OpenHandles
        /\ applied' = applied /\ late' = late
    BY <1>1, <1>2, <1>4 DEF OpenHandles, history
  <2>4. failed \subseteq failed' /\ failed' \subseteq 1..MaxRefs
    BY <1>1, <1>2
  <2> QED
    BY <1>1, <1>4, <1>5, <2>1, <2>2, <2>3, <2>4 DEF HeldMoves
<1>7. NodeMoves(r, new, NoFd)
  <2>1. m \notin excused => CalmOK(cluster[m], posix[m], contentCache[m])
    BY <1>1, <1>2, OnlyOneServes
  <2>2. posix \in [Nodes -> Seqs(writes)] /\ excused \subseteq Nodes
    BY DEF BillyInv, RangesInv
  <2> QED
    BY <1>1, <1>4, <2>1, <2>2 DEF NodeMoves, history
<1> QED
  BY <1>3, <1>6, <1>7, HeldStep

-----------------------------------------------------------------------------
\* What Close does to the handle and its descriptor.
LEMMA ReturnFacts ==
    ASSUME BillyInv, NEW r \in Rpcs, rpc[r].step = "close", NEW ok \in BOOLEAN,
           NEW owed \in SUBSET (1..writes), Return(r, ok, "close", owed)
    PROVE  LET h == rpc[r].h
           IN  /\ fd' = [fd EXCEPT ![r] = NoFd] /\ NoFd.step = "idle" /\ NoFd.h = 0
               /\ OpenHandles' = OpenHandles
               /\ \A g \in OpenHandles \ {h} : openFiles'[g] = openFiles[g]
               /\ openFiles'[h].node = openFiles[h].node /\ openFiles'[h].buf = openFiles[h].buf
               /\ openFiles'[h].dirty = (IF ok THEN FALSE ELSE openFiles[h].dirty)
               /\ ~ ok => openFiles'[h].reported = openFiles[h].reported \cup owed
<1> DEFINE h == rpc[r].h
           of == openFiles[h]
           done == [of EXCEPT !.dirty = FALSE, !.pending = FALSE, !.saved = fd[r].sent]
           told == [of EXCEPT !.reported = of.reported \cup owed]
<1>1. h \in OpenHandles /\ fd[r].h = h /\ of \in FileType(writes)
  BY HeldFacts
<1>2. /\ fd' = [fd EXCEPT ![r] = NoFd]
      /\ openFiles' = [openFiles EXCEPT ![h] = IF ok THEN done ELSE told]
  BY <1>1 DEF Return
<1>3. /\ done.node = of.node /\ done.buf = of.buf /\ done.dirty = FALSE
      /\ told.node = of.node /\ told.buf = of.buf /\ told.dirty = of.dirty
      /\ told.reported = of.reported \cup owed
  BY <1>1 DEF FileType
<1> HIDE DEF done, told
<1>4. /\ OpenHandles' = OpenHandles /\ openFiles'[h] = IF ok THEN done ELSE told
      /\ \A g \in OpenHandles \ {h} : openFiles'[g] = openFiles[g]
  BY <1>1, <1>2 DEF OpenHandles
<1>5. NoFd.step = "idle" /\ NoFd.h = 0
  BY DEF NoFd
<1> QED
  BY <1>2, <1>3, <1>4, <1>5

\* Nothing was written: what is written may be saved (DirtyIsAllowed).
LEMMA CloseReturnsKeeps ==
    ASSUME BillyInv, NEW r \in Rpcs, CloseReturns(r)
    PROVE  BillyInv'
<1> DEFINE m == rpc[r].node
           h == rpc[r].h
           new == [rpc[r] EXCEPT !.step = "release"]
<1>1. /\ rpc[r].step = "close" /\ FlushReturns(r, "close")
      /\ UNCHANGED <<live, gone, requests, crashed, posix, excused>>
      /\ ~ openFiles[h].dirty => Goes(r, "release") /\ UNCHANGED failed
  BY DEF CloseReturns, At, shadow
<1>2. IInv'
  BY <1>1, FlushReturnsKeeps DEF BillyInv, Rpcs
<1>3. h \in OpenHandles /\ h # 0 /\ fd[r].h = h
  BY <1>1, HeldFacts
<1>4. /\ fd[r].step = "idle"
      /\ Return(r, FALSE, "close", IF openFiles[h].dirty THEN WritesIn(openFiles[h].buf) ELSE {})
      /\ UNCHANGED <<verbs, nextHandle, contentCache, cluster, writes, dups, applied, late>>
      /\ \/ ~ openFiles[h].dirty
         \/ IF openFiles[h].pending THEN "create" \notin verbs ELSE "update" \notin verbs
  BY <1>1, <1>3 DEF FlushReturns, Busy, history
<1>5. ~ openFiles[h].dirty
  BY <1>3, <1>4 DEF BillyInv, IInv, DirtyIsAllowed
<1>6. {} \in SUBSET (1..writes) /\ FALSE \in BOOLEAN /\ Return(r, FALSE, "close", {})
  BY <1>4, <1>5
<1>7. /\ fd' = [fd EXCEPT ![r] = NoFd] /\ NoFd.step = "idle" /\ NoFd.h = 0
      /\ OpenHandles' = OpenHandles
      /\ \A g \in OpenHandles \ {h} : openFiles'[g] = openFiles[g]
  BY <1>1, <1>6, ReturnFacts
<1>8. /\ rpc' = [rpc EXCEPT ![r] = new] /\ new \in RpcTypeAt(writes)
      /\ new.step = "release" /\ new.op = rpc[r].op /\ new.node = m
      /\ new.alone = rpc[r].alone /\ new.h = h
  BY <1>1, <1>5, GoesFacts DEF Steps
<1> HIDE DEF new
<1>9. HeldMoves(r, new, NoFd)
  <2>1. LinkOK(new, NoFd, openFiles')
    BY <1>3, <1>7, <1>8 DEF LinkOK, OpenHandles
  <2>2. /\ writes \in Nat /\ rpc[r].step \in Holding
        /\ failed \subseteq failed' /\ failed' \subseteq 1..MaxRefs
    BY <1>1, <1>5, RpcFacts, HeldFacts
  <2> QED
    BY <1>1, <1>4, <1>7, <1>8, <2>1, <2>2 DEF HeldMoves, SameFile
<1>10. NodeMoves(r, new, NoFd)
  <2>1. m \notin excused => CalmOK(cluster[m], posix[m], contentCache[m])
    BY <1>1, <1>4, OnlyOneServes
  <2>2. FarOK(new, NoFd, openFiles'[new.h], cluster[m], posix[m])
    BY <1>8 DEF FarOK
  <2>3. posix \in [Nodes -> Seqs(writes)] /\ excused \subseteq Nodes
    BY DEF BillyInv, RangesInv
  <2> QED
    BY <1>1, <1>4, <1>8, <2>1, <2>2, <2>3 DEF NodeMoves
<1> QED
  BY <1>2, <1>9, <1>10, HeldStep
-----------------------------------------------------------------------------
\* The flush of the close moves on: the request stays where it is.
LEMMA FlushMoves ==
    ASSUME BillyInv, IInv', NEW r \in Rpcs, NEW d, rpc[r].step = "close",
           fd' = [fd EXCEPT ![r] = d],
           UNCHANGED <<rpc, live, gone, requests, crashed, posix, excused, failed>>,
           UNCHANGED <<nextHandle, openFiles, contentCache, writes, dups, late>>,
           applied \subseteq applied',
           d.h = rpc[r].h, d.step # "idle", d.op = "close", openFiles[rpc[r].h].dirty,
           WritesIn(openFiles[rpc[r].h].buf) \subseteq d.owed,
           \A n \in Nodes \ {rpc[r].node} : cluster'[n] = cluster[n],
           rpc[r].node \notin excused =>
               /\ FarOK(rpc[r], d, openFiles[rpc[r].h], cluster'[rpc[r].node], posix[rpc[r].node])
               /\ d.step = "accepted" \/ cluster'[rpc[r].node] = cluster[rpc[r].node],
           fd[r].step # "accepted"
    PROVE  BillyInv'
<1> DEFINE m == rpc[r].node
           h == rpc[r].h
           new == rpc[r]
<1>1. /\ h \in OpenHandles /\ h # 0 /\ openFiles[h].node = m
      /\ rpc[r].op = "write" /\ failed \subseteq 1..MaxRefs
  BY HeldFacts
<1>2. /\ new \in RpcTypeAt(writes) /\ writes \in Nat
      /\ rpc' = [rpc EXCEPT ![r] = new]
  BY RpcFacts DEF BillyInv, RangesInv
<1>3. HeldMoves(r, new, d)
  <2>1. LinkOK(new, d, openFiles')
    BY <1>1 DEF LinkOK, OpenHandles
  <2>2. \A g \in OpenHandles \ {h} : SameFile(openFiles'[g], openFiles[g], m)
    BY DEF SameFile
  <2>3. writes <= writes' /\ OpenHandles' = OpenHandles /\ new \in RpcTypeAt(writes')
    BY <1>2 DEF OpenHandles
  <2> QED
    BY <1>1, <1>2, <2>1, <2>2, <2>3 DEF HeldMoves
<1>4. NodeMoves(r, new, d)
  <2>1. m \notin excused => CalmOK(cluster[m], posix[m], contentCache[m])
    BY OnlyOneServes
  <2>2. posix \in [Nodes -> Seqs(writes)] /\ excused \subseteq Nodes
    BY DEF BillyInv, RangesInv
  <2> QED
    BY <2>1, <2>2 DEF NodeMoves
<1> QED
  BY <1>3, <1>4, HeldStep

\* The content a flush has read is the part of its slice before the next block.
LEMMA ReadMore ==
    ASSUME NEW w \in Nat, NEW slice \in Seqs(w), NEW sent \in Seqs(w),
           sent = SubSeq(slice, 1, Len(sent)), Len(sent) < Len(slice)
    PROVE  LET more == Append(sent, slice[Len(sent) + 1])
           IN  more = SubSeq(slice, 1, Len(more))
<1> DEFINE k == Len(sent)
           more == Append(sent, slice[k + 1])
<1>1. /\ k \in Nat /\ k + 1 \in 1..Len(slice) /\ Len(slice) \in Nat
      /\ slice[k + 1] \in Origin \cup (1..w)
  BY DEF Seqs
<1>2. more \in Seq(Origin \cup (1..w)) /\ Len(more) = k + 1
  BY <1>1 DEF Seqs
<1>3. SubSeq(slice, 1, k + 1) = [i \in 1..(k + 1) |-> slice[i]]
  BY <1>1 DEF Seqs
<1>4. \A i \in 1..k : sent[i] = slice[i]
  <2>1. SubSeq(slice, 1, k) = [i \in 1..k |-> slice[i]]
    BY <1>1 DEF Seqs
  <2> QED
    BY <2>1
<1>5. more = [i \in 1..(k + 1) |-> more[i]]
  BY <1>2
<1>6. \A i \in 1..(k + 1) : more[i] = slice[i]
  BY <1>1, <1>4 DEF Seqs
<1> HIDE DEF more, k
<1>7. more = SubSeq(slice, 1, k + 1)
  BY <1>3, <1>5, <1>6
<1> QED
  BY <1>2, <1>7 DEF more, k

\* All of a slice.
LEMMA ReadAll ==
    ASSUME NEW w \in Nat, NEW slice \in Seqs(w)
    PROVE  SubSeq(slice, 1, Len(slice)) = slice /\ SubSeq(slice, 1, 0) = <<>>
BY DEF Seqs

\* The flush begins with the buffer, and reads it in order.
LEMMA CloseFlushesKeeps ==
    ASSUME BillyInv, NEW r \in Rpcs, CloseFlushes(r)
    PROVE  BillyInv'
<1> DEFINE m == rpc[r].node
           h == rpc[r].h
<1>1. /\ rpc[r].step = "close"
      /\ FlushBegins(r, "close") \/ ReadBlock(r)
      /\ UNCHANGED <<rpc, live, gone, requests, crashed, posix, excused, failed>>
  BY DEF CloseFlushes, At, shadow
<1>2. /\ h \in OpenHandles /\ h # 0 /\ fd[r].h = h /\ openFiles[h].buf \in Seqs(writes)
      /\ fd[r].step # "idle" =>
            /\ fd[r].op = "close" /\ openFiles[h].dirty
            /\ WritesIn(openFiles[h].buf) \subseteq fd[r].owed
      /\ fd[r] \in FdType(writes) /\ writes \in Nat
  BY <1>1, HeldFacts, RpcFacts DEF FileType
<1>3. UNCHANGED <<nextHandle, openFiles, contentCache, cluster, writes, dups, late, applied>>
  BY <1>1 DEF FlushBegins, ReadBlock, history
<1>4. CASE FlushBegins(r, "close")
  <2> DEFINE d == [h |-> h, op |-> "close", step |-> "reading", shared |-> TRUE,
                   slice |-> openFiles[h].buf, sent |-> <<>>, owed |-> WritesIn(openFiles[h].buf)]
  <2>1. /\ fd[r].step = "idle" /\ openFiles[h].dirty
        /\ fd' = [fd EXCEPT ![r] = d]
    BY <1>2, <1>4 DEF FlushBegins, Busy
  <2>2. IInv'
    BY <1>4, FlushBeginsKeeps DEF BillyInv, Rpcs
  <2>3. /\ d.h = h /\ d.op = "close" /\ d.step = "reading" /\ d.slice = openFiles[h].buf
        /\ d.sent = <<>> /\ d.owed = WritesIn(openFiles[h].buf)
    OBVIOUS
  <2> HIDE DEF d
  <2>4. d.sent = SubSeq(d.slice, 1, Len(d.sent))
    BY <1>2, <2>3, ReadAll
  <2>5. m \notin excused => FarOK(rpc[r], d, openFiles[h], cluster[m], posix[m])
    BY <1>1, <2>1, <2>3, <2>4, OnlyOneServes DEF FarOK
  <2> QED
    BY <1>1, <1>3, <2>1, <2>2, <2>3, <2>5, FlushMoves
<1>5. CASE ReadBlock(r)
  <2> DEFINE old == fd[r]
             more == Append(old.sent, old.slice[Len(old.sent) + 1])
             d == [old EXCEPT !.sent = more]
  <2>1. /\ old.step = "reading" /\ Len(old.sent) < Len(old.slice)
        /\ fd' = [fd EXCEPT ![r] = d]
    BY <1>5, RpcFacts DEF ReadBlock, TypeInv, FdsOK, Rpcs
  <2>2. IInv'
    BY <1>5, ReadBlockKeeps DEF BillyInv, Rpcs
  <2>3. /\ d.h = h /\ d.op = old.op /\ d.step = "reading" /\ d.slice = old.slice
        /\ d.sent = more /\ d.owed = old.owed
    BY <1>2, <2>1 DEF FdType
  <2>4. ASSUME m \notin excused
        PROVE  FarOK(rpc[r], d, openFiles[h], cluster[m], posix[m])
    <3>1. FarOK(rpc[r], old, openFiles[h], cluster[m], posix[m])
      BY <1>1, <2>4, OnlyOneServes
    <3>2. old.sent = SubSeq(old.slice, 1, Len(old.sent))
      BY <1>1, <1>2, <2>1, <3>1 DEF FarOK
    <3>3. more = SubSeq(old.slice, 1, Len(more))
      BY <1>2, <2>1, <3>2, ReadMore DEF FdType
    <3> HIDE DEF d, more
    <3> QED
      BY <2>1, <2>3, <3>1, <3>3 DEF FarOK
  <2> HIDE DEF d, more
  <2> QED
    BY <1>1, <1>2, <1>3, <2>1, <2>2, <2>3, <2>4, FlushMoves
<1> QED
  BY <1>1, <1>4, <1>5

\* What is sent is the buffer.
LEMMA CloseIsAcceptedKeeps ==
    ASSUME BillyInv, NEW r \in Rpcs, CloseIsAccepted(r)
    PROVE  BillyInv'
<1> DEFINE m == rpc[r].node
           h == rpc[r].h
           d == [fd[r] EXCEPT !.step = "accepted"]
           sent == fd[r].sent
<1>1. /\ rpc[r].step = "close" /\ ApiAccepts(r)
      /\ UNCHANGED <<rpc, live, gone, requests, crashed, posix, excused, failed>>
  BY DEF CloseIsAccepted, At, shadow
<1>2. /\ fd[r].step = "reading" /\ Len(sent) = Len(fd[r].slice)
      /\ UNCHANGED <<nextHandle, openFiles, contentCache, writes, dups, late>>
      /\ applied \subseteq applied'
      /\ cluster' = [cluster EXCEPT ![NodeOf(r)] = sent]
  BY <1>1 DEF ApiAccepts, Update, ReadyToSend
<1>3. /\ h \in OpenHandles /\ h # 0 /\ fd[r].h = h /\ NodeOf(r) = m
      /\ fd[r].op = "close" /\ openFiles[h].dirty
      /\ WritesIn(openFiles[h].buf) \subseteq fd[r].owed
      /\ fd[r] \in FdType(writes) /\ writes \in Nat /\ m \in Nodes
      /\ cluster \in [Nodes -> Seqs(writes)]
  BY <1>1, <1>2, HeldFacts, RpcFacts DEF TypeInv, ClusterOK
<1>4. IInv'
  BY <1>1, ApiAcceptsKeeps DEF BillyInv, Rpcs
<1>5. /\ fd' = [fd EXCEPT ![r] = d]
      /\ d.h = h /\ d.op = "close" /\ d.step = "accepted" /\ d.slice = fd[r].slice
      /\ d.sent = sent /\ d.owed = fd[r].owed
  BY <1>1, <1>3, RpcFacts DEF ApiAccepts, FdType, TypeInv, FdsOK, Rpcs
<1>6. cluster'[m] = sent /\ \A n \in Nodes \ {m} : cluster'[n] = cluster[n]
  BY <1>2, <1>3
<1> HIDE DEF d
<1>7. ASSUME m \notin excused
      PROVE  FarOK(rpc[r], d, openFiles[h], cluster'[m], posix[m])
  <2>1. FarOK(rpc[r], fd[r], openFiles[h], cluster[m], posix[m])
    BY <1>1, <1>7, OnlyOneServes
  <2>2. fd[r].slice = openFiles[h].buf /\ sent = SubSeq(fd[r].slice, 1, Len(sent))
    BY <1>1, <1>2, <1>3, <2>1 DEF FarOK
  <2>3. sent = openFiles[h].buf
    BY <1>2, <1>3, <2>2, ReadAll DEF FdType
  <2> QED
    BY <1>1, <1>2, <1>5, <1>6, <2>1, <2>2, <2>3 DEF FarOK
<1> QED
  BY <1>1, <1>2, <1>3, <1>4, <1>5, <1>6, <1>7, FlushMoves
\* A save that is refused, or whose answer is lost, is reported with the handle
\* that stays.
LEMMA CloseFailsKeeps ==
    ASSUME BillyInv, NEW r \in Rpcs, CloseFails(r)
    PROVE  BillyInv'
<1> DEFINE m == rpc[r].node
           h == rpc[r].h
           new == NoRpc
<1>1. /\ rpc[r].step = "close" /\ Answers(r) /\ m \in Nodes
      /\ UNCHANGED <<live, gone, requests, crashed, posix>>
      /\ failed' = failed \cup {h}
      /\ \/ ApiRejects(r) /\ UNCHANGED excused
         \/ ApiAcceptsUnheard(r) /\ excused' = excused \cup {m}
  BY RpcFacts DEF CloseFails, At
<1>2. IInv'
  BY <1>1, ApiRejectsKeeps, ApiAcceptsUnheardKeeps DEF BillyInv, Rpcs
<1>3. /\ fd[r].step = "reading" /\ Return(r, FALSE, fd[r].op, fd[r].owed)
      /\ UNCHANGED <<nextHandle, contentCache, writes, dups, late>>
      /\ applied \subseteq applied'
  BY <1>1 DEF ApiRejects, ApiAcceptsUnheard, Update, ReadyToSend, history
<1>4. /\ h \in OpenHandles /\ h # 0 /\ fd[r].op = "close" /\ openFiles[h].dirty
      /\ WritesIn(openFiles[h].buf) \subseteq fd[r].owed /\ NodeOf(r) = m
      /\ fd[r].owed \in SUBSET (1..writes) /\ writes \in Nat /\ FALSE \in BOOLEAN
  BY <1>1, <1>3, HeldFacts, RpcFacts DEF FdType
<1>5. /\ fd' = [fd EXCEPT ![r] = NoFd] /\ NoFd.step = "idle" /\ NoFd.h = 0
      /\ OpenHandles' = OpenHandles
      /\ \A g \in OpenHandles \ {h} : openFiles'[g] = openFiles[g]
      /\ openFiles'[h].buf = openFiles[h].buf /\ openFiles'[h].dirty = openFiles[h].dirty
      /\ openFiles'[h].reported = openFiles[h].reported \cup fd[r].owed
  <2> DEFINE owed == fd[r].owed
  <2>1. Return(r, FALSE, "close", owed) /\ owed \in SUBSET (1..writes) /\ FALSE \in BOOLEAN
    BY <1>3, <1>4
  <2> HIDE DEF owed, h
  <2>2. /\ fd' = [fd EXCEPT ![r] = NoFd] /\ NoFd.step = "idle" /\ NoFd.h = 0
        /\ OpenHandles' = OpenHandles
        /\ \A g \in OpenHandles \ {h} : openFiles'[g] = openFiles[g]
        /\ openFiles'[h].buf = openFiles[h].buf
        /\ openFiles'[h].dirty = (IF FALSE THEN FALSE ELSE openFiles[h].dirty)
        /\ ~ FALSE => openFiles'[h].reported = openFiles[h].reported \cup owed
    BY <1>1, <2>1, ReturnFacts DEF h
  <2> QED
    BY <2>2 DEF owed
<1>6. /\ rpc' = [rpc EXCEPT ![r] = new] /\ new \in RpcTypeAt(writes)
      /\ new.step = "idle" /\ new.h = 0
  BY <1>1, AnswersFacts
<1> HIDE DEF new
<1>7. /\ \A n \in Nodes \ {m} : cluster'[n] = cluster[n]
      /\ m \notin excused' => cluster'[m] = cluster[m]
  <2>1. CASE ApiRejects(r)
    BY <2>1 DEF ApiRejects
  <2>2. CASE ApiAcceptsUnheard(r) /\ excused' = excused \cup {m}
    <3>1. cluster' = [cluster EXCEPT ![m] = fd[r].sent]
      BY <1>4, <2>2 DEF ApiAcceptsUnheard, Update
    <3>2. cluster \in [Nodes -> Seqs(writes)]
      BY RpcFacts DEF TypeInv, ClusterOK
    <3> QED
      BY <2>2, <3>1, <3>2
  <2> QED
    BY <1>1, <2>1, <2>2
<1>8. HeldMoves(r, new, NoFd)
  <2>1. LinkOK(new, NoFd, openFiles') /\ LeftOK(h, openFiles'[h], failed', applied')
    BY <1>1, <1>4, <1>5, <1>6 DEF LinkOK, LeftOK
  <2>2. \A g \in OpenHandles \ {h} : SameFile(openFiles'[g], openFiles[g], m)
    BY <1>5 DEF SameFile
  <2>3. /\ writes <= writes' /\ new \in RpcTypeAt(writes') /\ rpc[r].step \in Holding
        /\ failed \subseteq failed' /\ failed' \subseteq 1..MaxRefs
    BY <1>1, <1>3, <1>4, <1>6, HeldFacts
  <2> QED
    BY <1>1, <1>3, <1>5, <1>6, <2>1, <2>2, <2>3 DEF HeldMoves
<1>9. NodeMoves(r, new, NoFd)
  <2>1. m \notin excused => CalmOK(cluster[m], posix[m], contentCache[m])
    BY <1>1, <1>3, OnlyOneServes
  <2>2. posix \in [Nodes -> Seqs(writes)] /\ excused \subseteq excused' /\ excused' \subseteq Nodes
    BY <1>1, NodeFacts
  <2> QED
    BY <1>1, <1>3, <1>6, <1>7, <2>1, <2>2 DEF NodeMoves
<1> QED
  BY <1>2, <1>8, <1>9, HeldStep

\* A save that is made and answered takes hold: the object has what the WRITE
\* makes of the file, and the content cached before it is dropped.
LEMMA CloseFlushedKeeps ==
    ASSUME BillyInv, NEW r \in Rpcs, CloseFlushed(r)
    PROVE  BillyInv'
<1> DEFINE m == rpc[r].node
           h == rpc[r].h
           sent == fd[r].sent
           off == rpc[r].off
           new == [rpc[r] EXCEPT !.step = "release"]
<1>1. /\ rpc[r].step = "close" /\ fd[r].step = "accepted" /\ m \in Nodes
      /\ Return(r, TRUE, "close", {}) /\ Goes(r, "release")
      /\ contentCache' = [contentCache EXCEPT ![m] = <<>>]
      /\ posix' = [posix EXCEPT ![m] =
            IF m \in excused THEN @ ELSE Written(@, off, sent[off + 1])]
      /\ UNCHANGED <<verbs, nextHandle, cluster, writes, dups, history>>
      /\ UNCHANGED <<live, gone, requests, crashed, excused, failed>>
  BY RpcFacts DEF CloseFlushed, CacheAfterSave, At
<1>2. /\ h \in OpenHandles /\ h # 0 /\ fd[r].op = "close" /\ openFiles[h].dirty
      /\ NodeOf(r) = m /\ sent \in Seqs(writes) /\ writes \in Nat
      /\ {} \in SUBSET (1..writes) /\ TRUE \in BOOLEAN /\ failed \subseteq 1..MaxRefs
  BY <1>1, HeldFacts, RpcFacts DEF FdType
<1>3. IInv'
  <2>1. FlushEnds(r)
    BY <1>1, <1>2 DEF FlushEnds
  <2> QED
    BY <2>1, FlushEndsKeeps DEF BillyInv, Rpcs
<1>4. /\ fd' = [fd EXCEPT ![r] = NoFd] /\ NoFd.step = "idle" /\ NoFd.h = 0
      /\ OpenHandles' = OpenHandles
      /\ \A g \in OpenHandles \ {h} : openFiles'[g] = openFiles[g]
  BY <1>1, <1>2, ReturnFacts
<1>5. /\ rpc' = [rpc EXCEPT ![r] = new] /\ new \in RpcTypeAt(writes)
      /\ new.step = "release" /\ new.op = rpc[r].op /\ new.node = m
      /\ new.alone = rpc[r].alone /\ new.h = h
  BY <1>1, GoesFacts DEF Steps
<1> HIDE DEF new
<1>6. HeldMoves(r, new, NoFd)
  <2>1. LinkOK(new, NoFd, openFiles')
    BY <1>2, <1>4, <1>5 DEF LinkOK, OpenHandles
  <2>2. \A g \in OpenHandles \ {h} : SameFile(openFiles'[g], openFiles[g], m)
    BY <1>4 DEF SameFile
  <2>3. writes <= writes' /\ new \in RpcTypeAt(writes') /\ applied' = applied /\ late' = late
    BY <1>1, <1>2, <1>5 DEF history
  <2> QED
    BY <1>1, <1>2, <1>4, <1>5, <2>1, <2>2, <2>3 DEF HeldMoves
<1>7. ASSUME m \notin excused
      PROVE  posix'[m] = cluster[m] /\ posix'[m] \in Seqs(writes)
  <2>1. FarOK(rpc[r], fd[r], openFiles[h], cluster[m], posix[m])
    BY <1>1, <1>7, OnlyOneServes
  <2>2. sent = openFiles[h].buf /\ cluster[m] = sent /\ sent = Written(posix[m], off, sent[off + 1])
    BY <1>1, <1>2, <2>1 DEF FarOK
  <2> QED
    BY <1>1, <1>2, <1>7, <2>2, NodeFacts
<1>8. NodeMoves(r, new, NoFd)
  <2>1. m \notin excused => CalmOK(cluster[m], posix'[m], contentCache'[m])
    BY <1>1, <1>7, NodeFacts DEF CalmOK
  <2>2. FarOK(new, NoFd, openFiles'[new.h], cluster[m], posix'[m])
    BY <1>5 DEF FarOK
  <2>3. posix' \in [Nodes -> Seqs(writes)] /\ excused \subseteq Nodes
    BY <1>1, <1>7, NodeFacts
  <2>4. \A n \in Nodes \ {m} : posix'[n] = posix[n] /\ contentCache'[n] = contentCache[n]
    BY <1>1, NodeFacts
  <2> QED
    BY <1>1, <1>5, <2>1, <2>2, <2>3, <2>4 DEF NodeMoves
<1> QED
  BY <1>3, <1>6, <1>8, HeldStep

\* The handle is released with the answer.
LEMMA ReleaseKeeps ==
    ASSUME BillyInv, NEW r \in Rpcs, Release(r)
    PROVE  BillyInv'
<1> DEFINE m == rpc[r].node
           h == rpc[r].h
           new == NoRpc
<1>1. /\ rpc[r].step = "release" /\ Answers(r) /\ m \in Nodes
      /\ ReleaseHandle(h)
      /\ UNCHANGED <<live, gone, requests, crashed, posix, excused, failed>>
  BY RpcFacts DEF Release, Released, At, shadow
<1>2. /\ h \in OpenHandles /\ h # 0 /\ fd[r].h = 0 /\ fd[r].step = "idle"
      /\ nextHandle \notin OpenHandles /\ writes \in Nat
  BY <1>1, RpcFacts DEF LinkOK, OpenHandles, TypeInv, HandlesOK
<1>3. IInv'
  BY <1>1, <1>2, ReleaseHandleKeeps DEF BillyInv
<1>4. /\ openFiles' = [g \in OpenHandles \ {h} |-> openFiles[g]]
      /\ UNCHANGED <<verbs, nextHandle, contentCache, cluster, fd, writes, dups, applied, late>>
  BY <1>1 DEF ReleaseHandle
<1>5. /\ OpenHandles' = OpenHandles \ {h}
      /\ \A g \in OpenHandles \ {h} : openFiles'[g] = openFiles[g]
  BY <1>4 DEF OpenHandles
<1>6. /\ rpc' = [rpc EXCEPT ![r] = new] /\ new \in RpcTypeAt(writes)
      /\ new.step = "idle" /\ new.h = 0 /\ WalkOK(new, live')
  BY <1>1, AnswersFacts
<1> HIDE DEF new
<1>7. Moves(r, new, fd[r])
  <2>1. fd' = [fd EXCEPT ![r] = fd[r]]
    BY <1>4, RpcFacts DEF TypeInv, FdsOK, Rpcs
  <2> QED
    BY <1>1, <1>2, <1>4, <1>6, <2>1, TablesKept, NodeFacts DEF Moves, NilOnlyIfRaced
<1>8. HandlesMove(r, new, fd[r])
  <2>1. LinkOK(new, fd[r], openFiles')
    BY <1>2, <1>6 DEF LinkOK
  <2> QED
    BY <1>2, <1>4, <1>5, <1>6, <2>1 DEF HandlesMove, SameFile
<1>9. NodeMoves(r, new, fd[r])
  <2>1. m \notin excused => CalmOK(cluster[m], posix[m], contentCache[m])
    BY <1>1, <1>2, OnlyOneServes
  <2> QED
    BY <1>1, <1>4, <1>6, <2>1, NodeFacts DEF NodeMoves
<1> QED
  BY <1>3, <1>7, <1>8, <1>9, RequestStep
-----------------------------------------------------------------------------
\* A request that begins takes from those being served that they are alone;
\* with another for the same node the node is excused.
LEMMA BeginKeeps ==
    ASSUME BillyInv, NEW r \in Rpcs, NEW op \in Ops, NEW n \in Nodes, Begin(r, op, n)
    PROVE  BillyInv'
<1> DEFINE new == [NoRpc EXCEPT !.op = op, !.node = n, !.alone = (Serving = {}),
                                !.step = IF op = "create" THEN "open" ELSE "list"]
           SameBut(c, q) == /\ c.op = rpc[q].op /\ c.node = rpc[q].node /\ c.step = rpc[q].step
                            /\ c.h = rpc[q].h /\ c.off = rpc[q].off /\ c.content = rpc[q].content
                            /\ c.alone => rpc[q].alone /\ rpc[q].step = "idle"
<1>0. /\ writes \in Nat /\ rpc \in [Rpcs -> RpcTypeAt(writes)]
      /\ rpc[r].step = "idle" /\ requests < MaxRequests /\ requests' = requests + 1
      /\ rpc' = [q \in Rpcs |->
             IF q = r THEN new
             ELSE IF q \in Serving THEN [rpc[q] EXCEPT !.alone = FALSE] ELSE rpc[q]]
      /\ excused' = IF \E q \in Serving : rpc[q].node = n THEN excused \cup {n} ELSE excused
      /\ UNCHANGED <<files, live, gone, crashed, posix, failed>>
  BY RpcFacts DEF Begin, At, BillyInv, RangesInv
<1>1. UNCHANGED <<writes, fd, openFiles, nextHandle, dups, late, applied, cluster, contentCache>>
  BY <1>0 DEF files, history
<1>2. IInv'
  BY <1>0, IInvKept DEF BillyInv, files, vars
<1>3. /\ new \in RpcTypeAt(writes) /\ new.op = op /\ new.node = n /\ new.h = 0
      /\ new.step \in {"open", "list"} /\ (new.step = "open" => op = "create")
      /\ new.alone = (Serving = {})
  <2>1. (Serving = {}) \in BOOLEAN
    OBVIOUS
  <2> DEFINE calm == Serving = {}
  <2> HIDE DEF calm
  <2>2. /\ [NoRpc EXCEPT !.op = op, !.node = n, !.alone = calm,
                         !.step = IF op = "create" THEN "open" ELSE "list"] \in RpcTypeAt(writes)
    BY <1>0, <2>1, NoRpcFacts DEF RpcTypeAt, Steps, calm
  <2>3. NoRpc \in RpcTypeAt(writes) /\ NoRpc.h = 0
    BY <1>0, NoRpcFacts
  <2>4. /\ new.op = op /\ new.node = n /\ new.h = 0
        /\ new.step \in {"open", "list"} /\ (new.step = "open" => op = "create")
    BY <2>3 DEF RpcTypeAt
  <2>5. new.alone = calm
    BY <2>3 DEF RpcTypeAt, calm
  <2> QED
    BY <2>2, <2>4, <2>5 DEF calm
<1> HIDE DEF new
<1>4. ASSUME NEW q \in Rpcs, q # r
      PROVE  rpc'[q] \in RpcTypeAt(writes) /\ SameBut(rpc'[q], q)
  <2>1. rpc[q] \in RpcTypeAt(writes)
    BY <1>0
  <2>2. CASE q \in Serving
    <3> DEFINE c == [rpc[q] EXCEPT !.alone = FALSE]
    <3>1. rpc'[q] = c
      BY <1>0, <1>4, <2>2
    <3>2. FALSE \in BOOLEAN
      OBVIOUS
    <3>3. c \in RpcTypeAt(writes)
      BY <2>1, <3>2 DEF RpcTypeAt
    <3>4. /\ c.op = rpc[q].op /\ c.node = rpc[q].node /\ c.step = rpc[q].step
          /\ c.h = rpc[q].h /\ c.off = rpc[q].off /\ c.content = rpc[q].content
          /\ ~ c.alone
      BY <2>1 DEF RpcTypeAt
    <3> HIDE DEF c
    <3> QED
      BY <3>1, <3>3, <3>4
  <2>3. CASE q \notin Serving
    BY <1>0, <1>4, <2>1, <2>3 DEF Serving, At
  <2> QED
    BY <2>2, <2>3
<1>5. rpc'[r] = new
  BY <1>0
<1>6. \A q \in Rpcs \ {r} : /\ rpc'[q] \in RpcTypeAt(writes)
                            /\ SameBut(rpc'[q], q)
  BY <1>4
<1>7. RangesInv'
  <2>1. rpc' \in [Rpcs -> RpcTypeAt(writes)]
    BY <1>0, <1>3, <1>5, <1>6
  <2>2. requests' \in 0..MaxRequests
    BY <1>0, BillyFSAssumption DEF BillyInv, RangesInv
  <2>3. excused' \subseteq Nodes
    BY <1>0 DEF BillyInv, RangesInv
  <2> QED
    BY <1>0, <1>1, <2>1, <2>2, <2>3 DEF BillyInv, RangesInv
<1>8. AloneInv'
  <2>1. ASSUME NEW p \in Rpcs, NEW q \in Rpcs, q # p, rpc'[p].alone, rpc'[p].step # "idle"
        PROVE  rpc'[q].step = "idle"
    <3>1. p = r
      BY <1>6, <2>1
    <3>2. Serving = {}
      BY <1>3, <1>5, <2>1, <3>1
    <3> QED
      BY <1>6, <2>1, <3>1, <3>2 DEF Serving, At
  <2>2. ASSUME NEW q \in Rpcs
        PROVE  WalkOK(rpc'[q], live')
    BY <1>3, <1>5, <1>6 DEF WalkOK
  <2>3. NilOnlyIfRaced'
    BY <1>0, TablesKept DEF NilOnlyIfRaced
  <2> QED
    BY <2>1, <2>2, <2>3 DEF AloneInv, At
<1>9. \A q \in Rpcs : rpc'[q].h = rpc[q].h
  <2>1. rpc[r].h = 0
    BY <1>0, RpcFacts DEF LinkOK
  <2> QED
    BY <1>3, <1>5, <1>6, <2>1
<1>10. LinkInv'
  <2>1. ASSUME NEW q \in Rpcs
        PROVE  LinkOK(rpc'[q], fd'[q], openFiles')
    <3>1. LinkOK(rpc[q], fd[q], openFiles)
      BY RpcFacts
    <3>2. CASE q = r
      BY <1>0, <1>1, <1>3, <1>5, <3>1, <3>2 DEF LinkOK
    <3>3. CASE q # r
      BY <1>1, <1>6, <3>1, <3>3 DEF LinkOK
    <3> QED
      BY <3>2, <3>3
  <2>2. LeftBehindIsReported'
    <3>1. OpenHandles' = OpenHandles
      BY <1>1 DEF OpenHandles
    <3> QED
      BY <1>0, <1>1, <1>9, <3>1 DEF BillyInv, LinkInv, LeftBehindIsReported
  <2>3. ASSUME NEW q \in Rpcs, rpc'[q].step = "store"
        PROVE  WritesIn(rpc'[q].content) \subseteq applied'
    BY <1>1, <1>3, <1>5, <1>6, <2>3 DEF BillyInv, LinkInv, At
  <2>4. \A p, q \in Rpcs : p # q /\ rpc'[p].h = rpc'[q].h => rpc'[q].h = 0
    BY <1>9 DEF BillyInv, LinkInv
  <2> QED
    BY <1>1, <2>1, <2>2, <2>3, <2>4 DEF BillyInv, LinkInv, At
<1>11. PosixInv'
  <2> SUFFICES ASSUME NEW k \in Nodes \ excused'
               PROVE  /\ \A p, q \in Serving' : rpc'[p].node = k /\ rpc'[q].node = k => p = q
                      /\ \A q \in Serving' : rpc'[q].node = k =>
                            FarOK(rpc'[q], fd'[q], openFiles'[rpc'[q].h], cluster'[k], posix'[k])
                      /\ (\A q \in Serving' : rpc'[q].node = k => fd'[q].step # "accepted") =>
                            CalmOK(cluster'[k], posix'[k], contentCache'[k])
    BY DEF PosixInv
  <2>1. /\ \A p, q \in Serving : rpc[p].node = k /\ rpc[q].node = k => p = q
        /\ \A q \in Serving : rpc[q].node = k =>
              FarOK(rpc[q], fd[q], openFiles[rpc[q].h], cluster[k], posix[k])
        /\ (\A q \in Serving : rpc[q].node = k => fd[q].step # "accepted") =>
              CalmOK(cluster[k], posix[k], contentCache[k])
    BY <1>0 DEF BillyInv, PosixInv
  <2>2. /\ Serving' = Serving \cup {r} /\ r \notin Serving
        /\ \A q \in Serving : q \in Rpcs \ {r} /\ rpc'[q].node = rpc[q].node
    BY <1>0, <1>3, <1>5, <1>6 DEF Serving, At
  <2>3. k = n => \A q \in Serving : rpc[q].node # k
    BY <1>0
  <2>4. \A p, q \in Serving' : rpc'[p].node = k /\ rpc'[q].node = k => p = q
    BY <1>3, <1>5, <2>1, <2>2, <2>3
  <2>5. ASSUME NEW q \in Serving', rpc'[q].node = k
        PROVE  FarOK(rpc'[q], fd'[q], openFiles'[rpc'[q].h], cluster'[k], posix'[k])
    <3>1. CASE q = r
      BY <1>3, <1>5, <3>1 DEF FarOK
    <3>2. CASE q # r
      <4>1. q \in Serving /\ q \in Rpcs \ {r} /\ rpc[q].node = k
        BY <2>2, <2>5, <3>2
      <4>2. FarOK(rpc[q], fd[q], openFiles[rpc[q].h], cluster[k], posix[k])
        BY <2>1, <4>1
      <4> QED
        BY <1>0, <1>1, <1>6, <4>1, <4>2 DEF FarOK
    <3> QED
      BY <3>1, <3>2
  <2>6. (\A q \in Serving' : rpc'[q].node = k => fd'[q].step # "accepted") =>
            CalmOK(cluster'[k], posix'[k], contentCache'[k])
    BY <1>0, <1>1, <2>1, <2>2
  <2> QED
    BY <2>4, <2>5, <2>6
<1> QED
  BY <1>2, <1>7, <1>8, <1>10, <1>11 DEF BillyInv

\* An object that others remove, a cached content that expires.
LEMMA NothingServed ==
    ASSUME BillyInv, IInv',
           UNCHANGED <<rpc, live, requests, crashed, posix, excused, failed>>,
           UNCHANGED <<fd, openFiles, nextHandle, dups, writes, late, applied, cluster>>,
           gone' \subseteq Nodes,
           \A n \in Nodes : contentCache'[n] \in {contentCache[n], <<>>}
    PROVE  BillyInv'
<1>1. RangesInv'
  BY DEF BillyInv, RangesInv
<1>2. AloneInv'
  BY DEF BillyInv, AloneInv, At, NilOnlyIfRaced
<1>3. LinkInv'
  BY DEF BillyInv, LinkInv, LeftBehindIsReported, OpenHandles, At
<1>4. PosixInv'
  <2>1. Serving' = Serving
    BY DEF Serving, At
  <2>2. ASSUME NEW n \in Nodes, CalmOK(cluster[n], posix[n], contentCache[n])
        PROVE  CalmOK(cluster'[n], posix'[n], contentCache'[n])
    BY <2>2 DEF CalmOK
  <2>3. ASSUME NEW n \in Nodes \ excused
        PROVE  /\ \A q, r \in Serving : rpc[q].node = n /\ rpc[r].node = n => q = r
               /\ \A r \in Serving : rpc[r].node = n =>
                     FarOK(rpc[r], fd[r], openFiles[rpc[r].h], cluster[n], posix[n])
               /\ (\A r \in Serving : rpc[r].node = n => fd[r].step # "accepted") =>
                     CalmOK(cluster'[n], posix'[n], contentCache'[n])
    BY <2>2 DEF BillyInv, PosixInv
  <2> QED
    BY <2>1, <2>3 DEF PosixInv
<1> QED
  BY <1>1, <1>2, <1>3, <1>4 DEF BillyInv
\* The mount has listed what there is, and nothing is served.
LEMMA BillyInvInit == BillyInit => BillyInv
<1> SUFFICES ASSUME BillyInit PROVE BillyInv
  OBVIOUS
<1>0. /\ Init /\ live = Nodes \ Created /\ gone = Created
      /\ rpc = [r \in Rpcs |-> NoRpc]
      /\ requests = 0 /\ crashed = [yes |-> FALSE, alone |-> FALSE]
      /\ posix = cluster /\ excused = {} /\ failed = {}
      /\ writes = 0 /\ nextHandle = 1 /\ dups = 0 /\ late = {} /\ OpenHandles = {}
      /\ contentCache = [n \in Nodes |-> <<>>]
      /\ cluster = [n \in Nodes |-> <<FromCluster>>]
      /\ fd = [f \in Fds |-> NoFd]
  BY DEF BillyInit, Init, OpenHandles
<1>1. IInv
  BY <1>0, IInvInit
<1>2. /\ NoRpc \in RpcTypeAt(writes) /\ NoRpc.step = "idle" /\ NoRpc.h = 0
      /\ NoFd.h = 0 /\ NoFd.step = "idle"
  BY <1>0, NoRpcFacts DEF NoFd
<1>3. \A r \in Rpcs : rpc[r] = NoRpc /\ fd[r] = NoFd
  BY <1>0 DEF Rpcs
<1>4. RangesInv
  <2>1. <<FromCluster>> \in Seqs(writes)
    BY DEF Seqs, Origin
  <2>2. posix \in [Nodes -> Seqs(writes)]
    BY <1>0, <2>1
  <2>3. rpc \in [Rpcs -> RpcTypeAt(writes)]
    BY <1>0, <1>2
  <2>4. crashed \in [yes : BOOLEAN, alone : BOOLEAN]
    <3>1. FALSE \in BOOLEAN
      OBVIOUS
    <3> QED
      BY <1>0, <3>1
  <2>5. requests \in 0..MaxRequests /\ nextHandle + dups <= MaxRefs + 1 /\ dups = 0
    BY <1>0, BillyFSAssumption, OpenFilesAssumption
  <2> QED
    BY <1>0, <2>2, <2>3, <2>4, <2>5 DEF RangesInv, Created
<1>5. AloneInv
  BY <1>0, <1>2, <1>3 DEF AloneInv, WalkOK, NilOnlyIfRaced, At
<1>6. LinkInv
  BY <1>0, <1>2, <1>3 DEF LinkInv, LinkOK, LeftBehindIsReported, At
<1>7. PosixInv
  <2>1. Serving = {}
    BY <1>2, <1>3 DEF Serving, At
  <2> QED
    BY <1>0, <2>1 DEF PosixInv, CalmOK
<1> QED
  BY <1>1, <1>4, <1>5, <1>6, <1>7 DEF BillyInv

\* Every step keeps the invariant.
LEMMA BillyInvKept == BillyInv /\ [BillyNext]_billyVars => BillyInv'
<1> SUFFICES ASSUME BillyInv, [BillyNext]_billyVars PROVE BillyInv'
  OBVIOUS
<1>0. gone \subseteq Nodes
  BY TablesKept
<1>1. CASE UNCHANGED billyVars
  <2>1. IInv'
    BY <1>1, IInvKept DEF BillyInv, billyVars, files, vars
  <2> QED
    BY <1>0, <1>1, <2>1, NothingServed DEF billyVars, files, history, shadow
<1>2. ASSUME NEW r \in Rpcs, NEW n \in Nodes, NEW op \in Ops, Begin(r, op, n)
      PROVE  BillyInv'
  BY <1>2, BeginKeeps
<1>3. ASSUME NEW n \in Nodes, OthersRemove(n)
      PROVE  BillyInv'
  <2>1. UNCHANGED <<files, live, rpc, requests, crashed, shadow>> /\ gone' = gone \cup {n}
    BY <1>3 DEF OthersRemove
  <2>2. IInv'
    BY <2>1, IInvKept DEF BillyInv, files, vars
  <2> QED
    BY <1>0, <2>1, <2>2, NothingServed DEF files, history, shadow
<1>4. ASSUME NEW n \in Nodes, ContentExpires(n)
      PROVE  BillyInv'
  <2>1. ExpireContent(n) /\ UNCHANGED <<live, gone, rpc, requests, crashed, shadow>>
    BY <1>4 DEF ContentExpires
  <2>2. IInv'
    BY <2>1, ExpireContentKeeps DEF BillyInv
  <2>3. \A m \in Nodes : contentCache'[m] \in {contentCache[m], <<>>}
    BY <2>1, NodeFacts DEF ExpireContent
  <2> QED
    BY <1>0, <2>1, <2>2, <2>3, NothingServed DEF ExpireContent, history, shadow
<1>5. ASSUME NEW r \in Rpcs,
             \/ List(r) \/ Look(r) \/ Get(r) \/ Vanished(r)
             \/ StatHit(r) \/ StatFetches(r) \/ StatStores(r) \/ Remove(r) \/ RemoveRefused(r)
             \/ OpenOwn(r) \/ CreateOwn(r) \/ CreateRefused(r)
             \/ WriteOwnRefused(r) \/ TruncateRefused(r) \/ Leaves(r)
             \/ \E off \in 0..MaxLen : WriteOwn(r, off) \/ TruncateOwn(r, off)
             \/ CloseReturns(r) \/ CloseFlushes(r) \/ CloseIsAccepted(r) \/ CloseFails(r)
             \/ CloseFlushed(r) \/ Release(r)
      PROVE  BillyInv'
  BY <1>5, ListKeeps, LookKeeps, GetKeeps, AnsweredKeeps, StatFetchesKeeps, StatStoresKeeps,
     OpenOwnKeeps, CreateOwnKeeps, RefusedKeeps, LeavesKeeps,
     WriteOwnKeeps, TruncateOwnKeeps,
     CloseReturnsKeeps, CloseFlushesKeeps, CloseIsAcceptedKeeps, CloseFailsKeeps,
     CloseFlushedKeeps, ReleaseKeeps
<1> QED
  BY <1>1, <1>2, <1>3, <1>4, <1>5 DEF BillyNext, Ops

\* It holds throughout.
LEMMA BillyInvHolds == BillySpec => []BillyInv
BY BillyInvInit, BillyInvKept, PTL DEF BillySpec

-----------------------------------------------------------------------------
\* The variables keep their types: the requests' handles are ones that were
\* handed out, and the contents are of the writes there were.
THEOREM BillyTypeCorrect == BillySpec => []BillyTypeOK
<1>1. BillyInv => BillyTypeOK
  <2> SUFFICES ASSUME BillyInv PROVE BillyTypeOK
    OBVIOUS
  <2>1. TypeInv /\ writes \in Nat /\ writes <= MaxWrites /\ MaxWrites \in Nat
    BY OpenFilesAssumption DEF BillyInv, IInv, TypeInv
  <2>2. TypeOK
    BY <2>1, TypeInvIsTypeOK
  <2>3. Seqs(writes) \subseteq Content
    <3>1. Origin \cup (1..writes) \subseteq Origin \cup (1..MaxWrites)
      BY <2>1
    <3> QED
      BY <3>1 DEF Seqs, Content
  <2>4. ASSUME NEW r \in Rpcs
        PROVE  rpc[r] \in RpcType
    <3>1. rpc[r] \in RpcTypeAt(writes) /\ LinkOK(rpc[r], fd[r], openFiles)
      BY RpcFacts
    <3>2. rpc[r].h \in 0..MaxRefs
      <4>1. rpc[r].h \in OpenHandles \cup {0}
        BY <3>1 DEF LinkOK, OpenHandles
      <4>2. 1..MaxRefs \subseteq 0..MaxRefs /\ 0 \in 0..MaxRefs
        BY OpenFilesAssumption
      <4> QED
        BY <4>1, <4>2, HandlesInRange
    <3> QED
      BY <2>3, <3>1, <3>2 DEF RpcTypeAt, RpcType, Ops, Steps
  <2>5. /\ rpc \in [Rpcs -> RpcTypeAt(writes)] /\ posix \in [Nodes -> Seqs(writes)]
        /\ live \subseteq Nodes /\ gone \subseteq Nodes /\ excused \subseteq Nodes
        /\ requests \in 0..MaxRequests
        /\ crashed \in [yes : BOOLEAN, alone : BOOLEAN] /\ failed \subseteq 1..MaxRefs
    BY DEF BillyInv, RangesInv
  <2>6. rpc \in [Rpcs -> RpcType] /\ posix \in [Nodes -> Content]
    BY <2>3, <2>4, <2>5
  <2> QED
    BY <2>2, <2>5, <2>6 DEF BillyTypeOK
<1> QED
  BY <1>1, BillyInvHolds, PTL

\* The nil of resolve takes two requests, however many there are: the second
\* look of a request that is served alone finds what the first has found.
THEOREM NilTakesTwo == BillySpec => []NilOnlyIfRaced
<1>1. BillyInv => NilOnlyIfRaced
  BY DEF BillyInv, AloneInv
<1> QED
  BY <1>1, BillyInvHolds, PTL

\* A handle is left behind only with an error to its client, and with no write
\* the client takes for saved, for any number of requests, files and writes.
THEOREM WhatIsLeftIsReported == BillySpec => []LeftBehindIsReported
<1>1. BillyInv => LeftBehindIsReported
  BY DEF BillyInv, LinkInv
<1> QED
  BY <1>1, BillyInvHolds, PTL

\* Over NFS no write is lost without an error: a file is closed by the request
\* that wrote it, so that none comes during its flush.
THEOREM NothingIsLostSilently == BillySpec => []NoSilentLoss
<1>1. BillyInv => NoSilentLoss
  BY DEF BillyInv, LinkInv, IInv, LateInv, LostOnlyIfLate, NoSilentLoss
<1> QED
  BY <1>1, BillyInvHolds, PTL

\* The answered WRITEs are what an object holds, but for the files the property
\* excuses.
THEOREM AnsweredWritesTakeHold == BillySpec => []WritesTakeHold
<1>1. BillyInv => WritesTakeHold
  <2> SUFFICES ASSUME BillyInv, NEW n \in Nodes \ (gone \cup excused \cup Created),
                      \A r \in Serving : rpc[r].node # n
               PROVE  cluster[n] = posix[n]
    BY DEF WritesTakeHold
  <2>1. CalmOK(cluster[n], posix[n], contentCache[n])
    BY DEF BillyInv, PosixInv
  <2> QED
    BY <2>1 DEF CalmOK
<1> QED
  BY <1>1, BillyInvHolds, PTL
=============================================================================
