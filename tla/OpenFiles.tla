------------------------------ MODULE OpenFiles ------------------------------
(***************************************************************************)
(* internal/kubefs/fs.go, the handles: CreateAndOpen, OpenFile, ReadHandle,*)
(* WriteHandle, Truncate, FlushHandle, ReleaseHandle, with the dispatch of *)
(* content.go behind them and the calls of internal/fusemount that reach   *)
(* them.                                                                   *)
(*                                                                         *)
(* A file is a short sequence of blocks.  A block is told apart by where   *)
(* it came from: the cluster, an error text, a hole, or one write.         *)
(*                                                                         *)
(* WriteHandle and FlushHandle give handleMu back before they touch the    *)
(* openFile, so a flush is several steps: it takes the slice, reads its    *)
(* bytes, the API answers, and only then `dirty' is cleared.               *)
(*                                                                         *)
(* External: the kernel, which sends WRITE, SETATTR and FSYNC of an inode  *)
(* one at a time but FLUSH at any time, FLUSH per descriptor closed, and   *)
(* RELEASE after the last; the API server; Open's content cache is here    *)
(* one step (ContentPath has its steps).                                   *)
(***************************************************************************)
EXTENDS Integers, Sequences, FiniteSets

CONSTANTS
    Nodes,       \* file inodes
    Kind,        \* Nodes -> FileKind
    VerbChoices, \* the values --enable-verbs is tried with
    Fds,         \* file descriptors of the processes using the mount
    MaxRefs,     \* model bound: handles allotted and descriptors duplicated
    MaxWrites,   \* model bound: writes accepted
    MaxLen       \* model bound: blocks in a file

\* "created" is the FileName of a file CreateAndOpen made: x.yaml, not yaml.
FileKind == {"dataFile", "yaml", "json", "describe", "logs", "created"}

ASSUME OpenFilesAssumption ==
    /\ Kind \in [Nodes -> FileKind]
    /\ VerbChoices \subseteq SUBSET {"create", "update", "delete"}
    /\ MaxRefs \in Nat /\ MaxWrites \in Nat /\ MaxLen \in Nat

VARIABLES
    verbs,         \* FS.verbs: --enable-verbs
    nextHandle,    \* FS.nextHandle
    openFiles,     \* FS.openFiles: handle -> openFile
    contentCache,  \* FS.contentCache: node -> <<content>>, or <<>>
    cluster,       \* the content the API serves for a node
    fd,            \* descriptor -> what it refers to and the flush it is in
    writes,        \* writes accepted so far
    dups,          \* descriptors duplicated so far
    applied,       \* history: the writes some update sent to the API held
    late,          \* history: the writes accepted during a flush of their handle
    refused,       \* history: refused writes, [pending, error]
    lost,          \* history: writes neither saved nor reported at the release
    unsaved        \* history: a handle went with other than its saved content

history == <<applied, late, refused, lost, unsaved>>
vars == <<verbs, nextHandle, openFiles, contentCache, cluster, fd, writes,
          dups, history>>

\* Writes are numbered from 1, and a block written is that number.
FromCluster == 0
ErrorText   == -1
Hole        == -2
Origin      == {FromCluster, ErrorText, Hole}

Blocks(content)   == {content[i] : i \in DOMAIN content}
WritesIn(content) == Blocks(content) \ Origin

NoFd == [h |-> 0, op |-> "none", step |-> "idle", shared |-> FALSE,
         slice |-> <<>>, sent |-> <<>>, owed |-> {}]

OpenHandles == DOMAIN openFiles
Busy(f)     == fd[f].step # "idle"
Refers(f)   == fd[f].h # 0
NodeOf(f)   == openFiles[fd[f].h].node

\* The kernel's inode lock.
Fsyncing(n) == \E f \in Fds : fd[f].op = "fsync" /\ Busy(f) /\ NodeOf(f) = n

CanRefer    == nextHandle + dups <= MaxRefs

-----------------------------------------------------------------------------
\* Opening.

\* GetContent fails for a file it does not know, and may fail for any other.
CanFetch(n) == Kind[n] # "created"

\* history: the content the handle takes for the cluster's (what it was opened
\* with or last saved), and the writes whose failure a flush has reported
NewOpenFile(n, content, pending) ==
    [node |-> n, buf |-> content, dirty |-> FALSE, pending |-> pending,
     saved |-> content, reported |-> {}]

Opened(f, n, content, pending) ==
    /\ ~ Refers(f) /\ CanRefer
    /\ openFiles' = [h \in OpenHandles \cup {nextHandle} |->
          IF h = nextHandle THEN NewOpenFile(n, content, pending) ELSE openFiles[h]]
    /\ fd' = [fd EXCEPT ![f] = [NoFd EXCEPT !.h = nextHandle]]
    /\ UNCHANGED <<verbs, cluster, writes, dups, history>>

\* fault: the next handle gets the same number
SeededNewHandle(f, n, content, pending) ==
    Opened(f, n, content, pending) /\ UNCHANGED nextHandle

NewHandle(f, n, content, pending) ==
    Opened(f, n, content, pending) /\ nextHandle' = nextHandle + 1

\* OpenFile copies what FetchContent has: a cached content or, cached in
\* turn, the API's answer or the text of its error.
OpenFile(f, n) ==
    \/ /\ contentCache[n] # <<>>
       /\ NewHandle(f, n, contentCache[n][1], FALSE)
       /\ UNCHANGED contentCache
    \/ \E content \in {<<ErrorText>>} \cup (IF CanFetch(n) THEN {cluster[n]} ELSE {}) :
          /\ contentCache[n] = <<>>
          /\ NewHandle(f, n, content, FALSE)
          /\ contentCache' = [contentCache EXCEPT ![n] = <<content>>]

CreateAndOpen(f, n) ==
    /\ "create" \in verbs /\ Kind[n] = "created"
    /\ NewHandle(f, n, <<>>, TRUE)
    /\ UNCHANGED contentCache

\* dup(2) or fork(2): one more descriptor for the same handle, unseen by FUSE.
Dup(f, g) ==
    /\ Refers(f) /\ ~ Refers(g) /\ CanRefer
    /\ ~ (fd[f].op = "close")
    /\ fd' = [fd EXCEPT ![g] = [NoFd EXCEPT !.h = fd[f].h]]
    /\ dups' = dups + 1
    /\ UNCHANGED <<verbs, nextHandle, openFiles, contentCache, cluster, writes,
                   history>>

-----------------------------------------------------------------------------
\* Writing.

\* fault: WriteHandle leaves the kind of file to ApplyContent
SeededWriteError(h) ==
    LET of == openFiles[h]
    IN  CASE of.pending /\ "create" \notin verbs   -> "EROFS"
          [] ~ of.pending /\ "update" \notin verbs -> "EROFS"
          [] OTHER -> "none"

\* The checks of WriteHandle, in its order.
WriteError(h) ==
    LET of == openFiles[h]
    IN  CASE of.pending /\ "create" \notin verbs   -> "EROFS"
          [] ~ of.pending /\ "update" \notin verbs -> "EROFS"
          [] Kind[of.node] \notin {"dataFile", "yaml", "json"} -> "EPERM"
          [] OTHER -> "none"

\* One block written at offset `off', past the end with a hole between.
Written(buf, off, b) ==
    [i \in 1..(IF off + 1 > Len(buf) THEN off + 1 ELSE Len(buf)) |->
        CASE i = off + 1  -> b
          [] i # off + 1 /\ i <= Len(buf) -> buf[i]
          [] OTHER        -> Hole]

\* Growing allots a new array: a flush under way keeps the old one.  A write
\* inside the buffer is seen by the flush that has not read that block yet.
SliceAfter(f, h, off, b) ==
    LET grows == off + 1 > Len(openFiles[h].buf)
    IN  IF fd[f].h = h /\ Busy(f) /\ fd[f].shared
        THEN IF grows THEN [fd[f] EXCEPT !.shared = FALSE]
                      ELSE [fd[f] EXCEPT !.slice[off + 1] = b]
        ELSE fd[f]

\* fault: only a write that grows the buffer marks it
SeededStore(h, off, b) ==
    openFiles' = [openFiles EXCEPT ![h].buf = Written(@, off, b),
                                   ![h].dirty = @ \/ off + 1 > Len(openFiles[h].buf)]

Store(h, off, b) ==
    openFiles' = [openFiles EXCEPT ![h].buf = Written(@, off, b), ![h].dirty = TRUE]

\* fault: OpenFile hands out the cached slice, and a write goes through it
SeededCacheAfter(n, off, b) ==
    IF contentCache[n] = <<>> THEN contentCache
    ELSE [contentCache EXCEPT ![n] = << Written(@[1], off, b) >>]

\* OpenFile copied the slice: append([]byte(nil), data...).
CacheAfter(n, off, b) == contentCache

WriteHandle(f, off) ==
    LET h == fd[f].h
        b == writes + 1
    IN  /\ Refers(f) /\ ~ Busy(f) /\ ~ Fsyncing(NodeOf(f))
        /\ off < MaxLen /\ writes < MaxWrites
        /\ WriteError(h) = "none"
        /\ Store(h, off, b)
        /\ fd' = [g \in Fds |-> SliceAfter(g, h, off, b)]
        /\ contentCache' = CacheAfter(NodeOf(f), off, b)
        /\ writes' = writes + 1
        /\ late' = IF \E g \in Fds : fd[g].h = h /\ Busy(g) THEN late \cup {b} ELSE late
        /\ UNCHANGED <<verbs, nextHandle, cluster, dups, applied, refused, lost, unsaved>>

WriteRefused(f) ==
    /\ Refers(f) /\ ~ Busy(f) /\ ~ Fsyncing(NodeOf(f))
    /\ WriteError(fd[f].h) # "none"
    /\ refused' = refused \cup {[pending |-> openFiles[fd[f].h].pending,
                                 error |-> WriteError(fd[f].h)]}
    /\ UNCHANGED <<verbs, nextHandle, openFiles, contentCache, cluster, fd,
                   writes, dups, applied, late, lost, unsaved>>

\* Truncate cuts the buffer of every open handle of the node.
Truncate(n, size) ==
    /\ verbs # {} /\ ~ Fsyncing(n) /\ size <= MaxLen
    /\ openFiles' = [h \in DOMAIN openFiles |->
          IF openFiles[h].node = n /\ size < Len(openFiles[h].buf)
          THEN [openFiles[h] EXCEPT !.buf = SubSeq(@, 1, size)]
          ELSE openFiles[h]]
    /\ UNCHANGED <<verbs, nextHandle, contentCache, cluster, fd, writes, dups,
                   history>>

-----------------------------------------------------------------------------
\* Flushing: a close sends FLUSH and takes the descriptor with it whatever
\* FLUSH answers; FSYNC leaves it.

Return(f, ok, op, owed) ==
    LET of == openFiles[fd[f].h]
    IN  /\ fd' = [fd EXCEPT ![f] = IF op = "close" THEN NoFd
                                   ELSE [NoFd EXCEPT !.h = fd[f].h]]
        /\ openFiles' = [openFiles EXCEPT ![fd[f].h] =
              IF ok THEN [of EXCEPT !.dirty = FALSE, !.pending = FALSE,
                                    !.saved = fd[f].sent]
                    ELSE [of EXCEPT !.reported = of.reported \cup owed]]

\* Nothing to do, or nothing allowed.
FlushReturns(f, op) ==
    LET of == openFiles[fd[f].h]
    IN  /\ Refers(f) /\ ~ Busy(f)
        /\ \/ ~ of.dirty
           \/ IF of.pending THEN "create" \notin verbs ELSE "update" \notin verbs
        /\ Return(f, FALSE, op, IF of.dirty THEN WritesIn(of.buf) ELSE {})
        /\ UNCHANGED <<verbs, nextHandle, contentCache, cluster, writes, dups,
                       history>>

FlushBegins(f, op) ==
    LET of == openFiles[fd[f].h]
    IN  /\ Refers(f) /\ ~ Busy(f) /\ of.dirty
        /\ op = "fsync" => ~ Fsyncing(of.node)
        /\ IF of.pending THEN "create" \in verbs ELSE "update" \in verbs
        /\ fd' = [fd EXCEPT ![f] = [h |-> fd[f].h, op |-> op, step |-> "reading",
                                   shared |-> TRUE, slice |-> of.buf,
                                   sent |-> <<>>, owed |-> WritesIn(of.buf)]]
        /\ UNCHANGED <<verbs, nextHandle, openFiles, contentCache, cluster, writes,
                       dups, history>>

ReadBlock(f) ==
    /\ fd[f].step = "reading" /\ Len(fd[f].sent) < Len(fd[f].slice)
    /\ fd' = [fd EXCEPT ![f].sent = Append(@, fd[f].slice[Len(@) + 1])]
    /\ UNCHANGED <<verbs, nextHandle, openFiles, contentCache, cluster, writes,
                   dups, history>>

\* ApplyContent: an object's text must parse and name the object, which an
\* error text does not; a data key takes any bytes.
Acceptable(n, content) ==
    Kind[n] = "dataFile" \/ ErrorText \notin Blocks(content)

\* fault: the last block stays behind
SeededReadyToSend(f) ==
    fd[f].step = "reading" /\ Len(fd[f].sent) + 1 = Len(fd[f].slice)

ReadyToSend(f) == fd[f].step = "reading" /\ Len(fd[f].sent) = Len(fd[f].slice)

Update(f) ==
    /\ ReadyToSend(f) /\ Acceptable(NodeOf(f), fd[f].sent)
    /\ cluster' = [cluster EXCEPT ![NodeOf(f)] = fd[f].sent]
    /\ applied' = applied \cup WritesIn(fd[f].sent)
    /\ UNCHANGED <<verbs, nextHandle, contentCache, writes, dups, late, refused,
                   lost, unsaved>>

ApiAccepts(f) ==
    /\ Update(f)
    /\ fd' = [fd EXCEPT ![f].step = "accepted"]
    /\ UNCHANGED openFiles

\* The update is made, but its answer is an error (a timeout).
ApiAcceptsUnheard(f) ==
    /\ Update(f)
    /\ Return(f, FALSE, fd[f].op, fd[f].owed)

\* A conflict, a text that does not parse, no connection: EIO.
ApiRejects(f) ==
    /\ ReadyToSend(f)
    /\ Return(f, FALSE, fd[f].op, fd[f].owed)
    /\ UNCHANGED <<verbs, nextHandle, contentCache, cluster, writes, dups,
                   history>>

FlushEnds(f) ==
    /\ fd[f].step = "accepted"
    /\ Return(f, TRUE, fd[f].op, {})
    /\ contentCache' = [contentCache EXCEPT ![NodeOf(f)] = <<>>]
    /\ UNCHANGED <<verbs, nextHandle, cluster, writes, dups, history>>

\* RELEASE comes after the last descriptor is gone.
ReleaseHandle(h) ==
    /\ h \in OpenHandles
    /\ \A f \in Fds : fd[f].h # h
    /\ openFiles' = [g \in OpenHandles \ {h} |-> openFiles[g]]
    /\ LET of == openFiles[h]
       IN  /\ lost' = lost \cup (WritesIn(of.buf) \ (applied \cup of.reported))
           /\ unsaved' = (unsaved \/ (~ of.dirty /\ of.buf # of.saved))
    /\ UNCHANGED <<verbs, nextHandle, contentCache, cluster, fd, writes, dups,
                   applied, late, refused>>

\* contentTTL runs out.
ExpireContent(n) ==
    /\ contentCache[n] # <<>>
    /\ contentCache' = [contentCache EXCEPT ![n] = <<>>]
    /\ UNCHANGED <<verbs, nextHandle, openFiles, cluster, fd, writes, dups,
                   history>>

-----------------------------------------------------------------------------
Init ==
    /\ verbs \in VerbChoices
    /\ nextHandle = 1 /\ openFiles = <<>>
    /\ contentCache = [n \in Nodes |-> <<>>]
    /\ cluster = [n \in Nodes |-> <<FromCluster>>]
    /\ fd = [f \in Fds |-> NoFd]
    /\ writes = 0 /\ dups = 0 /\ applied = {} /\ late = {} /\ refused = {}
    /\ lost = {} /\ unsaved = FALSE

Next ==
    \/ \E f \in Fds :
          \/ \E n \in Nodes : OpenFile(f, n) \/ CreateAndOpen(f, n)
          \/ \E g \in Fds : Dup(f, g)
          \/ \E off \in 0..MaxLen : WriteHandle(f, off)
          \/ WriteRefused(f)
          \/ \E op \in {"close", "fsync"} : FlushReturns(f, op) \/ FlushBegins(f, op)
          \/ ReadBlock(f) \/ ApiAccepts(f) \/ ApiAcceptsUnheard(f) \/ ApiRejects(f)
          \/ FlushEnds(f)
    \/ \E h \in OpenHandles : ReleaseHandle(h)
    \/ \E n \in Nodes : ExpireContent(n)
    \/ \E n \in Nodes, size \in 0..MaxLen : Truncate(n, size)

Spec == Init /\ [][Next]_vars

-----------------------------------------------------------------------------
Content == Seq(Origin \cup (1..MaxWrites))

OpenFileType ==
    [node : Nodes, buf : Content, dirty : BOOLEAN,
     pending : BOOLEAN, saved : Content,
     reported : SUBSET (1..MaxWrites)]

TypeOK ==
    /\ verbs \in VerbChoices
    /\ \A h \in OpenHandles : h \in 1..(nextHandle - 1) /\ openFiles[h] \in OpenFileType
    /\ \A n \in Nodes : cluster[n] \in Content /\ Len(contentCache[n]) <= 1
    /\ \A f \in Fds : /\ Refers(f) => fd[f].h \in OpenHandles
                      /\ fd[f].slice \in Content /\ fd[f].sent \in Content
    /\ applied \cup late \cup lost \subseteq 1..writes

\* No write is accepted that a later flush would refuse: what WriteHandle
\* lets in, of verbs and of kinds of file, FlushHandle and ApplyContent take.
DirtyIsAllowed ==
    \A h \in OpenHandles : openFiles[h].dirty =>
        /\ (IF openFiles[h].pending THEN "create" ELSE "update") \in verbs
        /\ Kind[openFiles[h].node] \in {"dataFile", "yaml", "json"}

\* What is written and not yet saved is seen through its own handle only: an
\* open of the same file does not take it for the cluster's, nor does the
\* content cache hold it.
UnsavedIsPrivate ==
    /\ \A h \in OpenHandles : WritesIn(openFiles[h].saved) \subseteq applied
    /\ \A n \in Nodes : \A i \in DOMAIN contentCache[n] :
            WritesIn(contentCache[n][i]) \subseteq applied

\* What a flush had to save when it began, and what is still in the buffer, it
\* has saved once the API accepted it, whatever was written, grown or cut
\* while the flush was reading and sending.
FlushCoversOwed ==
    \A f \in Fds : fd[f].step = "accepted" =>
        fd[f].owed \cap WritesIn(openFiles[fd[f].h].buf) \subseteq applied

\* When a handle is gone, every write that was in its buffer reached the API,
\* or a flush told a writer that it did not.  The writes that came while a
\* flush of the handle was under way are the only ones that may be lost.
LostOnlyIfLate == lost \subseteq late

\* The same without exception: what is acknowledged is saved or reported.
NoSilentLoss == lost = {}

\* A handle that went after a successful last flush left its content saved,
\* or had the content it was opened with.
LastContentIsSaved == ~ unsaved

\* A handle CreateAndOpen returned takes writes.
CreatedIsWritable == \A r \in refused : r.pending => "create" \notin verbs
=============================================================================
