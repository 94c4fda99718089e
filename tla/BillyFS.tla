-------------------------------- MODULE BillyFS --------------------------------
(***************************************************************************)
(* internal/nfsmount/billy.go over the handles of OpenFiles.               *)
(*                                                                         *)
(* NFSv3 has no open files: each request walks its path anew, and if it    *)
(* needs a file, opens, uses and closes one of its own.  The walk lists    *)
(* each directory, which takes from the inode table what is not listed,    *)
(* looks the name up, and resolve then gets the inode once more.           *)
(*                                                                         *)
(* A node is a file with the object whose directory it is in; its walk is  *)
(* that of its last name, and the directory above stays (Directory has     *)
(* whole walks).  BillyFS.handles follows openFiles and nothing reads it.  *)
(*                                                                         *)
(* External: go-nfs, which turns requests into the calls below and may     *)
(* serve several at once; NFS clients; the API server.                     *)
(***************************************************************************)
EXTENDS OpenFiles

CONSTANT MaxRequests     \* model bound: requests served

ASSUME BillyFSAssumption == Nodes # {} /\ MaxRequests \in Nat

VARIABLES
    live,        \* the nodes in the inode table
    gone,        \* the nodes without object in the cluster, or not created yet
    rpc,         \* a request being served, numbered by its descriptor
    requests,    \* requests so far
    crashed,     \* a request used the nil of resolve: whether it was alone
    posix,       \* history: the file as the answered requests made it
    excused,     \* history: nodes of which `posix' cannot be asked
    failed       \* history: handles whose request was answered with an error

files    == <<verbs, nextHandle, openFiles, contentCache, cluster, fd, writes, dups, history>>
shadow   == <<posix, excused, failed>>
billyVars == <<files, live, gone, rpc, requests, crashed, shadow>>

Rpcs    == Fds
Created == {n \in Nodes : Kind[n] = "created"}
Listed  == Nodes \ (gone \cup Created)

NoRpc == [op |-> "none", node |-> CHOOSE n \in Nodes : TRUE, step |-> "idle", h |-> 0,
          off |-> 0, alone |-> TRUE, content |-> <<>>]

Serving == {r \in Rpcs : rpc[r].step # "idle"}

At(r, step) == rpc[r].step = step
Goes(r, step) == rpc' = [rpc EXCEPT ![r].step = step]
Answers(r) == rpc' = [rpc EXCEPT ![r] = NoRpc]

-----------------------------------------------------------------------------
\* The walk.

\* CREATE walks to the directory only.
Begin(r, op, n) ==
    /\ At(r, "idle") /\ ~ crashed.yes
    /\ requests < MaxRequests /\ requests' = requests + 1
    /\ rpc' = [q \in Rpcs |->
          IF q = r THEN [NoRpc EXCEPT !.op = op, !.node = n, !.alone = (Serving = {}),
                                      !.step = IF op = "create" THEN "open" ELSE "list"]
          ELSE IF q \in Serving THEN [rpc[q] EXCEPT !.alone = FALSE] ELSE rpc[q]]
    /\ excused' = IF \E q \in Serving : rpc[q].node = n THEN excused \cup {n} ELSE excused
    /\ UNCHANGED <<files, live, gone, crashed, posix, failed>>

\* populateObjects names the objects the API lists: a created file is none.
KeptByListing == live \cap Listed

\* ensureChildren: the request may fail.
List(r) ==
    /\ At(r, "list")
    /\ \/ live' = KeptByListing /\ Goes(r, "look")
       \/ Answers(r) /\ UNCHANGED live
    /\ UNCHANGED <<files, gone, requests, crashed, shadow>>

\* fault: what the directory had before the listing
SeededLookedUp(r) == TRUE

LookedUp(r) == rpc[r].node \in live

Look(r) ==
    /\ At(r, "look")
    /\ IF LookedUp(r) THEN Goes(r, "get") ELSE Answers(r)
    /\ UNCHANGED <<files, live, gone, requests, crashed, shadow>>

\* GetInode; a nil is returned without an error and dereferenced.
Get(r) ==
    /\ At(r, "get")
    /\ IF rpc[r].node \in live THEN Goes(r, "open") /\ UNCHANGED crashed
       ELSE crashed' = [yes |-> TRUE, alone |-> rpc[r].alone] /\ Answers(r)
    /\ UNCHANGED <<files, live, gone, requests, shadow>>

\* OpenFile and GetAttr look the inode up a third time.
Vanished(r) ==
    /\ At(r, "open") /\ rpc[r].op # "create" /\ rpc[r].node \notin live
    /\ Answers(r)
    /\ UNCHANGED <<files, live, gone, requests, crashed, shadow>>

Reaches(r, op) == At(r, "open") /\ rpc[r].op = op

-----------------------------------------------------------------------------
\* Stat: GetAttr takes the length of what FetchContent returns.

StatHit(r) ==
    /\ Reaches(r, "stat") /\ rpc[r].node \in live
    /\ contentCache[rpc[r].node] # <<>>
    /\ Answers(r)
    /\ UNCHANGED <<files, live, gone, requests, crashed, shadow>>

StatFetches(r) ==
    LET n == rpc[r].node
    IN  /\ Reaches(r, "stat") /\ n \in live
        /\ contentCache[n] = <<>>
        /\ \E content \in {<<ErrorText>>} \cup (IF n \in Listed THEN {cluster[n]} ELSE {}) :
              rpc' = [rpc EXCEPT ![r].step = "store", ![r].content = content]
        /\ UNCHANGED <<files, live, gone, requests, crashed, shadow>>

StatStores(r) ==
    /\ At(r, "store")
    /\ contentCache' = [contentCache EXCEPT ![rpc[r].node] = <<rpc[r].content>>]
    /\ Answers(r)
    /\ UNCHANGED <<verbs, nextHandle, openFiles, cluster, fd, writes, dups, history,
                   live, gone, requests, crashed, shadow>>

\* Remove of an object's directory, or of a created file.
Remove(r) ==
    LET n == rpc[r].node
    IN  /\ Reaches(r, "remove") /\ n \in live
        /\ n \in Created \/ (n \in Listed /\ "delete" \in verbs)
        /\ gone' = gone \cup {n}
        /\ live' = live \ {n}
        /\ Answers(r)
        /\ UNCHANGED <<files, requests, crashed, shadow>>

\* EPERM, or EIO for a delete that fails.
RemoveRefused(r) ==
    /\ Reaches(r, "remove") /\ rpc[r].node \notin Created
    /\ Answers(r)
    /\ UNCHANGED <<files, live, gone, requests, crashed, shadow>>

OthersRemove(n) ==
    /\ n \in Listed /\ gone' = gone \cup {n}
    /\ UNCHANGED <<files, live, rpc, requests, crashed, shadow>>

-----------------------------------------------------------------------------
\* A file of the request's own: BillyFS.OpenFile or Create, Write or Truncate
\* of billyFile, Close.

OpenOwn(r) ==
    LET n == rpc[r].node
    IN  /\ rpc[r].op \in {"write", "setattr"} /\ At(r, "open") /\ n \in live
        /\ OpenFile(r, n)
        /\ rpc' = [rpc EXCEPT ![r].step = "use", ![r].h = nextHandle]
        /\ UNCHANGED <<live, gone, requests, crashed, shadow>>

CreateOwn(r) ==
    /\ Reaches(r, "create")
    /\ CreateAndOpen(r, rpc[r].node)
    /\ live' = live \cup {rpc[r].node} /\ gone' = gone \ {rpc[r].node}
    /\ rpc' = [rpc EXCEPT ![r].step = "close", ![r].h = nextHandle]
    /\ UNCHANGED <<requests, crashed, shadow>>

\* EROFS.
CreateRefused(r) ==
    /\ Reaches(r, "create") /\ "create" \notin verbs
    /\ Answers(r)
    /\ UNCHANGED <<files, live, gone, requests, crashed, shadow>>

WriteOwn(r, off) ==
    LET n == rpc[r].node
    IN  /\ At(r, "use") /\ rpc[r].op = "write"
        /\ WriteHandle(r, off)
        /\ rpc' = [rpc EXCEPT ![r].step = "close", ![r].off = off]
        /\ excused' = IF ErrorText \in Blocks(openFiles[rpc[r].h].buf)
                      THEN excused \cup {n} ELSE excused
        /\ UNCHANGED <<live, gone, requests, crashed, posix, failed>>

WriteOwnRefused(r) ==
    /\ At(r, "use") /\ rpc[r].op = "write"
    /\ WriteRefused(r)
    /\ Goes(r, "failed")
    /\ UNCHANGED <<live, gone, requests, crashed, shadow>>

\* A SETATTR of another length than the file's is answered and not saved.
TruncateOwn(r, size) ==
    LET n == rpc[r].node
    IN  /\ At(r, "use") /\ rpc[r].op = "setattr" /\ n \in live
        /\ Truncate(n, size)
        /\ Goes(r, "close")
        /\ excused' = IF size # Len(posix[n]) THEN excused \cup {n} ELSE excused
        /\ UNCHANGED <<live, gone, requests, crashed, posix, failed>>

\* EROFS, or ENOENT for what was taken from the table since it was opened.
TruncateRefused(r) ==
    /\ At(r, "use") /\ rpc[r].op = "setattr"
    /\ verbs = {} \/ rpc[r].node \notin live
    /\ Goes(r, "failed")
    /\ UNCHANGED <<files, live, gone, requests, crashed, shadow>>

\* go-nfs returns the error of Write or Truncate without a Close: the handle
\* stays in openFiles, and nobody has it.
Leaves(r) ==
    /\ At(r, "failed")
    /\ fd' = [fd EXCEPT ![r] = NoFd]
    /\ failed' = failed \cup {rpc[r].h}
    /\ Answers(r)
    /\ UNCHANGED <<verbs, nextHandle, openFiles, contentCache, cluster, writes, dups, history,
                   live, gone, requests, crashed, posix, excused>>

\* Close returns a flush error before it releases the handle.
CloseReturns(r) ==
    /\ At(r, "close")
    /\ FlushReturns(r, "close")
    /\ IF openFiles[rpc[r].h].dirty
       THEN Answers(r) /\ failed' = failed \cup {rpc[r].h}
       ELSE Goes(r, "release") /\ UNCHANGED failed
    /\ UNCHANGED <<live, gone, requests, crashed, posix, excused>>

CloseFlushes(r) ==
    /\ At(r, "close")
    /\ FlushBegins(r, "close") \/ ReadBlock(r)
    /\ UNCHANGED <<live, gone, rpc, requests, crashed, shadow>>

CloseIsAccepted(r) ==
    /\ At(r, "close") /\ rpc[r].node \notin gone
    /\ ApiAccepts(r)
    /\ UNCHANGED <<live, gone, rpc, requests, crashed, shadow>>

CloseFails(r) ==
    /\ At(r, "close")
    /\ \/ ApiRejects(r) /\ UNCHANGED excused
       \/ /\ rpc[r].node \notin gone /\ ApiAcceptsUnheard(r)
          /\ excused' = excused \cup {rpc[r].node}
    /\ Answers(r) /\ failed' = failed \cup {rpc[r].h}
    /\ UNCHANGED <<live, gone, requests, crashed, posix>>

\* fault: the content that was saved over stays cached
SeededCacheAfterSave(r) == contentCache

CacheAfterSave(r) == [contentCache EXCEPT ![rpc[r].node] = <<>>]

CloseFlushed(r) ==
    LET n == rpc[r].node
    IN  /\ At(r, "close") /\ fd[r].step = "accepted"
        /\ Return(r, TRUE, "close", {})
        /\ contentCache' = CacheAfterSave(r)
        /\ Goes(r, "release")
        /\ posix' = [posix EXCEPT ![n] =
              IF n \in excused THEN @ ELSE Written(@, rpc[r].off, fd[r].sent[rpc[r].off + 1])]
        /\ UNCHANGED <<verbs, nextHandle, cluster, writes, dups, history,
                       live, gone, requests, crashed, excused, failed>>

\* fault: Close releases what it has flushed
SeededReleased(r) == IF rpc[r].op = "write" THEN {rpc[r].h} ELSE {}

Released(r) == {rpc[r].h}

Release(r) ==
    /\ At(r, "release")
    /\ \/ \E h \in Released(r) : ReleaseHandle(h)
       \/ Released(r) = {} /\ UNCHANGED files
    /\ Answers(r)
    /\ UNCHANGED <<live, gone, requests, crashed, shadow>>

ContentExpires(n) ==
    /\ ExpireContent(n)
    /\ UNCHANGED <<live, gone, rpc, requests, crashed, shadow>>
-----------------------------------------------------------------------------
\* The mount has listed what there is.
BillyInit ==
    /\ Init
    /\ live = Nodes \ Created /\ gone = Created
    /\ rpc = [r \in Rpcs |-> NoRpc]
    /\ requests = 0 /\ crashed = [yes |-> FALSE, alone |-> FALSE]
    /\ posix = cluster /\ excused = {} /\ failed = {}

BillyNext ==
    \/ \E r \in Rpcs, n \in Nodes :
          \/ \E op \in {"stat", "remove", "write", "setattr"} : Begin(r, op, n)
          \/ n \in Created /\ Begin(r, "create", n)
    \/ \E r \in Rpcs :
          \/ List(r) \/ Look(r) \/ Get(r) \/ Vanished(r)
          \/ StatHit(r) \/ StatFetches(r) \/ StatStores(r) \/ Remove(r) \/ RemoveRefused(r)
          \/ OpenOwn(r) \/ CreateOwn(r) \/ CreateRefused(r)
          \/ WriteOwnRefused(r) \/ TruncateRefused(r) \/ Leaves(r)
          \/ \E off \in 0..MaxLen : WriteOwn(r, off) \/ TruncateOwn(r, off)
          \/ CloseReturns(r) \/ CloseFlushes(r) \/ CloseIsAccepted(r) \/ CloseFails(r)
          \/ CloseFlushed(r) \/ Release(r)
    \/ \E n \in Nodes : OthersRemove(n) \/ ContentExpires(n)

BillySpec == BillyInit /\ [][BillyNext]_billyVars

-----------------------------------------------------------------------------
RpcType ==
    [op : {"none", "stat", "remove", "write", "setattr", "create"}, node : Nodes,
     step : {"idle", "list", "look", "get", "open", "store", "use", "failed", "close",
             "release"},
     h : 0..MaxRefs, off : 0..MaxLen, alone : BOOLEAN, content : Content]

BillyTypeOK ==
    /\ TypeOK
    /\ live \subseteq Nodes /\ gone \subseteq Nodes /\ excused \subseteq Nodes
    /\ rpc \in [Rpcs -> RpcType]
    /\ requests \in 0..MaxRequests
    /\ crashed \in [yes : BOOLEAN, alone : BOOLEAN]
    /\ posix \in [Nodes -> Content] /\ failed \subseteq 1..MaxRefs

\* A request that was served alone finds the inode its walk has looked up: the
\* nil that resolve returns without an error takes a second request.
NilOnlyIfRaced == crashed.yes => ~ crashed.alone

\* What CREATE made, and no REMOVE took, is there for the WRITE that is to fill
\* it, if no other request is served.
CreatedIsReached ==
    \A r \in Rpcs : /\ At(r, "look") /\ rpc[r].op = "write" /\ rpc[r].alone
                    /\ rpc[r].node \in Created \ gone
                    => rpc[r].node \in live

\* A request that is answered with success leaves no handle behind: one that no
\* request holds is of a WRITE or SETATTR that was told of an error, be it of
\* its Close or before it, and has no write that was taken for saved and
\* is not.
LeftBehindIsReported ==
    \A h \in OpenHandles : (\A r \in Rpcs : rpc[r].h # h) =>
        /\ h \in failed
        /\ WritesIn(openFiles[h].buf) \subseteq applied \cup openFiles[h].reported

\* An object holds what the WRITEs answered with success have made of it, but
\* for a file in which requests overlapped, whose length was set, of which a
\* fetch failed before a WRITE, or a WRITE that was made is answered with an
\* error.
WritesTakeHold ==
    \A n \in Nodes \ (gone \cup excused \cup Created) :
        (\A r \in Serving : rpc[r].node # n) => cluster[n] = posix[n]
=============================================================================
