----------------------------- MODULE ContentPath -----------------------------
(***************************************************************************)
(* What a read of a file returns: FS.FetchContent over Client.GetObject*   *)
(* over the API, and what a save does to the two caches on the way         *)
(* (FlushHandle, ApplyContent, ApplyObject, UpdateObjectDataKey,           *)
(* InvalidateObject).  One object; its content is the number of its        *)
(* version, which every update of the object increments.                   *)
(*                                                                         *)
(* Two caches stand in line.  contentCache (fs.go) keeps what it was given *)
(* for ContentTTL after storing it; Client.cache (cache.go) keeps an API   *)
(* answer for CacheTTL after Set.  The second lock is taken after the      *)
(* first is given back, and neither is held across an API request.         *)
(*                                                                         *)
(* External: the API server.  A goroutine finishes the part of a call that *)
(* is modelled within MaxLatency (Tick), as it would with a time limit on  *)
(* requests.                                                               *)
(***************************************************************************)
EXTENDS Integers, Sequences

CONSTANTS
    Threads,      \* goroutines serving requests
    Files,        \* the object's files, each with an inode
    Key,          \* Files -> the cache key GetContent asks the client for
    KeyOrder,     \* the keys InvalidateObject deletes, in its order
    DataFiles,    \* those of Files under data/, saved by read-modify-write
    CacheTTL,     \* --cache-ttl
    ContentTTL,   \* contentTTL
    MaxLatency,   \* bound on a call's time from its first cache miss
    MaxNow,       \* model bound: the clock
    MaxVersion    \* model bound: updates of the object

ASSUME ContentPathAssumption ==
    /\ DataFiles \subseteq Files
    /\ \A f \in Files : \E i \in 1..Len(KeyOrder) : Key[f] = KeyOrder[i]
    /\ Len(KeyOrder) \in Nat
    /\ CacheTTL \in Nat /\ ContentTTL \in Nat /\ MaxLatency \in Nat
    /\ MaxNow \in Nat /\ MaxVersion \in Nat

VARIABLES
    now,           \* time.Now()
    version,       \* the object's current version
    died,          \* history: version -> when an update replaced it
    clientCache,   \* Client.cache: key -> set of at most one entry
    contentCache,  \* FS.contentCache: file -> set of at most one entry
    call,          \* per thread: the call it is in
    served,        \* history: what the read that this step ended returned
    saved          \* history: saves that returned success

vars == <<now, version, died, clientCache, contentCache, call, served, saved>>

ErrorText == -1     \* in place of a version

Keys == {KeyOrder[i] : i \in 1..Len(KeyOrder)}

NoVersions == [own |-> 0, ownQuiet |-> 0, anyQuiet |-> 0]
NoCall == [step |-> "idle", file |-> "none", start |-> 0, ver |-> 0, todo |-> 0,
           must |-> NoVersions, quiet |-> FALSE]
NoRead == [age |-> 0, own |-> TRUE, ownQuiet |-> TRUE, anyQuiet |-> TRUE]

At(t, step) == call[t].step = step

Fetching(t) == call[t].step \in {"client", "drop", "api", "set", "store"}

\* history: the newest version whose save had returned when a read of f
\* begins: of the saves of f itself, of those during whose update and
\* invalidation no fetch was under way (quiet), and of the quiet saves of any
\* file at least ContentTTL ago
Newest(S) == IF S = {} THEN 0 ELSE CHOOSE v \in S : \A w \in S : w <= v
MustSee(f) ==
    [own      |-> Newest({s.ver : s \in {x \in saved : x.file = f}}),
     ownQuiet |-> Newest({s.ver : s \in {x \in saved : x.file = f /\ x.quiet}}),
     anyQuiet |-> Newest({s.ver : s \in {x \in saved : /\ x.quiet
                                                     /\ x.at + ContentTTL <= now}})]

-----------------------------------------------------------------------------
\* FetchContent.

Live(e)  == now - e.at < ContentTTL         \* time.Since(fetchedAt) < contentTTL
SeededValid(e) == TRUE                      \* fault: entries never expire
Valid(e) == now <= e.exp                    \* ! time.Now().After(expiresAt)

\* history: how long ago the version read had been replaced
Age(ver) == IF ver \in 0..(version - 1) THEN now - died[ver] ELSE 0

Serve(ver, must) ==
    served' = IF ver = ErrorText THEN NoRead
              ELSE [age |-> Age(ver), own |-> ver >= must.own,
                    ownQuiet |-> ver >= must.ownQuiet, anyQuiet |-> ver >= must.anyQuiet]

NothingServed == served' = NoRead

FetchHit(t, f) ==
    /\ At(t, "idle")
    /\ \E e \in contentCache[f] :
          Live(e) /\ Serve(e.ver, MustSee(f))
    /\ UNCHANGED <<now, version, died, clientCache, contentCache, call, saved>>

FetchMiss(t, f) ==
    /\ At(t, "idle")
    /\ \A e \in contentCache[f] : ~ Live(e)
    /\ call' = [u \in Threads |->
          IF u # t THEN [call[u] EXCEPT !.quiet = FALSE]
          ELSE [NoCall EXCEPT !.step = "client", !.file = f, !.start = now,
                  !.must = MustSee(f)]]
    /\ NothingServed
    /\ UNCHANGED <<now, version, died, clientCache, contentCache, saved>>

Holding(t, ver, step) ==
    call' = [call EXCEPT ![t] = [@ EXCEPT !.step = step, !.ver = ver]]

Goto(t, step) == call' = [call EXCEPT ![t].step = step]

\* Cache.Get reads under RLock, and deletes an expired entry under a second
\* lock ("drop"): whatever entry is there by then.
ClientGet(t) ==
    LET entries == clientCache[Key[call[t].file]]
    IN  /\ At(t, "client")
        /\ \/ \E e \in entries : Valid(e) /\ Holding(t, e.ver, "store")
           \/ \E e \in entries : ~ Valid(e) /\ Goto(t, "drop")
           \/ entries = {} /\ Goto(t, "api")
        /\ NothingServed
        /\ UNCHANGED <<now, version, died, clientCache, contentCache, saved>>

Drop(t) ==
    /\ At(t, "drop")
    /\ clientCache' = [clientCache EXCEPT ![Key[call[t].file]] = {}]
    /\ Goto(t, "api")
    /\ NothingServed
    /\ UNCHANGED <<now, version, died, contentCache, saved>>

\* fault: a failed request is cached by the client as well
SeededApiGet(t) ==
    /\ At(t, "api")
    /\ \E ver \in {version, ErrorText} : Holding(t, ver, "set")
    /\ NothingServed
    /\ UNCHANGED <<now, version, died, clientCache, contentCache, saved>>

ApiGet(t) ==
    /\ At(t, "api")
    /\ \/ Holding(t, version, "set")
       \/ Holding(t, ErrorText, "store")
    /\ NothingServed
    /\ UNCHANGED <<now, version, died, clientCache, contentCache, saved>>

ClientSet(t) ==
    /\ At(t, "set")
    /\ clientCache' = [clientCache EXCEPT ![Key[call[t].file]] =
          {[ver |-> call[t].ver, exp |-> now + CacheTTL]}]
    /\ Goto(t, "store")
    /\ NothingServed
    /\ UNCHANGED <<now, version, died, contentCache, saved>>

\* The error text of a failed fetch is stored like any content.
Store(t) ==
    LET c == call[t]
    IN  /\ At(t, "store")
        /\ contentCache' = [contentCache EXCEPT ![c.file] =
              {[ver |-> c.ver, at |-> now]}]
        /\ Serve(c.ver, c.must)
        /\ call' = [call EXCEPT ![t] = NoCall]
        /\ UNCHANGED <<now, version, died, clientCache, saved>>

-----------------------------------------------------------------------------
\* FlushHandle, for a file whose content the API may take.

NextVersion ==
    /\ version < MaxVersion
    /\ version' = version + 1
    /\ died' = [v \in 0..version |-> IF v = version THEN now ELSE died[v]]

\* UpdateObjectDataKey first reads the object afresh, and so its version.
SaveBegins(t, f) ==
    /\ At(t, "idle")
    /\ call' = [call EXCEPT ![t] =
          [NoCall EXCEPT !.step = "put", !.file = f, !.start = now,
                         !.ver = IF f \in DataFiles THEN version ELSE 0]]
    /\ NothingServed
    /\ UNCHANGED <<now, version, died, clientCache, contentCache, saved>>

\* The API refuses an update whose resourceVersion is not the current one:
\* the one just read, or the one in the text saved, if the writer left it in.
CanPut(t) == At(t, "put") /\ (call[t].file \in DataFiles => call[t].ver = version)

ApiPut(t) ==
    /\ CanPut(t)
    /\ NextVersion
    /\ call' = [call EXCEPT ![t].step = "invalidate", ![t].todo = 1,
                            ![t].ver = version + 1,
                            ![t].quiet = \A u \in Threads : ~ Fetching(u)]
    /\ NothingServed
    /\ UNCHANGED <<now, clientCache, contentCache, saved>>

\* EIO: a failed read or update, a conflict, or an update whose answer was lost.
SaveFails(t) ==
    /\ At(t, "put")
    /\ \/ UNCHANGED <<version, died>>
       \/ CanPut(t) /\ NextVersion
    /\ call' = [call EXCEPT ![t] = NoCall]
    /\ NothingServed
    /\ UNCHANGED <<now, clientCache, contentCache, saved>>

\* fault: only the key the saved file is read by is deleted
SeededInvalidate(t) ==
    /\ At(t, "invalidate")
    /\ clientCache' = [clientCache EXCEPT ![Key[call[t].file]] = {}]
    /\ Goto(t, "forget")
    /\ NothingServed
    /\ UNCHANGED <<now, version, died, contentCache, saved>>

\* InvalidateObject, one locked Delete after the other.
Invalidate(t) ==
    /\ At(t, "invalidate")
    /\ clientCache' = [clientCache EXCEPT ![KeyOrder[call[t].todo]] = {}]
    /\ call' = [call EXCEPT
          ![t].todo = @ + 1,
          ![t].step = IF call[t].todo = Len(KeyOrder) THEN "forget" ELSE "invalidate"]
    /\ NothingServed
    /\ UNCHANGED <<now, version, died, contentCache, saved>>

Saved(t) == saved' = saved \cup {[file |-> call[t].file, ver |-> call[t].ver,
                                  at |-> now, quiet |-> call[t].quiet]}

\* fault: FlushHandle leaves contentCache alone
SeededForget(t) ==
    /\ At(t, "forget")
    /\ Saved(t)
    /\ call' = [call EXCEPT ![t] = NoCall]
    /\ NothingServed
    /\ UNCHANGED <<now, version, died, clientCache, contentCache>>

\* delete(fs.contentCache, of.node.ID): this file's entry and no other.
Forget(t) ==
    /\ At(t, "forget")
    /\ contentCache' = [contentCache EXCEPT ![call[t].file] = {}]
    /\ Saved(t)
    /\ call' = [call EXCEPT ![t] = NoCall]
    /\ NothingServed
    /\ UNCHANGED <<now, version, died, clientCache>>

-----------------------------------------------------------------------------
\* kubectl, or a controller, updates the object.
ExternalWrite ==
    /\ NextVersion
    /\ NothingServed
    /\ UNCHANGED <<now, clientCache, contentCache, call, saved>>

Tick ==
    /\ now < MaxNow
    /\ \A t \in Threads : ~ At(t, "idle") => now - call[t].start < MaxLatency
    /\ now' = now + 1
    /\ NothingServed
    /\ UNCHANGED <<version, died, clientCache, contentCache, call, saved>>

Init ==
    /\ now = 0 /\ version = 0 /\ died = [v \in {} |-> 0]
    /\ clientCache = [k \in Keys |-> {}]
    /\ contentCache = [f \in Files |-> {}]
    /\ call = [t \in Threads |-> NoCall]
    /\ served = NoRead
    /\ saved = {}

Next ==
    \/ \E t \in Threads :
          \/ \E f \in Files : FetchHit(t, f) \/ FetchMiss(t, f) \/ SaveBegins(t, f)
          \/ ClientGet(t) \/ Drop(t) \/ ApiGet(t) \/ ClientSet(t) \/ Store(t)
          \/ ApiPut(t) \/ SaveFails(t) \/ Invalidate(t) \/ Forget(t)
    \/ ExternalWrite
    \/ Tick

Spec == Init /\ [][Next]_vars

-----------------------------------------------------------------------------
TypeOK ==
    /\ now \in 0..MaxNow /\ version \in 0..MaxVersion
    /\ died \in [0..(version - 1) -> 0..now]
    /\ \A k \in Keys : \A e \in clientCache[k] :
          e.ver \in 0..version /\ e.exp \in 0..(now + CacheTTL)
    /\ \A f \in Files : \A e \in contentCache[f] :
          e.ver \in -1..version /\ e.at \in 0..now
    /\ \A t \in Threads :
          /\ call[t].ver \in -1..version /\ call[t].start \in 0..now
          /\ call[t].todo \in 0..(Len(KeyOrder) + 1)
    /\ served.age \in 0..now
    /\ \A x \in saved : x.ver \in 1..version /\ x.at \in 0..now

\* What a read returns had not been replaced for longer than the client's time
\* to live and the time two calls may take, one that fills the client's cache
\* and one that takes the entry from there just before it expires; or, when
\* it comes from contentCache, for as long as that and ContentTTL on top.
BoundedStaleness ==
    \/ served.age <= CacheTTL + 2 * MaxLatency
    \/ served.age < CacheTTL + 2 * MaxLatency + ContentTTL

\* A read of a file that begins after a save of that file has returned sees
\* the save: the client's entries and the file's own are dropped before then.
ReadYourWrites == served.own

\* That holds of saves no fetch overlapped from the update to the end: a
\* fetch that asked before the update is the only way for the old content to
\* get behind the invalidation.
ReadYourQuietWrites == served.ownQuiet

\* The object's other files keep what contentCache has of them, but no longer
\* than ContentTTL, and what they fetch next is not from before a quiet save.
SiblingsCatchUp == served.anyQuiet
=============================================================================
