----------------------------- MODULE ClientWrites -----------------------------
(***************************************************************************)
(* The writing half of internal/k8s/client.go, from FlushHandle down:      *)
(* CreateObject, ApplyObject, UpdateObjectDataKey, DeleteObject and        *)
(* InvalidateObject, with the reads the texts come from.                   *)
(*                                                                         *)
(* The API server numbers every change of an object (resourceVersion).  A  *)
(* text carries the number it was read with and comes back with it, unless *)
(* the writer takes the server's fields out; an update with a number that  *)
(* is not the object's is a conflict.  The client adds, removes and        *)
(* retries nothing.                                                        *)
(*                                                                         *)
(* A handle is a goroutine with the text it has open, or in one of the     *)
(* calls that need none.  A value is the number of the write it came with, *)
(* 0 is a key that is not there.  An object's cached texts are filled and  *)
(* dropped each by itself: one stands for all; the listing is Directory's. *)
(* External: the API server, what writers do with a text, other clients.   *)
(***************************************************************************)
EXTENDS Integers

CONSTANTS
    Handles,     \* open texts and the goroutines that use them
    Objs,        \* names of the objects of one resource type
    Keys,        \* keys of an object's data
    NoName,      \* a text without metadata.name
    InitRev,     \* changes in the cluster before the mount
    MaxRev,      \* model bound: and until the end
    MaxWrites    \* model bound: values written

ASSUME ClientWritesAssumption ==
    /\ NoName \notin Objs
    /\ InitRev \in Nat /\ MaxRev \in Nat /\ InitRev <= MaxRev /\ MaxWrites \in Nat

VARIABLES
    object,      \* the API's objects: name -> [rv, data], rv 0 = none
    rev,         \* the last resourceVersion given out
    cache,       \* Client.cache: object -> set of at most one entry
    handle,      \* handle -> its text and the call it is in
    writes,      \* values written so far
    mustSee      \* history: object -> revision of its last quiet save

vars == <<object, rev, cache, handle, writes, mustSee>>

Kept      == -1
Value     == 0..MaxWrites
Data      == [Keys -> Value]
Edits     == [Keys -> Value \cup {Kept}]

NoData   == [k \in Keys |-> 0]
NoObject == [rv |-> 0, data |-> NoData]
NoEdits  == [k \in Keys |-> Kept]

\* `obj' is the object whose directory the file is in and `base' the object as it was read,
\* `name' the metadata.name in the text, `stripped' that the text has lost its
\* resourceVersion and uid, `asOf' the revision of an answer on its way,
\* `made' (history) how often a text was accepted with its resourceVersion.
NoHandle == [kind |-> "none", obj |-> NoName, name |-> NoName, base |-> NoObject,
             edits |-> NoEdits, stripped |-> FALSE, step |-> "idle", asOf |-> 0,
             made |-> 0, answer |-> "none"]

At(h, step) == handle[h].step = step

-----------------------------------------------------------------------------
\* Reading.  What a handle had open is released first.

Opened(h, n, base, step, asOf) ==
    /\ At(h, "idle")
    /\ handle' = [handle EXCEPT ![h] = [NoHandle EXCEPT
           !.kind = "text", !.obj = n, !.name = n, !.base = base,
           !.step = step, !.asOf = asOf]]
    /\ UNCHANGED <<object, rev, cache, writes, mustSee>>

\* GetObjectYAML from the cache: a text as old as the entry.
OpenCached(h, n) == \E e \in cache[n] : Opened(h, n, e.object, "idle", 0)

\* A miss: the API has answered, the answer is not cached yet.
OpenAnswered(h, n) ==
    /\ cache[n] = {} /\ object[n].rv # 0
    /\ Opened(h, n, object[n], "filling", rev)

\* fault: Set keeps what was there
SeededFillCache(h) ==
    /\ At(h, "filling")
    /\ cache' = [cache EXCEPT ![handle[h].obj] = @ \cup
          {[asOf |-> handle[h].asOf, object |-> handle[h].base]}]
    /\ handle' = [handle EXCEPT ![h].step = "idle", ![h].asOf = 0]
    /\ UNCHANGED <<object, rev, writes, mustSee>>

FillCache(h) ==
    /\ At(h, "filling")
    /\ cache' = [cache EXCEPT ![handle[h].obj] =
          {[asOf |-> handle[h].asOf, object |-> handle[h].base]}]
    /\ handle' = [handle EXCEPT ![h].step = "idle", ![h].asOf = 0]
    /\ UNCHANGED <<object, rev, writes, mustSee>>

Expire(n) ==
    /\ cache[n] # {}
    /\ cache' = [cache EXCEPT ![n] = {}]
    /\ UNCHANGED <<object, rev, handle, writes, mustSee>>

Written ==
    /\ writes < MaxWrites
    /\ writes' = writes + 1

\* The writer changes a value in the text it has open, and perhaps the name,
\* or takes out the server's fields.
Write(h, k) ==
    LET c == handle[h]
    IN  /\ At(h, "idle") /\ c.kind = "text" /\ Written
        /\ \E n \in Objs \cup {NoName}, stripped \in BOOLEAN :
              /\ c.stripped => stripped
              /\ handle' = [handle EXCEPT ![h].edits[k] = writes + 1,
                               ![h].name = n, ![h].stripped = stripped]
        /\ UNCHANGED <<object, rev, cache, mustSee>>

-----------------------------------------------------------------------------
\* Saving.

Answered(h, answer) ==
    handle' = [handle EXCEPT ![h] =
       IF @.kind = "text" THEN [@ EXCEPT !.step = "idle", !.asOf = 0, !.answer = answer]
       ELSE [NoHandle EXCEPT !.answer = answer]]

\* fault: a text is sent with the resourceVersion the object has by now
SeededApplyBegins(h) ==
    LET c == handle[h]
    IN  /\ At(h, "idle") /\ c.kind = "text" /\ c.edits # NoEdits /\ c.name # NoName
        /\ handle' = [handle EXCEPT ![h].step = "put", ![h].base.rv = object[c.name].rv]
        /\ UNCHANGED <<object, rev, cache, writes, mustSee>>

\* ApplyObject: a text without a name is refused.  The text stays open and may
\* be saved again, changed or not.
ApplyBegins(h) ==
    LET c == handle[h]
    IN  /\ At(h, "idle") /\ c.kind = "text" /\ c.edits # NoEdits
        /\ IF c.name = NoName THEN Answered(h, "error")
           ELSE handle' = [handle EXCEPT ![h].step = "put"]
        /\ UNCHANGED <<object, rev, cache, writes, mustSee>>

Called(h, kind, n, edits, step) ==
    /\ At(h, "idle")
    /\ handle' = [handle EXCEPT ![h] = [NoHandle EXCEPT
           !.kind = kind, !.obj = n, !.name = n, !.edits = edits, !.step = step]]
    /\ UNCHANGED <<object, rev, cache, mustSee>>

\* UpdateObjectDataKey first reads the object: afresh, past the cache.
UpdateKeyBegins(h, n, k) ==
    /\ Called(h, "key", n, [NoEdits EXCEPT ![k] = writes + 1], "get")
    /\ Written

CreateBegins(h, n, k) ==
    /\ Called(h, "create", n, [NoEdits EXCEPT ![k] = writes + 1], "put")
    /\ Written

DeleteBegins(h, n) ==
    /\ Called(h, "delete", n, NoEdits, "put")
    /\ UNCHANGED writes

\* fault: the update is sent without the resourceVersion of the object read
SeededGetAnswered(h) ==
    /\ At(h, "get") /\ object[handle[h].obj].rv # 0
    /\ handle' = [handle EXCEPT ![h].step = "put", ![h].stripped = TRUE,
                                ![h].base = object[handle[h].obj]]
    /\ UNCHANGED <<object, rev, cache, writes, mustSee>>

GetAnswered(h) ==
    /\ At(h, "get") /\ object[handle[h].obj].rv # 0
    /\ handle' = [handle EXCEPT ![h].step = "put", ![h].base = object[handle[h].obj]]
    /\ UNCHANGED <<object, rev, cache, writes, mustSee>>

\* A read or a write that the API refuses (not found, conflict, exists), or
\* that does not reach it.
RequestFails(h) ==
    /\ At(h, "get") \/ At(h, "put")
    /\ Answered(h, "error")
    /\ UNCHANGED <<object, rev, cache, writes, mustSee>>

\* The data of the object that is sent.
Sent(h) == [k \in Keys |-> IF handle[h].edits[k] = Kept THEN handle[h].base.data[k]
                                                          ELSE handle[h].edits[k]]

\* The API's checks.
Accepts(h) ==
    LET o == object[handle[h].name]
    IN  CASE handle[h].kind = "create" -> o.rv = 0
          [] handle[h].kind = "delete" -> o.rv # 0
          [] OTHER -> o.rv # 0 /\ (handle[h].stripped \/ handle[h].base.rv = o.rv)

Changed(n, data) ==
    /\ rev < MaxRev
    /\ rev' = rev + 1
    /\ object' = [object EXCEPT ![n] = data]

\* asOf: the save is quiet if no answer to an earlier read is on its way.
RequestAccepted(h) ==
    LET c == handle[h]
    IN  /\ At(h, "put") /\ Accepts(h)
        /\ Changed(c.name, IF c.kind = "delete" THEN NoObject
                           ELSE [rv |-> rev + 1, data |-> Sent(h)])
        /\ handle' = [handle EXCEPT ![h].step = "accepted",
             ![h].made = IF c.kind = "text" /\ ~ c.stripped THEN @ + 1 ELSE @,
             ![h].asOf = IF \E g \in Handles : At(g, "filling") THEN 0 ELSE rev + 1]
        /\ UNCHANGED <<cache, writes, mustSee>>

AnswerLost(h) ==
    /\ At(h, "accepted")
    /\ Answered(h, "error")
    /\ UNCHANGED <<object, rev, cache, writes, mustSee>>

\* fault: ApplyObject invalidates the object whose file was saved
SeededInvalidated(c) == IF c.kind = "create" THEN {} ELSE {c.obj}

\* InvalidateObject drops what is cached of the object named; CreateObject only
\* the listing, so the text of an object that others removed stays.
Invalidated(c) == IF c.kind = "create" THEN {} ELSE {c.name}

\* history: what later reads must see of the save.
Concerned(c) == IF c.kind = "create" THEN {} ELSE {c.name}

SaveReturns(h) ==
    LET c == handle[h]
    IN  /\ At(h, "accepted")
        /\ cache' = [n \in Objs |-> IF n \in Invalidated(c) THEN {} ELSE cache[n]]
        /\ mustSee' = [n \in Objs |-> IF n \in Concerned(c) /\ c.asOf > mustSee[n]
                                       THEN c.asOf ELSE mustSee[n]]
        /\ Answered(h, "ok")
        /\ UNCHANGED <<object, rev, writes>>

\* kubectl or a controller.
OthersWrite(n) ==
    /\ Written
    /\ \E k \in Keys : Changed(n, [rv |-> rev + 1,
                                   data |-> [object[n].data EXCEPT ![k] = writes + 1]])
    /\ UNCHANGED <<cache, handle, mustSee>>

OthersDelete(n) ==
    /\ object[n].rv # 0
    /\ Changed(n, NoObject)
    /\ UNCHANGED <<cache, handle, writes, mustSee>>

-----------------------------------------------------------------------------
Init ==
    /\ rev = InitRev
    /\ \E rvs \in [Objs -> 0..InitRev] :
          /\ \A m, n \in Objs : rvs[m] = rvs[n] /\ rvs[m] # 0 => m = n
          /\ object = [n \in Objs |-> [rv |-> rvs[n], data |-> NoData]]
    /\ cache = [key \in Objs |-> {}]
    /\ handle = [h \in Handles |-> NoHandle]
    /\ writes = 0
    /\ mustSee = [key \in Objs |-> 0]

Next ==
    \/ \E h \in Handles :
          \/ \E n \in Objs : OpenCached(h, n) \/ OpenAnswered(h, n) \/ DeleteBegins(h, n)
          \/ \E n \in Objs, k \in Keys : UpdateKeyBegins(h, n, k) \/ CreateBegins(h, n, k)
          \/ FillCache(h) \/ \E k \in Keys : Write(h, k)
          \/ ApplyBegins(h) \/ GetAnswered(h) \/ RequestFails(h)
          \/ RequestAccepted(h) \/ AnswerLost(h) \/ SaveReturns(h)
    \/ \E n \in Objs : Expire(n)
    \/ \E n \in Objs : OthersWrite(n) \/ OthersDelete(n)

Spec == Init /\ [][Next]_vars

-----------------------------------------------------------------------------
ObjectType == [rv : 0..rev, data : Data]

HandleType ==
    [kind : {"none", "text", "key", "create", "delete"},
     obj : Objs \cup {NoName}, name : Objs \cup {NoName},
     base : ObjectType, edits : Edits, stripped : BOOLEAN,
     step : {"idle", "filling", "get", "put", "accepted"},
     asOf : 0..rev, made : Nat, answer : {"none", "ok", "error"}]

TypeOK ==
    /\ rev \in InitRev..MaxRev /\ writes \in 0..MaxWrites
    /\ object \in [Objs -> ObjectType]
    /\ cache \in [Objs -> SUBSET [asOf : 0..rev, object : ObjectType]]
    /\ \A n \in Objs : \A e, f \in cache[n] : e = f
    /\ handle \in [Handles -> HandleType]
    /\ mustSee \in [Objs -> 0..rev]

\* The saves of ObjectStore that the calls are.
OpOf(c) ==
    CASE c.kind \in {"create", "delete"}   -> c.kind
      [] c.kind = "text" /\ c.stripped     -> "replace"
      [] OTHER                             -> "edit"

SaveOf(h) ==
    LET c == handle[h]
        op == OpOf(c)
        edits == CASE op = "edit" -> c.edits [] op = "delete" -> NoEdits [] OTHER -> Sent(h)
        request(status) == [status |-> status, op |-> op, name |-> c.name, edits |-> edits]
    IN  CASE c.step \in {"get", "put"} -> request("pending")
          [] c.step = "accepted"       -> request("done")
          [] OTHER -> [status |-> "idle", answer |-> c.answer]

Store == INSTANCE ObjectStore WITH
    Savers <- Handles,
    store  <- [n \in Objs |-> IF object[n].rv = 0 THEN {} ELSE {object[n].data}],
    save   <- [h \in Handles |-> SaveOf(h)]

\* Saves are atomic, whoever else reads and writes the same objects: no save
\* undoes another's edit, none is made twice or on an object removed and
\* created anew, and none is answered with success that was not made.
SavesAreAtomic == Store!Spec

\* A text changes its object once: a retry after a lost answer, or a second
\* save through the handle, comes with the resourceVersion it was opened with
\* and is refused, unless the writer has taken that out.
TextSavedOnce ==
    \A h \in Handles : handle[h].made <= 1

\* What the client keeps cached of an object is not older than the last save
\* that named the object and that no fetch overlapped: the object a text
\* names, even when it lies in the file of another.
CacheSeesQuietSaves ==
    \A n \in Objs : \A e \in cache[n] : e.asOf >= mustSee[n]
=============================================================================
