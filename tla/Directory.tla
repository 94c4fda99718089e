------------------------------ MODULE Directory ------------------------------
(***************************************************************************)
(* internal/kubefs/fs.go over the inode table: Lookup, Children, Remove    *)
(* and CreateAndOpen, run by the goroutines that serve the kernel or NFS.  *)
(*                                                                         *)
(* Each lock is taken and given back per table or cache method, so a call  *)
(* is a sequence of steps: Get the parent, ask the listing cache, ask the  *)
(* API, fill the cache, AddChild name by name, RemoveChildren of what the  *)
(* listing lacks, LookupChild.  Any other call's steps fit in between.     *)
(*                                                                         *)
(* External: the API server (cluster).  A time-to-live may run out at any  *)
(* step (Expire).                                                          *)
(***************************************************************************)
EXTENDS InodeTable, FiniteSets

CONSTANTS
    Threads,       \* goroutines serving requests
    Verbs,         \* subset of {"create", "update", "delete"}: --verbs
    ActionNames,   \* ActionFiles(resourceType)
    DataName,      \* "data"
    DataTypes,     \* the resource types HasDataDir is true of
    FileNames,     \* names with the suffix .yaml or .json
    Universe,      \* the names the API may list, by listing key
    MaxCalls,      \* model bound: calls started
    MaxChanges     \* model bound: changes to the cluster made elsewhere

ASSUME DirectoryAssumption ==
    /\ ActionNames \cup {DataName} \cup FileNames \cup DataTypes \subseteq Names
    /\ MaxCalls \in Nat /\ MaxChanges \in Nat
    /\ \A k \in DOMAIN Universe : Universe[k] \subseteq Names

VARIABLES
    cluster,    \* what the API answers: listing key |-> names
    listCache,  \* Client.cache, listings only: listing key |-> names
    call,       \* per thread: the call it is in
    result,     \* history: how the call that this step ended did end
    calls,      \* calls started
    changes,    \* changes to the cluster made elsewhere
    deleted,    \* history: <<key, name, how>> whose rmdir returned success
    raced,      \* history: directories removed while a call worked in them
    hidden      \* history: whether an unlink took a name the API lists

cacheVars == <<cluster, listCache>>
callVars  == <<call, calls>>
history   == <<deleted, raced, hidden>>
vars == <<tableVars, cacheVars, callVars, result, changes, history>>

\* History in a call: whether no other call was running at any time since it
\* began (alone), and whether the object it looks up was one whose rmdir had
\* returned by then and that has not come anew, and how that rmdir ran (dead).
How    == {"no", "alone", "overlapped"}
NoName == RootName
NoCall == [op |-> "none", step |-> "idle", dir |-> NoID, name |-> NoName,
           keep |-> {}, todo |-> {}, dead |-> "no", alone |-> FALSE]
NoResult == [res |-> "", missed |-> "no", risen |-> "no"]

-----------------------------------------------------------------------------
\* Helpers.

Name(i)   == node[i].name
Parent(i) == node[i].parent
Type(i)   == node[i].type

\* The key a directory's listing is cached under.
Key(d) ==
    CASE Type(d) = "root"         -> <<"namespaces">>
      [] Type(d) = "namespace"    -> <<"resources">>
      [] Type(d) = "resourceType" -> <<"list", Name(Parent(d)), Name(d)>>
      [] Type(d) = "dataDir"      -> <<"data", Name(Parent(Parent(Parent(d)))),
                                       Name(Parent(Parent(d))), Name(Parent(d))>>

DataKey(d, obj) == <<"data", Name(Parent(d)), Name(d), obj>>

\* The children of an object need no API call.
StaticNames(d) ==
    ActionNames \cup (IF Name(Parent(d)) \in DataTypes THEN {DataName} ELSE {})

\* fault: the type of a child is the type of its directory
SeededListedType(d, n) == Type(d)

ListedType(d, n) ==
    CASE Type(d) = "root"         -> "namespace"
      [] Type(d) = "namespace"    -> "resourceType"
      [] Type(d) = "resourceType" -> "object"
      [] Type(d) = "object"       -> IF n = DataName THEN "dataDir" ELSE "file"
      [] Type(d) = "dataDir"      -> "dataFile"

\* A data listing is a GET of the object, which fails when there is none; a
\* listing in a namespace that is gone is empty.
Exists(k) ==
    /\ k \in DOMAIN cluster
    /\ k[1] = "data" => k[4] \in cluster[<<"list", k[2], k[3]>>]

Lists(d, n) == Key(d) \in DOMAIN cluster /\ n \in cluster[Key(d)]

\* A call that may still add children to the directory it is in.
Populating(t, d) ==
    /\ call[t].dir = d
    /\ \/ call[t].step \in {"list", "api", "fill", "addfile"}
       \/ call[t].step = "add" /\ call[t].todo # {}

\* history: this step removes the inodes of R
NoteRaces(R) ==
    raced' = raced \cup {d \in R : \E t \in Threads : Populating(t, d)}

Ran(t) == IF call[t].alone THEN "alone" ELSE "overlapped"

\* missed: a name of the call's own listing was not there at its end, and how
\* the call ran; risen: it found an object whose rmdir had returned before it
\* began, with no object of that name made since, and how that rmdir ran
AnswerSeeing(t, res, missed, risen) ==
    /\ call' = [call EXCEPT ![t] = NoCall]
    /\ result' = [res |-> res, missed |-> missed, risen |-> risen]
    /\ UNCHANGED calls

Answer(t, res) == AnswerSeeing(t, res, "no", "no")

GoesOn == result' = NoResult /\ UNCHANGED calls

Goto(t, step) == call' = [call EXCEPT ![t].step = step] /\ GoesOn

At(t, step) == call[t].step = step

-----------------------------------------------------------------------------
\* The start of a call: a directory's ID is one the table has handed out, and
\* the callers hold some that are no longer mapped.

DeletedHow(d, n) ==
    IF Type(d) = "resourceType" /\ \E x \in deleted : x[1] = Key(d) /\ x[2] = n
    THEN (CHOOSE x \in deleted : x[1] = Key(d) /\ x[2] = n)[3]
    ELSE "no"

Begin(t, op, d, n, step) ==
    /\ At(t, "idle") /\ calls < MaxCalls
    /\ d \in ID /\ IsDir(Type(d))
    /\ call' = [u \in Threads |->
          IF u # t THEN [call[u] EXCEPT !.alone = FALSE]
          ELSE [NoCall EXCEPT !.op = op, !.step = step, !.dir = d, !.name = n,
                  !.dead = DeletedHow(d, n),
                  !.alone = \A v \in Threads \ {t} : At(v, "idle")]]
    /\ calls' = calls + 1
    /\ result' = NoResult
    /\ UNCHANGED <<tableVars, cacheVars, changes, history>>

\* Lookup and Children: inodes.Get(parentID) and its ENOENT.
BeginWalk(t, op, d, n) == d \in inodes /\ Begin(t, op, d, n, "list")

\* Remove starts with LookupChild, with no listing.  That an unlink is not of a
\* directory its callers have asked before, when the name may have been of
\* another child: Remove itself takes what is there.
BeginRemove(t, op, d, n) ==
    /\ LookupChild(d, n) # NoID
    /\ op = "rmdir" => "delete" \in Verbs /\ Type(LookupChild(d, n)) = "object"
    /\ Begin(t, op, d, n, IF op = "rmdir" THEN "delete" ELSE "parent")

BeginCreate(t, d, n) ==
    /\ "create" \in Verbs
    /\ d \in inodes /\ Type(d) = "resourceType" /\ n \in FileNames
    /\ Begin(t, "create", d, n, "addfile")

-----------------------------------------------------------------------------
\* ensureChildren and the populate functions.

\* fault: nothing is entered in keep
SeededStartFilling(t, names) ==
    /\ call' = [call EXCEPT ![t].step = "add", ![t].todo = names]
    /\ GoesOn

StartFilling(t, names) ==
    /\ call' = [call EXCEPT ![t].step = "add", ![t].keep = names, ![t].todo = names]
    /\ GoesOn

\* populateActionFiles has its names at hand; the others ask the cache first.
List(t) ==
    /\ At(t, "list")
    /\ LET d == call[t].dir
       IN  CASE Type(d) = "object" -> StartFilling(t, StaticNames(d))
             [] Type(d) # "object" /\ Key(d) \in DOMAIN listCache
                                   -> StartFilling(t, listCache[Key(d)])
             [] OTHER              -> Goto(t, "api")
    /\ UNCHANGED <<tableVars, cacheVars, changes, history>>

\* The API answers, or the request fails and the call ends in EIO.
ApiAnswers(t) ==
    /\ At(t, "api")
    /\ Exists(Key(call[t].dir))
    /\ call' = [call EXCEPT ![t].step = "fill",
                            ![t].keep = cluster[Key(call[t].dir)]]
    /\ GoesOn
    /\ UNCHANGED <<tableVars, cacheVars, changes, history>>

ApiFails(t) ==
    /\ At(t, "api")
    /\ Answer(t, "EIO")
    /\ UNCHANGED <<tableVars, cacheVars, changes, history>>

\* cache.Set with what the API answered some steps ago.
FillCache(t) ==
    /\ At(t, "fill")
    /\ listCache' = [k \in DOMAIN listCache \cup {Key(call[t].dir)} |->
                        IF k = Key(call[t].dir) THEN call[t].keep ELSE listCache[k]]
    /\ StartFilling(t, call[t].keep)
    /\ UNCHANGED <<tableVars, cluster, changes, history>>

\* One AddChild of the loop; the order is the map's, or the sorted names'.
AddNext(t) ==
    /\ At(t, "add")
    /\ \E n \in call[t].todo :
          /\ AddChild(call[t].dir, n, ListedType(call[t].dir, n))
          /\ call' = [call EXCEPT ![t].todo = @ \ {n}]
    /\ GoesOn
    /\ UNCHANGED <<cacheVars, changes, history>>

\* fault: RemoveChildren comes before the last AddChild, which is left out
SeededPrune(t) ==
    /\ At(t, "add")
    /\ RemoveChildren(call[t].dir, call[t].keep)
    /\ NoteRaces(inodes \ inodes')
    /\ Goto(t, "read")
    /\ UNCHANGED <<cacheVars, changes, deleted, hidden>>

\* The directory's entries that the listing lacks go, whoever added them.
Prune(t) ==
    /\ At(t, "add") /\ call[t].todo = {}
    /\ RemoveChildren(call[t].dir, call[t].keep)
    /\ NoteRaces(inodes \ inodes')
    /\ Goto(t, "read")
    /\ UNCHANGED <<cacheVars, changes, deleted, hidden>>

\* The LookupChild that ends Lookup, the Children that ends Children.
Read(t) ==
    LET c     == call[t]
        found == {n \in Names : LookupChild(c.dir, n) # NoID}
    IN  /\ At(t, "read")
        /\ IF c.op = "lookup"
           THEN AnswerSeeing(t, IF c.name \in found THEN "ok" ELSE "ENOENT",
                             IF c.name \in c.keep \ found THEN Ran(t) ELSE "no",
                             IF /\ c.name \in found
                                /\ Type(LookupChild(c.dir, c.name)) = "object"
                             THEN c.dead ELSE "no")
           ELSE AnswerSeeing(t, "ok", IF c.keep \subseteq found THEN "no" ELSE Ran(t),
                             "no")
        /\ UNCHANGED <<tableVars, cacheVars, changes, history>>

-----------------------------------------------------------------------------
\* Remove.

ApiDeletes(t) ==
    LET k == Key(call[t].dir)
    IN  /\ At(t, "delete")
        /\ call[t].name \in cluster[k]
        /\ cluster' = [cluster EXCEPT ![k] = @ \ {call[t].name}]
        /\ changes' = changes + 1
        /\ Goto(t, "invdata")
        /\ UNCHANGED <<tableVars, listCache, history>>

ApiRefuses(t) ==
    /\ At(t, "delete")
    /\ Answer(t, "EIO")
    /\ UNCHANGED <<tableVars, cacheVars, changes, history>>

Forget(k) == listCache' = [j \in DOMAIN listCache \ {k} |-> listCache[j]]

\* InvalidateObject deletes key by key; these two are listings.
InvalidateData(t) ==
    /\ At(t, "invdata")
    /\ Forget(DataKey(call[t].dir, call[t].name))
    /\ Goto(t, "invlist")
    /\ UNCHANGED <<tableVars, cluster, changes, history>>

\* fault: InvalidateObject leaves the listing alone
SeededInvalidateList(t) ==
    /\ At(t, "invlist")
    /\ Goto(t, "unindex")
    /\ UNCHANGED <<tableVars, cacheVars, changes, history>>

InvalidateList(t) ==
    /\ At(t, "invlist")
    /\ Forget(Key(call[t].dir))
    /\ Goto(t, "unindex")
    /\ UNCHANGED <<tableVars, cluster, changes, history>>

\* An unlink is refused unless its directory is a live resource type.
CheckParent(t) ==
    /\ At(t, "parent")
    /\ IF call[t].dir \in inodes /\ Type(call[t].dir) = "resourceType"
       THEN Goto(t, "unindex")
       ELSE Answer(t, "EPERM")
    /\ UNCHANGED <<tableVars, cacheVars, changes, history>>

\* RemoveChild by name, whatever the name leads to by now: a Kubernetes object
\* may be called x.yaml too, and then has the entry of a created file for its
\* own.
Unindex(t) ==
    LET c == call[t]
    IN  /\ At(t, "unindex")
        /\ RemoveChild(c.dir, c.name)
        /\ NoteRaces(inodes \ inodes')
        /\ deleted' = IF c.op = "rmdir" /\ c.name \notin cluster[Key(c.dir)]
                      THEN deleted \cup {<<Key(c.dir), c.name, Ran(t)>>}
                      ELSE deleted
        /\ hidden' = (hidden \/ (c.op = "unlink" /\ Lists(c.dir, c.name)))
        /\ Answer(t, "ok")
        /\ UNCHANGED <<cacheVars, changes>>

-----------------------------------------------------------------------------
\* CreateAndOpen after its checks; the handle it opens is not modelled here.

AddFile(t) ==
    LET c == call[t]
    IN  /\ At(t, "addfile")
        /\ AddChild(c.dir, c.name, "file")
        /\ Answer(t, "ok")
        /\ UNCHANGED <<cacheVars, changes, history>>

-----------------------------------------------------------------------------
\* What happens elsewhere.

\* A name appears in a listing or leaves it; a namespace takes its objects.
ClusterChange ==
    /\ changes < MaxChanges
    /\ \E k \in DOMAIN Universe : \E n \in Universe[k] :
          /\ k[1] = "list" => k[2] \in cluster[<<"namespaces">>]
          /\ cluster' = [j \in DOMAIN cluster |->
                CASE j = k /\ n \in cluster[k] -> cluster[k] \ {n}
                  [] j = k /\ n \notin cluster[k] -> cluster[k] \cup {n}
                  [] j # k /\ k[1] = "namespaces" /\ j[1] = "list" /\ j[2] = n
                                  -> {}
                  [] OTHER        -> cluster[j]]
          /\ deleted' = {x \in deleted : <<x[1], x[2]>> # <<k, n>>}
          /\ call' = [t \in Threads |->
                IF call[t].dead # "no" /\ Key(call[t].dir) = k /\ call[t].name = n
                THEN [call[t] EXCEPT !.dead = "no"] ELSE call[t]]
    /\ changes' = changes + 1
    /\ result' = NoResult
    /\ UNCHANGED <<tableVars, listCache, calls, raced, hidden>>

\* cache.Get finds the entry expired and deletes what is there by then.
Expire ==
    /\ \E k \in DOMAIN listCache : Forget(k)
    /\ result' = NoResult
    /\ UNCHANGED <<tableVars, cluster, callVars, changes, history>>

-----------------------------------------------------------------------------
NoCallsYet ==
    /\ call = [t \in Threads |-> NoCall]
    /\ result = NoResult
    /\ calls = 0 /\ changes = 0
    /\ deleted = {} /\ raced = {} /\ hidden = FALSE

DirInit ==
    /\ TableInit
    /\ cluster \in [DOMAIN Universe -> SUBSET Names]
    /\ \A k \in DOMAIN Universe : cluster[k] \subseteq Universe[k]
    /\ listCache = <<>>
    /\ NoCallsYet

Begins(t) ==
    \E d \in ID :
        \/ BeginWalk(t, "readdir", d, NoName)
        \/ \E n \in Names :
              \/ BeginWalk(t, "lookup", d, n)
              \/ BeginRemove(t, "rmdir", d, n)
              \/ BeginRemove(t, "unlink", d, n)
              \/ BeginCreate(t, d, n)

Continues(t) ==
    \/ List(t) \/ ApiAnswers(t) \/ ApiFails(t) \/ FillCache(t) \/ AddNext(t)
    \/ Prune(t) \/ Read(t) \/ ApiDeletes(t) \/ ApiRefuses(t)
    \/ InvalidateData(t) \/ InvalidateList(t) \/ CheckParent(t) \/ Unindex(t)
    \/ AddFile(t)

DirNext ==
    \/ \E t \in Threads : Begins(t) \/ Continues(t)
    \/ ClusterChange
    \/ Expire

DirSpec == DirInit /\ [][DirNext]_vars

-----------------------------------------------------------------------------
Step == {"idle", "list", "api", "fill", "add", "read", "delete", "invdata",
         "invlist", "unindex", "parent", "addfile"}

DirTypeOK ==
    /\ TableTypeOK
    /\ \A k \in DOMAIN Universe : cluster[k] \subseteq Universe[k]
    /\ \A k \in DOMAIN listCache : listCache[k] \subseteq Names
    /\ \A t \in Threads :
          /\ call[t].step \in Step
          /\ call[t].dir \in ID \cup {NoID}
          /\ call[t].name \in Names \cup {NoName}
          /\ call[t].todo \subseteq call[t].keep /\ call[t].keep \subseteq Names
          /\ call[t].dead \in How
    /\ {result.missed, result.risen} \subseteq How
    /\ raced \subseteq ID /\ hidden \in BOOLEAN

\* removeSubtree leaves nothing behind: an inode whose directory is gone can
\* only be one a populate or a create put there, having looked the directory
\* up before another call removed it (AddChild re-makes the entry map of a
\* directory that is no longer in the table).
OrphansAreRaced ==
    \A i \in inodes \ {RootInodeID} :
        Parent(i) \in inodes \/ Parent(i) \in raced

\* A call ends with every name of the listing it worked from in place: a
\* Lookup does not say ENOENT of a name its own listing had, a Children does
\* not omit one.  It takes two things for a name to be missed: another call
\* during this one, and something that makes the table differ from the
\* listings: a change of the cluster, or an unlink of a name the API lists.
MissedOnlyIfOverlapped ==
    result.missed # "no" =>
        result.missed = "overlapped" /\ (changes > 0 \/ hidden)

\* Once rmdir has returned, and while nobody makes the object anew, no later
\* Lookup finds it, if no other call ran during the rmdir: the listing is
\* dropped from the cache before rmdir returns, so later calls list afresh.
RisenOnlyIfOverlapped == result.risen # "alone"

\* The same, whatever ran during the rmdir.
DeletedStaysDeleted == result.risen = "no"

\* Directory operations, on pointers their goroutines have held since before
\* other calls' removals, use the table only by its methods, one at a time,
\* with directories as parents and children of the types that belong there.
TableSteps == [][TableNext]_tableVars
=============================================================================
