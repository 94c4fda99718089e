-------------------------- MODULE Directory_proofs --------------------------
(***************************************************************************)
(* The directory operations for any threads, names, verbs, cluster and     *)
(* number of calls: their steps implement those of the inode table, so the *)
(* table's maps agree whatever calls overlap, and inodes without a live    *)
(* directory come from races only.                                         *)
(*                                                                         *)
(* The inductive invariant has, besides that of the table, what a call     *)
(* holds while others run (CallOK): its directory is an inode once         *)
(* allotted, and still a directory, as Inodes do not change; and what it   *)
(* has yet to add are names.  For the orphans it has RacesNoted: a call    *)
(* that may still add to a removed directory has had the race noted by the *)
(* removal.                                                                *)
(*                                                                         *)
(* What lookups find of deleted objects (RisenInv) and what calls miss of  *)
(* their own listings (MissedInv) need more: where each listing a call or  *)
(* the cache holds came from.  Flow says it of one step, action by action; *)
(* the invariants follow from Flow and not from the actions.               *)
(*                                                                         *)
(* Last, what ends calls: MovesOn, on a fixed order of steps and the names *)
(* left to add.                                                            *)
(***************************************************************************)
EXTENDS Directory, InodeTable_proofs

IsCall(c) ==
    {"op", "step", "dir", "name", "keep", "todo", "dead", "alone"} \subseteq DOMAIN c

\* What a call holds, in a heap nd with the IDs ids allotted.
CallOK(c, nd, ids) ==
    /\ IsCall(c)
    /\ c.step \in Step /\ c.dead \in How
    /\ c.dir \in ids \cup {NoID} /\ c.name \in Names \cup {NoName}
    /\ c.keep \subseteq Names /\ c.todo \subseteq c.keep
    /\ c.step \in {"list", "api"} => c.todo = {}
    /\ c.step # "idle" => c.dir \in ids /\ IsDir(nd[c.dir].type)
    /\ c.step = "addfile" => nd[c.dir].type = "resourceType"
    /\ c.step \in {"addfile", "unindex", "delete", "invdata", "invlist", "parent"}
            => c.name \in Names

CallsOK(calls_, nd, ids) ==
    /\ calls_ = [t \in Threads |-> calls_[t]]
    /\ \A t \in Threads : CallOK(calls_[t], nd, ids)

ClusterOK(cl) ==
    /\ DOMAIN cl = DOMAIN Universe
    /\ \A k \in DOMAIN Universe : cl[k] \subseteq Universe[k]

ListingsOK(lists) == \A k \in DOMAIN lists : lists[k] \subseteq Names

DirInv ==
    /\ TableInv
    /\ ClusterOK(cluster) /\ ListingsOK(listCache)
    /\ CallsOK(call, node, ID)
    /\ \A x \in deleted : x[3] \in How
    /\ result.missed \in How /\ result.risen \in How
    /\ raced \subseteq ID /\ hidden \in BOOLEAN

\* What every step does, before the heap it leaves is taken into account.
StepOK ==
    /\ [TableNext]_tableVars
    /\ ClusterOK(cluster') /\ ListingsOK(listCache')
    /\ CallsOK(call', node, ID)
    /\ \A x \in deleted' : x[3] \in How
    /\ result'.missed \in How /\ result'.risen \in How
    /\ raced' \subseteq ID /\ hidden' \in BOOLEAN

-----------------------------------------------------------------------------
\* Constants, and what is known of a call.

LEMMA NamesFacts ==
    /\ ActionNames \subseteq Names /\ DataName \in Names /\ FileNames \subseteq Names
    /\ \A k \in DOMAIN Universe : Universe[k] \subseteq Names
BY DirectoryAssumption

LEMMA NoCallIsOK ==
    ASSUME NEW nd, NEW ids
    PROVE  CallOK(NoCall, nd, ids)
BY DEF CallOK, NoCall, IsCall, Step, How

LEMMA CallReplaced ==
    ASSUME NEW nd, NEW ids, NEW c, CallsOK(c, nd, ids),
           NEW t \in Threads, NEW x, CallOK(x, nd, ids)
    PROVE  CallsOK([c EXCEPT ![t] = x], nd, ids)
BY DEF CallsOK

\* A call that goes to a step that asks no more of it than it has.
LEMMA CallMoves ==
    ASSUME NEW nd, NEW ids, NEW c, CallOK(c, nd, ids), c.step # "idle",
           NEW s \in Step \ {"idle", "addfile"},
           s \in {"unindex", "delete", "invdata", "invlist", "parent"} => c.name \in Names,
           s \in {"list", "api"} => c.todo = {}
    PROVE  CallOK([c EXCEPT !.step = s], nd, ids)
<1> DEFINE x == [c EXCEPT !.step = s]
<1>1. /\ IsCall(x) /\ x.step = s /\ x.dir = c.dir /\ x.name = c.name
      /\ x.keep = c.keep /\ x.todo = c.todo /\ x.dead = c.dead
  BY DEF CallOK, IsCall
<1> HIDE DEF x
<1>2. CallOK(x, nd, ids)
  BY <1>1 DEF CallOK
<1> QED
  BY <1>2 DEF x

LEMMA ThreadFacts ==
    ASSUME DirInv, NEW t \in Threads
    PROVE  /\ CallOK(call[t], node, ID) /\ CallsOK(call, node, ID)
           /\ call[t].dir \in ID \cup {NoID} /\ call[t].name \in Names \cup {NoName}
           /\ call[t].todo \subseteq call[t].keep /\ call[t].keep \subseteq Names
           /\ ~ At(t, "idle") => call[t].dir \in ID /\ IsDir(Type(call[t].dir))
BY DEF DirInv, CallsOK, CallOK, At, Type

\* Goto and Answer: the two ways a call goes on.
LEMMA GotoFacts ==
    ASSUME DirInv, NEW t \in Threads, ~ At(t, "idle"),
           NEW s \in Step \ {"idle", "addfile"},
           s \in {"unindex", "delete", "invdata", "invlist", "parent"}
               => call[t].name \in Names,
           s \in {"list", "api"} => call[t].todo = {},
           Goto(t, s)
    PROVE  CallsOK(call', node, ID) /\ result'.missed \in How /\ result'.risen \in How
<1>1. CallOK([call[t] EXCEPT !.step = s], node, ID)
  BY ThreadFacts, CallMoves DEF At
<1>2. call' = [call EXCEPT ![t] = [call[t] EXCEPT !.step = s]]
  BY DEF Goto
<1>3. CallsOK(call', node, ID)
  BY <1>1, <1>2, ThreadFacts, CallReplaced
<1>4. result'.missed = "no" /\ result'.risen = "no"
  BY DEF Goto, GoesOn, NoResult
<1> QED
  BY <1>3, <1>4 DEF How

LEMMA AnswerFacts ==
    ASSUME DirInv, NEW t \in Threads, NEW res, NEW missed \in How, NEW risen \in How,
           AnswerSeeing(t, res, missed, risen)
    PROVE  CallsOK(call', node, ID) /\ result'.missed \in How /\ result'.risen \in How
<1>1. CallsOK(call', node, ID)
  BY NoCallIsOK, ThreadFacts, CallReplaced DEF AnswerSeeing
<1>2. result'.missed = missed /\ result'.risen = risen
  BY DEF AnswerSeeing
<1> QED
  BY <1>1, <1>2

LEMMA FillingFacts ==
    ASSUME DirInv, NEW t \in Threads, ~ At(t, "idle"), NEW names \in SUBSET Names,
           StartFilling(t, names)
    PROVE  CallsOK(call', node, ID) /\ result'.missed \in How /\ result'.risen \in How
<1> DEFINE c == call[t]
           x == call'[t]
<1>1. CallOK(c, node, ID) /\ c.step # "idle" /\ call = [u \in Threads |-> call[u]]
  BY ThreadFacts DEF At, CallsOK
<1>2. call' = [call EXCEPT ![t].step = "add", ![t].keep = names, ![t].todo = names]
  BY DEF StartFilling
<1>3. /\ call' = [u \in Threads |-> call'[u]]
      /\ \A u \in Threads \ {t} : call'[u] = call[u]
  BY <1>1, <1>2
<1>4. IsCall(c)
  BY <1>1 DEF CallOK
<1>5. /\ IsCall(x) /\ x.step = "add" /\ x.dir = c.dir /\ x.name = c.name
      /\ x.keep = names /\ x.todo = names /\ x.dead = c.dead
  BY <1>1, <1>2, <1>4 DEF IsCall
<1> HIDE DEF x, c
<1>6. CallOK(x, node, ID)
  BY <1>1, <1>5 DEF CallOK, Step
<1>7. CallsOK(call', node, ID)
  BY <1>3, <1>6, ThreadFacts DEF CallsOK, x
<1>8. result'.missed = "no" /\ result'.risen = "no"
  BY DEF StartFilling, GoesOn, NoResult
<1> QED
  BY <1>7, <1>8 DEF How

\* What a step leaves when it touches neither table nor caches nor history.
LEMMA QuietStep ==
    ASSUME DirInv, UNCHANGED <<tableVars, cacheVars, history>>,
           CallsOK(call', node, ID), result'.missed \in How, result'.risen \in How
    PROVE  StepOK
BY DEF StepOK, DirInv, cacheVars, history

LEMMA ForgetFacts ==
    ASSUME DirInv, NEW k, Forget(k)
    PROVE  ListingsOK(listCache')
BY DEF DirInv, ListingsOK, Forget

-----------------------------------------------------------------------------
\* One lemma per action.

LEMMA BeginStep ==
    ASSUME DirInv, NEW t \in Threads, NEW op, NEW d, NEW n \in Names \cup {NoName},
           NEW s \in {"list", "delete", "parent", "addfile"}, Begin(t, op, d, n, s),
           s # "list" => n \in Names,
           s = "addfile" => Type(d) = "resourceType"
    PROVE  StepOK
<1> DEFINE how == DeletedHow(d, n)
           q == \A v \in Threads \ {t} : At(v, "idle")
           x(u) == IF u # t THEN [call[u] EXCEPT !.alone = FALSE]
                   ELSE [NoCall EXCEPT !.op = op, !.step = s, !.dir = d, !.name = n,
                                       !.dead = how, !.alone = q]
<1>1. how \in How
  BY DEF DirInv, DeletedHow, How
<1>2. d \in ID /\ IsDir(node[d].type)
  BY DEF Begin, Type
<1>3. call' = [u \in Threads |-> x(u)]
  BY DEF Begin
<1>4. ASSUME NEW u \in Threads PROVE CallOK(x(u), node, ID)
  <2>1. CASE u # t
    <3> DEFINE y == [call[u] EXCEPT !.alone = FALSE]  c == call[u]
    <3>1. CallOK(c, node, ID)
      BY ThreadFacts
    <3>2. /\ IsCall(y) /\ y.step = c.step /\ y.dir = c.dir /\ y.name = c.name
          /\ y.keep = c.keep /\ y.todo = c.todo /\ y.dead = c.dead
      BY <3>1 DEF CallOK, IsCall
    <3>3. x(u) = y
      BY <2>1
    <3> HIDE DEF y, c, x
    <3>4. CallOK(y, node, ID)
      BY <3>1, <3>2 DEF CallOK
    <3> QED
      BY <3>3, <3>4
  <2>2. CASE u = t
    <3> HIDE DEF how, q
    <3> DEFINE y == [NoCall EXCEPT !.op = op, !.step = s, !.dir = d, !.name = n,
                                   !.dead = how, !.alone = q]
    <3>1. /\ IsCall(y) /\ y.step = s /\ y.dir = d /\ y.name = n
          /\ y.keep = {} /\ y.todo = {} /\ y.dead = how
      BY DEF NoCall, IsCall
    <3>2. x(u) = y
      BY <2>2
    <3> HIDE DEF y, x
    <3>3. CallOK(y, node, ID)
      BY <1>1, <1>2, <3>1 DEF CallOK, Step, Type
    <3> QED
      BY <3>2, <3>3
  <2> QED
    BY <2>1, <2>2
<1> HIDE DEF x
<1>5. CallsOK(call', node, ID)
  BY <1>3, <1>4 DEF CallsOK
<1>6. result'.missed = "no" /\ result'.risen = "no"
  BY DEF Begin, NoResult
<1> QED
  BY <1>5, <1>6, QuietStep DEF Begin, How, cacheVars

LEMMA BeginsStep ==
    ASSUME DirInv, NEW t \in Threads, Begins(t)
    PROVE  StepOK
<1>1. ASSUME NEW d \in ID, BeginWalk(t, "readdir", d, NoName) PROVE StepOK
  BY <1>1, BeginStep DEF BeginWalk
<1>2. ASSUME NEW d \in ID, NEW n \in Names, BeginWalk(t, "lookup", d, n) PROVE StepOK
  BY <1>2, BeginStep DEF BeginWalk
<1>3. ASSUME NEW d \in ID, NEW n \in Names, NEW op \in {"rmdir", "unlink"},
             BeginRemove(t, op, d, n)
      PROVE  StepOK
  <2> DEFINE s == IF op = "rmdir" THEN "delete" ELSE "parent"
  <2>1. Begin(t, op, d, n, s) /\ s \in {"delete", "parent"}
    BY <1>3 DEF BeginRemove
  <2> HIDE DEF s
  <2> QED
    BY <2>1, BeginStep
<1>4. ASSUME NEW d \in ID, NEW n \in Names, BeginCreate(t, d, n) PROVE StepOK
  BY <1>4, BeginStep DEF BeginCreate
<1> QED
  BY <1>1, <1>2, <1>3, <1>4 DEF Begins

LEMMA ListStep ==
    ASSUME DirInv, NEW t \in Threads, List(t)
    PROVE  StepOK
<1> DEFINE d == call[t].dir
<1>1. ~ At(t, "idle") /\ UNCHANGED <<tableVars, cacheVars, history>>
  BY DEF List, At
<1>2. ASSUME NEW names \in SUBSET Names, StartFilling(t, names) PROVE StepOK
  BY <1>1, <1>2, FillingFacts, QuietStep
<1>3. CASE Type(d) = "object"
  <2>1. StartFilling(t, StaticNames(d))
    BY <1>3 DEF List
  <2>2. StaticNames(d) \in SUBSET Names
    BY NamesFacts DEF StaticNames
  <2> QED
    BY <1>2, <2>1, <2>2
<1>4. CASE Type(d) # "object" /\ Key(d) \in DOMAIN listCache
  <2>1. StartFilling(t, listCache[Key(d)])
    BY <1>4 DEF List
  <2>2. listCache[Key(d)] \in SUBSET Names
    BY <1>4 DEF DirInv, ListingsOK
  <2> QED
    BY <1>2, <2>1, <2>2
<1>5. CASE Type(d) # "object" /\ Key(d) \notin DOMAIN listCache
  <2>1. Goto(t, "api")
    BY <1>5 DEF List
  <2>2. call[t].todo = {}
    BY ThreadFacts DEF List, At, CallOK
  <2> QED
    BY <1>1, <2>1, <2>2, GotoFacts, QuietStep DEF Step
<1> QED
  BY <1>3, <1>4, <1>5

LEMMA ApiAnswersStep ==
    ASSUME DirInv, NEW t \in Threads, ApiAnswers(t)
    PROVE  StepOK
<1> DEFINE c == call[t]
           x == call'[t]
           names == cluster[Key(call[t].dir)]
<1>1. CallOK(c, node, ID) /\ c.step = "api" /\ call = [u \in Threads |-> call[u]]
  BY ThreadFacts DEF ApiAnswers, At, CallsOK
<1>2. names \subseteq Names
  BY NamesFacts DEF ApiAnswers, Exists, DirInv, ClusterOK
<1>3. call' = [call EXCEPT ![t].step = "fill", ![t].keep = names]
  BY DEF ApiAnswers
<1> HIDE DEF names
<1>4. /\ call' = [u \in Threads |-> call'[u]]
      /\ \A u \in Threads \ {t} : call'[u] = call[u]
  BY <1>1, <1>3
<1>5. IsCall(c)
  BY <1>1 DEF CallOK
<1>6. /\ IsCall(x) /\ x.step = "fill" /\ x.dir = c.dir /\ x.name = c.name
      /\ x.keep = names /\ x.todo = c.todo /\ x.dead = c.dead
  BY <1>1, <1>3, <1>5 DEF IsCall
<1>7. c.todo = {}
  BY <1>1 DEF CallOK
<1> HIDE DEF x, c
<1>8. CallOK(x, node, ID)
  BY <1>1, <1>2, <1>6, <1>7 DEF CallOK, Step
<1>9. CallsOK(call', node, ID)
  BY <1>4, <1>8, ThreadFacts DEF CallsOK, x
<1>10. result'.missed = "no" /\ result'.risen = "no"
  BY DEF ApiAnswers, GoesOn, NoResult
<1> QED
  BY <1>9, <1>10, QuietStep DEF ApiAnswers, How

LEMMA FillCacheStep ==
    ASSUME DirInv, NEW t \in Threads, FillCache(t)
    PROVE  StepOK
<1>1. ~ At(t, "idle") /\ call[t].keep \in SUBSET Names
  BY ThreadFacts DEF FillCache, At
<1>2. CallsOK(call', node, ID) /\ result'.missed \in How /\ result'.risen \in How
  BY <1>1, FillingFacts DEF FillCache
<1>3. ListingsOK(listCache')
  <2> DEFINE k == Key(call[t].dir)
  <2>1. listCache' = [j \in DOMAIN listCache \cup {k} |->
                         IF j = k THEN call[t].keep ELSE listCache[j]]
    BY DEF FillCache
  <2> HIDE DEF k
  <2> QED
    BY <1>1, <2>1 DEF DirInv, ListingsOK
<1> QED
  BY <1>2, <1>3 DEF FillCache, StepOK, DirInv, history

\* The type a listing gives a child is one its directory may have.
LEMMA ListedTypeFacts ==
    ASSUME DirInv, NEW d \in ID, IsDir(Type(d)), NEW n
    PROVE  ListedType(d, n) \in ChildTypes(node[d].type)
<1>1. Type(d) \in {"root", "namespace", "resourceType", "object", "dataDir"}
  BY NodeTypes DEF DirInv, TableInv, NodeType, IsDir, Type
<1> QED
  BY <1>1 DEF ListedType, ChildTypes, Type

LEMMA AddNextStep ==
    ASSUME DirInv, NEW t \in Threads, AddNext(t)
    PROVE  StepOK
<1> DEFINE c == call[t]
<1>1. /\ CallOK(c, node, ID) /\ c.step = "add" /\ c.dir \in ID /\ IsDir(Type(c.dir))
      /\ c.todo \subseteq c.keep /\ c.keep \subseteq Names
      /\ call = [u \in Threads |-> call[u]]
  BY ThreadFacts DEF AddNext, At, CallsOK
<1>2. PICK n \in c.todo : /\ AddChild(c.dir, n, ListedType(c.dir, n))
                          /\ call' = [call EXCEPT ![t].todo = @ \ {n}]
  BY DEF AddNext
<1>3. TableNext
  BY <1>1, <1>2, ListedTypeFacts DEF TableNext
<1>4. CallsOK(call', node, ID)
  <2> DEFINE x == [c EXCEPT !.todo = @ \ {n}]
  <2>1. IsCall(c)
    BY <1>1 DEF CallOK
  <2>2. /\ IsCall(x) /\ x.step = c.step /\ x.dir = c.dir /\ x.name = c.name
        /\ x.keep = c.keep /\ x.todo = c.todo \ {n} /\ x.dead = c.dead
    BY <2>1 DEF IsCall
  <2>3. call' = [call EXCEPT ![t] = x]
    BY <1>2
  <2> HIDE DEF x, c
  <2>4. CallOK(x, node, ID)
    BY <1>1, <2>2 DEF CallOK
  <2> QED
    BY <2>3, <2>4, ThreadFacts, CallReplaced
<1>5. result'.missed = "no" /\ result'.risen = "no"
  BY DEF AddNext, GoesOn, NoResult
<1> QED
  BY <1>3, <1>4, <1>5 DEF AddNext, StepOK, DirInv, cacheVars, history, How

LEMMA RacesAreIDs ==
    ASSUME DirInv, NoteRaces(inodes \ inodes')
    PROVE  raced' \subseteq ID
BY DEF DirInv, NoteRaces, TableInv, TableTypeOK

LEMMA PruneStep ==
    ASSUME DirInv, NEW t \in Threads, Prune(t)
    PROVE  StepOK
<1>1. ~ At(t, "idle") /\ call[t].dir \in ID /\ call[t].keep \in SUBSET Names
  BY ThreadFacts DEF Prune, At
<1>2. TableNext
  BY <1>1 DEF Prune, TableNext
<1>3. CallsOK(call', node, ID) /\ result'.missed \in How /\ result'.risen \in How
  BY <1>1, GotoFacts DEF Prune, Step
<1>4. raced' \subseteq ID
  BY RacesAreIDs DEF Prune
<1> QED
  BY <1>2, <1>3, <1>4 DEF Prune, StepOK, DirInv, cacheVars

LEMMA ReadStep ==
    ASSUME DirInv, NEW t \in Threads, Read(t)
    PROVE  StepOK
<1>1. /\ Ran(t) \in How /\ "no" \in How /\ call[t].dead \in How
  BY ThreadFacts DEF Ran, How, CallOK
<1>2. ASSUME NEW res, NEW missed \in How, NEW risen \in How,
             AnswerSeeing(t, res, missed, risen)
      PROVE  StepOK
  BY <1>2, AnswerFacts, QuietStep DEF Read
<1>3. CASE call[t].op = "lookup"
  BY <1>1, <1>2, <1>3 DEF Read
<1>4. CASE call[t].op # "lookup"
  BY <1>1, <1>2, <1>4 DEF Read
<1> QED
  BY <1>3, <1>4

LEMMA RefusalStep ==
    ASSUME DirInv, NEW t \in Threads, NEW res, Answer(t, res),
           UNCHANGED <<tableVars, cacheVars, history>>
    PROVE  StepOK
BY AnswerFacts, QuietStep DEF Answer, How

\* What rmdir and unlink know until their end: the name they were given.
LEMMA NameFacts ==
    ASSUME DirInv, NEW t \in Threads,
           call[t].step \in {"addfile", "unindex", "delete", "invdata", "invlist", "parent"}
    PROVE  call[t].name \in Names /\ ~ At(t, "idle")
BY ThreadFacts DEF CallOK, At

LEMMA ApiDeletesStep ==
    ASSUME DirInv, NEW t \in Threads, ApiDeletes(t)
    PROVE  StepOK
<1>1. CallsOK(call', node, ID) /\ result'.missed \in How /\ result'.risen \in How
  BY NameFacts, GotoFacts DEF ApiDeletes, At, Step
<1>2. ClusterOK(cluster')
  <2> DEFINE k == Key(call[t].dir)  n == call[t].name
  <2>1. cluster' = [cluster EXCEPT ![k] = @ \ {n}]
    BY DEF ApiDeletes
  <2> HIDE DEF k, n
  <2> QED
    BY <2>1 DEF DirInv, ClusterOK
<1> QED
  BY <1>1, <1>2 DEF ApiDeletes, StepOK, DirInv, history

LEMMA InvalidateDataStep ==
    ASSUME DirInv, NEW t \in Threads, InvalidateData(t)
    PROVE  StepOK
<1>1. CallsOK(call', node, ID) /\ result'.missed \in How /\ result'.risen \in How
  BY NameFacts, GotoFacts DEF InvalidateData, At, Step
<1>2. ListingsOK(listCache')
  BY ForgetFacts DEF InvalidateData
<1> QED
  BY <1>1, <1>2 DEF InvalidateData, StepOK, DirInv, history

LEMMA InvalidateListStep ==
    ASSUME DirInv, NEW t \in Threads, InvalidateList(t)
    PROVE  StepOK
<1>1. CallsOK(call', node, ID) /\ result'.missed \in How /\ result'.risen \in How
  BY NameFacts, GotoFacts DEF InvalidateList, At, Step
<1>2. ListingsOK(listCache')
  BY ForgetFacts DEF InvalidateList
<1> QED
  BY <1>1, <1>2 DEF InvalidateList, StepOK, DirInv, history

LEMMA CheckParentStep ==
    ASSUME DirInv, NEW t \in Threads, CheckParent(t)
    PROVE  StepOK
<1>1. CASE Goto(t, "unindex")
  <2>1. CallsOK(call', node, ID) /\ result'.missed \in How /\ result'.risen \in How
    BY <1>1, NameFacts, GotoFacts DEF CheckParent, At, Step
  <2> QED
    BY <2>1, QuietStep DEF CheckParent
<1>2. CASE Answer(t, "EPERM")
  BY <1>2, RefusalStep DEF CheckParent
<1> QED
  BY <1>1, <1>2 DEF CheckParent

LEMMA UnindexStep ==
    ASSUME DirInv, NEW t \in Threads, Unindex(t)
    PROVE  StepOK
<1> DEFINE x == <<Key(call[t].dir), call[t].name, Ran(t)>>
<1>1. call[t].dir \in ID /\ call[t].name \in Names
  BY NameFacts, ThreadFacts DEF Unindex, At
<1>2. TableNext
  BY <1>1 DEF Unindex, TableNext
<1>3. CallsOK(call', node, ID) /\ result'.missed \in How /\ result'.risen \in How
  BY AnswerFacts DEF Unindex, Answer, How
<1>4. raced' \subseteq ID
  BY RacesAreIDs DEF Unindex
<1>5. \A y \in deleted' : y[3] \in How
  <2>1. x[3] \in How
    BY DEF Ran, How
  <2>2. deleted' \subseteq deleted \cup {x}
    BY DEF Unindex
  <2> HIDE DEF x
  <2> QED
    BY <2>1, <2>2 DEF DirInv
<1> QED
  BY <1>2, <1>3, <1>4, <1>5 DEF Unindex, StepOK, DirInv, cacheVars

LEMMA AddFileStep ==
    ASSUME DirInv, NEW t \in Threads, AddFile(t)
    PROVE  StepOK
<1>1. call[t].dir \in ID /\ call[t].name \in Names /\ Type(call[t].dir) = "resourceType"
  BY NameFacts, ThreadFacts DEF AddFile, At, CallOK, Type
<1>2. "file" \in ChildTypes(node[call[t].dir].type)
  BY <1>1 DEF ChildTypes, Type
<1>3. TableNext
  BY <1>1, <1>2 DEF AddFile, TableNext
<1>4. CallsOK(call', node, ID) /\ result'.missed \in How /\ result'.risen \in How
  BY AnswerFacts DEF AddFile, Answer, How
<1> QED
  BY <1>3, <1>4 DEF AddFile, StepOK, DirInv, cacheVars, history

\* A change of the cluster touches calls in that a deleted object comes anew.
LEMMA ClusterChangeCalls ==
    ASSUME DirInv, ClusterChange, NEW u \in Threads
    PROVE  /\ call' = [v \in Threads |-> call'[v]]
           /\ call'[u].op = call[u].op /\ call'[u].step = call[u].step
           /\ call'[u].dir = call[u].dir /\ call'[u].name = call[u].name
           /\ call'[u].keep = call[u].keep /\ call'[u].todo = call[u].todo
           /\ call'[u].alone = call[u].alone
           /\ call'[u].dead \in {"no", call[u].dead}
           /\ IsCall(call'[u])
<1> DEFINE y == [call[u] EXCEPT !.dead = "no"]
<1>1. IsCall(call[u])
  BY ThreadFacts DEF CallOK
<1>2. /\ IsCall(y) /\ y.op = call[u].op /\ y.step = call[u].step /\ y.dir = call[u].dir
      /\ y.name = call[u].name /\ y.keep = call[u].keep /\ y.todo = call[u].todo
      /\ y.alone = call[u].alone /\ y.dead = "no"
  BY <1>1 DEF IsCall
<1>3. call' = [v \in Threads |-> call'[v]] /\ call'[u] \in {y, call[u]}
  BY DEF ClusterChange
<1> HIDE DEF y
<1> QED
  BY <1>1, <1>2, <1>3

LEMMA ElsewhereStep ==
    ASSUME DirInv, ClusterChange \/ Expire
    PROVE  StepOK
<1>0. CallsOK(call', node, ID)
  <2>1. CASE ClusterChange
    <3>1. ASSUME NEW u \in Threads PROVE CallOK(call'[u], node, ID)
      <4>1. CallOK(call[u], node, ID)
        BY ThreadFacts
      <4>2. call'[u].dead \in How
        BY <2>1, <4>1, ClusterChangeCalls DEF CallOK, How
      <4> QED
        BY <2>1, <4>1, <4>2, ClusterChangeCalls DEF CallOK
    <3>2. call' = [v \in Threads |-> call'[v]]
      BY <2>1 DEF ClusterChange
    <3> QED
      BY <3>1, <3>2 DEF CallsOK
  <2>2. CASE Expire
    BY <2>2 DEF Expire, callVars, DirInv
  <2> QED
    BY <2>1, <2>2
<1>1. /\ UNCHANGED <<tableVars, raced, hidden>>
      /\ result'.missed = "no" /\ result'.risen = "no"
  <2>1. CASE ClusterChange
    BY <2>1 DEF ClusterChange, NoResult
  <2>2. CASE Expire
    BY <2>2 DEF Expire, callVars, NoResult, history
  <2> QED
    BY <2>1, <2>2
<1>2. \A x \in deleted' : x[3] \in How
  <2>1. deleted' \subseteq deleted
    BY DEF ClusterChange, Expire, history
  <2> QED
    BY <2>1 DEF DirInv
<1>3. CASE ClusterChange
  <2>1. ClusterOK(cluster')
    <3>1. PICK k \in DOMAIN Universe : \E n \in Universe[k] :
              cluster' = [j \in DOMAIN cluster |->
                CASE j = k /\ n \in cluster[k] -> cluster[k] \ {n}
                  [] j = k /\ n \notin cluster[k] -> cluster[k] \cup {n}
                  [] j # k /\ k[1] = "namespaces" /\ j[1] = "list" /\ j[2] = n
                                  -> {}
                  [] OTHER        -> cluster[j]]
      BY <1>3 DEF ClusterChange
    <3> QED
      BY <3>1 DEF DirInv, ClusterOK
  <2> QED
    BY <1>0, <1>1, <1>2, <1>3, <2>1 DEF ClusterChange, StepOK, DirInv, How
<1>4. CASE Expire
  <2>1. ListingsOK(listCache')
    BY <1>4, ForgetFacts DEF Expire
  <2> QED
    BY <1>0, <1>1, <1>2, <1>4, <2>1 DEF Expire, StepOK, DirInv, How
<1> QED
  BY <1>3, <1>4

-----------------------------------------------------------------------------
\* Every step, and the invariant it leaves.

LEMMA DirNextStep == DirInv /\ [DirNext]_vars => StepOK
<1> SUFFICES ASSUME DirInv, [DirNext]_vars PROVE StepOK
  OBVIOUS
<1>1. ASSUME NEW t \in Threads, Begins(t) PROVE StepOK
  BY <1>1, BeginsStep
<1>2. ASSUME NEW t \in Threads, Continues(t) PROVE StepOK
  <2>1. CASE ApiFails(t)
    BY <2>1, RefusalStep DEF ApiFails
  <2>2. CASE ApiRefuses(t)
    BY <2>2, RefusalStep DEF ApiRefuses
  <2> QED
    BY <1>2, <2>1, <2>2, ListStep, ApiAnswersStep, FillCacheStep, AddNextStep,
       PruneStep, ReadStep, ApiDeletesStep, InvalidateDataStep, InvalidateListStep,
       CheckParentStep, UnindexStep, AddFileStep DEF Continues
<1>3. CASE ClusterChange \/ Expire
  BY <1>3, ElsewhereStep
<1>4. CASE UNCHANGED vars
  BY <1>4 DEF vars, callVars, cacheVars, history, StepOK, DirInv
<1> QED
  BY <1>1, <1>2, <1>3, <1>4 DEF DirNext

\* IDs once allotted stay so, and their Inodes do not change.
LEMMA HeapGrows ==
    ASSUME TableInv, [TableNext]_tableVars
    PROVE  ID \subseteq ID' /\ \A i \in ID : node'[i] = node[i]
<1>1. \A i \in ID : node'[i] = node[i]
  BY TableStep DEF tableVars, Identity
<1>2. nextID' = nextID \/ nextID' = nextID + 1
  BY DEF TableNext, AddChild, RemoveChild, RemoveChildren, RemoveNames, tableVars
<1>3. nextID \in Nat
  BY DEF TableInv, TableTypeOK
<1> QED
  BY <1>1, <1>2, <1>3 DEF ID

LEMMA DirInvStep == DirInv /\ [DirNext]_vars => DirInv'
<1> SUFFICES ASSUME DirInv, [DirNext]_vars PROVE DirInv'
  OBVIOUS
<1>1. StepOK
  BY DirNextStep
<1>2. TableInv'
  BY <1>1, TableStep DEF StepOK, DirInv
<1>3. ID \subseteq ID' /\ \A i \in ID : node'[i] = node[i]
  BY <1>1, HeapGrows DEF StepOK, DirInv
<1>4. ASSUME NEW c, CallOK(c, node, ID) PROVE CallOK(c, node', ID')
  BY <1>3, <1>4 DEF CallOK
<1>5. CallsOK(call', node', ID')
  BY <1>1, <1>4 DEF StepOK, CallsOK
<1> QED
  BY <1>1, <1>2, <1>3, <1>5 DEF StepOK, DirInv

LEMMA DirStart == DirInit => DirInv
<1> SUFFICES ASSUME DirInit PROVE DirInv
  OBVIOUS
<1>1. TableInv
  BY TableStart DEF DirInit
<1>2. ClusterOK(cluster)
  BY DEF DirInit, ClusterOK
<1>3. ListingsOK(listCache)
  BY DEF DirInit, ListingsOK
<1>4. CallsOK(call, node, ID)
  BY NoCallIsOK DEF DirInit, NoCallsYet, CallsOK
<1>5. deleted = {} /\ raced = {} /\ hidden = FALSE /\ result.missed = "no" /\ result.risen = "no"
  BY DEF DirInit, NoCallsYet, NoResult
<1> QED
  BY <1>1, <1>2, <1>3, <1>4, <1>5 DEF DirInv, How

LEMMA DirInvariance == DirSpec => []DirInv
BY DirStart, DirInvStep, PTL DEF DirSpec

\* Types of the directory operations' state (DirTypeOK), in every interleaving.
THEOREM DirTypeCorrect == DirSpec => []DirTypeOK
<1>1. DirInv => DirTypeOK
  <2> SUFFICES ASSUME DirInv PROVE DirTypeOK
    OBVIOUS
  <2>1. \A t \in Threads :
          /\ call[t].step \in Step /\ call[t].dir \in ID \cup {NoID}
          /\ call[t].name \in Names \cup {NoName} /\ call[t].dead \in How
          /\ call[t].todo \subseteq call[t].keep /\ call[t].keep \subseteq Names
    BY DEF DirInv, CallsOK, CallOK
  <2> QED
    BY <2>1 DEF DirInv, DirTypeOK, TableInv, ClusterOK, ListingsOK
<1> QED
  BY DirInvariance, <1>1, PTL

\* Every step of the directory operations is a step of the inode table or
\* leaves it alone (TableSteps): the pointers calls hold across other calls'
\* removals never lead them outside of what the table allows.
THEOREM DirectoryUsesTable == DirSpec => TableSteps
<1>1. DirInv /\ [DirNext]_vars => [TableNext]_tableVars
  BY DirNextStep DEF StepOK
<1> QED
  BY DirInvariance, <1>1, PTL DEF DirSpec, TableSteps

\* With that the table's own invariant holds under the directory operations.
THEOREM DirectoryKeepsIndex == DirSpec => []IndexConsistent
<1>1. DirInv => IndexConsistent
  BY DEF DirInv, TableInv
<1> QED
  BY DirInvariance, <1>1, PTL

\* And what the table's steps may never do, no overlap of calls makes them
\* do: an ID the kernel holds never comes to mean another inode
\* (InodeIdentity).
THEOREM DirectoryKeepsIdentity == DirSpec => InodeIdentity
<1>1. DirInv /\ [DirNext]_vars => [Identity]_tableVars
  BY DirNextStep, TableStep DEF StepOK, DirInv
<1>2. (DirSpec => [][Identity]_tableVars)
  BY DirInvariance, <1>1, PTL DEF DirSpec
<1> QED
  BY <1>2 DEF InodeIdentity, Identity

\* Remove and the pruning of a listing take whole subtrees, whatever other
\* calls are adding meanwhile (RemovalTakesSubtree).
THEOREM DirectoryTakesSubtrees == DirSpec => RemovalTakesSubtree
<1>1. DirInv /\ [DirNext]_vars => [TakesSubtree]_tableVars
  BY DirNextStep, TableStep DEF StepOK, DirInv
<1>2. (DirSpec => [][TakesSubtree]_tableVars)
  BY DirInvariance, <1>1, PTL DEF DirSpec
<1> QED
  BY <1>2 DEF RemovalTakesSubtree, TakesSubtree

-----------------------------------------------------------------------------
\* Where calls add.

\* A call that may still add children to its directory (Populating).
Adding(c) ==
    \/ c.step \in {"list", "api", "fill", "addfile"}
    \/ c.step = "add" /\ c.todo # {}

\* Such a call adds to a live directory, or to one whose removal has noted
\* the race.
RacesNoted == \A t \in Threads : Adding(call[t]) => call[t].dir \in inodes \cup raced

\* A call that may still add to a directory already could before the step,
\* unless it begins, and then its directory is live.
Follows ==
    \A u \in Threads : Adding(call'[u]) =>
        \/ Adding(call[u]) /\ call'[u].dir = call[u].dir
        \/ call'[u].dir \in inodes /\ inodes' = inodes

\* A directory a step removes is noted if a call may still add to it, and an
\* inode a step adds is below the directory of such a call.
AddsWhereItMay ==
    /\ Follows
    /\ raced \subseteq raced'
    /\ \A t \in Threads : Adding(call[t]) /\ call[t].dir \in inodes
                            => call[t].dir \in inodes' \cup raced'
    /\ \A i \in inodes' \ inodes :
          \E t \in Threads : Adding(call[t]) /\ node'[i].parent = call[t].dir

LEMMA QuietAdds ==
    ASSUME Follows, UNCHANGED <<tableVars, raced>>
    PROVE  AddsWhereItMay
BY DEF AddsWhereItMay, tableVars

LEMMA OneCallMoves ==
    ASSUME DirInv, NEW t \in Threads, NEW x, call' = [call EXCEPT ![t] = x],
           Adding(x) => Adding(call[t]) /\ x.dir = call[t].dir
    PROVE  Follows
<1>1. call = [u \in Threads |-> call[u]]
  BY DEF DirInv, CallsOK
<1>2. call'[t] = x /\ \A u \in Threads \ {t} : call'[u] = call[u]
  BY <1>1
<1> QED
  BY <1>2 DEF Follows

LEMMA GotoAdds ==
    ASSUME DirInv, NEW t \in Threads, NEW s, Goto(t, s), s # "add",
           s \in {"list", "api", "fill", "addfile"} => Adding(call[t])
    PROVE  Follows
<1> DEFINE x == [call[t] EXCEPT !.step = s]
<1>1. IsCall(call[t])
  BY ThreadFacts DEF CallOK
<1>2. x.step = s /\ x.dir = call[t].dir
  BY <1>1 DEF IsCall
<1>3. call' = [call EXCEPT ![t] = x]
  BY DEF Goto
<1> HIDE DEF x
<1>4. Adding(x) => Adding(call[t]) /\ x.dir = call[t].dir
  BY <1>2 DEF Adding
<1> QED
  BY <1>3, <1>4, OneCallMoves

LEMMA AnswerAdds ==
    ASSUME DirInv, NEW t \in Threads, NEW res, NEW missed, NEW risen,
           AnswerSeeing(t, res, missed, risen)
    PROVE  Follows
<1>1. ~ Adding(NoCall)
  BY DEF Adding, NoCall
<1> QED
  BY <1>1, OneCallMoves DEF AnswerSeeing

LEMMA FillingAdds ==
    ASSUME DirInv, NEW t \in Threads, NEW names, StartFilling(t, names),
           Adding(call[t])
    PROVE  Follows
<1> DEFINE x == [call[t] EXCEPT !.step = "add", !.keep = names, !.todo = names]
<1>1. IsCall(call[t])
  BY ThreadFacts DEF CallOK
<1>2. x.dir = call[t].dir
  BY <1>1 DEF IsCall
<1>3. call' = [call EXCEPT ![t] = x]
  BY DEF StartFilling
<1> HIDE DEF x
<1> QED
  BY <1>2, <1>3, OneCallMoves

LEMMA RemovalAdds ==
    ASSUME Follows, inodes' \subseteq inodes, NoteRaces(inodes \ inodes')
    PROVE  AddsWhereItMay
<1>1. ASSUME NEW t \in Threads, Adding(call[t]), call[t].dir \in inodes,
             call[t].dir \notin inodes'
      PROVE  call[t].dir \in raced'
  <2>1. Populating(t, call[t].dir)
    BY <1>1 DEF Populating, Adding
  <2> QED
    BY <1>1, <2>1 DEF NoteRaces
<1> QED
  BY <1>1 DEF AddsWhereItMay, NoteRaces

LEMMA AddChildAdds ==
    ASSUME DirInv, Follows, raced' = raced,
           NEW t \in Threads, Adding(call[t]), call[t].dir \in ID,
           NEW n \in Names, NEW type \in ChildTypes(node[call[t].dir].type),
           AddChild(call[t].dir, n, type)
    PROVE  AddsWhereItMay
<1> DEFINE p == call[t].dir
<1>1. CASE Children(p)[n] # NoID
  BY <1>1, QuietAdds DEF AddChild
<1>2. CASE Children(p)[n] = NoID
  <2>1. Allots(p, n, type)
    BY <1>2 DEF Allots
  <2>2. type \in NodeType \ {"root"}
    BY NodeTypes, ChildTypesAreTypes DEF DirInv, TableInv
  <2> HIDE DEF p
  <2>3. p \in ID /\ TableTypeOK
    BY DEF p, DirInv, TableInv
  <2>4. inodes' = inodes \cup {nextID}
    BY <2>1, <2>2, <2>3, AllotsFacts
  <2>5. node'[nextID].parent = p
    <3>1. nextID \in 1..nextID
      BY <2>3, IDFacts
    <3>2. node' = [i \in 1..nextID |->
                     IF i = nextID THEN NewInode(p, n, type) ELSE node[i]]
      BY <2>1 DEF Allots, AddChild
    <3>3. node'[nextID] = NewInode(p, n, type)
      BY <3>1, <3>2
    <3> QED
      BY <3>3 DEF NewInode
  <2> QED
    BY <2>4, <2>5 DEF AddsWhereItMay, p
<1> QED
  BY <1>1, <1>2

LEMMA BeginAdds ==
    ASSUME DirInv, NEW t \in Threads, NEW op, NEW d, NEW n,
           NEW s \in {"list", "delete", "parent", "addfile"}, Begin(t, op, d, n, s),
           s \in {"list", "addfile"} => d \in inodes
    PROVE  AddsWhereItMay
<1> DEFINE how == DeletedHow(d, n)
           q == \A v \in Threads \ {t} : At(v, "idle")
           x(u) == IF u # t THEN [call[u] EXCEPT !.alone = FALSE]
                   ELSE [NoCall EXCEPT !.op = op, !.step = s, !.dir = d, !.name = n,
                                       !.dead = how, !.alone = q]
<1>1. call' = [u \in Threads |-> x(u)] /\ UNCHANGED <<tableVars, raced>>
  BY DEF Begin, history
<1> HIDE DEF how, q
<1>2. ASSUME NEW u \in Threads \ {t}
      PROVE  (Adding(x(u)) <=> Adding(call[u])) /\ x(u).dir = call[u].dir
  <2> DEFINE y == [call[u] EXCEPT !.alone = FALSE]
  <2>1. IsCall(call[u])
    BY ThreadFacts DEF CallOK
  <2>2. y.step = call[u].step /\ y.dir = call[u].dir /\ y.todo = call[u].todo
    BY <2>1 DEF IsCall
  <2>3. x(u) = y
    OBVIOUS
  <2> HIDE DEF x, y
  <2> QED
    BY <2>2, <2>3 DEF Adding
<1>3. x(t).step = s /\ x(t).dir = d
  BY DEF NoCall
<1>4. inodes' = inodes
  BY <1>1 DEF tableVars
<1> HIDE DEF x
<1>5. Adding(x(t)) => d \in inodes
  BY <1>3 DEF Adding
<1>6. Follows
  BY <1>1, <1>2, <1>3, <1>4, <1>5 DEF Follows
<1> QED
  BY <1>1, <1>6, QuietAdds

LEMMA BeginsAdds ==
    ASSUME DirInv, NEW t \in Threads, Begins(t)
    PROVE  AddsWhereItMay
<1>1. ASSUME NEW op, NEW d \in ID, NEW n, BeginWalk(t, op, d, n) PROVE AddsWhereItMay
  BY <1>1, BeginAdds DEF BeginWalk
<1>2. ASSUME NEW d \in ID, NEW n \in Names, NEW op \in {"rmdir", "unlink"},
             BeginRemove(t, op, d, n)
      PROVE  AddsWhereItMay
  <2> DEFINE s == IF op = "rmdir" THEN "delete" ELSE "parent"
  <2>1. Begin(t, op, d, n, s) /\ s \in {"delete", "parent"}
    BY <1>2 DEF BeginRemove
  <2> HIDE DEF s
  <2> QED
    BY <2>1, BeginAdds
<1>3. ASSUME NEW d \in ID, NEW n \in Names, BeginCreate(t, d, n) PROVE AddsWhereItMay
  BY <1>3, BeginAdds DEF BeginCreate
<1> QED
  BY <1>1, <1>2, <1>3 DEF Begins

LEMMA ContinuesAdds ==
    ASSUME DirInv, NEW t \in Threads, Continues(t)
    PROVE  AddsWhereItMay
<1>1. CASE List(t)
  <2>1. Adding(call[t]) /\ UNCHANGED <<tableVars, raced>>
    BY <1>1 DEF List, At, Adding, history
  <2>2. \/ \E names : StartFilling(t, names)
        \/ Goto(t, "api")
    BY <1>1 DEF List
  <2> QED
    BY <2>1, <2>2, FillingAdds, GotoAdds, QuietAdds
<1>2. CASE ApiAnswers(t)
  <2> DEFINE names == cluster[Key(call[t].dir)]
             x == [call[t] EXCEPT !.step = "fill", !.keep = names]
  <2>1. Adding(call[t]) /\ UNCHANGED <<tableVars, raced>>
    BY <1>2 DEF ApiAnswers, At, Adding, history
  <2>2. call' = [call EXCEPT ![t] = x]
    BY <1>2 DEF ApiAnswers
  <2>3. x.dir = call[t].dir
    BY ThreadFacts DEF CallOK, IsCall
  <2> HIDE DEF x
  <2> QED
    BY <2>1, <2>2, <2>3, OneCallMoves, QuietAdds
<1>3. CASE ApiFails(t) \/ ApiRefuses(t)
  <2>1. Answer(t, "EIO") /\ UNCHANGED <<tableVars, raced>>
    BY <1>3 DEF ApiFails, ApiRefuses, history
  <2> QED
    BY <2>1, AnswerAdds, QuietAdds DEF Answer
<1>4. CASE FillCache(t)
  <2>1. /\ Adding(call[t]) /\ UNCHANGED <<tableVars, raced>>
        /\ StartFilling(t, call[t].keep)
    BY <1>4 DEF FillCache, At, Adding, history
  <2> QED
    BY <2>1, FillingAdds, QuietAdds
<1>5. CASE AddNext(t)
  <2>1. PICK n \in call[t].todo :
            /\ AddChild(call[t].dir, n, ListedType(call[t].dir, n))
            /\ call' = [call EXCEPT ![t].todo = @ \ {n}]
    BY <1>5 DEF AddNext
  <2>2. Adding(call[t]) /\ raced' = raced
    BY <1>5, <2>1 DEF AddNext, At, Adding, history
  <2>3. /\ call[t].dir \in ID /\ n \in Names
        /\ ListedType(call[t].dir, n) \in ChildTypes(node[call[t].dir].type)
    BY <1>5, ThreadFacts, ListedTypeFacts DEF AddNext, At
  <2>4. Follows
    <3> DEFINE x == [call[t] EXCEPT !.todo = @ \ {n}]
    <3>1. call' = [call EXCEPT ![t] = x]
      BY <2>1
    <3>2. x.dir = call[t].dir
      BY ThreadFacts DEF CallOK, IsCall
    <3> HIDE DEF x
    <3> QED
      BY <2>2, <3>1, <3>2, OneCallMoves
  <2> QED
    BY <2>1, <2>2, <2>3, <2>4, AddChildAdds
<1>6. CASE Prune(t)
  <2>1. inodes' \subseteq inodes
    BY <1>6 DEF Prune, RemoveChildren, RemoveNames
  <2> QED
    BY <1>6, <2>1, GotoAdds, RemovalAdds DEF Prune
<1>7. CASE Read(t)
  <2>1. (\E res, missed, risen : AnswerSeeing(t, res, missed, risen))
    <3>1. CASE call[t].op = "lookup"
      BY <1>7, <3>1 DEF Read
    <3>2. CASE call[t].op # "lookup"
      BY <1>7, <3>2 DEF Read
    <3> QED
      BY <3>1, <3>2
  <2> QED
    BY <1>7, <2>1, AnswerAdds, QuietAdds DEF Read, history
<1>8. CASE ApiDeletes(t) \/ InvalidateData(t) \/ InvalidateList(t)
  <2>1. /\ UNCHANGED <<tableVars, raced>>
        /\ Goto(t, "invdata") \/ Goto(t, "invlist") \/ Goto(t, "unindex")
    BY <1>8 DEF ApiDeletes, InvalidateData, InvalidateList, history
  <2> QED
    BY <2>1, GotoAdds, QuietAdds
<1>9. CASE CheckParent(t)
  <2>1. /\ UNCHANGED <<tableVars, raced>>
        /\ Goto(t, "unindex") \/ Answer(t, "EPERM")
    BY <1>9 DEF CheckParent, history
  <2> QED
    BY <2>1, GotoAdds, AnswerAdds, QuietAdds DEF Answer
<1>10. CASE Unindex(t)
  <2>1. inodes' \subseteq inodes
    BY <1>10 DEF Unindex, RemoveChild, RemoveNames
  <2> QED
    BY <1>10, <2>1, AnswerAdds, RemovalAdds DEF Unindex, Answer
<1>11. CASE AddFile(t)
  <2>1. /\ AddChild(call[t].dir, call[t].name, "file") /\ Answer(t, "ok")
        /\ raced' = raced /\ Adding(call[t])
    BY <1>11 DEF AddFile, At, Adding, history
  <2>2. call[t].dir \in ID /\ call[t].name \in Names /\ Type(call[t].dir) = "resourceType"
    BY <1>11, NameFacts, ThreadFacts DEF AddFile, At, CallOK, Type
  <2>3. "file" \in ChildTypes(node[call[t].dir].type)
    BY <2>2 DEF ChildTypes, Type
  <2> QED
    BY <2>1, <2>2, <2>3, AnswerAdds, AddChildAdds DEF Answer
<1> QED
  BY <1>1, <1>2, <1>3, <1>4, <1>5, <1>6, <1>7, <1>8, <1>9, <1>10, <1>11 DEF Continues

LEMMA NextAdds == DirInv /\ [DirNext]_vars => AddsWhereItMay
<1> SUFFICES ASSUME DirInv, [DirNext]_vars PROVE AddsWhereItMay
  OBVIOUS
<1>1. CASE ClusterChange \/ Expire \/ UNCHANGED vars
  <2>1. UNCHANGED <<tableVars, raced>> /\ Follows
    <3>1. CASE ClusterChange
      BY <3>1, ClusterChangeCalls DEF ClusterChange, Follows, Adding
    <3>2. CASE Expire
      BY <3>2 DEF Expire, callVars, history, Follows
    <3>3. CASE UNCHANGED vars
      BY <3>3 DEF vars, callVars, history, Follows
    <3> QED
      BY <1>1, <3>1, <3>2, <3>3
  <2> QED
    BY <2>1, QuietAdds
<1>2. ASSUME NEW t \in Threads, Begins(t) \/ Continues(t) PROVE AddsWhereItMay
  BY <1>2, BeginsAdds, ContinuesAdds
<1> QED
  BY <1>1, <1>2 DEF DirNext

-----------------------------------------------------------------------------
\* Inodes without a live directory.

OrphanInv == OrphansAreRaced /\ RacesNoted

LEMMA OrphanStep == DirInv /\ OrphanInv /\ [DirNext]_vars => OrphanInv'
<1> SUFFICES ASSUME DirInv, OrphanInv, [DirNext]_vars PROVE OrphanInv'
  OBVIOUS
<1>1. AddsWhereItMay
  BY NextAdds
<1>2. [TableNext]_tableVars /\ \A i \in ID : node'[i] = node[i]
  BY DirNextStep, HeapGrows DEF StepOK, DirInv
<1>3. ASSUME NEW t \in Threads, Adding(call[t])
      PROVE  call[t].dir \in inodes' \cup raced'
  BY <1>1, <1>3 DEF AddsWhereItMay, OrphanInv, RacesNoted
<1>4. RacesNoted'
  BY <1>1, <1>3 DEF AddsWhereItMay, Follows, RacesNoted
<1>5. ASSUME NEW i \in inodes' \ {RootInodeID}
      PROVE  node'[i].parent \in inodes' \cup raced'
  <2>1. CASE i \notin inodes
    BY <1>1, <1>3, <2>1 DEF AddsWhereItMay
  <2>2. CASE i \in inodes
    <3>1. node'[i] = node[i]
      BY <1>2, <2>2 DEF DirInv, TableInv, TableTypeOK
    <3>2. node[i].parent \in inodes \cup raced
      BY <2>2 DEF OrphanInv, OrphansAreRaced, Parent
    <3>3. node[i].parent \in inodes => node[i].parent \in inodes'
      BY <1>2, <1>5, <2>2, TableStep DEF DirInv, TakesSubtree, tableVars
    <3> QED
      BY <1>1, <3>1, <3>2, <3>3 DEF AddsWhereItMay
  <2> QED
    BY <2>1, <2>2
<1> QED
  BY <1>4, <1>5 DEF OrphanInv, OrphansAreRaced, Parent

\* removeSubtree leaves nothing behind, whatever calls overlap: an inode whose
\* directory is gone was put there by a call that had found the directory
\* before another call removed it (OrphansAreRaced).
THEOREM OrphansOnlyByRace == DirSpec => []OrphansAreRaced
<1>1. DirInit => OrphanInv
  <2>1. DirInit => OrphansAreRaced
    BY DEF DirInit, TableInit, OrphansAreRaced
  <2>2. DirInit => RacesNoted
    <3>1. NoCall.step = "idle"
      BY DEF NoCall
    <3>2. DirInit => \A t \in Threads : call[t].step = "idle"
      BY <3>1 DEF DirInit, NoCallsYet
    <3> QED
      BY <3>2 DEF RacesNoted, Adding
  <2> QED
    BY <2>1, <2>2 DEF OrphanInv
<1>2. OrphanInv => OrphansAreRaced
  BY DEF OrphanInv
<1> QED
  BY DirInvariance, OrphanStep, <1>1, <1>2, PTL DEF DirSpec

-----------------------------------------------------------------------------
\* What the last two invariants rest on: where calls are, and what heap,
\* entry maps and listings are at a step, given as parameters so that the same
\* definition speaks of the states before and after it.

KeyIn(nd, d) ==
    CASE nd[d].type = "root"         -> <<"namespaces">>
      [] nd[d].type = "namespace"    -> <<"resources">>
      [] nd[d].type = "resourceType" -> <<"list", nd[nd[d].parent].name, nd[d].name>>
      [] nd[d].type = "dataDir"      ->
            <<"data", nd[nd[nd[nd[d].parent].parent].parent].name,
              nd[nd[nd[d].parent].parent].name, nd[nd[d].parent].name>>

Entry(index, p, n) == IF p \in DOMAIN index THEN index[p][n] ELSE NoID

\* Every inode was allotted below one that has children of its type.
HeapFits(nd, ids) ==
    \A i \in ids \ {RootInodeID} :
        nd[i].parent \in ids /\ nd[i].type \in ChildTypes(nd[nd[i].parent].type)

\* A call is at steps of its operation, in a directory they are for, and a
\* rmdir past its DELETE has changed the cluster.
CallFits(c, nd, changed) ==
    /\ c.step \in {"api", "fill"} => nd[c.dir].type # "object"
    /\ c.step \in {"delete", "invdata", "invlist"} => c.op = "rmdir"
    /\ c.step = "parent" => c.op = "unlink"
    /\ c.step = "unindex" => c.op \in {"rmdir", "unlink"}
    /\ c.step \in {"delete", "invdata", "invlist", "unindex"}
          => nd[c.dir].type = "resourceType"
    /\ (c.step \in {"invdata", "invlist"} \/ (c.step = "unindex" /\ c.op = "rmdir"))
          => changed

\* A call that runs alone is the only one.
NoneBeside(calls_) ==
    \A t, u \in Threads :
        t # u /\ calls_[t].step # "idle" /\ calls_[t].alone => calls_[u].step = "idle"

WorkInv ==
    /\ HeapFits(node, ID)
    /\ \A t \in Threads : CallFits(call[t], node, changes > 0)
    /\ NoneBeside(call)
    /\ changes \in Nat

-----------------------------------------------------------------------------
\* Lookups of what an rmdir that ran alone has deleted.

HoldsNames == {"fill", "add", "read"}

\* Neither the API nor the cache nor a call lists n under k.
Unlisted(k, n, cl, lists, calls_, nd) ==
    /\ n \in Names
    /\ k \in DOMAIN cl => n \notin cl[k]
    /\ k \in DOMAIN lists => n \notin lists[k]
    /\ \A t \in Threads :
          (calls_[t].step \in HoldsNames /\ nd[calls_[t].dir].type # "object"
              /\ KeyIn(nd, calls_[t].dir) = k)
          => n \notin calls_[t].keep

DeletedAlone(del, k, n) == \E x \in del : x[1] = k /\ x[2] = n /\ x[3] = "alone"

DeadFrom(c, nd, del) ==
    /\ c.step # "idle" /\ nd[c.dir].type = "resourceType"
    /\ DeletedAlone(del, KeyIn(nd, c.dir), c.name)

\* A lookup of such an object: it is still deleted, and once the lookup has
\* pruned the directory the object's entry is gone.
DeadOK(c, nd, index, del) ==
    c.dead = "alone" =>
        /\ DeadFrom(c, nd, del)
        /\ c.step = "read" =>
              \/ Entry(index, c.dir, c.name) = NoID
              \/ nd[Entry(index, c.dir, c.name)].type # "object"

\* rmdir alone has the listing dropped when it comes to the entry.
Dropped(c, nd, lists) ==
    c.step = "unindex" /\ c.op = "rmdir" /\ c.alone => KeyIn(nd, c.dir) \notin DOMAIN lists

RisenInv ==
    /\ \A x \in deleted : x[3] = "alone" =>
          Unlisted(x[1], x[2], cluster, listCache, call, node)
    /\ \A t \in Threads : DeadOK(call[t], node, childIndex, deleted)
    /\ \A t \in Threads : Dropped(call[t], node, listCache)
    /\ result.risen # "alone"

-----------------------------------------------------------------------------
\* Names that a call misses.

StaticIn(nd, d) ==
    ActionNames \cup (IF nd[nd[d].parent].name \in DataTypes THEN {DataName} ELSE {})

Listable(nd, cl, d) == nd[d].type = "object" \/ KeyIn(nd, d) \in DOMAIN cl

\* What a call that lists d has for keep while nothing changes.
Listing(nd, cl, d) ==
    IF nd[d].type = "object" THEN StaticIn(nd, d) ELSE cl[KeyIn(nd, d)]

Settled(changed, hid) == changed = 0 /\ ~ hid

\* While the cluster does not change and no listed name is unlinked, cache,
\* calls and directory entries are of one listing.
CacheAgrees(lists, cl) ==
    \A k \in DOMAIN lists : k \in DOMAIN cl /\ lists[k] = cl[k]

CallAgrees(c, nd, cl) ==
    c.step \in HoldsNames => Listable(nd, cl, c.dir) /\ c.keep = Listing(nd, cl, c.dir)

DirsAgree(index, nd, cl) ==
    \A p \in DOMAIN index, n \in Names :
        index[p][n] # NoID /\ IsDir(nd[index[p][n]].type)
            => Listable(nd, cl, p) /\ n \in Listing(nd, cl, p)

\* The names a call has added are still there.
Added(c, index) ==
    c.step \in {"add", "read"} =>
        \A n \in c.keep : (c.step = "add" => n \notin c.todo) => Entry(index, c.dir, n) # NoID

MissedInv ==
    /\ Settled(changes, hidden) =>
          /\ CacheAgrees(listCache, cluster)
          /\ \A t \in Threads : CallAgrees(call[t], node, cluster)
          /\ DirsAgree(childIndex, node, cluster)
    /\ \A t \in Threads :
          call[t].alone \/ Settled(changes, hidden) => Added(call[t], childIndex)
    /\ MissedOnlyIfOverlapped

-----------------------------------------------------------------------------
\* One step, seen call by call: where what a call has after it comes from.

\* A call goes on, as far as it does not end.
Goes(u) ==
    /\ call[u].step # "idle"
    /\ call'[u].op = call[u].op /\ call'[u].dir = call[u].dir
    /\ call'[u].name = call[u].name /\ call'[u].dead \in {"no", call[u].dead}
    /\ call'[u].alone => call[u].alone

Begun(u) ==
    /\ call[u].step = "idle"
    /\ call'[u].step \in {"list", "delete", "parent", "addfile"}
    /\ call'[u].alone => \A v \in Threads \ {u} : call[v].step = "idle"
    /\ \A v \in Threads \ {u} : ~ call'[v].alone /\ call'[v].step = call[v].step

KeepsFrom(u) ==
    call'[u].step \in HoldsNames =>
        \/ call[u].step \in HoldsNames /\ call'[u].keep = call[u].keep
        \/ /\ node[call[u].dir].type = "object"
           /\ call'[u].keep = StaticIn(node, call[u].dir)
        \/ /\ node[call[u].dir].type # "object"
           /\ KeyIn(node, call[u].dir) \in DOMAIN listCache
           /\ call'[u].keep = listCache[KeyIn(node, call[u].dir)]
        \/ /\ node[call[u].dir].type # "object"
           /\ KeyIn(node, call[u].dir) \in DOMAIN cluster
           /\ call'[u].keep = cluster[KeyIn(node, call[u].dir)]

AddsFrom(u) ==
    call'[u].step \in {"add", "read"} =>
        \A m \in call'[u].keep :
            \/ call'[u].step = "add" /\ m \in call'[u].todo
            \/ Entry(childIndex', call[u].dir, m) # NoID
            \/ /\ call[u].step \in {"add", "read"} /\ call'[u].keep = call[u].keep
               /\ call[u].step = "add" => m \notin call[u].todo

PrunesFrom(u) ==
    call'[u].step = "read" =>
        \/ call[u].step = "read"
        \/ /\ call[u].step = "add"
           /\ \A m \in Names \ call[u].keep : Entry(childIndex', call[u].dir, m) = NoID

DropsFrom(u) ==
    call'[u].step = "unindex" /\ call'[u].op = "rmdir" =>
        call[u].step = "unindex" \/ KeyIn(node, call[u].dir) \notin DOMAIN listCache'

CallFlow(u) ==
    /\ CallFits(call'[u], node, changes' > 0)
    /\ call'[u].step # "idle" => Begun(u) \/ Goes(u)
    /\ KeepsFrom(u) /\ AddsFrom(u) /\ PrunesFrom(u) /\ DropsFrom(u)

\* And where caches, entries and history come from.
ListsFrom ==
    \A k \in DOMAIN listCache' :
        \/ k \in DOMAIN listCache /\ listCache'[k] = listCache[k]
        \/ \E t \in Threads : /\ call[t].step = "fill" /\ k = KeyIn(node, call[t].dir)
                              /\ listCache'[k] = call[t].keep

EntriesFrom ==
    \A p \in DOMAIN childIndex', n \in Names :
        childIndex'[p][n] # NoID =>
            \/ childIndex'[p][n] = Entry(childIndex, p, n)
            \/ node'[childIndex'[p][n]].type = "file"
            \/ \E t \in Threads :
                  call[t].step = "add" /\ p = call[t].dir /\ n \in call[t].todo

EntriesGrow ==
    \A p, n : Entry(childIndex, p, n) # NoID => Entry(childIndex', p, n) # NoID

TableFrom == EntriesGrow \/ \E t \in Threads : Prune(t) \/ Unindex(t)

ClusterFrom ==
    /\ changes' \in Nat /\ changes' >= changes
    /\ changes' = changes => cluster' = cluster
    /\ hidden => hidden'
    /\ \A k \in DOMAIN cluster' : \A n \in cluster'[k] :
          \/ k \in DOMAIN cluster /\ n \in cluster[k]
          \/ ~ \E x \in deleted' : x[1] = k /\ x[2] = n

Deletes(t, x) ==
    /\ call[t].step = "unindex" /\ call[t].op = "rmdir"
    /\ x[1] = KeyIn(node, call[t].dir) /\ x[2] = call[t].name
    /\ x[3] = "alone" => call[t].alone
    /\ x[2] \notin cluster[x[1]]
    /\ cluster' = cluster /\ listCache' = listCache
    /\ call'[t].step = "idle" /\ \A v \in Threads \ {t} : call'[v] = call[v]

DeletedFrom == \A x \in deleted' : x \in deleted \/ \E t \in Threads : Deletes(t, x)

DeadStays ==
    \A t \in Threads : call'[t].dead = "alone" =>
        \/ DeadFrom(call'[t], node, deleted')
        \/ call[t].dead = "alone" /\ ~ DeadFrom(call[t], node, deleted)

ResultFrom ==
    \/ result' = result
    \/ result'.missed = "no" /\ result'.risen = "no"
    \/ \E t \in Threads : Read(t)

Flow ==
    /\ \A u \in Threads : CallFlow(u)
    /\ ListsFrom /\ EntriesFrom /\ TableFrom /\ ClusterFrom
    /\ DeletedFrom /\ DeadStays /\ ResultFrom

-----------------------------------------------------------------------------
\* The heap, and calls in it.

LEMMA KeyIs ==
    ASSUME DirInv, NEW d \in ID, IsDir(Type(d)), Type(d) # "object"
    PROVE  Key(d) = KeyIn(node, d)
<1>1. Type(d) \in {"root", "namespace", "resourceType", "dataDir"}
  BY NodeTypes DEF DirInv, TableInv, NodeType, IsDir, Type
<1> QED
  BY <1>1 DEF Key, KeyIn, Type, Name, Parent

LEMMA ParentIsID ==
    ASSUME DirInv, HeapFits(node, ID), NEW d \in ID
    PROVE  node[d].parent \in ID
<1>1. node[RootInodeID].parent = RootInodeID /\ RootInodeID \in ID
  BY IDFacts DEF DirInv, TableInv, TableTypeOK
<1> QED
  BY <1>1 DEF HeapFits

\* Keys and static names do not change, as Inodes and their parents do not.
LEMMA KeyStays ==
    ASSUME DirInv, HeapFits(node, ID), \A i \in ID : node'[i] = node[i],
           NEW d \in ID, IsDir(node[d].type)
    PROVE  /\ node'[d].type = node[d].type
           /\ node[d].type # "object" => KeyIn(node', d) = KeyIn(node, d)
           /\ StaticIn(node', d) = StaticIn(node, d)
<1> DEFINE p == node[d].parent
           q == node[p].parent
           o == node[q].parent
<1>1. p \in ID /\ q \in ID /\ o \in ID
  BY ParentIsID
<1>2. node'[d] = node[d] /\ node'[p] = node[p] /\ node'[q] = node[q] /\ node'[o] = node[o]
  BY <1>1
<1>3. StaticIn(node', d) = StaticIn(node, d)
  BY <1>2 DEF StaticIn
<1>4. node[d].type # "object" => KeyIn(node', d) = KeyIn(node, d)
  <2>1. node[d].type # "object" =>
            node[d].type \in {"root", "namespace", "resourceType", "dataDir"}
    BY NodeTypes DEF DirInv, TableInv, NodeType, IsDir
  <2> QED
    BY <1>2, <2>1 DEF KeyIn
<1> QED
  BY <1>2, <1>3, <1>4

OthersStay(t) == \A u \in Threads \ {t} : call'[u] = call[u]

SameCall(c, x) ==
    /\ x.op = c.op /\ x.dir = c.dir /\ x.name = c.name
    /\ x.dead = c.dead /\ x.alone = c.alone

LEMMA GotoFields ==
    ASSUME DirInv, NEW t \in Threads, NEW s, Goto(t, s)
    PROVE  /\ OthersStay(t) /\ SameCall(call[t], call'[t])
           /\ call'[t].step = s
           /\ call'[t].keep = call[t].keep /\ call'[t].todo = call[t].todo
<1> DEFINE x == [call[t] EXCEPT !.step = s]
<1>1. IsCall(call[t]) /\ call = [u \in Threads |-> call[u]]
  BY ThreadFacts DEF CallOK, CallsOK
<1>2. SameCall(call[t], x) /\ x.step = s /\ x.keep = call[t].keep /\ x.todo = call[t].todo
  BY <1>1 DEF IsCall, SameCall
<1>3. call' = [call EXCEPT ![t] = x]
  BY DEF Goto
<1> HIDE DEF x
<1>4. call'[t] = x /\ OthersStay(t)
  BY <1>1, <1>3 DEF OthersStay
<1> QED
  BY <1>2, <1>4

LEMMA FillingFields ==
    ASSUME DirInv, NEW t \in Threads, NEW names, StartFilling(t, names)
    PROVE  /\ OthersStay(t) /\ SameCall(call[t], call'[t])
           /\ call'[t].step = "add" /\ call'[t].keep = names /\ call'[t].todo = names
<1> DEFINE x == [call[t] EXCEPT !.step = "add", !.keep = names, !.todo = names]
<1>1. IsCall(call[t]) /\ call = [u \in Threads |-> call[u]]
  BY ThreadFacts DEF CallOK, CallsOK
<1>2. SameCall(call[t], x) /\ x.step = "add" /\ x.keep = names /\ x.todo = names
  BY <1>1 DEF IsCall, SameCall
<1>3. call' = [call EXCEPT ![t] = x]
  BY DEF StartFilling
<1> HIDE DEF x
<1>4. call'[t] = x /\ OthersStay(t)
  BY <1>1, <1>3 DEF OthersStay
<1> QED
  BY <1>2, <1>4

LEMMA AnswerFields ==
    ASSUME DirInv, NEW t \in Threads, NEW res, NEW missed, NEW risen,
           AnswerSeeing(t, res, missed, risen)
    PROVE  OthersStay(t) /\ call'[t].step = "idle" /\ call'[t].dead = "no"
<1>1. call = [u \in Threads |-> call[u]]
  BY ThreadFacts DEF CallsOK
<1>2. call'[t] = NoCall /\ OthersStay(t)
  BY <1>1 DEF AnswerSeeing, OthersStay
<1> QED
  BY <1>2 DEF NoCall

\* The part of a step's flow that is of the calls it does not touch, and of
\* a call that ends.
Later == changes \in Nat /\ changes' \in Nat /\ changes' >= changes

LEMMA UntouchedFlow ==
    ASSUME DirInv, WorkInv, Later, NEW u \in Threads, call'[u] = call[u],
           call[u].step # "idle"
    PROVE  CallFlow(u)
<1>1. CallFits(call'[u], node, changes' > 0)
  BY DEF WorkInv, CallFits, Later
<1>2. Goes(u)
  BY DEF Goes
<1>3. KeepsFrom(u) /\ AddsFrom(u) /\ PrunesFrom(u) /\ DropsFrom(u)
  BY DEF KeepsFrom, AddsFrom, PrunesFrom, DropsFrom
<1> QED
  BY <1>1, <1>2, <1>3 DEF CallFlow

LEMMA IdleFlow ==
    ASSUME NEW u \in Threads, call'[u].step = "idle"
    PROVE  CallFlow(u)
BY DEF CallFlow, CallFits, KeepsFrom, AddsFrom, PrunesFrom, DropsFrom, HoldsNames

LEMMA OthersFlow ==
    ASSUME DirInv, WorkInv, Later, NEW t \in Threads, OthersStay(t), CallFlow(t)
    PROVE  \A u \in Threads : CallFlow(u)
<1>1. ASSUME NEW u \in Threads \ {t} PROVE CallFlow(u)
  BY <1>1, UntouchedFlow, IdleFlow DEF OthersStay
<1> QED
  BY <1>1

LEMMA DeadKept ==
    ASSUME NEW t \in Threads, OthersStay(t),
           call'[t].dead \in {"no", call[t].dead},
           call'[t].dead = "alone" => call'[t].step # "idle" /\ call'[t].dir = call[t].dir
                                      /\ call'[t].name = call[t].name,
           deleted \subseteq deleted'
    PROVE  DeadStays
<1>1. ASSUME NEW u \in Threads, call'[u].dead = "alone", DeadFrom(call[u], node, deleted)
      PROVE  DeadFrom(call'[u], node, deleted')
  <2>1. CASE u = t
    BY <1>1, <2>1 DEF DeadFrom, DeletedAlone
  <2>2. CASE u # t
    BY <1>1, <2>2 DEF DeadFrom, DeletedAlone, OthersStay
  <2> QED
    BY <2>1, <2>2
<1>2. \A u \in Threads : call'[u].dead = "alone" => call[u].dead = "alone"
  BY DEF OthersStay
<1> QED
  BY <1>1, <1>2 DEF DeadStays

-----------------------------------------------------------------------------
\* What the parts of a step leave alone.

LEMMA QuietTable ==
    ASSUME UNCHANGED tableVars
    PROVE  EntriesFrom /\ TableFrom
BY DEF tableVars, EntriesFrom, TableFrom, EntriesGrow, Entry

LEMMA QuietLists ==
    ASSUME listCache' = listCache \/ \E k : Forget(k)
    PROVE  ListsFrom
BY DEF ListsFrom, Forget

LEMMA QuietCluster ==
    ASSUME WorkInv, UNCHANGED <<cluster, changes, deleted, hidden>>
    PROVE  ClusterFrom /\ DeletedFrom /\ Later
BY DEF WorkInv, ClusterFrom, DeletedFrom, Later

LEMMA QuietResult ==
    ASSUME result' = NoResult
    PROVE  ResultFrom
BY DEF ResultFrom, NoResult

\* A step of one call that leaves table, cluster and history alone.
LEMMA LightStep ==
    ASSUME DirInv, WorkInv, NEW t \in Threads, OthersStay(t), CallFlow(t),
           UNCHANGED <<tableVars, cluster, changes, history>>,
           ListsFrom, ResultFrom, DeadStays
    PROVE  Flow
<1>1. ClusterFrom /\ DeletedFrom /\ Later
  BY QuietCluster DEF history
<1>2. EntriesFrom /\ TableFrom
  BY QuietTable
<1>3. \A u \in Threads : CallFlow(u)
  BY <1>1, OthersFlow
<1> QED
  BY <1>1, <1>2, <1>3 DEF Flow

\* A call that ends, or goes to a step for which it needs nothing new.
LEMMA AnswerFlow ==
    ASSUME DirInv, WorkInv, NEW t \in Threads, NEW res, Answer(t, res),
           UNCHANGED <<tableVars, cacheVars, changes, history>>
    PROVE  Flow
<1>1. OthersStay(t) /\ call'[t].step = "idle" /\ call'[t].dead = "no"
  BY AnswerFields DEF Answer
<1>2. CallFlow(t) /\ DeadStays
  BY <1>1, IdleFlow, DeadKept DEF history
<1>3. result'.missed = "no" /\ result'.risen = "no"
  BY DEF Answer, AnswerSeeing
<1> QED
  BY <1>1, <1>2, <1>3, LightStep, QuietLists DEF cacheVars, ResultFrom

\* A call that goes on with the same object in the same directory.
Onward(t) ==
    /\ OthersStay(t) /\ SameCall(call[t], call'[t])
    /\ call[t].step # "idle" /\ call'[t].step # "idle"
    /\ CallFits(call'[t], node, changes' > 0)
    /\ KeepsFrom(t) /\ AddsFrom(t) /\ PrunesFrom(t) /\ DropsFrom(t)

LEMMA OnwardFlow ==
    ASSUME NEW t \in Threads, Onward(t), deleted \subseteq deleted'
    PROVE  CallFlow(t) /\ DeadStays
<1>1. Goes(t) /\ CallFlow(t)
  BY DEF Onward, SameCall, Goes, CallFlow
<1> QED
  BY <1>1, DeadKept DEF Onward, SameCall

LEMMA OnwardStep ==
    ASSUME DirInv, WorkInv, NEW t \in Threads, Onward(t), ListsFrom, result' = NoResult,
           UNCHANGED <<tableVars, cluster, changes, history>>
    PROVE  Flow
BY OnwardFlow, LightStep, QuietResult DEF Onward, history

-----------------------------------------------------------------------------
\* One lemma per action.

LEMMA ListFlow ==
    ASSUME DirInv, WorkInv, NEW t \in Threads, List(t)
    PROVE  Flow
<1> DEFINE d == call[t].dir
<1>1. /\ d \in ID /\ IsDir(Type(d)) /\ call[t].step = "list"
      /\ UNCHANGED <<tableVars, cacheVars, changes, history>>
  BY ThreadFacts DEF List, At
<1>2. ASSUME NEW names, StartFilling(t, names),
             \/ Type(d) = "object" /\ names = StaticNames(d)
             \/ Type(d) # "object" /\ Key(d) \in DOMAIN listCache /\ names = listCache[Key(d)]
      PROVE  Flow
  <2>1. /\ OthersStay(t) /\ SameCall(call[t], call'[t])
        /\ call'[t].step = "add" /\ call'[t].keep = names /\ call'[t].todo = names
    BY <1>2, FillingFields
  <2>2. StaticNames(d) = StaticIn(node, d)
    BY DEF StaticNames, StaticIn, Name, Parent
  <2>3. Type(d) # "object" => Key(d) = KeyIn(node, d)
    BY <1>1, KeyIs
  <2>4. KeepsFrom(t)
    BY <1>2, <2>1, <2>2, <2>3 DEF KeepsFrom, Type
  <2>5. Onward(t)
    BY <1>1, <2>1, <2>4 DEF Onward, CallFits, AddsFrom, PrunesFrom, DropsFrom
  <2> QED
    BY <1>1, <1>2, <2>5, OnwardStep, QuietLists DEF StartFilling, GoesOn, cacheVars
<1>3. CASE Goto(t, "api") /\ Type(d) # "object"
  <2>1. /\ OthersStay(t) /\ SameCall(call[t], call'[t]) /\ call'[t].step = "api"
    BY <1>3, GotoFields
  <2>2. CallFits(call'[t], node, changes' > 0)
    BY <1>3, <2>1 DEF CallFits, SameCall, Type
  <2>3. Onward(t)
    BY <1>1, <2>1, <2>2 DEF Onward, KeepsFrom, AddsFrom, PrunesFrom, DropsFrom, HoldsNames
  <2> QED
    BY <1>1, <1>3, <2>3, OnwardStep, QuietLists DEF Goto, GoesOn, cacheVars
<1>4. CASE Type(d) = "object"
  BY <1>2, <1>4 DEF List
<1>5. CASE Type(d) # "object" /\ Key(d) \in DOMAIN listCache
  BY <1>2, <1>5 DEF List
<1>6. CASE Type(d) # "object" /\ Key(d) \notin DOMAIN listCache
  BY <1>3, <1>6 DEF List
<1> QED
  BY <1>4, <1>5, <1>6

LEMMA ApiAnswersFlow ==
    ASSUME DirInv, WorkInv, NEW t \in Threads, ApiAnswers(t)
    PROVE  Flow
<1> DEFINE d == call[t].dir
           names == cluster[Key(d)]
           x == [call[t] EXCEPT !.step = "fill", !.keep = names]
<1>1. /\ d \in ID /\ IsDir(Type(d)) /\ call[t].step = "api"
      /\ UNCHANGED <<tableVars, cacheVars, changes, history>>
      /\ IsCall(call[t]) /\ call = [u \in Threads |-> call[u]]
      /\ Key(d) \in DOMAIN cluster
  BY ThreadFacts DEF ApiAnswers, At, CallOK, CallsOK, Exists
<1>2. SameCall(call[t], x) /\ x.step = "fill" /\ x.keep = names
  BY <1>1 DEF IsCall, SameCall
<1>3. call' = [call EXCEPT ![t] = x]
  BY DEF ApiAnswers
<1>4. Type(d) # "object"
  BY <1>1 DEF WorkInv, CallFits, Type
<1>5. Key(d) = KeyIn(node, d)
  BY <1>1, <1>4, KeyIs
<1> HIDE DEF x, names
<1>6. call'[t] = x /\ OthersStay(t)
  BY <1>1, <1>3 DEF OthersStay
<1>7. KeepsFrom(t)
  BY <1>1, <1>2, <1>4, <1>5, <1>6 DEF KeepsFrom, Type, names
<1>8. CallFits(call'[t], node, changes' > 0)
  BY <1>2, <1>4, <1>6 DEF CallFits, SameCall, Type
<1>9. Onward(t)
  BY <1>1, <1>2, <1>6, <1>7, <1>8 DEF Onward, AddsFrom, PrunesFrom, DropsFrom
<1> QED
  BY <1>1, <1>9, OnwardStep, QuietLists DEF ApiAnswers, GoesOn, cacheVars

LEMMA FillCacheFlow ==
    ASSUME DirInv, WorkInv, NEW t \in Threads, FillCache(t)
    PROVE  Flow
<1> DEFINE d == call[t].dir
<1>1. /\ d \in ID /\ IsDir(Type(d)) /\ call[t].step = "fill"
      /\ UNCHANGED <<tableVars, cluster, changes, history>>
      /\ listCache' = [k \in DOMAIN listCache \cup {Key(d)} |->
                        IF k = Key(d) THEN call[t].keep ELSE listCache[k]]
  BY ThreadFacts DEF FillCache, At
<1>2. Type(d) # "object"
  BY <1>1 DEF WorkInv, CallFits, Type
<1>3. Key(d) = KeyIn(node, d)
  BY <1>1, <1>2, KeyIs
<1>4. ListsFrom
  BY <1>1, <1>3 DEF ListsFrom
<1>5. /\ OthersStay(t) /\ SameCall(call[t], call'[t]) /\ call'[t].step = "add"
      /\ call'[t].keep = call[t].keep /\ call'[t].todo = call[t].keep
  BY FillingFields DEF FillCache
<1>6. Onward(t)
  BY <1>1, <1>5 DEF Onward, CallFits, KeepsFrom, AddsFrom, PrunesFrom, DropsFrom, HoldsNames
<1> QED
  BY <1>1, <1>4, <1>6, OnwardStep DEF FillCache, StartFilling, GoesOn

LEMMA InvalidateFlow ==
    ASSUME DirInv, WorkInv, NEW t \in Threads, InvalidateData(t) \/ InvalidateList(t)
    PROVE  Flow
<1> DEFINE d == call[t].dir
           s == IF InvalidateData(t) THEN "invlist" ELSE "unindex"
<1>1. /\ d \in ID /\ IsDir(Type(d)) /\ call[t].step \in {"invdata", "invlist"}
      /\ UNCHANGED <<tableVars, cluster, changes, history>>
      /\ Goto(t, s) /\ s \in {"invlist", "unindex"}
      /\ \E k : Forget(k)
      /\ s = "unindex" => Forget(Key(d))
  BY ThreadFacts DEF InvalidateData, InvalidateList, At
<1> HIDE DEF s
<1>2. call[t].op = "rmdir" /\ Type(d) = "resourceType" /\ changes > 0
  BY <1>1 DEF WorkInv, CallFits, Type
<1>3. OthersStay(t) /\ SameCall(call[t], call'[t]) /\ call'[t].step = s
  BY <1>1, GotoFields
<1>4. CallFits(call'[t], node, changes' > 0)
  BY <1>1, <1>2, <1>3 DEF CallFits, SameCall, Type
<1>5. DropsFrom(t)
  <2>1. Key(d) = KeyIn(node, d)
    BY <1>1, <1>2, KeyIs
  <2> QED
    BY <1>1, <1>3, <2>1 DEF DropsFrom, Forget
<1>6. Onward(t)
  BY <1>1, <1>3, <1>4, <1>5 DEF Onward, KeepsFrom, AddsFrom, PrunesFrom, HoldsNames
<1> QED
  BY <1>1, <1>6, OnwardStep, QuietLists DEF Goto, GoesOn

LEMMA CheckParentFlow ==
    ASSUME DirInv, WorkInv, NEW t \in Threads, CheckParent(t)
    PROVE  Flow
<1>1. call[t].step = "parent" /\ call[t].op = "unlink"
  BY DEF CheckParent, At, WorkInv, CallFits
<1>2. CASE Goto(t, "unindex") /\ Type(call[t].dir) = "resourceType"
  <2>1. OthersStay(t) /\ SameCall(call[t], call'[t]) /\ call'[t].step = "unindex"
    BY <1>2, GotoFields
  <2>2. CallFits(call'[t], node, changes' > 0)
    BY <1>1, <1>2, <2>1 DEF CallFits, SameCall, Type
  <2>3. Onward(t)
    BY <1>1, <2>1, <2>2 DEF Onward, KeepsFrom, AddsFrom, PrunesFrom, DropsFrom, HoldsNames,
                            SameCall
  <2> QED
    BY <1>2, <2>3, OnwardStep, QuietLists DEF CheckParent, Goto, GoesOn, cacheVars
<1>3. CASE Answer(t, "EPERM")
  BY <1>3, AnswerFlow DEF CheckParent
<1> QED
  BY <1>2, <1>3 DEF CheckParent

LEMMA ReadFlow ==
    ASSUME DirInv, WorkInv, NEW t \in Threads, Read(t)
    PROVE  Flow
<1>1. \E res, missed, risen : AnswerSeeing(t, res, missed, risen)
  <2>1. CASE call[t].op = "lookup"
    BY <2>1 DEF Read
  <2>2. CASE call[t].op # "lookup"
    BY <2>2 DEF Read
  <2> QED
    BY <2>1, <2>2
<1>2. OthersStay(t) /\ call'[t].step = "idle" /\ call'[t].dead = "no"
  BY <1>1, AnswerFields
<1>3. CallFlow(t) /\ DeadStays
  BY <1>2, IdleFlow, DeadKept DEF history, Read
<1> QED
  BY <1>2, <1>3, LightStep, QuietLists DEF cacheVars, ResultFrom, Read

LEMMA BeginFlow ==
    ASSUME DirInv, WorkInv, NEW t \in Threads, NEW op, NEW d, NEW n,
           NEW s \in {"list", "delete", "parent", "addfile"}, Begin(t, op, d, n, s),
           s = "delete" => op = "rmdir" /\ Type(d) = "resourceType",
           s = "parent" => op = "unlink"
    PROVE  Flow
<1> DEFINE how == DeletedHow(d, n)
           q == \A v \in Threads \ {t} : At(v, "idle")
           y == [NoCall EXCEPT !.op = op, !.step = s, !.dir = d, !.name = n,
                               !.dead = how, !.alone = q]
           x(u) == IF u # t THEN [call[u] EXCEPT !.alone = FALSE] ELSE y
<1>1. /\ call' = [u \in Threads |-> x(u)] /\ call[t].step = "idle"
      /\ UNCHANGED <<tableVars, cacheVars, changes, history>>
      /\ d \in ID /\ IsDir(Type(d))
  BY DEF Begin, At
<1>2. /\ y.op = op /\ y.step = s /\ y.dir = d /\ y.name = n /\ y.dead = how /\ y.alone = q
  <2> HIDE DEF how, q
  <2> QED
    BY DEF NoCall
<1> HIDE DEF y
<1>3. ASSUME NEW u \in Threads \ {t}
      PROVE  /\ call'[u].op = call[u].op /\ call'[u].step = call[u].step
             /\ call'[u].dir = call[u].dir /\ call'[u].name = call[u].name
             /\ call'[u].keep = call[u].keep /\ call'[u].todo = call[u].todo
             /\ call'[u].dead = call[u].dead /\ ~ call'[u].alone
  <2>1. IsCall(call[u])
    BY ThreadFacts DEF CallOK
  <2>2. call'[u] = [call[u] EXCEPT !.alone = FALSE]
    BY <1>1
  <2> QED
    BY <2>1, <2>2 DEF IsCall
<1>4. call'[t] = y
  BY <1>1
<1>5. CallFlow(t)
  <2>1. Begun(t)
    BY <1>1, <1>2, <1>3, <1>4 DEF Begun, At
  <2>2. CallFits(call'[t], node, changes' > 0)
    BY <1>2, <1>4 DEF CallFits, Type
  <2> QED
    BY <1>2, <1>4, <2>1, <2>2
       DEF CallFlow, KeepsFrom, AddsFrom, PrunesFrom, DropsFrom, HoldsNames
<1>6. ASSUME NEW u \in Threads \ {t}, call[u].step # "idle" PROVE CallFlow(u)
  <2>1. CallFits(call'[u], node, changes' > 0)
    BY <1>1, <1>3 DEF WorkInv, CallFits
  <2>2. Goes(u)
    BY <1>3, <1>6 DEF Goes
  <2>3. KeepsFrom(u) /\ AddsFrom(u) /\ PrunesFrom(u) /\ DropsFrom(u)
    BY <1>3 DEF KeepsFrom, AddsFrom, PrunesFrom, DropsFrom
  <2> QED
    BY <2>1, <2>2, <2>3 DEF CallFlow
<1>7. ASSUME NEW u \in Threads PROVE CallFlow(u)
  BY <1>3, <1>5, <1>6, IdleFlow
<1>8. DeadStays
  <2>1. call'[t].dead = "alone" => DeadFrom(call'[t], node, deleted')
    <3> SUFFICES ASSUME how = "alone" PROVE DeadFrom(y, node, deleted)
      BY <1>1, <1>2, <1>4 DEF history
    <3>1. /\ Type(d) = "resourceType"
          /\ \E z \in deleted : z[1] = Key(d) /\ z[2] = n /\ z[3] = "alone"
      BY DEF DeletedHow
    <3>2. Key(d) = KeyIn(node, d)
      BY <1>1, <3>1, KeyIs
    <3> QED
      BY <1>2, <3>1, <3>2 DEF DeadFrom, DeletedAlone, Type
  <2>2. ASSUME NEW u \in Threads \ {t}, call'[u].dead = "alone",
               DeadFrom(call[u], node, deleted)
        PROVE  DeadFrom(call'[u], node, deleted')
    BY <1>1, <1>3, <2>2 DEF DeadFrom, history
  <2>3. \A u \in Threads \ {t} : call'[u].dead = call[u].dead
    BY <1>3
  <2> QED
    BY <2>1, <2>2, <2>3 DEF DeadStays
<1>9. result' = NoResult
  BY DEF Begin
<1> QED
  BY <1>1, <1>7, <1>8, <1>9, QuietTable, QuietLists, QuietCluster, QuietResult
     DEF Flow, cacheVars, history

LEMMA BeginsFlow ==
    ASSUME DirInv, WorkInv, NEW t \in Threads, Begins(t)
    PROVE  Flow
<1>1. ASSUME NEW d \in ID, NEW op, NEW n, BeginWalk(t, op, d, n) PROVE Flow
  BY <1>1, BeginFlow DEF BeginWalk
<1>2. ASSUME NEW d \in ID, NEW n \in Names, BeginRemove(t, "rmdir", d, n) PROVE Flow
  <2> DEFINE c == LookupChild(d, n)
  <2>1. /\ Begin(t, "rmdir", d, n, "delete") /\ c # NoID /\ Type(c) = "object"
        /\ IsDir(Type(d))
    BY <1>2 DEF BeginRemove, Begin
  <2>2. d \in DOMAIN childIndex /\ c = childIndex[d][n]
    BY <2>1 DEF LookupChild, Children, EmptyDir
  <2>3. c \in ID \ {RootInodeID} /\ node[c].parent = d
    BY <2>1, <2>2, EntryFacts DEF DirInv
  <2>4. "object" \in ChildTypes(Type(d))
    BY <2>1, <2>3 DEF WorkInv, HeapFits, Type
  <2>5. Type(d) = "resourceType"
    BY <2>4 DEF ChildTypes
  <2> QED
    BY <2>1, <2>5, BeginFlow
<1>3. ASSUME NEW d \in ID, NEW n \in Names, BeginRemove(t, "unlink", d, n) PROVE Flow
  BY <1>3, BeginFlow DEF BeginRemove
<1>4. ASSUME NEW d \in ID, NEW n \in Names, BeginCreate(t, d, n) PROVE Flow
  BY <1>4, BeginFlow DEF BeginCreate
<1> QED
  BY <1>1, <1>2, <1>3, <1>4 DEF Begins

\* AddChild leaves the entries it finds, and adds one of the type it is given.
LEMMA AddedEntry ==
    ASSUME DirInv, NEW p \in ID, NEW n \in Names, NEW type \in NodeType \ {"root"},
           AddChild(p, n, type)
    PROVE  /\ EntriesGrow /\ Entry(childIndex', p, n) # NoID
           /\ \A q \in DOMAIN childIndex', m \in Names : childIndex'[q][m] # NoID =>
                 \/ childIndex'[q][m] = Entry(childIndex, q, m)
                 \/ q = p /\ m = n /\ node'[childIndex'[q][m]].type = type
<1>1. TableTypeOK
  BY DEF DirInv, TableInv
<1>2. Children(p) \in [Names -> ID \cup {NoID}]
  BY <1>1, ChildrenType
<1>3. CASE Children(p)[n] # NoID
  <2>1. UNCHANGED tableVars
    BY <1>3 DEF AddChild
  <2>2. Entry(childIndex, p, n) # NoID
    BY <1>3 DEF Children, EmptyDir, Entry
  <2> QED
    BY <2>1, <2>2 DEF tableVars, EntriesGrow, Entry
<1>4. CASE Children(p)[n] = NoID
  <2>1. Allots(p, n, type)
    BY <1>4 DEF Allots
  <2>2. /\ nextID \notin ID /\ nextID # NoID /\ p # nextID
        /\ node'[nextID] = NewInode(p, n, type)
        /\ DOMAIN childIndex' = DOMAIN childIndex \cup {p}
                                   \cup (IF IsDir(type) THEN {nextID} ELSE {})
        /\ IsDir(type) => childIndex'[nextID] = EmptyDir
        /\ childIndex'[p] = [Children(p) EXCEPT ![n] = nextID]
        /\ \A i \in DOMAIN childIndex \ {p} : childIndex'[i] = childIndex[i]
    BY <1>1, <2>1, AllotsFacts
  <2>3. \A m : Entry(childIndex, p, m) # NoID => Entry(childIndex', p, m) # NoID
    <3> SUFFICES ASSUME NEW m, Entry(childIndex, p, m) # NoID
                 PROVE  Entry(childIndex', p, m) # NoID
      OBVIOUS
    <3>1. p \in DOMAIN childIndex /\ Children(p) = childIndex[p]
      BY DEF Entry, Children
    <3>2. childIndex'[p][m] # NoID
      <4>1. CASE m = n
        BY <1>2, <2>2, <4>1
      <4>2. CASE m # n
        BY <1>2, <2>2, <3>1, <4>2 DEF Entry
      <4> QED
        BY <4>1, <4>2
    <3> QED
      BY <2>2, <3>2 DEF Entry
  <2>4. EntriesGrow
    BY <2>2, <2>3 DEF EntriesGrow, Entry
  <2>5. Entry(childIndex', p, n) # NoID
    BY <1>2, <2>2 DEF Entry
  <2>6. ASSUME NEW q \in DOMAIN childIndex', NEW m \in Names, childIndex'[q][m] # NoID
        PROVE  \/ childIndex'[q][m] = Entry(childIndex, q, m)
               \/ q = p /\ m = n /\ node'[childIndex'[q][m]].type = type
    <3>1. CASE q = p
      <4>1. CASE m = n
        BY <1>2, <2>2, <3>1, <4>1 DEF NewInode
      <4>2. CASE m # n
        <5>1. childIndex'[p][m] = Children(p)[m]
          BY <1>2, <2>2, <4>2
        <5> QED
          BY <2>6, <3>1, <5>1 DEF Children, EmptyDir, Entry
      <4> QED
        BY <4>1, <4>2
    <3>2. CASE q # p
      BY <2>2, <2>6, <3>2 DEF EmptyDir, Entry
    <3> QED
      BY <3>1, <3>2
  <2> QED
    BY <2>4, <2>5, <2>6
<1> QED
  BY <1>3, <1>4

LEMMA AddNextFlow ==
    ASSUME DirInv, WorkInv, NEW t \in Threads, AddNext(t)
    PROVE  Flow
<1> DEFINE d == call[t].dir
<1>1. /\ d \in ID /\ IsDir(Type(d)) /\ call[t].step = "add"
      /\ call[t].todo \subseteq call[t].keep /\ call[t].keep \subseteq Names
      /\ UNCHANGED <<cacheVars, changes, history>> /\ result' = NoResult
      /\ IsCall(call[t]) /\ call = [u \in Threads |-> call[u]]
  BY ThreadFacts DEF AddNext, At, CallOK, CallsOK, GoesOn
<1>2. PICK n \in call[t].todo : /\ AddChild(d, n, ListedType(d, n))
                                /\ call' = [call EXCEPT ![t].todo = @ \ {n}]
  BY DEF AddNext
<1> DEFINE x == [call[t] EXCEPT !.todo = @ \ {n}]
<1>3. /\ SameCall(call[t], x) /\ x.step = "add" /\ x.keep = call[t].keep
      /\ x.todo = call[t].todo \ {n}
  BY <1>1 DEF IsCall, SameCall
<1>4. call' = [call EXCEPT ![t] = x]
  BY <1>2
<1> HIDE DEF x
<1>5. call'[t] = x /\ OthersStay(t)
  BY <1>1, <1>4 DEF OthersStay
<1>6. ListedType(d, n) \in NodeType \ {"root"}
  BY <1>1, ListedTypeFacts, ChildTypesAreTypes, NodeTypes DEF DirInv, TableInv
<1>7. /\ EntriesGrow /\ Entry(childIndex', d, n) # NoID
      /\ \A q \in DOMAIN childIndex', m \in Names : childIndex'[q][m] # NoID =>
                 \/ childIndex'[q][m] = Entry(childIndex, q, m)
                 \/ q = d /\ m = n
  BY <1>1, <1>2, <1>6, AddedEntry
<1>8. EntriesFrom
  BY <1>1, <1>2, <1>7 DEF EntriesFrom
<1>9. AddsFrom(t)
  BY <1>1, <1>3, <1>5, <1>7 DEF AddsFrom
<1>10. Onward(t)
  BY <1>1, <1>3, <1>5, <1>9 DEF Onward, CallFits, KeepsFrom, PrunesFrom, DropsFrom,
                                HoldsNames
<1>11. ClusterFrom /\ DeletedFrom /\ Later
  BY <1>1, QuietCluster DEF cacheVars, history
<1>12. CallFlow(t) /\ DeadStays
  BY <1>1, <1>10, OnwardFlow DEF history
<1>13. \A u \in Threads : CallFlow(u)
  BY <1>5, <1>11, <1>12, OthersFlow
<1>14. ListsFrom /\ ResultFrom
  BY <1>1, QuietLists, QuietResult DEF cacheVars
<1> QED
  BY <1>7, <1>8, <1>11, <1>12, <1>13, <1>14 DEF Flow, TableFrom

LEMMA AddFileFlow ==
    ASSUME DirInv, WorkInv, NEW t \in Threads, AddFile(t)
    PROVE  Flow
<1>1. /\ UNCHANGED <<cacheVars, changes, history>> /\ Answer(t, "ok")
      /\ AddChild(call[t].dir, call[t].name, "file")
      /\ call[t].dir \in ID /\ call[t].name \in Names
  BY NameFacts, ThreadFacts DEF AddFile, At
<1>2. EntriesGrow /\ EntriesFrom
  <2>1. "file" \in NodeType \ {"root"}
    BY DEF NodeType
  <2> QED
    BY <1>1, <2>1, AddedEntry DEF EntriesFrom
<1>3. OthersStay(t) /\ call'[t].step = "idle" /\ call'[t].dead = "no"
  BY <1>1, AnswerFields DEF Answer
<1>4. ClusterFrom /\ DeletedFrom /\ Later
  BY <1>1, QuietCluster DEF cacheVars, history
<1>5. DeadStays /\ \A u \in Threads : CallFlow(u)
  BY <1>1, <1>3, <1>4, IdleFlow, DeadKept, OthersFlow DEF history
<1>6. ListsFrom /\ ResultFrom
  BY <1>1, QuietLists DEF cacheVars, Answer, AnswerSeeing, ResultFrom
<1> QED
  BY <1>2, <1>4, <1>5, <1>6 DEF Flow, TableFrom

\* RemoveNames clears entries of its directory, and the entry maps it takes
\* are of directories below that.
LEMMA RemovedEntries ==
    ASSUME DirInv, NEW p \in ID, NEW gone \in SUBSET Names, RemoveNames(p, gone)
    PROVE  /\ \A n \in gone : Entry(childIndex', p, n) = NoID
           /\ \A n \in Names \ gone : Entry(childIndex', p, n) = Entry(childIndex, p, n)
           /\ \A q \in DOMAIN childIndex', n \in Names :
                 childIndex'[q][n] # NoID => childIndex'[q][n] = Entry(childIndex, q, n)
           /\ \A q \in DOMAIN childIndex' \ {p} : childIndex'[q] = childIndex[q]
           /\ \A q \in DOMAIN childIndex \ (DOMAIN childIndex' \cup {p}) :
                 \E m \in gone : /\ p \in DOMAIN childIndex /\ childIndex[p][m] # NoID
                                 /\ IsDir(node[childIndex[p][m]].type)
<1> DEFINE doomed == {Children(p)[n] : n \in gone} \ {NoID}
           R      == RemoveSubtree(doomed)
<1>1. /\ doomed \in SUBSET inodes /\ RootInodeID \notin doomed
      /\ \A c \in doomed : p \in DOMAIN childIndex
  BY DoomedAreListed DEF DirInv
<1>2. /\ inodes' = inodes \ R /\ node' = node
      /\ childIndex' =
             [i \in DOMAIN childIndex \ R |->
                IF i = p
                THEN [n \in Names |-> IF n \in gone THEN NoID
                                                    ELSE childIndex[p][n]]
                ELSE childIndex[i]]
  BY DEF RemoveNames
<1>3. \A x \in R : x \in inodes /\ \A T \in SUBSET inodes :
          doomed \subseteq T /\ ClosedBelow(T) => x \in T
  BY <1>1 DEF RemoveSubtree
<1>4. DOMAIN childIndex \subseteq ID /\ ID \subseteq Nat /\ inodes \subseteq ID
  BY IDFacts DEF DirInv, TableInv, TableTypeOK
<1>5. p \notin R
  <2> DEFINE T == {x \in inodes : x > p}
  <2>1. ClosedBelow(T)
    <3> SUFFICES ASSUME NEW q \in T \cap DOMAIN childIndex, NEW n \in Names,
                        childIndex[q][n] # NoID
                 PROVE  childIndex[q][n] \in T
      BY DEF ClosedBelow
    <3> DEFINE c == childIndex[q][n]
    <3>1. c \in inodes /\ c > q
      BY EntryFacts DEF DirInv
    <3>2. c \in Nat /\ q \in Nat /\ p \in Nat /\ q > p
      BY <1>4, <3>1
    <3> HIDE DEF c
    <3>3. c > p
      BY <3>1, <3>2
    <3> QED
      BY <3>1, <3>3 DEF c
  <2>2. doomed \subseteq T
    <3> SUFFICES ASSUME NEW n \in gone, Children(p)[n] # NoID PROVE Children(p)[n] \in T
      OBVIOUS
    <3>1. p \in DOMAIN childIndex /\ Children(p)[n] = childIndex[p][n]
      BY DEF Children, EmptyDir
    <3> QED
      BY <3>1, EntryFacts DEF DirInv
  <2>3. p \notin T
    BY <1>4
  <2> HIDE DEF T, doomed, R
  <2>4. T \in SUBSET inodes
    BY DEF T
  <2> QED
    BY <1>3, <2>1, <2>2, <2>3, <2>4
<1>6. ASSUME NEW q \in DOMAIN childIndex \ (DOMAIN childIndex' \cup {p})
      PROVE  \E m \in gone : /\ p \in DOMAIN childIndex /\ childIndex[p][m] # NoID
                             /\ IsDir(node[childIndex[p][m]].type)
  <2>1. q \in R
    BY <1>2
  <2> SUFFICES ASSUME \A c \in doomed : ~ IsDir(node[c].type) PROVE FALSE
    <3> SUFFICES ASSUME NEW m \in gone, Children(p)[m] # NoID, IsDir(node[Children(p)[m]].type)
                 PROVE  p \in DOMAIN childIndex /\ childIndex[p][m] # NoID
                        /\ IsDir(node[childIndex[p][m]].type)
      OBVIOUS
    <3> QED
      BY DEF Children, EmptyDir
  <2>2. \A d \in DOMAIN childIndex : IsDir(node[d].type)
    BY DEF DirInv, TableInv, IndexConsistent, DirsAreIndexed
  <2> HIDE DEF doomed, R
  <2>3. ClosedBelow(doomed)
    BY <2>2 DEF ClosedBelow
  <2>4. q \in doomed
    BY <1>1, <1>3, <2>1, <2>3
  <2> QED
    BY <2>2, <2>4
<1> HIDE DEF R, doomed
<1>7. \A n \in gone : Entry(childIndex', p, n) = NoID
  BY <1>2 DEF Entry
<1>8. \A n \in Names \ gone : Entry(childIndex', p, n) = Entry(childIndex, p, n)
  BY <1>2, <1>5 DEF Entry
<1>9. \A q \in DOMAIN childIndex', n \in Names :
          childIndex'[q][n] # NoID => childIndex'[q][n] = Entry(childIndex, q, n)
  BY <1>2 DEF Entry
<1>10. \A q \in DOMAIN childIndex' \ {p} : childIndex'[q] = childIndex[q]
  BY <1>2
<1> QED
  BY <1>6, <1>7, <1>8, <1>9, <1>10

LEMMA PruneFlow ==
    ASSUME DirInv, WorkInv, NEW t \in Threads, Prune(t)
    PROVE  Flow
<1> DEFINE d == call[t].dir
           gone == Names \ call[t].keep
<1>1. /\ d \in ID /\ call[t].step = "add" /\ call[t].todo = {}
      /\ RemoveNames(d, gone) /\ Goto(t, "read")
      /\ UNCHANGED <<cacheVars, changes, deleted, hidden>> /\ result' = NoResult
  BY ThreadFacts DEF Prune, At, RemoveChildren, Goto, GoesOn
<1>2. /\ OthersStay(t) /\ SameCall(call[t], call'[t])
      /\ call'[t].step = "read"
      /\ call'[t].keep = call[t].keep /\ call'[t].todo = call[t].todo
  BY <1>1, GotoFields
<1> HIDE DEF gone
<1>3. /\ \A n \in gone : Entry(childIndex', d, n) = NoID
      /\ \A q \in DOMAIN childIndex', n \in Names :
            childIndex'[q][n] # NoID => childIndex'[q][n] = Entry(childIndex, q, n)
  BY <1>1, RemovedEntries DEF gone
<1>4. EntriesFrom
  BY <1>3 DEF EntriesFrom
<1>5. PrunesFrom(t)
  BY <1>1, <1>3 DEF PrunesFrom, gone
<1>6. Onward(t)
  BY <1>1, <1>2, <1>5 DEF Onward, CallFits, KeepsFrom, AddsFrom, DropsFrom, HoldsNames
<1>7. ClusterFrom /\ DeletedFrom /\ Later
  BY <1>1, QuietCluster DEF cacheVars
<1>8. CallFlow(t) /\ DeadStays
  BY <1>1, <1>6, OnwardFlow
<1>9. \A u \in Threads : CallFlow(u)
  BY <1>2, <1>7, <1>8, OthersFlow
<1>10. ListsFrom /\ ResultFrom
  BY <1>1, QuietLists, QuietResult DEF cacheVars
<1> QED
  BY <1>4, <1>7, <1>8, <1>9, <1>10 DEF Flow, TableFrom

LEMMA ApiDeletesFlow ==
    ASSUME DirInv, WorkInv, NEW t \in Threads, ApiDeletes(t)
    PROVE  Flow
<1> DEFINE k == Key(call[t].dir)
           n == call[t].name
<1>1. /\ call[t].step = "delete" /\ Goto(t, "invdata") /\ result' = NoResult
      /\ cluster' = [cluster EXCEPT ![k] = @ \ {n}] /\ changes' = changes + 1
      /\ UNCHANGED <<tableVars, listCache, history>>
  BY DEF ApiDeletes, At, Goto, GoesOn
<1>2. OthersStay(t) /\ SameCall(call[t], call'[t]) /\ call'[t].step = "invdata"
  BY <1>1, GotoFields
<1> HIDE DEF k, n
<1>3. Later /\ changes' > 0
  BY <1>1 DEF WorkInv, Later
<1>4. ClusterFrom
  <2>1. \A j \in DOMAIN cluster' : j \in DOMAIN cluster /\ cluster'[j] \subseteq cluster[j]
    BY <1>1
  <2> QED
    BY <1>1, <1>3, <2>1 DEF ClusterFrom, Later, WorkInv, history
<1>5. Onward(t)
  <2>1. CallFits(call'[t], node, changes' > 0)
    BY <1>1, <1>2, <1>3 DEF WorkInv, CallFits, SameCall
  <2> QED
    BY <1>1, <1>2, <2>1 DEF Onward, KeepsFrom, AddsFrom, PrunesFrom, DropsFrom, HoldsNames
<1>6. DeletedFrom
  BY <1>1 DEF DeletedFrom, history
<1>7. CallFlow(t) /\ DeadStays
  BY <1>1, <1>5, OnwardFlow DEF history
<1>8. \A u \in Threads : CallFlow(u)
  BY <1>2, <1>3, <1>7, OthersFlow
<1> QED
  BY <1>1, <1>4, <1>6, <1>7, <1>8, QuietTable, QuietLists, QuietResult DEF Flow

LEMMA UnindexFlow ==
    ASSUME DirInv, WorkInv, NEW t \in Threads, Unindex(t)
    PROVE  Flow
<1> DEFINE d == call[t].dir
           n == call[t].name
           x == <<Key(d), n, Ran(t)>>
<1>1. /\ d \in ID /\ IsDir(Type(d)) /\ n \in Names /\ call[t].step = "unindex"
      /\ RemoveNames(d, {n}) /\ Answer(t, "ok")
      /\ UNCHANGED <<cacheVars, changes>>
      /\ deleted' = IF call[t].op = "rmdir" /\ n \notin cluster[Key(d)]
                    THEN deleted \cup {x} ELSE deleted
      /\ hidden => hidden'
  BY NameFacts, ThreadFacts DEF Unindex, At, RemoveChild
<1>2. OthersStay(t) /\ call'[t].step = "idle" /\ call'[t].dead = "no"
  BY <1>1, AnswerFields DEF Answer
<1>3. Key(d) = KeyIn(node, d)
  BY <1>1, KeyIs DEF WorkInv, CallFits, Type
<1>4. EntriesFrom
  BY <1>1, RemovedEntries DEF EntriesFrom
<1>5. deleted \subseteq deleted' /\ Later
  BY <1>1 DEF Later, WorkInv
<1>6. ClusterFrom
  BY <1>1, <1>5 DEF ClusterFrom, cacheVars, Later
<1>7. DeletedFrom
  <2> SUFFICES ASSUME NEW z \in deleted' \ deleted PROVE Deletes(t, z)
    BY DEF DeletedFrom
  <2>1. z = x /\ call[t].op = "rmdir" /\ n \notin cluster[Key(d)]
    BY <1>1
  <2>2. z[1] = Key(d) /\ z[2] = n /\ z[3] = Ran(t)
    BY <2>1
  <2> HIDE DEF x
  <2>3. Ran(t) = "alone" => call[t].alone
    BY DEF Ran
  <2> QED
    BY <1>1, <1>2, <1>3, <2>1, <2>2, <2>3 DEF Deletes, cacheVars, OthersStay
<1>8. DeadStays /\ \A u \in Threads : CallFlow(u)
  BY <1>2, <1>5, IdleFlow, DeadKept, OthersFlow
<1>9. ListsFrom /\ ResultFrom
  BY <1>1, QuietLists DEF cacheVars, Answer, AnswerSeeing, ResultFrom
<1> QED
  BY <1>4, <1>6, <1>7, <1>8, <1>9 DEF Flow, TableFrom

LEMMA ClusterChangeFlow ==
    ASSUME DirInv, WorkInv, ClusterChange
    PROVE  Flow
<1>0. PICK k \in DOMAIN Universe : \E n \in Universe[k] :
          /\ cluster' = [j \in DOMAIN cluster |->
                CASE j = k /\ n \in cluster[k] -> cluster[k] \ {n}
                  [] j = k /\ n \notin cluster[k] -> cluster[k] \cup {n}
                  [] j # k /\ k[1] = "namespaces" /\ j[1] = "list" /\ j[2] = n
                                  -> {}
                  [] OTHER        -> cluster[j]]
          /\ deleted' = {x \in deleted : <<x[1], x[2]>> # <<k, n>>}
          /\ call' = [t \in Threads |->
                IF call[t].dead # "no" /\ Key(call[t].dir) = k /\ call[t].name = n
                THEN [call[t] EXCEPT !.dead = "no"] ELSE call[t]]
  BY DEF ClusterChange
<1>1. PICK n \in Universe[k] :
          /\ cluster' = [j \in DOMAIN cluster |->
                CASE j = k /\ n \in cluster[k] -> cluster[k] \ {n}
                  [] j = k /\ n \notin cluster[k] -> cluster[k] \cup {n}
                  [] j # k /\ k[1] = "namespaces" /\ j[1] = "list" /\ j[2] = n
                                  -> {}
                  [] OTHER        -> cluster[j]]
          /\ deleted' = {x \in deleted : <<x[1], x[2]>> # <<k, n>>}
          /\ call' = [t \in Threads |->
                IF call[t].dead # "no" /\ Key(call[t].dir) = k /\ call[t].name = n
                THEN [call[t] EXCEPT !.dead = "no"] ELSE call[t]]
  BY <1>0
<1>2. /\ UNCHANGED <<tableVars, listCache, hidden>> /\ result' = NoResult
      /\ changes' = changes + 1 /\ Later
  BY DEF ClusterChange, Later, WorkInv
<1>3. ClusterFrom
  <2>1. ASSUME NEW j \in DOMAIN cluster', NEW m \in cluster'[j]
        PROVE  \/ j \in DOMAIN cluster /\ m \in cluster[j]
               \/ ~ \E x \in deleted' : x[1] = j /\ x[2] = m
    <3>1. j \in DOMAIN cluster
      BY <1>1
    <3>2. CASE j = k /\ m = n
      BY <1>1, <3>2
    <3>3. CASE j = k /\ m # n
      BY <1>1, <3>1, <3>3
    <3>4. CASE j # k
      BY <1>1, <3>1, <3>4
    <3> QED
      BY <3>2, <3>3, <3>4
  <2> QED
    BY <1>2, <2>1 DEF ClusterFrom, Later
<1>4. DeletedFrom
  BY <1>1 DEF DeletedFrom
<1>5. ASSUME NEW u \in Threads, call[u].step # "idle" PROVE CallFlow(u)
  <2>1. /\ call'[u].op = call[u].op /\ call'[u].step = call[u].step
        /\ call'[u].dir = call[u].dir /\ call'[u].name = call[u].name
        /\ call'[u].keep = call[u].keep /\ call'[u].todo = call[u].todo
        /\ call'[u].alone = call[u].alone /\ call'[u].dead \in {"no", call[u].dead}
    BY ClusterChangeCalls
  <2>2. CallFits(call'[u], node, changes' > 0)
    BY <1>2, <2>1 DEF WorkInv, CallFits
  <2>3. Goes(u)
    BY <1>5, <2>1 DEF Goes
  <2>4. KeepsFrom(u) /\ AddsFrom(u) /\ PrunesFrom(u) /\ DropsFrom(u)
    BY <2>1 DEF KeepsFrom, AddsFrom, PrunesFrom, DropsFrom
  <2> QED
    BY <2>2, <2>3, <2>4 DEF CallFlow
<1>6. \A u \in Threads : CallFlow(u)
  BY <1>5, ClusterChangeCalls, IdleFlow
<1>7. DeadStays
  <2> SUFFICES ASSUME NEW u \in Threads, call'[u].dead = "alone",
                      call[u].dead = "alone" => DeadFrom(call[u], node, deleted)
               PROVE  DeadFrom(call'[u], node, deleted')
    BY DEF DeadStays
  <2>1. /\ call'[u].step = call[u].step /\ call'[u].dir = call[u].dir
        /\ call'[u].name = call[u].name /\ call[u].dead = "alone"
    BY ClusterChangeCalls
  <2>2. DeadFrom(call[u], node, deleted)
    BY <2>1
  <2>3. call[u].dir \in ID /\ IsDir(Type(call[u].dir)) /\ Type(call[u].dir) = "resourceType"
    BY <2>2, ThreadFacts DEF DeadFrom, At, Type
  <2>4. Key(call[u].dir) = KeyIn(node, call[u].dir)
    BY <2>3, KeyIs
  <2>5. ~ (Key(call[u].dir) = k /\ call[u].name = n)
    <3> SUFFICES ASSUME Key(call[u].dir) = k /\ call[u].name = n PROVE FALSE
      OBVIOUS
    <3>1. call'[u] = [call[u] EXCEPT !.dead = "no"]
      BY <1>1, <2>1
    <3>2. IsCall(call[u])
      BY ThreadFacts DEF CallOK
    <3> QED
      BY <3>1, <3>2 DEF IsCall
  <2>6. PICK x \in deleted : x[1] = KeyIn(node, call[u].dir) /\ x[2] = call[u].name
                             /\ x[3] = "alone"
    BY <2>2 DEF DeadFrom, DeletedAlone
  <2>7. x \in deleted'
    BY <1>1, <2>4, <2>5, <2>6
  <2> QED
    BY <2>1, <2>2, <2>6, <2>7 DEF DeadFrom, DeletedAlone
<1> QED
  BY <1>2, <1>3, <1>4, <1>6, <1>7, QuietTable, QuietLists, QuietResult DEF Flow

LEMMA UnmovedFlow ==
    ASSUME DirInv, WorkInv, call' = call, ListsFrom, ResultFrom,
           UNCHANGED <<tableVars, cluster, changes, history>>
    PROVE  Flow
<1>1. ClusterFrom /\ DeletedFrom /\ Later
  BY QuietCluster DEF history
<1>2. \A u \in Threads : CallFlow(u)
  BY <1>1, UntouchedFlow, IdleFlow
<1>3. DeadStays
  BY DEF DeadStays, history
<1> QED
  BY <1>1, <1>2, <1>3, QuietTable DEF Flow

LEMMA NextFlow == DirInv /\ WorkInv /\ [DirNext]_vars => Flow
<1> SUFFICES ASSUME DirInv, WorkInv, [DirNext]_vars PROVE Flow
  OBVIOUS
<1>1. ASSUME NEW t \in Threads, Begins(t) PROVE Flow
  BY <1>1, BeginsFlow
<1>2. ASSUME NEW t \in Threads, Continues(t) PROVE Flow
  <2>1. CASE ApiFails(t)
    BY <2>1, AnswerFlow DEF ApiFails
  <2>2. CASE ApiRefuses(t)
    BY <2>2, AnswerFlow DEF ApiRefuses
  <2> QED
    BY <1>2, <2>1, <2>2, ListFlow, ApiAnswersFlow, FillCacheFlow, AddNextFlow, PruneFlow,
       ReadFlow, ApiDeletesFlow, InvalidateFlow, CheckParentFlow, UnindexFlow, AddFileFlow
       DEF Continues
<1>3. CASE ClusterChange
  BY <1>3, ClusterChangeFlow
<1>4. CASE Expire
  <2>1. /\ UNCHANGED <<tableVars, cluster, call, changes, history>> /\ result' = NoResult
        /\ \E k : Forget(k)
    BY <1>4 DEF Expire, callVars
  <2> QED
    BY <2>1, UnmovedFlow, QuietLists, QuietResult
<1>5. CASE UNCHANGED vars
  <2>1. UNCHANGED <<tableVars, cluster, call, changes, history, listCache, result>>
    BY <1>5 DEF vars, callVars, cacheVars
  <2> QED
    BY <2>1, UnmovedFlow, QuietLists DEF ResultFrom
<1> QED
  BY <1>1, <1>2, <1>3, <1>4, <1>5 DEF DirNext

-----------------------------------------------------------------------------
\* The invariants, one after the other.

LEMMA AddKeepsFit ==
    ASSUME DirInv, HeapFits(node, ID), NEW p \in ID, NEW n \in Names,
           NEW type \in NodeType \ {"root"}, type \in ChildTypes(node[p].type),
           Allots(p, n, type)
    PROVE  HeapFits(node', ID')
<1>1. TableTypeOK
  BY DEF DirInv, TableInv
<1>2. ID' = ID \cup {nextID} /\ \A i \in ID : node'[i] = node[i]
  BY <1>1, AllotsFacts
<1>3. node'[nextID] = NewInode(p, n, type)
  <2>1. nextID \in 1..nextID
    BY <1>1, IDFacts
  <2>2. node' = [i \in 1..nextID |->
                   IF i = nextID THEN NewInode(p, n, type) ELSE node[i]]
    BY DEF Allots, AddChild
  <2> QED
    BY <2>1, <2>2
<1>4. node'[nextID].parent = p /\ node'[nextID].type = type /\ node'[p] = node[p]
  BY <1>2, <1>3 DEF NewInode
<1> QED
  BY <1>2, <1>4 DEF HeapFits

LEMMA HeapStep ==
    ASSUME DirInv, HeapFits(node, ID), [TableNext]_tableVars
    PROVE  HeapFits(node', ID')
<1>1. \A i \in ID : node'[i] = node[i]
  BY HeapGrows DEF DirInv
<1>2. CASE ID' = ID
  BY <1>1, <1>2 DEF HeapFits
<1>3. ASSUME NEW p \in ID, NEW n \in Names, NEW type \in ChildTypes(node[p].type),
             AddChild(p, n, type)
      PROVE  HeapFits(node', ID')
  <2>1. CASE Children(p)[n] # NoID
    BY <1>2, <1>3, <2>1 DEF AddChild, tableVars, ID
  <2>2. CASE Children(p)[n] = NoID
    <3>1. Allots(p, n, type)
      BY <1>3, <2>2 DEF Allots
    <3>2. type \in NodeType \ {"root"}
      BY NodeTypes, ChildTypesAreTypes DEF DirInv, TableInv
    <3> QED
      BY <3>1, <3>2, AddKeepsFit
  <2> QED
    BY <2>1, <2>2
<1>4. ASSUME NEW p \in ID, NEW gone, RemoveNames(p, gone) PROVE HeapFits(node', ID')
  BY <1>2, <1>4 DEF RemoveNames, ID
<1>5. CASE UNCHANGED tableVars
  BY <1>2, <1>5 DEF tableVars, ID
<1> QED
  BY <1>3, <1>4, <1>5 DEF TableNext, RemoveChild, RemoveChildren

\* A step of the whole, as the three invariants use it.
WholeStep ==
    /\ DirInv /\ WorkInv /\ Flow /\ StepOK /\ DirInv'
    /\ \A i \in ID : node'[i] = node[i]

LEMMA StepFacts == DirInv /\ WorkInv /\ [DirNext]_vars => WholeStep
<1> SUFFICES ASSUME DirInv, WorkInv, [DirNext]_vars PROVE WholeStep
  OBVIOUS
<1>1. StepOK /\ DirInv' /\ Flow
  BY DirNextStep, DirInvStep, NextFlow
<1> QED
  BY <1>1, HeapGrows DEF WholeStep, StepOK, DirInv

LEMMA DirStays ==
    ASSUME WholeStep, NEW d \in ID, IsDir(node[d].type)
    PROVE  /\ node'[d].type = node[d].type
           /\ node[d].type # "object" => KeyIn(node', d) = KeyIn(node, d)
           /\ StaticIn(node', d) = StaticIn(node, d)
BY KeyStays DEF WholeStep, WorkInv

\* A call's directory before and after a step.
LEMMA CallDirs ==
    ASSUME WholeStep, NEW t \in Threads
    PROVE  /\ call[t].step # "idle" =>
                 /\ call[t].dir \in ID /\ IsDir(node[call[t].dir].type)
           /\ call'[t].step # "idle" =>
                 /\ call'[t].dir \in ID /\ IsDir(node[call'[t].dir].type)
                 /\ Begun(t) \/ Goes(t)
           /\ CallFlow(t) /\ CallFits(call[t], node, changes > 0)
<1>1. CallOK(call[t], node, ID) /\ CallOK(call'[t], node, ID)
  BY DEF WholeStep, DirInv, StepOK, CallsOK
<1> QED
  BY <1>1 DEF WholeStep, CallOK, Flow, CallFlow, WorkInv

LEMMA WorkStep ==
    ASSUME WholeStep
    PROVE  WorkInv'
<1>1. HeapFits(node', ID')
  BY HeapStep DEF WholeStep, WorkInv, StepOK
<1>2. ASSUME NEW t \in Threads PROVE CallFits(call'[t], node', changes' > 0)
  <2>1. CASE call'[t].step = "idle"
    BY <2>1 DEF CallFits
  <2>2. CASE call'[t].step # "idle"
    <3>1. node'[call'[t].dir].type = node[call'[t].dir].type
      BY <2>2, CallDirs, DirStays
    <3> QED
      BY <3>1, CallDirs DEF CallFlow, CallFits
  <2> QED
    BY <2>1, <2>2
<1>3. NoneBeside(call')
  <2> SUFFICES ASSUME NEW t \in Threads, NEW u \in Threads, t # u,
                      call'[t].step # "idle", call'[t].alone, call'[u].step # "idle"
               PROVE  FALSE
    BY DEF NoneBeside
  <2>1. (Begun(t) \/ Goes(t)) /\ (Begun(u) \/ Goes(u))
    BY CallDirs
  <2>2. ~ Begun(u)
    BY DEF Begun
  <2>3. Goes(u) /\ call[u].step # "idle"
    BY <2>1, <2>2 DEF Goes
  <2>4. ~ Begun(t)
    BY <2>3 DEF Begun
  <2> QED
    BY <2>1, <2>3, <2>4 DEF Goes, WholeStep, WorkInv, NoneBeside
<1>4. changes' \in Nat
  BY DEF WholeStep, Flow, ClusterFrom
<1> QED
  BY <1>1, <1>2, <1>3, <1>4 DEF WorkInv

LEMMA WorkStart == DirInit => WorkInv
<1> SUFFICES ASSUME DirInit PROVE WorkInv
  OBVIOUS
<1>1. ID = {RootInodeID}
  BY DEF DirInit, TableInit, ID, RootInodeID
<1>2. \A t \in Threads : call[t].step = "idle"
  BY DEF DirInit, NoCallsYet, NoCall
<1>3. changes \in Nat
  BY DEF DirInit, NoCallsYet
<1> QED
  BY <1>1, <1>2, <1>3 DEF WorkInv, HeapFits, CallFits, NoneBeside

LEMMA WorkInvariance == DirSpec => []WorkInv
<1>1. DirInv /\ WorkInv /\ [DirNext]_vars => WorkInv'
  BY StepFacts, WorkStep
<1> QED
  BY DirInvariance, WorkStart, <1>1, PTL DEF DirSpec

-----------------------------------------------------------------------------
\* Lookups of what an rmdir alone has deleted.

LEMMA UnlistedStep ==
    ASSUME WholeStep, RisenInv, NEW x \in deleted', x[3] = "alone"
    PROVE  Unlisted(x[1], x[2], cluster', listCache', call', node')
<1> DEFINE k == x[1]
           n == x[2]
<1>1. ClusterFrom /\ DeletedFrom /\ ListsFrom
  BY DEF WholeStep, Flow
<1> HIDE DEF k, n
<1>2. CASE x \in deleted
  <2>1. Unlisted(k, n, cluster, listCache, call, node)
    BY <1>2 DEF RisenInv, k, n
  <2>2. k \in DOMAIN cluster' => n \notin cluster'[k]
    BY <1>1, <2>1 DEF ClusterFrom, Unlisted, k, n
  <2>3. k \in DOMAIN listCache' => n \notin listCache'[k]
    <3> SUFFICES ASSUME NEW t \in Threads, call[t].step = "fill",
                        k = KeyIn(node, call[t].dir)
                 PROVE  n \notin call[t].keep
      BY <1>1, <2>1 DEF ListsFrom, Unlisted
    <3>1. node[call[t].dir].type # "object"
      BY CallDirs DEF CallFits
    <3> QED
      BY <2>1, <3>1 DEF Unlisted, HoldsNames
  <2>4. ASSUME NEW t \in Threads, call'[t].step \in HoldsNames,
               node'[call'[t].dir].type # "object", KeyIn(node', call'[t].dir) = k
        PROVE  n \notin call'[t].keep
    <3>1. /\ Goes(t) /\ call[t].dir \in ID /\ IsDir(node[call[t].dir].type)
          /\ call'[t].dir = call[t].dir /\ KeepsFrom(t)
      BY <2>4, CallDirs DEF HoldsNames, Begun, Goes, CallFlow
    <3>2. node[call[t].dir].type # "object" /\ KeyIn(node, call[t].dir) = k
      BY <2>4, <3>1, DirStays
    <3> QED
      BY <2>1, <2>4, <3>1, <3>2 DEF KeepsFrom, Unlisted
  <2> QED
    BY <2>1, <2>2, <2>3, <2>4 DEF Unlisted, k, n
<1>3. CASE x \notin deleted
  <2>1. PICK t \in Threads : Deletes(t, x)
    BY <1>1, <1>3 DEF DeletedFrom
  <2>2. /\ call[t].step = "unindex" /\ call[t].op = "rmdir" /\ call[t].alone
        /\ k = KeyIn(node, call[t].dir) /\ n = call[t].name
        /\ n \notin cluster[k] /\ cluster' = cluster /\ listCache' = listCache
        /\ call'[t].step = "idle" /\ \A v \in Threads \ {t} : call'[v] = call[v]
    BY <1>3, <2>1 DEF Deletes, k, n
  <2>3. k \notin DOMAIN listCache
    BY <2>2 DEF RisenInv, Dropped
  <2>4. \A v \in Threads : call'[v].step = "idle"
    BY <2>2 DEF WholeStep, WorkInv, NoneBeside
  <2>5. n \in Names
    BY <2>2, NameFacts DEF WholeStep
  <2> QED
    BY <2>2, <2>3, <2>4, <2>5 DEF Unlisted, HoldsNames, k, n
<1> QED
  BY <1>2, <1>3

LEMMA DeadStep ==
    ASSUME WholeStep, RisenInv, NEW t \in Threads, call'[t].dead = "alone"
    PROVE  DeadOK(call'[t], node', childIndex', deleted')
<1> DEFINE d == call[t].dir
           n == call[t].name
<1>1. /\ EntriesFrom /\ DeadStays
      /\ DeadOK(call[t], node, childIndex, deleted)
  BY DEF WholeStep, Flow, RisenInv
<1>2. DeadFrom(call'[t], node, deleted')
  BY <1>1 DEF DeadStays, DeadOK
<1>3. DeadFrom(call'[t], node', deleted')
  <2>1. call'[t].dir \in ID /\ IsDir(node[call'[t].dir].type)
    BY <1>2, CallDirs DEF DeadFrom
  <2> QED
    BY <1>2, <2>1, DirStays DEF DeadFrom
<1>4. ASSUME call'[t].step = "read"
      PROVE  \/ Entry(childIndex', d, n) = NoID
             \/ node'[Entry(childIndex', d, n)].type # "object"
  <2>1. /\ Goes(t) /\ d \in ID /\ IsDir(node[d].type) /\ PrunesFrom(t)
        /\ call[t].dead = "alone"
    BY <1>4, CallDirs DEF Begun, Goes, CallFlow
  <2>2. DeadFrom(call[t], node, deleted)
    BY <1>1, <2>1 DEF DeadOK
  <2>3. Unlisted(KeyIn(node, d), n, cluster, listCache, call, node)
    BY <2>2 DEF DeadFrom, DeletedAlone, RisenInv
  <2>4. node[d].type = "resourceType" /\ n \in Names
    BY <2>2, <2>3 DEF DeadFrom, Unlisted
  <2>5. \A u \in Threads : call[u].step \in HoldsNames /\ call[u].dir = d
                              => n \notin call[u].keep
    BY <2>3, <2>4 DEF Unlisted
  <2>6. CASE call[t].step = "add"
    BY <1>4, <2>1, <2>4, <2>5, <2>6 DEF PrunesFrom, HoldsNames
  <2>7. CASE call[t].step = "read"
    <3> DEFINE c == Entry(childIndex', d, n)
    <3> SUFFICES ASSUME c # NoID PROVE node'[c].type # "object"
      OBVIOUS
    <3>1. d \in DOMAIN childIndex' /\ c = childIndex'[d][n]
      BY DEF Entry
    <3>2. CASE c = Entry(childIndex, d, n)
      <4>1. node[c].type # "object"
        BY <1>1, <2>1, <2>7, <3>2 DEF DeadOK
      <4>2. d \in DOMAIN childIndex /\ c = childIndex[d][n]
        BY <3>2 DEF Entry
      <4>3. c \in ID
        BY <2>4, <4>2, EntryFacts DEF WholeStep, DirInv
      <4> QED
        BY <4>1, <4>3 DEF WholeStep
    <3>3. CASE node'[c].type = "file"
      BY <3>3
    <3>4. ASSUME NEW u \in Threads, call[u].step = "add", d = call[u].dir, n \in call[u].todo
          PROVE  FALSE
      <4>1. call[u].todo \subseteq call[u].keep
        BY ThreadFacts DEF WholeStep
      <4> QED
        BY <2>5, <3>4, <4>1 DEF HoldsNames
    <3> QED
      BY <1>1, <2>4, <3>1, <3>2, <3>3, <3>4 DEF EntriesFrom
  <2> QED
    BY <1>4, <2>1, <2>6, <2>7 DEF PrunesFrom
<1>5. call'[t].step = "read" => call'[t].dir = d /\ call'[t].name = n
  BY CallDirs DEF Begun, Goes
<1> QED
  BY <1>3, <1>4, <1>5 DEF DeadOK

LEMMA DroppedStep ==
    ASSUME WholeStep, RisenInv, NEW t \in Threads
    PROVE  Dropped(call'[t], node', listCache')
<1> SUFFICES ASSUME call'[t].step = "unindex", call'[t].op = "rmdir", call'[t].alone
             PROVE  KeyIn(node', call'[t].dir) \notin DOMAIN listCache'
  BY DEF Dropped
<1> DEFINE d == call[t].dir
<1>1. /\ Goes(t) /\ d \in ID /\ IsDir(node[d].type) /\ DropsFrom(t)
      /\ call'[t].dir = d /\ call[t].op = "rmdir" /\ call[t].alone
      /\ call[t].step # "idle" /\ CallFits(call'[t], node, changes' > 0)
  BY CallDirs DEF Begun, Goes, CallFlow
<1>2. KeyIn(node', d) = KeyIn(node, d)
  BY <1>1, DirStays DEF CallFits
<1>3. KeyIn(node, d) \notin DOMAIN listCache'
  <2>1. CASE call[t].step # "unindex"
    BY <1>1, <2>1 DEF DropsFrom
  <2>2. CASE call[t].step = "unindex"
    <3>1. KeyIn(node, d) \notin DOMAIN listCache
      BY <1>1, <2>2 DEF RisenInv, Dropped
    <3>2. \A u \in Threads : call[u].step # "fill"
      BY <1>1, <2>2 DEF WholeStep, WorkInv, NoneBeside
    <3> QED
      BY <3>1, <3>2 DEF WholeStep, Flow, ListsFrom
  <2> QED
    BY <2>1, <2>2
<1> QED
  BY <1>1, <1>2, <1>3

LEMMA ReadRisen ==
    ASSUME DirInv, RisenInv, NEW t \in Threads, Read(t)
    PROVE  result'.risen # "alone"
<1> DEFINE c == call[t]
           found == {n \in Names : LookupChild(c.dir, n) # NoID}
           e == LookupChild(c.dir, c.name)
<1>1. CASE c.op # "lookup"
  <2>1. \E missed : AnswerSeeing(t, "ok", missed, "no")
    BY <1>1 DEF Read
  <2> QED
    BY <2>1 DEF AnswerSeeing
<1>2. CASE c.op = "lookup"
  <2> DEFINE risen == IF c.name \in found /\ Type(e) = "object" THEN c.dead ELSE "no"
  <2>1. \E res, missed : AnswerSeeing(t, res, missed, risen)
    BY <1>2 DEF Read
  <2>2. risen # "alone"
    <3> SUFFICES ASSUME c.name \in Names, e # NoID, Type(e) = "object", c.dead = "alone"
                 PROVE  FALSE
      OBVIOUS
    <3>1. e = Entry(childIndex, c.dir, c.name)
      BY DEF LookupChild, Children, EmptyDir, Entry
    <3> QED
      BY <3>1 DEF RisenInv, DeadOK, Read, At, Type
  <2> HIDE DEF risen
  <2> QED
    BY <2>1, <2>2 DEF AnswerSeeing
<1> QED
  BY <1>1, <1>2

LEMMA RisenStep ==
    ASSUME WholeStep, RisenInv
    PROVE  RisenInv'
<1>1. \A t \in Threads : DeadOK(call'[t], node', childIndex', deleted')
  BY DeadStep DEF DeadOK
<1>2. result'.risen # "alone"
  BY ReadRisen DEF WholeStep, Flow, ResultFrom, RisenInv
<1> QED
  BY <1>1, <1>2, UnlistedStep, DroppedStep DEF RisenInv

\* Once rmdir has returned success, no later Lookup finds the object again as
\* long as nobody makes one of that name, if no call ran while rmdir did: what
\* rmdir drops from the cache, no other call puts back (RisenOnlyIfOverlapped).
THEOREM DeletedAloneStaysDeleted == DirSpec => []RisenOnlyIfOverlapped
<1>1. DirInit => RisenInv
  <2>1. NoCall.dead = "no" /\ NoCall.step = "idle" /\ NoResult.risen = "no"
    BY DEF NoCall, NoResult
  <2> QED
    BY <2>1 DEF DirInit, NoCallsYet, RisenInv, DeadOK, Dropped
<1>2. DirInv /\ WorkInv /\ RisenInv /\ [DirNext]_vars => RisenInv'
  BY StepFacts, RisenStep
<1>3. RisenInv => RisenOnlyIfOverlapped
  BY DEF RisenInv, RisenOnlyIfOverlapped
<1> QED
  BY DirInvariance, WorkInvariance, <1>1, <1>2, <1>3, PTL DEF DirSpec

-----------------------------------------------------------------------------
\* Names that calls miss.

\* A removal from p of names its listing lacks leaves what a call has added,
\* there or elsewhere, while directories and calls are of one listing.
LEMMA Retained ==
    ASSUME DirInv, DirsAgree(childIndex, node, cluster),
           NEW p \in ID, NEW gone \in SUBSET Names, RemoveNames(p, gone),
           \A m \in gone : Listable(node, cluster, p) => m \notin Listing(node, cluster, p),
           NEW d, NEW m \in Names, Entry(childIndex, d, m) # NoID,
           d = p => m \notin gone
    PROVE  Entry(childIndex', d, m) # NoID
<1>1. CASE d = p
  BY <1>1, RemovedEntries
<1>2. CASE d # p
  <2>1. d \in DOMAIN childIndex /\ childIndex[d][m] # NoID
    BY DEF Entry
  <2>2. d \in DOMAIN childIndex'
    <3> SUFFICES ASSUME d \notin DOMAIN childIndex' PROVE FALSE
      OBVIOUS
    <3>1. PICK n \in gone : /\ p \in DOMAIN childIndex /\ childIndex[p][n] # NoID
                            /\ IsDir(node[childIndex[p][n]].type)
      BY <1>2, <2>1, RemovedEntries
    <3> QED
      BY <3>1 DEF DirsAgree
  <2>3. childIndex'[d] = childIndex[d]
    BY <1>2, <2>2, RemovedEntries
  <2> QED
    BY <2>1, <2>2, <2>3 DEF Entry
<1> QED
  BY <1>1, <1>2

LEMMA SettledBefore ==
    ASSUME WholeStep, Settled(changes', hidden')
    PROVE  Settled(changes, hidden) /\ changes' = changes /\ cluster' = cluster
BY DEF WholeStep, Flow, ClusterFrom, WorkInv, Settled

LEMMA CacheStep ==
    ASSUME WholeStep, MissedInv, Settled(changes', hidden')
    PROVE  CacheAgrees(listCache', cluster')
<1>1. /\ CacheAgrees(listCache, cluster) /\ cluster' = cluster
      /\ \A t \in Threads : CallAgrees(call[t], node, cluster)
  BY SettledBefore DEF MissedInv
<1>2. ASSUME NEW t \in Threads, call[t].step = "fill"
      PROVE  /\ KeyIn(node, call[t].dir) \in DOMAIN cluster
             /\ call[t].keep = cluster[KeyIn(node, call[t].dir)]
  <2>1. node[call[t].dir].type # "object"
    BY <1>2, CallDirs DEF CallFits
  <2> QED
    BY <1>1, <1>2, <2>1 DEF CallAgrees, HoldsNames, Listable, Listing
<1> QED
  BY <1>1, <1>2 DEF WholeStep, Flow, ListsFrom, CacheAgrees

\* Listings of directories stay while the cluster does.
LEMMA ListingStays ==
    ASSUME WholeStep, cluster' = cluster, NEW d \in ID, IsDir(node[d].type)
    PROVE  /\ Listable(node', cluster', d) <=> Listable(node, cluster, d)
           /\ Listing(node', cluster', d) = Listing(node, cluster, d)
BY DirStays DEF Listable, Listing

LEMMA KeepStep ==
    ASSUME WholeStep, MissedInv, Settled(changes', hidden'), NEW t \in Threads
    PROVE  CallAgrees(call'[t], node', cluster')
<1> SUFFICES ASSUME call'[t].step \in HoldsNames
             PROVE  Listable(node', cluster', call'[t].dir)
                    /\ call'[t].keep = Listing(node', cluster', call'[t].dir)
  BY DEF CallAgrees
<1> DEFINE d == call[t].dir
<1>1. /\ CacheAgrees(listCache, cluster) /\ cluster' = cluster
      /\ CallAgrees(call[t], node, cluster)
  BY SettledBefore DEF MissedInv
<1>2. call'[t].dir = d /\ d \in ID /\ IsDir(node[d].type) /\ KeepsFrom(t)
  BY CallDirs DEF HoldsNames, Begun, Goes, CallFlow
<1>3. Listable(node, cluster, d) /\ call'[t].keep = Listing(node, cluster, d)
  BY <1>1, <1>2 DEF KeepsFrom, CallAgrees, CacheAgrees, Listable, Listing
<1> QED
  BY <1>1, <1>2, <1>3, ListingStays

LEMMA EntryStep ==
    ASSUME WholeStep, MissedInv, Settled(changes', hidden')
    PROVE  DirsAgree(childIndex', node', cluster')
<1>1. /\ DirsAgree(childIndex, node, cluster) /\ cluster' = cluster
      /\ \A t \in Threads : CallAgrees(call[t], node, cluster)
  BY SettledBefore DEF MissedInv
<1> SUFFICES ASSUME NEW p \in DOMAIN childIndex', NEW n \in Names,
                    childIndex'[p][n] # NoID, IsDir(node'[childIndex'[p][n]].type)
             PROVE  Listable(node', cluster', p) /\ n \in Listing(node', cluster', p)
  BY DEF DirsAgree
<1> DEFINE c == childIndex'[p][n]
<1>2. CASE c = Entry(childIndex, p, n)
  <2>1. p \in DOMAIN childIndex /\ c = childIndex[p][n] /\ c # NoID
    BY <1>2 DEF Entry
  <2>2. c \in ID /\ p \in ID
    BY <2>1, EntryFacts DEF WholeStep, DirInv
  <2>3. IsDir(node[p].type)
    BY <2>1 DEF WholeStep, DirInv, TableInv, IndexConsistent, DirsAreIndexed
  <2>4. IsDir(node[c].type)
    BY <2>2 DEF WholeStep
  <2>5. Listable(node, cluster, p) /\ n \in Listing(node, cluster, p)
    BY <1>1, <2>1, <2>4 DEF DirsAgree
  <2> QED
    BY <1>1, <2>2, <2>3, <2>5, ListingStays
<1>3. ASSUME NEW t \in Threads, call[t].step = "add", p = call[t].dir, n \in call[t].todo
      PROVE  Listable(node', cluster', p) /\ n \in Listing(node', cluster', p)
  <2>1. p \in ID /\ IsDir(node[p].type) /\ n \in call[t].keep
    BY <1>3, CallDirs, ThreadFacts DEF WholeStep
  <2>2. Listable(node, cluster, p) /\ n \in Listing(node, cluster, p)
    BY <1>1, <1>3, <2>1 DEF CallAgrees, HoldsNames
  <2> QED
    BY <1>1, <2>1, <2>2, ListingStays
<1>4. node'[c].type # "file"
  BY DEF IsDir
<1> QED
  BY <1>2, <1>3, <1>4 DEF WholeStep, Flow, EntriesFrom

\* What a call has added stays: it runs alone, or all removals are of names
\* its listing lacks.
LEMMA EntriesStay ==
    ASSUME WholeStep, MissedInv, NEW u \in Threads, call[u].step \in {"add", "read"},
           call[u].alone \/ Settled(changes', hidden'),
           call'[u].step # "idle",
           NEW m \in call[u].keep, Entry(childIndex, call[u].dir, m) # NoID
    PROVE  Entry(childIndex', call[u].dir, m) # NoID
<1> m \in Names
  BY ThreadFacts DEF WholeStep
<1>1. CASE EntriesGrow
  BY <1>1 DEF EntriesGrow
<1>2. ASSUME NEW t \in Threads, Prune(t)
      PROVE  Entry(childIndex', call[u].dir, m) # NoID
  <2> DEFINE p == call[t].dir
             gone == Names \ call[t].keep
  <2>1. RemoveNames(p, gone) /\ p \in ID /\ call[t].step = "add"
    BY <1>2, ThreadFacts DEF Prune, RemoveChildren, At, WholeStep
  <2>2. CASE u = t
    <3>1. m \in Names \ gone /\ gone \in SUBSET Names /\ DirInv
      BY <2>2 DEF WholeStep
    <3> HIDE DEF gone
    <3>2. Entry(childIndex', p, m) = Entry(childIndex, p, m)
      BY <2>1, <3>1, RemovedEntries
    <3> QED
      BY <2>2, <3>2
  <2>3. CASE u # t
    <3>1. Settled(changes', hidden')
      BY <2>1, <2>3 DEF WholeStep, WorkInv, NoneBeside
    <3>2. /\ DirsAgree(childIndex, node, cluster)
          /\ CallAgrees(call[t], node, cluster) /\ CallAgrees(call[u], node, cluster)
      BY <3>1, SettledBefore DEF MissedInv
    <3>3. /\ call[t].keep = Listing(node, cluster, p)
          /\ call[u].keep = Listing(node, cluster, call[u].dir)
      BY <2>1, <3>2 DEF CallAgrees, HoldsNames
    <3>4. /\ \A n \in gone : n \notin Listing(node, cluster, p)
          /\ call[u].dir = p => m \notin gone
      BY <3>3
    <3> HIDE DEF gone
    <3> QED
      BY <2>1, <3>2, <3>4, Retained DEF WholeStep, gone
  <2> QED
    BY <2>2, <2>3
<1>3. ASSUME NEW t \in Threads, Unindex(t)
      PROVE  Entry(childIndex', call[u].dir, m) # NoID
  <2> DEFINE p == call[t].dir
             n == call[t].name
  <2>1. /\ RemoveNames(p, {n}) /\ p \in ID /\ n \in Names /\ call[t].step = "unindex"
        /\ hidden' = (hidden \/ (call[t].op = "unlink" /\ Lists(p, n)))
    BY <1>3, ThreadFacts, NameFacts DEF Unindex, RemoveChild, At, WholeStep
  <2>2. u # t
    BY <2>1
  <2>3. Settled(changes', hidden')
    BY <2>1, <2>2 DEF WholeStep, WorkInv, NoneBeside
  <2>4. /\ DirsAgree(childIndex, node, cluster) /\ changes = 0
        /\ CallAgrees(call[u], node, cluster)
    BY <2>3, SettledBefore DEF MissedInv, Settled
  <2>5. call[t].op = "unlink" /\ node[p].type = "resourceType"
    BY <2>1, <2>4 DEF WholeStep, WorkInv, CallFits
  <2>6. ~ Lists(p, n)
    BY <2>1, <2>3, <2>5 DEF Settled
  <2>7. Key(p) = KeyIn(node, p)
    BY <2>1, <2>5, KeyIs DEF WholeStep, Type, IsDir
  <2>8. Listable(node, cluster, p) => n \notin Listing(node, cluster, p)
    BY <2>5, <2>6, <2>7 DEF Lists, Listable, Listing
  <2>9. call[u].dir = p => m # n
    BY <2>4, <2>8 DEF CallAgrees, HoldsNames
  <2> QED
    BY <2>1, <2>4, <2>8, <2>9, Retained DEF WholeStep
<1> QED
  BY <1>1, <1>2, <1>3 DEF WholeStep, Flow, TableFrom

LEMMA AddedStep ==
    ASSUME WholeStep, MissedInv, NEW t \in Threads,
           call'[t].alone \/ Settled(changes', hidden')
    PROVE  Added(call'[t], childIndex')
<1> SUFFICES ASSUME call'[t].step \in {"add", "read"}, NEW m \in call'[t].keep,
                    call'[t].step = "add" => m \notin call'[t].todo
             PROVE  Entry(childIndex', call'[t].dir, m) # NoID
  BY DEF Added
<1>1. Goes(t) /\ AddsFrom(t)
  BY CallDirs DEF Begun, CallFlow
<1>2. CASE Entry(childIndex', call[t].dir, m) # NoID
  BY <1>1, <1>2 DEF Goes
<1>3. CASE /\ call[t].step \in {"add", "read"} /\ call'[t].keep = call[t].keep
           /\ call[t].step = "add" => m \notin call[t].todo
  <2>1. call[t].alone \/ Settled(changes', hidden')
    BY <1>1 DEF Goes
  <2>2. call[t].alone \/ Settled(changes, hidden)
    BY <2>1, SettledBefore
  <2>3. Entry(childIndex, call[t].dir, m) # NoID
    BY <1>3, <2>2 DEF MissedInv, Added
  <2> QED
    BY <1>1, <1>3, <2>1, <2>3, EntriesStay DEF Goes
<1> QED
  BY <1>1, <1>2, <1>3 DEF AddsFrom

LEMMA ReadMisses ==
    ASSUME DirInv, WorkInv, MissedInv, NEW t \in Threads, Read(t),
           result'.missed # "no"
    PROVE  result'.missed = "overlapped" /\ (changes' > 0 \/ hidden')
<1> DEFINE c == call[t]
           found == {n \in Names : LookupChild(c.dir, n) # NoID}
<1>1. /\ c.step = "read" /\ c.keep \subseteq Names
      /\ UNCHANGED <<changes, hidden>>
  BY ThreadFacts DEF Read, At, history
<1>2. result'.missed = Ran(t) /\ ~ (c.keep \subseteq found)
  <2>1. CASE c.op = "lookup"
    <3>1. \E res, risen : AnswerSeeing(t, res,
                              IF c.name \in c.keep \ found THEN Ran(t) ELSE "no", risen)
      BY <2>1 DEF Read
    <3> HIDE DEF found
    <3> QED
      BY <3>1 DEF AnswerSeeing
  <2>2. CASE c.op # "lookup"
    <3>1. \E res, risen : AnswerSeeing(t, res,
                              IF c.keep \subseteq found THEN "no" ELSE Ran(t), risen)
      BY <2>2 DEF Read
    <3> HIDE DEF found
    <3> QED
      BY <3>1 DEF AnswerSeeing
  <2> QED
    BY <2>1, <2>2
<1>3. PICK m \in c.keep : m \notin found
  BY <1>2
<1>4. Entry(childIndex, c.dir, m) = NoID
  <2> SUFFICES ASSUME Entry(childIndex, c.dir, m) # NoID PROVE FALSE
    OBVIOUS
  <2>1. c.dir \in DOMAIN childIndex /\ Children(c.dir)[m] = Entry(childIndex, c.dir, m)
    BY DEF Entry, Children
  <2>2. Entry(childIndex, c.dir, m) \in inodes
    BY <1>1, <1>3, <2>1, EntryFacts DEF DirInv, Entry
  <2> QED
    BY <1>1, <1>3, <2>1, <2>2 DEF LookupChild
<1>5. ~ c.alone /\ ~ Settled(changes, hidden)
  BY <1>1, <1>3, <1>4 DEF MissedInv, Added
<1> QED
  BY <1>1, <1>2, <1>5 DEF Ran, Settled, WorkInv

LEMMA MissedStep ==
    ASSUME WholeStep, MissedInv
    PROVE  MissedInv'
<1>1. Settled(changes', hidden') =>
          /\ CacheAgrees(listCache', cluster')
          /\ \A t \in Threads : CallAgrees(call'[t], node', cluster')
          /\ DirsAgree(childIndex', node', cluster')
  BY CacheStep, KeepStep, EntryStep
<1>2. \A t \in Threads : call'[t].alone \/ Settled(changes', hidden')
                            => Added(call'[t], childIndex')
  BY AddedStep
<1>3. MissedOnlyIfOverlapped'
  <2>1. changes' >= changes /\ changes' \in Nat /\ changes \in Nat /\ (hidden => hidden')
    BY DEF WholeStep, Flow, ClusterFrom, WorkInv
  <2> SUFFICES ASSUME result'.missed # "no"
               PROVE  result'.missed = "overlapped" /\ (changes' > 0 \/ hidden')
    BY DEF MissedOnlyIfOverlapped
  <2>2. CASE result' = result
    BY <2>1, <2>2 DEF MissedInv, MissedOnlyIfOverlapped
  <2>3. ASSUME NEW t \in Threads, Read(t)
        PROVE  result'.missed = "overlapped" /\ (changes' > 0 \/ hidden')
    BY <2>3, ReadMisses DEF WholeStep
  <2> QED
    BY <2>2, <2>3 DEF WholeStep, Flow, ResultFrom
<1> QED
  BY <1>1, <1>2, <1>3 DEF MissedInv

\* A call ends with every name of its own listing in place, unless another
\* call ran during it, and the cluster has changed or an unlink has taken a
\* name the API lists (MissedOnlyIfOverlapped): calls that only list, however
\* they interleave, never make one another miss anything.
THEOREM NamesMissedOnlyByOverlap == DirSpec => []MissedOnlyIfOverlapped
<1>1. DirInit => MissedInv
  <2> SUFFICES ASSUME DirInit PROVE MissedInv
    OBVIOUS
  <2>1. \A t \in Threads : call[t].step = "idle"
    BY DEF DirInit, NoCallsYet, NoCall
  <2>2. result.missed = "no"
    BY DEF DirInit, NoCallsYet, NoResult
  <2>3. CacheAgrees(listCache, cluster)
    BY DEF DirInit, CacheAgrees
  <2>4. DirsAgree(childIndex, node, cluster)
    BY DEF DirInit, TableInit, DirsAgree, EmptyDir
  <2> QED
    BY <2>1, <2>2, <2>3, <2>4 DEF MissedInv, CallAgrees, HoldsNames, Added,
                                  MissedOnlyIfOverlapped
<1>2. DirInv /\ WorkInv /\ MissedInv /\ [DirNext]_vars => MissedInv'
  BY StepFacts, MissedStep
<1>3. MissedInv => MissedOnlyIfOverlapped
  BY DEF MissedInv
<1> QED
  BY DirInvariance, WorkInvariance, <1>1, <1>2, <1>3, PTL DEF DirSpec

-----------------------------------------------------------------------------
\* Why calls end.

Place(s) ==
    CASE s \in {"list", "delete", "addfile"} -> 1
      [] s \in {"api", "invdata", "parent"}  -> 2
      [] s \in {"fill", "invlist"}           -> 3
      [] s \in {"add", "unindex"}            -> 4
      [] s = "read"                          -> 5
      [] s = "idle"                          -> 6

\* The call comes to a later place, or has one name less to add.
Advances(t) ==
    \/ Place(call'[t].step) > Place(call[t].step)
    \/ /\ call[t].step = "add" /\ call'[t].step = "add"
       /\ call'[t].keep = call[t].keep
       /\ \E n \in call[t].todo : call'[t].todo = call[t].todo \ {n}

Waits(t) ==
    /\ call'[t].step = call[t].step /\ call'[t].dir = call[t].dir
    /\ call'[t].keep = call[t].keep /\ call'[t].todo = call[t].todo

\* A call's own step brings it nearer its end, and nobody else's sets it back.
MovesOn ==
    \A t \in Threads :
        /\ Continues(t) => Advances(t)
        /\ call[t].step # "idle" => Advances(t) \/ Waits(t)

LEMMA GotoAdvances ==
    ASSUME DirInv, NEW t \in Threads, NEW s, Goto(t, s), Place(s) > Place(call[t].step)
    PROVE  Advances(t) /\ OthersStay(t)
BY GotoFields DEF Advances

LEMMA AnswerAdvances ==
    ASSUME DirInv, NEW t \in Threads, NEW res, NEW missed, NEW risen,
           AnswerSeeing(t, res, missed, risen), call[t].step # "idle"
    PROVE  Advances(t) /\ OthersStay(t)
<1>1. Place(call'[t].step) = 6 /\ OthersStay(t)
  BY AnswerFields DEF Place
<1>2. call[t].step \in Step
  BY ThreadFacts DEF CallOK
<1>3. Place(call[t].step) < 6
  BY <1>2 DEF Step, Place
<1> QED
  BY <1>1, <1>3, <1>2 DEF Advances, Place, Step

LEMMA FillingAdvances ==
    ASSUME DirInv, NEW t \in Threads, NEW names, StartFilling(t, names),
           call[t].step \in {"list", "fill"}
    PROVE  Advances(t) /\ OthersStay(t)
<1>1. call'[t].step = "add" /\ OthersStay(t)
  BY FillingFields
<1> QED
  BY <1>1 DEF Advances, Place

\* What a step does to its own call, and that it does nothing to others.
LEMMA ContinuesAdvances ==
    ASSUME DirInv, NEW t \in Threads, Continues(t)
    PROVE  Advances(t) /\ OthersStay(t)
<1>1. CASE List(t)
  <2>1. \/ \E names : StartFilling(t, names)
        \/ Goto(t, "api")
    BY <1>1 DEF List
  <2>2. call[t].step = "list"
    BY <1>1 DEF List, At
  <2> QED
    BY <2>1, <2>2, FillingAdvances, GotoAdvances DEF Place
<1>2. CASE ApiAnswers(t)
  <2> DEFINE x == [call[t] EXCEPT !.step = "fill", !.keep = cluster[Key(call[t].dir)]]
  <2>1. IsCall(call[t]) /\ call = [u \in Threads |-> call[u]]
    BY ThreadFacts DEF CallOK, CallsOK
  <2>2. call[t].step = "api" /\ call' = [call EXCEPT ![t] = x]
    BY <1>2 DEF ApiAnswers, At
  <2>3. x.step = "fill"
    BY <2>1 DEF IsCall
  <2> HIDE DEF x
  <2>4. call'[t] = x /\ OthersStay(t)
    BY <2>1, <2>2 DEF OthersStay
  <2> QED
    BY <2>2, <2>3, <2>4 DEF Advances, Place
<1>3. CASE FillCache(t)
  BY <1>3, FillingAdvances DEF FillCache, At
<1>4. CASE AddNext(t)
  <2>1. PICK n \in call[t].todo : call' = [call EXCEPT ![t].todo = @ \ {n}]
    BY <1>4 DEF AddNext
  <2> DEFINE x == [call[t] EXCEPT !.todo = @ \ {n}]
  <2>2. IsCall(call[t]) /\ call = [u \in Threads |-> call[u]] /\ call[t].step = "add"
    BY <1>4, ThreadFacts DEF CallOK, CallsOK, AddNext, At
  <2>3. x.step = "add" /\ x.keep = call[t].keep /\ x.todo = call[t].todo \ {n}
    BY <2>2 DEF IsCall
  <2>4. call' = [call EXCEPT ![t] = x]
    BY <2>1
  <2> HIDE DEF x
  <2>5. call'[t] = x /\ OthersStay(t)
    BY <2>2, <2>4 DEF OthersStay
  <2> QED
    BY <2>2, <2>3, <2>5 DEF Advances
<1>5. CASE Prune(t)
  BY <1>5, GotoAdvances DEF Prune, At, Place
<1>6. CASE Read(t)
  BY <1>6, AnswerAdvances DEF Read, At
<1>7. CASE ApiDeletes(t)
  BY <1>7, GotoAdvances DEF ApiDeletes, At, Place
<1>8. CASE InvalidateData(t)
  BY <1>8, GotoAdvances DEF InvalidateData, At, Place
<1>9. CASE InvalidateList(t)
  BY <1>9, GotoAdvances DEF InvalidateList, At, Place
<1>10. CASE CheckParent(t)
  <2>1. Goto(t, "unindex") \/ Answer(t, "EPERM")
    BY <1>10 DEF CheckParent
  <2> QED
    BY <1>10, <2>1, GotoAdvances, AnswerAdvances DEF CheckParent, At, Place, Answer
<1>11. CASE ApiFails(t) \/ ApiRefuses(t)
  BY <1>11, AnswerAdvances DEF ApiFails, ApiRefuses, At, Answer
<1>12. CASE Unindex(t) \/ AddFile(t)
  BY <1>12, AnswerAdvances DEF Unindex, AddFile, At, Answer
<1> QED
  BY <1>1, <1>2, <1>3, <1>4, <1>5, <1>6, <1>7, <1>8, <1>9, <1>10, <1>11, <1>12
     DEF Continues

LEMMA BeginWaits ==
    ASSUME DirInv, NEW t \in Threads, NEW op, NEW d, NEW n, NEW s, Begin(t, op, d, n, s),
           NEW u \in Threads, call[u].step # "idle"
    PROVE  Waits(u)
<1> DEFINE x == [call[u] EXCEPT !.alone = FALSE]
<1>1. IsCall(call[u])
  BY ThreadFacts DEF CallOK
<1>2. /\ x.step = call[u].step /\ x.dir = call[u].dir
      /\ x.keep = call[u].keep /\ x.todo = call[u].todo
  BY <1>1 DEF IsCall
<1>3. u # t /\ call'[u] = x
  BY DEF Begin, At
<1> HIDE DEF x
<1> QED
  BY <1>2, <1>3 DEF Waits

LEMMA BeginsWaits ==
    ASSUME DirInv, NEW t \in Threads, Begins(t), NEW u \in Threads, call[u].step # "idle"
    PROVE  Waits(u)
<1>1. PICK d \in ID :
        \/ BeginWalk(t, "readdir", d, NoName)
        \/ \E n \in Names :
              \/ BeginWalk(t, "lookup", d, n)
              \/ BeginRemove(t, "rmdir", d, n)
              \/ BeginRemove(t, "unlink", d, n)
              \/ BeginCreate(t, d, n)
  BY DEF Begins
<1>2. ASSUME NEW op, NEW n, BeginWalk(t, op, d, n) PROVE Waits(u)
  BY <1>2, BeginWaits DEF BeginWalk
<1>3. ASSUME NEW op, NEW n, BeginRemove(t, op, d, n) PROVE Waits(u)
  <2>1. Begin(t, op, d, n, IF op = "rmdir" THEN "delete" ELSE "parent")
    BY <1>3 DEF BeginRemove
  <2> QED
    BY <2>1, BeginWaits
<1>4. ASSUME NEW n, BeginCreate(t, d, n) PROVE Waits(u)
  BY <1>4, BeginWaits DEF BeginCreate
<1> QED
  BY <1>1, <1>2, <1>3, <1>4

\* Every step of a call brings it nearer its end: to a later place in its
\* operation, or past one more name of a listing that is fixed by then.  No
\* step of another call, of the cluster or of the cache sets it back, however
\* often the directory changes: calls wait for their own requests only.
THEOREM CallsMoveOn == DirSpec => [][MovesOn]_vars
<1>1. ASSUME DirInv, [DirNext]_vars PROVE [MovesOn]_vars
  <2>1. ASSUME NEW t \in Threads, Continues(t) PROVE Advances(t)
    BY <1>1, <2>1, ContinuesAdvances
  <2>2. ASSUME DirNext, NEW u \in Threads, call[u].step # "idle"
        PROVE  Advances(u) \/ Waits(u)
    <3>1. CASE \E t \in Threads : Begins(t)
      BY <1>1, <2>2, <3>1, BeginsWaits
    <3>2. ASSUME NEW t \in Threads, Continues(t) PROVE Advances(u) \/ Waits(u)
      BY <1>1, <3>2, ContinuesAdvances DEF OthersStay, Waits
    <3>3. CASE ClusterChange
      BY <1>1, <3>3, ClusterChangeCalls DEF Waits
    <3>4. CASE Expire
      BY <3>4 DEF Expire, callVars, Waits
    <3> QED
      BY <2>2, <3>1, <3>2, <3>3, <3>4 DEF DirNext
  <2> QED
    BY <1>1, <2>1, <2>2 DEF MovesOn
<1> QED
  BY DirInvariance, <1>1, PTL DEF DirSpec
=============================================================================
