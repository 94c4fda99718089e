-------------------------- MODULE ClientWrites_proofs --------------------------
(***************************************************************************)
(* ClientWrites for any handles, objects, keys and number of changes: its  *)
(* types, its two safety properties, and that it implements ObjectStore.   *)
(*                                                                         *)
(* The inductive invariant is about copies: a copy of an object, open in a *)
(* handle or cached, that has the resourceVersion of an object of the API  *)
(* is that object (CopiesInv).  So a save that is accepted with a          *)
(* resourceVersion changes what its text was made from, and a second one   *)
(* with the same is refused (MadeInv).                                     *)
(***************************************************************************)
EXTENDS ClientWrites, TLAPS

\* The types while the last resourceVersion is r.
ObjectTypeAt(r) == [rv : 0..r, data : Data]
EntryTypeAt(r)  == [asOf : 0..r, object : ObjectTypeAt(r)]

HandleTypeAt(r) ==
    [kind : {"none", "text", "key", "create", "delete"},
     obj : Objs \cup {NoName}, name : Objs \cup {NoName},
     base : ObjectTypeAt(r), edits : Edits, stripped : BOOLEAN,
     step : {"idle", "filling", "get", "put", "accepted"},
     asOf : 0..r, made : Nat, answer : {"none", "ok", "error"}]

\* What a handle's call has by the step it is at.
StepOK(c) ==
    /\ c.step \in {"get", "put", "accepted"} => c.name \in Objs /\ c.kind # "none"
    /\ c.step = "filling" => c.kind = "text"
    /\ c.step = "get" => c.kind = "key"
    /\ c.kind = "text" => c.obj \in Objs /\ c.base.rv # 0
    /\ c.kind = "key" => c.obj = c.name /\ ~ c.stripped
    /\ c.kind = "key" /\ c.step # "get" => c.base.rv # 0

TypeInv == TypeOK /\ \A h \in Handles : StepOK(handle[h])

\* If o, read as object n, has the resourceVersion of an object, it is that one.
CopyOK(o, n, objects) ==
    o.rv # 0 => \A m \in Objs : objects[m].rv = o.rv => m = n /\ objects[m] = o

CopiesInv ==
    /\ \A n \in Objs : CopyOK(object[n], n, object)
    /\ \A n \in Objs : \A e \in cache[n] : e.object.rv # 0 /\ CopyOK(e.object, n, object)
    /\ \A h \in Handles : CopyOK(handle[h].base, handle[h].obj, object)

\* A text that was saved is not what any object is by now.
MadeOK(c, objects) ==
    /\ c.made \in {0, 1}
    /\ c.made = 1 => c.kind = "text" /\ \A m \in Objs : objects[m].rv # c.base.rv

MadeInv == \A h \in Handles : MadeOK(handle[h], object)

\* An answer on its way is as new as every save, quiet when the API took it,
\* that has returned or is going to.
FillOK(c, d, seen) ==
    c.step = "filling" => /\ c.asOf >= seen[c.obj]
                          /\ d.step = "accepted" => c.asOf >= d.asOf

FreshInv ==
    /\ \A g, h \in Handles : FillOK(handle[g], handle[h], mustSee)
    /\ CacheSeesQuietSaves

IInv == TypeInv /\ CopiesInv /\ MadeInv /\ FreshInv

-----------------------------------------------------------------------------
\* What TypeInv says, with the last resourceVersion as a parameter.
LEMMA TypeFacts ==
    ASSUME TypeInv
    PROVE  /\ rev \in Nat /\ rev \in InitRev..MaxRev /\ writes \in 0..MaxWrites
           /\ object \in [Objs -> ObjectTypeAt(rev)]
           /\ cache \in [Objs -> SUBSET EntryTypeAt(rev)]
           /\ handle \in [Handles -> HandleTypeAt(rev)]
           /\ mustSee \in [Objs -> 0..rev]
           /\ \A h \in Handles : handle[h] \in HandleTypeAt(rev) /\ StepOK(handle[h])
BY ClientWritesAssumption
   DEF TypeInv, TypeOK, ObjectTypeAt, EntryTypeAt, HandleTypeAt, ObjectType, HandleType

LEMMA TypesGrow ==
    ASSUME NEW r \in Nat, NEW s \in Nat, r <= s
    PROVE  /\ ObjectTypeAt(r) \subseteq ObjectTypeAt(s)
           /\ EntryTypeAt(r) \subseteq EntryTypeAt(s)
           /\ HandleTypeAt(r) \subseteq HandleTypeAt(s)
<1>1. 0..r \subseteq 0..s
  OBVIOUS
<1>2. ObjectTypeAt(r) \subseteq ObjectTypeAt(s)
  BY <1>1 DEF ObjectTypeAt
<1> QED
  BY <1>1, <1>2 DEF EntryTypeAt, HandleTypeAt

\* A released handle, and the object that is not there.
LEMMA NoHandleFacts ==
    ASSUME NEW r \in Nat
    PROVE  /\ NoHandle \in HandleTypeAt(r) /\ NoObject \in ObjectTypeAt(r)
           /\ NoObject.rv = 0 /\ NoHandle.base = NoObject
           /\ NoData \in Data /\ NoEdits \in Edits
           /\ NoHandle.kind = "none" /\ NoHandle.step = "idle" /\ NoHandle.made = 0
           /\ NoHandle.obj = NoName /\ NoHandle.name = NoName
           /\ NoHandle.edits = NoEdits /\ NoHandle.answer = "none"
<1>1. NoData \in Data /\ NoEdits \in Edits /\ FALSE \in BOOLEAN
  BY ClientWritesAssumption DEF NoData, Data, Value, NoEdits, Edits
<1>2. NoObject \in ObjectTypeAt(r) /\ NoObject.rv = 0
  BY <1>1 DEF NoObject, ObjectTypeAt
<1> QED
  BY <1>1, <1>2 DEF NoHandle, HandleTypeAt

-----------------------------------------------------------------------------
\* A step of handle h that changes nothing but its record, to one that is well
\* formed, whose text is an honest copy, and whose answer, if it waits for one,
\* is as new as anything.
LEMMA HandleStep ==
    ASSUME IInv, NEW h \in Handles, NEW new \in HandleTypeAt(rev),
           handle' = [handle EXCEPT ![h] = new],
           StepOK(new), CopyOK(new.base, new.obj, object), MadeOK(new, object),
           new.step # "accepted",
           new.step = "filling" => new.asOf = rev,
           writes' \in 0..MaxWrites,
           UNCHANGED <<object, rev, cache, mustSee>>
    PROVE  IInv'
<1>0. /\ rev \in Nat /\ rev \in InitRev..MaxRev
      /\ object \in [Objs -> ObjectTypeAt(rev)]
      /\ cache \in [Objs -> SUBSET EntryTypeAt(rev)]
      /\ handle \in [Handles -> HandleTypeAt(rev)]
      /\ mustSee \in [Objs -> 0..rev]
      /\ \A g \in Handles : handle[g] \in HandleTypeAt(rev) /\ StepOK(handle[g])
  BY TypeFacts DEF IInv
<1>1. /\ handle' \in [Handles -> HandleTypeAt(rev)]
      /\ handle'[h] = new
      /\ \A g \in Handles \ {h} : handle'[g] = handle[g]
  BY <1>0
<1>2. TypeInv'
  <2>1. \A g \in Handles : StepOK(handle'[g])
    BY <1>0, <1>1
  <2>2. \A n \in Objs : \A e, f \in cache'[n] : e = f
    BY DEF IInv, TypeInv, TypeOK
  <2> QED
    BY <1>0, <1>1, <2>1, <2>2
       DEF TypeInv, TypeOK, ObjectTypeAt, EntryTypeAt, HandleTypeAt, ObjectType, HandleType
<1>3. CopiesInv'
  BY <1>1 DEF IInv, CopiesInv
<1>4. MadeInv'
  BY <1>1 DEF IInv, MadeInv
<1>5. FreshInv'
  <2>1. ASSUME NEW d \in HandleTypeAt(rev) PROVE FillOK(new, d, mustSee)
    BY <1>0, <2>1 DEF FillOK, StepOK, HandleTypeAt
  <2>2. ASSUME NEW g \in Handles PROVE FillOK(handle[g], new, mustSee)
    BY DEF IInv, FreshInv, FillOK
  <2>3. \A f, g \in Handles : FillOK(handle'[f], handle'[g], mustSee)
    BY <1>0, <1>1, <2>1, <2>2 DEF IInv, FreshInv
  <2> QED
    BY <2>3 DEF IInv, FreshInv, CacheSeesQuietSaves
<1> QED
  BY <1>2, <1>3, <1>4, <1>5 DEF IInv
-----------------------------------------------------------------------------
\* The two ways to open a text: both give an honest copy of the object.
LEMMA OpenedKeeps ==
    ASSUME IInv, NEW h \in Handles, NEW n \in Objs, NEW base \in ObjectTypeAt(rev),
           NEW step \in {"idle", "filling"}, NEW asOf \in 0..rev,
           Opened(h, n, base, step, asOf),
           base.rv # 0, CopyOK(base, n, object), step = "filling" => asOf = rev
    PROVE  IInv'
<1> DEFINE new == [NoHandle EXCEPT !.kind = "text", !.obj = n, !.name = n, !.base = base,
                                   !.step = step, !.asOf = asOf]
<1>0. rev \in Nat /\ writes \in 0..MaxWrites
  BY TypeFacts DEF IInv
<1>1. /\ handle' = [handle EXCEPT ![h] = new]
      /\ UNCHANGED <<object, rev, cache, writes, mustSee>>
  BY DEF Opened
<1>2. /\ new \in HandleTypeAt(rev) /\ new.kind = "text" /\ new.obj = n /\ new.name = n
      /\ new.base = base /\ new.step = step /\ new.asOf = asOf /\ new.made = 0
  <2>1. NoHandle \in HandleTypeAt(rev) /\ NoHandle.made = 0
    BY <1>0, NoHandleFacts
  <2> QED
    BY <2>1 DEF HandleTypeAt
<1> HIDE DEF new
<1>3. StepOK(new) /\ MadeOK(new, object)
  BY <1>2 DEF StepOK, MadeOK
<1> QED
  BY <1>0, <1>1, <1>2, <1>3, HandleStep

LEMMA OpenCachedKeeps ==
    ASSUME IInv, NEW h \in Handles, NEW n \in Objs, OpenCached(h, n)
    PROVE  IInv'
<1>1. PICK e \in cache[n] : Opened(h, n, e.object, "idle", 0)
  BY DEF OpenCached
<1>2. rev \in Nat /\ e \in EntryTypeAt(rev)
  BY TypeFacts DEF IInv
<1>3. e.object \in ObjectTypeAt(rev) /\ 0 \in 0..rev
  BY <1>2 DEF EntryTypeAt
<1>4. CopyOK(e.object, n, object) /\ e.object.rv # 0
  BY DEF IInv, CopiesInv
<1> QED
  BY <1>1, <1>3, <1>4, OpenedKeeps

LEMMA OpenAnsweredKeeps ==
    ASSUME IInv, NEW h \in Handles, NEW n \in Objs, OpenAnswered(h, n)
    PROVE  IInv'
<1>1. object[n].rv # 0 /\ Opened(h, n, object[n], "filling", rev)
  BY DEF OpenAnswered
<1>2. rev \in Nat /\ object[n] \in ObjectTypeAt(rev)
  BY TypeFacts DEF IInv
<1>3. CopyOK(object[n], n, object) /\ rev \in 0..rev
  BY <1>2 DEF IInv, CopiesInv
<1> QED
  BY <1>1, <1>2, <1>3, OpenedKeeps

\* A handle's text as its writer changes it is still a copy of what was read.
LEMMA WriteKeeps ==
    ASSUME IInv, NEW h \in Handles, NEW k \in Keys, Write(h, k)
    PROVE  IInv'
<1> DEFINE c == handle[h]
<1>0. /\ rev \in Nat /\ writes \in 0..MaxWrites /\ c \in HandleTypeAt(rev) /\ StepOK(c)
      /\ MaxWrites \in Nat
  BY TypeFacts, ClientWritesAssumption DEF IInv
<1>1. ASSUME NEW n \in Objs \cup {NoName}, NEW stripped \in BOOLEAN,
             handle' = [handle EXCEPT ![h].edits[k] = writes + 1,
                                      ![h].name = n, ![h].stripped = stripped]
      PROVE  IInv'
  <2> DEFINE edits == [c.edits EXCEPT ![k] = writes + 1]
             new == [c EXCEPT !.edits = edits, !.name = n, !.stripped = stripped]
  <2>1. /\ c.step = "idle" /\ c.kind = "text" /\ writes' = writes + 1 /\ writes < MaxWrites
        /\ UNCHANGED <<object, rev, cache, mustSee>>
    BY DEF Write, At, Written
  <2>2. edits \in Edits
    BY <1>0, <2>1 DEF HandleTypeAt, Edits, Value
  <2>3. handle' = [handle EXCEPT ![h] = new]
    BY <1>1
  <2> HIDE DEF edits
  <2>4. /\ new \in HandleTypeAt(rev) /\ new.kind = "text" /\ new.obj = c.obj
        /\ new.base = c.base /\ new.step = "idle" /\ new.made = c.made
    BY <1>0, <2>1, <2>2 DEF HandleTypeAt
  <2> HIDE DEF new
  <2>5. StepOK(new)
    BY <1>0, <2>1, <2>4 DEF StepOK
  <2>6. CopyOK(new.base, new.obj, object) /\ MadeOK(new, object)
    BY <2>1, <2>4 DEF IInv, CopiesInv, MadeInv, MadeOK
  <2>7. writes' \in 0..MaxWrites
    BY <1>0, <2>1
  <2> QED
    BY <2>1, <2>3, <2>4, <2>5, <2>6, <2>7, HandleStep
<1> QED
  BY <1>1 DEF Write

\* An answer to the caller: the text stays open, any other call is over.
LEMMA AnsweredFacts ==
    ASSUME IInv, NEW h \in Handles, NEW answer \in {"ok", "error"}, Answered(h, answer)
    PROVE  \E new \in HandleTypeAt(rev) :
              /\ handle' = [handle EXCEPT ![h] = new]
              /\ StepOK(new) /\ CopyOK(new.base, new.obj, object) /\ new.step = "idle"
              /\ new.answer = answer
              /\ new.made = 0 \/ (new.kind = "text" /\ new.made = handle[h].made
                                  /\ new.base = handle[h].base /\ handle[h].kind = "text")
<1> DEFINE c == handle[h]
           text == [c EXCEPT !.step = "idle", !.asOf = 0, !.answer = answer]
           none == [NoHandle EXCEPT !.answer = answer]
<1>0. rev \in Nat /\ c \in HandleTypeAt(rev) /\ StepOK(c)
  BY TypeFacts DEF IInv
<1>1. CASE c.kind = "text"
  <2>1. handle' = [handle EXCEPT ![h] = text]
    BY <1>1 DEF Answered
  <2>2. /\ text \in HandleTypeAt(rev) /\ text.kind = "text" /\ text.obj = c.obj
        /\ text.base = c.base /\ text.step = "idle" /\ text.made = c.made
        /\ text.answer = answer
    <3>1. 0 \in 0..rev /\ answer \in {"none", "ok", "error"}
      BY <1>0
    <3> QED
      BY <1>0, <1>1, <3>1 DEF HandleTypeAt
  <2> HIDE DEF text
  <2>3. StepOK(text) /\ CopyOK(text.base, text.obj, object)
    BY <1>0, <1>1, <2>2 DEF StepOK, IInv, CopiesInv
  <2> QED
    BY <1>1, <2>1, <2>2, <2>3
<1>2. CASE c.kind # "text"
  <2>1. handle' = [handle EXCEPT ![h] = none]
    BY <1>2 DEF Answered
  <2>2. /\ none \in HandleTypeAt(rev) /\ none.kind = "none" /\ none.step = "idle"
        /\ none.base.rv = 0 /\ none.made = 0 /\ none.answer = answer
    BY <1>0, NoHandleFacts DEF HandleTypeAt
  <2> HIDE DEF none
  <2>3. StepOK(none) /\ CopyOK(none.base, none.obj, object)
    BY <2>2 DEF StepOK, CopyOK
  <2> QED
    BY <2>1, <2>2, <2>3
<1> QED
  BY <1>1, <1>2

LEMMA AnsweredKeeps ==
    ASSUME IInv, NEW h \in Handles, NEW answer \in {"ok", "error"}, Answered(h, answer),
           UNCHANGED <<object, rev, cache, writes, mustSee>>
    PROVE  IInv'
<1>1. PICK new \in HandleTypeAt(rev) :
              /\ handle' = [handle EXCEPT ![h] = new]
              /\ StepOK(new) /\ CopyOK(new.base, new.obj, object) /\ new.step = "idle"
              /\ new.made = 0 \/ (new.kind = "text" /\ new.made = handle[h].made
                                  /\ new.base = handle[h].base /\ handle[h].kind = "text")
  BY AnsweredFacts
<1>2. MadeOK(new, object)
  BY <1>1 DEF IInv, MadeInv, MadeOK
<1>3. writes' \in 0..MaxWrites
  BY TypeFacts DEF IInv
<1> QED
  BY <1>1, <1>2, <1>3, HandleStep

\* ApplyObject: refused without a name, or on its way.
LEMMA ApplyBeginsKeeps ==
    ASSUME IInv, NEW h \in Handles, ApplyBegins(h)
    PROVE  IInv'
<1> DEFINE c == handle[h]
           new == [c EXCEPT !.step = "put"]
<1>0. rev \in Nat /\ writes \in 0..MaxWrites /\ c \in HandleTypeAt(rev) /\ StepOK(c)
  BY TypeFacts DEF IInv
<1>1. /\ c.step = "idle" /\ c.kind = "text"
      /\ UNCHANGED <<object, rev, cache, writes, mustSee>>
  BY DEF ApplyBegins, At
<1>2. CASE c.name = NoName
  BY <1>1, <1>2, AnsweredKeeps DEF ApplyBegins
<1>3. CASE c.name # NoName
  <2>1. handle' = [handle EXCEPT ![h] = new]
    BY <1>3 DEF ApplyBegins
  <2>2. /\ new \in HandleTypeAt(rev) /\ new.kind = "text" /\ new.obj = c.obj
        /\ new.base = c.base /\ new.step = "put" /\ new.made = c.made
        /\ new.name \in Objs
    BY <1>0, <1>1, <1>3 DEF HandleTypeAt
  <2> HIDE DEF new
  <2>3. StepOK(new) /\ CopyOK(new.base, new.obj, object) /\ MadeOK(new, object)
    BY <1>0, <1>1, <2>2 DEF StepOK, IInv, CopiesInv, MadeInv, MadeOK
  <2> QED
    BY <1>0, <1>1, <2>1, <2>2, <2>3, HandleStep
<1> QED
  BY <1>2, <1>3

\* The calls that need no text.
LEMMA CalledKeeps ==
    ASSUME IInv, NEW h \in Handles, NEW n \in Objs, NEW edits \in Edits,
           NEW kind \in {"key", "create", "delete"}, NEW step \in {"get", "put"},
           kind = "key" <=> step = "get",
           Called(h, kind, n, edits, step), writes' \in 0..MaxWrites
    PROVE  IInv'
<1> DEFINE new == [NoHandle EXCEPT !.kind = kind, !.obj = n, !.name = n, !.edits = edits,
                                   !.step = step]
<1>0. rev \in Nat
  BY TypeFacts DEF IInv
<1>1. /\ handle' = [handle EXCEPT ![h] = new]
      /\ UNCHANGED <<object, rev, cache, mustSee>>
  BY DEF Called
<1>2. /\ new \in HandleTypeAt(rev) /\ new.kind = kind /\ new.obj = n /\ new.name = n
      /\ new.base.rv = 0 /\ new.step = step /\ new.made = 0 /\ ~ new.stripped
  <2>1. /\ NoHandle \in HandleTypeAt(rev) /\ NoHandle.made = 0 /\ NoHandle.base.rv = 0
        /\ ~ NoHandle.stripped
    BY <1>0, NoHandleFacts DEF NoHandle
  <2> QED
    BY <2>1 DEF HandleTypeAt
<1> HIDE DEF new
<1>3. StepOK(new) /\ CopyOK(new.base, new.obj, object) /\ MadeOK(new, object)
  BY <1>2 DEF StepOK, CopyOK, MadeOK
<1> QED
  BY <1>1, <1>2, <1>3, HandleStep

LEMMA DeleteKeeps ==
    ASSUME IInv, NEW h \in Handles, NEW n \in Objs, DeleteBegins(h, n)
    PROVE  IInv'
<1>1. writes \in 0..MaxWrites /\ rev \in Nat
  BY TypeFacts DEF IInv
<1>2. NoEdits \in Edits
  BY <1>1, NoHandleFacts
<1> QED
  BY <1>1, <1>2, CalledKeeps DEF DeleteBegins

LEMMA CallsKeep ==
    ASSUME IInv, NEW h \in Handles, NEW n \in Objs, NEW k \in Keys,
           UpdateKeyBegins(h, n, k) \/ CreateBegins(h, n, k)
    PROVE  IInv'
<1>0. writes \in 0..MaxWrites /\ rev \in Nat /\ MaxWrites \in Nat
  BY TypeFacts, ClientWritesAssumption DEF IInv
<1>1. NoEdits \in Edits
  BY <1>0, NoHandleFacts
<1>2. writes < MaxWrites /\ writes' = writes + 1
  BY DEF UpdateKeyBegins, CreateBegins, Written
<1>3. [NoEdits EXCEPT ![k] = writes + 1] \in Edits
  BY <1>0, <1>1, <1>2 DEF Edits, Value
<1>4. writes' \in 0..MaxWrites
  BY <1>0, <1>2
<1> QED
  BY <1>3, <1>4, CalledKeeps DEF UpdateKeyBegins, CreateBegins

\* UpdateObjectDataKey has read the object.
LEMMA GetAnsweredKeeps ==
    ASSUME IInv, NEW h \in Handles, GetAnswered(h)
    PROVE  IInv'
<1> DEFINE c == handle[h]
           o == object[c.obj]
           new == [c EXCEPT !.step = "put", !.base = o]
<1>0. /\ rev \in Nat /\ writes \in 0..MaxWrites /\ c \in HandleTypeAt(rev) /\ StepOK(c)
      /\ object \in [Objs -> ObjectTypeAt(rev)]
  BY TypeFacts DEF IInv
<1>1. /\ c.step = "get" /\ o.rv # 0
      /\ handle' = [handle EXCEPT ![h] = new]
      /\ UNCHANGED <<object, rev, cache, writes, mustSee>>
  BY DEF GetAnswered, At
<1>2. c.kind = "key" /\ c.obj \in Objs /\ c.name = c.obj /\ ~ c.stripped
  BY <1>0, <1>1 DEF StepOK
<1>3. o \in ObjectTypeAt(rev) /\ CopyOK(o, c.obj, object)
  BY <1>0, <1>2 DEF IInv, CopiesInv
<1> HIDE DEF o
<1>4. /\ new \in HandleTypeAt(rev) /\ new.kind = "key" /\ new.obj = c.obj
      /\ new.name = c.obj /\ ~ new.stripped
      /\ new.base = o /\ new.step = "put" /\ new.made = c.made
  BY <1>0, <1>2, <1>3 DEF HandleTypeAt
<1> HIDE DEF new
<1>5. StepOK(new) /\ CopyOK(new.base, new.obj, object) /\ MadeOK(new, object)
  BY <1>1, <1>2, <1>3, <1>4 DEF StepOK, IInv, MadeInv, MadeOK
<1> QED
  BY <1>0, <1>1, <1>4, <1>5, HandleStep
\* An error.
LEMMA ErrorsKeep ==
    ASSUME IInv, NEW h \in Handles, RequestFails(h) \/ AnswerLost(h)
    PROVE  IInv'
BY AnsweredKeeps DEF RequestFails, AnswerLost

-----------------------------------------------------------------------------
\* An answer is cached: no older than the saves it had to see.
LEMMA FillCacheKeeps ==
    ASSUME IInv, NEW h \in Handles, FillCache(h)
    PROVE  IInv'
<1> DEFINE c == handle[h]
           entry == [asOf |-> c.asOf, object |-> c.base]
           new == [c EXCEPT !.step = "idle", !.asOf = 0]
<1>0. /\ rev \in Nat /\ writes \in 0..MaxWrites /\ c \in HandleTypeAt(rev) /\ StepOK(c)
      /\ rev \in InitRev..MaxRev
      /\ object \in [Objs -> ObjectTypeAt(rev)]
      /\ cache \in [Objs -> SUBSET EntryTypeAt(rev)]
      /\ handle \in [Handles -> HandleTypeAt(rev)]
      /\ mustSee \in [Objs -> 0..rev]
      /\ \A g \in Handles : handle[g] \in HandleTypeAt(rev) /\ StepOK(handle[g])
  BY TypeFacts DEF IInv
<1>1. /\ c.step = "filling"
      /\ cache' = [cache EXCEPT ![c.obj] = {entry}]
      /\ handle' = [handle EXCEPT ![h] = new]
      /\ UNCHANGED <<object, rev, writes, mustSee>>
  BY DEF FillCache, At
<1>2. c.kind = "text" /\ c.obj \in Objs /\ c.base.rv # 0
  BY <1>0, <1>1 DEF StepOK
<1>3. /\ entry \in EntryTypeAt(rev) /\ entry.asOf = c.asOf /\ entry.object = c.base
  BY <1>0 DEF EntryTypeAt, HandleTypeAt
<1>4. /\ new \in HandleTypeAt(rev) /\ new.kind = "text" /\ new.obj = c.obj
      /\ new.base = c.base /\ new.step = "idle" /\ new.made = c.made
  <2>1. 0 \in 0..rev
    BY <1>0
  <2> QED
    BY <1>0, <1>2, <2>1 DEF HandleTypeAt
<1> HIDE DEF entry, new
<1>5. /\ handle' \in [Handles -> HandleTypeAt(rev)]
      /\ handle'[h] = new
      /\ \A g \in Handles \ {h} : handle'[g] = handle[g]
  BY <1>0, <1>1, <1>4
<1>6. /\ cache' \in [Objs -> SUBSET EntryTypeAt(rev)]
      /\ cache'[c.obj] = {entry}
      /\ \A n \in Objs \ {c.obj} : cache'[n] = cache[n]
  BY <1>0, <1>1, <1>2, <1>3
<1>7. TypeInv'
  <2>1. \A g \in Handles : StepOK(handle'[g])
    BY <1>0, <1>2, <1>4, <1>5 DEF StepOK
  <2>2. \A n \in Objs : \A e, f \in cache'[n] : e = f
    BY <1>6 DEF IInv, TypeInv, TypeOK
  <2> QED
    BY <1>0, <1>1, <1>5, <1>6, <2>1, <2>2
       DEF TypeInv, TypeOK, ObjectTypeAt, EntryTypeAt, HandleTypeAt, ObjectType, HandleType
<1>8. CopiesInv'
  BY <1>1, <1>2, <1>3, <1>4, <1>5, <1>6 DEF IInv, CopiesInv
<1>9. MadeInv'
  BY <1>1, <1>2, <1>4, <1>5 DEF IInv, MadeInv, MadeOK
<1>10. FreshInv'
  <2>1. c.asOf >= mustSee[c.obj]
    BY <1>1 DEF IInv, FreshInv, FillOK
  <2>2. CacheSeesQuietSaves'
    BY <1>1, <1>3, <1>6, <2>1 DEF IInv, FreshInv, CacheSeesQuietSaves
  <2>3. \A f, g \in Handles : FillOK(handle'[f], handle'[g], mustSee)
    BY <1>4, <1>5 DEF IInv, FreshInv, FillOK
  <2> QED
    BY <1>1, <2>2, <2>3 DEF FreshInv
<1> QED
  BY <1>7, <1>8, <1>9, <1>10 DEF IInv

LEMMA ExpireKeeps ==
    ASSUME IInv, NEW n \in Objs, Expire(n)
    PROVE  IInv'
<1>0. /\ cache \in [Objs -> SUBSET EntryTypeAt(rev)]
      /\ \A m \in Objs : \A e, f \in cache[m] : e = f
  BY TypeFacts DEF IInv, TypeInv, TypeOK
<1>1. /\ cache' = [cache EXCEPT ![n] = {}]
      /\ UNCHANGED <<object, rev, handle, writes, mustSee>>
  BY DEF Expire
<1>2. /\ cache' \in [Objs -> SUBSET EntryTypeAt(rev)]
      /\ \A m \in Objs : cache'[m] \subseteq cache[m]
  BY <1>0, <1>1
<1>3. TypeInv'
  BY <1>0, <1>1, <1>2 DEF IInv, TypeInv, TypeOK, EntryTypeAt, ObjectTypeAt, ObjectType,
       HandleType, StepOK
<1>4. CopiesInv' /\ MadeInv'
  BY <1>1, <1>2 DEF IInv, CopiesInv, MadeInv
<1>5. FreshInv'
  BY <1>1, <1>2 DEF IInv, FreshInv, CacheSeesQuietSaves
<1> QED
  BY <1>3, <1>4, <1>5 DEF IInv

-----------------------------------------------------------------------------
\* A change of object n gives it a resourceVersion of its own, or takes it
\* away: what was a copy of an object is still one, or a copy of none; what was
\* a copy of none stays one.
LEMMA ChangedFacts ==
    ASSUME IInv, NEW n \in Objs, NEW o \in ObjectTypeAt(rev + 1),
           o.rv \in {0, rev + 1}, Changed(n, o)
    PROVE  /\ rev' = rev + 1 /\ rev' \in InitRev..MaxRev /\ rev \in Nat
           /\ object' \in [Objs -> ObjectTypeAt(rev')]
           /\ object'[n] = o
           /\ \A m \in Objs \ {n} : object'[m] = object[m]
           /\ \A m \in Objs : CopyOK(object'[m], m, object')
           /\ \A p \in ObjectTypeAt(rev), m \in Objs \cup {NoName} :
                 CopyOK(p, m, object) => CopyOK(p, m, object')
           /\ \A p \in ObjectTypeAt(rev) :
                 p.rv # 0 /\ (\A m \in Objs : object[m].rv # p.rv)
                     => \A m \in Objs : object'[m].rv # p.rv
<1>0. /\ rev \in Nat /\ rev \in InitRev..MaxRev /\ object \in [Objs -> ObjectTypeAt(rev)]
      /\ ObjectTypeAt(rev) \subseteq ObjectTypeAt(rev + 1)
  BY TypeFacts, TypesGrow DEF IInv
<1>1. /\ rev' = rev + 1 /\ rev < MaxRev
      /\ object' = [object EXCEPT ![n] = o]
  BY DEF Changed
<1>2. rev' \in InitRev..MaxRev
  BY <1>0, <1>1, ClientWritesAssumption
<1>3. /\ object' \in [Objs -> ObjectTypeAt(rev + 1)]
      /\ object'[n] = o
      /\ \A m \in Objs \ {n} : object'[m] = object[m]
  BY <1>0, <1>1
<1>4. \A p \in ObjectTypeAt(rev) : p.rv \in 0..rev
  BY DEF ObjectTypeAt
<1>5. ASSUME NEW p \in ObjectTypeAt(rev), p.rv # 0, NEW m \in Objs, object'[m].rv = p.rv
      PROVE  m # n /\ object'[m] = object[m]
  BY <1>0, <1>3, <1>4, <1>5
<1>6. ASSUME NEW p \in ObjectTypeAt(rev), NEW m, CopyOK(p, m, object)
      PROVE  CopyOK(p, m, object')
  BY <1>5, <1>6 DEF CopyOK
<1>7. ASSUME NEW m \in Objs PROVE CopyOK(object'[m], m, object')
  <2>1. CASE m = n
    <3>1. ASSUME NEW l \in Objs, object'[l].rv = o.rv, o.rv # 0
          PROVE  l = n
      BY <1>0, <1>3, <1>4, <3>1
    <3> QED
      BY <1>3, <2>1, <3>1 DEF CopyOK
  <2>2. CASE m # n
    <3>1. CopyOK(object[m], m, object) /\ object[m] \in ObjectTypeAt(rev)
      BY <1>0 DEF IInv, CopiesInv
    <3> QED
      BY <1>3, <1>6, <2>2, <3>1
  <2> QED
    BY <2>1, <2>2
<1>8. ASSUME NEW p \in ObjectTypeAt(rev), p.rv # 0, \A m \in Objs : object[m].rv # p.rv
      PROVE  \A m \in Objs : object'[m].rv # p.rv
  BY <1>5, <1>8
<1> QED
  BY <1>0, <1>1, <1>2, <1>3, <1>6, <1>7, <1>8

\* Other clients change an object, or remove it.
LEMMA ElsewhereKeeps ==
    ASSUME IInv, NEW n \in Objs, NEW o \in ObjectTypeAt(rev + 1),
           o.rv \in {0, rev + 1}, Changed(n, o),
           writes' \in 0..MaxWrites, UNCHANGED <<cache, handle, mustSee>>
    PROVE  IInv'
<1>0. /\ rev \in Nat /\ cache \in [Objs -> SUBSET EntryTypeAt(rev)]
      /\ handle \in [Handles -> HandleTypeAt(rev)]
      /\ mustSee \in [Objs -> 0..rev]
      /\ \A g \in Handles : handle[g] \in HandleTypeAt(rev) /\ StepOK(handle[g])
  BY TypeFacts DEF IInv
<1>1. /\ rev' = rev + 1 /\ rev' \in InitRev..MaxRev
      /\ object' \in [Objs -> ObjectTypeAt(rev')]
      /\ \A m \in Objs : CopyOK(object'[m], m, object')
      /\ \A p \in ObjectTypeAt(rev), m \in Objs \cup {NoName} :
            CopyOK(p, m, object) => CopyOK(p, m, object')
      /\ \A p \in ObjectTypeAt(rev) :
            p.rv # 0 /\ (\A m \in Objs : object[m].rv # p.rv)
                => \A m \in Objs : object'[m].rv # p.rv
  BY ChangedFacts
<1>2. /\ HandleTypeAt(rev) \subseteq HandleTypeAt(rev')
      /\ EntryTypeAt(rev) \subseteq EntryTypeAt(rev') /\ 0..rev \subseteq 0..rev'
  BY <1>0, <1>1, TypesGrow
<1>3. TypeInv'
  <2>1. /\ cache' \in [Objs -> SUBSET EntryTypeAt(rev')]
        /\ handle' \in [Handles -> HandleTypeAt(rev')]
        /\ mustSee' \in [Objs -> 0..rev']
    BY <1>0, <1>2
  <2>2. \A m \in Objs : \A e, f \in cache'[m] : e = f
    BY DEF IInv, TypeInv, TypeOK
  <2> QED
    BY <1>0, <1>1, <2>1, <2>2
       DEF TypeInv, TypeOK, ObjectTypeAt, EntryTypeAt, HandleTypeAt, ObjectType, HandleType
<1>4. CopiesInv'
  <2>1. ASSUME NEW m \in Objs, NEW e \in cache[m]
        PROVE  e.object.rv # 0 /\ CopyOK(e.object, m, object')
    <3>1. e.object \in ObjectTypeAt(rev)
      BY <1>0 DEF EntryTypeAt
    <3> QED
      BY <1>1, <3>1 DEF IInv, CopiesInv
  <2>2. ASSUME NEW g \in Handles
        PROVE  CopyOK(handle[g].base, handle[g].obj, object')
    <3>1. handle[g].base \in ObjectTypeAt(rev) /\ handle[g].obj \in Objs \cup {NoName}
      BY <1>0 DEF HandleTypeAt
    <3> QED
      BY <1>1, <3>1 DEF IInv, CopiesInv
  <2> QED
    BY <1>1, <2>1, <2>2 DEF CopiesInv
<1>5. MadeInv'
  <2>1. ASSUME NEW g \in Handles PROVE MadeOK(handle[g], object')
    <3>1. handle[g].base \in ObjectTypeAt(rev) /\ MadeOK(handle[g], object)
      BY <1>0 DEF HandleTypeAt, IInv, MadeInv
    <3>2. handle[g].kind = "text" => handle[g].base.rv # 0
      BY <1>0 DEF StepOK
    <3> QED
      BY <1>1, <3>1, <3>2 DEF MadeOK
  <2> QED
    BY <2>1 DEF MadeInv
<1>6. FreshInv'
  BY DEF IInv, FreshInv, CacheSeesQuietSaves
<1> QED
  BY <1>3, <1>4, <1>5, <1>6 DEF IInv

LEMMA OthersKeep ==
    ASSUME IInv, NEW n \in Objs, OthersWrite(n) \/ OthersDelete(n)
    PROVE  IInv'
<1>0. /\ rev \in Nat /\ writes \in 0..MaxWrites /\ MaxWrites \in Nat
      /\ object[n] \in ObjectTypeAt(rev)
  BY TypeFacts, ClientWritesAssumption DEF IInv
<1>1. CASE OthersDelete(n)
  <2>1. NoObject \in ObjectTypeAt(rev + 1) /\ NoObject.rv = 0
    BY <1>0, NoHandleFacts
  <2> QED
    BY <1>0, <1>1, <2>1, ElsewhereKeeps DEF OthersDelete
<1>2. CASE OthersWrite(n)
  <2>1. /\ writes' \in 0..MaxWrites /\ writes < MaxWrites
        /\ UNCHANGED <<cache, handle, mustSee>>
    BY <1>0, <1>2 DEF OthersWrite, Written
  <2>2. PICK k \in Keys : Changed(n, [rv |-> rev + 1,
                                      data |-> [object[n].data EXCEPT ![k] = writes + 1]])
    BY <1>2 DEF OthersWrite
  <2> DEFINE data == [object[n].data EXCEPT ![k] = writes + 1]
             o == [rv |-> rev + 1, data |-> data]
  <2>3. data \in Data
    BY <1>0, <2>1 DEF ObjectTypeAt, Data, Value
  <2> HIDE DEF data
  <2>4. o \in ObjectTypeAt(rev + 1) /\ o.rv = rev + 1
    BY <1>0, <2>3 DEF ObjectTypeAt
  <2>5. Changed(n, o)
    BY <2>2 DEF data
  <2> HIDE DEF o
  <2> QED
    BY <2>1, <2>4, <2>5, ElsewhereKeeps
<1> QED
  BY <1>1, <1>2
-----------------------------------------------------------------------------
\* What the API accepts with a resourceVersion is a change of the object that
\* was read, as it was read.
LEMMA AcceptedFacts ==
    ASSUME IInv, NEW h \in Handles, At(h, "put"), Accepts(h)
    PROVE  /\ handle[h].name \in Objs /\ handle[h].kind \in {"text", "key", "create", "delete"}
           /\ handle[h].kind = "create" <=> object[handle[h].name].rv = 0
           /\ handle[h].kind \in {"text", "key"} /\ ~ handle[h].stripped =>
                 /\ handle[h].base.rv # 0
                 /\ handle[h].name = handle[h].obj
                 /\ object[handle[h].name] = handle[h].base
<1> DEFINE c == handle[h]
<1>1. /\ c \in HandleTypeAt(rev) /\ StepOK(c) /\ c.step = "put"
      /\ CopyOK(c.base, c.obj, object)
  BY TypeFacts DEF IInv, CopiesInv, At
<1>2. c.name \in Objs /\ c.kind \in {"text", "key", "create", "delete"}
  BY <1>1 DEF StepOK, HandleTypeAt
<1>3. c.kind \in {"text", "key"} => c.base.rv # 0
  BY <1>1 DEF StepOK
<1>4. CASE c.kind \in {"text", "key"} /\ ~ c.stripped
  <2>1. object[c.name].rv = c.base.rv /\ object[c.name].rv # 0
    BY <1>4 DEF Accepts
  <2> HIDE DEF c
  <2>2. c.name = c.obj /\ object[c.name] = c.base
    BY <1>1, <1>2, <1>3, <1>4, <2>1 DEF CopyOK
  <2> QED
    BY <1>2, <1>3, <1>4, <2>1, <2>2 DEF c
<1>5. c.kind = "create" <=> object[c.name].rv = 0
  BY <1>2 DEF Accepts
<1> QED
  BY <1>2, <1>4, <1>5

\* The object a request sends.
LEMMA SentType ==
    ASSUME IInv, NEW h \in Handles
    PROVE  Sent(h) \in Data
<1>1. handle[h].base.data \in Data /\ handle[h].edits \in Edits
  BY TypeFacts DEF IInv, HandleTypeAt, ObjectTypeAt
<1> QED
  BY <1>1 DEF Sent, Data, Edits

LEMMA RequestAcceptedKeeps ==
    ASSUME IInv, NEW h \in Handles, RequestAccepted(h)
    PROVE  IInv'
<1> DEFINE c == handle[h]
           o == IF c.kind = "delete" THEN NoObject ELSE [rv |-> rev + 1, data |-> Sent(h)]
           made == IF c.kind = "text" /\ ~ c.stripped THEN c.made + 1 ELSE c.made
           asOf == IF \E g \in Handles : At(g, "filling") THEN 0 ELSE rev + 1
           new == [c EXCEPT !.step = "accepted", !.made = made, !.asOf = asOf]
<1>0. /\ rev \in Nat /\ writes \in 0..MaxWrites
      /\ cache \in [Objs -> SUBSET EntryTypeAt(rev)]
      /\ handle \in [Handles -> HandleTypeAt(rev)]
      /\ mustSee \in [Objs -> 0..rev]
      /\ c \in HandleTypeAt(rev) /\ StepOK(c)
      /\ \A g \in Handles : handle[g] \in HandleTypeAt(rev) /\ StepOK(handle[g])
  BY TypeFacts DEF IInv
<1>1. /\ At(h, "put") /\ Accepts(h) /\ c.step = "put"
      /\ Changed(c.name, o)
      /\ handle' = [handle EXCEPT ![h] = new]
      /\ UNCHANGED <<cache, writes, mustSee>>
  BY DEF RequestAccepted, At
<1>2. /\ c.name \in Objs
      /\ c.kind = "text" /\ ~ c.stripped =>
            c.base.rv # 0 /\ c.name = c.obj /\ object[c.name].rv = c.base.rv
  BY <1>1, AcceptedFacts
<1>3. o \in ObjectTypeAt(rev + 1) /\ o.rv \in {0, rev + 1}
  BY <1>0, SentType, NoHandleFacts DEF ObjectTypeAt
<1>4. MadeOK(c, object)
  BY DEF IInv, MadeInv
<1>5. made \in Nat /\ asOf \in 0..(rev + 1) /\ c.made \in {0, 1}
  BY <1>0, <1>4 DEF MadeOK
<1> HIDE DEF o
<1>6. /\ rev' = rev + 1 /\ rev' \in InitRev..MaxRev
      /\ object' \in [Objs -> ObjectTypeAt(rev')]
      /\ object'[c.name] = o
      /\ \A m \in Objs \ {c.name} : object'[m] = object[m]
      /\ \A m \in Objs : CopyOK(object'[m], m, object')
      /\ \A p \in ObjectTypeAt(rev), m \in Objs \cup {NoName} :
            CopyOK(p, m, object) => CopyOK(p, m, object')
      /\ \A p \in ObjectTypeAt(rev) :
            p.rv # 0 /\ (\A m \in Objs : object[m].rv # p.rv)
                => \A m \in Objs : object'[m].rv # p.rv
  BY <1>1, <1>2, <1>3, ChangedFacts
<1>7. /\ HandleTypeAt(rev) \subseteq HandleTypeAt(rev')
      /\ EntryTypeAt(rev) \subseteq EntryTypeAt(rev') /\ 0..rev \subseteq 0..rev'
  BY <1>0, <1>6, TypesGrow
<1>8. /\ new \in HandleTypeAt(rev') /\ new.kind = c.kind /\ new.obj = c.obj
      /\ new.name = c.name /\ new.base = c.base /\ new.step = "accepted"
      /\ new.stripped = c.stripped /\ new.made = made /\ new.asOf = asOf
  <2>1. c \in HandleTypeAt(rev')
    BY <1>0, <1>7
  <2>2. asOf \in 0..rev'
    BY <1>5, <1>6
  <2> HIDE DEF made, asOf
  <2> QED
    BY <1>5, <2>1, <2>2 DEF HandleTypeAt
<1> HIDE DEF new, made
<1>9. /\ handle' \in [Handles -> HandleTypeAt(rev')]
      /\ handle'[h] = new
      /\ \A g \in Handles \ {h} : handle'[g] = handle[g]
  BY <1>0, <1>1, <1>7, <1>8
<1>10. TypeInv'
  <2>1. cache' \in [Objs -> SUBSET EntryTypeAt(rev')] /\ mustSee' \in [Objs -> 0..rev']
    BY <1>0, <1>1, <1>7
  <2>2. \A m \in Objs : \A e, f \in cache'[m] : e = f
    BY <1>1 DEF IInv, TypeInv, TypeOK
  <2>3. \A g \in Handles : StepOK(handle'[g])
    BY <1>0, <1>1, <1>8, <1>9 DEF StepOK
  <2> QED
    BY <1>0, <1>1, <1>6, <1>9, <2>1, <2>2, <2>3
       DEF TypeInv, TypeOK, ObjectTypeAt, EntryTypeAt, HandleTypeAt, ObjectType, HandleType
<1>11. CopiesInv'
  <2>1. ASSUME NEW m \in Objs, NEW e \in cache[m]
        PROVE  e.object.rv # 0 /\ CopyOK(e.object, m, object')
    <3>1. e.object \in ObjectTypeAt(rev)
      BY <1>0 DEF EntryTypeAt
    <3> QED
      BY <1>6, <3>1 DEF IInv, CopiesInv
  <2>2. ASSUME NEW g \in Handles
        PROVE  CopyOK(handle[g].base, handle[g].obj, object')
    <3>1. handle[g].base \in ObjectTypeAt(rev) /\ handle[g].obj \in Objs \cup {NoName}
      BY <1>0 DEF HandleTypeAt
    <3> QED
      BY <1>6, <3>1 DEF IInv, CopiesInv
  <2> QED
    BY <1>1, <1>6, <1>8, <1>9, <2>1, <2>2 DEF CopiesInv
<1>12. MadeInv'
  <2>1. ASSUME NEW g \in Handles PROVE MadeOK(handle[g], object) => MadeOK(handle[g], object')
    <3>1. handle[g].base \in ObjectTypeAt(rev)
      BY <1>0 DEF HandleTypeAt
    <3>2. handle[g].kind = "text" => handle[g].base.rv # 0
      BY <1>0 DEF StepOK
    <3> QED
      BY <1>6, <3>1, <3>2 DEF MadeOK
  <2>2. MadeOK(new, object')
    <3>1. CASE c.kind = "text" /\ ~ c.stripped
      <4>1. c.made = 0 /\ made = 1
        BY <1>2, <1>4, <3>1 DEF MadeOK, made
      <4>2. ASSUME NEW m \in Objs PROVE object'[m].rv # c.base.rv
        <5>1. c.base.rv \in 0..rev /\ c.base.rv # 0
          BY <1>0, <1>2, <3>1 DEF HandleTypeAt, ObjectTypeAt
        <5>2. CASE m = c.name
          BY <1>0, <1>3, <1>6, <5>1, <5>2
        <5>3. CASE m # c.name
          <6>1. CopyOK(c.base, c.obj, object)
            BY DEF IInv, CopiesInv
          <6> QED
            BY <1>2, <1>6, <3>1, <5>1, <5>3, <6>1 DEF CopyOK
        <5> QED
          BY <5>2, <5>3
      <4> QED
        BY <1>8, <3>1, <4>1, <4>2 DEF MadeOK
    <3>2. CASE ~ (c.kind = "text" /\ ~ c.stripped)
      <4>1. made = c.made
        BY <3>2 DEF made
      <4> QED
        BY <1>4, <1>8, <2>1, <4>1 DEF MadeOK
    <3> QED
      BY <3>1, <3>2
  <2> QED
    BY <1>9, <2>1, <2>2 DEF IInv, MadeInv
<1>13. FreshInv'
  <2>1. ASSUME NEW g \in Handles, g # h PROVE FillOK(handle[g], new, mustSee)
    <3>1. handle[g].step = "filling" => asOf = 0
      BY DEF At
    <3>2. handle[g].asOf \in 0..rev
      BY <1>0 DEF HandleTypeAt
    <3>3. FillOK(handle[g], handle[g], mustSee)
      BY DEF IInv, FreshInv
    <3> HIDE DEF asOf
    <3> QED
      BY <1>0, <1>8, <3>1, <3>2, <3>3 DEF FillOK
  <2>2. \A f, g \in Handles : FillOK(handle'[f], handle'[g], mustSee)
    BY <1>8, <1>9, <2>1 DEF IInv, FreshInv, FillOK
  <2> QED
    BY <1>1, <2>2 DEF IInv, FreshInv, CacheSeesQuietSaves
<1> QED
  BY <1>10, <1>11, <1>12, <1>13 DEF IInv

\* A save that returns drops what is cached of the object it named; an answer
\* still on its way is newer.
LEMMA SaveReturnsKeeps ==
    ASSUME IInv, NEW h \in Handles, SaveReturns(h)
    PROVE  IInv'
<1> DEFINE c == handle[h]
           dropped == IF c.kind = "create" THEN {} ELSE {c.name}
<1>0. /\ rev \in Nat /\ writes \in 0..MaxWrites
      /\ cache \in [Objs -> SUBSET EntryTypeAt(rev)]
      /\ handle \in [Handles -> HandleTypeAt(rev)]
      /\ mustSee \in [Objs -> 0..rev]
      /\ c \in HandleTypeAt(rev) /\ StepOK(c)
      /\ \A g \in Handles : handle[g] \in HandleTypeAt(rev) /\ StepOK(handle[g])
  BY TypeFacts DEF IInv
<1>1. /\ c.step = "accepted" /\ Answered(h, "ok")
      /\ cache' = [n \in Objs |-> IF n \in dropped THEN {} ELSE cache[n]]
      /\ mustSee' = [n \in Objs |-> IF n \in dropped /\ c.asOf > mustSee[n]
                                    THEN c.asOf ELSE mustSee[n]]
      /\ UNCHANGED <<object, rev, writes>>
  BY DEF SaveReturns, At, Invalidated, Concerned
<1>2. PICK new \in HandleTypeAt(rev) :
              /\ handle' = [handle EXCEPT ![h] = new]
              /\ StepOK(new) /\ CopyOK(new.base, new.obj, object) /\ new.step = "idle"
              /\ new.made = 0 \/ (new.kind = "text" /\ new.made = handle[h].made
                                  /\ new.base = handle[h].base /\ handle[h].kind = "text")
  BY <1>1, AnsweredFacts
<1>3. MadeOK(new, object)
  BY <1>2 DEF IInv, MadeInv, MadeOK
<1>4. c.asOf \in 0..rev
  BY <1>0 DEF HandleTypeAt
<1> HIDE DEF dropped
<1>5. /\ handle' \in [Handles -> HandleTypeAt(rev)]
      /\ handle'[h] = new
      /\ \A g \in Handles \ {h} : handle'[g] = handle[g]
  BY <1>0, <1>2
<1>6. /\ cache' \in [Objs -> SUBSET EntryTypeAt(rev)]
      /\ mustSee' \in [Objs -> 0..rev]
      /\ \A n \in Objs : cache'[n] = {} \/ (cache'[n] = cache[n] /\ mustSee'[n] = mustSee[n])
      /\ \A n \in Objs : mustSee'[n] = mustSee[n] \/ mustSee'[n] = c.asOf
  BY <1>0, <1>1, <1>4
<1>7. TypeInv'
  <2>1. \A g \in Handles : StepOK(handle'[g])
    BY <1>0, <1>2, <1>5
  <2>2. \A n \in Objs : \A e, f \in cache'[n] : e = f
    BY <1>6 DEF IInv, TypeInv, TypeOK
  <2>3. rev \in InitRev..MaxRev /\ object \in [Objs -> ObjectTypeAt(rev)]
    BY TypeFacts DEF IInv
  <2> QED
    BY <1>0, <1>1, <1>5, <1>6, <2>1, <2>2, <2>3
       DEF TypeInv, TypeOK, ObjectTypeAt, EntryTypeAt, HandleTypeAt, ObjectType, HandleType
<1>8. CopiesInv'
  BY <1>1, <1>2, <1>5, <1>6 DEF IInv, CopiesInv
<1>9. MadeInv'
  BY <1>1, <1>3, <1>5 DEF IInv, MadeInv
<1>10. FreshInv'
  <2>1. ASSUME NEW g \in Handles, NEW d \in Handles, handle[g].step = "filling"
        PROVE  FillOK(handle[g], handle[d], mustSee')
    <3>1. /\ handle[g].asOf >= mustSee[handle[g].obj] /\ handle[g].asOf >= c.asOf
          /\ handle[d].step = "accepted" => handle[g].asOf >= handle[d].asOf
      BY <1>1, <2>1 DEF IInv, FreshInv, FillOK
    <3>2. handle[g].obj \in Objs
      BY <1>0, <2>1 DEF StepOK
    <3> QED
      BY <1>6, <3>1, <3>2 DEF FillOK
  <2>2. ASSUME NEW f \in Handles, NEW g \in Handles
        PROVE  FillOK(handle'[f], handle'[g], mustSee')
    BY <1>2, <1>5, <2>1 DEF FillOK
  <2>3. CacheSeesQuietSaves'
    BY <1>6 DEF IInv, FreshInv, CacheSeesQuietSaves
  <2> QED
    BY <2>2, <2>3 DEF FreshInv
<1> QED
  BY <1>7, <1>8, <1>9, <1>10 DEF IInv

-----------------------------------------------------------------------------
\* IInv is an invariant.
LEMMA IInvHolds == Spec => []IInv
<1>1. Init => IInv
  <2> SUFFICES ASSUME Init PROVE IInv
    OBVIOUS
  <2>1. PICK rvs \in [Objs -> 0..InitRev] :
            /\ \A m, n \in Objs : rvs[m] = rvs[n] /\ rvs[m] # 0 => m = n
            /\ object = [n \in Objs |-> [rv |-> rvs[n], data |-> NoData]]
    BY DEF Init
  <2>2. /\ rev = InitRev /\ writes = 0
        /\ cache = [n \in Objs |-> {}] /\ mustSee = [n \in Objs |-> 0]
        /\ handle = [h \in Handles |-> NoHandle]
    BY DEF Init
  <2>3. InitRev \in Nat /\ NoHandle \in HandleTypeAt(InitRev) /\ NoData \in Data
    BY ClientWritesAssumption, NoHandleFacts
  <2>4. object \in [Objs -> ObjectTypeAt(rev)]
    BY <2>1, <2>2, <2>3 DEF ObjectTypeAt
  <2>5. StepOK(NoHandle) /\ MadeOK(NoHandle, object)
        /\ CopyOK(NoHandle.base, NoHandle.obj, object)
        /\ FillOK(NoHandle, NoHandle, mustSee)
    BY <2>3, NoHandleFacts DEF StepOK, MadeOK, CopyOK, FillOK
  <2>6. rev \in InitRev..MaxRev
    BY <2>2, ClientWritesAssumption
  <2>7. TypeInv
    BY <2>2, <2>3, <2>4, <2>5, <2>6, ClientWritesAssumption
       DEF TypeInv, TypeOK, ObjectTypeAt, HandleTypeAt, ObjectType, HandleType
  <2>8. CopiesInv
    BY <2>1, <2>2, <2>5 DEF CopiesInv, CopyOK
  <2>9. MadeInv /\ FreshInv
    BY <2>2, <2>5 DEF MadeInv, FreshInv, CacheSeesQuietSaves
  <2> QED
    BY <2>7, <2>8, <2>9 DEF IInv
<1>2. IInv /\ [Next]_vars => IInv'
  <2> SUFFICES ASSUME IInv, [Next]_vars PROVE IInv'
    OBVIOUS
  <2>1. CASE UNCHANGED vars
    BY <2>1 DEF vars, IInv, TypeInv, TypeOK, ObjectType, HandleType, CopiesInv, MadeInv,
       FreshInv, CacheSeesQuietSaves
  <2>2. ASSUME NEW h \in Handles, NEW n \in Objs, OpenCached(h, n) \/ OpenAnswered(h, n)
        PROVE  IInv'
    BY <2>2, OpenCachedKeeps, OpenAnsweredKeeps
  <2>3. ASSUME NEW h \in Handles, NEW n \in Objs, DeleteBegins(h, n)
        PROVE  IInv'
    BY <2>3, DeleteKeeps
  <2>4. ASSUME NEW h \in Handles, NEW n \in Objs, NEW k \in Keys,
               UpdateKeyBegins(h, n, k) \/ CreateBegins(h, n, k)
        PROVE  IInv'
    BY <2>4, CallsKeep
  <2>5. ASSUME NEW h \in Handles, NEW k \in Keys, Write(h, k)
        PROVE  IInv'
    BY <2>5, WriteKeeps
  <2>6. ASSUME NEW h \in Handles,
               \/ FillCache(h) \/ ApplyBegins(h) \/ GetAnswered(h) \/ RequestFails(h)
               \/ RequestAccepted(h) \/ AnswerLost(h) \/ SaveReturns(h)
        PROVE  IInv'
    BY <2>6, FillCacheKeeps, ApplyBeginsKeeps, GetAnsweredKeeps, ErrorsKeep,
       RequestAcceptedKeeps, SaveReturnsKeeps
  <2>7. ASSUME NEW n \in Objs, Expire(n)
        PROVE  IInv'
    BY <2>7, ExpireKeeps
  <2>8. ASSUME NEW n \in Objs, OthersWrite(n) \/ OthersDelete(n)
        PROVE  IInv'
    BY <2>8, OthersKeep
  <2> QED
    BY <2>1, <2>2, <2>3, <2>4, <2>5, <2>6, <2>7, <2>8 DEF Next
<1> QED
  BY <1>1, <1>2, PTL DEF Spec

-----------------------------------------------------------------------------
\* Every variable keeps its type.
THEOREM ClientWritesTypeCorrect == Spec => []TypeOK
<1>1. IInv => TypeOK
  BY DEF IInv, TypeInv
<1> QED
  BY <1>1, IInvHolds, PTL

\* FlushHandle, ApplyObject: a text that has its resourceVersion changes its
\* object at most once, however often it is saved and whatever answers are lost.
THEOREM TextsAreSavedOnce == Spec => []TextSavedOnce
<1>1. ASSUME IInv, NEW h \in Handles PROVE handle[h].made <= 1
  <2>1. handle[h].made \in {0, 1}
    BY <1>1 DEF IInv, MadeInv, MadeOK
  <2> QED
    BY <2>1
<1>2. IInv => TextSavedOnce
  BY <1>1 DEF TextSavedOnce
<1> QED
  BY <1>2, IInvHolds, PTL

\* InvalidateObject: no text is cached that is older than a save of its object
\* that returned and that no fetch overlapped.
THEOREM CacheIsFresh == Spec => []CacheSeesQuietSaves
<1>1. IInv => CacheSeesQuietSaves
  BY DEF IInv, FreshInv
<1> QED
  BY <1>1, IInvHolds, PTL

-----------------------------------------------------------------------------
\* The refinement, with a handle's record as a parameter.
ContentAt(o) == IF o.rv = 0 THEN {} ELSE {o.data}

SentAt(c) == [k \in Keys |-> IF c.edits[k] = Kept THEN c.base.data[k] ELSE c.edits[k]]

EditsAt(c) == CASE OpOf(c) = "edit"   -> c.edits
                [] OpOf(c) = "delete" -> NoEdits
                [] OTHER              -> SentAt(c)

RequestAt(c, status) ==
    [status |-> status, op |-> OpOf(c), name |-> c.name, edits |-> EditsAt(c)]

SaveAt(c) ==
    CASE c.step \in {"get", "put"} -> RequestAt(c, "pending")
      [] c.step = "accepted"       -> RequestAt(c, "done")
      [] OTHER -> [status |-> "idle", answer |-> c.answer]

StoreBar == [n \in Objs |-> ContentAt(object[n])]
SaveBar  == [h \in Handles |-> SaveAt(handle[h])]

LEMMA BarsAreStores ==
    /\ SaveBar = [h \in Handles |-> SaveOf(h)]
    /\ StoreBar = [n \in Objs |-> IF object[n].rv = 0 THEN {} ELSE {object[n].data}]
<1>1. \A h \in Handles : SaveOf(h) = SaveAt(handle[h])
  BY DEF SaveOf, SaveAt, RequestAt, EditsAt, SentAt, Sent
<1> QED
  BY <1>1 DEF SaveBar, StoreBar, ContentAt

\* The requests of well-formed calls are requests of the store.
LEMMA RequestFacts ==
    ASSUME NEW r \in Nat, NEW c \in HandleTypeAt(r), StepOK(c)
    PROVE  /\ c.step \in {"get", "put"} => SaveAt(c) \in Store!Request
           /\ c.step \in {"get", "put"} => SaveAt(c) = RequestAt(c, "pending")
           /\ c.step = "accepted" => SaveAt(c) = RequestAt(c, "done")
           /\ c.step \in {"idle", "filling"} => SaveAt(c) = Store!Idle(c.answer)
           /\ SentAt(c) \in Data
<1>1. /\ c.edits \in Edits /\ c.base.data \in Data
      /\ c.step \in {"get", "put"} => c.name \in Objs
  BY DEF HandleTypeAt, ObjectTypeAt, StepOK
<1>2. SentAt(c) \in Data
  BY <1>1 DEF SentAt, Data, Edits
<1>3. NoEdits \in Edits /\ Data \subseteq Edits
  BY NoHandleFacts DEF Data, Edits
<1>4. OpOf(c) \in {"edit", "replace", "create", "delete"}
  BY DEF OpOf
<1>5. EditsAt(c) \in Edits
  BY <1>1, <1>2, <1>3, <1>4 DEF EditsAt
<1>6. c.step \in {"get", "put"} => RequestAt(c, "pending") \in Store!Request
  BY <1>1, <1>4, <1>5 DEF RequestAt, Store!Request, Store!Edits, Edits
<1> QED
  BY <1>2, <1>6 DEF SaveAt, Store!Idle

LEMMA InitImplements == Init => Store!Init
<1> SUFFICES ASSUME Init PROVE Store!Init
  OBVIOUS
<1>1. PICK rvs \in [Objs -> 0..InitRev] :
          object = [n \in Objs |-> [rv |-> rvs[n], data |-> NoData]]
  BY DEF Init
<1>2. NoData \in Data /\ NoHandle.step = "idle" /\ NoHandle.answer = "none"
  BY ClientWritesAssumption, NoHandleFacts
<1>3. SaveAt(NoHandle) = Store!Idle("none")
  BY <1>2 DEF SaveAt, Store!Idle
<1>4. SaveBar = [h \in Handles |-> Store!Idle("none")]
  BY <1>3 DEF Init, SaveBar
<1>5. StoreBar \in [Objs -> Store!Content]
  BY <1>1, <1>2 DEF StoreBar, ContentAt, Store!Content, Store!Data, Data
<1> QED
  BY <1>4, <1>5, BarsAreStores DEF Store!Init

\* What a step does to the record of one handle it does to its save.
LEMMA BarStep ==
    ASSUME IInv, NEW h \in Handles, NEW new, handle' = [handle EXCEPT ![h] = new]
    PROVE  SaveBar' = [SaveBar EXCEPT ![h] = SaveAt(new)]
<1>1. handle \in [Handles -> HandleTypeAt(rev)]
  BY TypeFacts DEF IInv
<1> QED
  BY <1>1 DEF SaveBar

LEMMA BarsAreStoresNext ==
    /\ SaveBar' = [h \in Handles |-> SaveOf(h)]'
    /\ StoreBar' = [n \in Objs |-> IF object[n].rv = 0 THEN {} ELSE {object[n].data}]'
<1>1. \A h \in Handles : SaveOf(h)' = SaveAt(handle'[h])
  BY DEF SaveOf, SaveAt, RequestAt, EditsAt, SentAt, Sent
<1> QED
  BY <1>1 DEF SaveBar, StoreBar, ContentAt

\* The steps of the store, in terms of SaveBar and StoreBar.
LEMMA StoreSteps ==
    ASSUME NEW h \in Handles, NEW s, SaveBar' = [SaveBar EXCEPT ![h] = s]
    PROVE  /\ StoreBar' = StoreBar /\ SaveBar[h].status = "idle" /\ s \in Store!Request
                 => Store!Begin(h)
           /\ StoreBar' = StoreBar /\ s = Store!Idle("error")
                 => Store!Return(h)
           /\ StoreBar' = StoreBar /\ s = Store!Idle("ok") /\ SaveBar[h].status = "done"
                 => Store!Return(h)
           /\ StoreBar' = StoreBar /\ s = Store!Idle("none") /\ SaveBar[h].status = "idle"
                 => Store!Renew(h)
           /\ StoreBar' = StoreBar /\ s = SaveBar[h]
                 => UNCHANGED Store!vars
<1>1. SaveBar'[h] = s /\ SaveBar' = [SaveBar EXCEPT ![h] = SaveBar'[h]]
  BY DEF SaveBar
<1>2. s = SaveBar[h] => SaveBar' = SaveBar
  BY DEF SaveBar
<1> QED
  BY <1>1, <1>2, BarsAreStores, BarsAreStoresNext
     DEF Store!Begin, Store!Return, Store!Renew, Store!vars

\* Steps that change the record of a handle and no object.
LEMMA RecordImplements ==
    ASSUME IInv, NEW h \in Handles, NEW new \in HandleTypeAt(rev), StepOK(new),
           handle' = [handle EXCEPT ![h] = new], UNCHANGED object
    PROVE  LET c == handle[h]
               idle(d) == d.step \in {"idle", "filling"}
           IN  /\ idle(c) /\ new.step \in {"get", "put"}            => Store!Begin(h)
               /\ idle(new) /\ new.answer = "error"                 => Store!Return(h)
               /\ c.step = "accepted" /\ idle(new) /\ new.answer = "ok" => Store!Return(h)
               /\ idle(c) /\ idle(new) /\ new.answer = "none"       => Store!Renew(h)
               /\ SaveAt(new) = SaveAt(c)                           => UNCHANGED Store!vars
<1> DEFINE c == handle[h]
<1>0. rev \in Nat /\ c \in HandleTypeAt(rev) /\ StepOK(c)
  BY TypeFacts DEF IInv
<1>1. SaveBar' = [SaveBar EXCEPT ![h] = SaveAt(new)] /\ SaveBar[h] = SaveAt(c)
  BY BarStep DEF SaveBar
<1>2. StoreBar' = StoreBar
  BY DEF StoreBar
<1>3. /\ c.step \in {"idle", "filling"} => SaveBar[h].status = "idle"
      /\ c.step = "accepted" => SaveBar[h].status = "done"
  BY <1>0, <1>1, RequestFacts DEF RequestAt, Store!Idle
<1>4. /\ new.step \in {"get", "put"} => SaveAt(new) \in Store!Request
      /\ new.step \in {"idle", "filling"} => SaveAt(new) = Store!Idle(new.answer)
  BY <1>0, RequestFacts
<1> QED
  BY <1>1, <1>2, <1>3, <1>4, StoreSteps

LEMMA OpenedImplements ==
    ASSUME IInv, NEW h \in Handles, NEW n \in Objs, NEW base \in ObjectTypeAt(rev),
           NEW step \in {"idle", "filling"}, NEW asOf \in 0..rev,
           base.rv # 0, Opened(h, n, base, step, asOf)
    PROVE  Store!Renew(h)
<1> DEFINE new == [NoHandle EXCEPT !.kind = "text", !.obj = n, !.name = n, !.base = base,
                                   !.step = step, !.asOf = asOf]
<1>0. rev \in Nat
  BY TypeFacts DEF IInv
<1>1. handle' = [handle EXCEPT ![h] = new] /\ UNCHANGED object /\ handle[h].step = "idle"
  BY DEF Opened, At
<1>2. /\ new \in HandleTypeAt(rev) /\ new.kind = "text" /\ new.obj = n /\ new.base = base
      /\ new.step = step /\ new.answer = "none"
  <2>1. NoHandle \in HandleTypeAt(rev) /\ NoHandle.answer = "none"
    BY <1>0, NoHandleFacts
  <2> QED
    BY <2>1 DEF HandleTypeAt
<1> HIDE DEF new
<1>3. StepOK(new)
  BY <1>2 DEF StepOK
<1> QED
  BY <1>1, <1>2, <1>3, RecordImplements

LEMMA ReadsImplement ==
    ASSUME IInv, NEW h \in Handles, NEW n \in Objs, OpenCached(h, n) \/ OpenAnswered(h, n)
    PROVE  Store!Renew(h)
<1>0. /\ rev \in Nat /\ object[n] \in ObjectTypeAt(rev)
      /\ \A e \in cache[n] : e \in EntryTypeAt(rev) /\ e.object.rv # 0
  BY TypeFacts DEF IInv, CopiesInv
<1>1. \A e \in cache[n] : e.object \in ObjectTypeAt(rev)
  BY <1>0 DEF EntryTypeAt
<1>2. 0 \in 0..rev /\ rev \in 0..rev
  BY <1>0
<1>3. CASE OpenCached(h, n)
  BY <1>0, <1>1, <1>2, <1>3, OpenedImplements DEF OpenCached
<1>4. CASE OpenAnswered(h, n)
  BY <1>0, <1>2, <1>4, OpenedImplements DEF OpenAnswered
<1> QED
  BY <1>3, <1>4

\* What the store does not see: an answer cached, a change to an open text, the
\* read of UpdateObjectDataKey.
LEMMA FillCacheImplements ==
    ASSUME IInv, NEW h \in Handles, FillCache(h)
    PROVE  UNCHANGED Store!vars
<1> DEFINE c == handle[h]
           new == [c EXCEPT !.step = "idle", !.asOf = 0]
<1>0. rev \in Nat /\ 0 \in 0..rev /\ c \in HandleTypeAt(rev) /\ StepOK(c)
  BY TypeFacts DEF IInv
<1>1. c.step = "filling" /\ handle' = [handle EXCEPT ![h] = new] /\ UNCHANGED object
  BY DEF FillCache, At
<1>2. /\ new \in HandleTypeAt(rev) /\ new.kind = "text" /\ new.obj = c.obj
      /\ new.base = c.base /\ new.step = "idle" /\ new.answer = c.answer /\ c.kind = "text"
  BY <1>0, <1>1 DEF HandleTypeAt, StepOK
<1> HIDE DEF new
<1>3. StepOK(new)
  BY <1>0, <1>2 DEF StepOK
<1>4. SaveAt(new) = SaveAt(c)
  BY <1>0, <1>1, <1>2, <1>3, RequestFacts
<1> QED
  BY <1>1, <1>2, <1>3, <1>4, RecordImplements

LEMMA WriteImplements ==
    ASSUME IInv, NEW h \in Handles, NEW k \in Keys, Write(h, k)
    PROVE  UNCHANGED Store!vars
<1> DEFINE c == handle[h]
<1>0. rev \in Nat /\ writes \in 0..MaxWrites /\ c \in HandleTypeAt(rev) /\ StepOK(c)
      /\ MaxWrites \in Nat
  BY TypeFacts, ClientWritesAssumption DEF IInv
<1>1. ASSUME NEW n \in Objs \cup {NoName}, NEW stripped \in BOOLEAN,
             handle' = [handle EXCEPT ![h].edits[k] = writes + 1,
                                      ![h].name = n, ![h].stripped = stripped]
      PROVE  UNCHANGED Store!vars
  <2> DEFINE edits == [c.edits EXCEPT ![k] = writes + 1]
             new == [c EXCEPT !.edits = edits, !.name = n, !.stripped = stripped]
  <2>1. c.step = "idle" /\ c.kind = "text" /\ writes < MaxWrites /\ UNCHANGED object
    BY DEF Write, At, Written
  <2>2. edits \in Edits
    BY <1>0, <2>1 DEF HandleTypeAt, Edits, Value
  <2>3. handle' = [handle EXCEPT ![h] = new]
    BY <1>1
  <2> HIDE DEF edits
  <2>4. /\ new \in HandleTypeAt(rev) /\ new.kind = "text" /\ new.obj = c.obj
        /\ new.base = c.base /\ new.step = "idle" /\ new.answer = c.answer
    BY <1>0, <2>1, <2>2 DEF HandleTypeAt
  <2> HIDE DEF new
  <2>5. StepOK(new)
    BY <1>0, <2>1, <2>4 DEF StepOK
  <2>6. SaveAt(new) = SaveAt(c)
    BY <1>0, <2>1, <2>4, <2>5, RequestFacts
  <2> QED
    BY <2>1, <2>3, <2>4, <2>5, <2>6, RecordImplements
<1> QED
  BY <1>1 DEF Write

LEMMA GetAnsweredImplements ==
    ASSUME IInv, NEW h \in Handles, GetAnswered(h)
    PROVE  UNCHANGED Store!vars
<1> DEFINE c == handle[h]
           o == object[c.obj]
           new == [c EXCEPT !.step = "put", !.base = o]
<1>0. /\ rev \in Nat /\ c \in HandleTypeAt(rev) /\ StepOK(c)
      /\ object \in [Objs -> ObjectTypeAt(rev)]
  BY TypeFacts DEF IInv
<1>1. c.step = "get" /\ o.rv # 0 /\ handle' = [handle EXCEPT ![h] = new] /\ UNCHANGED object
  BY DEF GetAnswered, At
<1>2. c.kind = "key" /\ c.obj \in Objs /\ c.name = c.obj /\ ~ c.stripped
  BY <1>0, <1>1 DEF StepOK
<1>3. o \in ObjectTypeAt(rev)
  BY <1>0, <1>2
<1> HIDE DEF o
<1>4. /\ new \in HandleTypeAt(rev) /\ new.kind = "key" /\ new.obj = c.obj
      /\ new.name = c.name /\ ~ new.stripped /\ new.edits = c.edits
      /\ new.base = o /\ new.step = "put"
  BY <1>0, <1>2, <1>3 DEF HandleTypeAt
<1> HIDE DEF new
<1>5. StepOK(new)
  BY <1>1, <1>2, <1>4 DEF StepOK
<1>6. OpOf(c) = "edit" /\ OpOf(new) = "edit"
  BY <1>2, <1>4 DEF OpOf
<1>7. SaveAt(new) = SaveAt(c)
  BY <1>1, <1>2, <1>4, <1>6 DEF SaveAt, RequestAt, EditsAt
<1> QED
  BY <1>1, <1>4, <1>5, <1>7, RecordImplements

\* The calls begin.
LEMMA ApplyBeginsImplements ==
    ASSUME IInv, NEW h \in Handles, ApplyBegins(h)
    PROVE  Store!Begin(h) \/ Store!Return(h)
<1> DEFINE c == handle[h]
           new == [c EXCEPT !.step = "put"]
<1>0. rev \in Nat /\ c \in HandleTypeAt(rev) /\ StepOK(c)
  BY TypeFacts DEF IInv
<1>1. c.step = "idle" /\ c.kind = "text" /\ UNCHANGED object
  BY DEF ApplyBegins, At
<1>2. CASE c.name = NoName
  <2>1. Answered(h, "error")
    BY <1>2 DEF ApplyBegins
  <2>2. PICK d \in HandleTypeAt(rev) :
            /\ handle' = [handle EXCEPT ![h] = d]
            /\ StepOK(d) /\ d.step = "idle" /\ d.answer = "error"
    BY <2>1, AnsweredFacts
  <2> QED
    BY <1>1, <2>2, RecordImplements
<1>3. CASE c.name # NoName
  <2>1. handle' = [handle EXCEPT ![h] = new]
    BY <1>3 DEF ApplyBegins
  <2>2. /\ new \in HandleTypeAt(rev) /\ new.kind = "text" /\ new.obj = c.obj
        /\ new.base = c.base /\ new.step = "put" /\ new.name \in Objs
    BY <1>0, <1>1, <1>3 DEF HandleTypeAt
  <2> HIDE DEF new
  <2>3. StepOK(new)
    BY <1>0, <1>1, <2>2 DEF StepOK
  <2> QED
    BY <1>1, <2>1, <2>2, <2>3, RecordImplements
<1> QED
  BY <1>2, <1>3

LEMMA CalledImplements ==
    ASSUME IInv, NEW h \in Handles, NEW n \in Objs, NEW edits \in Edits,
           NEW kind \in {"key", "create", "delete"}, NEW step \in {"get", "put"},
           kind = "key" <=> step = "get", Called(h, kind, n, edits, step)
    PROVE  Store!Begin(h)
<1> DEFINE new == [NoHandle EXCEPT !.kind = kind, !.obj = n, !.name = n, !.edits = edits,
                                   !.step = step]
<1>0. rev \in Nat
  BY TypeFacts DEF IInv
<1>1. handle[h].step = "idle" /\ handle' = [handle EXCEPT ![h] = new] /\ UNCHANGED object
  BY DEF Called, At
<1>2. /\ new \in HandleTypeAt(rev) /\ new.kind = kind /\ new.obj = n /\ new.name = n
      /\ new.step = step /\ ~ new.stripped
  <2>1. NoHandle \in HandleTypeAt(rev) /\ ~ NoHandle.stripped
    BY <1>0, NoHandleFacts DEF NoHandle
  <2> QED
    BY <2>1 DEF HandleTypeAt
<1> HIDE DEF new
<1>3. StepOK(new)
  BY <1>2 DEF StepOK
<1> QED
  BY <1>1, <1>2, <1>3, RecordImplements

LEMMA CallsImplement ==
    ASSUME IInv, NEW h \in Handles, NEW n \in Objs,
           \/ DeleteBegins(h, n)
           \/ \E k \in Keys : UpdateKeyBegins(h, n, k) \/ CreateBegins(h, n, k)
    PROVE  Store!Begin(h)
<1>0. writes \in 0..MaxWrites /\ rev \in Nat /\ MaxWrites \in Nat
  BY TypeFacts, ClientWritesAssumption DEF IInv
<1>1. NoEdits \in Edits
  BY <1>0, NoHandleFacts
<1>2. CASE DeleteBegins(h, n)
  BY <1>1, <1>2, CalledImplements DEF DeleteBegins
<1>3. ASSUME NEW k \in Keys, UpdateKeyBegins(h, n, k) \/ CreateBegins(h, n, k)
      PROVE  Store!Begin(h)
  <2>1. writes < MaxWrites
    BY <1>3 DEF UpdateKeyBegins, CreateBegins, Written
  <2>2. [NoEdits EXCEPT ![k] = writes + 1] \in Edits
    BY <1>0, <1>1, <2>1 DEF Edits, Value
  <2> QED
    BY <1>3, <2>2, CalledImplements DEF UpdateKeyBegins, CreateBegins
<1> QED
  BY <1>2, <1>3

\* The calls return.
LEMMA ReturnsImplement ==
    ASSUME IInv, NEW h \in Handles, RequestFails(h) \/ AnswerLost(h) \/ SaveReturns(h)
    PROVE  Store!Return(h)
<1>1. UNCHANGED object
  BY DEF RequestFails, AnswerLost, SaveReturns
<1>2. CASE RequestFails(h) \/ AnswerLost(h)
  <2>1. Answered(h, "error")
    BY <1>2 DEF RequestFails, AnswerLost
  <2>2. PICK d \in HandleTypeAt(rev) :
            /\ handle' = [handle EXCEPT ![h] = d]
            /\ StepOK(d) /\ d.step = "idle" /\ d.answer = "error"
    BY <2>1, AnsweredFacts
  <2> QED
    BY <1>1, <2>2, RecordImplements
<1>3. CASE SaveReturns(h)
  <2>1. Answered(h, "ok") /\ handle[h].step = "accepted"
    BY <1>3 DEF SaveReturns, At
  <2>2. PICK d \in HandleTypeAt(rev) :
            /\ handle' = [handle EXCEPT ![h] = d]
            /\ StepOK(d) /\ d.step = "idle" /\ d.answer = "ok"
    BY <2>1, AnsweredFacts
  <2> QED
    BY <1>1, <2>1, <2>2, RecordImplements
<1> QED
  BY <1>2, <1>3

\* What the API accepts takes effect on the object as it is at that moment:
\* either it sets all keys, or the text was made from that very object.
LEMMA EffectIsSent ==
    ASSUME IInv, NEW h \in Handles, At(h, "put"), Accepts(h)
    PROVE  LET c == handle[h]
               r == RequestAt(c, "pending")
               content == ContentAt(object[c.name])
           IN  /\ c.name \in Objs
               /\ r.op = "create" <=> content = {}
               /\ Store!Effect(r, content) = IF c.kind = "delete" THEN {} ELSE {SentAt(c)}
<1> DEFINE c == handle[h]
           r == RequestAt(c, "pending")
           content == ContentAt(object[c.name])
<1>1. /\ c.name \in Objs /\ c.kind \in {"text", "key", "create", "delete"}
      /\ c.kind = "create" <=> object[c.name].rv = 0
      /\ c.kind \in {"text", "key"} /\ ~ c.stripped =>
            c.base.rv # 0 /\ object[c.name] = c.base
  BY AcceptedFacts
<1>2. /\ StepOK(c) /\ c.step = "put"
  BY TypeFacts DEF IInv, At
<1>3. c.kind = "key" => ~ c.stripped
  BY <1>2 DEF StepOK
<1>4. r.op = OpOf(c) /\ r.edits = EditsAt(c)
  BY DEF RequestAt
<1>5. content = {} <=> object[c.name].rv = 0
  BY DEF ContentAt
<1>6. OpOf(c) = "create" <=> c.kind = "create"
  BY <1>1 DEF OpOf
<1> HIDE DEF r
<1>7. CASE c.kind \in {"create", "delete"}
  <2>1. OpOf(c) = c.kind
    BY <1>7 DEF OpOf
  <2> QED
    BY <1>1, <1>4, <1>5, <1>7, <2>1 DEF EditsAt, Store!Effect, r
<1>8. CASE c.kind = "text" /\ c.stripped
  <2>1. OpOf(c) = "replace"
    BY <1>8 DEF OpOf
  <2> QED
    BY <1>1, <1>4, <1>5, <1>8, <2>1 DEF EditsAt, Store!Effect, r
<1>9. CASE c.kind \in {"text", "key"} /\ ~ c.stripped
  <2>1. OpOf(c) = "edit" /\ r.edits = c.edits
    BY <1>4, <1>9 DEF OpOf, EditsAt
  <2>2. content = {c.base.data}
    BY <1>1, <1>9 DEF ContentAt
  <2>3. Store!Edited(c.base.data, c.edits) = SentAt(c)
    BY DEF Store!Edited, SentAt
  <2>4. Store!Effect(r, content) = {SentAt(c)}
    <3> HIDE DEF c, content
    <3>1. Store!Effect(r, content) = {Store!Edited(data, c.edits) : data \in content}
      BY <1>4, <2>1 DEF Store!Effect
    <3> QED
      BY <2>2, <2>3, <3>1
  <2> QED
    BY <1>1, <1>4, <1>5, <1>9, <2>1, <2>4 DEF r
<1> QED
  BY <1>1, <1>3, <1>7, <1>8, <1>9

LEMMA RequestAcceptedImplements ==
    ASSUME IInv, NEW h \in Handles, RequestAccepted(h)
    PROVE  Store!TakeEffect(h)
<1> DEFINE c == handle[h]
           o == IF c.kind = "delete" THEN NoObject ELSE [rv |-> rev + 1, data |-> Sent(h)]
           made == IF c.kind = "text" /\ ~ c.stripped THEN c.made + 1 ELSE c.made
           asOf == IF \E g \in Handles : At(g, "filling") THEN 0 ELSE rev + 1
           new == [c EXCEPT !.step = "accepted", !.made = made, !.asOf = asOf]
<1>0. /\ rev \in Nat /\ c \in HandleTypeAt(rev) /\ StepOK(c)
      /\ object \in [Objs -> ObjectTypeAt(rev)]
  BY TypeFacts DEF IInv
<1>1. /\ At(h, "put") /\ Accepts(h) /\ c.step = "put"
      /\ object' = [object EXCEPT ![c.name] = o]
      /\ handle' = [handle EXCEPT ![h] = new]
  BY DEF RequestAccepted, At, Changed
<1>2. /\ c.name \in Objs
      /\ OpOf(c) = "create" <=> ContentAt(object[c.name]) = {}
      /\ Store!Effect(RequestAt(c, "pending"), ContentAt(object[c.name]))
            = IF c.kind = "delete" THEN {} ELSE {SentAt(c)}
  BY <1>1, EffectIsSent DEF RequestAt
<1>3. ContentAt(o) = IF c.kind = "delete" THEN {} ELSE {SentAt(c)}
  <2>1. NoObject.rv = 0 /\ rev + 1 # 0
    BY <1>0, NoHandleFacts
  <2>2. Sent(h) = SentAt(c)
    BY DEF Sent, SentAt
  <2> QED
    BY <2>1, <2>2 DEF ContentAt
<1>4. /\ new.step = "accepted" /\ new.kind = c.kind /\ new.name = c.name
      /\ new.stripped = c.stripped /\ new.edits = c.edits /\ new.base = c.base
  <2> HIDE DEF made, asOf
  <2> QED
    BY <1>0 DEF HandleTypeAt
<1> HIDE DEF o, new
<1>5. SaveAt(new) = RequestAt(c, "done")
  BY <1>4 DEF SaveAt, RequestAt, EditsAt, OpOf, SentAt
<1>6. SaveAt(c) = RequestAt(c, "pending")
  BY <1>0, <1>1, RequestFacts
<1>7. RequestAt(c, "done") = Store!Done(RequestAt(c, "pending"))
  BY DEF RequestAt, Store!Done
<1>8. SaveBar[h] = RequestAt(c, "pending")
      /\ SaveBar' = [SaveBar EXCEPT ![h] = Store!Done(SaveBar[h])]
  BY <1>1, <1>5, <1>6, <1>7, BarStep DEF SaveBar
<1>9. StoreBar' = [StoreBar EXCEPT ![c.name] = ContentAt(o)]
  BY <1>0, <1>1, <1>2 DEF StoreBar
<1>10. StoreBar[c.name] = ContentAt(object[c.name])
  BY <1>2 DEF StoreBar
<1>11. /\ SaveBar[h].status = "pending" /\ SaveBar[h].name = c.name
       /\ SaveBar[h].op = OpOf(c)
  BY <1>8 DEF RequestAt
<1>12. StoreBar' = [StoreBar EXCEPT ![SaveBar[h].name] = Store!Effect(SaveBar[h], @)]
  BY <1>2, <1>3, <1>8, <1>9, <1>10, <1>11
<1> QED
  BY <1>2, <1>8, <1>10, <1>11, <1>12, BarsAreStores, BarsAreStoresNext DEF Store!TakeEffect

\* Other clients.
LEMMA OthersImplement ==
    ASSUME IInv, NEW n \in Objs, OthersWrite(n) \/ OthersDelete(n)
    PROVE  Store!Elsewhere
<1>0. /\ rev \in Nat /\ writes \in 0..MaxWrites /\ MaxWrites \in Nat
      /\ object \in [Objs -> ObjectTypeAt(rev)] /\ object[n] \in ObjectTypeAt(rev)
  BY TypeFacts, ClientWritesAssumption DEF IInv
<1>1. ASSUME NEW o, Changed(n, o), ContentAt(o) \in Store!Content, UNCHANGED handle
      PROVE  Store!Elsewhere
  <2>1. object' = [object EXCEPT ![n] = o]
    BY <1>1 DEF Changed
  <2>2. StoreBar' = [StoreBar EXCEPT ![n] = ContentAt(o)]
    BY <1>0, <2>1 DEF StoreBar
  <2>3. StoreBar'[n] = ContentAt(o) /\ SaveBar' = SaveBar
    BY <1>1, <2>2 DEF SaveBar, StoreBar
  <2>4. StoreBar'[n] \in Store!Content /\ StoreBar' = [StoreBar EXCEPT ![n] = StoreBar'[n]]
    BY <1>1, <2>2, <2>3
  <2> QED
    BY <2>3, <2>4, BarsAreStores, BarsAreStoresNext DEF Store!Elsewhere
<1>2. CASE OthersDelete(n)
  <2>1. ContentAt(NoObject) \in Store!Content
    BY <1>0, NoHandleFacts DEF ContentAt, Store!Content
  <2> QED
    BY <1>1, <1>2, <2>1 DEF OthersDelete
<1>3. CASE OthersWrite(n)
  <2>1. writes < MaxWrites /\ UNCHANGED handle
    BY <1>3 DEF OthersWrite, Written
  <2>2. PICK k \in Keys : Changed(n, [rv |-> rev + 1,
                                      data |-> [object[n].data EXCEPT ![k] = writes + 1]])
    BY <1>3 DEF OthersWrite
  <2> DEFINE data == [object[n].data EXCEPT ![k] = writes + 1]
             o == [rv |-> rev + 1, data |-> data]
  <2>3. data \in Data
    BY <1>0, <2>1 DEF ObjectTypeAt, Data, Value
  <2>4. Changed(n, o)
    BY <2>2
  <2> HIDE DEF data
  <2>5. ContentAt(o) \in Store!Content
    BY <1>0, <2>3 DEF ContentAt, Store!Content, Store!Data, Data
  <2> HIDE DEF o
  <2> QED
    BY <1>1, <2>1, <2>4, <2>5
<1> QED
  BY <1>2, <1>3

LEMMA NextImplements ==
    ASSUME IInv, [Next]_vars
    PROVE  [Store!Next]_(Store!vars)
<1>1. CASE UNCHANGED <<object, handle>>
  <2>1. StoreBar' = StoreBar /\ SaveBar' = SaveBar
    BY <1>1 DEF StoreBar, SaveBar
  <2> QED
    BY <2>1, BarsAreStores, BarsAreStoresNext DEF Store!vars
<1>2. ASSUME NEW h \in Handles, NEW n \in Objs,
             \/ OpenCached(h, n) \/ OpenAnswered(h, n) \/ DeleteBegins(h, n)
             \/ \E k \in Keys : UpdateKeyBegins(h, n, k) \/ CreateBegins(h, n, k)
      PROVE  Store!Next
  BY <1>2, ReadsImplement, CallsImplement DEF Store!Next
<1>3. ASSUME NEW h \in Handles,
             FillCache(h) \/ (\E k \in Keys : Write(h, k)) \/ GetAnswered(h)
      PROVE  UNCHANGED Store!vars
  BY <1>3, FillCacheImplements, WriteImplements, GetAnsweredImplements
<1>4. ASSUME NEW h \in Handles,
             \/ ApplyBegins(h) \/ RequestFails(h)
             \/ RequestAccepted(h) \/ AnswerLost(h) \/ SaveReturns(h)
      PROVE  Store!Next
  BY <1>4, ApplyBeginsImplements, ReturnsImplement, RequestAcceptedImplements DEF Store!Next
<1>5. ASSUME NEW n \in Objs, OthersWrite(n) \/ OthersDelete(n)
      PROVE  Store!Next
  BY <1>5, OthersImplement DEF Store!Next
<1>6. ASSUME NEW n \in Objs, Expire(n)
      PROVE  UNCHANGED <<object, handle>>
  BY <1>6 DEF Expire
<1>7. CASE UNCHANGED vars
  BY <1>1, <1>7 DEF vars
<1> QED
  BY <1>1, <1>2, <1>3, <1>4, <1>5, <1>6, <1>7 DEF Next

\* Every save through the client takes effect at one moment between its begin
\* and its return, on the state of that moment, and once; it succeeds only if
\* it took effect.
THEOREM SavesImplementStore == Spec => SavesAreAtomic
<1>1. Init => Store!Init
  BY InitImplements
<1>2. IInv /\ [Next]_vars => [Store!Next]_(Store!vars)
  BY NextImplements
<1> QED
  BY <1>1, <1>2, IInvHolds, PTL DEF Spec, SavesAreAtomic, Store!Spec
=============================================================================
