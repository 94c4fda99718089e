-------------------------- MODULE QuietSaves_proofs --------------------------
(***************************************************************************)
(* What a read is promised of the saves before it, for any threads, files, *)
(* keys and times to live: a save that no fetch overlaps (quiet) is seen   *)
(* by every later read of its file, and by every read of the object's      *)
(* other files that begins ContentTTL or more after it.                    *)
(*                                                                         *)
(* The inductive invariant follows the save instead of the read.  While a  *)
(* quiet saver is at work no thread fetches, so the keys it has deleted    *)
(* stay deleted and, when it returns, Client.cache is empty of the object. *)
(* From then on no version older than the save can enter either cache, and *)
(* what contentCache still has from before belongs to another file and is  *)
(* no younger than the save.                                               *)
(***************************************************************************)
EXTENDS ContentPath_proofs, WellFoundedInduction

FetchSteps == {"client", "drop", "api", "set", "store"}

SaverSteps == {"invalidate", "forget"}

\* A version no older than any quiet save.
SeesAll(ver, saves) == \A x \in saves : x.quiet => ver >= x.ver

\* What a read is measured by is no more than what quiet saves left.
Backed(v, saves) == v = 0 \/ \E x \in saves : x.quiet /\ v = x.ver

FetchSees(c, saves) ==
    /\ Backed(c.must.ownQuiet, saves) /\ Backed(c.must.anyQuiet, saves)
    /\ c.step = "set" => SeesAll(c.ver, saves)
    /\ c.step = "store" => c.ver = ErrorText \/ SeesAll(c.ver, saves)

CallSees(c, saves) ==
    /\ "must" \in DOMAIN c
    /\ c.step \in FetchSteps => FetchSees(c, saves)

QuietSaver(c) == c.quiet /\ c.step \in SaverSteps

Undisturbed(c, calls, cache) ==
    /\ \A u \in Threads : calls[u].step \notin FetchSteps
    /\ \A i \in 1..Len(KeyOrder) : i < c.todo => cache[KeyOrder[i]] = {}
    /\ c.step = "forget" => c.todo = Len(KeyOrder) + 1

CallsSee(calls, saves) == \A t \in Threads : CallSees(calls[t], saves)

SaversOK(calls, cache) ==
    \A t \in Threads : QuietSaver(calls[t]) => Undisturbed(calls[t], calls, cache)

ClientSees(cache, saves) == \A k \in Keys : \A e \in cache[k] : SeesAll(e.ver, saves)

\* A content entry of f has seen the save x, or is from before it and of
\* another file.
EntrySees(e, f, x) ==
    \/ e.ver = ErrorText
    \/ e.ver >= x.ver
    \/ f # x.file /\ e.at <= x.at

ContentSees(cache, saves) ==
    \A f \in Files : \A e \in cache[f] : \A x \in saves : x.quiet => EntrySees(e, f, x)

ServedSees(s) == s.ownQuiet /\ s.anyQuiet

\* The parts of the invariant that say nothing of what was served.
QuietKept ==
    /\ CallsSee(call, saved)
    /\ SaversOK(call, clientCache)
    /\ ClientSees(clientCache, saved)
    /\ ContentSees(contentCache, saved)

QuietInv == QuietKept /\ ServedSees(served)

-----------------------------------------------------------------------------
\* The newest of a set of versions is one of them.

LEMMA LargestOf ==
    ASSUME NEW S, NEW v \in Nat, \A s \in S : s \in 1..v, S # {}
    PROVE  \E m \in S : \A s \in S : s <= m
<1> DEFINE below == {v - s : s \in S}
<1>1. below \subseteq Nat /\ below # {}
  OBVIOUS
<1>2. PICK b \in below : \A a \in below : <<a, b>> \notin OpToRel(<, Nat)
  BY <1>1, WFMin, NatLessThanWellFounded, Zenon
<1>3. \A a \in below : ~ (a < b)
  BY <1>1, <1>2, Zenon DEF OpToRel
<1>4. PICK m \in S : b = v - m
  OBVIOUS
<1>5. ASSUME NEW s \in S PROVE s <= m
  BY <1>3, <1>4
<1> QED
  BY <1>5

LEMMA NewestOf ==
    ASSUME NEW S, NEW v \in Nat, \A s \in S : s \in 1..v
    PROVE  Newest(S) = 0 \/ Newest(S) \in S
<1>1. CASE S = {}
  BY <1>1 DEF Newest
<1>2. CASE S # {}
  <2>1. \E m \in S : \A s \in S : s <= m
    BY <1>2, LargestOf
  <2> QED
    BY <1>2, <2>1 DEF Newest
<1> QED
  BY <1>1, <1>2

\* A read that begins now is measured by quiet saves: by those of its file,
\* and by those ContentTTL ago.
LEMMA MustFacts ==
    ASSUME Kept, NEW f
    PROVE  LET m == MustSee(f)
           IN  /\ \/ m.ownQuiet = 0
                  \/ \E x \in saved : x.quiet /\ x.file = f /\ m.ownQuiet = x.ver
               /\ \/ m.anyQuiet = 0
                  \/ \E x \in saved : /\ x.quiet /\ x.at + ContentTTL <= now
                                      /\ m.anyQuiet = x.ver
<1> DEFINE own == {x \in saved : x.file = f /\ x.quiet}
           any == {x \in saved : x.quiet /\ x.at + ContentTTL <= now}
           O == {s.ver : s \in own}
           A == {s.ver : s \in any}
<1>1. MustSee(f).ownQuiet = Newest(O) /\ MustSee(f).anyQuiet = Newest(A)
  BY DEF MustSee
<1>2. version \in Nat /\ \A x \in saved : x.ver \in 1..version
  BY DEF Kept, ClockOK, SavesOK, SaveOK
<1>3. (\A s \in O : s \in 1..version) /\ (\A s \in A : s \in 1..version)
  BY <1>2
<1> HIDE DEF O, A
<1>4. Newest(O) = 0 \/ Newest(O) \in O
  BY <1>2, <1>3, NewestOf
<1>5. Newest(A) = 0 \/ Newest(A) \in A
  BY <1>2, <1>3, NewestOf
<1> QED
  BY <1>1, <1>4, <1>5 DEF O, A

LEMMA MustIsBacked ==
    ASSUME Kept, NEW f
    PROVE  Backed(MustSee(f).ownQuiet, saved) /\ Backed(MustSee(f).anyQuiet, saved)
BY MustFacts DEF Backed

-----------------------------------------------------------------------------
\* One lemma per kind of step that calls make.

LEMMA NothingServedSees ==
    ASSUME NothingServed
    PROVE  ServedSees(served')
BY DEF NothingServed, NoRead, ServedSees

\* The current version has seen every save.
LEMMA CurrentSees ==
    ASSUME Kept
    PROVE  SeesAll(version, saved)
BY DEF Kept, ClockOK, SavesOK, SaveOK, SeesAll

\* A fetch is under way only where no quiet saver is at work, so what it does
\* to Client.cache disturbs none.
LEMMA FetcherMoves ==
    ASSUME Kept, QuietKept, NEW t \in Threads, call[t].step \in FetchSteps,
           NEW c, c.step \notin SaverSteps, CallSees(c, saved),
           call' = [call EXCEPT ![t] = c], NEW cache
    PROVE  CallsSee(call', saved) /\ SaversOK(call', cache)
<1>1. call = [u \in Threads |-> call[u]]
  BY DEF Kept, CallsOK
<1>2. call'[t] = c /\ \A u \in Threads : u # t => call'[u] = call[u]
  BY <1>1
<1>3. \A u \in Threads : ~ QuietSaver(call[u])
  BY DEF QuietKept, SaversOK, Undisturbed
<1>4. \A u \in Threads : ~ QuietSaver(call'[u])
  BY <1>2, <1>3 DEF QuietSaver
<1>5. CallsSee(call', saved)
  BY <1>2 DEF QuietKept, CallsSee
<1> QED
  BY <1>4, <1>5 DEF SaversOK

\* A thread that does not fetch, before the step and after it, disturbs no
\* quiet saver, as long as it fills no key.
LEMMA SaverMoves ==
    ASSUME Kept, QuietKept, NEW t \in Threads, call[t].step \notin FetchSteps,
           NEW c, c.step \notin FetchSteps, "must" \in DOMAIN c,
           call' = [call EXCEPT ![t] = c],
           NEW cache, \A k \in Keys : cache[k] \subseteq clientCache[k],
           QuietSaver(c) => Undisturbed(c, call', cache)
    PROVE  CallsSee(call', saved) /\ SaversOK(call', cache)
<1>1. call = [u \in Threads |-> call[u]]
  BY DEF Kept, CallsOK
<1>2. call'[t] = c /\ \A u \in Threads : u # t => call'[u] = call[u]
  BY <1>1
<1>3. CallsSee(call', saved)
  BY <1>2 DEF QuietKept, CallsSee, CallSees
<1>4. ASSUME NEW u \in Threads, QuietSaver(call'[u])
      PROVE  Undisturbed(call'[u], call', cache)
  <2>1. CASE u = t
    BY <1>2, <1>4, <2>1
  <2>2. CASE u # t
    <3>1. Undisturbed(call[u], call, clientCache) /\ call'[u] = call[u]
      BY <1>2, <1>4, <2>2 DEF QuietKept, SaversOK
    <3>2. \A w \in Threads : call'[w].step \notin FetchSteps
      BY <1>2, <3>1 DEF Undisturbed
    <3>3. \A i \in 1..Len(KeyOrder) : i < call[u].todo => cache[KeyOrder[i]] = {}
      BY <3>1 DEF Undisturbed, Keys
    <3> QED
      BY <3>1, <3>2, <3>3 DEF Undisturbed
  <2> QED
    BY <2>1, <2>2
<1> QED
  BY <1>3, <1>4 DEF SaversOK

\* What a fetching call keeps as it goes on.
LEMMA FetchGoesOn ==
    ASSUME NEW c, IsCall(c), NEW saves, CallSees(c, saves), c.step \in FetchSteps,
           NEW s \in FetchSteps, s \notin {"set", "store"}
    PROVE  LET x == [c EXCEPT !.step = s]
           IN  CallSees(x, saves) /\ x.step \notin SaverSteps
<1> DEFINE x == [c EXCEPT !.step = s]
<1>1. x.step = s /\ x.must = c.must /\ "must" \in DOMAIN x
  BY DEF IsCall, CallSees
<1> HIDE DEF x
<1>2. CallSees(x, saves)
  BY <1>1 DEF CallSees, FetchSees
<1>3. x.step \notin SaverSteps
  BY <1>1 DEF FetchSteps, SaverSteps
<1> QED
  BY <1>2, <1>3 DEF x

LEMMA FetchHolds ==
    ASSUME NEW c, IsCall(c), NEW saves, CallSees(c, saves), c.step \in FetchSteps,
           NEW ver, NEW s \in {"set", "store"},
           SeesAll(ver, saves) \/ (s = "store" /\ ver = ErrorText)
    PROVE  LET x == [c EXCEPT !.step = s, !.ver = ver]
           IN  CallSees(x, saves) /\ x.step \notin SaverSteps
<1> DEFINE x == [c EXCEPT !.step = s, !.ver = ver]
<1>1. x.step = s /\ x.ver = ver /\ x.must = c.must /\ "must" \in DOMAIN x
  BY DEF IsCall, CallSees
<1> HIDE DEF x
<1>2. CallSees(x, saves)
  BY <1>1 DEF CallSees, FetchSees
<1>3. x.step \notin SaverSteps
  BY <1>1 DEF SaverSteps
<1> QED
  BY <1>2, <1>3 DEF x

LEMMA NoCallSees ==
    /\ \A saves : CallSees(NoCall, saves)
    /\ NoCall.step \notin SaverSteps /\ NoCall.step \notin FetchSteps
    /\ "must" \in DOMAIN NoCall
BY DEF NoCall, CallSees, FetchSteps, SaverSteps

-----------------------------------------------------------------------------
\* The steps of a read.

\* What contentCache has is served while it lives: a save of another file that
\* it has not seen is then less than ContentTTL ago.
LEMMA HitSees ==
    ASSUME Kept, QuietKept, NEW t \in Threads, NEW f \in Files, FetchHit(t, f)
    PROVE  QuietKept' /\ ServedSees(served')
<1>1. QuietKept'
  BY DEF QuietKept, FetchHit
<1>2. PICK e \in contentCache[f] : Live(e) /\ Serve(e.ver, MustSee(f))
  BY DEF FetchHit
<1>3. ContentEntryOK(e, now, version, died) /\ now \in Nat
  BY DEF Kept, ContentOK, ClockOK
<1>4. \A x \in saved : x.quiet => EntrySees(e, f, x) /\ x.at \in Nat
  BY DEF QuietKept, ContentSees, Kept, SavesOK, SaveOK
<1>5. CASE e.ver = ErrorText
  <2>1. served' = NoRead
    BY <1>2, <1>5 DEF Serve
  <2> QED
    BY <1>1, <2>1 DEF NoRead, ServedSees
<1>6. CASE e.ver # ErrorText
  <2> DEFINE m == MustSee(f)
  <2>1. e.ver \in Nat /\ e.at \in Nat /\ now - e.at < ContentTTL
    BY <1>2, <1>3, <1>6 DEF ContentEntryOK, ErrorText, Live
  <2>2. e.ver >= m.ownQuiet
    <3>1. CASE m.ownQuiet = 0
      BY <2>1, <3>1
    <3>2. CASE \E x \in saved : x.quiet /\ x.file = f /\ m.ownQuiet = x.ver
      BY <1>4, <1>6, <3>2 DEF EntrySees
    <3> QED
      BY <3>1, <3>2, MustFacts
  <2>3. e.ver >= m.anyQuiet
    <3>1. CASE m.anyQuiet = 0
      BY <2>1, <3>1
    <3>2. CASE \E x \in saved : /\ x.quiet /\ x.at + ContentTTL <= now
                                /\ m.anyQuiet = x.ver
      <4>1. PICK x \in saved : x.quiet /\ x.at + ContentTTL <= now /\ m.anyQuiet = x.ver
        BY <3>2
      <4>2. ~ (e.at <= x.at)
        BY <1>3, <1>4, <2>1, <4>1, ConstantFacts
      <4> QED
        BY <1>4, <1>6, <4>1, <4>2 DEF EntrySees
    <3> QED
      BY <3>1, <3>2, MustFacts
  <2>4. served'.ownQuiet = (e.ver >= m.ownQuiet) /\ served'.anyQuiet = (e.ver >= m.anyQuiet)
    BY <1>2, <1>6 DEF Serve
  <2> HIDE DEF m
  <2> QED
    BY <1>1, <2>2, <2>3, <2>4 DEF ServedSees
<1> QED
  BY <1>1, <1>5, <1>6

\* A fetch that begins ends the quiet of every saver, and is measured by saves.
LEMMA MissSees ==
    ASSUME Kept, QuietKept, NEW t \in Threads, NEW f \in Files, FetchMiss(t, f)
    PROVE  QuietKept'
<1> DEFINE m == MustSee(f)
           x == [NoCall EXCEPT !.step = "client", !.file = f, !.start = now, !.must = m]
           y(u) == [call[u] EXCEPT !.quiet = FALSE]
<1>1. \A u \in Threads : call'[u] = IF u # t THEN y(u) ELSE x
  BY DEF FetchMiss
<1>2. CallSees(x, saved) /\ ~ QuietSaver(x)
  <2>1. x.step = "client" /\ x.must = m /\ "must" \in DOMAIN x
    BY DEF NoCall
  <2>2. Backed(m.ownQuiet, saved) /\ Backed(m.anyQuiet, saved)
    BY MustIsBacked
  <2> HIDE DEF x, m
  <2> QED
    BY <2>1, <2>2 DEF CallSees, FetchSees, QuietSaver, SaverSteps
<1>3. ASSUME NEW u \in Threads PROVE CallSees(y(u), saved) /\ ~ QuietSaver(y(u))
  <2> DEFINE c == call[u]  z == y(u)
  <2>1. IsCall(c) /\ CallSees(c, saved)
    BY ThreadFacts DEF QuietKept, CallsSee
  <2>2. /\ z.step = c.step /\ z.ver = c.ver /\ z.must = c.must /\ z.quiet = FALSE
        /\ "must" \in DOMAIN z
    BY <2>1 DEF IsCall, CallSees
  <2> HIDE DEF z, c
  <2>3. CallSees(z, saved) /\ ~ QuietSaver(z)
    BY <2>1, <2>2 DEF CallSees, FetchSees, QuietSaver
  <2> QED
    BY <2>3 DEF z
<1> HIDE DEF x, y
<1>4. \A u \in Threads : CallSees(call'[u], saved) /\ ~ QuietSaver(call'[u])
  BY <1>1, <1>2, <1>3
<1>5. CallsSee(call', saved) /\ SaversOK(call', clientCache)
  BY <1>4 DEF CallsSee, SaversOK
<1> QED
  BY <1>5 DEF QuietKept, FetchMiss

\* What a thread at one of its steps knows of its call.
LEMMA FetcherFacts ==
    ASSUME Kept, QuietKept, NEW t \in Threads
    PROVE  /\ IsCall(call[t]) /\ CallSees(call[t], saved)
           /\ ~ At(t, "idle") => call[t].file \in Files /\ Key[call[t].file] \in Keys
BY ThreadFacts DEF QuietKept, CallsSee

LEMMA ClientGetSees ==
    ASSUME Kept, QuietKept, NEW t \in Threads, ClientGet(t)
    PROVE  QuietKept'
<1> DEFINE c == call[t]  k == Key[call[t].file]
<1>1. IsCall(c) /\ CallSees(c, saved) /\ c.step = "client" /\ k \in Keys
  BY FetcherFacts DEF ClientGet, At
<1>2. c.step \in FetchSteps
  BY <1>1 DEF FetchSteps
<1>3. ASSUME NEW e \in clientCache[k], Holding(t, e.ver, "store")
      PROVE  CallsSee(call', saved) /\ SaversOK(call', clientCache)
  <2> DEFINE x == [c EXCEPT !.step = "store", !.ver = e.ver]
  <2>1. SeesAll(e.ver, saved)
    BY <1>1 DEF QuietKept, ClientSees
  <2>2. CallSees(x, saved) /\ x.step \notin SaverSteps
    BY <1>1, <1>2, <2>1, FetchHolds
  <2>3. call' = [call EXCEPT ![t] = x]
    BY <1>3 DEF Holding
  <2> HIDE DEF x
  <2> QED
    BY <1>2, <2>2, <2>3, FetcherMoves
<1>4. ASSUME NEW s \in {"drop", "api"}, Goto(t, s)
      PROVE  CallsSee(call', saved) /\ SaversOK(call', clientCache)
  <2> DEFINE x == [c EXCEPT !.step = s]
  <2>1. CallSees(x, saved) /\ x.step \notin SaverSteps
    BY <1>1, <1>2, FetchGoesOn DEF FetchSteps
  <2>2. call' = [call EXCEPT ![t] = x]
    BY <1>4 DEF Goto
  <2> HIDE DEF x
  <2> QED
    BY <1>2, <2>1, <2>2, FetcherMoves
<1>5. CallsSee(call', saved) /\ SaversOK(call', clientCache)
  BY <1>3, <1>4 DEF ClientGet
<1> QED
  BY <1>5 DEF QuietKept, ClientGet

LEMMA DropSees ==
    ASSUME Kept, QuietKept, NEW t \in Threads, Drop(t)
    PROVE  QuietKept'
<1> DEFINE c == call[t]  x == [c EXCEPT !.step = "api"]
<1>1. IsCall(c) /\ CallSees(c, saved) /\ c.step \in FetchSteps
  BY FetcherFacts DEF Drop, At, FetchSteps
<1>2. CallSees(x, saved) /\ x.step \notin SaverSteps
  BY <1>1, FetchGoesOn DEF FetchSteps
<1>3. call' = [call EXCEPT ![t] = x]
  BY DEF Drop, Goto
<1> HIDE DEF x
<1>4. CallsSee(call', saved) /\ SaversOK(call', clientCache')
  BY <1>1, <1>2, <1>3, FetcherMoves
<1>5. ClientSees(clientCache', saved)
  BY DEF QuietKept, ClientSees, Drop, Kept, ClientOK
<1> QED
  BY <1>4, <1>5 DEF QuietKept, Drop

LEMMA ApiGetSees ==
    ASSUME Kept, QuietKept, NEW t \in Threads, ApiGet(t)
    PROVE  QuietKept'
<1> DEFINE c == call[t]
<1>1. IsCall(c) /\ CallSees(c, saved) /\ c.step \in FetchSteps
  BY FetcherFacts DEF ApiGet, At, FetchSteps
<1>2. ASSUME NEW ver, NEW s \in {"set", "store"}, Holding(t, ver, s),
             SeesAll(ver, saved) \/ (s = "store" /\ ver = ErrorText)
      PROVE  CallsSee(call', saved) /\ SaversOK(call', clientCache)
  <2> DEFINE x == [c EXCEPT !.step = s, !.ver = ver]
  <2>1. CallSees(x, saved) /\ x.step \notin SaverSteps
    BY <1>1, <1>2, FetchHolds
  <2>2. call' = [call EXCEPT ![t] = x]
    BY <1>2 DEF Holding
  <2> HIDE DEF x
  <2> QED
    BY <1>1, <2>1, <2>2, FetcherMoves
<1>3. CallsSee(call', saved) /\ SaversOK(call', clientCache)
  BY <1>2, CurrentSees DEF ApiGet
<1> QED
  BY <1>3 DEF QuietKept, ApiGet

LEMMA ClientSetSees ==
    ASSUME Kept, QuietKept, NEW t \in Threads, ClientSet(t)
    PROVE  QuietKept'
<1> DEFINE c == call[t]  x == [c EXCEPT !.step = "store"]  k == Key[call[t].file]
           e == [ver |-> call[t].ver, exp |-> now + CacheTTL]
<1>1. IsCall(c) /\ CallSees(c, saved) /\ c.step = "set" /\ c.step \in FetchSteps
  BY FetcherFacts DEF ClientSet, At, FetchSteps
<1>2. SeesAll(c.ver, saved)
  BY <1>1 DEF CallSees, FetchSees
<1>3. CallSees(x, saved) /\ x.step \notin SaverSteps
  <2>1. x.step = "store" /\ x.ver = c.ver /\ x.must = c.must /\ "must" \in DOMAIN x
    BY <1>1 DEF IsCall, CallSees
  <2> HIDE DEF x
  <2> QED
    BY <1>1, <1>2, <2>1 DEF CallSees, FetchSees, SaverSteps
<1>4. call' = [call EXCEPT ![t] = x]
  BY DEF ClientSet, Goto
<1> HIDE DEF x
<1>5. CallsSee(call', saved) /\ SaversOK(call', clientCache')
  BY <1>1, <1>3, <1>4, FetcherMoves
<1>6. ClientSees(clientCache', saved)
  <2>1. clientCache' = [clientCache EXCEPT ![k] = {e}] /\ SeesAll(e.ver, saved)
    BY <1>2 DEF ClientSet
  <2> HIDE DEF e, k
  <2> QED
    BY <2>1 DEF QuietKept, ClientSees, Kept, ClientOK
<1> QED
  BY <1>5, <1>6 DEF QuietKept, ClientSet

\* A read that fetched has seen every save, or failed.
LEMMA StoreSees ==
    ASSUME Kept, QuietKept, NEW t \in Threads, Store(t)
    PROVE  QuietKept' /\ ServedSees(served')
<1> DEFINE c == call[t]  f == call[t].file  e == [ver |-> call[t].ver, at |-> now]
<1>1. IsCall(c) /\ CallSees(c, saved) /\ c.step = "store" /\ c.step \in FetchSteps
  BY FetcherFacts DEF Store, At, FetchSteps
<1>2. /\ c.ver = ErrorText \/ SeesAll(c.ver, saved)
      /\ Backed(c.must.ownQuiet, saved) /\ Backed(c.must.anyQuiet, saved)
  BY <1>1 DEF CallSees, FetchSees
<1>3. c.ver \in -1..version /\ version \in Nat
  BY ThreadFacts
<1>4. CallsSee(call', saved) /\ SaversOK(call', clientCache)
  BY <1>1, NoCallSees, FetcherMoves DEF Store
<1>5. ContentSees(contentCache', saved)
  <2>1. contentCache' = [contentCache EXCEPT ![f] = {e}]
    BY DEF Store
  <2>2. \A x \in saved : x.quiet => EntrySees(e, f, x)
    BY <1>2 DEF SeesAll, EntrySees
  <2> HIDE DEF e, f
  <2> QED
    BY <2>1, <2>2 DEF QuietKept, ContentSees, Kept, ContentOK
<1>6. ServedSees(served')
  <2>1. CASE c.ver = ErrorText
    BY <2>1 DEF Store, Serve, NoRead, ServedSees
  <2>2. CASE c.ver # ErrorText
    <3>1. \A v : Backed(v, saved) => c.ver >= v
      BY <1>2, <1>3, <2>2 DEF Backed, SeesAll, ErrorText
    <3>2. /\ served'.ownQuiet = (c.ver >= c.must.ownQuiet)
          /\ served'.anyQuiet = (c.ver >= c.must.anyQuiet)
      BY <2>2 DEF Store, Serve
    <3> QED
      BY <1>2, <3>1, <3>2 DEF ServedSees
  <2> QED
    BY <2>1, <2>2
<1> QED
  BY <1>4, <1>5, <1>6 DEF QuietKept, Store

-----------------------------------------------------------------------------
\* The steps of a save.

LEMMA SaveBeginsSees ==
    ASSUME Kept, QuietKept, NEW t \in Threads, NEW f \in Files, SaveBegins(t, f)
    PROVE  QuietKept'
<1> DEFINE w == IF f \in DataFiles THEN version ELSE 0
           x == [NoCall EXCEPT !.step = "put", !.file = f, !.start = now, !.ver = w]
<1>1. call[t].step \notin FetchSteps
  BY DEF SaveBegins, At, FetchSteps
<1>2. /\ x.step = "put" /\ "must" \in DOMAIN x
      /\ x.step \notin FetchSteps /\ ~ QuietSaver(x)
  BY DEF NoCall, QuietSaver, FetchSteps, SaverSteps
<1>3. call' = [call EXCEPT ![t] = x]
  BY DEF SaveBegins
<1> HIDE DEF x
<1>4. CallsSee(call', saved) /\ SaversOK(call', clientCache)
  BY <1>1, <1>2, <1>3, SaverMoves
<1> QED
  BY <1>4 DEF QuietKept, SaveBegins

\* A save that failed, whether the API took the update or not, is at rest.
LEMMA SaveFailsSees ==
    ASSUME Kept, QuietKept, NEW t \in Threads, SaveFails(t)
    PROVE  QuietKept'
<1>1. call[t].step \notin FetchSteps /\ ~ QuietSaver(NoCall)
  BY DEF SaveFails, At, FetchSteps, QuietSaver, NoCall, SaverSteps
<1>2. call' = [call EXCEPT ![t] = NoCall]
  BY DEF SaveFails
<1>3. CallsSee(call', saved) /\ SaversOK(call', clientCache)
  BY <1>1, <1>2, NoCallSees, SaverMoves
<1> QED
  BY <1>3 DEF QuietKept, SaveFails

\* The update finds out whether a fetch is under way: none is when it is quiet.
LEMMA ApiPutSees ==
    ASSUME Kept, QuietKept, NEW t \in Threads, ApiPut(t)
    PROVE  QuietKept'
<1> DEFINE q == \A u \in Threads : ~ Fetching(u)
           x == [call[t] EXCEPT !.step = "invalidate", !.todo = 1,
                                !.ver = version + 1, !.quiet = q]
<1>1. call[t].step = "put" /\ IsCall(call[t]) /\ CallSees(call[t], saved)
  BY FetcherFacts DEF ApiPut, CanPut, At
<1>2. q <=> \A u \in Threads : call[u].step \notin FetchSteps
  BY DEF Fetching, FetchSteps
<1>3. call' = [call EXCEPT ![t] = x]
  BY DEF ApiPut
<1> HIDE DEF q
<1>4. /\ x.step = "invalidate" /\ x.todo = 1 /\ x.quiet = q /\ "must" \in DOMAIN x
  BY <1>1 DEF IsCall, CallSees
<1> HIDE DEF x
<1>5. call[t].step \notin FetchSteps /\ x.step \notin FetchSteps
  BY <1>1, <1>4 DEF FetchSteps
<1>6. call = [u \in Threads |-> call[u]]
  BY DEF Kept, CallsOK
<1>7. ASSUME QuietSaver(x) PROVE Undisturbed(x, call', clientCache)
  <2>1. \A u \in Threads : call[u].step \notin FetchSteps
    BY <1>2, <1>4, <1>7 DEF QuietSaver
  <2>2. \A u \in Threads : call'[u].step \notin FetchSteps
    BY <1>3, <1>5, <1>6, <2>1
  <2> QED
    BY <1>4, <2>2 DEF Undisturbed
<1>8. CallsSee(call', saved) /\ SaversOK(call', clientCache)
  BY <1>3, <1>4, <1>5, <1>7, SaverMoves
<1> QED
  BY <1>8 DEF QuietKept, ApiPut

LEMMA InvalidateSees ==
    ASSUME Kept, QuietKept, NEW t \in Threads, Invalidate(t)
    PROVE  QuietKept'
<1> DEFINE c == call[t]
           s == IF c.todo = Len(KeyOrder) THEN "forget" ELSE "invalidate"
           x == [call[t] EXCEPT !.todo = call[t].todo + 1, !.step = s]
<1>1. /\ c.step = "invalidate" /\ IsCall(c) /\ CallSees(c, saved)
      /\ c.todo \in 1..Len(KeyOrder) /\ Len(KeyOrder) \in Nat
  BY FetcherFacts, ThreadFacts, ConstantFacts DEF Invalidate, At, CallOK
<1>2. call' = [call EXCEPT ![t] = x]
  BY DEF Invalidate
<1>3. s \in {"forget", "invalidate"} /\ (s = "forget" => c.todo = Len(KeyOrder))
  OBVIOUS
<1> HIDE DEF s
<1>4. /\ x.step = s /\ x.todo = c.todo + 1 /\ x.quiet = c.quiet /\ "must" \in DOMAIN x
  BY <1>1 DEF IsCall, CallSees
<1> HIDE DEF x
<1>5. c.step \notin FetchSteps /\ x.step \notin FetchSteps
  BY <1>1, <1>3, <1>4 DEF FetchSteps
<1>6. call = [u \in Threads |-> call[u]] /\ clientCache = [k \in Keys |-> clientCache[k]]
  BY DEF Kept, CallsOK, ClientOK
<1>7. /\ clientCache' = [clientCache EXCEPT ![KeyOrder[c.todo]] = {}]
      /\ KeyOrder[c.todo] \in Keys
  BY <1>1 DEF Invalidate, Keys
<1>8. ASSUME QuietSaver(x) PROVE Undisturbed(x, call', clientCache')
  <2>1. Undisturbed(c, call, clientCache)
    BY <1>1, <1>4, <1>8 DEF QuietKept, SaversOK, QuietSaver, SaverSteps
  <2>2. \A u \in Threads : call'[u].step \notin FetchSteps
    BY <1>2, <1>5, <1>6, <2>1 DEF Undisturbed
  <2>3. ASSUME NEW i \in 1..Len(KeyOrder), i < x.todo PROVE clientCache'[KeyOrder[i]] = {}
    <3>1. KeyOrder[i] \in Keys
      BY DEF Keys
    <3>2. CASE i = c.todo
      BY <1>6, <1>7, <3>2
    <3>3. CASE i # c.todo
      <4>1. i < c.todo
        BY <1>1, <1>4, <2>3, <3>3
      <4>2. clientCache[KeyOrder[i]] = {}
        BY <2>1, <4>1 DEF Undisturbed
      <4> QED
        BY <1>6, <1>7, <3>1, <4>2
    <3> QED
      BY <3>2, <3>3
  <2>4. x.step = "forget" => x.todo = Len(KeyOrder) + 1
    BY <1>3, <1>4
  <2> QED
    BY <2>2, <2>3, <2>4 DEF Undisturbed
<1>9. \A k \in Keys : clientCache'[k] \subseteq clientCache[k]
  BY <1>6, <1>7
<1>10. CallsSee(call', saved) /\ SaversOK(call', clientCache')
  BY <1>2, <1>4, <1>5, <1>8, <1>9, SaverMoves
<1>11. ClientSees(clientCache', saved)
  BY <1>9 DEF QuietKept, ClientSees
<1> QED
  BY <1>10, <1>11 DEF QuietKept, Invalidate

\* A quiet save that ends finds no fetch under way and no key of the object in
\* Client.cache: whatever is read from then on is fetched from then on, but for
\* what contentCache has of the other files.
LEMMA ForgetSees ==
    ASSUME Kept, QuietKept, NEW t \in Threads, Forget(t)
    PROVE  QuietKept'
<1> DEFINE c == call[t]
           x == [file |-> call[t].file, ver |-> call[t].ver, at |-> now,
                 quiet |-> call[t].quiet]
<1>1. c.step = "forget" /\ c.step \in SaverSteps /\ c.step \notin FetchSteps
  BY DEF Forget, At, SaverSteps, FetchSteps
<1>2. /\ saved' = saved \cup {x} /\ call' = [call EXCEPT ![t] = NoCall]
      /\ contentCache' = [contentCache EXCEPT ![c.file] = {}]
      /\ clientCache' = clientCache
  BY DEF Forget, Saved
<1>3. x.file = c.file /\ x.ver = c.ver /\ x.at = now /\ x.quiet = c.quiet
  OBVIOUS
<1> HIDE DEF x
<1>4. /\ call = [u \in Threads |-> call[u]]
      /\ contentCache = [f \in Files |-> contentCache[f]]
  BY DEF Kept, CallsOK, ContentOK
<1>5. call'[t] = NoCall /\ \A u \in Threads : u # t => call'[u] = call[u]
  BY <1>2, <1>4
<1>6. \A f \in Files : IF f = c.file THEN contentCache'[f] = {}
                                     ELSE contentCache'[f] = contentCache[f]
  BY <1>2, <1>4
<1>7. SaversOK(call', clientCache)
  <2>1. ~ QuietSaver(NoCall)
    BY NoCallSees DEF QuietSaver
  <2> QED
    BY <1>1, <1>2, <2>1, NoCallSees, SaverMoves
<1>8. \A v : Backed(v, saved) => Backed(v, saved')
  BY <1>2 DEF Backed
<1>9. CASE QuietSaver(c)
  <2>1. Undisturbed(c, call, clientCache)
    BY <1>9 DEF QuietKept, SaversOK
  <2>2. \A u \in Threads : call'[u].step \notin FetchSteps
    BY <1>5, <2>1, NoCallSees DEF Undisturbed
  <2>3. CallsSee(call', saved')
    BY <1>5, <2>2, NoCallSees DEF QuietKept, CallsSee, CallSees
  <2>4. \A k \in Keys : clientCache[k] = {}
    <3>1. Len(KeyOrder) \in Nat /\ c.todo = Len(KeyOrder) + 1
      BY <1>1, <2>1, ConstantFacts DEF Undisturbed
    <3> QED
      BY <2>1, <3>1 DEF Undisturbed, Keys
  <2>5. ClientSees(clientCache', saved')
    BY <1>2, <2>4 DEF ClientSees
  <2>6. ASSUME NEW f \in Files, NEW e \in contentCache'[f], NEW y \in saved', y.quiet
        PROVE  EntrySees(e, f, y)
    <3>1. f # c.file /\ e \in contentCache[f]
      BY <1>6, <2>6
    <3>2. CASE y = x
      <4>1. e.at \in 0..now
        BY <3>1 DEF Kept, ContentOK, ContentEntryOK
      <4> QED
        BY <1>3, <3>1, <3>2, <4>1 DEF EntrySees
    <3>3. CASE y \in saved
      BY <2>6, <3>1, <3>3 DEF QuietKept, ContentSees
    <3> QED
      BY <1>2, <3>2, <3>3
  <2>7. ContentSees(contentCache', saved')
    BY <2>6 DEF ContentSees
  <2> QED
    BY <1>2, <1>7, <2>3, <2>5, <2>7 DEF QuietKept
<1>10. CASE ~ QuietSaver(c)
  <2>1. ~ x.quiet
    BY <1>1, <1>3, <1>10 DEF QuietSaver
  <2>2. \A ver : SeesAll(ver, saved) => SeesAll(ver, saved')
    BY <1>2, <2>1 DEF SeesAll
  <2>3. ASSUME NEW u \in Threads PROVE CallSees(call'[u], saved')
    <3>1. CASE u = t
      BY <1>5, <3>1, NoCallSees
    <3>2. CASE u # t
      <4>1. CallSees(call[u], saved) /\ call'[u] = call[u]
        BY <1>5, <3>2 DEF QuietKept, CallsSee
      <4> QED
        BY <1>8, <2>2, <4>1 DEF CallSees, FetchSees
    <3> QED
      BY <3>1, <3>2
  <2>4. CallsSee(call', saved')
    BY <2>3 DEF CallsSee
  <2>5. ClientSees(clientCache', saved')
    BY <1>2, <2>2 DEF QuietKept, ClientSees
  <2>6. ContentSees(contentCache', saved')
    BY <1>2, <1>6, <2>1 DEF QuietKept, ContentSees
  <2> QED
    BY <1>2, <1>7, <2>4, <2>5, <2>6 DEF QuietKept
<1> QED
  BY <1>9, <1>10

-----------------------------------------------------------------------------
LEMMA QuietStart == Init => QuietInv
<1> SUFFICES ASSUME Init PROVE QuietInv
  OBVIOUS
<1>1. \A t \in Threads : call[t] = NoCall
  BY DEF Init
<1>2. CallsSee(call, saved)
  BY <1>1, NoCallSees DEF CallsSee
<1>3. SaversOK(call, clientCache)
  BY <1>1, NoCallSees DEF SaversOK, QuietSaver
<1>4. ClientSees(clientCache, saved) /\ ContentSees(contentCache, saved)
  BY DEF Init, ClientSees, ContentSees
<1>5. ServedSees(served)
  BY DEF Init, NoRead, ServedSees
<1> QED
  BY <1>2, <1>3, <1>4, <1>5 DEF QuietInv, QuietKept

LEMMA QuietStep == ContentInv /\ QuietInv /\ [Next]_vars => QuietInv'
<1> SUFFICES ASSUME ContentInv, QuietInv, [Next]_vars PROVE QuietInv'
  OBVIOUS
<1>1. Kept /\ QuietKept
  BY DEF ContentInv, Kept, QuietInv
<1>2. ASSUME QuietKept', NothingServed PROVE QuietInv'
  BY <1>2, NothingServedSees DEF QuietInv
<1>3. ASSUME NEW t \in Threads, NEW f \in Files, FetchHit(t, f) PROVE QuietInv'
  BY <1>1, <1>3, HitSees DEF QuietInv
<1>4. ASSUME NEW t \in Threads, NEW f \in Files, BeginsCall(t, f) PROVE QuietInv'
  <2>1. NothingServed
    BY <1>4 DEF BeginsCall, FetchMiss, SaveBegins
  <2>2. QuietKept'
    BY <1>1, <1>4, MissSees, SaveBeginsSees DEF BeginsCall
  <2> QED
    BY <1>2, <2>1, <2>2
<1>5. ASSUME NEW t \in Threads, GoesOn(t) PROVE QuietInv'
  <2>1. NothingServed
    BY <1>5 DEF GoesOn, ClientGet, Drop, ApiGet, ClientSet, ApiPut, SaveFails,
                Invalidate, Forget
  <2>2. QuietKept'
    BY <1>1, <1>5, ClientGetSees, DropSees, ApiGetSees, ClientSetSees, ApiPutSees,
       SaveFailsSees, InvalidateSees, ForgetSees DEF GoesOn
  <2> QED
    BY <1>2, <2>1, <2>2
<1>6. ASSUME NEW t \in Threads, Store(t) PROVE QuietInv'
  BY <1>1, <1>6, StoreSees DEF QuietInv
<1>7. CASE ExternalWrite \/ Tick
  <2>1. NothingServed /\ UNCHANGED <<clientCache, contentCache, call, saved>>
    BY <1>7 DEF ExternalWrite, Tick
  <2>2. QuietKept'
    BY <1>1, <2>1 DEF QuietKept
  <2> QED
    BY <1>2, <2>1, <2>2
<1>8. CASE UNCHANGED vars
  BY <1>8 DEF QuietInv, QuietKept, vars
<1> QED
  BY <1>3, <1>4, <1>5, <1>6, <1>7, <1>8 DEF Next, BeginsCall, GoesOn

LEMMA QuietInvariance == Spec => []QuietInv
<1> QED
  BY ContentInvariance, QuietStart, QuietStep, PTL DEF Spec

\* A save of a file that returned, and that no fetch overlapped between its
\* update and its return, is seen by every later read of the file
\* (ReadYourQuietWrites): InvalidateObject and delete(fs.contentCache) are
\* enough once nothing fetched earlier can come in behind them.
THEOREM QuietWritesAreRead == Spec => []ReadYourQuietWrites
<1>1. QuietInv => ReadYourQuietWrites
  BY DEF QuietInv, ServedSees, ReadYourQuietWrites
<1> QED
  BY QuietInvariance, <1>1, PTL

\* The object's other files, whose contentCache entries a save leaves, show a
\* quiet save contentTTL after it at the latest (SiblingsCatchUp): their
\* entries have expired by then, and what is fetched is as new as the save.
THEOREM SiblingsSeeQuietWrites == Spec => []SiblingsCatchUp
<1>1. QuietInv => SiblingsCatchUp
  BY DEF QuietInv, ServedSees, SiblingsCatchUp
<1> QED
  BY QuietInvariance, <1>1, PTL
=============================================================================
