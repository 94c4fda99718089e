------------------------- MODULE ContentPath_proofs -------------------------
(***************************************************************************)
(* The content path for any threads, files, keys, times to live, latency   *)
(* and clock: the type invariant, and the bound on the age of what a read  *)
(* returns.                                                                *)
(*                                                                         *)
(* The inductive invariant follows a version along its way: what the API   *)
(* answered was current when the call began; what Client.cache holds was   *)
(* current CacheTTL + MaxLatency before it expires; what a call is about   *)
(* to store was current that long before the call began; what contentCache *)
(* holds was current CacheTTL + 2 * MaxLatency before it was stored.       *)
(***************************************************************************)
EXTENDS ContentPath, TLAPS

Step == {"idle", "client", "drop", "api", "set", "store", "put", "invalidate",
         "forget"}

\* ver was still current at time x, if v is the version that is current now and
\* the ones before it died when d says.
CurrentAt(ver, x, v, d) == ver \in 0..(v - 1) => d[ver] >= x

ClockOK(n, v, d) ==
    /\ n \in Nat /\ v \in Nat
    /\ d \in [0..(v - 1) -> 0..n]

ClientEntryOK(e, n, v, d) ==
    /\ e.ver \in 0..v /\ e.exp \in 0..(n + CacheTTL)
    /\ CurrentAt(e.ver, e.exp - CacheTTL - MaxLatency, v, d)

ContentEntryOK(e, n, v, d) ==
    /\ e.ver \in -1..v /\ e.at \in 0..n
    /\ CurrentAt(e.ver, e.at - CacheTTL - 2 * MaxLatency, v, d)

IsCall(c) == {"step", "file", "start", "ver", "todo", "quiet"} \subseteq DOMAIN c

CallOK(c, n, v, d) ==
    /\ IsCall(c)
    /\ c.step \in Step
    /\ c.ver \in -1..v /\ c.start \in 0..n /\ c.todo \in 0..(Len(KeyOrder) + 1)
    /\ c.step # "idle" => c.file \in Files /\ n <= c.start + MaxLatency
    /\ c.step = "set" => c.ver >= 0 /\ CurrentAt(c.ver, c.start, v, d)
    /\ c.step = "store" => CurrentAt(c.ver, c.start - CacheTTL - MaxLatency, v, d)
    /\ c.step = "invalidate" => c.todo \in 1..Len(KeyOrder)
    /\ c.step \in {"invalidate", "forget"} => c.ver >= 1

SaveOK(x, n, v) == x.ver \in 1..v /\ x.at \in 0..n

ClientOK(cache, n, v, d) ==
    /\ cache = [k \in Keys |-> cache[k]]
    /\ \A k \in Keys : \A e \in cache[k] : ClientEntryOK(e, n, v, d)

ContentOK(cache, n, v, d) ==
    /\ cache = [f \in Files |-> cache[f]]
    /\ \A f \in Files : \A e \in cache[f] : ContentEntryOK(e, n, v, d)

CallsOK(calls, n, v, d) ==
    /\ calls = [t \in Threads |-> calls[t]]
    /\ \A t \in Threads : CallOK(calls[t], n, v, d)

SavesOK(saves, n, v) == \A x \in saves : SaveOK(x, n, v)

ServedOK(age, n) ==
    /\ age \in 0..n
    /\ \/ age <= CacheTTL + 2 * MaxLatency
       \/ age < CacheTTL + 2 * MaxLatency + ContentTTL

Bounded(n, v) == n <= MaxNow /\ v <= MaxVersion

ContentInv ==
    /\ ClockOK(now, version, died) /\ Bounded(now, version)
    /\ ClientOK(clientCache, now, version, died)
    /\ ContentOK(contentCache, now, version, died)
    /\ CallsOK(call, now, version, died)
    /\ SavesOK(saved, now, version)
    /\ ServedOK(served.age, now)

-----------------------------------------------------------------------------
\* The constants.

LEMMA ConstantFacts ==
    /\ CacheTTL \in Nat /\ ContentTTL \in Nat /\ MaxLatency \in Nat
    /\ MaxNow \in Nat /\ MaxVersion \in Nat /\ Len(KeyOrder) \in Nat
    /\ \A f \in Files : Key[f] \in Keys /\ Len(KeyOrder) >= 1
<1>1. ASSUME NEW f \in Files
      PROVE  Key[f] \in Keys /\ Len(KeyOrder) >= 1
  <2>1. PICK i \in 1..Len(KeyOrder) : Key[f] = KeyOrder[i]
    BY ContentPathAssumption
  <2>2. Len(KeyOrder) >= 1
    BY ContentPathAssumption
  <2> QED
    BY <2>1, <2>2 DEF Keys
<1> QED
  BY <1>1, ContentPathAssumption

LEMMA NoCallIsOK ==
    ASSUME NEW n, NEW v, NEW d, ClockOK(n, v, d)
    PROVE  CallOK(NoCall, n, v, d)
BY ConstantFacts DEF CallOK, NoCall, IsCall, Step, ClockOK, CurrentAt

\* What a time that has passed keeps of the records: the clock moves on.
LEMMA TickKeeps ==
    ASSUME NEW n, NEW v, NEW d, ClockOK(n, v, d)
    PROVE  /\ ClockOK(n + 1, v, d)
           /\ \A e : ClientEntryOK(e, n, v, d) => ClientEntryOK(e, n + 1, v, d)
           /\ \A e : ContentEntryOK(e, n, v, d) => ContentEntryOK(e, n + 1, v, d)
           /\ \A c : /\ CallOK(c, n, v, d)
                     /\ c.step # "idle" => n - c.start < MaxLatency
                     => CallOK(c, n + 1, v, d)
           /\ \A x : SaveOK(x, n, v) => SaveOK(x, n + 1, v)
<1>1. n \in Nat /\ v \in Nat /\ d \in [0..(v - 1) -> 0..n]
  BY DEF ClockOK
<1>2. ClockOK(n + 1, v, d)
  BY <1>1 DEF ClockOK
<1>3. ASSUME NEW e, ClientEntryOK(e, n, v, d) PROVE ClientEntryOK(e, n + 1, v, d)
  BY <1>1, <1>3, ConstantFacts DEF ClientEntryOK
<1>4. ASSUME NEW e, ContentEntryOK(e, n, v, d) PROVE ContentEntryOK(e, n + 1, v, d)
  BY <1>1, <1>4, ConstantFacts DEF ContentEntryOK
<1>5. ASSUME NEW c, CallOK(c, n, v, d), c.step # "idle" => n - c.start < MaxLatency
      PROVE  CallOK(c, n + 1, v, d)
  BY <1>1, <1>5, ConstantFacts DEF CallOK
<1>6. ASSUME NEW x, SaveOK(x, n, v) PROVE SaveOK(x, n + 1, v)
  BY <1>1, <1>6 DEF SaveOK
<1> QED
  BY <1>2, <1>3, <1>4, <1>5, <1>6

\* An update replaces the current version now, later than whatever was noted.
Replaced(n, v, d) == [w \in 0..v |-> IF w = v THEN n ELSE d[w]]

LEMMA UpdateKeeps ==
    ASSUME NEW n, NEW v, NEW d, ClockOK(n, v, d)
    PROVE  LET r == Replaced(n, v, d)
           IN  /\ ClockOK(n, v + 1, r)
               /\ \A e : ClientEntryOK(e, n, v, d) => ClientEntryOK(e, n, v + 1, r)
               /\ \A e : ContentEntryOK(e, n, v, d) => ContentEntryOK(e, n, v + 1, r)
               /\ \A c : CallOK(c, n, v, d) => CallOK(c, n, v + 1, r)
               /\ \A x : SaveOK(x, n, v) => SaveOK(x, n, v + 1)
<1> DEFINE r == Replaced(n, v, d)
<1>1. n \in Nat /\ v \in Nat /\ d \in [0..(v - 1) -> 0..n]
  BY DEF ClockOK
<1>2. r \in [0..v -> 0..n] /\ r[v] = n /\ \A w \in 0..(v - 1) : r[w] = d[w]
  BY <1>1 DEF Replaced
<1> HIDE DEF r
<1>3. ClockOK(n, v + 1, r)
  BY <1>1, <1>2 DEF ClockOK
<1>4. ASSUME NEW ver \in -1..v, NEW x \in Int, x <= n, CurrentAt(ver, x, v, d)
      PROVE  CurrentAt(ver, x, v + 1, r)
  <2>1. CASE ver = v
    BY <1>1, <1>2, <1>4, <2>1 DEF CurrentAt
  <2>2. CASE ver # v
    BY <1>1, <1>2, <1>4, <2>2 DEF CurrentAt
  <2> QED
    BY <2>1, <2>2
<1>5. ASSUME NEW e, ClientEntryOK(e, n, v, d) PROVE ClientEntryOK(e, n, v + 1, r)
  <2>1. CurrentAt(e.ver, e.exp - CacheTTL - MaxLatency, v + 1, r)
    BY <1>1, <1>4, <1>5, ConstantFacts DEF ClientEntryOK
  <2> QED
    BY <1>1, <1>5, <2>1 DEF ClientEntryOK
<1>6. ASSUME NEW e, ContentEntryOK(e, n, v, d) PROVE ContentEntryOK(e, n, v + 1, r)
  <2>1. CurrentAt(e.ver, e.at - CacheTTL - 2 * MaxLatency, v + 1, r)
    BY <1>1, <1>4, <1>6, ConstantFacts DEF ContentEntryOK
  <2> QED
    BY <1>1, <1>6, <2>1 DEF ContentEntryOK
<1>7. ASSUME NEW c, CallOK(c, n, v, d) PROVE CallOK(c, n, v + 1, r)
  <2>1. c.ver \in -1..v /\ c.start \in 0..n
    BY <1>7 DEF CallOK
  <2>2. ASSUME c.step = "set" PROVE CurrentAt(c.ver, c.start, v + 1, r)
    BY <1>1, <1>4, <1>7, <2>1, <2>2 DEF CallOK
  <2>3. ASSUME c.step = "store"
        PROVE  CurrentAt(c.ver, c.start - CacheTTL - MaxLatency, v + 1, r)
    BY <1>1, <1>4, <1>7, <2>1, <2>3, ConstantFacts DEF CallOK
  <2> QED
    BY <1>1, <1>7, <2>2, <2>3 DEF CallOK
<1>8. ASSUME NEW x, SaveOK(x, n, v) PROVE SaveOK(x, n, v + 1)
  BY <1>1, <1>8 DEF SaveOK
<1> QED
  BY <1>3, <1>5, <1>6, <1>7, <1>8 DEF r

\* What a cache, or the calls, are after one entry, or one call, is replaced.
LEMMA CallReplaced ==
    ASSUME NEW n, NEW v, NEW d, NEW calls, CallsOK(calls, n, v, d),
           NEW t \in Threads, NEW c, CallOK(c, n, v, d)
    PROVE  CallsOK([calls EXCEPT ![t] = c], n, v, d)
BY DEF CallsOK

LEMMA ClientEntryReplaced ==
    ASSUME NEW n, NEW v, NEW d, NEW cache, ClientOK(cache, n, v, d),
           NEW k, NEW S, \A e \in S : ClientEntryOK(e, n, v, d)
    PROVE  ClientOK([cache EXCEPT ![k] = S], n, v, d)
BY DEF ClientOK

LEMMA ContentEntryReplaced ==
    ASSUME NEW n, NEW v, NEW d, NEW cache, ContentOK(cache, n, v, d),
           NEW f, NEW S, \A e \in S : ContentEntryOK(e, n, v, d)
    PROVE  ContentOK([cache EXCEPT ![f] = S], n, v, d)
BY DEF ContentOK

\* What CallOK asks of a call of which only this much is known.
LEMMA CallIsOK ==
    ASSUME NEW n, NEW v, NEW d, NEW x, IsCall(x), x.step \in Step, x.file \in Files,
           x.ver \in -1..v, x.start \in 0..n, x.todo \in 0..(Len(KeyOrder) + 1),
           n <= x.start + MaxLatency,
           x.step = "set" => x.ver >= 0 /\ CurrentAt(x.ver, x.start, v, d),
           x.step = "store" => CurrentAt(x.ver, x.start - CacheTTL - MaxLatency, v, d),
           x.step = "invalidate" => x.todo \in 1..Len(KeyOrder),
           x.step \in {"invalidate", "forget"} => x.ver >= 1
    PROVE  CallOK(x, n, v, d)
BY DEF CallOK

\* A call that goes to its next step, with what that step asks of it.
LEMMA CallMoves ==
    ASSUME NEW n, NEW v, NEW d, NEW c, CallOK(c, n, v, d), c.step # "idle",
           NEW s \in Step \ {"idle", "set", "invalidate"},
           s = "store" => CurrentAt(c.ver, c.start - CacheTTL - MaxLatency, v, d),
           s = "forget" => c.ver >= 1
    PROVE  CallOK([c EXCEPT !.step = s], n, v, d)
<1> DEFINE x == [c EXCEPT !.step = s]
<1>1. /\ IsCall(x) /\ x.step = s /\ x.file = c.file /\ x.start = c.start
      /\ x.ver = c.ver /\ x.todo = c.todo
  BY DEF CallOK, IsCall
<1> HIDE DEF x
<1>2. CallOK(x, n, v, d)
  BY <1>1 DEF CallOK, Step
<1> QED
  BY <1>2 DEF x

LEMMA CallHolds ==
    ASSUME NEW n, NEW v, NEW d, NEW c, CallOK(c, n, v, d), c.step # "idle",
           NEW ver \in -1..v, NEW s \in {"set", "store"},
           s = "set" => ver >= 0 /\ CurrentAt(ver, c.start, v, d),
           s = "store" => CurrentAt(ver, c.start - CacheTTL - MaxLatency, v, d)
    PROVE  CallOK([c EXCEPT !.step = s, !.ver = ver], n, v, d)
<1> DEFINE x == [c EXCEPT !.step = s, !.ver = ver]
<1>1. /\ IsCall(x) /\ x.step = s /\ x.file = c.file /\ x.start = c.start
      /\ x.ver = ver /\ x.todo = c.todo
  BY DEF CallOK, IsCall
<1> HIDE DEF x
<1>2. CallOK(x, n, v, d)
  BY <1>1 DEF CallOK, Step
<1> QED
  BY <1>2 DEF x

\* What was current at x was current before.
LEMMA CurrentBefore ==
    ASSUME NEW n, NEW v, NEW d, ClockOK(n, v, d), NEW ver,
           NEW x \in Int, NEW y \in Int, y <= x, CurrentAt(ver, x, v, d)
    PROVE  CurrentAt(ver, y, v, d)
BY DEF CurrentAt, ClockOK

\* A version that was current at x is no older now than the time since x.
LEMMA AgeFacts ==
    ASSUME ClockOK(now, version, died), NEW ver, NEW x \in Int, x <= now,
           CurrentAt(ver, x, version, died)
    PROVE  Age(ver) \in 0..now /\ Age(ver) <= now - x
<1>1. CASE ver \in 0..(version - 1)
  <2>1. died[ver] \in 0..now /\ died[ver] >= x
    BY <1>1 DEF ClockOK, CurrentAt
  <2>2. Age(ver) = now - died[ver]
    BY <1>1 DEF Age
  <2> QED
    BY <2>1, <2>2 DEF ClockOK
<1>2. CASE ~ (ver \in 0..(version - 1))
  BY <1>2 DEF Age, ClockOK
<1> QED
  BY <1>1, <1>2

-----------------------------------------------------------------------------
\* One lemma per part of the invariant that the steps leave, or change.

\* The parts of the invariant that say nothing of what was served.
Kept ==
    /\ ClockOK(now, version, died) /\ Bounded(now, version)
    /\ ClientOK(clientCache, now, version, died)
    /\ ContentOK(contentCache, now, version, died)
    /\ CallsOK(call, now, version, died)
    /\ SavesOK(saved, now, version)

LEMMA NothingServedIsOK ==
    ASSUME ClockOK(now, version, died)', NothingServed
    PROVE  ServedOK(served.age, now)'
<1>1. served'.age = 0
  BY DEF NothingServed, NoRead
<1> QED
  BY <1>1, ConstantFacts DEF ServedOK, ClockOK

LEMMA ThreadFacts ==
    ASSUME Kept, NEW t \in Threads
    PROVE  /\ CallOK(call[t], now, version, died) /\ IsCall(call[t])
           /\ call[t].ver \in -1..version /\ call[t].start \in 0..now
           /\ now \in Nat /\ version \in Nat
           /\ ~ At(t, "idle") => /\ call[t].file \in Files
                                 /\ Key[call[t].file] \in Keys
                                 /\ now <= call[t].start + MaxLatency
BY ConstantFacts DEF Kept, CallsOK, CallOK, ClockOK, At

LEMMA FetchHitStep ==
    ASSUME ContentInv, NEW t \in Threads, NEW f \in Files, FetchHit(t, f)
    PROVE  ContentInv'
<1>1. Kept'
  BY DEF ContentInv, Kept, FetchHit
<1>2. PICK e \in contentCache[f] : Live(e) /\ Serve(e.ver, MustSee(f))
  BY DEF FetchHit
<1>3. ContentEntryOK(e, now, version, died) /\ now \in Nat
  BY DEF ContentInv, ContentOK, ClockOK
<1>4. ServedOK(served'.age, now)
  <2>1. CASE e.ver = ErrorText
    <3>1. served'.age = 0
      BY <1>2, <2>1 DEF Serve, NoRead
    <3> QED
      BY <1>3, <3>1, ConstantFacts DEF ServedOK
  <2>2. CASE e.ver # ErrorText
    <3> DEFINE x == e.at - CacheTTL - 2 * MaxLatency
    <3>1. served'.age = Age(e.ver)
      BY <1>2, <2>2 DEF Serve
    <3>2. x \in Int /\ x <= now /\ e.at \in Int
      BY <1>3, ConstantFacts DEF ContentEntryOK
    <3>3. CurrentAt(e.ver, x, version, died)
      BY <1>3 DEF ContentEntryOK
    <3>4. Age(e.ver) \in 0..now /\ Age(e.ver) <= now - x
      BY <3>2, <3>3, AgeFacts DEF ContentInv
    <3>5. now - e.at < ContentTTL
      BY <1>2 DEF Live
    <3>6. Age(e.ver) < CacheTTL + 2 * MaxLatency + ContentTTL
      <4>1. Age(e.ver) \in Int /\ now \in Int
        BY <1>3, <3>4
      <4> QED
        BY <4>1, <3>2, <3>4, <3>5, ConstantFacts
    <3> QED
      BY <3>1, <3>4, <3>6 DEF ServedOK
  <2> QED
    BY <2>1, <2>2
<1>5. now' = now
  BY DEF FetchHit
<1> QED
  BY <1>1, <1>4, <1>5 DEF ContentInv, Kept

LEMMA FetchMissStep ==
    ASSUME Kept, NEW t \in Threads, NEW f \in Files, FetchMiss(t, f)
    PROVE  Kept'
<1> DEFINE c(u) == IF u # t THEN [call[u] EXCEPT !.quiet = FALSE]
                   ELSE [NoCall EXCEPT !.step = "client", !.file = f,
                            !.start = now, !.must = MustSee(f)]
<1>1. ASSUME NEW u \in Threads PROVE CallOK(c(u), now, version, died)
  <2>1. CASE u # t
    <3>1. CallOK(call[u], now, version, died) /\ IsCall(call[u])
      BY ThreadFacts
    <3> DEFINE x == [call[u] EXCEPT !.quiet = FALSE]
    <3>2. /\ IsCall(x) /\ x.step = call[u].step /\ x.file = call[u].file
          /\ x.start = call[u].start /\ x.ver = call[u].ver /\ x.todo = call[u].todo
      BY <3>1 DEF IsCall
    <3>3. c(u) = x
      BY <2>1
    <3> HIDE DEF x
    <3>4. CallOK(x, now, version, died)
      BY <3>1, <3>2 DEF CallOK
    <3> QED
      BY <3>3, <3>4
  <2>2. CASE u = t
    <3> DEFINE x == [NoCall EXCEPT !.step = "client", !.file = f, !.start = now,
                        !.must = MustSee(f)]
    <3>1. /\ IsCall(x) /\ x.step = "client" /\ x.file = f /\ x.start = now
          /\ x.ver = 0 /\ x.todo = 0
      BY DEF IsCall, NoCall
    <3>2. c(u) = x
      BY <2>2
    <3> HIDE DEF x
    <3>3. CallOK(x, now, version, died)
      <4>1. now \in Nat /\ version \in Nat
        BY ThreadFacts
      <4> QED
        BY <4>1, <3>1, CallIsOK, ConstantFacts DEF Step
    <3> QED
      BY <3>2, <3>3
  <2> QED
    BY <2>1, <2>2
<1>2. call' = [u \in Threads |-> c(u)]
  BY DEF FetchMiss
<1> HIDE DEF c
<1>3. CallsOK(call', now, version, died)
  BY <1>1, <1>2 DEF CallsOK
<1> QED
  BY <1>3 DEF Kept, FetchMiss

LEMMA ClientGetStep ==
    ASSUME Kept, NEW t \in Threads, ClientGet(t)
    PROVE  Kept'
<1> DEFINE c == call[t]  k == Key[call[t].file]
<1>1. /\ CallOK(c, now, version, died) /\ c.step = "client" /\ k \in Keys
      /\ c.start \in 0..now /\ now \in Nat
  BY ThreadFacts DEF ClientGet, At
<1>2. CASE \E e \in clientCache[k] : Valid(e) /\ Holding(t, e.ver, "store")
  <2>1. PICK e \in clientCache[k] : Valid(e) /\ Holding(t, e.ver, "store")
    BY <1>2
  <2>2. ClientEntryOK(e, now, version, died)
    BY <1>1 DEF Kept, ClientOK
  <2>3. /\ e.ver \in -1..version /\ e.exp \in Int /\ now <= e.exp
        /\ CurrentAt(e.ver, e.exp - CacheTTL - MaxLatency, version, died)
    BY <2>1, <2>2, <1>1 DEF ClientEntryOK, Valid, Kept, ClockOK
  <2>4. CurrentAt(e.ver, c.start - CacheTTL - MaxLatency, version, died)
    <3> DEFINE x == e.exp - CacheTTL - MaxLatency
               y == c.start - CacheTTL - MaxLatency
    <3>1. x \in Int /\ y \in Int /\ y <= x
      <4>1. c.start \in Int /\ c.start <= e.exp /\ e.exp \in Int
        BY <1>1, <2>3
      <4> HIDE DEF c
      <4> QED
        BY <4>1, ConstantFacts
    <3> QED
      BY <2>3, <3>1, CurrentBefore DEF Kept
  <2>5. CallOK([c EXCEPT !.step = "store", !.ver = e.ver], now, version, died)
    BY <1>1, <2>3, <2>4, CallHolds
  <2>6. call' = [call EXCEPT ![t] = [c EXCEPT !.step = "store", !.ver = e.ver]]
    BY <2>1 DEF Holding
  <2> QED
    BY <2>5, <2>6, CallReplaced DEF Kept, ClientGet
<1>3. ASSUME NEW s \in {"drop", "api"}, Goto(t, s) PROVE Kept'
  <2>1. CallOK([c EXCEPT !.step = s], now, version, died)
    BY <1>1, <1>3, CallMoves DEF Step
  <2>2. call' = [call EXCEPT ![t] = [c EXCEPT !.step = s]]
    BY <1>3 DEF Goto
  <2> QED
    BY <2>1, <2>2, CallReplaced DEF Kept, ClientGet
<1> QED
  BY <1>2, <1>3 DEF ClientGet

LEMMA DropStep ==
    ASSUME Kept, NEW t \in Threads, Drop(t)
    PROVE  Kept'
<1>1. CallOK(call[t], now, version, died) /\ call[t].step = "drop"
  BY ThreadFacts DEF Drop, At
<1>2. CallOK([call[t] EXCEPT !.step = "api"], now, version, died)
  BY <1>1, CallMoves DEF Step
<1>3. call' = [call EXCEPT ![t] = [call[t] EXCEPT !.step = "api"]]
  BY DEF Drop, Goto
<1>4. CallsOK(call', now, version, died)
  BY <1>2, <1>3, CallReplaced DEF Kept
<1>5. ClientOK(clientCache', now, version, died)
  BY ClientEntryReplaced DEF Kept, Drop
<1> QED
  BY <1>4, <1>5 DEF Kept, Drop

LEMMA ApiGetStep ==
    ASSUME Kept, NEW t \in Threads, ApiGet(t)
    PROVE  Kept'
<1> DEFINE c == call[t]
<1>1. CallOK(c, now, version, died) /\ c.step = "api" /\ version \in Nat
  BY ThreadFacts DEF ApiGet, At
<1>2. CASE Holding(t, version, "set")
  <2>1. CurrentAt(version, c.start, version, died)
    BY <1>1 DEF CurrentAt
  <2>2. CallOK([c EXCEPT !.step = "set", !.ver = version], now, version, died)
    <3>1. c.step # "idle" /\ version \in -1..version /\ version >= 0
      BY <1>1
    <3> HIDE DEF c
    <3> QED
      BY <1>1, <2>1, <3>1, CallHolds
  <2>3. call' = [call EXCEPT ![t] = [c EXCEPT !.step = "set", !.ver = version]]
    BY <1>2 DEF Holding
  <2> QED
    BY <2>2, <2>3, CallReplaced DEF Kept, ApiGet
<1>3. CASE Holding(t, ErrorText, "store")
  <2>1. CurrentAt(ErrorText, c.start - CacheTTL - MaxLatency, version, died)
    BY <1>1 DEF CurrentAt, ErrorText
  <2>2. CallOK([c EXCEPT !.step = "store", !.ver = ErrorText], now, version, died)
    <3>1. c.step # "idle" /\ ErrorText \in -1..version
      BY <1>1 DEF ErrorText
    <3> HIDE DEF c
    <3> QED
      BY <1>1, <2>1, <3>1, CallHolds
  <2>3. call' = [call EXCEPT ![t] = [c EXCEPT !.step = "store", !.ver = ErrorText]]
    BY <1>3 DEF Holding
  <2> QED
    BY <2>2, <2>3, CallReplaced DEF Kept, ApiGet
<1> QED
  BY <1>2, <1>3 DEF ApiGet

\* The entry expires CacheTTL from now, which is MaxLatency at most after the
\* call began; what it holds was current then.
LEMMA ClientSetStep ==
    ASSUME Kept, NEW t \in Threads, ClientSet(t)
    PROVE  Kept'
<1> DEFINE c == call[t]
           e == [ver |-> call[t].ver, exp |-> now + CacheTTL]
<1>1. /\ CallOK(c, now, version, died) /\ c.step = "set" /\ c.ver \in 0..version
      /\ c.start \in 0..now /\ now \in Nat /\ now <= c.start + MaxLatency
      /\ CurrentAt(c.ver, c.start, version, died)
  <2>1. CallOK(c, now, version, died) /\ c.step = "set" /\ c.ver \in -1..version
    BY ThreadFacts DEF ClientSet, At
  <2>2. /\ c.ver >= 0 /\ CurrentAt(c.ver, c.start, version, died)
        /\ now <= c.start + MaxLatency
    BY <2>1 DEF CallOK
  <2> QED
    BY <2>1, <2>2, ThreadFacts
<1>2. ClientEntryOK(e, now, version, died)
  <2>1. e.ver = c.ver /\ e.exp = now + CacheTTL
    OBVIOUS
  <2> HIDE DEF c, e
  <2> DEFINE y == e.exp - CacheTTL - MaxLatency
  <2>2. c.start \in Int /\ y \in Int /\ y <= c.start
    BY <1>1, <2>1, ConstantFacts
  <2>3. CurrentAt(e.ver, y, version, died)
    BY <1>1, <2>1, <2>2, CurrentBefore DEF Kept
  <2> QED
    BY <1>1, <2>1, <2>3, ConstantFacts DEF ClientEntryOK
<1>3. ClientOK(clientCache', now, version, died)
  <2> DEFINE k == Key[call[t].file]
  <2>1. clientCache' = [clientCache EXCEPT ![k] = {e}]
    BY DEF ClientSet
  <2> HIDE DEF e, k
  <2> QED
    BY <1>2, <2>1, ClientEntryReplaced DEF Kept
<1>4. CallOK([c EXCEPT !.step = "store"], now, version, died)
  <2> DEFINE y == c.start - CacheTTL - MaxLatency
  <2>1. c.start \in Int /\ y \in Int /\ y <= c.start
    <3> HIDE DEF c
    <3> QED
      BY <1>1, ConstantFacts
  <2>2. CurrentAt(c.ver, y, version, died)
    BY <1>1, <2>1, CurrentBefore DEF Kept
  <2> QED
    BY <1>1, <2>2, CallMoves DEF Step
<1>5. call' = [call EXCEPT ![t] = [c EXCEPT !.step = "store"]]
  BY DEF ClientSet, Goto
<1>6. CallsOK(call', now, version, died)
  BY <1>4, <1>5, CallReplaced DEF Kept
<1> QED
  BY <1>3, <1>6 DEF Kept, ClientSet

\* A read that fetched: what it stores was current CacheTTL + MaxLatency
\* before it began, which is MaxLatency ago at most.
LEMMA StoreStep ==
    ASSUME Kept, NEW t \in Threads, Store(t)
    PROVE  Kept' /\ ServedOK(served'.age, now)
<1> DEFINE c == call[t]
           e == [ver |-> call[t].ver, at |-> now]
           x == c.start - CacheTTL - MaxLatency
           y == now - CacheTTL - 2 * MaxLatency
<1>1. /\ CallOK(c, now, version, died) /\ c.step = "store" /\ c.ver \in -1..version
      /\ c.start \in 0..now /\ now \in Nat /\ now <= c.start + MaxLatency
      /\ CurrentAt(c.ver, x, version, died)
  <2>1. CallOK(c, now, version, died) /\ c.step = "store" /\ c.ver \in -1..version
    BY ThreadFacts DEF Store, At
  <2>2. CurrentAt(c.ver, x, version, died) /\ now <= c.start + MaxLatency
    BY <2>1 DEF CallOK
  <2> QED
    BY <2>1, <2>2, ThreadFacts
<1>2. x \in Int /\ y \in Int /\ y <= x /\ y <= now
  <2> HIDE DEF c
  <2> QED
    BY <1>1, ConstantFacts
<1>3. CurrentAt(c.ver, y, version, died)
  BY <1>1, <1>2, CurrentBefore DEF Kept
<1>4. ContentEntryOK(e, now, version, died)
  <2>1. e.ver = c.ver /\ e.at = now
    OBVIOUS
  <2> HIDE DEF e, c
  <2> QED
    BY <1>1, <1>3, <2>1 DEF ContentEntryOK
<1>5. ContentOK(contentCache', now, version, died)
  <2> DEFINE f == call[t].file
  <2>1. contentCache' = [contentCache EXCEPT ![f] = {e}]
    BY DEF Store
  <2> HIDE DEF e, f
  <2> QED
    BY <1>4, <2>1, ContentEntryReplaced DEF Kept
<1>6. CallsOK(call', now, version, died)
  BY NoCallIsOK, CallReplaced DEF Kept, Store
<1>7. ServedOK(served'.age, now)
  <2>1. CASE c.ver = ErrorText
    <3>1. served'.age = 0
      BY <2>1 DEF Store, Serve, NoRead
    <3> QED
      BY <1>1, <3>1, ConstantFacts DEF ServedOK
  <2>2. CASE c.ver # ErrorText
    <3>1. served'.age = Age(c.ver)
      BY <2>2 DEF Store, Serve
    <3>2. Age(c.ver) \in 0..now /\ Age(c.ver) <= now - y
      BY <1>2, <1>3, AgeFacts DEF Kept
    <3>3. Age(c.ver) <= CacheTTL + 2 * MaxLatency
      <4>1. Age(c.ver) \in Int /\ now \in Int
        BY <1>1, <3>2
      <4> QED
        BY <4>1, <3>2, ConstantFacts
    <3> QED
      BY <3>1, <3>2, <3>3 DEF ServedOK
  <2> QED
    BY <2>1, <2>2
<1> QED
  BY <1>5, <1>6, <1>7 DEF Kept, Store

LEMMA SaveBeginsStep ==
    ASSUME Kept, NEW t \in Threads, NEW f \in Files, SaveBegins(t, f)
    PROVE  Kept'
<1> DEFINE w == IF f \in DataFiles THEN version ELSE 0
           x == [NoCall EXCEPT !.step = "put", !.file = f, !.start = now, !.ver = w]
<1>1. now \in Nat /\ version \in Nat /\ w \in 0..version
  BY ThreadFacts
<1>2. call' = [call EXCEPT ![t] = x]
  BY DEF SaveBegins
<1> HIDE DEF w
<1>3. /\ IsCall(x) /\ x.step = "put" /\ x.file = f /\ x.start = now
      /\ x.ver = w /\ x.todo = 0
  BY DEF IsCall, NoCall
<1> HIDE DEF x
<1>4. CallOK(x, now, version, died)
  BY <1>1, <1>3, CallIsOK, ConstantFacts DEF Step
<1>5. CallsOK(call', now, version, died)
  BY <1>2, <1>4, CallReplaced DEF Kept
<1> QED
  BY <1>5 DEF Kept, SaveBegins

\* An update, whoever makes it, and what it keeps.
LEMMA NextVersionFacts ==
    ASSUME Kept, NextVersion
    PROVE  /\ version \in Nat /\ version' = version + 1
           /\ died' = Replaced(now, version, died)
           /\ ClockOK(now, version', died') /\ Bounded(now, version')
           /\ ClientOK(clientCache, now, version', died')
           /\ ContentOK(contentCache, now, version', died')
           /\ CallsOK(call, now, version', died')
           /\ SavesOK(saved, now, version')
<1>1. version \in Nat /\ version' = version + 1 /\ died' = Replaced(now, version, died)
  BY DEF NextVersion, Replaced, Kept, ClockOK
<1>2. Bounded(now, version')
  BY <1>1, ConstantFacts DEF Kept, Bounded, NextVersion
<1>3. /\ ClockOK(now, version', died')
      /\ \A e : ClientEntryOK(e, now, version, died)
                    => ClientEntryOK(e, now, version', died')
      /\ \A e : ContentEntryOK(e, now, version, died)
                    => ContentEntryOK(e, now, version', died')
      /\ \A c : CallOK(c, now, version, died) => CallOK(c, now, version', died')
      /\ \A x : SaveOK(x, now, version) => SaveOK(x, now, version')
  BY <1>1, UpdateKeeps DEF Kept
<1>4. ClientOK(clientCache, now, version', died')
  BY <1>3 DEF Kept, ClientOK
<1>5. ContentOK(contentCache, now, version', died')
  BY <1>3 DEF Kept, ContentOK
<1>6. CallsOK(call, now, version', died')
  BY <1>3 DEF Kept, CallsOK
<1>7. SavesOK(saved, now, version')
  BY <1>3 DEF Kept, SavesOK
<1> QED
  BY <1>1, <1>2, <1>3, <1>4, <1>5, <1>6, <1>7

LEMMA ExternalWriteStep ==
    ASSUME Kept, ExternalWrite
    PROVE  Kept'
BY NextVersionFacts DEF Kept, ExternalWrite

LEMMA ApiPutStep ==
    ASSUME Kept, NEW t \in Threads, ApiPut(t)
    PROVE  Kept'
<1> DEFINE q == \A u \in Threads : ~ Fetching(u)
           x == call'[t]
<1>1. /\ ClockOK(now, version', died') /\ Bounded(now, version')
      /\ ClientOK(clientCache, now, version', died')
      /\ ContentOK(contentCache, now, version', died')
      /\ CallsOK(call, now, version', died')
      /\ SavesOK(saved, now, version')
      /\ version \in Nat /\ version' = version + 1
  BY NextVersionFacts DEF ApiPut
<1>2. /\ CallOK(call[t], now, version, died) /\ call[t].step = "put"
      /\ call[t].file \in Files /\ call[t].start \in 0..now
      /\ now <= call[t].start + MaxLatency
  BY ThreadFacts DEF ApiPut, CanPut, At
<1>3. call' = [call EXCEPT ![t].step = "invalidate", ![t].todo = 1,
                           ![t].ver = version + 1, ![t].quiet = q]
  BY DEF ApiPut
<1>4. call = [u \in Threads |-> call[u]] /\ IsCall(call[t])
  BY <1>2 DEF Kept, CallsOK, CallOK
<1> HIDE DEF q
<1>5. /\ call' = [u \in Threads |-> call'[u]]
      /\ \A u \in Threads \ {t} : call'[u] = call[u]
  BY <1>3, <1>4
<1>6. /\ IsCall(x) /\ x.step = "invalidate" /\ x.file = call[t].file
      /\ x.start = call[t].start /\ x.ver = version + 1 /\ x.todo = 1
  BY <1>3, <1>4 DEF IsCall
<1> HIDE DEF x
<1>7. CallOK(x, now, version', died')
  <2>1. Len(KeyOrder) \in Nat /\ Len(KeyOrder) >= 1
    BY <1>2, ConstantFacts
  <2>2. x.ver \in -1..version' /\ x.ver >= 1
    BY <1>1, <1>6
  <2> QED
    BY <1>2, <1>6, <2>1, <2>2, CallIsOK DEF Step
<1>8. CallsOK(call', now, version', died')
  BY <1>1, <1>5, <1>7 DEF CallsOK, x
<1> QED
  BY <1>1, <1>8 DEF Kept, ApiPut

LEMMA SaveFailsStep ==
    ASSUME Kept, NEW t \in Threads, SaveFails(t)
    PROVE  Kept'
<1>1. CASE UNCHANGED <<version, died>>
  <2>1. CallsOK(call', now, version, died)
    BY NoCallIsOK, CallReplaced DEF Kept, SaveFails
  <2> QED
    BY <1>1, <2>1 DEF Kept, SaveFails
<1>2. CASE NextVersion
  <2>1. /\ ClockOK(now, version', died') /\ Bounded(now, version')
        /\ ClientOK(clientCache, now, version', died')
        /\ ContentOK(contentCache, now, version', died')
        /\ CallsOK(call, now, version', died')
        /\ SavesOK(saved, now, version')
    BY <1>2, NextVersionFacts
  <2>2. CallsOK(call', now, version', died')
    BY <2>1, NoCallIsOK, CallReplaced DEF SaveFails
  <2> QED
    BY <2>1, <2>2 DEF Kept, SaveFails
<1> QED
  BY <1>1, <1>2 DEF SaveFails

LEMMA InvalidateStep ==
    ASSUME Kept, NEW t \in Threads, Invalidate(t)
    PROVE  Kept'
<1> DEFINE c == call[t]
           s == IF c.todo = Len(KeyOrder) THEN "forget" ELSE "invalidate"
           x == call'[t]
<1>1. /\ CallOK(c, now, version, died) /\ c.step = "invalidate" /\ IsCall(c)
      /\ c.file \in Files /\ c.start \in 0..now /\ c.ver \in -1..version
      /\ now <= c.start + MaxLatency
  BY ThreadFacts DEF Invalidate, At
<1>2. c.todo \in 1..Len(KeyOrder) /\ c.ver >= 1 /\ Len(KeyOrder) \in Nat
  BY <1>1, ConstantFacts DEF CallOK
<1>3. call = [u \in Threads |-> call[u]]
  BY DEF Kept, CallsOK
<1>4. call' = [call EXCEPT ![t].todo = @ + 1, ![t].step = s]
  BY DEF Invalidate
<1>5. s \in {"forget", "invalidate"} /\ (s = "invalidate" => c.todo # Len(KeyOrder))
  OBVIOUS
<1> HIDE DEF s
<1>6. /\ call' = [u \in Threads |-> call'[u]]
      /\ \A u \in Threads \ {t} : call'[u] = call[u]
  BY <1>3, <1>4
<1>7. /\ IsCall(x) /\ x.step = s /\ x.file = c.file /\ x.start = c.start
      /\ x.ver = c.ver /\ x.todo = c.todo + 1
  BY <1>1, <1>3, <1>4 DEF IsCall
<1> HIDE DEF x, c
<1>8. CallOK(x, now, version, died)
  <2>1. x.todo \in 0..(Len(KeyOrder) + 1)
    BY <1>2, <1>7
  <2>2. x.step = "invalidate" => x.todo \in 1..Len(KeyOrder)
    BY <1>2, <1>5, <1>7
  <2>3. x.step \in Step /\ x.step # "set" /\ x.step # "store"
    BY <1>5, <1>7 DEF Step
  <2> QED
    BY <1>1, <1>2, <1>7, <2>1, <2>2, <2>3, CallIsOK
<1>9. CallsOK(call', now, version, died)
  BY <1>6, <1>8 DEF Kept, CallsOK, x
<1>10. ClientOK(clientCache', now, version, died)
  BY ClientEntryReplaced DEF Kept, Invalidate
<1> QED
  BY <1>9, <1>10 DEF Kept, Invalidate

LEMMA ForgetStep ==
    ASSUME Kept, NEW t \in Threads, Forget(t)
    PROVE  Kept'
<1> DEFINE c == call[t]
           x == [file |-> c.file, ver |-> c.ver, at |-> now, quiet |-> c.quiet]
<1>1. CallOK(c, now, version, died) /\ c.step = "forget" /\ now \in Nat /\ version \in Nat
  BY ThreadFacts DEF Forget, At
<1>2. c.ver \in 1..version
  BY <1>1 DEF CallOK
<1>3. SaveOK(x, now, version)
  <2>1. x.ver = c.ver /\ x.at = now
    OBVIOUS
  <2> HIDE DEF x
  <2> QED
    BY <1>1, <1>2, <2>1 DEF SaveOK
<1>4. SavesOK(saved', now, version)
  <2>1. saved' = saved \cup {x}
    BY DEF Forget, Saved
  <2> HIDE DEF x
  <2> QED
    BY <1>3, <2>1 DEF Kept, SavesOK
<1>5. CallsOK(call', now, version, died)
  BY NoCallIsOK, CallReplaced DEF Kept, Forget
<1>6. ContentOK(contentCache', now, version, died)
  BY ContentEntryReplaced DEF Kept, Forget
<1> QED
  BY <1>4, <1>5, <1>6 DEF Kept, Forget

LEMMA TickStep ==
    ASSUME Kept, Tick
    PROVE  Kept'
<1>1. /\ ClockOK(now, version, died) /\ now \in Nat /\ now' = now + 1
      /\ version' = version /\ died' = died
  BY DEF Kept, ClockOK, Tick
<1>2. /\ ClockOK(now', version, died)
      /\ \A e : ClientEntryOK(e, now, version, died)
                    => ClientEntryOK(e, now', version, died)
      /\ \A e : ContentEntryOK(e, now, version, died)
                    => ContentEntryOK(e, now', version, died)
      /\ \A x : SaveOK(x, now, version) => SaveOK(x, now', version)
      /\ \A c : /\ CallOK(c, now, version, died)
                /\ c.step # "idle" => now - c.start < MaxLatency
                => CallOK(c, now', version, died)
  BY <1>1, TickKeeps
<1>3. Bounded(now', version)
  BY <1>1, ConstantFacts DEF Kept, Bounded, Tick
<1>4. ClientOK(clientCache, now', version, died)
  BY <1>2 DEF Kept, ClientOK
<1>5. ContentOK(contentCache, now', version, died)
  BY <1>2 DEF Kept, ContentOK
<1>6. CallsOK(call, now', version, died)
  BY <1>2 DEF Kept, CallsOK, Tick, At
<1>7. SavesOK(saved, now', version)
  BY <1>2 DEF Kept, SavesOK
<1> QED
  BY <1>1, <1>2, <1>3, <1>4, <1>5, <1>6, <1>7 DEF Kept, Tick

-----------------------------------------------------------------------------
LEMMA ContentStart == Init => ContentInv
<1> SUFFICES ASSUME Init PROVE ContentInv
  OBVIOUS
<1>1. ClockOK(now, version, died) /\ Bounded(now, version)
  BY ConstantFacts DEF Init, ClockOK, Bounded
<1>2. ClientOK(clientCache, now, version, died)
  BY DEF Init, ClientOK
<1>3. ContentOK(contentCache, now, version, died)
  BY DEF Init, ContentOK
<1>4. CallsOK(call, now, version, died)
  BY <1>1, NoCallIsOK DEF Init, CallsOK
<1>5. SavesOK(saved, now, version)
  BY DEF Init, SavesOK
<1>6. ServedOK(served.age, now)
  BY ConstantFacts DEF Init, NoRead, ServedOK
<1> QED
  BY <1>1, <1>2, <1>3, <1>4, <1>5, <1>6 DEF ContentInv

\* The steps that begin a call and go on with one, and serve nothing.
BeginsCall(t, f) == FetchMiss(t, f) \/ SaveBegins(t, f)

GoesOn(t) ==
    \/ ClientGet(t) \/ Drop(t) \/ ApiGet(t) \/ ClientSet(t) \/ ApiPut(t)
    \/ SaveFails(t) \/ Invalidate(t) \/ Forget(t)

LEMMA ContentStep == ContentInv /\ [Next]_vars => ContentInv'
<1> SUFFICES ASSUME ContentInv, [Next]_vars PROVE ContentInv'
  OBVIOUS
<1>1. Kept
  BY DEF ContentInv, Kept
<1>2. ASSUME Kept', NothingServed PROVE ContentInv'
  BY <1>2, NothingServedIsOK DEF ContentInv, Kept
<1>3. ASSUME NEW t \in Threads, NEW f \in Files, FetchHit(t, f) PROVE ContentInv'
  BY <1>3, FetchHitStep
<1>4. ASSUME NEW t \in Threads, NEW f \in Files, BeginsCall(t, f) PROVE ContentInv'
  <2>1. NothingServed
    BY <1>4 DEF BeginsCall, FetchMiss, SaveBegins
  <2>2. Kept'
    BY <1>1, <1>4, FetchMissStep, SaveBeginsStep DEF BeginsCall
  <2> QED
    BY <1>2, <2>1, <2>2
<1>5. ASSUME NEW t \in Threads, GoesOn(t) PROVE ContentInv'
  <2>1. NothingServed
    BY <1>5 DEF GoesOn, ClientGet, Drop, ApiGet, ClientSet, ApiPut, SaveFails,
                Invalidate, Forget
  <2>2. Kept'
    BY <1>1, <1>5, ClientGetStep, DropStep, ApiGetStep, ClientSetStep, ApiPutStep,
       SaveFailsStep, InvalidateStep, ForgetStep DEF GoesOn
  <2> QED
    BY <1>2, <2>1, <2>2
<1>6. ASSUME NEW t \in Threads, Store(t) PROVE ContentInv'
  <2>1. Kept' /\ ServedOK(served'.age, now) /\ now' = now
    BY <1>1, <1>6, StoreStep DEF Store
  <2> QED
    BY <2>1 DEF ContentInv, Kept
<1>7. CASE ExternalWrite
  BY <1>1, <1>2, <1>7, ExternalWriteStep DEF ExternalWrite
<1>8. CASE Tick
  BY <1>1, <1>2, <1>8, TickStep DEF Tick
<1>9. CASE UNCHANGED vars
  BY <1>9 DEF ContentInv, vars
<1> QED
  BY <1>3, <1>4, <1>5, <1>6, <1>7, <1>8, <1>9 DEF Next, BeginsCall, GoesOn

LEMMA ContentInvariance == Spec => []ContentInv
<1> QED
  BY ContentStart, ContentStep, PTL DEF Spec

\* Versions, times and steps stay within their ranges (TypeOK): in particular
\* the client's cache never holds an error text, and no entry is from a time
\* to come.
THEOREM ContentTypeCorrect == Spec => []TypeOK
<1>1. ContentInv => TypeOK
  <2> SUFFICES ASSUME ContentInv PROVE TypeOK
    OBVIOUS
  <2>1. now \in 0..MaxNow /\ version \in 0..MaxVersion /\ died \in [0..(version - 1) -> 0..now]
    BY ConstantFacts DEF ContentInv, ClockOK, Bounded
  <2>2. \A k \in Keys : \A e \in clientCache[k] :
            e.ver \in 0..version /\ e.exp \in 0..(now + CacheTTL)
    BY DEF ContentInv, ClientOK, ClientEntryOK
  <2>3. \A f \in Files : \A e \in contentCache[f] :
            e.ver \in -1..version /\ e.at \in 0..now
    BY DEF ContentInv, ContentOK, ContentEntryOK
  <2>4. \A t \in Threads : /\ call[t].ver \in -1..version /\ call[t].start \in 0..now
                           /\ call[t].todo \in 0..(Len(KeyOrder) + 1)
    BY DEF ContentInv, CallsOK, CallOK
  <2>5. served.age \in 0..now
    BY DEF ContentInv, ServedOK
  <2>6. \A x \in saved : x.ver \in 1..version /\ x.at \in 0..now
    BY DEF ContentInv, SavesOK, SaveOK
  <2> QED
    BY <2>1, <2>2, <2>3, <2>4, <2>5, <2>6 DEF TypeOK
<1> QED
  BY ContentInvariance, <1>1, PTL

\* Whatever calls fill and empty the two caches in whatever order, nothing is
\* served that an update replaced longer ago than both times to live and two
\* latencies (BoundedStaleness).
THEOREM StalenessIsBounded == Spec => []BoundedStaleness
<1>1. ContentInv => BoundedStaleness
  BY DEF ContentInv, ServedOK, BoundedStaleness
<1> QED
  BY ContentInvariance, <1>1, PTL
=============================================================================
