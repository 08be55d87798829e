--------------------------- MODULE PricingProofs ---------------------------
(* Proofs about Pricing, for any number of SKUs, prices and threads, any time *)
(* to live and any breaker.                                                   *)
EXTENDS Pricing, TLAPS

\* What a thread holds on its way to the price list and back: a SKU once it has
\* asked, a price once the list has answered.
ThreadsKnow ==
  \A t \in Threads :
    /\ thread[t].pc # "idle" => thread[t].sku \in Skus
    /\ thread[t].pc \in {"put", "write"} => thread[t].price \in Prices

\* Time leaves a cache a cache.
LEMMA OlderType ==
  ASSUME NEW cache \in Caches
  PROVE  Older(cache) \in Caches
BY PricingAssumption DEF Older, Caches, Entries

\* A put leaves a cache a cache.
LEMMA PutType ==
  ASSUME TypeOK, ThreadsKnow, NEW t \in Threads, thread[t].pc = "put"
  PROVE  Put(t) \in Caches
<1>1. [price |-> thread[t].price, age |-> 0] \in Entries
  BY PricingAssumption DEF ThreadsKnow, Entries
<1>2. thread[t].cache \in Caches
  BY DEF TypeOK
<1> QED
  BY <1>1, <1>2 DEF Put, Caches

\* The state keeps its type: in particular no breaker counts past its threshold
\* and no entry is older than the cache can tell.
LEMMA TypeStep ==
  ASSUME TypeOK, ThreadsKnow, [Next]_vars
  PROVE  TypeOK' /\ ThreadsKnow'
<1> USE PricingAssumption
<1> DEFINE Local == [pc : {"idle", "check", "fetch", "put", "write"},
                     sku : Skus \cup {None}, cache : Caches, price : Prices \cup {None}]
<1>a. thread \in [Threads -> Local]
  BY DEF TypeOK
<1>0. Empty \in Caches /\ Loaded \in Caches
  BY DEF Empty, Caches, Loaded, TypeOK
<1>1. ASSUME NEW t \in Threads, NEW s \in Skus, Ask(t, s) PROVE TypeOK' /\ ThreadsKnow'
  <2>1. CASE Fresh(Loaded, s)
    <3>1. Loaded[s] \in Entries
      BY <1>0, <2>1 DEF Fresh, Caches
    <3>2. answer' \in Quotes
      BY <1>1, <2>1, <3>1 DEF Ask, Quotes, Entries
    <3> QED
      BY <1>1, <2>1, <3>2 DEF Ask, TypeOK, ThreadsKnow
  <2>2. CASE ~Fresh(Loaded, s)
    <3> HIDE DEF Caches
    <3>1. /\ thread' = [thread EXCEPT ![t] = [pc |-> "check", sku |-> s, cache |-> Loaded,
                                              price |-> None]]
          /\ answer' = None /\ UNCHANGED <<file, fails, opened, up, quotes>>
      BY <1>1, <2>2 DEF Ask
    <3> QED
      BY <1>0, <3>1 DEF TypeOK, ThreadsKnow
  <2> QED
    BY <2>1, <2>2
<1>2. ASSUME NEW t \in Threads, Check(t) PROVE TypeOK' /\ ThreadsKnow'
  BY <1>0, <1>2 DEF Check, TypeOK, ThreadsKnow, Idle
<1>3. ASSUME NEW t \in Threads, NEW price \in Prices \cup {None}, Fetch(t, price)
      PROVE  TypeOK' /\ ThreadsKnow'
  <2> DEFINE b == Breaker(thread[t].sku)
  <2>1. b \in Breakers
    BY <1>3 DEF Fetch, ThreadsKnow, Breakers
  <2> HIDE DEF b
  <2>2. fails' \in [Breakers -> 0..BreakerThreshold] /\ opened' \in [Breakers -> 0..BreakerReset]
    <3>1. CASE price = None
      <4>1. record_failure(b)
        BY <1>3, <3>1 DEF Fetch, b
      <4> QED
        BY <2>1, <4>1 DEF record_failure, Tripped, TypeOK
    <3>2. CASE price # None
      <4>1. record_success(b)
        BY <1>3, <3>2 DEF Fetch, b
      <4> QED
        BY <2>1, <4>1 DEF record_success, TypeOK
    <3> QED
      BY <3>1, <3>2
  <2>3. thread[t].pc = "fetch" /\ answer' = None /\ UNCHANGED <<file, up, quotes>>
    BY <1>3 DEF Fetch
  <2>4. CASE price = None
    <3>1. thread' = [thread EXCEPT ![t] = Idle]
      BY <1>3, <2>4 DEF Fetch
    <3> QED
      BY <1>0, <2>2, <2>3, <3>1 DEF TypeOK, ThreadsKnow, Idle
  <2>5. CASE price # None
    <3>1. thread' = [thread EXCEPT ![t].pc = "put", ![t].price = price]
      BY <1>3, <2>5 DEF Fetch
    <3> DEFINE step == [thread[t] EXCEPT !.pc = "put", !.price = price]
    <3>2. thread' = [thread EXCEPT ![t] = step] /\ step.sku = thread[t].sku /\ step.price = price
      BY <3>1 DEF TypeOK
    <3>3. step \in Local
      BY <2>5, <1>a
    <3>4. \A u \in Threads : IF u = t THEN thread'[u] = step ELSE thread'[u] = thread[u]
      BY <3>2 DEF TypeOK
    <3> HIDE DEF step
    <3>5. ThreadsKnow'
      BY <2>3, <2>5, <3>2, <3>4 DEF ThreadsKnow
    <3>6. thread' \in [Threads -> Local]
      BY <1>a, <3>2, <3>3
    <3> QED
      BY <2>2, <2>3, <3>5, <3>6 DEF TypeOK
  <2> QED
    BY <2>4, <2>5
<1>4. ASSUME NEW t \in Threads, Truncate(t) PROVE TypeOK' /\ ThreadsKnow'
  <2>1. Put(t) \in Caches
    BY <1>4, PutType DEF Truncate
  <2>2. [sku |-> thread[t].sku, price |-> thread[t].price, age |-> 0] \in Quotes
    BY <1>4 DEF Truncate, ThreadsKnow, Quotes
  <2> DEFINE step == [thread[t] EXCEPT !.pc = "write", !.cache = Put(t)]
  <2>3. /\ thread[t].pc = "put" /\ thread' = [thread EXCEPT ![t] = step]
        /\ step.sku = thread[t].sku /\ step.price = thread[t].price
    BY <1>4 DEF Truncate, TypeOK
  <2>4. step \in Local
    BY <1>a, <2>1
  <2> HIDE DEF step
  <2>5. \A u \in Threads : IF u = t THEN thread'[u] = step ELSE thread'[u] = thread[u]
    BY <2>3 DEF TypeOK
  <2>6. ThreadsKnow'
    BY <2>3, <2>5 DEF ThreadsKnow
  <2>7. thread' \in [Threads -> Local]
    <3> HIDE DEF Local
    <3> QED
      BY <1>a, <2>3, <2>4
  <2>8. file' = Torn /\ answer' = None /\ quotes' \subseteq Quotes /\ UNCHANGED <<fails, opened, up>>
    BY <1>4, <2>2 DEF Truncate, TypeOK
  <2> QED
    BY <2>6, <2>7, <2>8 DEF TypeOK
<1>5. ASSUME NEW t \in Threads, NEW ok \in BOOLEAN, Write(t, ok) PROVE TypeOK' /\ ThreadsKnow'
  BY <1>0, <1>5 DEF Write, TypeOK, ThreadsKnow, Idle
<1>6. CASE Tick
  <2>1. file' \in Caches \cup {Torn}
    BY <1>6, OlderType DEF Tick, TypeOK
  <2>2. \A t \in Threads : Older(thread[t].cache) \in Caches
    BY OlderType DEF TypeOK
  <2>3. quotes' \subseteq Quotes
    BY <1>6 DEF Tick, TypeOK, Quotes
  <2>4. opened' \in [Breakers -> 0..BreakerReset]
    BY <1>6 DEF Tick, TypeOK
  <2>5. /\ thread' = [t \in Threads |-> [thread[t] EXCEPT !.cache = Older(@)]]
        /\ answer' = None /\ UNCHANGED <<fails, up>>
    BY <1>6 DEF Tick
  <2> QED
    BY <2>1, <2>2, <2>3, <2>4, <2>5 DEF TypeOK, ThreadsKnow
<1>7. ASSUME NEW c \in Clouds, Outage(c) PROVE TypeOK' /\ ThreadsKnow'
  BY <1>7 DEF Outage, TypeOK, ThreadsKnow
<1>8. CASE UNCHANGED vars
  BY <1>8 DEF vars, TypeOK, ThreadsKnow
<1> QED
  BY <1>1, <1>2, <1>3, <1>4, <1>5, <1>6, <1>7, <1>8 DEF Next, Step

\* The caches start empty and the breakers closed.
LEMMA TypeInit == Init => TypeOK /\ ThreadsKnow
  BY PricingAssumption DEF Init, TypeOK, ThreadsKnow, Idle, Empty, Caches

\* The breaker counters, the cache file and every thread's copy of it keep their
\* types, whoever rewrites the file and whichever clouds are down.
THEOREM TypeCorrect == Spec => []TypeOK
<1>1. TypeOK /\ ThreadsKnow /\ [Next]_vars => TypeOK' /\ ThreadsKnow'
  BY TypeStep
<1> QED
  BY <1>1, TypeInit, PTL DEF Spec

-----------------------------------------------------------------------------
(* What the cache answers.  Every entry that is still fresh, in the file or   *)
(* in the copy of a thread that may write it back later, was quoted at its    *)
(* age.  Time ages both alike, and a put adds to both.                        *)
Quoted(cache) ==
  \A s \in Skus : Fresh(cache, s) =>
    [sku |-> s, price |-> cache[s].price, age |-> cache[s].age] \in quotes

AllQuoted ==
  /\ file # Torn => Quoted(file)
  /\ \A t \in Threads : Quoted(thread[t].cache)

\* An entry that is fresh after a unit of time is one of the quotes that is left.
LEMMA OlderQuoted ==
  ASSUME TypeOK, Tick, NEW cache \in Caches, Quoted(cache), NEW s \in Skus,
         Fresh(Older(cache), s)
  PROVE  [sku |-> s, price |-> Older(cache)[s].price, age |-> Older(cache)[s].age] \in quotes'
<1> USE PricingAssumption
<1>1. cache[s] # None /\ cache[s] \in Entries
  BY DEF Fresh, Older, Caches
<1>2. Older(cache)[s] = [cache[s] EXCEPT !.age = IF @ < CacheTtl THEN @ + 1 ELSE @]
  BY <1>1 DEF Older
<1>3. Older(cache)[s].age < CacheTtl
  BY DEF Fresh
<1>4. /\ cache[s].age + 1 < CacheTtl /\ Older(cache)[s].price = cache[s].price
      /\ Older(cache)[s].age = cache[s].age + 1
  BY <1>1, <1>2, <1>3 DEF Entries
<1> DEFINE q == [sku |-> s, price |-> cache[s].price, age |-> cache[s].age]
<1>5. q \in quotes
  BY <1>1, <1>4 DEF Quoted, Fresh, Entries
<1>6. q.age + 1 < CacheTtl
  BY <1>4
<1>7. [q EXCEPT !.age = @ + 1] \in quotes'
  BY <1>5, <1>6 DEF Tick
<1> QED
  BY <1>4, <1>7

\* Every step keeps what could be answered among the quotes, and answers with one.
LEMMA QuotedStep ==
  ASSUME TypeOK, ThreadsKnow, AllQuoted, ServedIsQuoted, [Next]_vars
  PROVE  AllQuoted' /\ ServedIsQuoted'
<1> USE PricingAssumption DEF AllQuoted, ServedIsQuoted
<1>0. Quoted(Empty) /\ Quoted(Loaded)
  BY DEF Quoted, Fresh, Empty, Loaded
<1>1. ASSUME NEW t \in Threads, NEW s \in Skus, Ask(t, s) PROVE AllQuoted' /\ ServedIsQuoted'
  <2>1. CASE Fresh(Loaded, s)
    <3>1. answer' \in quotes
      BY <1>0, <1>1, <2>1 DEF Ask, Quoted
    <3> QED
      BY <1>1, <2>1, <3>1 DEF Ask, Quoted, Fresh
  <2>2. CASE ~Fresh(Loaded, s)
    <3>1. \A u \in Threads : thread'[u].cache = IF u = t THEN Loaded ELSE thread[u].cache
      BY <1>1, <2>2 DEF Ask, TypeOK
    <3>2. answer' = None /\ UNCHANGED <<file, quotes>>
      BY <1>1, <2>2 DEF Ask
    <3> QED
      BY <1>0, <3>1, <3>2 DEF Quoted, Fresh
  <2> QED
    BY <2>1, <2>2
<1>2. ASSUME NEW t \in Threads, UNCHANGED <<file, quotes>>, answer' = None,
             \A u \in Threads : thread'[u].cache = thread[u].cache \/ thread'[u].cache = Empty
      PROVE  AllQuoted' /\ ServedIsQuoted'
  BY <1>0, <1>2 DEF Quoted, Fresh
<1>3. ASSUME NEW t \in Threads, Check(t) PROVE AllQuoted' /\ ServedIsQuoted'
  BY <1>2, <1>3 DEF Check, TypeOK, Idle
<1>4. ASSUME NEW t \in Threads, NEW price \in Prices \cup {None}, Fetch(t, price)
      PROVE  AllQuoted' /\ ServedIsQuoted'
  BY <1>2, <1>4 DEF Fetch, TypeOK, Idle
<1>5. ASSUME NEW t \in Threads, Truncate(t) PROVE AllQuoted' /\ ServedIsQuoted'
  <2>1. thread[t].cache \in Caches /\ thread[t].sku \in Skus
    BY <1>5 DEF Truncate, TypeOK, ThreadsKnow
  <2>2. \A s \in Skus : Put(t)[s] = IF s = thread[t].sku THEN [price |-> thread[t].price, age |-> 0]
                                                        ELSE thread[t].cache[s]
    BY <2>1 DEF Put, Caches
  <2>3. \A u \in Threads : thread'[u].cache = IF u = t THEN Put(t) ELSE thread[u].cache
    BY <1>5 DEF Truncate, TypeOK
  <2>4. file' = Torn /\ answer' = None /\ quotes \subseteq quotes'
    BY <1>5 DEF Truncate
  <2>5. \A s \in Skus : Fresh(Put(t), s) =>
          [sku |-> s, price |-> Put(t)[s].price, age |-> Put(t)[s].age] \in quotes'
    BY <1>5, <2>1, <2>2 DEF Truncate, Quoted, Fresh
  <2>6. \A u \in Threads : Quoted(thread[u].cache)'
    BY <2>3, <2>4, <2>5 DEF Quoted, Fresh
  <2> QED
    BY <2>4, <2>6
<1>6. ASSUME NEW t \in Threads, NEW ok \in BOOLEAN, Write(t, ok) PROVE AllQuoted' /\ ServedIsQuoted'
  <2>1. \A u \in Threads : thread'[u].cache = IF u = t THEN Empty ELSE thread[u].cache
    BY <1>6 DEF Write, TypeOK, Idle
  <2>2. file' \in {file, thread[t].cache} /\ answer' = None /\ UNCHANGED quotes
    BY <1>6 DEF Write
  <2> QED
    BY <1>0, <2>1, <2>2 DEF Quoted, Fresh
<1>7. CASE Tick
  <2>1. file' # Torn => file' = Older(file) /\ file \in Caches /\ Quoted(file)
    BY <1>7 DEF Tick, TypeOK
  <2>2. \A u \in Threads : thread'[u].cache = Older(thread[u].cache) /\ thread[u].cache \in Caches
    BY <1>7 DEF Tick, TypeOK
  <2>3. ASSUME NEW cache \in Caches, Quoted(cache), NEW s \in Skus, Fresh(Older(cache), s)
        PROVE  [sku |-> s, price |-> Older(cache)[s].price, age |-> Older(cache)[s].age] \in quotes'
    BY <1>7, <2>3, OlderQuoted
  <2>4. answer' = None
    BY <1>7 DEF Tick
  <2>5. file' # Torn => Quoted(file)'
    BY <2>1, <2>3 DEF Quoted, Fresh
  <2>6. \A u \in Threads : Quoted(thread[u].cache)'
    BY <2>2, <2>3 DEF Quoted, Fresh
  <2> QED
    BY <2>4, <2>5, <2>6
<1>8. ASSUME NEW c \in Clouds, Outage(c) PROVE AllQuoted' /\ ServedIsQuoted'
  BY <1>8 DEF Outage, Quoted, Fresh
<1>9. CASE UNCHANGED vars
  BY <1>9 DEF vars, Quoted, Fresh
<1> QED
  BY <1>1, <1>3, <1>4, <1>5, <1>6, <1>7, <1>8, <1>9 DEF Next, Step

\* A price that the cache answers was quoted for that SKU within the time to
\* live: however often the file is torn, rewritten from an old copy or lost, no
\* put brings back an entry that has outlived CACHE_TTL_SECONDS as a fresh one.
THEOREM CacheAnswersQuotes == Spec => []ServedIsQuoted
<1>1. Init => AllQuoted /\ ServedIsQuoted
  BY DEF Init, AllQuoted, ServedIsQuoted, Quoted, Fresh, Empty, Idle
<1>2. TypeOK /\ ThreadsKnow /\ [Next]_vars => TypeOK' /\ ThreadsKnow'
  BY TypeStep
<1>3. TypeOK /\ ThreadsKnow /\ AllQuoted /\ ServedIsQuoted /\ [Next]_vars
        => AllQuoted' /\ ServedIsQuoted'
  BY QuotedStep
<1> QED
  BY <1>1, <1>2, <1>3, TypeInit, PTL DEF Spec
=============================================================================
