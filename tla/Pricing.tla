------------------------------ MODULE Pricing ------------------------------
(* Live prices: a cache file that threads and processes share without a lock, *)
(* and a circuit breaker per cloud and kind of price.  Times are ages, capped *)
(* where the code stops telling them apart, so that time may pass for ever.   *)
EXTENDS Naturals, FiniteSets

CONSTANTS
    Skus,           \* what prices are asked for: instance types, and lines of the bill
    CloudOf,        \* "azure", "aws" or "gcp", per SKU
    Lines,          \* SKUs that are line rates, with a breaker of their own
    Listed,         \* SKUs the cloud's price list has
    Located,        \* SKUs in a region that _AWS_LOCATION names
    Prices,
    Threads,
    None, Torn,
    CacheTtl, BreakerThreshold, BreakerReset

ASSUME PricingAssumption ==
    /\ CloudOf \in [Skus -> {"azure", "aws", "gcp"}]
    /\ {CacheTtl, BreakerThreshold, BreakerReset} \subseteq Nat \ {0}
    /\ None \notin Prices /\ Torn # None

VARIABLES
    file,       \* the cache file: an entry per SKU, or Torn while it is rewritten
    fails,      \* per breaker: consecutive failures, counted up to the threshold
    opened,     \* per breaker: time since it last opened or failed, up to the reset time
    up,         \* clouds whose price list answers
    thread,     \* per thread: where it is, its SKU, the cache as it loaded it, the price
    answer,     \* the price that the last step answered from the cache, and its age
    quotes      \* history: prices fetched and put within the time to live

vars == <<file, fails, opened, up, thread, answer, quotes>>

Clouds == {CloudOf[s] : s \in Skus}

Breaker(s) == <<CloudOf[s], s \in Lines>>
Breakers == {Breaker(s) : s \in Skus}

Empty == [s \in Skus |-> None]
Idle == [pc |-> "idle", sku |-> None, cache |-> Empty, price |-> None]

Entries == [price : Prices, age : 0..CacheTtl]
Caches == [Skus -> Entries \cup {None}]
Quotes == [sku : Skus, price : Prices, age : 0..CacheTtl]

TypeOK ==
    /\ file \in Caches \cup {Torn}
    /\ fails \in [Breakers -> 0..BreakerThreshold]
    /\ opened \in [Breakers -> 0..BreakerReset]
    /\ up \subseteq Clouds
    /\ thread \in [Threads -> [pc : {"idle", "check", "fetch", "put", "write"},
                               sku : Skus \cup {None}, cache : Caches, price : Prices \cup {None}]]
    /\ answer \in Quotes \cup {None}
    /\ quotes \subseteq Quotes

Init ==
    /\ file = Empty
    /\ fails = [b \in Breakers |-> 0]
    /\ opened = [b \in Breakers |-> BreakerReset]
    /\ up = Clouds
    /\ thread = [t \in Threads |-> Idle]
    /\ answer = None
    /\ quotes = {}

-----------------------------------------------------------------------------
(* The clouds: what a fetch may return, None if there is no price.  The code  *)
(* cannot tell why there is none.                                             *)

(* The Retail Prices API needs no credentials.                                             *)
AzureOutcomes(s) == IF "azure" \in up /\ s \in Listed THEN Prices ELSE {None}

(* The Windows rate is the difference of two requests, and none unless it is positive.     *)
AzureRateOutcomes(s) == AzureOutcomes(s) \cup {None}

(* The Price List API, for the regions the table knows.                                    *)
AwsOutcomes(s) == IF "aws" \in up /\ s \in Listed /\ s \in Located THEN Prices ELSE {None}
AwsRateOutcomes(s) == AwsOutcomes(s) \cup {None}

(* The Billing Catalog comes in pages, of which the first ones are used if a later one     *)
(* fails: a listed SKU may be missing.                                                     *)
GcpOutcomes(s) == (IF "gcp" \in up /\ s \in Listed THEN Prices ELSE {}) \cup {None}
GcpRateOutcomes(s) == GcpOutcomes(s)

Outcomes(s) ==
    CASE CloudOf[s] = "azure" -> IF s \in Lines THEN AzureRateOutcomes(s) ELSE AzureOutcomes(s)
      [] CloudOf[s] = "aws" -> IF s \in Lines THEN AwsRateOutcomes(s) ELSE AwsOutcomes(s)
      [] CloudOf[s] = "gcp" -> IF s \in Lines THEN GcpRateOutcomes(s) ELSE GcpOutcomes(s)

-----------------------------------------------------------------------------
(* The cache.                                                                 *)

(* _cache_load: a file that is missing or cannot be parsed is an empty cache. *)
Loaded == IF file = Torn THEN Empty ELSE file

(* Faulty variant: an entry is good for as long as it is there. *)
EverFresh(cache, s) == cache[s] # None

Fresh(cache, s) == cache[s] # None /\ cache[s].age < CacheTtl

(* live_hourly and live_line_rate begin with the cache, before the breaker.   *)
Ask(t, s) ==
    /\ thread[t] = Idle
    /\ IF Fresh(Loaded, s)
       THEN /\ answer' = [sku |-> s, price |-> Loaded[s].price, age |-> Loaded[s].age]
            /\ UNCHANGED thread
       ELSE /\ thread' = [thread EXCEPT ![t] = [pc |-> "check", sku |-> s, cache |-> Loaded,
                                                price |-> None]]
            /\ answer' = None
    /\ UNCHANGED <<file, fails, opened, up, quotes>>

-----------------------------------------------------------------------------
(* The breaker.                                                               *)

Tripped(b) == fails[b] >= BreakerThreshold
breaker_open(b) == Tripped(b) /\ opened[b] < BreakerReset

(* Faulty variant: a call that is skipped counts as a failure. *)
SkipCounts(t) ==
    LET b == Breaker(thread[t].sku) IN
    /\ thread[t].pc = "check"
    /\ thread' = [thread EXCEPT ![t] = IF breaker_open(b) THEN Idle ELSE [@ EXCEPT !.pc = "fetch"]]
    /\ opened' = IF breaker_open(b) THEN [opened EXCEPT ![b] = 0] ELSE opened
    /\ answer' = None
    /\ UNCHANGED <<file, fails, up, quotes>>

(* Skipped, for the catalogue's price, or on to the cloud.                    *)
Check(t) ==
    LET b == Breaker(thread[t].sku) IN
    /\ thread[t].pc = "check"
    /\ thread' = [thread EXCEPT ![t] = IF breaker_open(b) THEN Idle ELSE [@ EXCEPT !.pc = "fetch"]]
    /\ answer' = None
    /\ UNCHANGED <<file, fails, opened, up, quotes>>

(* _record_failure: every failure of a tripped breaker starts its time anew.  *)
record_failure(b) ==
    LET n == IF Tripped(b) THEN BreakerThreshold ELSE fails[b] + 1 IN
    /\ fails' = [fails EXCEPT ![b] = n]
    /\ opened' = [opened EXCEPT ![b] = IF n >= BreakerThreshold THEN 0 ELSE @]

record_success(b) ==
    /\ fails' = [fails EXCEPT ![b] = 0]
    /\ opened' = [opened EXCEPT ![b] = BreakerReset]

(* The cloud answers or does not; then the breaker hears of it.               *)
Fetch(t, price) ==
    LET s == thread[t].sku IN
    /\ thread[t].pc = "fetch"
    /\ price \in Outcomes(s)
    /\ IF price = None
       THEN /\ record_failure(Breaker(s))
            /\ thread' = [thread EXCEPT ![t] = Idle]
       ELSE /\ record_success(Breaker(s))
            /\ thread' = [thread EXCEPT ![t].pc = "put", ![t].price = price]
    /\ answer' = None
    /\ UNCHANGED <<file, up, quotes>>

-----------------------------------------------------------------------------
(* _cache_put writes back the cache as this thread loaded it, with its price. *)

(* The entry's time is that of the put. *)
Put(t) == [thread[t].cache EXCEPT ![thread[t].sku] = [price |-> thread[t].price, age |-> 0]]

(* Opening the file for writing empties it; other threads load it meanwhile.  *)
Truncate(t) ==
    /\ thread[t].pc = "put"
    /\ file' = Torn
    /\ thread' = [thread EXCEPT ![t].pc = "write", ![t].cache = Put(t)]
    /\ quotes' = quotes \cup {[sku |-> thread[t].sku, price |-> thread[t].price, age |-> 0]}
    /\ answer' = None
    /\ UNCHANGED <<fails, opened, up>>

(* The text is written, or cannot be, which is no error.                       *)
Write(t, ok) ==
    /\ thread[t].pc = "write"
    /\ file' = IF ok THEN thread[t].cache ELSE file
    /\ thread' = [thread EXCEPT ![t] = Idle]
    /\ answer' = None
    /\ UNCHANGED <<fails, opened, up, quotes>>

-----------------------------------------------------------------------------
Older(cache) == [s \in Skus |->
    IF cache[s] = None THEN None
    ELSE [cache[s] EXCEPT !.age = IF @ < CacheTtl THEN @ + 1 ELSE @]]

(* A unit of time passes.                                                     *)
Tick ==
    /\ file' = IF file = Torn THEN Torn ELSE Older(file)
    /\ opened' = [b \in Breakers |-> IF opened[b] < BreakerReset THEN opened[b] + 1 ELSE opened[b]]
    /\ thread' = [t \in Threads |-> [thread[t] EXCEPT !.cache = Older(@)]]
    /\ quotes' = {[q EXCEPT !.age = @ + 1] : q \in {q \in quotes : q.age + 1 < CacheTtl}}
    /\ answer' = None
    /\ UNCHANGED <<fails, up>>

(* A cloud's price list goes away or comes back.                              *)
Outage(c) ==
    /\ up' = IF c \in up THEN up \ {c} ELSE up \cup {c}
    /\ answer' = None
    /\ UNCHANGED <<file, fails, opened, thread, quotes>>

Step(t) ==
    \/ \E s \in Skus : Ask(t, s)
    \/ Check(t) \/ Truncate(t)
    \/ \E price \in Prices \cup {None} : Fetch(t, price)
    \/ \E ok \in BOOLEAN : Write(t, ok)

Next == Tick \/ (\E t \in Threads : Step(t)) \/ \E c \in Clouds : Outage(c)

Spec == Init /\ [][Next]_vars

(* Time passes, and a call that has been sent is answered: sockets have a timeout. *)
FairSpec == Spec /\ WF_vars(Tick)
                 /\ \A t \in Threads :
                        WF_vars(Check(t) \/ Truncate(t)
                                \/ (\E price \in Prices \cup {None} : Fetch(t, price))
                                \/ \E ok \in BOOLEAN : Write(t, ok))

-----------------------------------------------------------------------------
(* A price that the cache answers was quoted for that very SKU within the time to live,    *)
(* although every put rewrites the whole file from a copy that may be old by then, and the  *)
(* file may be read while it is half written.                                               *)
ServedIsQuoted ==
    answer # None => answer \in quotes

(* An open breaker is not open for ever, whatever is asked meanwhile.                       *)
ParkedEnds == \A b \in Breakers : breaker_open(b) ~> ~breaker_open(b)
=============================================================================
