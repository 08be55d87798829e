--------------------------- MODULE RequestsProofs ---------------------------
(* Proofs about Requests, for any keys, bodies, callers and requests, any     *)
(* table size, time to live and rate.                                         *)
EXTENDS Requests, TLAPS

\* What a request carries: a caller once it is being handled, a body with its
\* key, and a success only once its handler has returned.
RequestsKnow ==
  \A r \in Reqs :
    /\ req[r].pc # "idle" => req[r].client \in Clients
    /\ req[r].key # None => req[r].body \in Bodies
    /\ req[r].pc # "done" => ~req[r].ok

\* What the middleware keeps true of a key whose claim was not forgotten under its
\* running request: one request at most runs under it, on the claim it made and
\* for the body it claimed; the effects are those of that request, or of the one
\* whose answer is stored, or none.
KeyIsSafe ==
  \A k \in Keys \ lost :
    /\ \A r \in Running(k) :
         /\ \A q \in Running(k) : q = r
         /\ record[k] # None /\ record[k].answer = None /\ record[k].body = req[r].body
         /\ effects[k] = IF req[r].ok THEN 1 ELSE 0
    /\ record[k] = None => effects[k] = 0
    /\ record[k] # None /\ record[k].answer # None =>
         effects[k] = 1 /\ record[k].answer = record[k].body

\* What a bucket owes a caller: what passed above the rate and what is left in the
\* bucket are together no more than a full bucket, and a bucket that is not there
\* is one whose caller has been quiet for long enough.
BucketIsFair ==
  \A p \in Places, c \in Clients :
    /\ meter[p][c].at <= now /\ meter[p][c].level <= Full
    /\ bucket[p][c] = None => meter[p][c].level <= (now - meter[p][c].at) * Limit
    /\ bucket[p][c] # None =>
         /\ meter[p][c].at <= bucket[p][c].at /\ bucket[p][c].at <= now
         /\ meter[p][c].level + bucket[p][c].tokens
              <= Full + (bucket[p][c].at - meter[p][c].at) * Limit

-----------------------------------------------------------------------------
(* Arithmetic of the bucket.                                                  *)

\* The refill of two stretches of time is that of both together.
LEMMA Spread == \A a, b, c, l \in Int : (a - b) * l + (b - c) * l = (a - c) * l
  OBVIOUS

\* More time refills more.
LEMMA Grows == \A x, y, l \in Nat : x <= y => x * l <= y * l
  OBVIOUS

\* A full bucket holds a request at least.
LEMMA FullNat == Full \in Nat /\ Period \in Nat /\ Limit \in Nat /\ Period <= Full
<1>1. Period \in Nat /\ Limit \in Nat /\ 1 <= Limit
  BY RequestsAssumption
<1>2. 1 * Period <= Limit * Period
  BY <1>1, Grows
<1> QED
  BY <1>1, <1>2 DEF Full

\* A bucket never holds more than it can.
LEMMA TokensType ==
  ASSUME TypeOK, BucketIsFair, NEW p \in Places, NEW c \in Clients
  PROVE  Tokens(p, c) \in 0..Full
<1>1. CASE bucket[p][c] = None
  BY <1>1, FullNat DEF Tokens
<1>2. CASE bucket[p][c] # None
  <2>1. bucket[p][c] \in Buckets /\ bucket[p][c].at <= now /\ now \in Nat
    BY <1>2 DEF TypeOK, BucketIsFair
  <2>2. now - bucket[p][c].at \in Nat /\ bucket[p][c].tokens \in Nat
    BY <2>1 DEF Buckets
  <2> DEFINE gain == (now - bucket[p][c].at) * Limit
  <2>3. gain \in Nat
    BY <2>2, FullNat
  <2>4. Tokens(p, c) = IF bucket[p][c].tokens + gain < Full
                         THEN bucket[p][c].tokens + gain ELSE Full
    BY <1>2 DEF Tokens, Refill
  <2> HIDE DEF gain
  <2> QED
    BY <2>2, <2>3, <2>4, FullNat
<1> QED
  BY <1>1, <1>2

\* Charging a request keeps the books of its caller: what is left in the bucket
\* and the level of the meter are together no more than a full bucket.
LEMMA Charge ==
  ASSUME TypeOK, BucketIsFair, NEW p \in Places, NEW c \in Clients
  PROVE  /\ Tokens(p, c) < Period => meter[p][c].level + Tokens(p, c)
                                        <= Full + (now - meter[p][c].at) * Limit
         /\ Tokens(p, c) >= Period =>
              /\ Rise(meter[p][c]) \in [level : Nat, at : Nat]
              /\ Rise(meter[p][c]).at = now
              /\ Rise(meter[p][c]).level + (Tokens(p, c) - Period) <= Full
<1> DEFINE m == meter[p][c]
           b == bucket[p][c]
           t == Tokens(p, c)
           sinks == (now - m.at) * Limit
<1>1. m \in [level : Nat, at : Nat] /\ m.at <= now /\ now \in Nat
  BY DEF TypeOK, BucketIsFair
<1>2. sinks \in Nat
  <2>1. now - m.at \in Nat
    BY <1>1
  <2> QED
    BY <2>1, FullNat
<1>3. t \in 0..Full
  BY TokensType
<1>4. m.level + t <= Full + sinks
  <2>1. CASE b = None
    BY <1>1, <1>2, <1>3, <2>1, FullNat DEF BucketIsFair
  <2>2. CASE b # None
    <3>1. /\ b.tokens \in Nat /\ b.at \in Nat /\ b.at <= now
          /\ m.level + b.tokens <= Full + (b.at - m.at) * Limit
      BY <2>2 DEF TypeOK, BucketIsFair, Buckets
    <3> DEFINE gain == (now - b.at) * Limit
               sunk == (b.at - m.at) * Limit
    <3>2. gain \in Int /\ sunk \in Int /\ gain + sunk = sinks
      BY <1>1, <3>1, FullNat, Spread
    <3>3. t = IF b.tokens + gain < Full THEN b.tokens + gain ELSE Full
      BY <2>2 DEF Tokens, Refill
    <3>4. m.level + b.tokens <= Full + sunk
      BY <3>1
    <3> HIDE DEF gain, sunk, sinks, t, m, b
    <3> QED
      BY <1>1, <1>2, <3>1, <3>2, <3>3, <3>4, FullNat
  <2> QED
    BY <2>1, <2>2
<1>5. /\ Rise(m).level = (IF m.level - sinks > 0 THEN m.level - sinks ELSE 0) + Period
      /\ Rise(m).at = now
      /\ Rise(m) = [level |-> (IF m.level - sinks > 0 THEN m.level - sinks ELSE 0) + Period,
                    at |-> now]
  BY DEF Rise
<1> HIDE DEF m, t, sinks
<1>6. t < Period => m.level + t <= Full + sinks
  BY <1>4
<1>7. t >= Period => Rise(m) \in [level : Nat, at : Nat] /\ Rise(m).level + (t - Period) <= Full
  BY <1>1, <1>2, <1>3, <1>4, <1>5, FullNat
<1> QED
  BY <1>5, <1>6, <1>7 DEF m, t, sinks

\* A caller whose bucket was last used long enough ago to be full again owes
\* nothing.
LEMMA QuietIsPaid ==
  ASSUME TypeOK, BucketIsFair, NEW p \in Places, NEW c \in Clients,
         bucket[p][c] # None, now - bucket[p][c].at >= Period
  PROVE  meter[p][c].level <= (now - meter[p][c].at) * Limit
<1> DEFINE m == meter[p][c]
           b == bucket[p][c]
           gain == (now - b.at) * Limit
           sunk == (b.at - m.at) * Limit
           sinks == (now - m.at) * Limit
<1>1. /\ m.level \in Nat /\ m.at \in Nat /\ b.tokens \in Nat /\ b.at \in Nat /\ now \in Nat
      /\ b.at <= now /\ m.level + b.tokens <= Full + sunk
  BY DEF TypeOK, BucketIsFair, Buckets
<1>2. gain \in Int /\ sunk \in Int /\ sinks \in Int /\ gain + sunk = sinks
  BY <1>1, FullNat, Spread
<1>3. Period * Limit <= gain
  <2>1. now - b.at \in Nat
    BY <1>1
  <2> QED
    BY <2>1, FullNat, Grows
<1>4. Full = Period * Limit
  BY FullNat DEF Full
<1>5. m.level <= sinks
  <2> HIDE DEF gain, sunk, sinks, m, b
  <2> QED
    BY <1>1, <1>2, <1>3, <1>4, FullNat
<1> QED
  BY <1>5

\* The limiter charges one caller and drops buckets that are full again, or starts
\* the books of a caller anew: the books of every caller are kept.
LEMMA TakeStep ==
  ASSUME TypeOK, BucketIsFair, now' = now, NEW r \in Reqs, req[r].client \in Clients,
         NEW p \in Places, NEW drop \in SUBSET Clients, NEW old \in SUBSET drop,
         req[r].client \notin drop, Take(r, p, drop, old),
         \A x \in drop \ old : bucket[p][x] # None /\ now - bucket[p][x].at >= Period
  PROVE  /\ BucketIsFair'
         /\ bucket' \in [Places -> [Clients -> Buckets \cup {None}]]
         /\ meter' \in [Places -> [Clients -> [level : Nat, at : Nat]]]
<1> DEFINE c == req[r].client
           t == Tokens(p, c)
           left == IF t >= Period THEN t - Period ELSE t
<1>0. now \in Nat /\ t \in 0..Full /\ left \in 0..Full /\ c \in Clients /\ c \notin old
  BY TokensType, FullNat DEF TypeOK
<1>1. /\ bucket' = [bucket EXCEPT ![p] =
            [x \in Clients |-> IF x = c THEN [tokens |-> left, at |-> now]
                               ELSE IF x \in drop THEN None ELSE bucket[p][x]]]
      /\ meter' = [meter EXCEPT ![p] =
            [x \in Clients |-> IF x \in old THEN Dry
                               ELSE IF x = c /\ t >= Period THEN Rise(meter[p][x])
                               ELSE meter[p][x]]]
  BY DEF Take, TypeOK
<1>2. [tokens |-> left, at |-> now] \in Buckets
  BY <1>0 DEF Buckets
<1>3. /\ t < Period => meter[p][c].level + t <= Full + (now - meter[p][c].at) * Limit
      /\ t >= Period =>
           /\ Rise(meter[p][c]) \in [level : Nat, at : Nat]
           /\ Rise(meter[p][c]).at = now
           /\ Rise(meter[p][c]).level + (t - Period) <= Full
  BY Charge, <1>0
<1> HIDE DEF c, t, left
<1>4. bucket' \in [Places -> [Clients -> Buckets \cup {None}]]
  BY <1>1, <1>2 DEF TypeOK
<1>5. meter' \in [Places -> [Clients -> [level : Nat, at : Nat]]]
  <2>1. Dry \in [level : Nat, at : Nat]
    BY DEF Dry
  <2> QED
    BY <1>1, <1>3, <2>1 DEF TypeOK
<1>6. ASSUME NEW q \in Places, NEW x \in Clients PROVE
        /\ meter'[q][x].at <= now /\ meter'[q][x].level <= Full
        /\ bucket'[q][x] = None => meter'[q][x].level <= (now - meter'[q][x].at) * Limit
        /\ bucket'[q][x] # None =>
             /\ meter'[q][x].at <= bucket'[q][x].at /\ bucket'[q][x].at <= now
             /\ meter'[q][x].level + bucket'[q][x].tokens
                  <= Full + (bucket'[q][x].at - meter'[q][x].at) * Limit
  <2>0. /\ meter[q][x].at <= now /\ meter[q][x].level <= Full
        /\ bucket[q][x] = None => meter[q][x].level <= (now - meter[q][x].at) * Limit
        /\ bucket[q][x] # None =>
             /\ meter[q][x].at <= bucket[q][x].at /\ bucket[q][x].at <= now
             /\ meter[q][x].level + bucket[q][x].tokens
                  <= Full + (bucket[q][x].at - meter[q][x].at) * Limit
    BY DEF BucketIsFair
  <2>1. CASE q # p
    <3>1. bucket'[q][x] = bucket[q][x] /\ meter'[q][x] = meter[q][x]
      BY <1>1, <2>1 DEF TypeOK
    <3> QED
      BY <2>0, <3>1
  <2>2. CASE q = p /\ x = c
    <3>1. bucket'[q][x].tokens = left /\ bucket'[q][x].at = now /\ bucket'[q][x] # None
      <4>1. bucket'[q][x] = [tokens |-> left, at |-> now]
        BY <1>0, <1>1, <2>2 DEF TypeOK
      <4> QED
        BY <1>2, <4>1, NoneAssumption
    <3>2. meter'[q][x] = IF t >= Period THEN Rise(meter[p][c]) ELSE meter[p][c]
      BY <1>0, <1>1, <2>2 DEF TypeOK
    <3>3. CASE t >= Period
      <4>1. meter'[q][x].at = now /\ meter'[q][x].level + left <= Full /\ meter'[q][x].level \in Nat
        BY <1>3, <3>2, <3>3 DEF left
      <4>2. (now - now) * Limit = 0
        BY <1>0, FullNat
      <4>3. (bucket'[q][x].at - meter'[q][x].at) * Limit = 0
        BY <3>1, <4>1, <4>2
      <4>4. meter'[q][x].level <= Full
        BY <1>0, <4>1, FullNat
      <4>5. meter'[q][x].level + bucket'[q][x].tokens <= Full + 0
        BY <1>0, <3>1, <4>1, FullNat
      <4> QED
        BY <1>0, <3>1, <4>1, <4>3, <4>4, <4>5
    <3>4. CASE ~(t >= Period)
      <4>1. meter'[q][x] = meter[q][x] /\ left = t /\ t < Period
        BY <1>0, <2>2, <3>2, <3>4, FullNat DEF left
      <4> QED
        BY <1>3, <2>0, <2>2, <3>1, <4>1, <1>0
    <3> QED
      BY <3>3, <3>4
  <2>3. CASE q = p /\ x # c /\ x \in old
    <3>1. bucket'[q][x] = None /\ meter'[q][x] = Dry
      BY <1>1, <2>3 DEF TypeOK
    <3>2. (now - 0) * Limit \in Nat
      BY <1>0, FullNat
    <3> QED
      BY <1>0, <3>1, <3>2, FullNat DEF Dry
  <2>4. CASE q = p /\ x # c /\ x \in drop \ old
    <3>1. bucket'[q][x] = None /\ meter'[q][x] = meter[q][x]
      BY <1>1, <2>4 DEF TypeOK
    <3>2. meter[q][x].level <= (now - meter[q][x].at) * Limit
      BY <2>4, QuietIsPaid
    <3> QED
      BY <2>0, <3>1, <3>2
  <2>5. CASE q = p /\ x # c /\ x \notin drop
    <3>1. bucket'[q][x] = bucket[q][x] /\ meter'[q][x] = meter[q][x]
      BY <1>1, <2>5 DEF TypeOK
    <3> QED
      BY <2>0, <3>1
  <2> QED
    BY <2>1, <2>2, <2>3, <2>4, <2>5
<1>7. BucketIsFair'
  BY <1>6, now' = now DEF BucketIsFair, Full
<1> QED
  BY <1>4, <1>5, <1>7

-----------------------------------------------------------------------------
(* The type of the state, and the books of the callers.                       *)

\* A full table drops what it holds.
LEMMA OldestIsKept ==
  ASSUME NEW table, NEW kept, NEW cap, NEW share, NEW D \in Oldest(table, kept, cap, share)
  PROVE  D \subseteq kept
BY DEF Oldest

\* The Redis script and the local table of the limiter keep the books.
LEMMA CheckStep ==
  ASSUME TypeOK, RequestsKnow, BucketIsFair, NEW r \in Reqs, SharedCheck(r) \/ LocalCheck(r)
  PROVE  /\ BucketIsFair'
         /\ bucket' \in [Places -> [Clients -> Buckets \cup {None}]]
         /\ meter' \in [Places -> [Clients -> [level : Nat, at : Nat]]]
         /\ req[r].pc = "limit"
         /\ \E step \in {"handle", "done"} : req' = [req EXCEPT ![r].pc = step]
         /\ UNCHANGED <<now, made, record, effects, lost, replays>>
<1>0. /\ req[r].pc = "limit" /\ req[r].client \in Clients
      /\ UNCHANGED <<now, made, record, effects, lost, replays>>
  BY DEF SharedCheck, LocalCheck, RequestsKnow
<1>1. CASE SharedCheck(r)
  <2>1. Take(r, "shared", {}, {}) /\ "shared" \in Places
    BY <1>1 DEF SharedCheck, Places
  <2>2. \E step \in {"handle", "done"} : req' = [req EXCEPT ![r].pc = step]
    BY <2>1 DEF Take
  <2>3. /\ BucketIsFair'
        /\ bucket' \in [Places -> [Clients -> Buckets \cup {None}]]
        /\ meter' \in [Places -> [Clients -> [level : Nat, at : Nat]]]
    <3>1. /\ now' = now /\ {} \in SUBSET Clients /\ {} \in SUBSET {} /\ req[r].client \notin {}
          /\ \A x \in {} \ {} : bucket["shared"][x] # None /\ now - bucket["shared"][x].at >= Period
      BY <1>0
    <3> QED
      BY <1>0, <2>1, <3>1, TakeStep
  <2> QED
    BY <1>0, <2>2, <2>3
<1>2. CASE LocalCheck(r)
  <2> DEFINE c == req[r].client
             table == Present(bucket["local"])
             over == bucket["local"][c] = None /\ Cardinality(table) >= MaxBuckets
             idle == IF over THEN {x \in Clients : IdleBucket(x)} ELSE {}
  <2>0. "local" \in Places /\ table = {x \in Clients : bucket["local"][x] # None}
    BY DEF Places, Present, TypeOK
  <2>1. PICK old \in IF over THEN Oldest(bucket["local"], table \ idle, MaxBuckets, BucketShare)
                      ELSE {{}} : Take(r, "local", idle \cup old, old)
    BY <1>2 DEF LocalCheck
  <2>2. old \subseteq table \ idle /\ (~over => old = {})
    BY <2>1, OldestIsKept
  <2>3. c \notin idle \cup old /\ idle \cup old \in SUBSET Clients /\ old \in SUBSET (idle \cup old)
    BY <2>0, <2>2 DEF IdleBucket
  <2>4. \A x \in (idle \cup old) \ old :
          bucket["local"][x] # None /\ now - bucket["local"][x].at >= Period
    <3> SUFFICES ASSUME NEW x \in Clients, IdleBucket(x)
                 PROVE  bucket["local"][x] # None /\ now - bucket["local"][x].at >= Period
      OBVIOUS
    <3>1. bucket["local"][x] \in Buckets /\ now \in Nat
      BY <2>0 DEF IdleBucket, TypeOK
    <3> QED
      BY <3>1, FullNat DEF IdleBucket, Buckets
  <2>5. \E step \in {"handle", "done"} : req' = [req EXCEPT ![r].pc = step]
    BY <2>1 DEF Take
  <2> DEFINE drop == idle \cup old
  <2> HIDE DEF table, over, idle, drop
  <2>6. /\ BucketIsFair'
        /\ bucket' \in [Places -> [Clients -> Buckets \cup {None}]]
        /\ meter' \in [Places -> [Clients -> [level : Nat, at : Nat]]]
    <3>1. now' = now /\ drop \in SUBSET Clients /\ old \in SUBSET drop /\ req[r].client \notin drop
      BY <1>0, <2>3 DEF drop
    <3>2. Take(r, "local", drop, old) /\ \A x \in drop \ old :
            bucket["local"][x] # None /\ now - bucket["local"][x].at >= Period
      BY <2>1, <2>4 DEF drop
    <3> QED
      BY <1>0, <2>0, <3>1, <3>2, TakeStep
  <2> QED
    BY <1>0, <2>5, <2>6
<1> QED
  BY <1>1, <1>2

\* Eviction and the claim of a key, and what they leave.
LEMMA BeginStep ==
  ASSUME TypeOK, NEW r \in Reqs, NEW c \in Clients, NEW k \in Keys, NEW b \in Bodies,
         Begin(r, c, k, b)
  PROVE  \E D \in SUBSET Keys :
           /\ \A x \in D : record[x] # None
           /\ lost' = lost \cup {x \in D : record[x].answer = None}
           /\ effects' = [x \in Keys |-> IF x \in D THEN 0 ELSE effects[x]]
           /\ begin(r, c, k, b, D)
<1>1. PICK old \in Oldest(record, Present(record) \ Evicted, MaxRecords, RecordShare) :
        Forgotten(Evicted \cup old) /\ begin(r, c, k, b, Evicted \cup old)
  BY DEF Begin
<1>2. old \subseteq Present(record)
  BY <1>1, OldestIsKept
<1>3. /\ Evicted \cup old \in SUBSET Keys
      /\ \A x \in Evicted \cup old : record[x] # None
  BY <1>2 DEF Evicted, Overdue, Present, TypeOK
<1> QED
  BY <1>1, <1>3 DEF Forgotten

\* The tables, the requests and the counters keep their types.
LEMMA TypeStep ==
  ASSUME TypeOK, RequestsKnow, BucketIsFair, [Next]_vars
  PROVE  TypeOK' /\ RequestsKnow' /\ BucketIsFair'
<1> DEFINE Goal == TypeOK' /\ RequestsKnow' /\ BucketIsFair'
<1> USE RequestsAssumption
<1>1. CASE Tick
  <2>1. /\ now' = now + 1 /\ now \in Nat
        /\ UNCHANGED <<made, record, bucket, req, effects, lost, meter, replays>>
    BY <1>1 DEF Tick, TypeOK
  <2>2. ASSUME NEW p \in Places, NEW c \in Clients
        PROVE  meter[p][c].level <= (now - meter[p][c].at) * Limit =>
                 meter[p][c].level <= (now' - meter[p][c].at) * Limit
    <3>1. /\ meter[p][c].at \in Nat /\ meter[p][c].level \in Nat
          /\ now - meter[p][c].at \in Nat /\ now' - meter[p][c].at \in Nat
          /\ now - meter[p][c].at <= now' - meter[p][c].at
      BY <2>1 DEF TypeOK, BucketIsFair
    <3> DEFINE x == (now - meter[p][c].at) * Limit
               y == (now' - meter[p][c].at) * Limit
    <3>2. x <= y /\ x \in Nat /\ y \in Nat
      BY <3>1, Grows, FullNat
    <3> HIDE DEF x, y
    <3>3. meter[p][c].level <= x => meter[p][c].level <= y
      BY <3>1, <3>2
    <3> QED
      BY <3>3 DEF x, y
  <2>3. ASSUME NEW p \in Places, NEW c \in Clients
        PROVE  /\ meter[p][c].at <= now'
               /\ bucket[p][c] # None => bucket[p][c].at <= now'
    BY <2>1 DEF TypeOK, BucketIsFair, Buckets
  <2>4. BucketIsFair'
    BY <2>1, <2>2, <2>3 DEF BucketIsFair, Full
  <2> QED
    BY <2>1, <2>4 DEF TypeOK, RequestsKnow
<1>2. ASSUME NEW c \in Clients, SharedExpires(c) PROVE Goal
  <2>1. /\ bucket["shared"][c] # None /\ now - bucket["shared"][c].at >= 2 * Period
        /\ bucket' = [bucket EXCEPT !["shared"][c] = None] /\ "shared" \in Places
        /\ UNCHANGED <<now, made, record, req, effects, lost, meter, replays>>
    BY <1>2 DEF SharedExpires, Places
  <2>2. bucket' \in [Places -> [Clients -> Buckets \cup {None}]]
    BY <2>1 DEF TypeOK
  <2>3. now - bucket["shared"][c].at >= Period
    BY <2>1, FullNat DEF TypeOK, Buckets
  <2>4. meter["shared"][c].level <= (now - meter["shared"][c].at) * Limit
    BY <2>1, <2>3, QuietIsPaid
  <2>5. \A p \in Places, x \in Clients :
          bucket'[p][x] = IF p = "shared" /\ x = c THEN None ELSE bucket[p][x]
    BY <2>1 DEF TypeOK
  <2>6. BucketIsFair'
    BY <2>1, <2>4, <2>5 DEF BucketIsFair, Full
  <2> QED
    BY <2>1, <2>2, <2>6 DEF TypeOK, RequestsKnow
<1>3. ASSUME NEW r \in Reqs, SharedCheck(r) \/ LocalCheck(r) PROVE Goal
  <2>1. /\ BucketIsFair'
        /\ bucket' \in [Places -> [Clients -> Buckets \cup {None}]]
        /\ meter' \in [Places -> [Clients -> [level : Nat, at : Nat]]]
        /\ UNCHANGED <<now, made, record, effects, lost, replays>>
    BY <1>3, CheckStep
  <2>2. PICK step \in {"handle", "done"} : req' = [req EXCEPT ![r].pc = step]
    BY <1>3, CheckStep
  <2>3. req[r].pc = "limit"
    BY <1>3, CheckStep
  <2>4. req' \in [Reqs -> Calls] /\ RequestsKnow'
    <3> DEFINE call == [req[r] EXCEPT !.pc = step]
    <3>1. req[r] \in Calls /\ req' = [req EXCEPT ![r] = call]
      BY <2>2 DEF TypeOK
    <3>2. /\ call \in Calls /\ call.pc \in {"handle", "done"} /\ call.client = req[r].client
          /\ call.key = req[r].key /\ call.body = req[r].body /\ call.ok = req[r].ok
      BY <3>1 DEF Calls
    <3> HIDE DEF call
    <3>3. req' \in [Reqs -> Calls]
      BY <3>1, <3>2 DEF TypeOK
    <3>4. \A q \in Reqs : IF q = r THEN req'[q] = call ELSE req'[q] = req[q]
      BY <3>1 DEF TypeOK
    <3> QED
      BY <2>3, <3>2, <3>3, <3>4 DEF RequestsKnow
  <2> QED
    BY <2>1, <2>4 DEF TypeOK
<1>4. ASSUME UNCHANGED <<now, bucket, meter>> PROVE BucketIsFair'
  BY <1>4 DEF BucketIsFair, Full
<1>5. ASSUME NEW r \in Reqs, NEW c \in Clients, NoKey(r, c) PROVE Goal
  <2> DEFINE call == [Idle EXCEPT !.pc = "limit", !.client = c]
  <2>1. call \in Calls /\ call.key = None /\ call.client = c /\ ~call.ok
    BY DEF Calls, Idle
  <2>2. req' = [req EXCEPT ![r] = call] /\ made' \in Nat
        /\ UNCHANGED <<now, record, bucket, effects, lost, meter, replays>>
    BY <1>5 DEF NoKey, Arrives, TypeOK
  <2> HIDE DEF call
  <2> QED
    BY <1>4, <2>1, <2>2 DEF TypeOK, RequestsKnow
<1>6. ASSUME NEW r \in Reqs, NEW c \in Clients, NEW k \in Keys, NEW b \in Bodies, Begin(r, c, k, b)
      PROVE  Goal
  <2>1. PICK D \in SUBSET Keys :
           /\ \A x \in D : record[x] # None
           /\ lost' = lost \cup {x \in D : record[x].answer = None}
           /\ effects' = [x \in Keys |-> IF x \in D THEN 0 ELSE effects[x]]
           /\ begin(r, c, k, b, D)
    BY <1>6, BeginStep
  <2>2. made' \in Nat /\ UNCHANGED <<now, bucket, meter>>
    BY <1>6 DEF Begin, Arrives, TypeOK
  <2>3. lost' \subseteq Keys /\ effects' \in [Keys -> Nat]
    BY <2>1 DEF TypeOK
  <2>4. record' \in [Keys -> Records \cup {None}]
    <3>1. [body |-> b, at |-> now, answer |-> None] \in Records
      BY DEF Records, TypeOK
    <3> QED
      BY <2>1, <3>1 DEF begin, Claimed, TypeOK
  <2>5. req' = req \/ req' = [req EXCEPT ![r] = Asking(c, k, b)]
    BY <2>1 DEF begin
  <2>6. RequestsKnow' /\ req' \in [Reqs -> Calls]
    <3>1. /\ Asking(c, k, b) \in Calls /\ ~Asking(c, k, b).ok
          /\ Asking(c, k, b).client = c /\ Asking(c, k, b).body = b
      BY DEF Calls, Asking
    <3>2. req' \in [Reqs -> Calls]
      BY <2>5, <3>1 DEF TypeOK
    <3>3. \A q \in Reqs : req'[q] = req[q] \/ req'[q] = Asking(c, k, b)
      BY <2>5 DEF TypeOK
    <3> QED
      BY <3>1, <3>2, <3>3 DEF RequestsKnow
  <2>7. replays' \subseteq Bodies \X Bodies
    <3>1. replays' = replays \/ \E a \in Bodies : replays' = replays \cup {<<b, a>>}
      <4>1. \A x \in Keys : record[x] # None => record[x].answer \in Bodies \cup {None}
        BY DEF TypeOK, Records
      <4> QED
        BY <2>1, <4>1 DEF begin
    <3> QED
      BY <3>1 DEF TypeOK
  <2> QED
    BY <1>4, <2>2, <2>3, <2>4, <2>6, <2>7 DEF TypeOK
<1>7. ASSUME NEW r \in Reqs, NEW ok \in BOOLEAN, Handle(r, ok) PROVE Goal
  <2>1. /\ req' = [req EXCEPT ![r].pc = "done", ![r].ok = ok] /\ req[r].pc = "handle"
        /\ UNCHANGED <<now, made, record, bucket, lost, meter, replays>>
    BY <1>7 DEF Handle
  <2>2. req[r] \in Calls /\ [req[r] EXCEPT !.pc = "done", !.ok = ok] \in Calls
    <3>1. req[r] \in Calls
      BY DEF TypeOK
    <3> QED
      BY <3>1 DEF Calls
  <2>3. req' \in [Reqs -> Calls]
    BY <2>1, <2>2 DEF TypeOK
  <2>4. RequestsKnow'
    BY <2>1 DEF TypeOK, RequestsKnow, Calls
  <2>5. effects' \in [Keys -> Nat]
    <3>1. CASE ok /\ req[r].key # None
      <4>1. req[r].key \in Keys
        BY <3>1 DEF TypeOK, Calls
      <4>2. effects' = [effects EXCEPT ![req[r].key] = @ + 1]
        BY <1>7, <3>1 DEF Handle
      <4> QED
        BY <4>1, <4>2 DEF TypeOK
    <3>2. CASE ~(ok /\ req[r].key # None)
      BY <1>7, <3>2 DEF Handle, TypeOK
    <3> QED
      BY <3>1, <3>2
  <2> QED
    BY <1>4, <2>1, <2>3, <2>4, <2>5 DEF TypeOK
<1>8. ASSUME NEW r \in Reqs, Finish(r) PROVE Goal
  <2>1. record' \in [Keys -> Records \cup {None}]
    <3>1. CASE req[r].key = None
      BY <1>8, <3>1 DEF Finish, TypeOK
    <3>2. CASE req[r].key # None
      <4> DEFINE k == req[r].key
                 b == req[r].body
      <4>1. k \in Keys /\ b \in Bodies
        BY <3>2 DEF TypeOK, RequestsKnow, Calls
      <4>2. record' = IF req[r].ok THEN complete(k, b) ELSE abandon(k)
        BY <1>8, <3>2 DEF Finish
      <4>3. abandon(k) \in [Keys -> Records \cup {None}]
        BY DEF abandon, TypeOK
      <4>4. CASE record[k] = None
        BY <4>2, <4>3, <4>4 DEF complete, TypeOK
      <4>5. CASE record[k] # None
        <5>1. record[k] \in Records
          BY <4>1, <4>5 DEF TypeOK
        <5>2. [record[k] EXCEPT !.answer = b] \in Records
          BY <4>1, <5>1 DEF Records
        <5>3. complete(k, b) = [record EXCEPT ![k].answer = b]
          BY <4>5 DEF complete
        <5>4. complete(k, b) \in [Keys -> Records \cup {None}]
          BY <5>2, <5>3 DEF TypeOK
        <5> QED
          BY <4>2, <4>3, <5>4
      <4> QED
        BY <4>4, <4>5
    <3> QED
      BY <3>1, <3>2
  <2>2. req' = [req EXCEPT ![r] = Idle] /\ UNCHANGED <<now, made, bucket, effects, lost, meter, replays>>
    BY <1>8 DEF Finish
  <2> QED
    <3>1. Idle \in Calls /\ Idle.pc = "idle" /\ Idle.key = None /\ ~Idle.ok
      BY DEF Idle, Calls
    <3> QED
      BY <1>4, <2>1, <2>2, <3>1 DEF TypeOK, RequestsKnow
<1>9. CASE UNCHANGED vars
  BY <1>4, <1>9 DEF vars, TypeOK, RequestsKnow
<1> QED
  BY <1>1, <1>2, <1>3, <1>5, <1>6, <1>7, <1>8, <1>9 DEF Next

\* The tables start empty and no caller has been served.
LEMMA TypeInit == Init => TypeOK /\ RequestsKnow /\ BucketIsFair
<1> SUFFICES ASSUME Init PROVE TypeOK /\ RequestsKnow /\ BucketIsFair
  OBVIOUS
<1>1. TypeOK /\ RequestsKnow
  BY RequestsAssumption DEF Init, TypeOK, RequestsKnow, Idle, Dry, Calls
<1>2. (0 - 0) * Limit = 0
  BY FullNat
<1>3. BucketIsFair
  BY <1>2, FullNat DEF Init, BucketIsFair, Dry
<1> QED
  BY <1>1, <1>3

\* The tables of the middleware and the limiter keep their types: in particular no
\* bucket ever holds less than nothing or more than it can.
THEOREM TypeCorrect == Spec => []TypeOK
<1>1. TypeOK /\ RequestsKnow /\ BucketIsFair /\ [Next]_vars
        => TypeOK' /\ RequestsKnow' /\ BucketIsFair'
  BY TypeStep
<1> QED
  BY <1>1, TypeInit, PTL DEF Spec

\* Of one caller no more requests pass, between any two moments, than a full
\* bucket holds and the time between them refills: in Redis and in the process,
\* although idle buckets are dropped and come back full.
THEOREM RateIsKept == Spec => []WithinRate
<1>1. TypeOK /\ RequestsKnow /\ BucketIsFair /\ [Next]_vars
        => TypeOK' /\ RequestsKnow' /\ BucketIsFair'
  BY TypeStep
<1>2. BucketIsFair => WithinRate
  BY DEF BucketIsFair, WithinRate
<1> QED
  BY <1>1, <1>2, TypeInit, PTL DEF Spec

-----------------------------------------------------------------------------
(* Idempotency.  The three properties hold together: that a key has one       *)
(* request at most is what lets its answer be stored by key.                  *)

KeyInvariant == ClaimHasRequest /\ KeyIsSafe /\ AnswerFitsBody

\* Every step keeps a claim with its one request, and an answer with its body.
LEMMA KeyStep ==
  ASSUME TypeOK, RequestsKnow, BucketIsFair, KeyInvariant, [Next]_vars
  PROVE  KeyInvariant'
<1> USE RequestsAssumption DEF KeyInvariant
<1> DEFINE Goes(r, k) == req[r].pc \in {"limit", "handle", "done"} /\ req[r].key = k
<1>0. /\ \A k \in Keys : record[k] # None /\ record[k].answer = None => \E r \in Reqs : Goes(r, k)
      /\ \A k \in Keys \ lost :
           /\ \A r \in Reqs : Goes(r, k) =>
                /\ \A q \in Reqs : Goes(q, k) => q = r
                /\ record[k] # None /\ record[k].answer = None /\ record[k].body = req[r].body
                /\ effects[k] = IF req[r].ok THEN 1 ELSE 0
           /\ record[k] = None => effects[k] = 0
           /\ record[k] # None /\ record[k].answer # None =>
                effects[k] = 1 /\ record[k].answer = record[k].body
  BY DEF ClaimHasRequest, KeyIsSafe, Running
<1>a. ASSUME \A k \in Keys : record'[k] # None /\ record'[k].answer = None =>
               \E r \in Reqs : Goes(r, k)',
             \A k \in Keys \ lost' :
               /\ \A r \in Reqs : Goes(r, k)' =>
                    /\ \A q \in Reqs : Goes(q, k)' => q = r
                    /\ record'[k] # None /\ record'[k].answer = None /\ record'[k].body = req'[r].body
                    /\ effects'[k] = IF req'[r].ok THEN 1 ELSE 0
               /\ record'[k] = None => effects'[k] = 0
               /\ record'[k] # None /\ record'[k].answer # None =>
                    effects'[k] = 1 /\ record'[k].answer = record'[k].body
      PROVE  ClaimHasRequest' /\ KeyIsSafe'
  BY <1>a DEF ClaimHasRequest, KeyIsSafe, Running
<1>1. ASSUME UNCHANGED <<record, effects, lost>>,
             \A r \in Reqs : /\ \A k \in Keys : Goes(r, k)' <=> Goes(r, k)
                             /\ req'[r].body = req[r].body /\ req'[r].ok = req[r].ok
      PROVE  ClaimHasRequest' /\ KeyIsSafe'
  BY <1>0, <1>1, <1>a
<1>2. CASE Tick \/ UNCHANGED vars
  <2>1. UNCHANGED <<record, effects, lost, req, replays>>
    BY <1>2 DEF Tick, vars
  <2> QED
    BY <1>1, <2>1 DEF AnswerFitsBody
<1>3. ASSUME NEW c \in Clients, SharedExpires(c) PROVE KeyInvariant'
  <2>1. UNCHANGED <<record, effects, lost, req, replays>>
    BY <1>3 DEF SharedExpires
  <2> QED
    BY <1>1, <2>1 DEF AnswerFitsBody
<1>4. ASSUME NEW r \in Reqs, SharedCheck(r) \/ LocalCheck(r) PROVE KeyInvariant'
  <2>1. PICK step \in {"handle", "done"} : req' = [req EXCEPT ![r].pc = step]
    BY <1>4, CheckStep
  <2>2. req[r].pc = "limit" /\ UNCHANGED <<record, effects, lost, replays>>
    BY <1>4, CheckStep
  <2>3. \A q \in Reqs : /\ \A k \in Keys : Goes(q, k)' <=> Goes(q, k)
                        /\ req'[q].body = req[q].body /\ req'[q].ok = req[q].ok
    BY <2>1, <2>2 DEF TypeOK, Calls
  <2> QED
    BY <1>1, <2>2, <2>3 DEF AnswerFitsBody
<1>5. ASSUME NEW r \in Reqs, NEW c \in Clients, NoKey(r, c) PROVE KeyInvariant'
  <2>1. /\ req' = [req EXCEPT ![r] = [Idle EXCEPT !.pc = "limit", !.client = c]]
        /\ req[r] = Idle /\ UNCHANGED <<record, effects, lost, replays>>
    BY <1>5 DEF NoKey, Arrives
  <2>2. \A q \in Reqs : /\ \A k \in Keys : Goes(q, k)' <=> Goes(q, k)
                        /\ req'[q].body = req[q].body /\ req'[q].ok = req[q].ok
    BY <2>1 DEF TypeOK, Calls, Idle
  <2> QED
    BY <1>1, <2>1, <2>2 DEF AnswerFitsBody
<1>6. ASSUME NEW r \in Reqs, NEW c \in Clients, NEW k \in Keys, NEW b \in Bodies, Begin(r, c, k, b)
      PROVE  KeyInvariant'
  <2>1. PICK D \in SUBSET Keys :
           /\ \A x \in D : record[x] # None
           /\ lost' = lost \cup {x \in D : record[x].answer = None}
           /\ effects' = [x \in Keys |-> IF x \in D THEN 0 ELSE effects[x]]
           /\ begin(r, c, k, b, D)
    BY <1>6, BeginStep
  <2>2. req[r] = Idle
    BY <1>6 DEF Begin, Arrives
  <2>3. CASE k \in D \/ record[k] = None
    <3>1. /\ record' = Claimed(k, b, D) /\ req' = [req EXCEPT ![r] = Asking(c, k, b)]
          /\ UNCHANGED replays
      BY <2>1, <2>3 DEF begin
    <3>2. /\ \A x \in Keys : record'[x] = IF x = k THEN [body |-> b, at |-> now, answer |-> None]
                                           ELSE IF x \in D THEN None ELSE record[x]
          /\ \A q \in Reqs : req'[q] = IF q = r THEN Asking(c, k, b) ELSE req[q]
      BY <3>1 DEF Claimed, TypeOK
    <3>3. [body |-> b, at |-> now, answer |-> None] # None
      BY NoneAssumption DEF Records, TypeOK
    <3>4. \A x \in Keys, q \in Reqs : Goes(q, x)' <=> (q = r /\ x = k) \/ Goes(q, x)
      BY <2>2, <3>2 DEF Asking, Idle
    <3>5. \A q \in Reqs : q # r => req'[q] = req[q]
      BY <3>2
    <3>6. req'[r].body = b /\ ~req'[r].ok
      BY <3>2 DEF Asking
    <3>7. \A x \in Keys : ~Goes(r, x)
      BY <2>2 DEF Idle
    <3>8. \A x \in Keys : x \in D /\ x \notin lost' => \A q \in Reqs : ~Goes(q, x)
      BY <1>0, <2>1
    <3>9. k \notin lost' => (\A q \in Reqs : ~Goes(q, k)) /\ effects'[k] = 0
      BY <1>0, <2>1, <2>3, <3>8
    <3> HIDE DEF Goes
    <3>10. ASSUME NEW x \in Keys, record'[x] # None, record'[x].answer = None
           PROVE  \E q \in Reqs : Goes(q, x)'
      BY <1>0, <3>2, <3>4, <3>10
    <3>11. ASSUME NEW x \in Keys \ lost'
           PROVE  /\ \A q \in Reqs : Goes(q, x)' =>
                       /\ \A u \in Reqs : Goes(u, x)' => u = q
                       /\ record'[x] # None /\ record'[x].answer = None /\ record'[x].body = req'[q].body
                       /\ effects'[x] = IF req'[q].ok THEN 1 ELSE 0
                  /\ record'[x] = None => effects'[x] = 0
                  /\ record'[x] # None /\ record'[x].answer # None =>
                       effects'[x] = 1 /\ record'[x].answer = record'[x].body
      <4>1. CASE x = k
        BY <3>2, <3>3, <3>4, <3>6, <3>9, <4>1
      <4>2. CASE x # k /\ x \in D
        BY <2>1, <3>2, <3>4, <3>8, <4>2
      <4>3. CASE x # k /\ x \notin D
        <5>1. record'[x] = record[x] /\ effects'[x] = effects[x] /\ x \notin lost
          BY <2>1, <3>2, <4>3
        <5>2. \A q \in Reqs : (Goes(q, x)' <=> Goes(q, x)) /\ (Goes(q, x) => req'[q] = req[q])
          BY <3>4, <3>5, <3>7, <4>3
        <5> QED
          BY <1>0, <5>1, <5>2
      <4> QED
        BY <4>1, <4>2, <4>3
    <3> QED
      BY <1>a, <3>1, <3>10, <3>11 DEF AnswerFitsBody
  <2>4. CASE k \notin D /\ record[k] # None
    <3>1. /\ record' = [x \in Keys |-> IF x \in D THEN None ELSE record[x]]
          /\ replays' = IF record[k].body = b /\ record[k].answer # None /\ k \notin lost
                        THEN replays \cup {<<b, record[k].answer>>} ELSE replays
          /\ UNCHANGED req
      BY <2>1, <2>4 DEF begin
    <3>2. AnswerFitsBody'
      <4>1. \A p \in replays' : p \in replays \/ p = <<b, b>>
        BY <1>0, <2>4, <3>1
      <4> QED
        BY <4>1 DEF AnswerFitsBody
    <3>3. ASSUME NEW x \in Keys, record'[x] # None, record'[x].answer = None
          PROVE  \E q \in Reqs : Goes(q, x)'
      BY <1>0, <3>1, <3>3
    <3>4. ASSUME NEW x \in Keys \ lost'
          PROVE  /\ \A q \in Reqs : Goes(q, x)' =>
                      /\ \A u \in Reqs : Goes(u, x)' => u = q
                      /\ record'[x] # None /\ record'[x].answer = None /\ record'[x].body = req'[q].body
                      /\ effects'[x] = IF req'[q].ok THEN 1 ELSE 0
                 /\ record'[x] = None => effects'[x] = 0
                 /\ record'[x] # None /\ record'[x].answer # None =>
                      effects'[x] = 1 /\ record'[x].answer = record'[x].body
      <4>1. \A q \in Reqs : (Goes(q, x)' <=> Goes(q, x)) /\ req'[q] = req[q]
        BY <3>1
      <4>2. CASE x \in D
        BY <1>0, <2>1, <3>1, <4>1, <4>2
      <4>3. CASE x \notin D
        BY <1>0, <2>1, <3>1, <4>1, <4>3
      <4> QED
        BY <4>2, <4>3
    <3> QED
      BY <1>a, <3>2, <3>3, <3>4
  <2> QED
    BY <2>3, <2>4
<1>7. ASSUME NEW r \in Reqs, NEW ok \in BOOLEAN, Handle(r, ok) PROVE KeyInvariant'
  <2>1. /\ req' = [req EXCEPT ![r].pc = "done", ![r].ok = ok] /\ req[r].pc = "handle"
        /\ UNCHANGED <<record, lost, replays>>
    BY <1>7 DEF Handle
  <2>2. \A q \in Reqs : /\ \A x \in Keys : Goes(q, x)' <=> Goes(q, x)
                        /\ req'[q].body = req[q].body /\ (q # r => req'[q].ok = req[q].ok)
    BY <2>1 DEF TypeOK, Calls
  <2>3. (req'[r].ok <=> ok) /\ ~req[r].ok
    BY <2>1 DEF TypeOK, Calls, RequestsKnow
  <2>4. \A x \in Keys : effects'[x] = IF ok /\ req[r].key = x THEN effects[x] + 1 ELSE effects[x]
    BY <1>7 DEF Handle, TypeOK
  <2>5. \A x \in Keys : Goes(r, x) <=> req[r].key = x
    BY <2>1
  <2>6. \A x \in Keys : effects[x] \in Nat
    BY DEF TypeOK
  <2> HIDE DEF Goes
  <2>7. ASSUME NEW x \in Keys \ lost'
        PROVE  /\ \A q \in Reqs : Goes(q, x)' =>
                    /\ \A u \in Reqs : Goes(u, x)' => u = q
                    /\ record'[x] # None /\ record'[x].answer = None /\ record'[x].body = req'[q].body
                    /\ effects'[x] = IF req'[q].ok THEN 1 ELSE 0
               /\ record'[x] = None => effects'[x] = 0
               /\ record'[x] # None /\ record'[x].answer # None =>
                    effects'[x] = 1 /\ record'[x].answer = record'[x].body
    <3>1. CASE req[r].key = x
      <4>1. Goes(r, x)
        BY <2>5, <3>1
      <4>2. /\ \A q \in Reqs : Goes(q, x) => q = r
            /\ record[x] # None /\ record[x].answer = None /\ record[x].body = req[r].body
            /\ effects[x] = IF req[r].ok THEN 1 ELSE 0
        BY <1>0, <2>1, <4>1
      <4>3. effects[x] = 0
        BY <2>3, <4>2
      <4>4. effects'[x] = IF req'[r].ok THEN 1 ELSE 0
        BY <2>3, <2>4, <3>1, <4>3
      <4> QED
        BY <2>1, <2>2, <4>1, <4>2, <4>4
    <3>2. CASE req[r].key # x
      <4>1. effects'[x] = effects[x] /\ record'[x] = record[x] /\ x \in Keys \ lost /\ ~Goes(r, x)
        BY <2>1, <2>4, <2>5, <3>2
      <4>2. \A q \in Reqs : Goes(q, x)' => /\ Goes(q, x) /\ req'[q].body = req[q].body
                                          /\ req'[q].ok = req[q].ok
        BY <2>2, <4>1
      <4> QED
        BY <1>0, <4>1, <4>2
    <3> QED
      BY <3>1, <3>2
  <2> QED
    BY <1>0, <1>a, <2>1, <2>2, <2>7 DEF AnswerFitsBody
<1>8. ASSUME NEW r \in Reqs, Finish(r) PROVE KeyInvariant'
  <2>1. /\ req' = [req EXCEPT ![r] = Idle] /\ req[r].pc = "done"
        /\ UNCHANGED <<effects, lost, replays>>
    BY <1>8 DEF Finish
  <2>2. \A q \in Reqs, x \in Keys : Goes(q, x)' <=> q # r /\ Goes(q, x)
    BY <2>1 DEF TypeOK, Idle
  <2>3. \A q \in Reqs : q # r => req'[q] = req[q]
    BY <2>1 DEF TypeOK
  <2>4. \A x \in Keys : Goes(r, x) <=> req[r].key = x
    BY <2>1
  <2>5. \A x \in Keys : x # req[r].key => record'[x] = record[x]
    BY <1>8 DEF Finish, complete, abandon, TypeOK
  <2>6. req[r].key # None =>
          /\ req[r].key \in Keys /\ req[r].body \in Bodies /\ req[r].body # None
          /\ record[req[r].key] = None \/ ~req[r].ok => record'[req[r].key] = None
          /\ record[req[r].key] # None /\ req[r].ok =>
               record'[req[r].key] = [record[req[r].key] EXCEPT !.answer = req[r].body]
    BY <1>8 DEF Finish, complete, abandon, TypeOK, Calls, RequestsKnow
  <2>7. \A x \in Keys : record[x] # None => record[x] \in Records
    BY DEF TypeOK
  <2> HIDE DEF Goes
  <2>8. ASSUME NEW x \in Keys, record'[x] # None, record'[x].answer = None
        PROVE  \E q \in Reqs : Goes(q, x)'
    <3>1. x # req[r].key
      BY <2>6, <2>7, <2>8 DEF Records
    <3> QED
      BY <1>0, <2>2, <2>4, <2>5, <2>8, <3>1
  <2>9. ASSUME NEW x \in Keys \ lost'
        PROVE  /\ \A q \in Reqs : Goes(q, x)' =>
                    /\ \A u \in Reqs : Goes(u, x)' => u = q
                    /\ record'[x] # None /\ record'[x].answer = None /\ record'[x].body = req'[q].body
                    /\ effects'[x] = IF req'[q].ok THEN 1 ELSE 0
               /\ record'[x] = None => effects'[x] = 0
               /\ record'[x] # None /\ record'[x].answer # None =>
                    effects'[x] = 1 /\ record'[x].answer = record'[x].body
    <3>1. CASE x = req[r].key
      <4>1. /\ record[x] # None /\ record[x].answer = None /\ record[x].body = req[r].body
            /\ effects[x] = IF req[r].ok THEN 1 ELSE 0
            /\ \A q \in Reqs : ~Goes(q, x)'
        BY <1>0, <2>1, <2>2, <2>4, <3>1
      <4>2. x # None
        OBVIOUS
      <4>3. CASE ~req[r].ok
        BY <2>1, <2>6, <3>1, <4>1, <4>2, <4>3
      <4>4. CASE req[r].ok
        <5>1. record'[x] = [record[x] EXCEPT !.answer = req[r].body] /\ record[x] \in Records
          BY <2>6, <2>7, <3>1, <4>1, <4>2, <4>4
        <5>2. record'[x] \in Records /\ record'[x].answer = req[r].body /\ record'[x].body = record[x].body
          BY <2>6, <3>1, <4>2, <5>1 DEF Records
        <5> QED
          BY <2>1, <4>1, <4>4, <5>2, NoneAssumption
      <4> QED
        BY <4>3, <4>4
    <3>2. CASE x # req[r].key
      BY <1>0, <2>1, <2>2, <2>3, <2>4, <2>5, <3>2
    <3> QED
      BY <3>1, <3>2
  <2> QED
    BY <1>a, <2>1, <2>8, <2>9 DEF AnswerFitsBody
<1> QED
  BY <1>2, <1>3, <1>4, <1>5, <1>6, <1>7, <1>8 DEF Next

\* The invariant of the idempotency middleware, with the types it needs.
LEMMA KeysAreSafe == Spec => [](TypeOK /\ KeyInvariant)
<1>1. Init => KeyInvariant
  BY DEF Init, KeyInvariant, ClaimHasRequest, KeyIsSafe, AnswerFitsBody, Running, Idle
<1>2. TypeOK /\ RequestsKnow /\ BucketIsFair /\ [Next]_vars
        => TypeOK' /\ RequestsKnow' /\ BucketIsFair'
  BY TypeStep
<1>3. TypeOK /\ RequestsKnow /\ BucketIsFair /\ KeyInvariant /\ [Next]_vars => KeyInvariant'
  BY KeyStep
<1> QED
  BY <1>1, <1>2, <1>3, TypeInit, PTL DEF Spec

\* A key in flight always has the request that will complete or release it:
\* nobody is answered 409 for good, whatever the limiter or the handler did.
THEOREM ClaimsAreServed == Spec => []ClaimHasRequest
  BY KeysAreSafe, PTL DEF KeyInvariant

\* A replayed response answers the body that was sent with it.
THEOREM ReplaysFit == Spec => []AnswerFitsBody
  BY KeysAreSafe, PTL DEF KeyInvariant

\* A retried write is done once as long as its key is remembered, but for keys whose
\* claim expired or was evicted under the running request.
THEOREM WriteIsDoneOnce == Spec => []OneEffectPerKey
<1>1. TypeOK /\ KeyInvariant => OneEffectPerKey
  <2> SUFFICES ASSUME TypeOK, KeyInvariant, NEW k \in Keys \ lost
               PROVE  /\ effects[k] <= 1
                      /\ record[k] # None => record[k].answer = None \/ effects[k] = 1
    BY DEF OneEffectPerKey
  <2>1. CASE record[k] = None \/ record[k].answer # None
    BY <2>1 DEF KeyInvariant, KeyIsSafe
  <2>2. CASE record[k] # None /\ record[k].answer = None
    <3>1. PICK r \in Running(k) : TRUE
      BY <2>2 DEF KeyInvariant, ClaimHasRequest
    <3>2. effects[k] = IF req[r].ok THEN 1 ELSE 0
      BY <3>1 DEF KeyInvariant, KeyIsSafe
    <3> QED
      BY <2>2, <3>2
  <2> QED
    BY <2>1, <2>2
<1> QED
  BY <1>1, KeysAreSafe, PTL
=============================================================================
