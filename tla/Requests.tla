------------------------------ MODULE Requests ------------------------------
(* What a write goes through before and after its handler in one API process: *)
(* the idempotency middleware (POST with an Idempotency-Key), then the rate   *)
(* limit of the caller, kept in a bucket of Redis if it answers and in one of *)
(* this process if it does not.  Clients repeat requests with the same key,   *)
(* at any time and with any body.                                             *)
EXTENDS Integers, Sequences, FiniteSets

CONSTANTS
    Keys,           \* cache keys: caller, method, path and Idempotency-Key
    Bodies,         \* request bodies, as far as fingerprints tell them apart
    Clients,        \* callers, as the rate limiter tells them apart
    Reqs,           \* requests being handled at once
    None,
    Ttl, MaxRecords,            \* of the idempotency store
    Limit, Period, MaxBuckets,  \* of the limiter: Limit tokens in Period seconds
    RecordShare, BucketShare,   \* a full table drops one in so many entries (4 in the code)
    MaxTime,        \* bound: seconds the model runs for
    MaxRequests     \* bound: requests made

ASSUME RequestsAssumption ==
    /\ {Ttl, MaxRecords, Limit, Period, MaxBuckets, RecordShare, BucketShare} \subseteq Nat \ {0}
    /\ {MaxTime, MaxRequests} \subseteq Nat
    /\ None \notin Keys \cup Bodies \cup Clients

VARIABLES
    now, made,
    record,     \* per key: None, or the body claimed for, when, and the answer once there is one
    bucket,     \* per place and client: None, or tokens (in 1/Period) and when last seen
    req,        \* per request: where it is, and what it asks
    effects,    \* history: successful handler calls per key since its record was last forgotten
    lost,       \* history: keys whose claim was forgotten while its request was running
    meter,      \* history: per place and client, what passed above the rate, as a level that
                \* rises with each request and sinks with time; since a full table last
                \* dropped the bucket
    replays     \* history: bodies asked with and bodies answered to, of replayed responses

vars == <<now, made, record, bucket, req, effects, lost, meter, replays>>

Places == {"shared", "local"}
Dry == [level |-> 0, at |-> 0]
Idle == [pc |-> "idle", key |-> None, body |-> None, client |-> None, ok |-> FALSE]

Init ==
    /\ now = 0 /\ made = 0
    /\ record = [k \in Keys |-> None]
    /\ bucket = [p \in Places |-> [c \in Clients |-> None]]
    /\ req = [r \in Reqs |-> Idle]
    /\ effects = [k \in Keys |-> 0]
    /\ lost = {}
    /\ replays = {}
    /\ meter = [p \in Places |-> [c \in Clients |-> Dry]]

-----------------------------------------------------------------------------
(* A table that is full gives up a share of its entries, the oldest.          *)

Present(table) == {x \in DOMAIN table : table[x] # None}

(* The sets of keys that the eviction of a full table may drop (ties are open). *)
Oldest(table, kept, cap, share) ==
    IF Cardinality(kept) < cap THEN {{}}
    ELSE {D \in SUBSET kept : /\ Cardinality(D) = Cardinality(kept) \div share
                              /\ \A x \in D, y \in kept \ D : table[x].at <= table[y].at}

-----------------------------------------------------------------------------
(* Idempotency.                                                               *)

Running(k) == {r \in Reqs : req[r].pc \in {"limit", "handle", "done"} /\ req[r].key = k}
Overdue(k) == record[k] # None /\ now - record[k].at > Ttl

(* IdempotencyStore._evict_locked: D is what is dropped, in flight or not.      *)
Forgotten(D) ==
    /\ lost' = lost \cup {k \in D : record[k].answer = None}
    /\ effects' = [k \in Keys |-> IF k \in D THEN 0 ELSE effects[k]]

Evicted == {k \in Keys : Overdue(k)}

Asking(c, k, b) == [pc |-> "limit", key |-> k, body |-> b, client |-> c, ok |-> FALSE]
Claimed(k, b, D) == [x \in Keys |-> IF x = k THEN [body |-> b, at |-> now, answer |-> None]
                                    ELSE IF x \in D THEN None ELSE record[x]]

(* Faulty variant: only a finished request keeps others with its key from running. *)
BlindBegin(r, c, k, b, D) ==
    LET rec == IF k \in D THEN None ELSE record[k] IN
    IF rec = None \/ (rec # None /\ rec.answer = None)
    THEN /\ record' = Claimed(k, b, D)
         /\ req' = [req EXCEPT ![r] = Asking(c, k, b)]
         /\ UNCHANGED replays
    ELSE UNCHANGED <<req, record, replays>>

(* Faulty variant: the fingerprint is not compared. *)
BeginAnyBody(r, c, k, b, D) ==
    LET rec == IF k \in D THEN None ELSE record[k] IN
    IF rec = None
    THEN /\ record' = Claimed(k, b, D)
         /\ req' = [req EXCEPT ![r] = Asking(c, k, b)]
         /\ UNCHANGED replays
    ELSE /\ record' = [x \in Keys |-> IF x \in D THEN None ELSE record[x]]
         /\ replays' = IF rec.answer # None /\ k \notin lost
                       THEN replays \cup {<<b, rec.answer>>} ELSE replays
         /\ UNCHANGED req

(* IdempotencyStore.begin after eviction of D: the key is claimed; or the request is       *)
(* answered at once, with 422 (another body), 409 (in flight) or the stored response.      *)
begin(r, c, k, b, D) ==
    LET rec == IF k \in D THEN None ELSE record[k] IN
    IF rec = None
    THEN /\ record' = Claimed(k, b, D)
         /\ req' = [req EXCEPT ![r] = Asking(c, k, b)]
         /\ UNCHANGED replays
    ELSE /\ record' = [x \in Keys |-> IF x \in D THEN None ELSE record[x]]
         /\ replays' = IF rec.body = b /\ rec.answer # None /\ k \notin lost
                       THEN replays \cup {<<b, rec.answer>>} ELSE replays
         /\ UNCHANGED req

Arrives(r) == req[r] = Idle /\ made < MaxRequests /\ made' = made + 1

(* A POST with a key.  Eviction comes first.                                    *)
Begin(r, c, k, b) ==
    /\ Arrives(r)
    /\ \E old \in Oldest(record, Present(record) \ Evicted, MaxRecords, RecordShare) :
        /\ Forgotten(Evicted \cup old)
        /\ begin(r, c, k, b, Evicted \cup old)
    /\ UNCHANGED <<now, bucket, meter>>

(* A request without a key, which is optional, goes straight to the limiter.    *)
NoKey(r, c) ==
    /\ Arrives(r)
    /\ req' = [req EXCEPT ![r] = [Idle EXCEPT !.pc = "limit", !.client = c]]
    /\ UNCHANGED <<now, record, bucket, effects, lost, meter, replays>>

-----------------------------------------------------------------------------
(* Rate limiting.  Tokens are counted in units of 1/Period, so that a second  *)
(* refills Limit units, a request costs Period and a bucket holds             *)
(* Limit * Period.                                                            *)

Full == Limit * Period

Refill(tokens, elapsed) ==
    IF tokens + elapsed * Limit < Full THEN tokens + elapsed * Limit ELSE Full

(* A bucket that is not there is a full one.                                    *)
Tokens(p, c) == IF bucket[p][c] = None THEN Full
                ELSE Refill(bucket[p][c].tokens, now - bucket[p][c].at)

Rise(m) == LET sunk == m.level - (now - m.at) * Limit IN
    [level |-> (IF sunk > 0 THEN sunk ELSE 0) + Period, at |-> now]

(* Faulty variant: any remainder of a token is enough. *)
TakeRemainder(r, p, drop, old) ==
    LET c == req[r].client
        t == Tokens(p, c)
        pass == t > 0 IN
    /\ bucket' = [bucket EXCEPT ![p] =
            [x \in Clients |-> IF x = c THEN [tokens |-> IF t >= Period THEN t - Period ELSE 0,
                                              at |-> now]
                               ELSE IF x \in drop THEN None ELSE @[x]]]
    /\ req' = [req EXCEPT ![r].pc = IF pass THEN "handle" ELSE "done"]
    /\ meter' = [meter EXCEPT ![p] =
            [x \in Clients |-> IF x \in old THEN Dry
                               ELSE IF x = c /\ pass THEN Rise(@[x]) ELSE @[x]]]

(* The client's bucket is refilled and charged; drop is removed from the table, of which     *)
(* old, the part that may not be full yet, starts anew.                                      *)
Take(r, p, drop, old) ==
    LET c == req[r].client
        t == Tokens(p, c)
        pass == t >= Period IN
    /\ bucket' = [bucket EXCEPT ![p] =
            [x \in Clients |-> IF x = c THEN [tokens |-> IF pass THEN t - Period ELSE t,
                                              at |-> now]
                               ELSE IF x \in drop THEN None ELSE @[x]]]
    /\ req' = [req EXCEPT ![r].pc = IF pass THEN "handle" ELSE "done"]
    /\ meter' = [meter EXCEPT ![p] =
            [x \in Clients |-> IF x \in old THEN Dry
                               ELSE IF x = c /\ pass THEN Rise(@[x]) ELSE @[x]]]

(* The script in Redis, atomic there.                                           *)
SharedCheck(r) ==
    /\ req[r].pc = "limit"
    /\ Take(r, "shared", {}, {})
    /\ UNCHANGED <<now, made, record, effects, lost, replays>>

(* EXPIRE: Redis drops a bucket that nobody used for two periods.               *)
SharedExpires(c) ==
    /\ bucket["shared"][c] # None /\ now - bucket["shared"][c].at >= 2 * Period
    /\ bucket' = [bucket EXCEPT !["shared"][c] = None]
    /\ UNCHANGED <<now, made, record, req, effects, lost, meter, replays>>

IdleBucket(c) == bucket["local"][c] # None /\ now - bucket["local"][c].at > Period

(* RateLimiter.check when Redis is not configured or does not answer.  A full table     *)
(* drops idle buckets first, and then busy ones, which are full again afterwards.       *)
LocalCheck(r) ==
    LET c == req[r].client
        table == Present(bucket["local"])
        over == bucket["local"][c] = None /\ Cardinality(table) >= MaxBuckets
        idle == IF over THEN {x \in Clients : IdleBucket(x)} ELSE {} IN
    /\ req[r].pc = "limit"
    /\ \E old \in IF over THEN Oldest(bucket["local"], table \ idle, MaxBuckets, BucketShare)
                 ELSE {{}} :
        Take(r, "local", idle \cup old, old)
    /\ UNCHANGED <<now, made, record, effects, lost, replays>>

-----------------------------------------------------------------------------
Records == [body : Bodies, at : Nat, answer : Bodies \cup {None}]
Buckets == [tokens : 0..Full, at : Nat]
Calls == [pc : {"idle", "limit", "handle", "done"}, key : Keys \cup {None},
          body : Bodies \cup {None}, client : Clients \cup {None}, ok : BOOLEAN]

(* Nothing in a table is None. *)
ASSUME NoneAssumption == None \notin Records /\ None \notin Buckets

TypeOK ==
    /\ now \in Nat /\ made \in Nat
    /\ record \in [Keys -> Records \cup {None}]
    /\ bucket \in [Places -> [Clients -> Buckets \cup {None}]]
    /\ req \in [Reqs -> Calls]
    /\ effects \in [Keys -> Nat]
    /\ lost \subseteq Keys
    /\ meter \in [Places -> [Clients -> [level : Nat, at : Nat]]]
    /\ replays \subseteq Bodies \X Bodies

-----------------------------------------------------------------------------
(* The handler, and what the middleware makes of its answer.                  *)

Handle(r, ok) ==
    /\ req[r].pc = "handle"
    /\ req' = [req EXCEPT ![r].pc = "done", ![r].ok = ok]
    /\ effects' = IF ok /\ req[r].key # None THEN [effects EXCEPT ![req[r].key] = @ + 1]
                  ELSE effects
    /\ UNCHANGED <<now, made, record, bucket, lost, meter, replays>>

(* complete, by key: whoever holds the claim by now gets this answer.           *)
complete(k, b) == IF record[k] = None THEN record ELSE [record EXCEPT ![k].answer = b]

(* Faulty variant: a failed request keeps its claim. *)
KeptClaim(k) == record

abandon(k) == [record EXCEPT ![k] = None]

Finish(r) ==
    /\ req[r].pc = "done"
    /\ record' = IF req[r].key = None THEN record
                 ELSE IF req[r].ok THEN complete(req[r].key, req[r].body)
                 ELSE abandon(req[r].key)
    /\ req' = [req EXCEPT ![r] = Idle]
    /\ UNCHANGED <<now, made, bucket, effects, lost, meter, replays>>

Tick ==
    /\ now < MaxTime
    /\ now' = now + 1
    /\ UNCHANGED <<made, record, bucket, req, effects, lost, meter, replays>>

Next ==
    \/ Tick
    \/ \E c \in Clients : SharedExpires(c)
    \/ \E r \in Reqs :
        \/ \E c \in Clients : NoKey(r, c) \/ \E k \in Keys, b \in Bodies : Begin(r, c, k, b)
        \/ SharedCheck(r) \/ LocalCheck(r) \/ Finish(r)
        \/ \E ok \in BOOLEAN : Handle(r, ok)

Spec == Init /\ [][Next]_vars

-----------------------------------------------------------------------------

(* A retry does the work once: while a key is remembered its handler has succeeded at most   *)
(* once, and an answer that is stored comes from it ("the first request with that key        *)
(* executes").  A claim that expired or was evicted under its running request is the        *)
(* exception: the key is then executed again.                                                *)
OneEffectPerKey ==
    \A k \in Keys \ lost :
        /\ effects[k] <= 1
        /\ record[k] # None => record[k].answer = None \/ effects[k] = 1

(* A replayed response is the response to the body of the request that gets it.             *)
AnswerFitsBody == \A p \in replays : p[1] = p[2]

(* Nobody is told to wait for a request that does not run: a key in flight has a request     *)
(* that will complete or release it, whatever answered that request.                         *)
ClaimHasRequest ==
    \A k \in Keys : record[k] # None /\ record[k].answer = None => Running(k) # {}

(* Of one caller, no more requests pass between any two moments than the bucket holds and    *)
(* the seconds between them refill, whether or not idle buckets were dropped meanwhile.      *)
WithinRate ==
    \A p \in Places, c \in Clients : meter[p][c].level <= Full
=============================================================================
