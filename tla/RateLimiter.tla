----------------------------- MODULE RateLimiter -----------------------------
(***************************************************************************)
(* ratelimit.Limiter: a map of lazily refilled token buckets, one per      *)
(* session or address, from which a cleanup loop drops the idle ones.      *)
(*                                                                         *)
(* Time passes in ticks of a second.  Tokens are counted in fractions of   *)
(* a token, Minute of them to the token, so that perMinute/60 tokens a     *)
(* second is perMinute fractions a tick and nothing is rounded.            *)
(*                                                                         *)
(* A request looks its bucket up under the mutex and takes its token later *)
(* without it; other requests and the cleanup may come between.  No        *)
(* request is kept waiting there for more than MaxDelay ticks: that is the *)
(* one assumption on time, and how much it may be is the question.         *)
(***************************************************************************)
EXTENDS Integers

CONSTANTS
    Requests,     \* slots of requests under way at the same time
    NoRequest,    \* a slot nobody uses
    Sessions,     \* values of the X-Session-Id header
    NoSession,    \* the header is absent
    Addresses,    \* addresses the gateway forwards, or peers' own
    NoBucket,     \* a key that is not in the map
    PerMinute,    \* RATE_LIMIT_PER_MINUTE
    Minute,       \* ticks of a minute (60)
    Burst,        \* tokens a bucket holds (10)
    IdleMinutes,  \* minutes after which a bucket may be dropped (10)
    MaxDelay,     \* ticks a request may take between get and Allow
    MaxTime       \* bound of the clock

\* New: a limit that is not positive means the default, one token a second.
Rate == IF PerMinute <= 0 THEN Minute ELSE PerMinute

Capacity == Burst * Minute

\* What the correctness of the code needs of its numbers: a request is done
\* with its bucket before the bucket can be dropped, and what is left of the
\* idle time after that delay is enough to fill a bucket.
ASSUME LimiterAssumption ==
    /\ PerMinute \in Int
    /\ Minute \in Nat \ {0}
    /\ Burst \in Nat \ {0}
    /\ IdleMinutes \in Nat
    /\ MaxTime \in Nat
    /\ MaxDelay \in Nat
    /\ MaxDelay <= IdleMinutes * Minute
    /\ Capacity <= (IdleMinutes * Minute + 1 - MaxDelay) * Rate

ASSUME NoRequestAssumption ==
    NoRequest \notin [key : ({"sess"} \X Sessions) \cup ({"ip"} \X Addresses), since : Int]

ASSUME NoBucketAssumption ==
    NoBucket \notin [tokens : Int, last : Int, lastSeen : Int]

VARIABLES
    now,      \* the clock
    buckets,  \* the map: [tokens, last, lastSeen] of a key, or NoBucket
    request,  \* of each slot, the bucket's key and when it was looked up
    served,   \* history: how many requests of a key were let through
    answer    \* the last answer, [key, allowed]

vars == <<now, buckets, request, served, answer>>

Keys == ({"sess"} \X Sessions) \cup ({"ip"} \X Addresses)

\* clientKey: the session of the tab, or else the address.
ClientKey(session, address) ==
    IF session # NoSession THEN <<"sess", session>> ELSE <<"ip", address>>

Filled(x) == IF x < Capacity THEN x ELSE Capacity

Init ==
    /\ now = 0
    /\ buckets = [k \in Keys |-> NoBucket]
    /\ request = [r \in Requests |-> NoRequest]
    /\ served = [k \in Keys |-> 0]
    /\ answer \in [key : Keys, allowed : BOOLEAN]

\* Limiter.get: the bucket of the key, made full when there is none.
Get(k) ==
    IF buckets[k] = NoBucket
    THEN [tokens |-> Capacity, last |-> now, lastSeen |-> now]
    ELSE buckets[k]

\* Variant: only a new bucket is stamped.
SeenOnce(b) == b

\* Whoever looks a bucket up marks it as in use.
Seen(b) == [b EXCEPT !.lastSeen = now]

\* Middleware, up to get: the request has its bucket, and lets go of the mutex.
Begin(r, k) ==
    /\ request[r] = NoRequest
    /\ buckets' = [buckets EXCEPT ![k] = Seen(Get(k))]
    /\ request' = [request EXCEPT ![r] = [key |-> k, since |-> now]]
    /\ UNCHANGED <<now, served, answer>>

\* Variant: the refill may overfill the bucket.
AvailableUnbounded(b) == b.tokens + (now - b.last) * Rate

\* The refill is computed when it is asked for, from the time of the last take.
Available(b) == Filled(b.tokens + (now - b.last) * Rate)

\* Middleware: next.ServeHTTP.
Allow(r) ==
    /\ request[r] # NoRequest
    /\ LET k == request[r].key
           b == buckets[k]
       IN  /\ Available(b) >= Minute
           /\ buckets' = [buckets EXCEPT ![k] =
                 [tokens |-> Available(b) - Minute, last |-> now, lastSeen |-> b.lastSeen]]
           /\ served' = [served EXCEPT ![k] = @ + 1]
           /\ answer' = [key |-> k, allowed |-> TRUE]
    /\ request' = [request EXCEPT ![r] = NoRequest]
    /\ UNCHANGED now

\* Middleware: deny.  A denied request takes nothing.
Deny(r) ==
    /\ request[r] # NoRequest
    /\ Available(buckets[request[r].key]) < Minute
    /\ answer' = [key |-> request[r].key, allowed |-> FALSE]
    /\ request' = [request EXCEPT ![r] = NoRequest]
    /\ UNCHANGED <<now, buckets, served>>

\* Variant: a bucket is dropped a minute too early.
IdleTooEarly(b) == now - b.lastSeen > (IdleMinutes - 1) * Minute

Idle(b) == now - b.lastSeen > IdleMinutes * Minute

\* cleanupLoop: the ticker may fire at any time of the model's clock.
Cleanup ==
    /\ \E k \in Keys : buckets[k] # NoBucket /\ Idle(buckets[k])
    /\ buckets' = [k \in Keys |->
          IF buckets[k] # NoBucket /\ Idle(buckets[k]) THEN NoBucket ELSE buckets[k]]
    /\ UNCHANGED <<now, request, served, answer>>

\* Time waits for a request that has been delayed for as long as it may be.
Tick ==
    /\ now < MaxTime
    /\ \A r \in Requests : request[r] # NoRequest => now < request[r].since + MaxDelay
    /\ now' = now + 1
    /\ UNCHANGED <<buckets, request, served, answer>>

Next ==
    \/ Tick
    \/ Cleanup
    \/ \E r \in Requests :
        \/ \E s \in Sessions \cup {NoSession}, a \in Addresses : Begin(r, ClientKey(s, a))
        \/ Allow(r)
        \/ Deny(r)

Spec == Init /\ [][Next]_vars

-----------------------------------------------------------------------------
(* Properties                                                              *)

Bucket == [tokens : 0 .. Capacity, last : 0 .. MaxTime, lastSeen : 0 .. MaxTime]

TypeOK ==
    /\ now \in 0 .. MaxTime
    /\ buckets \in [Keys -> Bucket \cup {NoBucket}]
    /\ request \in [Requests -> [key : Keys, since : 0 .. MaxTime] \cup {NoRequest}]
    /\ served \in [Keys -> Nat]
    /\ answer \in [key : Keys, allowed : BOOLEAN]

\* What is in the bucket of a key, as if it had been refilled at every tick.
Level == [k \in Keys |-> Available(Get(k))]

\* No key ever gets more than its burst and perMinute requests a minute since,
\* however its requests, its idle times and the cleanups interleave (comment
\* of New): forgetting a bucket gives nobody tokens it did not have.
Throttled == \A k \in Keys : served[k] * Minute <= Capacity + now * Rate

\* The bucket a request found stays in the map until the request is done with
\* it: no two buckets of one key are in use at a time, although get and Allow
\* are two steps and only the first holds the mutex (Middleware).
KeptWhileNeeded ==
    \A r \in Requests : request[r] # NoRequest => buckets[request[r].key] # NoBucket

\* The limiter is one bucket per key that is never forgotten and that nobody
\* else's requests touch: each answer is the one such a bucket would give.
Bucketed == INSTANCE TokenBuckets
              WITH level <- Level, Token <- Minute, Refill <- Rate

BucketsSpec == Bucketed!Spec
=============================================================================
