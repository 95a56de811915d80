------------------------- MODULE RateLimiterProofs -------------------------
(***************************************************************************)
(* For every set of callers, every number of requests at a time, and every *)
(* rate, burst and delay that LimiterAssumption allows, the limiter is a   *)
(* bucket per key that nothing is ever forgotten of.                       *)
(***************************************************************************)
EXTENDS RateLimiter, TLAPS

-----------------------------------------------------------------------------
(* Arithmetic.                                                             *)

LEMMA Numbers ==
    /\ Rate \in Nat
    /\ Rate >= 1
    /\ Minute \in Nat
    /\ Minute >= 1
    /\ Capacity \in Nat
    /\ Minute <= Capacity
  <1>1. Rate \in Nat /\ Rate >= 1 /\ Minute \in Nat /\ Minute >= 1
    BY LimiterAssumption DEF Rate
  <1>2. \A x, y \in Nat : x >= 1 => x * y \in Nat /\ y <= x * y
    OBVIOUS
  <1>3. QED BY <1>1, <1>2, LimiterAssumption DEF Capacity

LEMMA Product == \A d \in Nat : d * Rate \in Nat /\ (d + 1) * Rate = d * Rate + Rate
  BY Numbers

\* A bucket that is old enough to be dropped has been full for a while.
LEMMA IdleIsFull ==
    ASSUME NEW d \in Nat, d >= IdleMinutes * Minute + 1 - MaxDelay
    PROVE  d * Rate >= Capacity
  <1> DEFINE e == IdleMinutes * Minute + 1 - MaxDelay
  <1>1. IdleMinutes * Minute \in Nat
    BY LimiterAssumption
  <1>2. e \in Nat
    BY <1>1, LimiterAssumption
  <1>3. \A x, y \in Nat : x >= y => x * Rate >= y * Rate
    <2>1. SUFFICES ASSUME NEW x \in Nat, NEW y \in Nat, x >= y PROVE x * Rate >= y * Rate
      OBVIOUS
    <2>2. x - y \in Nat /\ x = y + (x - y)
      BY <2>1
    <2>3. \A c \in Nat : c * Rate \in Nat /\ (y + c) * Rate = y * Rate + c * Rate
      BY Numbers
    <2>4. x * Rate = y * Rate + (x - y) * Rate /\ (x - y) * Rate >= 0 /\ y * Rate \in Nat
      BY <2>2, <2>3, Product
    <2>5. QED BY <2>2, <2>3, <2>4
  <1>4. d * Rate >= e * Rate
    BY <1>2, <1>3
  <1>5. e * Rate >= Capacity
    BY LimiterAssumption
  <1>6. d * Rate \in Nat /\ e * Rate \in Nat
    BY <1>2, Product
  <1>7. QED BY <1>4, <1>5, <1>6, Numbers

\* The code's numbers, bursts of ten and buckets idle for ten minutes of sixty
\* seconds, satisfy LimiterAssumption at every rate: a request may take a second to
\* its token at one a minute, and five minutes at any other.  At one a minute, two
\* seconds are too many.
LEMMA NumbersOfTheCode ==
    \A rate \in Nat \ {0}, delay \in Nat :
        /\ delay <= 1 \/ (rate >= 2 /\ delay <= 301)
              => 10 * 60 <= (10 * 60 + 1 - delay) * rate
        /\ rate = 1 /\ delay >= 2 => ~(10 * 60 <= (10 * 60 + 1 - delay) * rate)
  <1>1. \A x, y \in Nat : x >= 1 => y <= y * x
    OBVIOUS
  <1>2. \A x, y \in Nat : x >= 2 /\ y >= 300 => 600 <= y * x
    <2> TAKE x, y \in Nat
    <2>1. x >= 2 => y * x = y * (x - 2) + 2 * y /\ y * (x - 2) >= 0
      OBVIOUS
    <2>2. QED BY <2>1
  <1>3. QED BY <1>1, <1>2

LEMMA FilledTwice ==
    ASSUME NEW x \in Nat, NEW y \in Nat
    PROVE  /\ Filled(x) \in 0 .. Capacity
           /\ Filled(x + y) = Filled(Filled(x) + y)
  BY Numbers DEF Filled

-----------------------------------------------------------------------------
(* How each action changes the levels.                                     *)

\* The times of a bucket never lie in the future, and a token is taken at most
\* a delay after the bucket was seen.
InOrder ==
    \A k \in Keys : buckets[k] # NoBucket =>
        /\ buckets[k].last <= buckets[k].lastSeen + MaxDelay
        /\ buckets[k].last <= now
        /\ buckets[k].lastSeen <= now

\* Who waits between get and Allow: its bucket is there and has been seen since.
Waiting ==
    \A r \in Requests : request[r] # NoRequest =>
        /\ buckets[request[r].key] # NoBucket
        /\ request[r].since <= buckets[request[r].key].lastSeen
        /\ now <= request[r].since + MaxDelay

LEMMA BucketFacts ==
    ASSUME TypeOK, InOrder, NEW k \in Keys
    PROVE  /\ Get(k) \in Bucket
           /\ Get(k) # NoBucket
           /\ Get(k).last <= Get(k).lastSeen + MaxDelay
           /\ Get(k).last <= now
           /\ Get(k).lastSeen <= now
           /\ now - Get(k).last \in Nat
           /\ (now - Get(k).last) * Rate \in Nat
           /\ Available(Get(k)) \in 0 .. Capacity
           /\ Level[k] = Available(Get(k))
           /\ buckets[k] = NoBucket => Level[k] = Capacity
           /\ buckets[k] # NoBucket => Get(k) = buckets[k]
  <1>1. Get(k) \in Bucket
    BY Numbers DEF Get, TypeOK, Bucket
  <1>2. Get(k) # NoBucket
    BY <1>1, Numbers, NoBucketAssumption, LimiterAssumption DEF Bucket
  <1>3. /\ Get(k).last <= Get(k).lastSeen + MaxDelay
        /\ Get(k).last <= now
        /\ Get(k).lastSeen <= now
    <2>1. CASE buckets[k] = NoBucket
      BY <2>1, LimiterAssumption DEF Get, TypeOK
    <2>2. CASE buckets[k] # NoBucket
      BY <2>2 DEF Get, InOrder
    <2>3. QED BY <2>1, <2>2
  <1>4. now - Get(k).last \in Nat
    BY <1>1, <1>3 DEF Bucket, TypeOK
  <1>5. (now - Get(k).last) * Rate \in Nat
    BY <1>4, Product
  <1>6. Available(Get(k)) \in 0 .. Capacity
    <2>1. Get(k).tokens + (now - Get(k).last) * Rate \in Nat
      BY <1>1, <1>5 DEF Bucket
    <2>2. QED BY <2>1, Numbers DEF Available, Filled
  <1>7. ASSUME buckets[k] = NoBucket PROVE Available(Get(k)) = Capacity
    <2>1. Get(k).tokens = Capacity /\ now - Get(k).last = 0
      BY <1>7, <1>4 DEF Get, TypeOK
    <2>2. 0 * Rate = 0
      BY Numbers
    <2>3. QED BY <2>1, <2>2, Numbers DEF Available, Filled
  <1>8. buckets[k] # NoBucket => Get(k) = buckets[k]
    BY DEF Get
  <1>9. QED BY <1>1, <1>2, <1>3, <1>4, <1>5, <1>6, <1>7, <1>8 DEF Level

LEMMA BeginLevel ==
    ASSUME TypeOK, InOrder, Waiting, NEW r \in Requests, NEW k \in Keys, Begin(r, k)
    PROVE  /\ Level' = Level
           /\ TypeOK'
           /\ InOrder'
           /\ Waiting'
  <1> DEFINE b == Seen(Get(k))
             q == [key |-> k, since |-> now]
  <1>1. /\ b \in Bucket
        /\ b.tokens = Get(k).tokens
        /\ b.last = Get(k).last
        /\ b.lastSeen = now
    BY BucketFacts DEF Seen, Bucket, TypeOK
  <1>2. b # NoBucket
    BY <1>1, Numbers, NoBucketAssumption, LimiterAssumption DEF Bucket
  <1>3. /\ buckets' = [buckets EXCEPT ![k] = b]
        /\ now' = now
        /\ request' = [request EXCEPT ![r] = q]
    BY DEF Begin
  <1>4. TypeOK'
    <2>1. q \in [key : Keys, since : 0 .. MaxTime]
      BY DEF TypeOK
    <2>2. QED BY <1>1, <1>3, <2>1 DEF Begin, TypeOK
  <1>5. InOrder'
    <2>1. b.last <= now /\ b.last <= b.lastSeen + MaxDelay
      BY <1>1, BucketFacts, LimiterAssumption DEF Bucket, TypeOK
    <2>2. QED BY <1>1, <1>3, <2>1 DEF InOrder, TypeOK
  <1>6. Waiting'
    <2> SUFFICES ASSUME NEW o \in Requests, request'[o] # NoRequest
                 PROVE  /\ buckets'[request'[o].key] # NoBucket
                        /\ request'[o].since <= buckets'[request'[o].key].lastSeen
                        /\ now' <= request'[o].since + MaxDelay
      BY DEF Waiting
    <2>1. CASE o = r
      <3>1. request'[o] = q /\ buckets'[k] = b
        BY <1>3, <2>1 DEF TypeOK
      <3>2. QED BY <1>1, <1>2, <1>3, <3>1, LimiterAssumption DEF TypeOK
    <2>2. CASE o # r
      <3>1. request'[o] = request[o] /\ request[o] \in [key : Keys, since : 0 .. MaxTime]
        BY <1>3, <2>2 DEF TypeOK
      <3>2. CASE request[o].key = k
        <4>1. buckets'[request'[o].key] = b /\ request[o].since <= now
          BY <1>3, <3>1, <3>2 DEF Waiting, InOrder, TypeOK, Bucket
        <4>2. QED BY <1>1, <1>2, <1>3, <3>1, <4>1 DEF Waiting
      <3>3. CASE request[o].key # k
        BY <1>3, <3>1, <3>3 DEF Waiting, TypeOK
      <3>4. QED BY <3>2, <3>3
    <2>3. QED BY <2>1, <2>2
  <1>7. Available(Get(k))' = Available(Get(k))
    <2>1. Get(k)' = b
      BY <1>2, <1>3 DEF Get, TypeOK
    <2>2. QED BY <1>1, <1>3, <2>1 DEF Available
  <1>8. \A j \in Keys : j # k => Available(Get(j))' = Available(Get(j))
    BY <1>3 DEF Available, Get, TypeOK
  <1>9. QED BY <1>4, <1>5, <1>6, <1>7, <1>8 DEF Level

LEMMA AllowLevel ==
    ASSUME TypeOK, InOrder, Waiting, NEW r \in Requests, Allow(r)
    PROVE  /\ request[r].key \in Keys
           /\ Level[request[r].key] >= Minute
           /\ Level' = [Level EXCEPT ![request[r].key] = @ - Minute]
           /\ TypeOK'
           /\ InOrder'
           /\ Waiting'
  <1> DEFINE k == request[r].key
             b == [tokens |-> Available(Get(k)) - Minute, last |-> now,
                   lastSeen |-> Get(k).lastSeen]
  <1>1. /\ k \in Keys
        /\ request[r].since \in 0 .. MaxTime
        /\ buckets[k] # NoBucket
        /\ Get(k) = buckets[k]
    BY BucketFacts DEF Allow, TypeOK, Waiting
  <1>2. /\ Available(Get(k)) >= Minute
        /\ buckets' = [buckets EXCEPT ![k] = b]
        /\ request' = [request EXCEPT ![r] = NoRequest]
        /\ now' = now
    BY <1>1 DEF Allow
  <1>3. /\ Available(Get(k)) - Minute \in 0 .. Capacity
        /\ b \in Bucket
    BY <1>1, <1>2, BucketFacts, Numbers DEF Bucket, TypeOK
  <1>4. b # NoBucket
    BY <1>3, Numbers, NoBucketAssumption, LimiterAssumption DEF Bucket
  <1>5. TypeOK'
    BY <1>1, <1>2, <1>3 DEF Allow, TypeOK
  <1>6. InOrder'
    <2>1. now <= b.lastSeen + MaxDelay /\ b.lastSeen <= now
      <3>1. now <= request[r].since + MaxDelay /\ request[r].since <= Get(k).lastSeen
        BY <1>1 DEF Waiting, Allow
      <3>2. Get(k).lastSeen \in Int /\ now \in Int /\ Get(k).lastSeen <= now
        BY <1>1, BucketFacts DEF Bucket, TypeOK
      <3>3. QED BY <1>1, <3>1, <3>2, LimiterAssumption
    <2>2. QED BY <1>2, <2>1 DEF InOrder, TypeOK
  <1>7. Waiting'
    <2> SUFFICES ASSUME NEW o \in Requests, request'[o] # NoRequest
                 PROVE  /\ buckets'[request'[o].key] # NoBucket
                        /\ request'[o].since <= buckets'[request'[o].key].lastSeen
                        /\ now' <= request'[o].since + MaxDelay
      BY DEF Waiting
    <2>1. o # r /\ request'[o] = request[o]
      BY <1>2 DEF TypeOK
    <2>2. /\ buckets[request[o].key] # NoBucket
          /\ request[o].since <= buckets[request[o].key].lastSeen
          /\ now <= request[o].since + MaxDelay
      BY <2>1 DEF Waiting
    <2>3. CASE request[o].key = k
      <3>1. buckets'[k] = b
        BY <1>1, <1>2 DEF TypeOK
      <3>2. QED BY <1>1, <1>2, <1>4, <2>1, <2>2, <2>3, <3>1
    <2>4. CASE request[o].key # k
      BY <1>2, <2>1, <2>2, <2>4 DEF TypeOK
    <2>5. QED BY <2>3, <2>4
  <1>8. \A j \in Keys : j = k => Available(Get(j))' = Available(Get(j)) - Minute
    <2>1. buckets'[k] = b
      BY <1>1, <1>2 DEF TypeOK
    <2>2. (now' - b.last) * Rate = 0
      BY <1>2, Numbers DEF TypeOK
    <2>3. Filled(b.tokens + 0) = b.tokens
      BY <1>3, Numbers DEF Filled
    <2>4. \A j \in Keys : j = k => Get(j)' = b
      BY <1>4, <2>1 DEF Get
    <2>5. \A j \in Keys : j = k => Available(Get(j))' = b.tokens
      BY <1>3, <2>2, <2>3, <2>4 DEF Available
    <2>6. QED BY <1>1, <2>5
  <1>9. \A j \in Keys : j # k => Available(Get(j))' = Available(Get(j))
    BY <1>2 DEF Available, Get, TypeOK
  <1>10. QED BY <1>1, <1>2, <1>5, <1>6, <1>7, <1>8, <1>9 DEF Level

LEMMA DenyLevel ==
    ASSUME TypeOK, InOrder, Waiting, NEW r \in Requests, Deny(r)
    PROVE  /\ request[r].key \in Keys
           /\ Level[request[r].key] < Minute
           /\ Level' = Level
           /\ TypeOK'
           /\ InOrder'
           /\ Waiting'
  <1>1. /\ request[r].key \in Keys
        /\ Get(request[r].key) = buckets[request[r].key]
    BY BucketFacts DEF Deny, TypeOK, Waiting
  <1>2. Level[request[r].key] < Minute
    BY <1>1, BucketFacts DEF Deny
  <1>3. buckets' = buckets /\ now' = now /\ request' = [request EXCEPT ![r] = NoRequest]
    BY DEF Deny
  <1>4. TypeOK'
    BY <1>1, <1>3 DEF Deny, TypeOK
  <1>5. InOrder' /\ Waiting'
    BY <1>3 DEF InOrder, Waiting, TypeOK
  <1>6. Level' = Level
    BY <1>3 DEF Level, Available, Get
  <1>7. QED BY <1>1, <1>2, <1>4, <1>5, <1>6

LEMMA TickLevel ==
    ASSUME TypeOK, InOrder, Waiting, Tick
    PROVE  /\ Level' = [k \in Keys |-> Filled(Level[k] + Rate)]
           /\ TypeOK'
           /\ InOrder'
           /\ Waiting'
  <1>1. now' = now + 1 /\ buckets' = buckets /\ request' = request
    BY DEF Tick
  <1>2. TypeOK'
    BY LimiterAssumption DEF Tick, TypeOK
  <1>3. InOrder'
    BY <1>1 DEF InOrder, TypeOK, Bucket
  <1>4. Waiting'
    <2> SUFFICES ASSUME NEW r \in Requests, request[r] # NoRequest
                 PROVE  now' <= request[r].since + MaxDelay
      BY <1>1 DEF Waiting
    <2>1. request[r].since \in Nat /\ now < request[r].since + MaxDelay
      BY DEF Tick, TypeOK
    <2>2. QED BY <1>1, <2>1, LimiterAssumption DEF TypeOK
  <1>5. ASSUME NEW k \in Keys PROVE Available(Get(k))' = Filled(Available(Get(k)) + Rate)
    <2>1. CASE buckets[k] = NoBucket
      <3>1. Available(Get(k)) = Capacity
        BY <2>1, BucketFacts
      <3>2. Level'[k] = Capacity /\ Level'[k] = Available(Get(k))'
        <4>1. (TypeOK /\ InOrder /\ buckets[k] = NoBucket)'
          BY <1>1, <1>2, <1>3, <2>1
        <4>2. Available(Get(k))' = Capacity
          <5>1. Get(k)' = [tokens |-> Capacity, last |-> now', lastSeen |-> now']
            BY <4>1 DEF Get
          <5>2. now' - now' = 0 /\ 0 * Rate = 0
            BY <1>1, Numbers DEF TypeOK
          <5>3. QED BY <5>1, <5>2, Numbers DEF Available, Filled
        <4>3. QED BY <4>2 DEF Level
      <3>3. QED BY <3>1, <3>2, Numbers DEF Filled
    <2>2. CASE buckets[k] # NoBucket
      <3> DEFINE b == buckets[k]
                 x == b.tokens + (now - b.last) * Rate
      <3>1. Get(k) = b /\ Get(k)' = b
        BY <1>1, <2>2 DEF Get
      <3>2. b.tokens \in Nat /\ now - b.last \in Nat /\ x \in Nat
        BY <3>1, BucketFacts DEF Bucket
      <3>3. b.last \in Int /\ now \in Int
        BY <3>1, BucketFacts DEF Bucket, TypeOK
      <3>4. (now' - b.last) * Rate = (now - b.last) * Rate + Rate
        <4>1. now' - b.last = (now - b.last) + 1
          BY <1>1, <3>3
        <4>2. QED BY <3>2, <4>1, Product
      <3>5. Available(Get(k))' = Filled(x + Rate)
        <4>1. b.tokens + (now' - b.last) * Rate = x + Rate
          BY <3>2, <3>4, Product, Numbers
        <4>2. QED BY <3>1, <4>1 DEF Available
      <3>6. Available(Get(k)) = Filled(x)
        BY <3>1 DEF Available
      <3>7. QED BY <3>2, <3>5, <3>6, FilledTwice, Numbers
    <2>3. QED BY <2>1, <2>2
  <1>6. QED BY <1>2, <1>3, <1>4, <1>5 DEF Level

LEMMA CleanupLevel ==
    ASSUME TypeOK, InOrder, Waiting, Cleanup
    PROVE  /\ Level' = Level
           /\ TypeOK'
           /\ InOrder'
           /\ Waiting'
  <1>1. now' = now /\ request' = request /\ \A k \in Keys :
          buckets'[k] = IF buckets[k] # NoBucket /\ Idle(buckets[k])
                        THEN NoBucket ELSE buckets[k]
    BY DEF Cleanup
  <1>2. TypeOK'
    BY DEF Cleanup, TypeOK
  <1>3. InOrder'
    BY <1>1 DEF InOrder
  <1>4. Waiting'
    <2> SUFFICES ASSUME NEW r \in Requests, request[r] # NoRequest
                 PROVE  buckets'[request[r].key] = buckets[request[r].key]
      BY <1>1 DEF Waiting
    <2> DEFINE b == buckets[request[r].key]
    <2>1. /\ request[r].key \in Keys /\ b # NoBucket
          /\ request[r].since <= b.lastSeen
          /\ now <= request[r].since + MaxDelay
      BY DEF Waiting, TypeOK
    <2>2. request[r].since \in Int /\ now \in Int /\ b.lastSeen \in Int
      BY <2>1 DEF TypeOK, Bucket
    <2>3. IdleMinutes * Minute \in Nat
      BY LimiterAssumption
    <2>4. ~ (now - b.lastSeen > IdleMinutes * Minute)
      BY <2>1, <2>2, <2>3, LimiterAssumption
    <2>5. QED BY <1>1, <2>1, <2>4 DEF Idle
  <1>5. ASSUME NEW k \in Keys PROVE Available(Get(k))' = Available(Get(k))
    <2>1. CASE buckets'[k] = buckets[k]
      BY <1>1, <2>1 DEF Available, Get
    <2>2. CASE buckets'[k] # buckets[k]
      <3>1. buckets[k] # NoBucket /\ Idle(buckets[k]) /\ buckets'[k] = NoBucket
        BY <1>1, <2>2
      <3>2. Get(k) = buckets[k]
        BY <3>1 DEF Get
      <3>3. (now - Get(k).last) * Rate >= Capacity
        <4>1. now - Get(k).last >= IdleMinutes * Minute + 1 - MaxDelay
          <5>1. /\ Get(k).last \in Int /\ Get(k).lastSeen \in Int /\ now \in Int
                /\ Get(k).last <= Get(k).lastSeen + MaxDelay
            BY BucketFacts DEF Bucket, TypeOK
          <5>2. IdleMinutes * Minute \in Int
            BY LimiterAssumption
          <5>3. QED BY <3>1, <3>2, <5>1, <5>2, LimiterAssumption DEF Idle
        <4>2. QED BY <4>1, BucketFacts, IdleIsFull
      <3>4. Available(Get(k)) = Capacity
        BY <3>3, BucketFacts, Numbers DEF Available, Filled, Bucket
      <3>5. Available(Get(k))' = Capacity
        <4>1. Get(k)' = [tokens |-> Capacity, last |-> now, lastSeen |-> now]
          BY <1>1, <3>1 DEF Get
        <4>2. now' - now = 0 /\ 0 * Rate = 0
          BY <1>1, Numbers DEF TypeOK
        <4>3. QED BY <4>1, <4>2, Numbers DEF Available, Filled
      <3>6. QED BY <3>4, <3>5
    <2>3. QED BY <2>1, <2>2
  <1>6. QED BY <1>2, <1>3, <1>4, <1>5 DEF Level

-----------------------------------------------------------------------------
(* The invariant.                                                          *)

\* What a key was served and what it still has left never exceeds what it was
\* given: the full bucket, and a refill for every tick so far.
Balance == \A k \in Keys : Level[k] + served[k] * Minute <= Capacity + now * Rate

LimiterInv == TypeOK /\ InOrder /\ Waiting /\ Balance

LEMMA InitInv == Init => LimiterInv
  <1> SUFFICES ASSUME Init PROVE LimiterInv
    OBVIOUS
  <1>1. TypeOK /\ InOrder /\ Waiting
    BY LimiterAssumption DEF Init, TypeOK, InOrder, Waiting
  <1>2. ASSUME NEW k \in Keys PROVE Level[k] + served[k] * Minute <= Capacity + now * Rate
    <2>1. Level[k] = Capacity
      BY <1>1, BucketFacts DEF Init
    <2>2. served[k] * Minute = 0 /\ now * Rate = 0
      BY Numbers DEF Init
    <2>3. QED BY <2>1, <2>2, Numbers
  <1>3. QED BY <1>1, <1>2 DEF LimiterInv, Balance

LEMMA KeyOf ==
    ASSUME NEW s \in Sessions \cup {NoSession}, NEW a \in Addresses
    PROVE  ClientKey(s, a) \in Keys
  BY DEF ClientKey, Keys

\* What the inequalities below compute with.
LEMMA Quantities ==
    ASSUME TypeOK, InOrder, NEW k \in Keys
    PROVE  /\ Level[k] \in 0 .. Capacity /\ served[k] \in Nat /\ now \in Nat
           /\ served[k] * Minute \in Nat /\ now * Rate \in Nat
           /\ (served[k] + 1) * Minute = served[k] * Minute + Minute
           /\ (now + 1) * Rate = now * Rate + Rate
  <1>1. Level[k] \in 0 .. Capacity /\ served[k] \in Nat /\ now \in Nat
    BY BucketFacts, Numbers DEF TypeOK
  <1>2. \A x \in Nat : x * Minute \in Nat /\ (x + 1) * Minute = x * Minute + Minute
    BY Numbers
  <1>3. QED BY <1>1, <1>2, Product

\* No step gives a key more than the refill of the time that passes with it.
LEMMA NothingForFree ==
    ASSUME TypeOK, InOrder, Waiting, [Next]_vars
    PROVE  /\ TypeOK' /\ InOrder' /\ Waiting'
           /\ now' \in {now, now + 1}
           /\ \A k \in Keys :
                 /\ Level'[k] \in 0 .. Capacity
                 /\ Level'[k] + served'[k] * Minute + now * Rate
                        <= Level[k] + served[k] * Minute + now' * Rate
  <1> DEFINE Kept == /\ TypeOK' /\ InOrder' /\ Waiting'
                     /\ now' \in {now, now + 1}
                     /\ \A k \in Keys :
                           /\ Level'[k] \in 0 .. Capacity
                           /\ Level'[k] + served'[k] * Minute + now * Rate
                                  <= Level[k] + served[k] * Minute + now' * Rate
  <1>1. ASSUME TypeOK', InOrder', Waiting', UNCHANGED <<Level, served, now>> PROVE Kept
    BY <1>1, Quantities
  <1>2. ASSUME NEW r \in Requests, Allow(r) PROVE Kept
    <2> DEFINE k == request[r].key
    <2>1. /\ TypeOK' /\ InOrder' /\ Waiting' /\ now' = now
          /\ k \in Keys
          /\ Level' = [Level EXCEPT ![k] = @ - Minute]
          /\ served' = [served EXCEPT ![k] = @ + 1]
      BY <1>2, AllowLevel DEF Allow
    <2>2. ASSUME NEW j \in Keys
          PROVE  /\ Level'[j] \in 0 .. Capacity
                 /\ Level'[j] + served'[j] * Minute + now * Rate
                        <= Level[j] + served[j] * Minute + now' * Rate
      <3>1. CASE j = k
        <4>1. Level'[j] = Level[k] - Minute /\ served'[j] = served[k] + 1
          BY <2>1, <3>1 DEF Level, TypeOK
        <4>2. Level[k] >= Minute
          BY <1>2, AllowLevel
        <4>3. QED BY <2>1, <3>1, <4>1, <4>2, Quantities, Numbers
      <3>2. CASE j # k
        BY <2>1, <3>2, Quantities, Numbers DEF Level, TypeOK
      <3>3. QED BY <3>1, <3>2
    <2>3. QED BY <2>1, <2>2
  <1>3. ASSUME NEW r \in Requests, Deny(r) PROVE Kept
    BY <1>1, <1>3, DenyLevel DEF Deny
  <1>4. ASSUME NEW r \in Requests, NEW k \in Keys, Begin(r, k) PROVE Kept
    BY <1>1, <1>4, BeginLevel DEF Begin
  <1>5. CASE Tick
    <2>1. /\ TypeOK' /\ InOrder' /\ Waiting' /\ now' = now + 1 /\ served' = served
          /\ Level' = [k \in Keys |-> Filled(Level[k] + Rate)]
      BY <1>5, TickLevel DEF Tick
    <2>2. ASSUME NEW j \in Keys
          PROVE  /\ Level'[j] \in 0 .. Capacity
                 /\ Level'[j] + served'[j] * Minute + now * Rate
                        <= Level[j] + served[j] * Minute + now' * Rate
      <3>1. Level'[j] <= Level[j] + Rate /\ Level'[j] \in 0 .. Capacity
        BY <2>1, Quantities, Numbers DEF Filled
      <3>2. QED BY <2>1, <3>1, Quantities, Numbers
    <2>3. QED BY <2>1, <2>2
  <1>6. CASE Cleanup
    BY <1>1, <1>6, CleanupLevel DEF Cleanup
  <1>7. CASE UNCHANGED vars
    BY <1>1, <1>7 DEF vars, TypeOK, InOrder, Waiting, Level, Available, Get
  <1>8. QED BY <1>2, <1>3, <1>5, <1>6, <1>7, <1>4, KeyOf DEF Next

LEMMA NextInv == LimiterInv /\ [Next]_vars => LimiterInv'
  <1> SUFFICES ASSUME LimiterInv, [Next]_vars PROVE LimiterInv'
    OBVIOUS
  <1> USE DEF LimiterInv
  <1>1. /\ TypeOK' /\ InOrder' /\ Waiting'
        /\ now' \in {now, now + 1}
    BY NothingForFree
  <1>2. ASSUME NEW k \in Keys
        PROVE  Level'[k] + served'[k] * Minute <= Capacity + now' * Rate
    <2>1. /\ Level[k] \in Nat /\ served[k] * Minute \in Nat /\ now * Rate \in Nat
          /\ Level'[k] \in Nat /\ served'[k] * Minute \in Nat /\ now' * Rate \in Nat
      <3>1. \A x \in Nat : x * Minute \in Nat
        BY Numbers
      <3>2. served'[k] \in Nat /\ now' \in Nat /\ Level'[k] \in Nat
        BY <1>1, NothingForFree, Numbers DEF TypeOK
      <3>3. now' * Rate \in Nat
        BY <3>2, Product
      <3>4. Level[k] \in Nat /\ served[k] * Minute \in Nat /\ now * Rate \in Nat
        BY Quantities, Numbers
      <3>5. QED BY <3>1, <3>2, <3>3, <3>4
    <2>2. Level'[k] + served'[k] * Minute + now * Rate
              <= Level[k] + served[k] * Minute + now' * Rate
      BY NothingForFree
    <2>3. Level[k] + served[k] * Minute <= Capacity + now * Rate
      BY DEF Balance
    <2>4. QED BY <2>1, <2>2, <2>3, Numbers
  <1>3. QED BY <1>1, <1>2 DEF Balance

THEOREM LimiterInvariance == Spec => []LimiterInv
  BY InitInv, NextInv, PTL DEF Spec

\* Buckets are never overfilled and their times never lie in the future.
THEOREM LimiterTypes == Spec => []TypeOK
  BY LimiterInvariance, PTL DEF LimiterInv

\* No key gets more than its burst and its rate since the start, whatever the
\* cleanup forgets.
THEOREM AlwaysThrottled == Spec => []Throttled
  <1>1. LimiterInv => Throttled
    <2> SUFFICES ASSUME LimiterInv, NEW k \in Keys
                 PROVE  served[k] * Minute <= Capacity + now * Rate
      BY DEF Throttled
    <2>1. Level[k] \in Nat /\ served[k] * Minute \in Nat /\ now * Rate \in Nat
      <3>1. Level[k] \in Nat /\ served[k] \in Nat /\ now \in Nat
        BY BucketFacts, Numbers DEF LimiterInv, TypeOK
      <3>2. \A x \in Nat : x * Minute \in Nat
        BY Numbers
      <3>3. QED BY <3>1, <3>2, Product
    <2>2. QED BY <2>1, Numbers DEF LimiterInv, Balance
  <1>2. QED BY <1>1, LimiterInvariance, PTL

\* A key that had been served n times is served m times by the end of a span.
Within(m, n, ticks) == m * Minute <= n * Minute + Capacity + ticks * Rate

ThrottledSince(k, t, n) ==
    [](now = t /\ served[k] = n => [](\A m \in {served[k]} : Within(m, n, now - t)))

\* Throttled, of any other span of time: from a moment t on, when it had been
\* served n times, key k gets its burst and its rate, and no more.  A client that
\* paused, or whose bucket was forgotten meanwhile, does not get its burst twice.
ThrottledInAnyWindow == \A k \in Keys, t \in Nat, n \in Nat : ThrottledSince(k, t, n)

\* What key k was served since the moment t, when it had been served n times,
\* and what it has left never exceed a full bucket and the refill since.
BalanceSince(k, t, n) ==
    Level[k] + served[k] * Minute + t * Rate <= n * Minute + Capacity + now * Rate

LEMMA WindowOpens ==
    ASSUME LimiterInv, NEW k \in Keys
    PROVE  BalanceSince(k, now, served[k]) /\ now <= now
  <1>1. TypeOK /\ InOrder
    BY DEF LimiterInv
  <1>2. QED BY <1>1, Quantities, Numbers DEF BalanceSince

LEMMA WindowKept ==
    ASSUME LimiterInv, [Next]_vars, NEW k \in Keys, NEW t \in Nat, NEW n \in Nat,
           t <= now, BalanceSince(k, t, n)
    PROVE  t <= now' /\ BalanceSince(k, t, n)'
  <1>1. TypeOK /\ InOrder /\ Waiting
    BY DEF LimiterInv
  <1>2. now \in Nat /\ now' \in {now, now + 1}
    BY <1>1, NothingForFree, Quantities
  <1>3. /\ Level[k] \in Nat /\ served[k] * Minute \in Nat
        /\ now * Rate \in Nat /\ t * Rate \in Nat /\ n * Minute \in Nat
    BY <1>1, Quantities, Product, Numbers
  <1>4. /\ Level'[k] \in Nat /\ served'[k] * Minute \in Nat /\ now' * Rate \in Nat
        /\ Level'[k] + served'[k] * Minute + now * Rate
              <= Level[k] + served[k] * Minute + now' * Rate
    <2>1. Level'[k] \in Nat /\ served'[k] \in Nat /\ now' \in Nat
      BY <1>1, NothingForFree, Numbers DEF TypeOK
    <2>2. now' * Rate \in Nat
      BY <2>1, Product
    <2>3. \A x \in Nat : x * Minute \in Nat
      BY Numbers
    <2>4. QED BY <1>1, <2>1, <2>2, <2>3, NothingForFree
  <1>5. QED BY <1>2, <1>3, <1>4, Numbers DEF BalanceSince

LEMMA WindowBounds ==
    ASSUME LimiterInv, NEW k \in Keys, NEW t \in Nat, NEW n \in Nat,
           t <= now, BalanceSince(k, t, n)
    PROVE  Within(served[k], n, now - t)
  <1>1. TypeOK /\ InOrder
    BY DEF LimiterInv
  <1>2. now \in Nat /\ now - t \in Nat
    BY <1>1, Quantities
  <1>3. (now - t) * Rate + t * Rate = now * Rate
    <2>1. \A x, y, z \in Nat : x * z + y * z = (x + y) * z
      OBVIOUS
    <2>2. (now - t) + t = now
      BY <1>2
    <2>3. QED BY <1>2, <2>1, <2>2, Numbers
  <1>4. /\ Level[k] \in Nat /\ served[k] * Minute \in Nat /\ now * Rate \in Nat
        /\ t * Rate \in Nat /\ (now - t) * Rate \in Nat /\ n * Minute \in Nat
    BY <1>1, <1>2, Quantities, Product, Numbers
  <1>5. QED BY <1>3, <1>4, Numbers DEF BalanceSince, Within

\* In no span of time does a key get more than its burst and the rate of that
\* span, however long it was idle before and whatever the cleanup forgot.
THEOREM NeverTwiceTheBurst == Spec => ThrottledInAnyWindow
  <1>1. ASSUME NEW k \in Keys, NEW t \in Nat, NEW n \in Nat
        PROVE  Spec => ThrottledSince(k, t, n)
    <2> DEFINE Opens == now = t /\ served[k] = n
               Open == t <= now /\ BalanceSince(k, t, n)
               Bounded == \A m \in {served[k]} : Within(m, n, now - t)
    <2>1. LimiterInv /\ Opens => Open
      BY WindowOpens
    <2>2. LimiterInv /\ Open /\ [Next]_vars => Open'
      BY WindowKept
    <2>3. LimiterInv /\ Open => Bounded
      BY WindowBounds
    <2>4. ThrottledSince(k, t, n) <=> [](Opens => []Bounded)
      BY DEF ThrottledSince
    <2> HIDE DEF Opens, Open, Bounded
    <2>5. QED BY <2>1, <2>2, <2>3, <2>4, LimiterInvariance, PTL DEF Spec
  <1>2. QED BY <1>1 DEF ThrottledInAnyWindow

\* However long a request is delayed between looking its bucket up and taking
\* its token, within the bound, cleanup leaves it its bucket.
THEOREM BucketsAreKept == Spec => []KeptWhileNeeded
  <1>1. LimiterInv => KeptWhileNeeded
    BY DEF LimiterInv, Waiting, KeptWhileNeeded
  <1>2. QED BY <1>1, LimiterInvariance, PTL

-----------------------------------------------------------------------------
(* The limiter implements TokenBuckets.                                    *)

LEMMA InitBuckets == Init => Bucketed!Init
  <1> SUFFICES ASSUME Init PROVE Bucketed!Init
    OBVIOUS
  <1>1. TypeOK /\ InOrder
    BY InitInv DEF LimiterInv
  <1>2. \A k \in Keys : Level[k] = Capacity
    BY <1>1, BucketFacts DEF Init
  <1>3. QED BY <1>2 DEF Init, Bucketed!Init, Level

LEMMA NextBuckets == LimiterInv /\ [Next]_vars => [Bucketed!Next]_(Bucketed!vars)
  <1> SUFFICES ASSUME LimiterInv, [Next]_vars
               PROVE  Bucketed!Next \/ UNCHANGED Bucketed!vars
    OBVIOUS
  <1> USE DEF LimiterInv
  <1>1. ASSUME NEW r \in Requests, Allow(r)
        PROVE  request[r].key \in Keys /\ Bucketed!Allow(request[r].key)
    BY <1>1, AllowLevel DEF Allow, Bucketed!Allow
  <1>2. ASSUME NEW r \in Requests, Deny(r)
        PROVE  request[r].key \in Keys /\ Bucketed!Deny(request[r].key)
    BY <1>2, DenyLevel DEF Deny, Bucketed!Deny
  <1>3. ASSUME NEW r \in Requests, NEW k \in Keys, Begin(r, k) PROVE UNCHANGED Bucketed!vars
    BY <1>3, BeginLevel DEF Begin, Bucketed!vars
  <1>4. CASE Tick
    <2>1. Bucketed!Tick
      BY <1>4, TickLevel DEF Tick, Bucketed!Tick, Bucketed!Filled, Filled
    <2>2. QED BY <2>1 DEF Bucketed!Next
  <1>5. CASE Cleanup
    BY <1>5, CleanupLevel DEF Cleanup, Bucketed!vars
  <1>6. CASE UNCHANGED vars
    BY <1>6 DEF vars, Bucketed!vars, Level, Available, Get
  <1>7. QED BY <1>1, <1>2, <1>4, <1>5, <1>6, <1>3, KeyOf DEF Next, Bucketed!Next

\* Every answer of the limiter is the one a bucket of the key's own would give
\* that is never dropped: cleanup cannot be observed.
THEOREM LimiterImplementsBuckets == Spec => BucketsSpec
  BY InitBuckets, NextBuckets, LimiterInvariance, PTL
     DEF Spec, BucketsSpec, Bucketed!Spec

=============================================================================
