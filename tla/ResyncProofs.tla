----------------------------- MODULE ResyncProofs -----------------------------
(***************************************************************************)
(* A browser that connects resyncs to the truth, for every number of       *)
(* browsers, instances and seats, any buffer and any faults: what it shows *)
(* of a seat nothing happened to is what the stores say.  LiveInv, which   *)
(* only says that messages are true of the past, is not enough: here it is *)
(* related to what is under way, on each stage of a snapshot.              *)
(***************************************************************************)
EXTENDS LiveMapProofs

-----------------------------------------------------------------------------
(* The strengthened invariant.                                             *)

\* Subscriptions carry events only; snapshots are made by the connections.
Events == {m \in Messages : m.type # "snapshot"}

EventsOnly == inbox \in [Subscriptions -> Seq(Events)]

\* Whatever is under way about s says what the stores say.
Telling(s) == {m \in Messages : s \in DOMAIN m.seats => m.seats[s] = Truth(s)}

Quiet(s) ==
    /\ \A r \in Requests : r.seat = s => pc[r] # "publishHeld"
    /\ \A k \in Subscriptions : inbox[k] \in Seq(Telling(s))

\* A state of s that v may be shown: the truth, or anything of a free seat
\* when its holds could not be read.
Right(v, s, state) == state = Truth(s) \/ (serve[v] = "sentDegraded" /\ ~Sold(s))

Fitting(v, s) ==
    {m \in Messages : /\ s \in DOMAIN m.seats => Right(v, s, m.seats[s])
                      /\ m.type = "snapshot" => DOMAIN m.seats = Seats}

\* The rows are read before the holds, so a sold seat is in the snapshot.
Reading(v, s) ==
    /\ serve[v] \in {"scanning", "degraded"} /\ Sold(s) => s \in DOMAIN snapshot[v]
    /\ s \in DOMAIN snapshot[v] =>
          /\ serve[v] = "scanning" => snapshot[v][s] = Truth(s)
          /\ serve[v] = "degraded" /\ Sold(s) => snapshot[v][s] = Truth(s)

HasSnapshot(q) == \E n \in 1 .. Len(q) : q[n].type = "snapshot"

Shown(v, s) ==
    serve[v] \in {"sent", "sentDegraded"} =>
        HasSnapshot(queue[v]) \/ Right(v, s, view[v][s])

Following(v, s) == Reading(v, s) /\ queue[v] \in Seq(Fitting(v, s)) /\ Shown(v, s)

ResyncInv ==
    /\ EventsOnly
    /\ \A v \in Browsers : \A s \in undisturbed[v] : Quiet(s) /\ Following(v, s)

-----------------------------------------------------------------------------
(* While a seat is undisturbed its truth does not change.                  *)

Still(s) == hold'[s] = hold[s] /\ Rows(s)' = Rows(s)

LEMMA TruthStays ==
    ASSUME NoDoubleBooking, NoDoubleBooking', NEW s \in Seats, Still(s)
    PROVE  (Sold(s)' <=> Sold(s)) /\ Truth(s)' = Truth(s)
  <1>1. Sold(s) <=> Rows(s) # {}
    BY DEF Sold, Rows
  <1>2. Sold(s)' <=> Rows(s)' # {}
    BY DEF Sold, Rows
  <1>3. Sold(s)' <=> Sold(s)
    BY <1>1, <1>2 DEF Still
  <1>4. CASE Sold(s)
    <2>1. PICK b \in Rows(s) : TRUE
      BY <1>1, <1>4
    <2>2. b \in bookings /\ b \in bookings' /\ b.seat = s
      BY <2>1 DEF Rows, Still
    <2>3. (CHOOSE c \in bookings : c.seat = s) = b
      BY <2>2 DEF NoDoubleBooking
    <2>4. (CHOOSE c \in bookings' : c.seat = s) = b
      BY <2>2 DEF NoDoubleBooking
    <2>5. OwnerOf(s) = b.session /\ OwnerOf(s)' = b.session
      BY <1>3, <1>4, <2>3, <2>4 DEF OwnerOf
    <2>6. QED BY <1>3, <1>4, <2>5 DEF Truth
  <1>5. CASE ~Sold(s)
    BY <1>3, <1>5 DEF Truth, StateOfHold, Still
  <1>6. QED BY <1>3, <1>4, <1>5

LEMMA TellingStays ==
    ASSUME NoDoubleBooking, NoDoubleBooking', NEW s \in Seats, Still(s)
    PROVE  Telling(s)' = Telling(s)
  BY TruthStays DEF Telling

-----------------------------------------------------------------------------
(* What is under way.                                                      *)

LEMMA EventIsEvent ==
    ASSUME NEW x \in Seats, NEW state \in SeatStates, NEW type \in {"held", "booked", "freed"}
    PROVE  /\ Event(type, x, state) \in Events
           /\ DOMAIN Event(type, x, state).seats = {x}
           /\ Event(type, x, state).seats[x] = state
  <1>1. [y \in {x} |-> state] \in [{x} -> SeatStates] /\ {x} \in SUBSET Seats
    OBVIOUS
  <1>2. [y \in {x} |-> state] \in Views
    BY <1>1 DEF Views
  <1>3. QED BY <1>2 DEF Event, Message, Messages, Events

\* What a handler announces about a seat that is quiet is a sale that is there.
LEMMA AnnouncedTells ==
    ASSUME IInv, NEW r \in Requests, pc[r] \in {"publishHeld", "publishBooked"}
    PROVE  /\ EventOf(r) \in Events
           /\ \A s \in Seats : Quiet(s) => EventOf(r) \in Telling(s)
  <1>1. /\ r.seat \in Seats
        /\ Held(r.session) \in SeatStates /\ Booked(r.session) \in SeatStates
    BY RequestFields DEF SeatStates
  <1>2. CASE pc[r] = "publishHeld"
    <2>1. /\ EventOf(r) \in Events
          /\ DOMAIN EventOf(r).seats = {r.seat}
      BY <1>1, <1>2, EventIsEvent DEF EventOf, HeldEvent
    <2>2. \A s \in Seats : Quiet(s) => r.seat # s
      BY <1>2 DEF Quiet
    <2>3. QED BY <2>1, <2>2 DEF Telling, Events
  <1>3. CASE pc[r] = "publishBooked"
    <2>1. /\ EventOf(r) \in Events
          /\ DOMAIN EventOf(r).seats = {r.seat}
          /\ EventOf(r).seats[r.seat] = Booked(r.session)
      BY <1>1, <1>3, EventIsEvent DEF EventOf, BookedEvent
    <2>2. Row(r) \in bookings
      BY <1>3 DEF IInv, RequestsAgree, AnnouncesOwnRow, Announcing
    <2>3. Sold(r.seat) /\ OwnerOf(r.seat) = r.session
      BY <2>2, OwnerOfRow, RequestFields DEF IInv, StoresAgree, Sold
    <2>4. Truth(r.seat) = Booked(r.session)
      BY <2>3 DEF Truth
    <2>5. QED BY <2>1, <2>4 DEF Telling, Events
  <1>4. QED BY <1>2, <1>3

\* The end of a hold disturbs its seat, and says nothing about another.
LEMMA FreedTells ==
    ASSUME IInv, NEW x \in Seats, Expire(x)
    PROVE  /\ FreedEvent(x) \in Events
           /\ \A s \in Seats : Still(s) => FreedEvent(x) \in Telling(s)
  <1>1. Open \in SeatStates
    BY DEF SeatStates
  <1>2. FreedEvent(x) \in Events /\ DOMAIN FreedEvent(x).seats = {x}
    BY <1>1, EventIsEvent DEF FreedEvent
  <1>3. ~Still(x)
    BY DEF Expire, Still, IInv, TypeOK
  <1>4. QED BY <1>2, <1>3 DEF Telling, Events

\* An inbox holds messages of a kind, if only such are published.
LEMMA InboxSteps ==
    ASSUME NEW S, LiveTypeOK, LiveStep, NEW k \in Subscriptions, inbox[k] \in Seq(S),
           \A r \in Requests : pc[r] \in {"publishHeld", "publishBooked"} => EventOf(r) \in S,
           \A x \in Seats : Expire(x) => FreedEvent(x) \in S
    PROVE  inbox'[k] \in Seq(S)
  <1>1. ASSUME NEW channel, NEW m \in S, Publish(channel, m) PROVE inbox'[k] \in Seq(S)
    BY <1>1, QueueSteps DEF Publish
  <1>2. ASSUME NEW r \in Requests, Receives(r) \/ HandlerGoesOn(r) \/ HandlerFault(r)
        PROVE  inbox'[k] \in Seq(S)
    <2>1. CASE UNCHANGED feed
      BY <2>1 DEF feed
    <2>2. CASE Announce(r) \/ AnnounceAgain(r)
      <3>1. EventOf(r) \in S
        BY <2>2 DEF Announce, AnnounceAgain, PublishHeld, PublishBooked, PublishReplyLost
      <3>2. QED BY <1>1, <2>2, <3>1 DEF Announce, AnnounceAgain
    <2>3. QED BY <1>2, <2>1, <2>2 DEF Receives, HandlerGoesOn, HandlerFault
  <1>3. ASSUME NEW x \in Seats, HoldExpires(x) PROVE inbox'[k] \in Seq(S)
    BY <1>1, <1>3 DEF HoldExpires
  <1>4. ASSUME NEW j \in Subscriptions, Subscribe(j) \/ LoseSubscription(j) \/ Deliver(j)
        PROVE  inbox'[k] \in Seq(S)
    <2>1. CASE Subscribe(j)
      BY <2>1 DEF Subscribe
    <2>2. CASE LoseSubscription(j)
      <3>1. PICK n \in 0 .. Len(inbox[j]) : inbox' = [inbox EXCEPT ![j] = SubSeq(@, 1, n)]
        BY <2>2 DEF LoseSubscription
      <3>2. j = k => inbox'[k] = SubSeq(inbox[k], 1, n) /\ n \in 0 .. Len(inbox[k])
        BY <3>1 DEF LiveTypeOK
      <3>3. j # k => inbox'[k] = inbox[k]
        BY <3>1 DEF LiveTypeOK
      <3>4. QED BY <3>2, <3>3, QueueSteps
    <2>3. CASE Deliver(j)
      BY <2>3, QueueSteps DEF Deliver, LiveTypeOK
    <2>4. QED BY <1>4, <2>1, <2>2, <2>3
  <1>5. ASSUME NEW i \in Instances, InstanceStep(i) PROVE inbox'[k] \in Seq(S)
    <2>1. <<>> \in Seq(S)
      OBVIOUS
    <2>2. QED
      BY <1>5, <2>1 DEF InstanceStep, InstanceDies, InstanceStops, InstanceExits, feed
  <1>6. CASE RedisRestarts
    BY <1>6 DEF RedisRestarts
  <1>7. ASSUME NEW v \in Browsers, BrowserStep(v) PROVE inbox'[k] \in Seq(S)
    BY <1>7 DEF BrowserStep, Connect, ReadBookings, ReadHold, ReadHoldsFails,
                ReadBookingsFails, SendSnapshot, Receive, LinkBreaks, feed
  <1>8. QED
    BY <1>2, <1>3, <1>4, <1>5, <1>6, <1>7 DEF LiveStep, SystemStep

LEMMA EventsOnlyKept ==
    ASSUME LiveTypeOK, LiveTypeOK', IInv, EventsOnly, LiveStep
    PROVE  EventsOnly'
  <1>1. \A r \in Requests : pc[r] \in {"publishHeld", "publishBooked"} => EventOf(r) \in Events
    BY AnnouncedTells
  <1>2. \A x \in Seats : Expire(x) => FreedEvent(x) \in Events
    BY FreedTells
  <1>3. \A k \in Subscriptions : inbox[k] \in Seq(Events)
    BY DEF EventsOnly
  <1>4. \A k \in Subscriptions : inbox'[k] \in Seq(Events)
    BY <1>1, <1>2, <1>3, InboxSteps
  <1>5. QED BY <1>4 DEF EventsOnly, Events, LiveTypeOK

\* A grant changes the hold, so no announcement of a hold begins unnoticed.
LEMMA QuietKept ==
    ASSUME LiveTypeOK, IInv, IInv', EventsOnly, LiveStep, Next \/ UNCHANGED vars,
           NEW s \in Seats, Still(s), Quiet(s)
    PROVE  Quiet(s)'
  <1>1. ASSUME NEW q \in Requests, q.seat = s PROVE pc'[q] # "publishHeld"
    <2>1. SUFFICES ASSUME pc'[q] = "publishHeld" PROVE FALSE
      OBVIOUS
    <2>2. pc[q] # "publishHeld"
      BY <1>1 DEF Quiet
    <2>3. TryHold(q) /\ HoldResult(q) = "publishHeld"
      BY <2>1, <2>2, HoldLeadsToPublish
    <2>4. hold[s] = None /\ hold'[s] = q.session
      BY <1>1, <2>3 DEF TryHold, HoldResult, HoldScript, IInv, TypeOK
    <2>5. QED BY <2>4, RequestFields DEF Still
  <1>2. \A r \in Requests : pc[r] \in {"publishHeld", "publishBooked"} => EventOf(r) \in Telling(s)
    BY AnnouncedTells
  <1>3. \A x \in Seats : Expire(x) => FreedEvent(x) \in Telling(s)
    BY FreedTells
  <1>4. \A k \in Subscriptions : inbox[k] \in Seq(Telling(s))
    BY DEF Quiet
  <1>5. \A k \in Subscriptions : inbox'[k] \in Seq(Telling(s))
    BY <1>2, <1>3, <1>4, InboxSteps
  <1>6. Telling(s)' = Telling(s)
    BY TellingStays DEF IInv, StoresAgree
  <1>7. QED BY <1>1, <1>5, <1>6 DEF Quiet

\* Nothing about the seat is under way when the history begins.
LEMMA SettledIsQuiet ==
    ASSUME EventsOnly, NEW s \in Seats, Settled(s)
    PROVE  Quiet(s)
  <1>1. ASSUME NEW k \in Subscriptions PROVE inbox[k] \in Seq(Telling(s))
    <2>1. inbox[k] \in Seq(Events)
      BY DEF EventsOnly
    <2>2. \A n \in 1 .. Len(inbox[k]) : inbox[k][n] \in Telling(s)
      BY <2>1 DEF Settled, Telling, Events
    <2>3. QED BY <2>1, <2>2
  <1>2. QED BY <1>1 DEF Quiet, Settled

-----------------------------------------------------------------------------
(* What the browser has and is sent.                                       *)

LEMMA SnapshotInQueue ==
    ASSUME NEW q \in Seq(Messages), NEW m \in Messages
    PROVE  /\ HasSnapshot(q) \/ m.type = "snapshot" => HasSnapshot(Append(q, m))
           /\ HasSnapshot(q) => Head(q).type = "snapshot" \/ HasSnapshot(Tail(q))
  <1>1. ASSUME HasSnapshot(q) PROVE HasSnapshot(Append(q, m))
    BY <1>1 DEF HasSnapshot
  <1>2. ASSUME m.type = "snapshot" PROVE HasSnapshot(Append(q, m))
    <2>1. Len(q) + 1 \in 1 .. Len(Append(q, m)) /\ Append(q, m)[Len(q) + 1] = m
      OBVIOUS
    <2>2. QED BY <1>2, <2>1 DEF HasSnapshot
  <1>3. ASSUME HasSnapshot(q), Head(q).type # "snapshot" PROVE HasSnapshot(Tail(q))
    <2>1. PICK n \in 1 .. Len(q) : q[n].type = "snapshot"
      BY <1>3 DEF HasSnapshot
    <2>2. n # 1
      BY <1>3, <2>1
    <2>3. n - 1 \in 1 .. Len(Tail(q)) /\ Tail(q)[n - 1] = q[n]
      BY <2>1, <2>2
    <2>4. QED BY <2>1, <2>3 DEF HasSnapshot
  <1>4. QED BY <1>1, <1>2, <1>3

\* Nothing of v moves.
LEMMA FollowingStays ==
    ASSUME NoDoubleBooking, NoDoubleBooking', NEW v, NEW s \in Seats, Still(s),
           Following(v, s),
           serve'[v] = serve[v], snapshot'[v] = snapshot[v],
           queue'[v] = queue[v], view'[v] = view[v]
    PROVE  Following(v, s)'
  <1>1. (Sold(s)' <=> Sold(s)) /\ Truth(s)' = Truth(s)
    BY TruthStays
  <1>2. Fitting(v, s)' = Fitting(v, s)
    BY <1>1 DEF Fitting, Right
  <1>3. QED
    BY <1>1, <1>2 DEF Following, Reading, Shown, Right, HasSnapshot

\* The steps of everybody else leave v alone, unless they end its connection.
LEMMA OthersLeaveAlone ==
    ASSUME LiveTypeOK, LiveStep, NEW v \in Browsers, at'[v] # None,
           ~BrowserStep(v), \A k \in Subscriptions : ~Deliver(k)
    PROVE  /\ serve'[v] = serve[v] /\ snapshot'[v] = snapshot[v]
           /\ queue'[v] = queue[v] /\ view'[v] = view[v]
  <1> DEFINE Alone == /\ serve'[v] = serve[v] /\ snapshot'[v] = snapshot[v]
                      /\ queue'[v] = queue[v] /\ view'[v] = view[v]
  <1>1. ASSUME NEW r \in Requests, Receives(r) \/ HandlerGoesOn(r) \/ HandlerFault(r)
        PROVE  Alone
    BY <1>1 DEF Receives, HandlerGoesOn, HandlerFault, Announce, AnnounceAgain, browser
  <1>2. ASSUME NEW x \in Seats, HoldExpires(x) PROVE Alone
    BY <1>2 DEF HoldExpires, browser
  <1>3. ASSUME NEW k \in Subscriptions, Subscribe(k) \/ LoseSubscription(k) PROVE Alone
    BY <1>3 DEF Subscribe, LoseSubscription, browser
  <1>4. ASSUME NEW gone, Disconnect(gone) PROVE Alone
    BY <1>4 DEF Disconnect
  <1>5. ASSUME NEW i \in Instances, InstanceStep(i) PROVE Alone
    BY <1>4, <1>5 DEF InstanceStep, InstanceDies, InstanceStops, InstanceExits, browser
  <1>6. CASE RedisRestarts
    BY <1>6 DEF RedisRestarts, browser
  <1>7. ASSUME NEW w \in Browsers, w # v, BrowserStep(w) PROVE Alone
    <2>1. CASE LinkBreaks(w)
      BY <1>4, <2>1 DEF LinkBreaks
    <2>2. CASE ~LinkBreaks(w)
      BY <1>7, <2>2 DEF BrowserStep, Connect, ReadBookings, ReadHold, ReadHoldsFails,
                        ReadBookingsFails, SendSnapshot, Receive, LiveTypeOK
    <2>3. QED BY <2>1, <2>2
  <1>8. QED
    BY <1>1, <1>2, <1>3, <1>5, <1>6, <1>7 DEF LiveStep, SystemStep

\* An event that tells the truth is added to the queue.
LEMMA DeliverFollows ==
    ASSUME LiveTypeOK, EventsOnly, NoDoubleBooking, NoDoubleBooking',
           NEW k \in Subscriptions, Deliver(k),
           NEW v \in Browsers, at'[v] # None,
           NEW s \in Seats, Still(s), Quiet(s), Following(v, s)
    PROVE  Following(v, s)'
  <1>1. CASE at[v] # k[1]
    BY <1>1, FollowingStays DEF Deliver, Broadcast, LiveTypeOK
  <1>2. CASE at[v] = k[1]
    <2> DEFINE m == Head(inbox[k])
    <2>1. HasRoom(v) /\ queue'[v] = Append(queue[v], m)
      BY <1>2 DEF Deliver, Broadcast, LiveTypeOK
    <2>2. inbox[k] # <<>> /\ inbox[k] \in Seq(Events) /\ inbox[k] \in Seq(Telling(s))
      BY DEF Deliver, EventsOnly, Quiet
    <2>3. m \in Events /\ m \in Telling(s)
      BY <2>2, QueueSteps
    <2>4. m \in Fitting(v, s)
      BY <2>3 DEF Fitting, Events, Telling, Right
    <2>5. Append(queue[v], m) \in Seq(Fitting(v, s))
      BY <2>4, QueueSteps DEF Following
    <2>6. /\ serve'[v] = serve[v] /\ snapshot'[v] = snapshot[v] /\ view'[v] = view[v]
      BY DEF Deliver
    <2>7. (Sold(s)' <=> Sold(s)) /\ Truth(s)' = Truth(s)
      BY TruthStays
    <2>8. Fitting(v, s)' = Fitting(v, s)
      BY <2>6, <2>7 DEF Fitting, Right
    <2>9. HasSnapshot(queue[v]) => HasSnapshot(queue'[v])
      <3>1. queue[v] \in Seq(Messages) /\ m \in Messages
        BY <2>3 DEF LiveTypeOK, Events
      <3>2. QED BY <2>1, <3>1, SnapshotInQueue
    <2>10. Shown(v, s)'
      BY <2>6, <2>7, <2>9 DEF Following, Shown, Right, HasSnapshot
    <2>11. Reading(v, s)'
      BY <2>6, <2>7 DEF Following, Reading
    <2>12. QED
      BY <2>1, <2>5, <2>8, <2>10, <2>11 DEF Following
  <1>3. QED BY <1>1, <1>2

\* Each stage of the snapshot, and each message applied.
LEMMA BrowserFollows ==
    ASSUME LiveInv, NEW v \in Browsers, BrowserStep(v), at[v] # None, at'[v] # None,
           NEW s \in Seats, Following(v, s)
    PROVE  Following(v, s)'
  <1> USE DEF LiveTypeOK
  <1>1. LiveTypeOK /\ TypeOK /\ NoDoubleBooking
    BY DEF LiveInv, IInv, StoresAgree
  <1>2. UNCHANGED vars
    BY DEF BrowserStep, Connect, ReadBookings, ReadHold, ReadHoldsFails,
           ReadBookingsFails, SendSnapshot, Receive, LinkBreaks
  <1>3. (Sold(s)' <=> Sold(s)) /\ Truth(s)' = Truth(s)
    BY <1>2 DEF vars, redis, Sold, Truth, StateOfHold, OwnerOf
  <1>4. queue[v] \in Seq(Fitting(v, s)) /\ queue[v] \in Seq(Messages)
    BY <1>1 DEF Following
  <1>5. ASSUME serve'[v] = serve[v] \/ "sentDegraded" \notin {serve[v], serve'[v]}
        PROVE  /\ \A state : Right(v, s, state)' <=> Right(v, s, state)
               /\ Fitting(v, s)' = Fitting(v, s)
    BY <1>3, <1>5 DEF Fitting, Right
  <1>6. ASSUME serve[v] \notin {"sent", "sentDegraded"}, serve'[v] \notin {"sent", "sentDegraded"},
               queue'[v] = queue[v], Reading(v, s)'
        PROVE  Following(v, s)'
    <2>1. queue'[v] \in Seq(Fitting(v, s)')
      BY <1>4, <1>5, <1>6
    <2>2. Shown(v, s)'
      BY <1>6 DEF Shown
    <2>3. QED BY <1>6, <2>1, <2>2 DEF Following
  <1>7. CASE ReadBookings(v)
    <2>1. /\ serve[v] = "loading" /\ serve'[v] = "scanning" /\ queue'[v] = queue[v]
          /\ snapshot'[v] = [x \in {y \in Seats : Sold(y)} |-> Booked(OwnerOf(x))]
      BY <1>1, <1>7 DEF ReadBookings
    <2>2. Reading(v, s)'
      BY <1>3, <2>1 DEF Reading, Truth
    <2>3. QED BY <1>6, <2>1, <2>2
  <1>8. ASSUME NEW x \in Seats, ReadHold(v, x) PROVE Following(v, s)'
    <2>1. /\ serve[v] = "scanning" /\ serve' = serve /\ queue' = queue
          /\ x \notin DOMAIN snapshot[v]
          /\ DOMAIN snapshot'[v] = DOMAIN snapshot[v] \cup {x}
          /\ s \in DOMAIN snapshot'[v] =>
                snapshot'[v][s] = IF s = x THEN StateOfHold(x) ELSE snapshot[v][s]
      BY <1>1, <1>8 DEF ReadHold
    <2>2. s = x => ~Sold(s) /\ StateOfHold(x) = Truth(s)
      BY <2>1 DEF Following, Reading, Truth
    <2>3. Reading(v, s)'
      BY <1>3, <2>1, <2>2 DEF Following, Reading
    <2>4. QED BY <1>6, <2>1, <2>3
  <1>9. CASE ReadHoldsFails(v)
    <2>1. /\ serve[v] = "scanning" /\ serve'[v] = "degraded" /\ queue' = queue
          /\ DOMAIN snapshot'[v] = Seats
          /\ snapshot'[v][s] = IF s \in DOMAIN snapshot[v] /\ snapshot[v][s].status = "booked"
                               THEN snapshot[v][s] ELSE Open
      BY <1>1, <1>9 DEF ReadHoldsFails
    <2>2. Sold(s) => s \in DOMAIN snapshot[v] /\ snapshot[v][s] = Truth(s)
      BY <2>1 DEF Following, Reading
    <2>3. Sold(s) => snapshot'[v][s] = Truth(s)
      BY <2>1, <2>2 DEF Truth, Booked
    <2>4. Reading(v, s)'
      BY <1>3, <2>1, <2>3 DEF Reading
    <2>5. QED BY <1>6, <2>1, <2>4
  <1>10. CASE ReadBookingsFails(v)
    <2>1. serve[v] = "loading" /\ serve'[v] = "without" /\ snapshot' = snapshot /\ queue' = queue
      BY <1>1, <1>10 DEF ReadBookingsFails
    <2>2. Reading(v, s)'
      BY <2>1 DEF Reading
    <2>3. QED BY <1>6, <2>1, <2>2
  <1>11. CASE SendSnapshot(v)
    <2> DEFINE m == Message("snapshot", snapshot[v])
    <2>1. /\ serve[v] \in {"scanning", "degraded"} /\ DOMAIN snapshot[v] = Seats
          /\ snapshot'[v] = Nothing
      BY <1>1, <1>11 DEF SendSnapshot
    <2>2. Reading(v, s)'
      BY <1>1, <1>11, <2>1 DEF SendSnapshot, Reading, Nothing
    <2>3. CASE serve'[v] = "without"
      <3>1. queue'[v] = queue[v]
        BY <1>1, <1>11, <2>3 DEF SendSnapshot
      <3>2. QED BY <1>6, <2>1, <2>2, <2>3, <3>1
    <2>4. CASE serve'[v] # "without"
      <3>1. /\ queue'[v] = Append(queue[v], m)
            /\ serve'[v] = IF serve[v] = "scanning" THEN "sent" ELSE "sentDegraded"
        BY <1>1, <1>11, <2>4 DEF SendSnapshot
      <3>2. m \in Messages /\ m.type = "snapshot" /\ m.seats = snapshot[v]
        BY <1>1 DEF Message, Messages
      <3>3. Fitting(v, s) \subseteq Fitting(v, s)'
        BY <1>3, <2>1 DEF Fitting, Right
      <3>4. m \in Fitting(v, s)'
        BY <1>3, <2>1, <3>1, <3>2 DEF Fitting, Right, Following, Reading
      <3>5. queue'[v] \in Seq(Fitting(v, s)')
        BY <1>4, <3>1, <3>3, <3>4, SeqGrows, QueueSteps
      <3>6. HasSnapshot(queue'[v])
        BY <1>4, <3>1, <3>2, SnapshotInQueue
      <3>7. Shown(v, s)'
        BY <3>6 DEF Shown, HasSnapshot
      <3>8. QED BY <2>2, <3>5, <3>7 DEF Following
    <2>5. QED BY <2>3, <2>4
  <1>12. CASE Receive(v)
    <2> DEFINE m == Head(queue[v])
    <2>1. /\ queue[v] # <<>> /\ queue'[v] = Tail(queue[v])
          /\ serve' = serve /\ snapshot' = snapshot
          /\ view'[v] = Apply(m, view[v])
      BY <1>1, <1>12 DEF Receive
    <2>2. m \in Fitting(v, s) /\ m \in Messages /\ Tail(queue[v]) \in Seq(Fitting(v, s))
      BY <1>4, <2>1, QueueSteps
    <2>3. view'[v][s] = IF s \in DOMAIN m.seats THEN m.seats[s] ELSE view[v][s]
      BY <2>1 DEF Apply
    <2>4. \/ ~(serve[v] \in {"sent", "sentDegraded"})
          \/ HasSnapshot(queue'[v])
          \/ Right(v, s, view'[v][s])
      <3>1. CASE HasSnapshot(queue[v]) /\ m.type = "snapshot"
        BY <2>2, <2>3, <3>1 DEF Fitting
      <3>2. CASE HasSnapshot(queue[v]) /\ m.type # "snapshot"
        BY <1>4, <2>1, <2>2, <3>2, SnapshotInQueue
      <3>3. CASE ~HasSnapshot(queue[v])
        BY <2>2, <2>3, <3>3 DEF Fitting, Following, Shown
      <3>4. QED BY <3>1, <3>2, <3>3
    <2>5. Shown(v, s)'
      BY <1>3, <2>1, <2>4 DEF Shown, Right, HasSnapshot
    <2>6. Reading(v, s)'
      BY <1>3, <2>1 DEF Following, Reading
    <2>7. QED BY <1>5, <2>1, <2>2, <2>5, <2>6 DEF Following
  <1>13. CASE LinkBreaks(v)
    BY <1>13 DEF LinkBreaks, Disconnect
  <1>14. ASSUME NEW i \in Instances, Connect(v, i) PROVE Following(v, s)'
    BY <1>14 DEF Connect
  <1>15. QED
    BY <1>7, <1>8, <1>9, <1>10, <1>11, <1>12, <1>13, <1>14 DEF BrowserStep

-----------------------------------------------------------------------------
(* The invariant is inductive.                                             *)

\* Only a connection begins a history.
LEMMA OnlyConnects ==
    ASSUME LiveTypeOK, LiveStep, NEW v \in Browsers, at[v] = None, at'[v] # None
    PROVE  \E i \in Instances : Connect(v, i)
  <1>1. ASSUME NEW gone, Disconnect(gone) PROVE at'[v] = None
    BY <1>1 DEF Disconnect
  <1>2. ASSUME NEW r \in Requests PROVE ~(Receives(r) \/ HandlerGoesOn(r) \/ HandlerFault(r))
    BY DEF Receives, HandlerGoesOn, HandlerFault, Announce, AnnounceAgain, browser
  <1>3. ASSUME NEW x \in Seats PROVE ~HoldExpires(x)
    BY DEF HoldExpires, browser
  <1>4. ASSUME NEW k \in Subscriptions PROVE ~(Subscribe(k) \/ LoseSubscription(k) \/ Deliver(k))
    BY DEF Subscribe, LoseSubscription, Deliver, Broadcast, browser
  <1>5. ASSUME NEW i \in Instances PROVE ~InstanceStep(i)
    BY <1>1 DEF InstanceStep, InstanceDies, InstanceStops, InstanceExits, browser
  <1>6. ~RedisRestarts
    BY DEF RedisRestarts, browser
  <1>7. PICK w \in Browsers : BrowserStep(w)
    BY <1>2, <1>3, <1>4, <1>5, <1>6 DEF LiveStep, SystemStep
  <1>8. ~LinkBreaks(w)
    BY <1>1 DEF LinkBreaks
  <1>9. QED
    BY <1>7, <1>8 DEF BrowserStep, Connect, ReadBookings, ReadHold, ReadHoldsFails,
                      ReadBookingsFails, SendSnapshot, Receive, LiveTypeOK

\* A connection starts with an empty queue and without a snapshot.
LEMMA ConnectFollows ==
    ASSUME LiveTypeOK, NEW v \in Browsers, NEW i \in Instances, Connect(v, i), NEW s
    PROVE  Following(v, s)'
  <1>1. queue'[v] = <<>> /\ serve'[v] = "loading"
    BY DEF Connect, LiveTypeOK
  <1>2. QED BY <1>1 DEF Following, Reading, Shown

LEMMA InitResync == LiveInit => ResyncInv
  BY DEF LiveInit, ResyncInv, EventsOnly

LEMMA NextResync ==
    ASSUME LiveInv, LiveInv', ResyncInv, [LiveNext]_liveVars
    PROVE  ResyncInv'
  <1>1. /\ LiveTypeOK /\ LiveTypeOK' /\ IInv /\ IInv'
        /\ NoDoubleBooking /\ NoDoubleBooking'
    BY DEF LiveInv, IInv, StoresAgree
  <1>2. CASE UNCHANGED liveVars
    <2>1. /\ \A s : Still(s)
          /\ UNCHANGED <<pc, inbox, serve, snapshot, queue, view, undisturbed>>
      BY <1>2 DEF liveVars, vars, redis, lives, history, feed, browser, Still, Rows
    <2>2. EventsOnly'
      BY <2>1 DEF ResyncInv, EventsOnly, Events
    <2>3. ASSUME NEW v \in Browsers, NEW s \in undisturbed[v]
          PROVE  Quiet(s)' /\ Following(v, s)'
      <3>1. s \in Seats /\ Quiet(s) /\ Following(v, s)
        BY <1>1 DEF ResyncInv, LiveTypeOK
      <3>2. Following(v, s)'
        BY <1>1, <2>1, <3>1, FollowingStays
      <3>3. Quiet(s)'
        BY <1>1, <2>1, <3>1, TellingStays DEF Quiet
      <3>4. QED BY <3>2, <3>3
    <2>4. QED BY <2>1, <2>2, <2>3 DEF ResyncInv
  <1>3. CASE LiveNext
    <2>1. LiveStep /\ (Next \/ UNCHANGED vars)
      BY <1>3, LiveStepIsBooking DEF LiveNext
    <2>2. EventsOnly /\ EventsOnly'
      BY <1>1, <2>1, EventsOnlyKept DEF ResyncInv
    <2>3. ASSUME NEW v \in Browsers, NEW s \in undisturbed'[v]
          PROVE  Quiet(s)' /\ Following(v, s)'
      <3>1. /\ s \in Seats /\ at'[v] # None /\ Still(s)
            /\ IF at[v] = None THEN Settled(s) ELSE s \in undisturbed[v]
        BY <1>3 DEF LiveNext, TrackUndisturbed, Still
      <3>2. Quiet(s)
        BY <2>2, <3>1, SettledIsQuiet DEF ResyncInv
      <3>3. Quiet(s)'
        BY <1>1, <2>1, <2>2, <3>1, <3>2, QuietKept
      <3>4. CASE at[v] = None
        <4>1. PICK i \in Instances : Connect(v, i)
          BY <1>1, <2>1, <3>1, <3>4, OnlyConnects
        <4>2. QED BY <1>1, <3>3, <4>1, ConnectFollows
      <3>5. CASE at[v] # None
        <4>1. Following(v, s)
          BY <3>1, <3>5 DEF ResyncInv
        <4>2. CASE BrowserStep(v)
          BY <3>1, <3>3, <3>5, <4>1, <4>2, BrowserFollows
        <4>3. ASSUME NEW k \in Subscriptions, Deliver(k) PROVE Following(v, s)'
          BY <1>1, <2>2, <3>1, <3>2, <4>1, <4>3, DeliverFollows
        <4>4. CASE ~BrowserStep(v) /\ \A k \in Subscriptions : ~Deliver(k)
          BY <1>1, <2>1, <3>1, <3>3, <4>1, <4>4, OthersLeaveAlone, FollowingStays
        <4>5. QED BY <3>3, <4>2, <4>3, <4>4
      <3>6. QED BY <3>4, <3>5
    <2>4. QED BY <2>2, <2>3 DEF ResyncInv
  <1>4. QED BY <1>2, <1>3

\* While a browser follows the feed, whatever is under way about a seat nothing
\* happened to, and each part of its snapshot, is what the stores say of it.
THEOREM ResyncInvariance == LiveSpec => []ResyncInv
  <1>1. LiveInv /\ LiveInv' /\ ResyncInv /\ [LiveNext]_liveVars => ResyncInv'
    BY NextResync
  <1>2. QED BY <1>1, InitResync, LiveInvariance, PTL DEF LiveSpec

\* "so a dropped-and-restored connection always resyncs to the truth"
\* (useSeatSocket.ts): the snapshot sent on a new connection, however it is
\* overtaken by events, leaves the browser with what the stores say.
THEOREM ConnectionsResync == LiveSpec => []ResyncExact
  <1>1. ResyncInv => ResyncExact
    <2> SUFFICES ASSUME ResyncInv, NEW v \in Browsers, at[v] # None, queue[v] = <<>>,
                        NEW s \in undisturbed[v],
                        serve[v] \in {"sent", "sentDegraded"}
                 PROVE  Right(v, s, view[v][s])
      BY DEF ResyncExact, Right
    <2>1. ~HasSnapshot(queue[v])
      BY DEF HasSnapshot
    <2>2. QED BY <2>1 DEF ResyncInv, Following, Shown
  <1>2. QED BY <1>1, ResyncInvariance, PTL
=============================================================================
