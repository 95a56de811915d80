---------------------------- MODULE DeliveryProofs ----------------------------
(***************************************************************************)
(* The safety half of SalesReachWatchers and HoldsReachTheirTab, for every *)
(* number of browsers, instances and seats, any buffer and any faults: a   *)
(* seller that goes on publishes its sale, an event that was published is  *)
(* on its way to each browser of a subscribed instance until it is applied *)
(* or the browser is cut off, and it moves up with each delivery and read. *)
(* And what comes after it: nothing younger than a sale takes it back.     *)
(***************************************************************************)
EXTENDS ResyncProofs

-----------------------------------------------------------------------------
(* Queues that carry an event.                                             *)

\* Among the first n messages there is one that says so.
Within(n, messages, s, state) ==
    \E m \in 1 .. Len(messages) : m <= n /\ Tells(messages[m], s, state)

\* A queue is added to at its end only.
Grows(old, new) == new = old \/ \E m \in Messages : new = Append(old, m)

LEMMA CarriesIsWithin ==
    ASSUME NEW q \in Seq(Messages), NEW s, NEW state
    PROVE  /\ \A n : Within(n, q, s, state) => Carries(q, s, state)
           /\ Carries(q, s, state) => \E n \in Nat : Within(n, q, s, state)
  BY DEF Carries, Within

LEMMA WithinGrowing ==
    ASSUME NEW q \in Seq(Messages), NEW p, Grows(q, p), NEW n \in Nat, NEW s, NEW state,
           Within(n, q, s, state)
    PROVE  Within(n, p, s, state)
  <1>1. CASE p = q
    BY <1>1
  <1>2. ASSUME NEW m \in Messages, p = Append(q, m) PROVE Within(n, p, s, state)
    <2>1. \A l \in 1 .. Len(q) : l \in 1 .. Len(p) /\ p[l] = q[l]
      BY <1>2
    <2>2. QED BY <2>1 DEF Within
  <1>3. QED BY <1>1, <1>2 DEF Grows

LEMMA Appended ==
    ASSUME NEW q \in Seq(Messages), NEW m \in Messages, NEW s, NEW state, Tells(m, s, state)
    PROVE  Carries(Append(q, m), s, state)
  <1>1. Len(q) + 1 \in 1 .. Len(Append(q, m)) /\ Append(q, m)[Len(q) + 1] = m
    OBVIOUS
  <1>2. QED BY <1>1 DEF Carries

\* A message that is taken from the front lets the others move up.
LEMMA WithinTail ==
    ASSUME NEW q \in Seq(Messages), NEW n \in Nat, NEW s, NEW state,
           Within(n, q, s, state), ~Tells(Head(q), s, state)
    PROVE  Within(n - 1, Tail(q), s, state)
  <1>1. PICK m \in 1 .. Len(q) : m <= n /\ Tells(q[m], s, state)
    BY DEF Within
  <1>2. m # 1
    BY <1>1
  <1>3. m - 1 \in 1 .. Len(Tail(q)) /\ Tail(q)[m - 1] = q[m] /\ m - 1 <= n - 1
    BY <1>1, <1>2
  <1>4. QED BY <1>1, <1>3 DEF Within

-----------------------------------------------------------------------------
(* The subscription a browser depends on.                                  *)

\* No step moves a connection from one instance to another.
LEMMA ConnectionsStay ==
    ASSUME LiveTypeOK, LiveStep, NEW v \in Browsers, at[v] # None
    PROVE  at'[v] \in {at[v], None}
  <1>1. ASSUME NEW gone, Disconnect(gone) PROVE at'[v] \in {at[v], None}
    BY <1>1 DEF Disconnect
  <1>2. ASSUME NEW r \in Requests, Receives(r) \/ HandlerGoesOn(r) \/ HandlerFault(r)
        PROVE  at' = at
    BY <1>2 DEF Receives, HandlerGoesOn, HandlerFault, Announce, AnnounceAgain, browser
  <1>3. ASSUME NEW x \in Seats, HoldExpires(x) PROVE at' = at
    BY <1>3 DEF HoldExpires, browser
  <1>4. ASSUME NEW k \in Subscriptions, Subscribe(k) \/ LoseSubscription(k) \/ Deliver(k)
        PROVE  at'[v] \in {at[v], None}
    BY <1>4 DEF Subscribe, LoseSubscription, Deliver, Broadcast, browser
  <1>5. ASSUME NEW i \in Instances, InstanceStep(i) PROVE at'[v] \in {at[v], None}
    BY <1>1, <1>5 DEF InstanceStep, InstanceDies, InstanceStops, InstanceExits, browser
  <1>6. ASSUME RedisRestarts PROVE at' = at
    BY <1>6 DEF RedisRestarts, browser
  <1>7. ASSUME NEW w \in Browsers, BrowserStep(w) PROVE at'[v] \in {at[v], None}
    <2>1. CASE LinkBreaks(w)
      BY <1>1, <2>1 DEF LinkBreaks
    <2>2. ASSUME NEW i \in Instances, Connect(w, i) PROVE at'[v] = at[v]
      BY <2>2 DEF Connect, LiveTypeOK
    <2>3. CASE ~LinkBreaks(w) /\ \A i \in Instances : ~Connect(w, i)
      BY <1>7, <2>3 DEF BrowserStep, ReadBookings, ReadHold, ReadHoldsFails,
                        ReadBookingsFails, SendSnapshot, Receive
    <2>4. QED BY <2>1, <2>2, <2>3
  <1>8. QED
    BY <1>2, <1>3, <1>4, <1>5, <1>6, <1>7 DEF LiveStep, SystemStep

\* Nothing is taken from an inbox whose subscription lasts, but by delivery.
LEMMA InboxGrows ==
    ASSUME LiveTypeOK, IInv, LiveStep,
           NEW k \in Subscriptions, k \in subscribed, k \in subscribed', ~Deliver(k)
    PROVE  Grows(inbox[k], inbox'[k])
  <1> DEFINE Kept == Grows(inbox[k], inbox'[k])
  <1> USE DEF Grows
  <1>1. inbox[k] \in Seq(Messages)
    BY DEF LiveTypeOK
  <1>2. ASSUME NEW channel, NEW m \in Messages, Publish(channel, m) PROVE Kept
    BY <1>2 DEF Publish
  <1>3. ASSUME NEW r \in Requests, Receives(r) \/ HandlerGoesOn(r) \/ HandlerFault(r)
        PROVE  Kept
    <2>1. CASE UNCHANGED feed
      BY <2>1 DEF feed
    <2>2. CASE Announce(r) \/ AnnounceAgain(r)
      <3>1. pc[r] \in {"publishHeld", "publishBooked"}
        BY <2>2 DEF Announce, AnnounceAgain, PublishHeld, PublishBooked, PublishReplyLost
      <3>2. EventOf(r) \in Messages
        BY <3>1, AnnouncedTells DEF Events
      <3>3. QED BY <1>2, <2>2, <3>2 DEF Announce, AnnounceAgain
    <2>3. QED BY <1>3, <2>1, <2>2 DEF Receives, HandlerGoesOn, HandlerFault
  <1>4. ASSUME NEW x \in Seats, HoldExpires(x) PROVE Kept
    BY <1>2, <1>4, FreedTells DEF HoldExpires, Events
  <1>5. ASSUME NEW j \in Subscriptions, Subscribe(j) \/ LoseSubscription(j) \/ Deliver(j)
        PROVE  Kept
    BY <1>5 DEF Subscribe, LoseSubscription, Deliver, LiveTypeOK
  <1>6. ASSUME NEW i \in Instances, InstanceStep(i) PROVE Kept
    BY <1>6 DEF InstanceStep, InstanceDies, InstanceStops, InstanceExits, feed
  <1>7. CASE RedisRestarts
    BY <1>7 DEF RedisRestarts
  <1>8. ASSUME NEW w \in Browsers, BrowserStep(w) PROVE Kept
    BY <1>8 DEF BrowserStep, Connect, ReadBookings, ReadHold, ReadHoldsFails,
                ReadBookingsFails, SendSnapshot, Receive, LinkBreaks, feed
  <1>9. QED
    BY <1>3, <1>4, <1>5, <1>6, <1>7, <1>8 DEF LiveStep, SystemStep

\* A published event is put into the inbox of every subscribed instance.
LEMMA PublishedIsCarried ==
    ASSUME LiveTypeOK, IInv, NEW k \in Subscriptions, k \in subscribed,
           NEW s \in Seats, NEW state, IsPublished(k[2], s, state)
    PROVE  Carries(inbox'[k], s, state)
  <1>1. inbox[k] \in Seq(Messages)
    BY DEF LiveTypeOK
  <1>2. ASSUME NEW m \in Messages, Publish(k[2], m), Tells(m, s, state)
        PROVE  Carries(inbox'[k], s, state)
    <2>1. inbox'[k] = Append(inbox[k], m)
      BY <1>2 DEF Publish
    <2>2. QED BY <1>1, <1>2, <2>1, Appended
  <1>3. ASSUME NEW r \in Requests, r.seat = s, Announce(r) \/ AnnounceAgain(r),
               k[2] = "seatEvents", state = EventOf(r).seats[s]
        PROVE  Carries(inbox'[k], s, state)
    <2>1. pc[r] \in {"publishHeld", "publishBooked"} /\ Publish(k[2], EventOf(r))
      BY <1>3 DEF Announce, AnnounceAgain, PublishHeld, PublishBooked, PublishReplyLost
    <2>2. EventOf(r) \in Messages
      BY <2>1, AnnouncedTells DEF Events
    <2>3. s \in DOMAIN EventOf(r).seats
      BY <1>3, <2>1 DEF EventOf, HeldEvent, BookedEvent, Event, Message
    <2>4. QED BY <1>2, <1>3, <2>1, <2>2, <2>3 DEF Tells
  <1>4. ASSUME HoldExpires(s), k[2] = "expired", state = Open
        PROVE  Carries(inbox'[k], s, state)
    <2>1. Publish(k[2], FreedEvent(s)) /\ FreedEvent(s) \in Messages
      BY <1>4, FreedTells DEF HoldExpires, Events
    <2>2. Tells(FreedEvent(s), s, Open)
      BY DEF Tells, FreedEvent, Event, Message
    <2>3. QED BY <1>2, <1>4, <2>1, <2>2
  <1>5. QED BY <1>3, <1>4 DEF IsPublished

-----------------------------------------------------------------------------
(* The queue of a browser.                                                 *)

\* What an instance takes from an inbox it queues for each browser that stays:
\* one that has no room is dropped.
LEMMA Delivered ==
    ASSUME LiveTypeOK, NEW k \in Subscriptions, Deliver(k)
    PROVE  /\ inbox[k] \in Seq(Messages) /\ Head(inbox[k]) \in Messages
           /\ inbox'[k] = Tail(inbox[k])
           /\ \A v \in Browsers : at[v] # None /\ at'[v] # None =>
                 queue'[v] = IF at[v] = k[1] THEN Append(queue[v], Head(inbox[k]))
                             ELSE queue[v]
  <1>1. /\ inbox[k] \in Seq(Messages) /\ Head(inbox[k]) \in Messages
        /\ inbox'[k] = Tail(inbox[k])
    BY DEF Deliver, LiveTypeOK
  <1>2. QED BY <1>1 DEF Deliver, Broadcast, LiveTypeOK

\* Nothing is taken from the queue of a connection that lasts, but by the browser,
LEMMA QueueGrows ==
    ASSUME LiveTypeOK, LiveStep, NEW v \in Browsers, at[v] # None, at'[v] # None,
           ~Receive(v)
    PROVE  Grows(queue[v], queue'[v])
  <1> USE DEF Grows
  <1>1. ASSUME NEW k \in Subscriptions, Deliver(k) PROVE Grows(queue[v], queue'[v])
    BY <1>1, Delivered
  <1>2. CASE SendSnapshot(v)
    <2> DEFINE m == Message("snapshot", snapshot[v])
    <2>1. m \in Messages
      BY DEF Message, Messages, LiveTypeOK
    <2>2. queue'[v] \in {queue[v], Append(queue[v], m)}
      BY <1>2 DEF SendSnapshot, LiveTypeOK
    <2>3. QED BY <2>1, <2>2
  <1>3. CASE LinkBreaks(v)
    BY <1>3 DEF LinkBreaks, Disconnect
  <1>4. CASE BrowserStep(v) /\ ~SendSnapshot(v) /\ ~LinkBreaks(v)
    BY <1>4 DEF BrowserStep, Connect, ReadBookings, ReadHold, ReadHoldsFails,
                ReadBookingsFails
  <1>5. CASE ~BrowserStep(v) /\ \A k \in Subscriptions : ~Deliver(k)
    BY <1>5, OthersLeaveAlone
  <1>6. QED BY <1>1, <1>2, <1>3, <1>4, <1>5

\* ... and what the browser takes off its queue it shows.
LEMMA Received ==
    ASSUME LiveTypeOK, NEW v \in Browsers, Receive(v)
    PROVE  /\ queue'[v] = Tail(queue[v])
           /\ \A s \in Seats : \A state : Tells(Head(queue[v]), s, state) => view'[v][s] = state
  <1>1. view'[v] = Apply(Head(queue[v]), view[v])
    BY DEF Receive, LiveTypeOK
  <1>2. QED BY <1>1 DEF Receive, LiveTypeOK, Apply, Tells

-----------------------------------------------------------------------------
(* The way of an event.                                                    *)

\* Each step takes the events of a channel on their way, or leaves them where they
\* are: none falls back.
LEMMA EventsAdvance ==
    ASSUME LiveTypeOK, IInv, LiveStep,
           NEW k \in Subscriptions, k \in subscribed, k \in subscribed',
           NEW v \in Browsers, at[v] = k[1], at'[v] = k[1], k[1] # None,
           NEW s \in Seats, NEW state, NEW n \in Nat
    PROVE  /\ Within(n, inbox[k], s, state) =>
                 \/ Within(IF Deliver(k) THEN n - 1 ELSE n, inbox'[k], s, state)
                 \/ Deliver(k) /\ Carries(queue'[v], s, state)
           /\ Within(n, queue[v], s, state) =>
                 \/ Within(IF Receive(v) THEN n - 1 ELSE n, queue'[v], s, state)
                 \/ Receive(v) /\ view'[v][s] = state
  <1>1. inbox[k] \in Seq(Messages) /\ queue[v] \in Seq(Messages)
    BY DEF LiveTypeOK
  <1>2. ASSUME Deliver(k), Within(n, inbox[k], s, state)
        PROVE  Within(n - 1, inbox'[k], s, state) \/ Carries(queue'[v], s, state)
    <2>1. CASE Tells(Head(inbox[k]), s, state)
      BY <1>1, <1>2, <2>1, Delivered, Appended
    <2>2. CASE ~Tells(Head(inbox[k]), s, state)
      BY <1>1, <1>2, <2>2, Delivered, WithinTail
    <2>3. QED BY <2>1, <2>2
  <1>3. ASSUME ~Deliver(k), Within(n, inbox[k], s, state)
        PROVE  Within(n, inbox'[k], s, state)
    BY <1>1, <1>3, InboxGrows, WithinGrowing
  <1>4. ASSUME Receive(v), Within(n, queue[v], s, state)
        PROVE  Within(n - 1, queue'[v], s, state) \/ view'[v][s] = state
    BY <1>1, <1>4, Received, WithinTail
  <1>5. ASSUME ~Receive(v), Within(n, queue[v], s, state)
        PROVE  Within(n, queue'[v], s, state)
    BY <1>1, <1>5, QueueGrows, WithinGrowing
  <1>6. QED BY <1>2, <1>3, <1>4, <1>5

LEMMA OnTheWayKept ==
    ASSUME LiveTypeOK, LiveTypeOK', IInv, LiveStep,
           NEW v \in Browsers, NEW channel \in Channels, NEW s \in Seats, NEW state,
           Follows(v, channel), Follows(v, channel)',
           OnTheWay(v, channel, s, state) \/ IsPublished(channel, s, state)
    PROVE  OnTheWay(v, channel, s, state)' \/ view'[v][s] = state
  <1> DEFINE k == <<at[v], channel>>
  <1>1. /\ at'[v] = at[v] /\ at[v] # None /\ at'[v] # None
        /\ k \in subscribed /\ k \in subscribed'
    BY ConnectionsStay DEF Follows
  <1>2. k \in Subscriptions /\ k[1] = at[v] /\ k[2] = channel
    BY <1>1 DEF LiveTypeOK
  <1>3. OnTheWay(v, channel, s, state)' <=>
            Carries(inbox'[k], s, state) \/ Carries(queue'[v], s, state)
    BY <1>1 DEF OnTheWay, Carries, Tells
  <1>4. /\ inbox[k] \in Seq(Messages) /\ queue[v] \in Seq(Messages)
        /\ inbox'[k] \in Seq(Messages) /\ queue'[v] \in Seq(Messages)
    BY <1>2 DEF LiveTypeOK
  <1>5. CASE IsPublished(channel, s, state)
    BY <1>1, <1>2, <1>3, <1>5, PublishedIsCarried
  <1>6. CASE Carries(inbox[k], s, state)
    <2>1. PICK n \in Nat : Within(n, inbox[k], s, state)
      BY <1>4, <1>6, CarriesIsWithin
    <2>2. \/ \E l : Within(l, inbox'[k], s, state)
          \/ Carries(queue'[v], s, state)
      BY <1>1, <1>2, <2>1, EventsAdvance
    <2>3. QED BY <1>3, <1>4, <2>2, CarriesIsWithin
  <1>7. CASE Carries(queue[v], s, state)
    <2>1. PICK n \in Nat : Within(n, queue[v], s, state)
      BY <1>4, <1>7, CarriesIsWithin
    <2>2. \/ \E l : Within(l, queue'[v], s, state)
          \/ view'[v][s] = state
      BY <1>1, <1>2, <2>1, EventsAdvance
    <2>3. QED BY <1>3, <1>4, <2>2, CarriesIsWithin
  <1>8. QED BY <1>5, <1>6, <1>7 DEF OnTheWay

\* An event that was published is not lost on its way to a browser, unless the
\* browser is cut off and so told to resync: a slow client is dropped, never
\* skipped (Hub.Broadcast).
THEOREM EventsAreNotLost == LiveSpec => EventsStayOnTheWay
  <1> DEFINE Stays == \A v \in Browsers, channel \in Channels, s \in Seats,
                         state \in SeatStates :
                  /\ Follows(v, channel)
                  /\ OnTheWay(v, channel, s, state) \/ IsPublished(channel, s, state)
                  => \/ ~Follows(v, channel)'
                     \/ OnTheWay(v, channel, s, state)'
                     \/ view'[v][s] = state
  <1>1. ASSUME LiveInv, LiveTypeOK', [LiveNext]_liveVars PROVE [Stays]_liveVars
    <2>1. CASE LiveNext
      BY <1>1, <2>1, OnTheWayKept DEF LiveNext, LiveInv
    <2>2. CASE UNCHANGED liveVars
      BY <2>2
    <2>3. QED BY <1>1, <2>1, <2>2
  <1>2. LiveInv => LiveTypeOK
    BY DEF LiveInv
  <1>3. QED BY <1>1, <1>2, LiveInvariance, PTL DEF LiveSpec, EventsStayOnTheWay

\* How long it may take.  However much is published, queued or lost elsewhere in
\* the meantime, an event never falls back: each delivery of its subscription
\* brings it nearer to the browser's queue or into it, each message the browser
\* reads brings it nearer to the map or into it, and nothing else moves it.  As an
\* inbox is finite and a buffer bounded, this is all SalesReachWatchers and
\* HoldsReachTheirTab ask of the code, but for fairness.
EventsMoveUp ==
    [][\A v \in Browsers, channel \in Channels, s \in Seats, state \in SeatStates,
          n \in Nat :
          LET k == <<at[v], channel>>
          IN  Follows(v, channel) /\ Follows(v, channel)' =>
                /\ Within(n, inbox[k], s, state) =>
                      \/ Within(IF Deliver(k) THEN n - 1 ELSE n, inbox'[k], s, state)
                      \/ Deliver(k) /\ Carries(queue'[v], s, state)
                /\ Within(n, queue[v], s, state) =>
                      \/ Within(IF Receive(v) THEN n - 1 ELSE n, queue'[v], s, state)
                      \/ Receive(v) /\ view'[v][s] = state]_liveVars

\* An event reaches a connected browser after as many deliveries and reads as there
\* are messages in front of it: both the inbox and the buffer are first come,
\* first served.
THEOREM EventsArriveInBoundedSteps == LiveSpec => EventsMoveUp
  <1> DEFINE Moves ==
        \A v \in Browsers, channel \in Channels, s \in Seats, state \in SeatStates,
           n \in Nat :
          LET k == <<at[v], channel>>
          IN  Follows(v, channel) /\ Follows(v, channel)' =>
                /\ Within(n, inbox[k], s, state) =>
                      \/ Within(IF Deliver(k) THEN n - 1 ELSE n, inbox'[k], s, state)
                      \/ Deliver(k) /\ Carries(queue'[v], s, state)
                /\ Within(n, queue[v], s, state) =>
                      \/ Within(IF Receive(v) THEN n - 1 ELSE n, queue'[v], s, state)
                      \/ Receive(v) /\ view'[v][s] = state
  <1>1. ASSUME LiveInv, [LiveNext]_liveVars PROVE [Moves]_liveVars
    <2> SUFFICES ASSUME LiveNext, NEW v \in Browsers, NEW channel \in Channels,
                        NEW s \in Seats, NEW state \in SeatStates, NEW n \in Nat,
                        Follows(v, channel), Follows(v, channel)'
                 PROVE  LET k == <<at[v], channel>>
                        IN  /\ Within(n, inbox[k], s, state) =>
                                 \/ Within(IF Deliver(k) THEN n - 1 ELSE n, inbox'[k],
                                           s, state)
                                 \/ Deliver(k) /\ Carries(queue'[v], s, state)
                            /\ Within(n, queue[v], s, state) =>
                                 \/ Within(IF Receive(v) THEN n - 1 ELSE n, queue'[v],
                                           s, state)
                                 \/ Receive(v) /\ view'[v][s] = state
      BY <1>1
    <2> DEFINE k == <<at[v], channel>>
    <2>1. LiveTypeOK /\ IInv /\ LiveStep
      BY <1>1 DEF LiveInv, LiveNext
    <2>2. /\ at'[v] = at[v] /\ at[v] # None
          /\ k \in subscribed /\ k \in subscribed'
      BY <2>1, ConnectionsStay DEF Follows
    <2>3. k \in Subscriptions /\ k[1] = at[v]
      BY <2>1, <2>2 DEF LiveTypeOK
    <2>4. QED BY <2>1, <2>2, <2>3, EventsAdvance
  <1>2. QED BY <1>1, LiveInvariance, PTL DEF LiveSpec, EventsMoveUp

-----------------------------------------------------------------------------
(* How a sale gets out.                                                    *)

\* What a handler past the insert does next.
Sells(r) ==
    \/ pc'[r] = pc[r]
    \/ pc[r] = "markBooked" /\ pc'[r] = "publishBooked"
    \/ pc[r] = "publishBooked" /\ Announce(r)

LEMMA OnlyRepliesAreLost ==
    ASSUME IInv, SellersGoOn, NEW kind, Fault(kind)
    PROVE  kind = "lostReply"
  BY FaultsAssumption DEF IInv, TypeOK, SellersGoOn, Fault

LEMMA SellersSell ==
    ASSUME LiveTypeOK, IInv, LiveStep, SellersGoOn,
           NEW q \in Requests, pc[q] \in {"markBooked", "publishBooked"}
    PROVE  Sells(q)
  <1> USE DEF Sells, IInv, TypeOK
  <1>1. ASSUME NEW r \in Requests, HandlerGoesOn(r) PROVE Sells(q)
    <2>1. ASSUME NEW next, Continue(r, next)
          PROVE  pc'[q] = IF q = r THEN next ELSE pc[q]
      BY <2>1 DEF Continue
    <2>2. CASE TryHold(r) \/ HoldOwner(r) \/ BookingOwner(r) \/ ConfirmBooking(r) \/ ReadBack(r)
      <3>1. pc[r] \notin {"markBooked", "publishBooked"}
        BY <2>2 DEF TryHold, HoldOwner, BookingOwner, ConfirmBooking, ReadBack
      <3>2. r # q /\ pc'[q] = pc[q]
        BY <2>1, <2>2, <3>1 DEF TryHold, HoldOwner, BookingOwner, ConfirmBooking, ReadBack
      <3>3. QED BY <3>2
    <2>3. CASE MarkBooked(r)
      BY <2>1, <2>3 DEF MarkBooked
    <2>4. CASE Announce(r)
      <3>1. r # q => pc'[q] = pc[q]
        BY <2>1, <2>4 DEF Announce, PublishHeld, PublishBooked
      <3>2. r = q => pc[r] = "publishBooked"
        BY <2>4 DEF Announce, PublishHeld, PublishBooked
      <3>3. QED BY <2>4, <3>1, <3>2
    <2>5. QED BY <1>1, <2>2, <2>3, <2>4 DEF HandlerGoesOn
  <1>2. ASSUME NEW r \in Requests, HandlerFault(r) PROVE Sells(q)
    <2>1. ~CallFails(r)
      BY OnlyRepliesAreLost DEF CallFails
    <2>2. CASE InsertReplyLost(r)
      BY <2>2 DEF InsertReplyLost, Continue
    <2>3. CASE HoldReplyLost(r) \/ MarkReplyLost(r) \/ AnnounceAgain(r)
      BY <2>3 DEF HoldReplyLost, MarkReplyLost, AnnounceAgain, PublishReplyLost
    <2>4. QED BY <1>2, <2>1, <2>2, <2>3 DEF HandlerFault
  <1>3. ASSUME NEW i \in Instances, InstanceStep(i) PROVE Sells(q)
    <2>1. ~InstanceDies(i)
      BY OnlyRepliesAreLost DEF InstanceDies, Crash
    <2>2. QED
      BY <1>3, <2>1 DEF InstanceStep, InstanceStops, InstanceExits, BootStep, Restart,
                        LoadBooked, RehydrateBooked, Serve, RehydrateFails, Stop, Exit
  <1>4. ASSUME NEW r \in Requests, Receives(r) PROVE Sells(q)
    BY <1>4 DEF Receives, ReceiveHold, ReceiveConfirm, Continue, Resting, Answers, Success
  <1>5. CASE \/ \E s \in Seats : HoldExpires(s)
             \/ \E k \in Subscriptions : Subscribe(k) \/ LoseSubscription(k) \/ Deliver(k)
             \/ RedisRestarts
             \/ \E v \in Browsers : BrowserStep(v)
    BY <1>5 DEF HoldExpires, Expire, Subscribe, LoseSubscription, Deliver, RedisRestarts,
                RedisWipe, BrowserStep, Connect, ReadBookings, ReadHold, ReadHoldsFails,
                ReadBookingsFails, SendSnapshot, Receive, LinkBreaks, vars
  <1>6. QED BY <1>1, <1>2, <1>3, <1>4, <1>5 DEF LiveStep, SystemStep

\* A seller that does not fail has one way to go, from the insert past the marker to
\* the event, and with its last step the event is on its way to every browser that
\* watches and is not cut off by that very step.
SalesGetOut ==
    [][SellersGoOn => \A r \in Requests :
          /\ pc[r] = "markBooked" => pc'[r] \in {"markBooked", "publishBooked"}
          /\ pc[r] = "publishBooked" =>
                \/ pc'[r] = "publishBooked"
                \/ \A v \in Browsers : Watching(v) /\ Watching(v)' =>
                      \/ OnTheWay(v, "seatEvents", r.seat, Booked(r.session))'
                      \/ view'[v][r.seat] = Booked(r.session)]_liveVars

\* Everybody is told of a sale who can be, whatever else goes on.  Together with
\* EventsArriveInBoundedSteps this is the whole way of a sale to a map.
THEOREM SalesAreAnnounced == LiveSpec => SalesGetOut
  <1> DEFINE GetOut == SellersGoOn => \A r \in Requests :
          /\ pc[r] = "markBooked" => pc'[r] \in {"markBooked", "publishBooked"}
          /\ pc[r] = "publishBooked" =>
                \/ pc'[r] = "publishBooked"
                \/ \A v \in Browsers : Watching(v) /\ Watching(v)' =>
                      \/ OnTheWay(v, "seatEvents", r.seat, Booked(r.session))'
                      \/ view'[v][r.seat] = Booked(r.session)
  <1>1. ASSUME LiveInv, LiveTypeOK', [LiveNext]_liveVars PROVE [GetOut]_liveVars
    <2> SUFFICES ASSUME LiveNext, SellersGoOn, NEW r \in Requests,
                        pc[r] \in {"markBooked", "publishBooked"}, pc'[r] # pc[r],
                        ~(pc[r] = "markBooked" /\ pc'[r] = "publishBooked")
                 PROVE  /\ pc[r] = "publishBooked"
                        /\ \A v \in Browsers : Watching(v) /\ Watching(v)' =>
                              \/ OnTheWay(v, "seatEvents", r.seat, Booked(r.session))'
                              \/ view'[v][r.seat] = Booked(r.session)
      BY <1>1
    <2>1. LiveTypeOK /\ IInv /\ LiveStep
      BY <1>1 DEF LiveInv, LiveNext
    <2>2. pc[r] = "publishBooked" /\ Announce(r)
      BY <2>1, SellersSell DEF Sells
    <2>3. r.seat \in Seats /\ EventOf(r).seats[r.seat] = Booked(r.session)
      BY <2>1, <2>2, RequestFields DEF EventOf, BookedEvent, Event, Message
    <2>4. IsPublished("seatEvents", r.seat, Booked(r.session))
      BY <2>2, <2>3 DEF IsPublished
    <2>5. ASSUME NEW v \in Browsers, Watching(v), Watching(v)'
          PROVE  \/ OnTheWay(v, "seatEvents", r.seat, Booked(r.session))'
                 \/ view'[v][r.seat] = Booked(r.session)
      <3>1. Follows(v, "seatEvents") /\ Follows(v, "seatEvents")' /\ "seatEvents" \in Channels
        BY <2>5 DEF Watching, Follows, Channels
      <3>2. QED BY <1>1, <2>1, <2>3, <2>4, <3>1, OnTheWayKept
    <2>6. QED BY <2>2, <2>5
  <1>2. LiveInv => LiveTypeOK
    BY DEF LiveInv
  <1>3. QED BY <1>1, <1>2, LiveInvariance, PTL DEF LiveSpec, SalesGetOut

-----------------------------------------------------------------------------
(* A sale has the last word.                                               *)

\* What says nothing against the sale of s.
SaleMessages(s) == {m \in Messages : s \in DOMAIN m.seats => KnowsSale(m.seats, s)}

LEMMA SpeaksIsSeq ==
    ASSUME NEW s, NEW q \in Seq(Messages)
    PROVE  SpeaksOfSale(q, s) <=> q \in Seq(SaleMessages(s))
  BY DEF SpeaksOfSale, SaleMessages

\* In the stores: no script writes a hold over a marker.
LEMMA SaleStaysInStores ==
    ASSUME IInv, IInv', Next \/ UNCHANGED vars, ~RedisWipe,
           NEW s \in Seats, marker[s] # None, hold[s] = None,
           \A r \in Requests : r.seat = s => pc[r] # "publishHeld"
    PROVE  /\ marker'[s] # None /\ hold'[s] = None
           /\ \A r \in Requests : r.seat = s => pc'[r] # "publishHeld"
  <1>1. marker'[s] # None
    BY MarkerKept DEF vars, redis
  <1>2. hold'[s] = None
    <2> USE DEF redis, lives, history, vars
    <2>1. ASSUME NEW r \in Requests,
                 ReceiveHold(r) \/ ReceiveConfirm(r) \/ HandlerStep(r) \/ RequestFault(r)
          PROVE  hold'[s] = None
      <3>1. CASE TryHold(r) \/ HoldReplyLost(r)
        BY <3>1 DEF TryHold, HoldReplyLost, HoldScript, IInv, TypeOK
      <3>2. CASE MarkBooked(r) \/ MarkReplyLost(r)
        BY <3>2 DEF MarkBooked, MarkReplyLost, BookScript, IInv, TypeOK
      <3>3. CASE ~TryHold(r) /\ ~HoldReplyLost(r) /\ ~MarkBooked(r) /\ ~MarkReplyLost(r)
        BY <2>1, <3>3 DEF ReceiveHold, ReceiveConfirm, HandlerStep, RequestFault,
             PublishHeld, HoldOwner, BookingOwner, ConfirmBooking, ReadBack,
             PublishBooked, CallFails, InsertReplyLost, PublishReplyLost
      <3>4. QED BY <3>1, <3>2, <3>3
    <2>2. ASSUME NEW i \in Instances, LifeStep(i) PROVE hold' = hold
      BY <2>2 DEF LifeStep, BootStep, Restart, LoadBooked, RehydrateBooked, Serve,
           Crash, RehydrateFails, Stop, Exit
    <2>3. ASSUME NEW x \in Seats, Expire(x) PROVE hold'[s] = None
      BY <2>3 DEF Expire, IInv, TypeOK
    <2>4. QED BY <2>1, <2>2, <2>3 DEF Next
  <1>3. ASSUME NEW r \in Requests, r.seat = s, pc'[r] = "publishHeld" PROVE FALSE
    BY <1>3, HoldLeadsToPublish DEF HoldResult
  <1>4. QED BY <1>1, <1>2, <1>3

\* Of a sold seat nothing else is published: its hold cannot end a second time.
LEMMA SaleStaysInInbox ==
    ASSUME LiveTypeOK, IInv, LiveStep, NEW s \in Seats, hold[s] = None,
           \A r \in Requests : r.seat = s => pc[r] # "publishHeld",
           NEW k \in Subscriptions, inbox[k] \in Seq(SaleMessages(s))
    PROVE  inbox'[k] \in Seq(SaleMessages(s))
  <1>1. ASSUME NEW r \in Requests, pc[r] \in {"publishHeld", "publishBooked"}
        PROVE  EventOf(r) \in SaleMessages(s)
    <2>1. EventOf(r) \in Messages
      BY <1>1, AnnouncedTells DEF Events
    <2>2. /\ DOMAIN EventOf(r).seats = {r.seat}
          /\ pc[r] # "publishHeld" => EventOf(r).seats[r.seat].status = "booked"
      BY DEF EventOf, HeldEvent, BookedEvent, Event, Message, Booked
    <2>3. QED BY <2>1, <2>2 DEF SaleMessages, KnowsSale
  <1>2. ASSUME NEW x \in Seats, Expire(x) PROVE FreedEvent(x) \in SaleMessages(s)
    <2>1. x # s
      BY <1>2 DEF Expire
    <2>2. FreedEvent(x) \in Messages
      BY <1>2, FreedTells DEF Events
    <2>3. DOMAIN FreedEvent(x).seats = {x}
      BY DEF FreedEvent, Event, Message
    <2>4. QED BY <2>1, <2>2, <2>3 DEF SaleMessages
  <1>3. QED BY <1>1, <1>2, InboxSteps

\* What the browser has of the snapshot, is sent and shows.
SaleWithBrowser(v, s) ==
    /\ queue[v] \in Seq(SaleMessages(s))
    /\ serve[v] \in {"scanning", "degraded"} => KnowsSale(snapshot[v], s)
    /\ KnowsSale(view[v], s)

\* By its own steps: the rows are read once the row is there.
LEMMA SaleStaysByOwnSteps ==
    ASSUME LiveTypeOK, IInv, NEW v \in Browsers, NEW s \in Seats, marker[s] # None,
           at[v] # None, at'[v] = at[v], BrowserStep(v), SaleWithBrowser(v, s)
    PROVE  SaleWithBrowser(v, s)'
  <1> DEFINE Queue == queue[v] \in Seq(SaleMessages(s))
             Snapshot == serve[v] \in {"scanning", "degraded"} => KnowsSale(snapshot[v], s)
             View == KnowsSale(view[v], s)
  <1>1. Sold(s)
    BY DEF IInv, StoresAgree, MarkerSound, Sold
  <1>2. Queue /\ Snapshot /\ View
    BY DEF SaleWithBrowser
  <1>3. (Queue /\ Snapshot /\ View)' => SaleWithBrowser(v, s)'
    BY DEF SaleWithBrowser, SaleMessages, KnowsSale
  <1>4. CASE ReadBookings(v)
    BY <1>1, <1>2, <1>3, <1>4 DEF ReadBookings, KnowsSale, Booked, LiveTypeOK
  <1>5. ASSUME NEW t \in Seats, ReadHold(v, t) PROVE SaleWithBrowser(v, s)'
    <2>1. t # s
      BY <1>2, <1>5 DEF ReadHold, KnowsSale
    <2>2. snapshot'[v] = [x \in DOMAIN snapshot[v] \cup {t} |->
                             IF x = t THEN StateOfHold(t) ELSE snapshot[v][x]]
      BY <1>5 DEF ReadHold, LiveTypeOK
    <2>3. QED BY <1>2, <1>3, <1>5, <2>1, <2>2 DEF ReadHold, KnowsSale
  <1>6. CASE ReadHoldsFails(v)
    <2>1. snapshot'[v] = [x \in Seats |->
                             IF x \in DOMAIN snapshot[v] /\ snapshot[v][x].status = "booked"
                             THEN snapshot[v][x] ELSE Open]
      BY <1>6 DEF ReadHoldsFails, LiveTypeOK
    <2>2. QED BY <1>2, <1>3, <1>6, <2>1 DEF ReadHoldsFails, KnowsSale
  <1>7. CASE ReadBookingsFails(v)
    BY <1>2, <1>3, <1>7 DEF ReadBookingsFails, LiveTypeOK
  <1>8. CASE SendSnapshot(v)
    <2> DEFINE m == Message("snapshot", snapshot[v])
    <2>1. m \in SaleMessages(s)
      BY <1>2, <1>8 DEF SendSnapshot, Message, Messages, SaleMessages, LiveTypeOK
    <2>2. queue'[v] \in {queue[v], Append(queue[v], m)}
      BY <1>8 DEF SendSnapshot, LiveTypeOK
    <2>3. serve'[v] \notin {"scanning", "degraded"} /\ view' = view
      BY <1>8 DEF SendSnapshot, LiveTypeOK
    <2>4. Append(queue[v], m) \in Seq(SaleMessages(s))
      BY <1>2, <2>1, QueueSteps
    <2>5. QED BY <1>2, <1>3, <2>2, <2>3, <2>4
  <1>9. CASE Receive(v)
    <2>1. Head(queue[v]) \in SaleMessages(s) /\ Tail(queue[v]) \in Seq(SaleMessages(s))
      BY <1>2, <1>9, QueueSteps DEF Receive
    <2>2. view'[v] = Apply(Head(queue[v]), view[v]) /\ queue'[v] = Tail(queue[v])
      BY <1>9 DEF Receive, LiveTypeOK
    <2>3. KnowsSale(view'[v], s)
      BY <1>2, <2>1, <2>2 DEF Apply, KnowsSale, SaleMessages
    <2>4. QED BY <1>2, <1>3, <1>9, <2>1, <2>2, <2>3 DEF Receive
  <1>10. ASSUME NEW i \in Instances PROVE ~Connect(v, i)
    BY DEF Connect
  <1>11. ~LinkBreaks(v)
    BY DEF LinkBreaks, Disconnect, LiveTypeOK, LiveAssumption
  <1>12. QED
    BY <1>4, <1>5, <1>6, <1>7, <1>8, <1>9, <1>10, <1>11 DEF BrowserStep

\* By everybody's.
LEMMA SaleStaysWithBrowser ==
    ASSUME LiveTypeOK, IInv, LiveStep, NEW v \in Browsers, NEW s \in Seats,
           marker[s] # None, at[v] # None, at'[v] = at[v], SaleWithBrowser(v, s),
           \A channel \in Channels : inbox[<<at[v], channel>>] \in Seq(SaleMessages(s))
    PROVE  SaleWithBrowser(v, s)'
  <1>1. CASE BrowserStep(v)
    BY <1>1, SaleStaysByOwnSteps
  <1>2. ASSUME NEW k \in Subscriptions, Deliver(k) PROVE SaleWithBrowser(v, s)'
    <2>1. queue'[v] = IF at[v] = k[1] THEN Append(queue[v], Head(inbox[k])) ELSE queue[v]
      BY <1>2, Delivered
    <2>2. queue[v] \in Seq(SaleMessages(s))
      BY DEF SaleWithBrowser
    <2>3. ASSUME at[v] = k[1] PROVE Head(inbox[k]) \in SaleMessages(s)
      <3>1. inbox[k] \in Seq(SaleMessages(s))
        BY <2>3 DEF Subscriptions
      <3>2. QED BY <1>2, <3>1, QueueSteps DEF Deliver
    <2>4. queue'[v] \in Seq(SaleMessages(s))
      BY <2>1, <2>2, <2>3, QueueSteps
    <2>5. UNCHANGED <<serve, snapshot, view>>
      BY <1>2 DEF Deliver
    <2>6. QED BY <2>4, <2>5 DEF SaleWithBrowser, SaleMessages, KnowsSale
  <1>3. CASE ~BrowserStep(v) /\ \A k \in Subscriptions : ~Deliver(k)
    BY <1>3, OthersLeaveAlone DEF SaleWithBrowser, SaleMessages, KnowsSale
  <1>4. QED BY <1>1, <1>2, <1>3

LEMMA SaleStaysFinal ==
    ASSUME LiveInv, LiveInv', LiveNext, ~RedisWipe, NEW v \in Browsers, NEW s \in Seats,
           SaleIsFinal(v, s), at'[v] = at[v]
    PROVE  SaleIsFinal(v, s)'
  <1>1. /\ LiveTypeOK /\ LiveTypeOK' /\ IInv /\ IInv'
        /\ LiveStep /\ (Next \/ UNCHANGED vars)
    BY LiveStepIsBooking DEF LiveInv, LiveNext
  <1>2. /\ at[v] # None /\ marker[s] # None /\ hold[s] = None
        /\ \A r \in Requests : r.seat = s => pc[r] # "publishHeld"
    BY DEF SaleIsFinal
  <1>3. ASSUME NEW channel \in Channels
        PROVE  /\ <<at[v], channel>> \in Subscriptions
               /\ inbox[<<at[v], channel>>] \in Seq(Messages)
               /\ inbox'[<<at[v], channel>>] \in Seq(Messages)
    BY <1>1, <1>2 DEF Subscriptions, LiveTypeOK
  <1>4. queue[v] \in Seq(Messages) /\ queue'[v] \in Seq(Messages)
    BY <1>1 DEF LiveTypeOK
  <1>5. \A channel \in Channels : inbox[<<at[v], channel>>] \in Seq(SaleMessages(s))
    BY <1>3, SpeaksIsSeq DEF SaleIsFinal
  <1>6. \A channel \in Channels : inbox'[<<at[v], channel>>] \in Seq(SaleMessages(s))
    BY <1>1, <1>2, <1>3, <1>5, SaleStaysInInbox
  <1>7. SaleWithBrowser(v, s)
    BY <1>4, SpeaksIsSeq DEF SaleIsFinal, SaleWithBrowser
  <1>8. SaleWithBrowser(v, s)'
    BY <1>1, <1>2, <1>5, <1>7, SaleStaysWithBrowser
  <1>9. /\ \A channel \in Channels : SpeaksOfSale(inbox[<<at[v], channel>>], s)'
        /\ SpeaksOfSale(queue[v], s)'
    <2>1. \A channel \in Channels : SpeaksOfSale(inbox'[<<at[v], channel>>], s)
      BY <1>3, <1>6, SpeaksIsSeq
    <2>2. SpeaksOfSale(queue'[v], s)
      BY <1>4, <1>8, SpeaksIsSeq DEF SaleWithBrowser, SaleMessages, KnowsSale
    <2>3. QED BY <2>1, <2>2 DEF SpeaksOfSale, KnowsSale
  <1>10. QED
    BY <1>1, <1>2, <1>8, <1>9, SaleStaysInStores DEF SaleIsFinal, SaleWithBrowser, KnowsSale

\* However late, doubled and out of order the events of a seat are, they agree in the
\* end: a sale is taken back only by what was under way when it was made.
THEOREM SalesAreFinal == LiveSpec => SaleHasTheLastWord
  <1> DEFINE Final == \A v \in Browsers, s \in Seats :
                  SaleIsFinal(v, s) => SaleIsFinal(v, s)' \/ at'[v] # at[v] \/ RedisWipe
  <1>1. ASSUME LiveInv, LiveInv', [LiveNext]_liveVars PROVE [Final]_liveVars
    BY <1>1, SaleStaysFinal
  <1>2. QED BY <1>1, LiveInvariance, PTL DEF LiveSpec, SaleHasTheLastWord
=============================================================================
