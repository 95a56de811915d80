---------------------------- MODULE LiveMapProofs ----------------------------
(***************************************************************************)
(* What holds of LiveMap for every number of browsers, instances and seats *)
(* and any buffer: it is a Booking with an audience, what the audience is  *)
(* shown is true, whatever order the messages take, and no two browsers    *)
(* are ever told of two buyers of one seat.                                *)
(***************************************************************************)
EXTENDS LiveMap, BookingProofs

-----------------------------------------------------------------------------
(* The inductive invariant.                                                *)

\* Whatever is on its way to a browser is true as well, and a handler announces a
\* hold only after it was granted.
AllTrue(states) == \A s \in DOMAIN states : TrueOf(s, states[s])

MessagesTrue(messages) == \A n \in 1 .. Len(messages) : AllTrue(messages[n].seats)

AnnouncesOwnHold == \A r \in Requests : pc[r] = "publishHeld" => Row(r) \in granted

FeedSound ==
    /\ AnnouncesOwnHold
    /\ \A k \in Subscriptions : MessagesTrue(inbox[k])
    /\ \A v \in Browsers : MessagesTrue(queue[v]) /\ AllTrue(snapshot[v])

LiveInv == IInv /\ LiveTypeOK /\ FeedSound /\ ViewSound

-----------------------------------------------------------------------------
(* The sale goes on as if nobody watched.                                  *)

LEMMA LiveStepIsBooking == LiveNext => Next \/ UNCHANGED vars
  <1> SUFFICES ASSUME LiveStep PROVE Next \/ UNCHANGED vars
    BY DEF LiveNext
  <1> USE DEF redis, lives, history, vars
  <1>1. ASSUME NEW r \in Requests, Receives(r) \/ HandlerGoesOn(r) \/ HandlerFault(r)
        PROVE  Next
    BY <1>1 DEF Receives, HandlerGoesOn, HandlerFault, Announce, AnnounceAgain, Next,
                HandlerStep, RequestFault
  <1>2. ASSUME NEW s \in Seats, HoldExpires(s) PROVE Next
    BY <1>2 DEF HoldExpires, Next
  <1>3. ASSUME NEW k \in Subscriptions, Subscribe(k) \/ LoseSubscription(k) \/ Deliver(k)
        PROVE  UNCHANGED vars
    BY <1>3 DEF Subscribe, LoseSubscription, Deliver
  <1>4. ASSUME NEW i \in Instances, InstanceStep(i) PROVE Next
    BY <1>4 DEF InstanceStep, InstanceDies, InstanceStops, InstanceExits, LifeStep, Next
  <1>5. ASSUME NEW v \in Browsers, BrowserStep(v) PROVE UNCHANGED vars
    BY <1>5 DEF BrowserStep, Connect, ReadBookings, ReadHold, ReadHoldsFails,
                ReadBookingsFails, SendSnapshot, Receive, LinkBreaks
  <1>6. CASE RedisRestarts
    BY <1>6 DEF RedisRestarts, Next
  <1>7. QED
    BY <1>1, <1>2, <1>3, <1>4, <1>5, <1>6 DEF LiveStep, SystemStep

\* Every behaviour with browsers is one of Booking: what is proved of the sale
\* holds while it is watched.
THEOREM LiveMapImplementsBooking == LiveSpec => Spec
  <1>1. LiveInit => Init
    BY DEF LiveInit
  <1>2. [LiveNext]_liveVars => [Next]_vars
    BY LiveStepIsBooking DEF liveVars
  <1>3. QED BY <1>1, <1>2, PTL DEF LiveSpec, Spec

-----------------------------------------------------------------------------
(* What was true of the sale stays true.                                   *)

LEMMA StaysTrue ==
    ASSUME Next \/ UNCHANGED vars, NEW states, AllTrue(states)
    PROVE  AllTrue(states)'
  BY TruthGrows DEF AllTrue, TrueOf

\* Good messages and good parts of a map: of the right form, and true.
GoodMessages == {m \in Messages : AllTrue(m.seats)}
GoodViews == {x \in Views : AllTrue(x)}

LEMMA GoodGrows ==
    ASSUME Next \/ UNCHANGED vars
    PROVE  GoodMessages \subseteq GoodMessages' /\ GoodViews \subseteq GoodViews'
  <1>1. ASSUME NEW m \in GoodMessages PROVE m \in GoodMessages'
    BY <1>1, StaysTrue DEF GoodMessages
  <1>2. ASSUME NEW x \in GoodViews PROVE x \in GoodViews'
    BY <1>2, StaysTrue DEF GoodViews
  <1>3. QED BY <1>1, <1>2

-----------------------------------------------------------------------------
(* Queues of messages taken from a set.                                    *)

LEMMA SeqGrows ==
    ASSUME NEW S, NEW T, S \subseteq T, NEW q \in Seq(S)
    PROVE  q \in Seq(T)
  OBVIOUS

LEMMA QueueSteps ==
    ASSUME NEW S, NEW q \in Seq(S)
    PROVE  /\ \A m \in S : Append(q, m) \in Seq(S)
           /\ q # <<>> => Head(q) \in S /\ Tail(q) \in Seq(S)
           /\ \A n \in 0 .. Len(q) : SubSeq(q, 1, n) \in Seq(S)
  OBVIOUS

\* The part of the invariant about the feed, with form and truth in one.
GoodFeed ==
    /\ inbox \in [Subscriptions -> Seq(GoodMessages)]
    /\ queue \in [Browsers -> Seq(GoodMessages)]
    /\ snapshot \in [Browsers -> GoodViews]
    /\ view \in [Browsers -> {x \in GoodViews : DOMAIN x = Seats}]

LEMMA GoodSeq ==
    ASSUME NEW q \in Seq(Messages)
    PROVE  q \in Seq(GoodMessages) <=> MessagesTrue(q)
  BY DEF GoodMessages, MessagesTrue

-----------------------------------------------------------------------------
(* What is published and read is true when it is.                          *)

LEMMA EventGood ==
    ASSUME NEW s \in Seats, NEW state \in SeatStates, TrueOf(s, state),
           NEW type \in {"held", "booked", "freed"}
    PROVE  Event(type, s, state) \in GoodMessages
  <1>1. [x \in {s} |-> state] \in Views /\ AllTrue([x \in {s} |-> state])
    <2>1. [x \in {s} |-> state] \in [{s} -> SeatStates] /\ {s} \in SUBSET Seats
      OBVIOUS
    <2>2. [x \in {s} |-> state] \in Views
      BY <2>1 DEF Views
    <2>3. \A y \in DOMAIN [x \in {s} |-> state] : y = s /\ [x \in {s} |-> state][y] = state
      OBVIOUS
    <2>4. QED BY <2>2, <2>3 DEF AllTrue
  <1>2. Event(type, s, state) \in Messages
    BY <1>1 DEF Event, Message, Messages
  <1>3. Event(type, s, state).seats = [x \in {s} |-> state]
    BY DEF Event, Message
  <1>4. QED BY <1>1, <1>2, <1>3 DEF GoodMessages

LEMMA AnnouncedGood ==
    ASSUME IInv, AnnouncesOwnHold, NEW r \in Requests,
           pc[r] \in {"publishHeld", "publishBooked"}
    PROVE  EventOf(r) \in GoodMessages
  <1>1. /\ r.seat \in Seats
        /\ Held(r.session) \in SeatStates /\ Booked(r.session) \in SeatStates
    BY RequestFields DEF SeatStates
  <1>2. CASE pc[r] = "publishHeld"
    <2>1. TrueOf(r.seat, Held(r.session))
      BY <1>2 DEF AnnouncesOwnHold, TrueOf, Held, Row
    <2>2. QED BY <1>1, <1>2, <2>1, EventGood DEF EventOf, HeldEvent
  <1>3. CASE pc[r] = "publishBooked"
    <2>1. TrueOf(r.seat, Booked(r.session))
      BY <1>3 DEF IInv, RequestsAgree, AnnouncesOwnRow, Announcing, TrueOf, Booked, Row
    <2>2. QED BY <1>1, <1>3, <2>1, EventGood DEF EventOf, BookedEvent
  <1>4. QED BY <1>2, <1>3

LEMMA FreedGood == \A s \in Seats : FreedEvent(s) \in GoodMessages
  BY EventGood DEF FreedEvent, Open, SeatStates, TrueOf

LEMMA HoldStateGood ==
    ASSUME IInv, NEW s \in Seats
    PROVE  StateOfHold(s) \in SeatStates /\ TrueOf(s, StateOfHold(s))
  BY DEF IInv, TypeOK, StoresAgree, HoldsWereGranted, StateOfHold, SeatStates, TrueOf,
         Open, Held

LEMMA RowStateGood ==
    ASSUME IInv, NEW s \in Seats, Sold(s)
    PROVE  Booked(OwnerOf(s)) \in SeatStates /\ TrueOf(s, Booked(OwnerOf(s)))
  <1>1. PICK b \in bookings : b.seat = s /\ b = [seat |-> s, session |-> b.session]
                              /\ b.session \in Sessions
    BY DEF Sold, IInv, TypeOK, BookingRows
  <1>2. OwnerOf(s) = b.session
    BY <1>1 DEF OwnerOf, Sold, IInv, StoresAgree, NoDoubleBooking
  <1>3. QED BY <1>1, <1>2 DEF SeatStates, TrueOf, Booked

LEMMA NothingGood == Nothing \in GoodViews
  BY DEF Nothing, GoodViews, Views, AllTrue

LEMMA ApplyGood ==
    ASSUME NEW m \in GoodMessages, NEW map \in GoodViews, DOMAIN map = Seats
    PROVE  Apply(m, map) \in GoodViews /\ DOMAIN Apply(m, map) = Seats
  <1>1. PICK S \in SUBSET Seats : m.seats \in [S -> SeatStates]
    BY DEF GoodMessages, Messages, Views
  <1>2. map \in [Seats -> SeatStates]
    BY DEF GoodViews, Views
  <1>3. Apply(m, map) \in [Seats -> SeatStates]
    BY <1>1, <1>2 DEF Apply
  <1>4. AllTrue(Apply(m, map))
    BY DEF Apply, AllTrue, GoodMessages, GoodViews
  <1>5. QED BY <1>3, <1>4 DEF GoodViews, Views

-----------------------------------------------------------------------------
(* The inductive invariant.                                                *)

\* Only the script that granted the hold leads to the announcement.
LEMMA HoldLeadsToPublish ==
    ASSUME IInv, Next \/ UNCHANGED vars, NEW q \in Requests,
           pc[q] # "publishHeld", pc'[q] = "publishHeld"
    PROVE  TryHold(q) /\ HoldResult(q) = "publishHeld"
  <1>1. ASSUME NEW i \in Instances, LifeStep(i)
        PROVE  FALSE
    BY <1>1 DEF LifeStep, BootStep, Restart, LoadBooked, RehydrateBooked, Serve,
                Crash, RehydrateFails, Stop, Exit
  <1>2. PICK r \in Requests :
          ReceiveHold(r) \/ ReceiveConfirm(r) \/ HandlerStep(r) \/ RequestFault(r)
    BY <1>1 DEF Next, Expire, RedisWipe, vars
  <1>3. q = r
    BY <1>2 DEF ReceiveHold, ReceiveConfirm, HandlerStep, TryHold, PublishHeld,
         HoldOwner, BookingOwner, ConfirmBooking, ReadBack, MarkBooked, PublishBooked,
         RequestFault, CallFails, HoldReplyLost, MarkReplyLost, InsertReplyLost,
         PublishReplyLost, Continue, history, IInv, TypeOK
  <1>4. CASE TryHold(r)
    BY <1>3, <1>4 DEF TryHold, Continue, IInv, TypeOK
  <1>5. CASE CallFails(r)
    BY <1>3, <1>5 DEF CallFails, AfterError, Continue, IInv, TypeOK
  <1>6. CASE ~TryHold(r) /\ ~CallFails(r)
    BY <1>2, <1>3, <1>6 DEF ReceiveHold, ReceiveConfirm, HandlerStep, PublishHeld,
         HoldOwner, AfterHoldOwner, BookingOwner, NotHolderAnswer, ConfirmBooking,
         ReadBack, ReadBackAnswer, MarkBooked, PublishBooked,
         RequestFault, HoldReplyLost, MarkReplyLost, InsertReplyLost,
         PublishReplyLost, Continue, history, IInv, TypeOK
  <1>7. QED BY <1>4, <1>5, <1>6

LEMMA AnnouncesKept ==
    ASSUME IInv, AnnouncesOwnHold, Next \/ UNCHANGED vars
    PROVE  AnnouncesOwnHold'
  <1> SUFFICES ASSUME NEW q \in Requests, pc'[q] = "publishHeld" PROVE Row(q) \in granted'
    BY DEF AnnouncesOwnHold, Row
  <1>1. CASE pc[q] = "publishHeld"
    BY <1>1, TruthGrows DEF AnnouncesOwnHold
  <1>2. CASE pc[q] # "publishHeld"
    BY <1>2, HoldLeadsToPublish DEF TryHold, HoldResult, HoldScript
  <1>3. QED BY <1>1, <1>2

PlainTypes ==
    /\ subscribed \subseteq Subscriptions
    /\ at \in [Browsers -> Instances \cup {None}]
    /\ serve \in [Browsers -> {"off", "loading", "scanning", "degraded",
                               "sent", "sentDegraded", "without"}]
    /\ undisturbed \in [Browsers -> SUBSET Seats]

LEMMA InvParts ==
    LiveInv <=> IInv /\ PlainTypes /\ GoodFeed /\ AnnouncesOwnHold
  <1> USE DEF LiveTypeOK, FeedSound, ViewSound, PlainTypes, GoodFeed
  <1>1. ASSUME NEW x \in [Seats -> SeatStates]
        PROVE  x \in {y \in GoodViews : DOMAIN y = Seats} <=> \A s \in Seats : TrueOf(s, x[s])
    BY <1>1 DEF GoodViews, Views, AllTrue
  <1>2. ASSUME NEW x \in {y \in GoodViews : DOMAIN y = Seats}
        PROVE  x \in [Seats -> SeatStates]
    BY <1>2 DEF GoodViews, Views
  <1>3. GoodMessages \subseteq Messages
    BY DEF GoodMessages
  <1>4. \A q \in Seq(GoodMessages) : q \in Seq(Messages)
    BY <1>3, SeqGrows
  <1>5. ASSUME LiveInv PROVE IInv /\ PlainTypes /\ GoodFeed /\ AnnouncesOwnHold
    <2>1. inbox \in [Subscriptions -> Seq(GoodMessages)]
      BY <1>5, GoodSeq DEF LiveInv
    <2>2. queue \in [Browsers -> Seq(GoodMessages)]
      BY <1>5, GoodSeq DEF LiveInv
    <2>3. snapshot \in [Browsers -> GoodViews]
      BY <1>5 DEF LiveInv, GoodViews
    <2>4. view \in [Browsers -> {x \in GoodViews : DOMAIN x = Seats}]
      BY <1>1, <1>5 DEF LiveInv
    <2>5. QED BY <1>5, <2>1, <2>2, <2>3, <2>4 DEF LiveInv
  <1>6. ASSUME IInv, PlainTypes, GoodFeed, AnnouncesOwnHold PROVE LiveInv
    <2>1. /\ inbox \in [Subscriptions -> Seq(Messages)]
          /\ \A k \in Subscriptions : MessagesTrue(inbox[k])
      BY <1>4, <1>6, GoodSeq
    <2>2. /\ queue \in [Browsers -> Seq(Messages)]
          /\ \A v \in Browsers : MessagesTrue(queue[v])
      BY <1>4, <1>6, GoodSeq
    <2>3. /\ snapshot \in [Browsers -> Views]
          /\ \A v \in Browsers : AllTrue(snapshot[v])
      BY <1>6 DEF GoodViews
    <2>4. view \in [Browsers -> [Seats -> SeatStates]]
      BY <1>2, <1>6
    <2>5. ViewSound
      BY <1>1, <1>6, <2>4
    <2>6. QED BY <1>6, <2>1, <2>2, <2>3, <2>4, <2>5 DEF LiveInv
  <1>7. QED BY <1>5, <1>6

Connections ==
    /\ subscribed \subseteq Subscriptions
    /\ at \in [Browsers -> Instances \cup {None}]
    /\ serve \in [Browsers -> {"off", "loading", "scanning", "degraded",
                               "sent", "sentDegraded", "without"}]

\* What each variable of the feed keeps if it is not touched.
LEMMA FeedGrows ==
    ASSUME GoodFeed, Next \/ UNCHANGED vars
    PROVE  /\ inbox \in [Subscriptions -> Seq(GoodMessages')]
           /\ queue \in [Browsers -> Seq(GoodMessages')]
           /\ snapshot \in [Browsers -> GoodViews']
           /\ view \in [Browsers -> {x \in GoodViews' : DOMAIN x = Seats}]
  <1>1. \A q \in Seq(GoodMessages) : q \in Seq(GoodMessages')
    BY GoodGrows, SeqGrows
  <1>2. QED BY <1>1, GoodGrows DEF GoodFeed

\* Nobody is told.
LEMMA QuietFeed ==
    ASSUME GoodFeed, Connections, Next \/ UNCHANGED vars, UNCHANGED <<feed, browser>>
    PROVE  GoodFeed' /\ Connections'
  BY FeedGrows DEF GoodFeed, Connections, feed, browser

\* A true message is published.
LEMMA PublishKeeps ==
    ASSUME GoodFeed, Connections, Next \/ UNCHANGED vars,
           NEW channel, NEW m \in GoodMessages, Publish(channel, m), UNCHANGED browser
    PROVE  GoodFeed' /\ Connections'
  <1>1. m \in GoodMessages'
    BY GoodGrows
  <1>2. \A k \in Subscriptions : Append(inbox[k], m) \in Seq(GoodMessages')
    BY <1>1, FeedGrows, QueueSteps
  <1>3. inbox' \in [Subscriptions -> Seq(GoodMessages')]
    BY <1>2, FeedGrows DEF Publish
  <1>4. QED
    BY <1>3, FeedGrows DEF GoodFeed, Connections, Publish, browser

\* Connections end.
LEMMA DisconnectKeeps ==
    ASSUME GoodFeed, Connections, Next \/ UNCHANGED vars, NEW gone, Disconnect(gone),
           subscribed' \subseteq subscribed,
           inbox' \in [Subscriptions -> Seq(GoodMessages')]
    PROVE  GoodFeed' /\ Connections'
  <1>1. Nothing \in GoodViews'
    BY NothingGood, GoodGrows
  <1>2. /\ queue' \in [Browsers -> Seq(GoodMessages')]
        /\ snapshot' \in [Browsers -> GoodViews']
        /\ view' \in [Browsers -> {x \in GoodViews' : DOMAIN x = Seats}]
    BY <1>1, FeedGrows DEF Disconnect
  <1>3. Connections'
    BY DEF Connections, Disconnect
  <1>4. QED BY <1>2, <1>3 DEF GoodFeed

LEMMA SubscriptionKeeps ==
    ASSUME GoodFeed, Connections, NEW k \in Subscriptions,
           Subscribe(k) \/ LoseSubscription(k) \/ Deliver(k)
    PROVE  GoodFeed' /\ Connections'
  <1>1. UNCHANGED vars
    BY DEF Subscribe, LoseSubscription, Deliver
  <1> USE <1>1
  <1>2. CASE Subscribe(k)
    BY <1>2, FeedGrows DEF Subscribe, GoodFeed, Connections, browser
  <1>3. CASE LoseSubscription(k)
    <2>1. PICK n \in 0 .. Len(inbox[k]) : inbox' = [inbox EXCEPT ![k] = SubSeq(@, 1, n)]
      BY <1>3 DEF LoseSubscription
    <2>2. inbox[k] \in Seq(GoodMessages')
      BY FeedGrows
    <2>3. SubSeq(inbox[k], 1, n) \in Seq(GoodMessages')
      BY <2>2, QueueSteps
    <2>4. inbox' \in [Subscriptions -> Seq(GoodMessages')]
      BY <2>1, <2>3, FeedGrows
    <2>5. QED
      BY <1>3, <2>4, FeedGrows DEF LoseSubscription, GoodFeed, Connections, browser
  <1>4. CASE Deliver(k)
    <2>1. inbox[k] \in Seq(GoodMessages') /\ inbox[k] # <<>>
      BY <1>4, FeedGrows DEF Deliver
    <2>2. Head(inbox[k]) \in GoodMessages' /\ Tail(inbox[k]) \in Seq(GoodMessages')
      BY <2>1, QueueSteps
    <2>3. inbox' \in [Subscriptions -> Seq(GoodMessages')]
      BY <1>4, <2>2, FeedGrows DEF Deliver
    <2>4. \A v \in Browsers : Append(queue[v], Head(inbox[k])) \in Seq(GoodMessages')
      BY <2>2, FeedGrows, QueueSteps
    <2>5. queue' \in [Browsers -> Seq(GoodMessages')]
      BY <1>4, <2>4, FeedGrows DEF Deliver, Broadcast
    <2>6. QED
      BY <1>4, <2>3, <2>5, FeedGrows DEF Deliver, Broadcast, GoodFeed, Connections
  <1>5. QED BY <1>2, <1>3, <1>4

LEMMA BrowserKeeps ==
    ASSUME IInv, GoodFeed, Connections, NEW v \in Browsers, BrowserStep(v)
    PROVE  GoodFeed' /\ Connections'
  <1>1. UNCHANGED vars
    BY DEF BrowserStep, Connect, ReadBookings, ReadHold, ReadHoldsFails,
           ReadBookingsFails, SendSnapshot, Receive, LinkBreaks
  <1>2. GoodMessages' = GoodMessages /\ GoodViews' = GoodViews
    BY <1>1 DEF GoodMessages, GoodViews, AllTrue, TrueOf, vars
  <1> USE <1>2
  <1>3. snapshot[v] \in GoodViews
    BY DEF GoodFeed
  <1>4. PICK S \in SUBSET Seats : snapshot[v] \in [S -> SeatStates]
    BY <1>3 DEF GoodViews, Views
  <1>5. ASSUME NEW i \in Instances, Connect(v, i) PROVE GoodFeed' /\ Connections'
    BY <1>5, NothingGood DEF Connect, GoodFeed, Connections, feed
  <1>6. CASE ReadBookings(v)
    <2>1. [s \in {x \in Seats : Sold(x)} |-> Booked(OwnerOf(s))] \in GoodViews
      <3>1. [s \in {x \in Seats : Sold(x)} |-> Booked(OwnerOf(s))]
               \in [{x \in Seats : Sold(x)} -> SeatStates]
        BY RowStateGood
      <3>2. AllTrue([s \in {x \in Seats : Sold(x)} |-> Booked(OwnerOf(s))])
        BY RowStateGood DEF AllTrue
      <3>3. QED BY <3>1, <3>2 DEF GoodViews, Views
    <2>2. QED BY <1>6, <2>1 DEF ReadBookings, GoodFeed, Connections, feed
  <1>7. ASSUME NEW s \in Seats, ReadHold(v, s) PROVE GoodFeed' /\ Connections'
    <2> DEFINE read == [x \in DOMAIN snapshot[v] \cup {s} |->
                           IF x = s THEN StateOfHold(s) ELSE snapshot[v][x]]
    <2>1. read \in [S \cup {s} -> SeatStates]
      BY <1>4, HoldStateGood
    <2>2. AllTrue(read)
      BY <1>3, HoldStateGood DEF AllTrue, GoodViews
    <2>3. read \in GoodViews
      BY <2>1, <2>2 DEF GoodViews, Views
    <2>4. QED BY <1>7, <2>3 DEF ReadHold, GoodFeed, Connections, feed
  <1>8. CASE ReadHoldsFails(v)
    <2> DEFINE rest == [s \in Seats |->
                           IF s \in DOMAIN snapshot[v] /\ snapshot[v][s].status = "booked"
                           THEN snapshot[v][s] ELSE Open]
    <2>1. rest \in [Seats -> SeatStates]
      BY <1>4 DEF SeatStates
    <2>2. \A s \in Seats : TrueOf(s, Open)
      BY DEF TrueOf, Open
    <2>3. \A s \in Seats : s \in DOMAIN snapshot[v] => TrueOf(s, snapshot[v][s])
      BY <1>3 DEF GoodViews, AllTrue
    <2>4. AllTrue(rest)
      BY <2>2, <2>3 DEF AllTrue
    <2>5. rest \in GoodViews
      BY <2>1, <2>4 DEF GoodViews, Views
    <2>6. QED BY <1>8, <2>5 DEF ReadHoldsFails, GoodFeed, Connections, feed
  <1>9. CASE ReadBookingsFails(v)
    BY <1>9 DEF ReadBookingsFails, GoodFeed, Connections, feed
  <1>10. CASE SendSnapshot(v)
    <2>1. Message("snapshot", snapshot[v]) \in GoodMessages
      <3>1. Message("snapshot", snapshot[v]) \in Messages
        BY <1>3 DEF Message, Messages, GoodViews
      <3>2. Message("snapshot", snapshot[v]).seats = snapshot[v]
        BY DEF Message
      <3>3. QED BY <1>3, <3>1, <3>2 DEF GoodMessages, GoodViews
    <2>2. Append(queue[v], Message("snapshot", snapshot[v])) \in Seq(GoodMessages)
      BY <2>1, QueueSteps DEF GoodFeed
    <2>3. queue' \in [Browsers -> Seq(GoodMessages)]
      BY <1>10, <2>2 DEF SendSnapshot, GoodFeed
    <2>4. QED
      BY <1>10, <2>3, NothingGood DEF SendSnapshot, GoodFeed, Connections, feed
  <1>11. CASE Receive(v)
    <2>1. Head(queue[v]) \in GoodMessages /\ Tail(queue[v]) \in Seq(GoodMessages)
      BY <1>11, QueueSteps DEF Receive, GoodFeed
    <2>2. /\ Apply(Head(queue[v]), view[v]) \in GoodViews
          /\ DOMAIN Apply(Head(queue[v]), view[v]) = Seats
      BY <2>1, ApplyGood DEF GoodFeed
    <2>3. QED BY <1>11, <2>1, <2>2 DEF Receive, GoodFeed, Connections, feed
  <1>12. CASE LinkBreaks(v)
    BY <1>1, <1>12, DisconnectKeeps DEF LinkBreaks, feed, GoodFeed
  <1>13. QED
    BY <1>5, <1>6, <1>7, <1>8, <1>9, <1>10, <1>11, <1>12 DEF BrowserStep

LEMMA LiveStepKeeps ==
    ASSUME IInv, AnnouncesOwnHold, GoodFeed, Connections, LiveStep, Next \/ UNCHANGED vars
    PROVE  GoodFeed' /\ Connections'
  <1>1. ASSUME NEW r \in Requests, Announce(r) \/ AnnounceAgain(r)
        PROVE  GoodFeed' /\ Connections'
    <2>1. pc[r] \in {"publishHeld", "publishBooked"}
      BY <1>1 DEF Announce, AnnounceAgain, PublishHeld, PublishBooked, PublishReplyLost
    <2>2. EventOf(r) \in GoodMessages
      BY <2>1, AnnouncedGood
    <2>3. QED BY <1>1, <2>2, PublishKeeps DEF Announce, AnnounceAgain
  <1>2. ASSUME NEW r \in Requests, Receives(r) \/ HandlerGoesOn(r) \/ HandlerFault(r)
        PROVE  GoodFeed' /\ Connections'
    BY <1>1, <1>2, QuietFeed DEF Receives, HandlerGoesOn, HandlerFault
  <1>3. ASSUME NEW s \in Seats, HoldExpires(s) PROVE GoodFeed' /\ Connections'
    BY <1>3, FreedGood, PublishKeeps DEF HoldExpires
  <1>4. ASSUME NEW i \in Instances, InstanceDies(i) PROVE GoodFeed' /\ Connections'
    <2>1. \A k \in Subscriptions : (<<>> \in Seq(GoodMessages')) /\ inbox[k] \in Seq(GoodMessages')
      BY FeedGrows
    <2>2. inbox' \in [Subscriptions -> Seq(GoodMessages')]
      BY <1>4, <2>1 DEF InstanceDies
    <2>3. QED BY <1>4, <2>2, DisconnectKeeps DEF InstanceDies
  <1>5. ASSUME NEW i \in Instances, InstanceStops(i) PROVE GoodFeed' /\ Connections'
    <2>1. \A k \in Subscriptions : (<<>> \in Seq(GoodMessages')) /\ inbox[k] \in Seq(GoodMessages')
      BY FeedGrows
    <2>2. inbox' \in [Subscriptions -> Seq(GoodMessages')]
      BY <1>5, <2>1 DEF InstanceStops
    <2>3. QED
      BY <1>5, <2>2, FeedGrows DEF InstanceStops, GoodFeed, Connections, browser
  <1>6. ASSUME NEW i \in Instances, InstanceExits(i) PROVE GoodFeed' /\ Connections'
    BY <1>6, FeedGrows, DisconnectKeeps DEF InstanceExits, feed
  <1>7. ASSUME NEW i \in Instances, InstanceStep(i) PROVE GoodFeed' /\ Connections'
    BY <1>4, <1>5, <1>6, <1>7, QuietFeed DEF InstanceStep
  <1>8. CASE RedisRestarts
    BY <1>8, FeedGrows DEF RedisRestarts, GoodFeed, Connections, browser
  <1>9. QED
    BY <1>2, <1>3, <1>7, <1>8, SubscriptionKeeps, BrowserKeeps DEF LiveStep, SystemStep

LEMMA InitLiveInv == LiveInit => LiveInv
  <1> SUFFICES ASSUME LiveInit PROVE LiveInv
    OBVIOUS
  <1>1. IInv
    BY InitIInv DEF LiveInit
  <1>2. PlainTypes
    BY DEF LiveInit, PlainTypes
  <1>3. AnnouncesOwnHold
    BY DEF LiveInit, Init, AnnouncesOwnHold
  <1>4. [s \in Seats |-> Open] \in {x \in GoodViews : DOMAIN x = Seats}
    <2>1. [s \in Seats |-> Open] \in [Seats -> SeatStates]
      BY DEF SeatStates
    <2>2. AllTrue([s \in Seats |-> Open])
      BY DEF AllTrue, TrueOf, Open
    <2>3. QED BY <2>1, <2>2 DEF GoodViews, Views
  <1>5. GoodFeed
    BY <1>4, NothingGood DEF LiveInit, GoodFeed
  <1>6. QED BY <1>1, <1>2, <1>3, <1>5, InvParts

LEMMA NextLiveInv == LiveInv /\ [LiveNext]_liveVars => LiveInv'
  <1> SUFFICES ASSUME LiveInv, [LiveNext]_liveVars PROVE LiveInv'
    OBVIOUS
  <1>1. IInv /\ PlainTypes /\ GoodFeed /\ AnnouncesOwnHold
    BY InvParts
  <1>2. Next \/ UNCHANGED vars
    BY LiveStepIsBooking DEF liveVars
  <1>3. IInv'
    BY <1>1, <1>2, NextIInv
  <1>4. AnnouncesOwnHold'
    BY <1>1, <1>2, AnnouncesKept
  <1>5. Connections
    BY <1>1 DEF PlainTypes, Connections
  <1>6. GoodFeed' /\ Connections'
    <2>1. CASE LiveNext
      BY <1>1, <1>2, <1>5, <2>1, LiveStepKeeps DEF LiveNext
    <2>2. CASE UNCHANGED liveVars
      BY <1>1, <1>2, <1>5, <2>2, QuietFeed DEF liveVars
    <2>3. QED BY <2>1, <2>2
  <1>7. undisturbed' \in [Browsers -> SUBSET Seats]
    BY <1>1 DEF LiveNext, TrackUndisturbed, liveVars, PlainTypes
  <1>8. PlainTypes'
    BY <1>6, <1>7 DEF Connections, PlainTypes
  <1>9. (IInv /\ PlainTypes /\ GoodFeed /\ AnnouncesOwnHold)'
    BY <1>3, <1>4, <1>6, <1>8
  <1>10. QED BY <1>9, InvParts, PTL

\* Everything on its way to a browser, and everything a browser shows, is true.
THEOREM LiveInvariance == LiveSpec => []LiveInv
  BY InitLiveInv, NextLiveInv, PTL DEF LiveSpec

\* The connections, the messages and the maps keep their form.
THEOREM LiveTypes == LiveSpec => []LiveTypeOK
  <1>1. LiveInv => LiveTypeOK
    BY DEF LiveInv
  <1>2. QED BY <1>1, LiveInvariance, PTL

\* A browser never shows as booked a seat that is not, or another buyer.
THEOREM ViewsAreSound == LiveSpec => []ViewSound
  <1>1. LiveInv => ViewSound
    BY DEF LiveInv
  <1>2. QED BY <1>1, LiveInvariance, PTL

-----------------------------------------------------------------------------
(* What everybody is told of a seat.                                       *)

\* Something in the system says that seat s is sold to session u: Redis, an answer
\* that was given, or the map of some browser.
SaidSold(s, u) ==
    \/ marker[s] = u
    \/ \E t \in told : t.seat = s /\ t.session = u
    \/ \E v \in Browsers : view[v][s] = Booked(u)

\* Once anything has said so, nothing ever says it of another session, to
\* anybody: not after crashes, restarts, a Redis that came back empty, or to a
\* browser that connects to another instance.
OneStory ==
    \A s \in Seats, u \in Sessions :
        [](SaidSold(s, u) => [](\A w \in Sessions : SaidSold(s, w) => w = u))

LEMMA SaidHasRow ==
    ASSUME LiveInv, NEW s \in Seats, NEW u \in Sessions, SaidSold(s, u)
    PROVE  [seat |-> s, session |-> u] \in bookings
  <1> USE DEF LiveInv, IInv
  <1>1. CASE marker[s] = u
    BY <1>1, RequestsAssumption, NoneAssumption DEF StoresAgree, MarkerSound
  <1>2. CASE \E t \in told : t.seat = s /\ t.session = u
    BY <1>2 DEF RequestsAgree, SuccessMeansOwner
  <1>3. ASSUME NEW v \in Browsers, view[v][s] = Booked(u)
        PROVE  [seat |-> s, session |-> u] \in bookings
    BY <1>3 DEF ViewSound, TrueOf, Booked
  <1>4. QED BY <1>1, <1>2, <1>3 DEF SaidSold

THEOREM EverybodyHearsOneStory == LiveSpec => OneStory
  <1>1. ASSUME NEW s \in Seats, NEW u \in Sessions
        PROVE  LiveSpec => [](SaidSold(s, u) =>
                                 [](\A w \in Sessions : SaidSold(s, w) => w = u))
    <2> DEFINE Bought == [seat |-> s, session |-> u] \in bookings
               Said == SaidSold(s, u)
               Unique == \A w \in Sessions : SaidSold(s, w) => w = u
    <2>1. LiveInv /\ Said => Bought
      BY SaidHasRow
    <2>2. Bought /\ [LiveNext]_liveVars => Bought'
      <3>1. [LiveNext]_liveVars => Next \/ UNCHANGED vars
        BY LiveStepIsBooking DEF liveVars
      <3>2. QED BY <3>1, TruthGrows
    <2>3. LiveInv /\ Bought => Unique
      <3> SUFFICES ASSUME LiveInv, Bought, NEW w \in Sessions, SaidSold(s, w) PROVE w = u
        OBVIOUS
      <3>1. [seat |-> s, session |-> w] \in bookings
        BY SaidHasRow
      <3>2. QED BY <3>1 DEF LiveInv, IInv, StoresAgree, NoDoubleBooking
    <2> HIDE DEF Bought, Said, Unique
    <2>4. LiveSpec => [](Said => []Unique)
      BY <2>1, <2>2, <2>3, LiveInvariance, PTL DEF LiveSpec
    <2>5. QED BY <2>4 DEF Said, Unique
  <1>2. QED BY <1>1 DEF OneStory
=============================================================================
