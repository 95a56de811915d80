-------------------------------- MODULE LiveMap --------------------------------
(***************************************************************************)
(* What the browsers see of the sale.  Each step of Booking that publishes *)
(* is composed with Redis pub/sub: an instance has two subscriptions, one  *)
(* for seat events and one for expired hold keys, each in order, neither   *)
(* in order with the other, and hands what arrives to the connections it   *)
(* has.  A browser builds its map from one snapshot, read from the two     *)
(* stores after it was registered for events, and from the events.         *)
(*                                                                         *)
(* The hub and the pumps are the module Hub: here a connection is one      *)
(* bounded queue, and a client that cannot keep up is dropped.             *)
(***************************************************************************)
EXTENDS Booking, Sequences

CONSTANTS
    Browsers,     \* the websocket connections, made again when they break
    BufferSize,   \* sendBufferSize
    MaxPending,   \* bound: messages under way on one subscription
    ReuseSlots,   \* bound: whether an answered request slot is used again
    FeedMayFail   \* bound: whether subscriptions and snapshots may fail

ASSUME LiveAssumption ==
    /\ None \notin Instances
    /\ BufferSize \in Nat \ {0}
    /\ MaxPending \in Nat \ {0}
    /\ ReuseSlots \in BOOLEAN
    /\ FeedMayFail \in BOOLEAN

VARIABLES
    subscribed,   \* the subscriptions Redis knows
    inbox,        \* messages on their way on each subscription, oldest first
    at,           \* the instance a browser is connected to, or None
    serve,        \* where ws.Serve is with the connection's snapshot
    snapshot,     \* the part of the snapshot read so far
    queue,        \* messages sent to the browser and not applied yet
    view,         \* the browser's map
    undisturbed   \* history: the seats unchanged since the browser connected

feed == <<subscribed, inbox>>
browser == <<at, serve, snapshot, queue, view>>
liveVars == <<vars, feed, browser, undisturbed>>

-----------------------------------------------------------------------------
Channels == {"seatEvents", "expired"}
Subscriptions == Instances \X Channels

Open == [status |-> "available", by |-> None]
Held(u) == [status |-> "held", by |-> u]
Booked(u) == [status |-> "booked", by |-> u]

\* A message gives some seats a state: all of them, or one.
Message(type, states) == [type |-> type, seats |-> states]
Event(type, s, state) == Message(type, [x \in {s} |-> state])

\* Variant: the event does not say who holds the seat.
HeldEventAnonymous(r) == Event("held", r.seat, Held(None))

HeldEvent(r) == Event("held", r.seat, Held(r.session))

\* Variant: the event names whoever holds the seat, not who bought it.
BookedEventOfHolder(r) == Event("booked", r.seat, Booked(hold[r.seat]))

BookedEvent(r) == Event("booked", r.seat, Booked(r.session))
FreedEvent(s) == Event("freed", s, Open)

Nothing == [x \in {} |-> Open]

LiveInit ==
    /\ Init
    /\ subscribed = {}
    /\ inbox = [k \in Subscriptions |-> <<>>]
    /\ at = [v \in Browsers |-> None]
    /\ serve = [v \in Browsers |-> "off"]
    /\ snapshot = [v \in Browsers |-> Nothing]
    /\ queue = [v \in Browsers |-> <<>>]
    /\ view = [v \in Browsers |-> [s \in Seats |-> Open]]
    /\ undisturbed = [v \in Browsers |-> {}]

-----------------------------------------------------------------------------
(* Publication and the two subscriptions of an instance.                   *)

Publish(channel, m) ==
    /\ \A k \in subscribed : k[2] = channel => Len(inbox[k]) < MaxPending
    /\ inbox' = [k \in Subscriptions |->
                    IF k \in subscribed /\ k[2] = channel THEN Append(inbox[k], m)
                    ELSE inbox[k]]
    /\ UNCHANGED subscribed

\* The event a handler is about to publish.
EventOf(r) == IF pc[r] = "publishHeld" THEN HeldEvent(r) ELSE BookedEvent(r)

Announce(r) ==
    /\ PublishHeld(r) \/ PublishBooked(r)
    /\ Publish("seatEvents", EventOf(r))
    /\ UNCHANGED browser

AnnounceAgain(r) ==
    /\ PublishReplyLost(r)
    /\ Publish("seatEvents", EventOf(r))
    /\ UNCHANGED browser

\* Redis publishes the key of a hold whose TTL ran out (notify-keyspace-events).
HoldExpires(s) ==
    /\ Expire(s)
    /\ Publish("expired", FreedEvent(s))
    /\ UNCHANGED browser

\* One of the two goroutines main() starts gets its subscription, for the first
\* time or again: clients may be connected already.
Subscribe(k) ==
    /\ inst[k[1]] = "up"
    /\ k \notin subscribed
    /\ subscribed' = subscribed \cup {k}
    /\ UNCHANGED <<vars, inbox, browser>>

\* The connection to Redis breaks: what was under way is lost, or some of it.
LoseSubscription(k) ==
    /\ k \in subscribed
    /\ FeedMayFail
    /\ subscribed' = subscribed \ {k}
    /\ \E n \in 0 .. Len(inbox[k]) : inbox' = [inbox EXCEPT ![k] = SubSeq(@, 1, n)]
    /\ UNCHANGED <<vars, browser>>

-----------------------------------------------------------------------------
(* The connection of a browser.                                            *)

HasRoom(v) == Len(queue[v]) < BufferSize

\* Variant: a client is registered only once its snapshot was sent.
BroadcastToSynced(i, m) ==
    LET ready == {v \in Browsers : at[v] = i /\ serve[v] \in {"sent", "sentDegraded"}}
    IN  /\ queue' = [v \in Browsers |->
                        IF v \in ready /\ HasRoom(v) THEN Append(queue[v], m) ELSE queue[v]]
        /\ at' = [v \in Browsers |-> IF v \in ready /\ ~HasRoom(v) THEN None ELSE at[v]]

\* Variant: a client without room misses the message and stays.
BroadcastLossy(i, m) ==
    /\ queue' = [v \in Browsers |->
                    IF at[v] = i /\ HasRoom(v) THEN Append(queue[v], m) ELSE queue[v]]
    /\ UNCHANGED at

\* Hub.Broadcast: a client without room is dropped, and still gets what was in
\* its channel.
Broadcast(i, m) ==
    /\ queue' = [v \in Browsers |->
                    IF at[v] = i /\ HasRoom(v) THEN Append(queue[v], m) ELSE queue[v]]
    /\ at' = [v \in Browsers |-> IF at[v] = i /\ ~HasRoom(v) THEN None ELSE at[v]]

\* The handler of a subscription.
Deliver(k) ==
    /\ inst[k[1]] = "up"
    /\ inbox[k] # <<>>
    /\ Broadcast(k[1], Head(inbox[k]))
    /\ inbox' = [inbox EXCEPT ![k] = Tail(@)]
    /\ UNCHANGED <<vars, subscribed, serve, snapshot, view>>

\* Serve: the client is registered, then its snapshot is built.
Connect(v, i) ==
    /\ at[v] = None
    /\ queue[v] = <<>>
    /\ inst[i] = "up"
    /\ at' = [at EXCEPT ![v] = i]
    /\ serve' = [serve EXCEPT ![v] = "loading"]
    /\ snapshot' = [snapshot EXCEPT ![v] = Nothing]
    /\ UNCHANGED <<vars, feed, queue, view>>

\* BuildSnapshot: first the rows of the table ...
ReadBookings(v) ==
    /\ serve[v] = "loading"
    /\ serve' = [serve EXCEPT ![v] = "scanning"]
    /\ snapshot' = [snapshot EXCEPT ![v] =
                       [s \in {x \in Seats : Sold(x)} |-> Booked(OwnerOf(s))]]
    /\ UNCHANGED <<vars, feed, at, queue, view>>

StateOfHold(s) == IF hold[s] = None THEN Open ELSE Held(hold[s])

\* Variant: what Redis says wins over the row.
ReadHoldOverRow(v, s) ==
    /\ serve[v] = "scanning"
    /\ s \notin DOMAIN snapshot[v] \/ hold[s] # None
    /\ snapshot' = [snapshot EXCEPT ![v] =
                       [x \in DOMAIN @ \cup {s} |-> IF x = s THEN StateOfHold(s) ELSE @[x]]]
    /\ UNCHANGED <<vars, feed, at, serve, queue, view>>

\* ... then the holds of the other seats, at any moment each.
ReadHold(v, s) ==
    /\ serve[v] = "scanning"
    /\ s \notin DOMAIN snapshot[v]
    /\ snapshot' = [snapshot EXCEPT ![v] =
                       [x \in DOMAIN @ \cup {s} |-> IF x = s THEN StateOfHold(s) ELSE @[x]]]
    /\ UNCHANGED <<vars, feed, at, serve, queue, view>>

\* Variant: without Redis the whole snapshot is empty.
ReadHoldsFailsEmpty(v) ==
    /\ serve[v] = "scanning"
    /\ FeedMayFail
    /\ serve' = [serve EXCEPT ![v] = "degraded"]
    /\ snapshot' = [snapshot EXCEPT ![v] = [s \in Seats |-> Open]]
    /\ UNCHANGED <<vars, feed, at, queue, view>>

\* Redis is unavailable: no holds at all, and redis_healthy is false.
ReadHoldsFails(v) ==
    /\ serve[v] = "scanning"
    /\ FeedMayFail
    /\ serve' = [serve EXCEPT ![v] = "degraded"]
    /\ snapshot' = [snapshot EXCEPT ![v] =
                       [s \in Seats |-> IF s \in DOMAIN @ /\ @[s].status = "booked"
                                        THEN @[s] ELSE Open]]
    /\ UNCHANGED <<vars, feed, at, queue, view>>

\* Postgres is unavailable: the client stays without a snapshot.
ReadBookingsFails(v) ==
    /\ serve[v] = "loading"
    /\ FeedMayFail
    /\ serve' = [serve EXCEPT ![v] = "without"]
    /\ UNCHANGED <<vars, feed, at, snapshot, queue, view>>

\* The snapshot is queued behind the events that came in the meantime, unless
\* the buffer is full.
SendSnapshot(v) ==
    /\ serve[v] \in {"scanning", "degraded"}
    /\ DOMAIN snapshot[v] = Seats
    /\ \/ /\ at[v] # None
          /\ HasRoom(v)
          /\ queue' = [queue EXCEPT ![v] = Append(@, Message("snapshot", snapshot[v]))]
          /\ serve' = [serve EXCEPT ![v] =
                          IF @ = "scanning" THEN "sent" ELSE "sentDegraded"]
       \/ /\ at[v] = None \/ ~HasRoom(v)
          /\ serve' = [serve EXCEPT ![v] = "without"]
          /\ UNCHANGED queue
    /\ snapshot' = [snapshot EXCEPT ![v] = Nothing]
    /\ UNCHANGED <<vars, feed, at, view>>

\* applySnapshot and applyDelta.
Apply(m, map) == [s \in Seats |-> IF s \in DOMAIN m.seats THEN m.seats[s] ELSE map[s]]

Receive(v) ==
    /\ queue[v] # <<>>
    /\ view' = [view EXCEPT ![v] = Apply(Head(queue[v]), @)]
    /\ queue' = [queue EXCEPT ![v] = Tail(@)]
    /\ UNCHANGED <<vars, feed, at, serve, snapshot>>

\* Connections that end, and what was under way on them is lost.
Disconnect(gone) ==
    /\ at' = [v \in Browsers |-> IF v \in gone THEN None ELSE at[v]]
    /\ serve' = [v \in Browsers |-> IF v \in gone THEN "off" ELSE serve[v]]
    /\ snapshot' = [v \in Browsers |-> IF v \in gone THEN Nothing ELSE snapshot[v]]
    /\ queue' = [v \in Browsers |-> IF v \in gone THEN <<>> ELSE queue[v]]
    /\ UNCHANGED view

LinkBreaks(v) ==
    /\ at[v] # None
    /\ Disconnect({v})
    /\ UNCHANGED <<vars, feed>>

-----------------------------------------------------------------------------
(* Faults of Booking that reach the feed.                                  *)

InstanceDies(i) ==
    /\ Crash(i)
    /\ subscribed' = {k \in subscribed : k[1] # i}
    /\ inbox' = [k \in Subscriptions |-> IF k[1] = i THEN <<>> ELSE inbox[k]]
    /\ Disconnect({v \in Browsers : at[v] = i})

\* main's context ends the two subscriptions at once; the hijacked websocket
\* connections are none of Shutdown's business and stay, deaf, ...
InstanceStops(i) ==
    /\ Stop(i)
    /\ subscribed' = {k \in subscribed : k[1] # i}
    /\ inbox' = [k \in Subscriptions |-> IF k[1] = i THEN <<>> ELSE inbox[k]]
    /\ UNCHANGED browser

\* ... until the process ends.
InstanceExits(i) ==
    /\ Exit(i)
    /\ Disconnect({v \in Browsers : at[v] = i})
    /\ UNCHANGED feed

RedisRestarts ==
    /\ RedisWipe
    /\ subscribed' = {}
    /\ UNCHANGED <<inbox, browser>>

Receives(r) ==
    /\ ReuseSlots \/ pc[r] = "idle"
    /\ ReceiveHold(r) \/ ReceiveConfirm(r)
    /\ UNCHANGED <<feed, browser>>

\* Variant: the sale is announced before the row is inserted.
HandlerGoesOnEagerly(r) ==
    \/ /\ HoldOwner(r) /\ AfterHoldOwner(r) = "insert"
       /\ Publish("seatEvents", BookedEvent(r))
       /\ UNCHANGED browser
    \/ /\ HoldOwner(r) /\ AfterHoldOwner(r) # "insert"
       /\ UNCHANGED <<feed, browser>>
    \/ /\ \/ TryHold(r) \/ BookingOwner(r)
          \/ ConfirmBooking(r) \/ ReadBack(r) \/ MarkBooked(r)
       /\ UNCHANGED <<feed, browser>>
    \/ Announce(r)

\* The steps of a handler nobody is told of, and those that are published.
HandlerGoesOn(r) ==
    \/ /\ \/ TryHold(r) \/ HoldOwner(r) \/ BookingOwner(r)
          \/ ConfirmBooking(r) \/ ReadBack(r) \/ MarkBooked(r)
       /\ UNCHANGED <<feed, browser>>
    \/ Announce(r)

\* An event whose publication fails is never sent.
HandlerFault(r) ==
    \/ /\ CallFails(r) \/ HoldReplyLost(r) \/ MarkReplyLost(r) \/ InsertReplyLost(r)
       /\ UNCHANGED <<feed, browser>>
    \/ AnnounceAgain(r)

InstanceStep(i) ==
    \/ /\ BootStep(i) \/ RehydrateFails(i)
       /\ UNCHANGED <<feed, browser>>
    \/ InstanceDies(i)
    \/ InstanceStops(i)
    \/ InstanceExits(i)

-----------------------------------------------------------------------------
Rows(s) == {b \in bookings : b.seat = s}

\* No event about the seat is under way, or about to be published by a hold.
Settled(s) ==
    /\ \A r \in Requests : r.seat = s => pc[r] # "publishHeld"
    /\ \A k \in Subscriptions : \A n \in 1 .. Len(inbox[k]) : s \notin DOMAIN inbox[k][n].seats

\* History: since v connected, at a moment when s was settled, neither the
\* hold nor the row of s changed.
TrackUndisturbed ==
    undisturbed' = [v \in Browsers |->
        {s \in Seats : /\ at'[v] # None
                       /\ IF at[v] = None THEN Settled(s) ELSE s \in undisturbed[v]
                       /\ hold'[s] = hold[s]
                       /\ Rows(s)' = Rows(s)}]

BrowserStep(v) ==
    \/ \E i \in Instances : Connect(v, i)
    \/ ReadBookings(v)
    \/ \E s \in Seats : ReadHold(v, s)
    \/ ReadHoldsFails(v)
    \/ ReadBookingsFails(v)
    \/ SendSnapshot(v)
    \/ Receive(v)
    \/ LinkBreaks(v)

\* Everything but the arrival of a request.
SystemStep ==
    \/ \E r \in Requests : HandlerGoesOn(r) \/ HandlerFault(r)
    \/ \E s \in Seats : HoldExpires(s)
    \/ \E k \in Subscriptions : Subscribe(k) \/ LoseSubscription(k) \/ Deliver(k)
    \/ \E i \in Instances : InstanceStep(i)
    \/ RedisRestarts
    \/ \E v \in Browsers : BrowserStep(v)

LiveStep == SystemStep \/ \E r \in Requests : Receives(r)

LiveNext == LiveStep /\ TrackUndisturbed

LiveSpec == LiveInit /\ [][LiveNext]_liveVars

\* A handler goes on, a delivered message is broadcast, and a browser reads
\* what it is sent.
LiveFairness ==
    /\ \A r \in Requests : WF_liveVars(HandlerGoesOn(r) /\ TrackUndisturbed)
    /\ \A k \in Subscriptions : WF_liveVars(Deliver(k) /\ TrackUndisturbed)
    /\ \A v \in Browsers : WF_liveVars(Receive(v) /\ TrackUndisturbed)

LiveFairSpec == LiveSpec /\ LiveFairness

-----------------------------------------------------------------------------
(* Properties                                                              *)

SeatStates == {Open} \cup {Held(u) : u \in Sessions} \cup {Booked(u) : u \in Sessions}

Views == UNION {[S -> SeatStates] : S \in SUBSET Seats}

Messages == [type : {"snapshot", "held", "booked", "freed"}, seats : Views]

LiveTypeOK ==
    /\ subscribed \subseteq Subscriptions
    /\ inbox \in [Subscriptions -> Seq(Messages)]
    /\ at \in [Browsers -> Instances \cup {None}]
    /\ serve \in [Browsers -> {"off", "loading", "scanning", "degraded",
                               "sent", "sentDegraded", "without"}]
    /\ snapshot \in [Browsers -> Views]
    /\ queue \in [Browsers -> Seq(Messages)]
    /\ view \in [Browsers -> [Seats -> SeatStates]]
    /\ undisturbed \in [Browsers -> SUBSET Seats]

\* A state of a seat that is not made up: a buyer has the row, a holder was
\* granted the hold.
TrueOf(s, state) ==
    /\ state.status = "booked" => [seat |-> s, session |-> state.by] \in bookings
    /\ state.status = "held" => [seat |-> s, session |-> state.by] \in granted

\* However late, doubled, lost or overtaken messages are: a seat is shown as
\* booked only if it is, and by the session shown, and as held only by a
\* session that was granted the hold.
ViewSound == \A v \in Browsers : \A s \in Seats : TrueOf(s, view[v][s])

\* What the stores say of a seat.
Truth(s) == IF Sold(s) THEN Booked(OwnerOf(s)) ELSE StateOfHold(s)

\* "so a dropped-and-restored connection always resyncs to the truth"
\* (useSeatSocket.ts): a browser that has applied all it was sent shows what the
\* stores say of each seat nothing happened to since it connected, the sold
\* ones even when Redis could not be read.
ResyncExact ==
    \A v \in Browsers : at[v] # None /\ queue[v] = <<>> =>
        \A s \in undisturbed[v] :
            \/ view[v][s] = Truth(s)
            \/ serve[v] = "sentDegraded" /\ ~Sold(s)
            \/ serve[v] \notin {"sent", "sentDegraded"}

\* Events of one seat come late, doubled and in any order, and browsers apply them
\* as they come.  That a map takes a sale back is the work of what was under way
\* when the seat was sold, and of nothing else: once that is gone, the map that
\* shows the sale keeps showing it for as long as its connection and Redis last,
\* whatever is tried with the seat, expires, fails or is rehydrated from then on.
KnowsSale(seats, s) == s \in DOMAIN seats /\ seats[s].status = "booked"

SpeaksOfSale(messages, s) ==
    \A n \in 1 .. Len(messages) :
        s \in DOMAIN messages[n].seats => KnowsSale(messages[n].seats, s)

SaleIsFinal(v, s) ==
    /\ at[v] # None
    /\ marker[s] # None /\ hold[s] = None
    /\ \A r \in Requests : r.seat = s => pc[r] # "publishHeld"
    /\ \A channel \in Channels : SpeaksOfSale(inbox[<<at[v], channel>>], s)
    /\ SpeaksOfSale(queue[v], s)
    /\ serve[v] \in {"scanning", "degraded"} => KnowsSale(snapshot[v], s)
    /\ KnowsSale(view[v], s)

SaleHasTheLastWord ==
    [][\A v \in Browsers, s \in Seats :
          SaleIsFinal(v, s) => SaleIsFinal(v, s)' \/ at'[v] # at[v] \/ RedisWipe]_liveVars

\* A sale reaches every browser that is connected to an instance that is
\* subscribed, however far with its snapshot, provided the seller does not fail
\* (a command sent twice is no harm): it is shown as booked, at least for a
\* moment, or the connection or the subscription ends.
BeingSold(s) == \E r \in Requests : r.seat = s /\ pc[r] = "markBooked"

Watching(v) == at[v] # None /\ <<at[v], "seatEvents">> \in subscribed

SellersGoOn == faults = MaxFaults \/ FaultKinds \subseteq {"lostReply"}

SalesReachWatchers ==
    \A v \in Browsers : \A s \in Seats :
        (BeingSold(s) /\ Watching(v) /\ SellersGoOn)
        ~> (view[v][s].status = "booked" \/ ~Watching(v))

\* What keeps such promises, and holds without any fairness.  From the moment an
\* event is published it is on its way to each browser whose instance has that
\* subscription: in the inbox of the instance or in the browser's queue, through
\* slow clients that are dropped, subscriptions that end, snapshots queued in
\* between and stops.  It only gets off the way by being applied, or the browser
\* is cut off from the channel (Hub.Broadcast: a client that misses a message
\* must "reconnect and resync").
Follows(v, channel) == at[v] # None /\ <<at[v], channel>> \in subscribed

Tells(m, s, state) == s \in DOMAIN m.seats /\ m.seats[s] = state

Carries(messages, s, state) == \E n \in 1 .. Len(messages) : Tells(messages[n], s, state)

OnTheWay(v, channel, s, state) ==
    Carries(inbox[<<at[v], channel>>], s, state) \/ Carries(queue[v], s, state)

IsPublished(channel, s, state) ==
    \/ /\ channel = "seatEvents"
       /\ \E r \in Requests : /\ r.seat = s
                              /\ Announce(r) \/ AnnounceAgain(r)
                              /\ state = EventOf(r).seats[s]
    \/ channel = "expired" /\ HoldExpires(s) /\ state = Open

EventsStayOnTheWay ==
    [][\A v \in Browsers, channel \in Channels, s \in Seats, state \in SeatStates :
          /\ Follows(v, channel)
          /\ OnTheWay(v, channel, s, state) \/ IsPublished(channel, s, state)
          => \/ ~Follows(v, channel)'
             \/ OnTheWay(v, channel, s, state)'
             \/ view'[v][s] = state]_liveVars

\* client.go:56 "even if a delta races ahead of the snapshot the final state is
\* correct": a snapshot does not take back a sale the browser was told of.
SnapshotKeepsSales ==
    [][\A v \in Browsers : \A s \in Seats :
          /\ queue[v] # <<>> /\ queue'[v] = Tail(queue[v])
          /\ Head(queue[v]).type = "snapshot"
          /\ view[v][s].status = "booked"
          => view'[v][s].status = "booked"]_liveVars
=============================================================================
