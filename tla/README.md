# GrabSeat in TLA+

Models, model-checking runs and machine-checked proofs for GrabSeat, a seat
booking service: several Go instances behind a gateway share one Redis (holds,
a cache of sold seats, pub/sub) and one Postgres (the bookings), and push every
seat change to browsers over websockets.

To check a run: `tlc -config <file>.cfg <module>`; to check the proofs of a
module: `tlapm <module>.tla`. `PROJECT.json` lists the runs, the source lines of
every definition, the mutants, the hazards, the findings and the theorems.

## Inventory

| component | state | operations | what makes it correct |
|---|---|---|---|
| `booking.Service` (`booking/booking.go`) | none of its own | `Hold`, `Confirm` | one owner per seat; a success is true for ever; one sale is announced once; an owner is never told it lost |
| `locking.Client` (`locking/locking.go`) over Redis | `hold:<seat>` with a TTL, `booked:<seat>` without | `TryHold`, `HoldOwner`, `MarkBooked` (two Lua scripts and a GET), `RehydrateBooked`, `HeldSeats`, `Publish`, two subscriptions | a marker always stands for a row; every row gets its marker in the end |
| `store.Store` (`store/store.go`, `db/schema.sql`) over Postgres | `bookings` (UNIQUE `seat_id`), `events`, `seats` | `ConfirmBooking`, `BookingOwner`, `BookedSeats`, `Seats`, `BookingStats`, `SeedIfEmpty` | at most one row per seat; one seeded event |
| instance (`main.go`) | its place in the boot sequence | connect, migrate, seed, rehydrate, listen, two subscription goroutines, shutdown | it rehydrates before it serves; what it sells while it drains is marked |
| `ws.Hub`, `ws.Client` (`ws/`) | registered clients, a send channel each, three goroutines per connection | `add`, `remove`, `Broadcast`, `Serve`, `readPump`, `writePump` | no panic; a slow client blocks nobody and never goes on with a gap; everything is cleaned up |
| `ratelimit.Limiter` (`ratelimit/ratelimit.go`) | a map of token buckets | `get` and `Allow` (middleware), `cleanupLoop` | no key gets more than its share, none is affected by another, cleanup cannot be observed |
| `api.Server` (`api/`) | the set of valid seats | the handlers, `BuildSnapshot` | a snapshot shows every booked seat |
| live map (`frontend/lib/useSeatSocket.ts`) | the seat map | snapshot, deltas, reconnect | it shows nothing that was not; it converges to the truth |
| page (`frontend/app/page.tsx`, `frontend/lib/api.ts`) | the selection, `busy`, `wasMine` | `onSelect`, `doHold`, `doConfirm`, an effect, toasts | it only asks for what it was granted; a toast tells the truth; its buttons come back |

How they interact: a handler calls Redis, then Postgres, then Redis again, with
nothing held across the calls; instances meet only in the two stores; `Publish`
and the key-expiry events of Redis call `Hub.Broadcast` on every instance from
two goroutines; a connection's snapshot is built from Postgres first and Redis
afterwards, after the client was registered for deltas.

What is hard: requests of several sessions, and of one (double click, retry),
interleave between any two of those calls; a hold may expire between them; each
call may fail, or succeed and lose its reply (go-redis sends the command again,
pgx does not); an instance may die anywhere and restarts; Redis runs without an
append-only file and may come back empty; buffers fill up. In the browser an
answer and the event of the same hold take different ways, and the user clicks
between them. `PROJECT.json`
("hazards") lists these at their lines, with the properties that cover them.

## Modules

| module | models | status |
|---|---|---|
| `SeatSale` | what the system promises about a sale | done |
| `Booking` | `booking.Service` with the two stores, several instances, rehydration and every fault | done |
| `BookingProofs` | theorems about `Booking` | done |
| `Hub` | the hub and the goroutines of its connections | done |
| `HubProofs` | theorems about `Hub` | done |
| `TokenBuckets` | what the rate limiter promises | done |
| `RateLimiter` | the limiter with lazy refill and cleanup | done |
| `RateLimiterProofs` | theorems about `RateLimiter` | done |
| `LiveMap` | publication, the two subscriptions, snapshot and the browser's map, composed over `Booking` | done |
| `LiveMapProofs` | theorems about `LiveMap`, on top of `BookingProofs` | done |
| `ResyncProofs` | that connections resync to the stores, on top of `LiveMapProofs` | done |
| `DeliveryProofs` | that published events are not lost on their way, on top of `ResyncProofs` | done |
| `OneVenue` | what the start of any number of instances promises | done |
| `Startup` | migration and seeding by several instances | done |
| `StartupProofs` | theorems about `Startup` | done |
| `Page` | one tab: selection, hold, confirm, toasts and the limiter's refusals, composed over `LiveMap` | done |
| `PageProofs` | theorems about `Page`, on top of `LiveMapProofs` | done |
| `MCBooking`, `MCHub`, `MCRateLimiter`, `MCLiveMap`, `MCStartup`, `MCPage` | instances for TLC | done |

### Booking

`hold` and `marker` are the two key families of Redis, `bookings` the rows of
the table, `inst` and `toMark` an instance's place in `main()` and the rows it
still has to rehydrate. `pc` says at which call a request is, or how it was
answered; a request slot is reused once it was answered, so a session may click
and retry for ever. There is one action per store call: `TryHold` runs the whole
hold script, `ConfirmBooking` the INSERT, `ReadBack` the SELECT after a
conflict, and so on. What `HoldOwner` read is kept only in the next value of
`pc`, as the code keeps it in local variables, and may be stale when it is used.
`Continue` is the one way a handler goes on, and records the successes it
answers in the history variable `told`; `granted` is the history of holds.

Faults are actions of their own, at most `MaxFaults` of the kinds in
`FaultKinds`: `CallFails` (an error, or a cancelled context, at any call, with
the code's reaction to it), the lost replies of the three commands that write and of
`PUBLISH` (the command runs, and is sent again or fails), `RedisWipe`, `Crash`,
`Stop` and `RehydrateFails`. `Expire` is no fault: a hold may end at any moment.
`Stop` is SIGTERM, or a listener that failed: the instance is "draining", takes no
request and finishes those it has, and `Exit` is the end of `Shutdown` and of
`main`. When `Shutdown` gives up after 8 seconds the process dies under its
handlers, which is `Crash`.

Abstracted: times and TTL values, the contents of events (the publish steps stay,
for the failures they may have), the single `event_id`. Not modelled: a command
store runs after its client gave up on it (an INSERT whose reply was lost is
committed by the time of the 503, or never), and a Redis that restores an old
snapshot file rather than nothing.

### LiveMap

`LiveMap` extends `Booking`: each of its steps is a step of `Booking` together with
what Redis and the browsers see of it, or a step of the feed alone. `PublishHeld`
and `PublishBooked` append a message to `inbox`, which has one queue for each
instance and channel: `SubscribeSeatEvents` and `SubscribeExpiries` are two
connections, each in order, neither in order with the other. `Expire` puts a freed
event on the second. A message gives some seats a state, a snapshot all of them
and an event one, so that `applySnapshot` and `applyDelta` are the one operator
`Apply`. `Deliver` is the handler `main()` gives a subscription: it broadcasts.

A connection is `at` (the instance it is registered with), `serve` and `snapshot`
(how far `ws.Serve` is) and `queue` (the send channel and the wire, `BufferSize`
long, in place of the goroutines of `Hub`). `BuildSnapshot` is taken apart where
the world may change: the rows are read at once, each hold key on its own later
(SCAN and a pipeline of GETs are not atomic), the result is enqueued later still,
behind the events that came since the client was registered. Postgres or Redis
may be unreadable. `view` is the `Map` of `useSeatSocket`; it outlives a
connection, as in the code. `InstanceDies`, `InstanceStops`, `InstanceExits` and
`RedisRestarts` are `Booking`'s faults with their effect on subscriptions and
connections: a stop ends the subscriptions at once, with `main`'s context, but the
hijacked websockets only with the process, so that browsers listen to an instance
that hears nothing while it drains; `LoseSubscription` and
`LinkBreaks` belong to the feed. `undisturbed` is a history variable: the seats
that neither changed since the browser connected nor had an event under way then.

Bounds that are not the code's: `MaxPending` messages on a subscription,
`ReuseSlots` (whether an answered request may be sent again; the theorems allow
it, the runs do not) and `FeedMayFail`. Abstracted: expiry times, `served_by`, the
delay before a reconnect, and a browser that never reconnects. Not modelled: the Go
channel behind `Channel()` of go-redis, which drops a message when its buffer stays
full, without ending the subscription; an inbox that is full holds its publishers
up instead.

### Page

`Page` extends `LiveMap` by one tab: the session `Me`, its connection `Tab`, and
the requests it sends. `selected`, `busy` and `wasMine` are the state of
`page.tsx`; `wasMine` also keeps *which* seat was held, which the code does not,
so that what the effect reports can be compared with the truth. `call` says where
each `fetch` is: on its way, or with its handler. A toast is an output:
`TextOf(Reply(...))` is the one an answer leads to, through the status codes of
the handlers, and `ExpiryToast` the one of the effect.

What may be clicked is what the components offer: an open seat or one's own on the
map (`Free`, `HeldByMe`), the panel's button for the selected seat unless `busy`.
A click on the map does not look at `busy`, so that calls overlap. `Arrive` is
a step of `LiveMap` (the request passes the limiter and reaches its handler),
`Refused` the limiter's 429, `FetchFails` a dead process or a broken network, also
after the request arrived: its handler goes on. Requests of other sessions, and
of a duplicate of the tab (which copies `sessionStorage`, and with it the
session), come as they like.

`Effect` runs some time after the render it belongs to, and renders may be
skipped. Bounds: `ReuseSlots` and `NetworkMayFail`. Abstracted: the one fetch of
the venue, the lists and the timers of toasts, the countdown.

### Startup

`pc` follows `main()` from the connection to Postgres to the loaded venue; what
comes after (rehydration) is `Booking`'s. Two transactions matter. The schema
runs as one statement batch: `FindNoTables` looks, `CreateTables` waits until no
other transaction is creating them, and fails if one has (`CreateConflicts`).
`SeedIfEmpty` counts outside its transaction, so that several instances may find
nothing; the insert of the unique slug waits in the same way. `seeder` and
`draft` are the open seeding transaction, `events` what is committed; an id that
was drawn is never given back. On a database that has its tables the batch still
takes a lock: `CREATE INDEX IF NOT EXISTS` (`schema.sql:28`) locks the seats before
it looks for the index. `LockSeats` waits for a seeding that has inserted seats
(`SeatsBeingWritten`), `sharing` is who has the lock until the batch is over
(`FindTables`), and `InsertSeat` waits for them with the first seat. A process may die
at any point (`Dies`), also while it serves; its open transaction becomes an `Orphan`,
which Postgres rolls back, or commits if everything had been sent. A call that fails ends the process as well,
as `main()` exits on every error here.

Left out: the lock of the other index (`schema.sql:40`), which waits for the
bookings of instances that serve, single INSERTs that wait for nobody in turn; what a
statement does that was waiting when its process died (Postgres runs it, or gives it
up, and ends its transaction with it, here it is gone at once); and the number of
orphans that share a lock, which end together.

`OneVenue` says what all this is for, in three actions: a whole venue is published
once, an instance serves the event that was published, and an instance ends.
`Startup` implements it with the committed events and the event each serving
instance loaded. This is why `Booking` and the modules above it may take the seats
as a constant, the same for every instance and for ever.

### SeatSale

`owner`, `granted` and `told`, with four actions: a hold is granted, a seat is
sold to a session that was once granted a hold on it, the sale is confirmed (at
most once), an owner is reminded. `Booking` implements it with the owner of a
seat read from the table. That the buyer must hold the seat *at the moment of
the sale* is deliberately not part of it: the code does not ensure it (see the
findings).

### Hub

`clients` is the hub's map, `queued` and `closed` a client's channel, `phase`,
`todo` and `stuck` the state of a running `Broadcast`. Sending happens under the
read lock one client at a time, so two broadcasts overlap, while `add` and
`remove` need `LockFree`. `Serve` sends the snapshot without the lock. What
messages say is left out, so a channel is a count. The reader notices a broken
connection, the writer drains and closes; either may be first.

### RateLimiter and TokenBuckets

Time is counted in ticks and tokens in fractions of `1/Minute`, so that the
code's rate of `perMinute/60` a second is exact. A bucket is refilled lazily from
the time of the last take; `Cleanup` drops buckets that were idle for more than
`IdleMinutes`. `TokenBuckets` refills all buckets at every tick and forgets
nothing; the refinement maps its level to what the lazy computation would yield.
A request finds its bucket under the mutex (`Begin`, `get`) and takes its token
later without it (`Allow`, `Deny`): other requests of the key and the cleanup come
between, for at most `MaxDelay` ticks. The relation between the constants that
all this needs is `LimiterAssumption`: a bucket is not dropped within that delay,
and what is left of the idle time fills it. The code has a burst of 10 and 10
minutes, so at one request a minute, the slowest rate it takes, a request may
stay there for a second and no longer; at the configured rates there is ample
room. `ClientKey` is the session of the request, or else its address. The limiter is
one instance's: a session that reaches several has a bucket on each, and all that is
said here is said of one. Ticks are whole, where `rate.Limiter` counts time as it
passes: two requests within a tick are at one moment here, and a bucket is refilled in
steps.

## Runs

| run | bounds | what it shows |
|---|---|---|
| `booking_faults` | one seat, two sessions, three request slots (one session has two), one instance, three faults of any kind, stops included | types, no double booking, a success is ownership, one announcement per sale, sound markers, answers the stores bear out, holds nobody takes away, true rejections, refinement of `SeatSale` |
| `booking_recovery` | two seats, two instances with a request slot each, three crashes or stops, with fairness | every sold seat always has somebody who will mark it, and is marked in the end; a marker stays as it is, whatever rehydrations of older reads come between |
| `booking_stale_hold` | no faults | *violation*: a seat is booked by a session whose hold has run out |
| `booking_redis_wiped` | one wipe, with fairness | *violation*: markers are not written again when Redis comes back |
| `hub_fanout` | two connections, two broadcasters, a buffer of one, two broadcasts, with fairness | no panic, no silent gap, no part of a connection left behind, broadcasts never wait, slow and gone clients end, and those whose `Serve` panicked |
| `hub_snapshot_dropped` | the same, snapshots never fail to build | *violation*: a registered client without a snapshot |
| `limiter` | a session and an address, two request slots, a minute of two ticks, burst and idle time of two minutes, one request a minute, a delay of one tick, 8 ticks | types, throttling, no bucket dropped while a request has it, refinement of `TokenBuckets` |
| `livemap_feed` | one seat, one session with two requests, one browser, a buffer of two, two messages under way per subscription, one fault of any kind; connections, subscriptions and snapshots may fail any number of times; with fairness | no map shows a sale or a hold that was not; a reconnect shows the truth, or the sold seats when Redis is down; a published event stays on its way until it is applied or the browser is cut off; a sale is shown to every browser whose instance is subscribed, and once nothing older is under way nothing takes it back |
| `livemap_overtaken` | two sessions, no faults | *violation*: a snapshot takes a sale back |
| `startup` | three instances, a venue of two seats, two of them killed, with fairness | one whole event; who serves, serves it; refinement of `OneVenue` (published once, never replaced); locks never close a ring of waits; all come up |
| `page_tab` | one seat, one session with two requests, sent by the tab or its duplicate, one connection, a buffer of two, one message under way per subscription, the network may fail any number of times; with fairness | a confirm is only sent for a granted hold; "Booked!" is true; the answers of the two handlers do not mix; the buttons come back; a granted hold reaches the tab's map |
| `page_expiry_toast` | two seats, no faults | *violation*: "your hold expired" while the hold is there |

Why the bounds are enough: seats do not interact except in a crash, a wipe and a
rehydration, and the recovery run has two rows to rehydrate. Three slots are a
double click of one session against another session; three faults let a lost
reply, its consequence and a crash meet. For the hub, a buffer of one is full
after one message, so that two broadcasts overflow it, at once or one after the
other. For the limiter the configuration is the tight case of the assumption, and 8
ticks are enough to empty a bucket, have it forgotten, and empty it again.
For the map, an event ahead of the snapshot and one behind it need a buffer of two
and one message on each subscription; seats do not interact there, and a browser
never affects another. Two requests are a hold and its confirm, or a hold, its
expiry and a hold again. A second session is in `livemap_overtaken` only: with
one, `livemap_feed` would have ten times as many states, and what another session
adds to the map, a hold that is not one's own, is covered by the theorems about
`ViewSound` and `ResyncExact`. For the tab, two requests are a double click, a hold and its confirm,
or a retry. The violation needs a second seat; what the other properties of the
page say of a seat does not involve another. For the start, the third instance meets the other two in
every phase of their race, and two deaths allow an orphan in each transaction.
All safety properties of these runs, except `BroadcastNeverWaits`, are also proved
without any of these bounds.

Fairness: `Booking` assumes that a running handler takes its next step and that
an instance that drains ends, and one that is down or booting comes up (`Shutdown`,
`restart: unless-stopped`); after a deliberate stop, which that policy does not
undo, it is whoever stopped the instance that is assumed to start it again, and
without that `SoldEventuallyMarked` holds only for stops that are followed by a
start. Nothing is assumed of clients, expiries or faults. `Hub` assumes that running
broadcasts and pumps go on, because goroutines are scheduled, a waiting writer of
an `RWMutex` is not starved, and a write ends at its deadline; nothing is assumed
of browsers, of the building of snapshots, or of the arrival of events. `LiveMap`
assumes that a handler goes on, that a message that reached an instance is handed
on and that a browser reads; nothing of connections, subscriptions or snapshots.
`Page` adds that a call ends, if only by failing, when its handler has answered or
died; nothing is assumed of the user, nor that a request is ever sent.
`Startup` assumes that a process goes on and is started again when it exited
(`restart: unless-stopped`), and that Postgres ends the transaction of a client
that is gone, whether it has rows or only a lock. `Hub`'s run does not check deadlock: it stops when all connections
are over and all broadcasts made. Nor does `startup`: it stops when all serve.

## Findings

Five runs show where the code does not do what a comment says; `PROJECT.json`
quotes the lines. The sale itself stays consistent in all of them: the worst
effect is a session that is told "held" although the seat is sold, a browser whose
map is empty, or shows a sold seat as open, until it reconnects, and a page that
says a hold is lost that is not.

Four things the models show without a run of their own. "taken" does not mean what
the code says of it ("held by someone else", `booking.go:24`; "someone else already
holds it", `locking.go:31`; "someone grabbed this seat first", `handlers.go:106`):
the script does not compare sessions, so a session that clicks twice on a seat is
told "taken" about its own hold. `AnswersTrue` therefore asks only that another
session *or the caller* was granted the seat. A holder whose first reply of the hold
script was lost is told the same by the second one go-redis sends, and nobody is told
of the hold until it expires (`HoldReplyLost`); the sale stays a sale of `SeatSale`.
A freed or held event that is still under way when a seat is sold may be applied after
the booked event, and then the map shows the sold seat as open or held until the
browser reconnects, as after the snapshot of `livemap_overtaken`;
`SaleHasTheLastWord` says that nothing else takes a sale back while Redis lasts, and
this is the most there is to say of the order of the two subscriptions. And `busy` counts
no calls: when two overlap, the first to end gives the buttons back, so that
`busy` does not keep a user from sending a third; the stores make that harmless.

## Proofs

All theorems hold for every value of the constants under the named assumptions
of the modules (`NoneAssumption`, `RequestsAssumption`, `FaultsAssumption`,
`HubAssumption`, `LimiterAssumption`, `NoBucketAssumption`, `LiveAssumption`,
`StartupAssumption`, `NoRequestAssumption`, `PageAssumption`).

`BookingProofs`. `NoDoubleBooking`, `SuccessMeansOwner`, `OneSale` and
`MarkerSound` are not inductive alone. `IInv` adds that holds and rows were once
granted, that an instance rehydrates only rows that are in the table, that a
request at the insert was granted a hold, and that a request in the steps after
the insert has its row. The lemma `ContinueKeeps` says once what a handler has to
know before it goes on; each action then only shows that it knows. From `IInv`
follow the four invariants, `TruthfulRejection` (the SELECT returns the one row
there is, and an owner's row never leaves) and `SaleSpec`. `SaleIsBeingMarked`
needs an induction of its own on top: a marker once there stays (only a wipe
removes it), and each of those who have the marker still to write writes it or
dies, which leaves an instance that will read the table. `MarkersStay` is about
two states (`MarkerKept`): a marker before and one after a step both stand for rows,
and of a seat there is only one. `HoldsAreKept` needs that a script of a sale runs only for
a row that is there. `AnswersTrue` (of "taken" see above) is an induction on top of `IInv`, as an answer
is about what the stores said when it was given: rows and grants only grow
(`TruthGrows`), so it is enough that each step that answers has its grounds.

`LiveMapProofs`. Each action of `LiveMap` takes a step of `Booking` or leaves its
variables alone, so `LiveSpec` implies `Spec` and all of the above holds in spite
of the audience. `ViewSound` is not inductive: `LiveInv` adds that everything on
its way to a browser (on a subscription, in a snapshot being read, in a queue) is
as true as the view has to be, and that a handler about to announce a hold was
granted it. A booked event is true because its handler is past the insert, which
is `IInv`'s part. Truth does not age, as rows and `granted` only grow; this is why
no order of messages can spoil it, and why the lemmas about queues need no order.
`OneStory` is about everything that says who bought a seat, the markers, the
answers and the maps of all browsers: each has the row behind it (`SaidHasRow`), the
row is for ever, and there is only one.

`ResyncProofs`. `ResyncExact` is about the present, and `LiveInv` says only that
messages were true once. `ResyncInv` relates a seat that did not change since the
browser connected to all that is under way about it: no handler is about to
announce a hold (a grant would have changed the seat), what the subscriptions
carry says what the stores say (a booked event is the row of `IInv`), a snapshot
being read has the row of a sold seat, as the table is read before the holds,
and, once the snapshot was queued, it is in the queue or the view is right. The
proof follows the snapshot through its stages (`BrowserFollows`) and shows that
an event may be added in any of them (`DeliverFollows`); nobody else's step
matters, as the truth of the seat stays (`TruthStays`).

`DeliveryProofs`. `EventsStayOnTheWay` is the part of the delivery promises that
needs no fairness: every step either leaves an event in the inbox or the queue
that carries it, or moves it from the first to the second, or shows it, or ends
the connection or the subscription. The decisive step is `Delivered`: a browser
that is still registered after a broadcast had room. Both queues are only added to
at their end (`InboxGrows`, `QueueGrows`) and only taken from by the two actions
fairness is assumed of, so `EventsMoveUp` bounds the way: an event with n messages
in front of it has n - 1 after the next delivery, or after the next read, and
nothing else sets it back. `SalesGetOut` is the way up to the event: with no fault
to come but lost replies (`OnlyRepliesAreLost`), a handler past the insert stays where
it is or goes on to the marker and the event (`SellersSell`), whatever the others
do. `SaleHasTheLastWord` follows the sale through all that may contradict it: the
stores (`SaleStaysInStores`: the hold script writes nothing over a marker, and a
marker stays by `MarkerKept`), the two inboxes (`SaleStaysInInbox`: a seat without a
hold has none that expires), and the snapshot, the queue and the map
(`SaleStaysWithBrowser`: the rows are read before the holds, and a failed read of the
holds leaves the sold seats in).

`PageProofs`. A step of `Page` is one of `LiveMap` or leaves its variables alone
(`PageImplementsLive`), so everything above holds for a system that is driven by
pages. `ConfirmsOwnHolds` and `BookedToastTrue` are not inductive: `PageInv` adds
`LiveInv` (what the tab is shown as its own hold was granted to its session) and
that a success about to be answered is on record in `told`, whose entries have
their rows by `IInv`. `AnswersMatch` needs of the system only that a handler never
changes from one path to the other (`HandlersStayOnPath`), and of the page that
a slot is not used again while its call is open. No assumption about the network,
the order of answers or the user is needed. `PageImplementsSale` puts the three
refinements together: what the users of a page bring about is the sale of
`SeatSale`.

`StartupProofs`. `Inv` adds that the open seeding transaction is exactly its
owner's and exists only while there is no event, and that whoever is past the
seeding has the id of an event. `CommitKeeps` is shared by the commit of a running
instance and of an orphan. `EventStays` follows from the same invariant: the two
steps that commit need a seeder. With it the refinement of `OneVenue` is a case for
each action: the commits publish, loading the venue serves, death and exit end, and
all other steps change nothing it speaks of. `TablesFirst` and `WaitsEnd` rest on
a second invariant (`SchemaInvariance`): the open transaction that creates the
tables is that of the one process in the middle of it, or an orphan, and so is every
lock on the seats. Who has such a lock is past its only wait, and who waits for it has
inserted no seat yet: so the longest chain is a process that waits for the slug, one
that waits with its first seat, and one that is about to end its batch.

`HubProofs`. `HubInv` adds that a closed channel belongs to no registered client,
that a broadcast with the lock offers to registered clients only (nobody else can
have the write lock), and that a connection not made yet has no past. For
`NothingLeaks` it is joined with `PartsFollow`: in which order the map, the
channel, the reader, the writer and the connection may end. `EndsGoForward` needs
both. No step takes back a part of an end that has begun (`AllForward`; a closed
channel is never filled, as offers are to registered clients), so what is left of a
connection and what is left in its closed channel only shrink, and each step of those
`NothingLeaks` names makes one of the two smaller (`EndStepsCount`).

`RateLimiterProofs`. Each action's effect on the levels is a lemma; the one about
`Cleanup` rests on `IdleIsFull`, that what is left of `IdleMinutes` after the
delay of a request refills any bucket. `Waiting` (the bucket of a request under
way is there, and was seen no earlier than the request) gives `KeptWhileNeeded`.
`Balance` (what was served and what is left is at most what was given) gives
`Throttled`, and the same lemmas give the refinement. The bound for an interval
(`ThrottledInAnyWindow`, the theorem `NeverTwiceTheBurst`) is the same balance,
opened when the interval begins, with whatever the bucket holds then
(`WindowOpens`) and kept by every step (`WindowKept`, from `NothingForFree`): a
bucket that was forgotten in between was full, and comes back no fuller.

Lemmas about the code's numbers: `NumbersOfTheCode` shows that a burst of 10 and an
idle time of 10 minutes satisfy `LimiterAssumption` at every rate, with a delay of
one second at one request a minute and of 301 seconds at any higher rate, and that
at one a minute two seconds are too many.

Only proved: the inductive invariants (`IInv` and those of the other modules,
with `TablesFirst` in the one of the start); `EventStays`, of which the run checks
the refinement it is part of; `OneStory`, `EndsGoForward`, `EventsMoveUp` and
`SalesGetOut`, which say more than the invariants and action properties of the
runs they belong to; and `ThrottledInAnyWindow`, which quantifies over moments and
counts, so that TLC would have to check a temporal formula for each pair of them.

Only model-checked: the liveness properties (`SoldEventuallyMarked`,
`SlowOrGoneClientsEnd`, `SalesReachWatchers`, `AllComeUp`, `BusyEnds`,
`HoldsReachTheirTab`), since temporal reasoning under fairness is outside what
the provers used here do, and `BroadcastNeverWaits`, which is stated with ENABLED.
What such a promise needs of every single step is proved where it can be said:
`SaleIsBeingMarked` for the first, `NothingLeaks` and `EndsGoForward` for the
second, `SalesGetOut`, `EventsStayOnTheWay` and `EventsMoveUp` for the two
deliveries, and `WaitsEnd` for the start. The step from there to "in the end" is TLC's.

## Not modelled

Logging, tracing and CORS (`observability.go`, `middleware.go`), the handlers that
only read (health, statistics, event, state), the gateway and the deployment
files, rendering, and the loading of the configuration: stateless, or without
effect on what is sold. The load tests are clients of the system; the claims they
check are the properties of the models. Clocks are not modelled outside the rate
limiter: a hold may expire at any moment, so that no property depends on a TTL,
and the countdown of `SidePanel.tsx`, which reads the clock of the browser, is
left out. So is the one fetch of the venue by the page: it is made once, and a
failure leaves nothing behind.

## Plan

Proofs: that the connection of `LiveMap`, one bounded queue, is what a connection of
`Hub` amounts to, which needs what `Hub` leaves out, the contents of the messages,
and what `LiveMap` leaves out: a client that has missed a message may still be sent
a later one before its channel is closed (no property of `LiveMap` is about such a
client).
Runs: two seats and two instances in one run of `LiveMap`, and a second session in
`livemap_feed`, for the liveness that the proofs do not reach.
