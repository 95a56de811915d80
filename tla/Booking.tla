------------------------------- MODULE Booking -------------------------------
(***************************************************************************)
(* The sale of a seat: booking.Service (Hold and Confirm), the Redis lock  *)
(* client it calls (locking.Client), the Postgres table it writes          *)
(* (store.Store) and the rehydration every instance runs before it serves. *)
(*                                                                         *)
(* Several instances share one Redis and one Postgres.  A request is a     *)
(* small process: one action per call it makes to a store, since every     *)
(* other request, the expiry of a hold, and every failure may come between *)
(* two of them.  A Lua script, and a single SQL statement, is atomic.      *)
(***************************************************************************)
EXTENDS Naturals, FiniteSets

CONSTANTS
    Seats,        \* the seats of the event
    Sessions,     \* the browser tabs (X-Session-Id)
    Instances,    \* the backend processes behind the gateway
    Requests,     \* request slots [at, session, seat, copy]
    None,         \* no hold, no marker
    FaultKinds,   \* the faults a behaviour may contain
    MaxFaults     \* how many of them: the bound of the fault counter

ASSUME NoneAssumption == None \notin Sessions

ASSUME RequestsAssumption ==
    Requests \subseteq
        [at : Instances, session : Sessions, seat : Seats, copy : Nat]

ASSUME FaultsAssumption ==
    /\ FaultKinds \subseteq {"error", "lostReply", "redisWipe", "crash", "stop"}
    /\ MaxFaults \in Nat

VARIABLES
    hold,      \* Redis hold:<seat>, the holding session (with a TTL)
    marker,    \* Redis booked:<seat>, the buying session (no TTL)
    bookings,  \* the rows of the Postgres table, [seat, session]
    inst,      \* where each instance is in its life
    toMark,    \* the rows an instance read and still has to rehydrate
    pc,        \* where each request is, or the answer it was given
    granted,   \* history: every hold the script granted, [seat, session]
    told,      \* history: every success answered, [seat, session, status]
    faults     \* how many faults happened so far

redis == <<hold, marker>>
history == <<granted, told>>
lives == <<inst, toMark>>
vars == <<hold, marker, bookings, inst, toMark, pc, granted, told, faults>>

-----------------------------------------------------------------------------
Success == {"confirmed", "already_mine"}

Answers == Success \cup {"held", "taken", "seat_booked", "conflict",
                         "hold_expired", "unavailable"}

HoldSteps == {"tryHold", "publishHeld"}

ConfirmSteps == {"holdOwner", "lookupFree", "lookupHeld", "insert", "readBack",
                 "markBooked", "publishBooked"}

\* No handler is running in the slot: it was never used, the process that ran
\* it died, or its last request was answered.
Resting == Answers \cup {"idle", "dropped"}

Row(r) == [seat |-> r.seat, session |-> r.session]

Sold(s) == \E b \in bookings : b.seat = s

\* SELECT session_id FROM bookings WHERE seat_id = $1
OwnerOf(s) ==
    IF Sold(s) THEN (CHOOSE b \in bookings : b.seat = s).session ELSE None

Init ==
    /\ hold = [s \in Seats |-> None]
    /\ marker = [s \in Seats |-> None]
    /\ bookings = {}
    /\ inst = [i \in Instances |-> "starting"]
    /\ toMark = [i \in Instances |-> {}]
    /\ pc = [r \in Requests |-> "idle"]
    /\ granted = {}
    /\ told = {}
    /\ faults = 0

\* Variant: every answer is taken for a success.
ContinueCountingAll(r, next) ==
    /\ pc' = [pc EXCEPT ![r] = next]
    /\ told' = told \cup {[seat |-> r.seat, session |-> r.session, status |-> a] :
                             a \in {next} \cap Answers}

\* The handler goes on to its next call, or answers.
Continue(r, next) ==
    /\ pc' = [pc EXCEPT ![r] = next]
    /\ told' = told \cup {[seat |-> r.seat, session |-> r.session, status |-> a] :
                             a \in {next} \cap Success}

Fault(kind) ==
    /\ kind \in FaultKinds
    /\ faults < MaxFaults
    /\ faults' = faults + 1

-----------------------------------------------------------------------------
(* The two Lua scripts and the commands of locking.Client.                 *)

\* holdScript: the booked marker wins, then SET NX EX.
HoldScript(r) ==
    IF marker[r.seat] = None /\ hold[r.seat] = None
    THEN /\ hold' = [hold EXCEPT ![r.seat] = r.session]
         /\ granted' = granted \cup {Row(r)}
    ELSE UNCHANGED <<hold, granted>>

\* Variant: the codes of the script are mistaken for one another.
HoldResultSwapped(r) ==
    IF marker[r.seat] # None THEN "taken"
    ELSE IF hold[r.seat] = None THEN "publishHeld" ELSE "seat_booked"

HoldResult(r) ==
    IF marker[r.seat] # None THEN "seat_booked"
    ELSE IF hold[r.seat] = None THEN "publishHeld" ELSE "taken"

\* bookScript: delete the hold, whoever has it, and set the permanent marker.
BookScript(r) ==
    /\ hold' = [hold EXCEPT ![r.seat] = None]
    /\ marker' = [marker EXCEPT ![r.seat] = r.session]

\* The TTL of a hold runs out.
Expire(s) ==
    /\ hold[s] # None
    /\ hold' = [hold EXCEPT ![s] = None]
    /\ UNCHANGED <<marker, bookings, lives, pc, history, faults>>

-----------------------------------------------------------------------------
(* booking.Service.Hold                                                    *)

ReceiveHold(r) ==
    /\ inst[r.at] = "up"
    /\ pc[r] \in Resting
    /\ Continue(r, "tryHold")
    /\ UNCHANGED <<redis, bookings, lives, granted, faults>>

TryHold(r) ==
    /\ pc[r] = "tryHold"
    /\ HoldScript(r)
    /\ Continue(r, HoldResult(r))
    /\ UNCHANGED <<marker, bookings, lives, faults>>

PublishHeld(r) ==
    /\ pc[r] = "publishHeld"
    /\ Continue(r, "held")
    /\ UNCHANGED <<redis, bookings, lives, granted, faults>>

-----------------------------------------------------------------------------
(* booking.Service.Confirm                                                 *)

ReceiveConfirm(r) ==
    /\ inst[r.at] = "up"
    /\ pc[r] \in Resting
    /\ Continue(r, "holdOwner")
    /\ UNCHANGED <<redis, bookings, lives, granted, faults>>

\* Variant: a free seat may be booked without ever holding it.
AfterHoldOwnerOrFree(r) ==
    IF hold[r.seat] \in {r.session, None} THEN "insert" ELSE "lookupHeld"

\* GET hold:<seat>.  The answer is remembered in the next pc, and may be stale
\* by the time the next call is made.
AfterHoldOwner(r) ==
    IF hold[r.seat] = r.session THEN "insert"
    ELSE IF hold[r.seat] = None THEN "lookupFree" ELSE "lookupHeld"

HoldOwner(r) ==
    /\ pc[r] = "holdOwner"
    /\ Continue(r, AfterHoldOwner(r))
    /\ UNCHANGED <<redis, bookings, lives, granted, faults>>

\* Variant: somebody else's hold is a conflict, without asking the table.
NotHolderAnswerByHold(r) ==
    IF pc[r] = "lookupHeld" THEN "conflict"
    ELSE IF OwnerOf(r.seat) = r.session THEN "already_mine"
         ELSE IF Sold(r.seat) THEN "conflict" ELSE "hold_expired"

\* Variant: a seat nobody holds any more is answered as the hold path answers.
NotHolderAnswerTakenFree(r) ==
    IF OwnerOf(r.seat) = r.session THEN "already_mine"
    ELSE IF Sold(r.seat) \/ pc[r] = "lookupHeld" THEN "conflict" ELSE "taken"

\* Not the holder: the durable record decides, and nothing is inserted.
NotHolderAnswer(r) ==
    IF OwnerOf(r.seat) = r.session THEN "already_mine"
    ELSE IF Sold(r.seat) \/ pc[r] = "lookupHeld" THEN "conflict"
         ELSE "hold_expired"

BookingOwner(r) ==
    /\ pc[r] \in {"lookupFree", "lookupHeld"}
    /\ Continue(r, NotHolderAnswer(r))
    /\ UNCHANGED <<redis, bookings, lives, granted, faults>>

\* Variant: the table has no UNIQUE (seat_id).
InsertAlways(r) == bookings' = bookings \cup {Row(r)}

\* INSERT ... ON CONFLICT (seat_id) DO NOTHING RETURNING session_id
Insert(r) == bookings' = IF Sold(r.seat) THEN bookings ELSE bookings \cup {Row(r)}

\* Variant: an upsert that also returns the session's own row as inserted.
ConfirmByUpsert(r) ==
    /\ pc[r] = "insert"
    /\ Insert(r)
    /\ Continue(r, IF Sold(r.seat) /\ OwnerOf(r.seat) # r.session
                   THEN "readBack" ELSE "markBooked")
    /\ UNCHANGED <<redis, lives, granted, faults>>

ConfirmBooking(r) ==
    /\ pc[r] = "insert"
    /\ Insert(r)
    /\ Continue(r, IF Sold(r.seat) THEN "readBack" ELSE "markBooked")
    /\ UNCHANGED <<redis, lives, granted, faults>>

\* Variant: a conflict is always the session's own row.
ReadBackTrusting(r) == IF Sold(r.seat) THEN "already_mine" ELSE "unavailable"

\* Nothing was inserted: the SELECT that reads back who owns the seat.
ReadBackAnswer(r) ==
    CASE OwnerOf(r.seat) = r.session -> "already_mine"
      [] OwnerOf(r.seat) = None -> "unavailable"
      [] OTHER -> "conflict"

ReadBack(r) ==
    /\ pc[r] = "readBack"
    /\ Continue(r, ReadBackAnswer(r))
    /\ UNCHANGED <<redis, bookings, lives, granted, faults>>

MarkBooked(r) ==
    /\ pc[r] = "markBooked"
    /\ BookScript(r)
    /\ Continue(r, "publishBooked")
    /\ UNCHANGED <<bookings, lives, granted, faults>>

PublishBooked(r) ==
    /\ pc[r] = "publishBooked"
    /\ Continue(r, "confirmed")
    /\ UNCHANGED <<redis, bookings, lives, granted, faults>>

-----------------------------------------------------------------------------
(* What can go wrong with a call.                                          *)

\* Variant: a failed insert is only logged as well.
AfterErrorLogged == [
    tryHold |-> "unavailable", publishHeld |-> "held",
    holdOwner |-> "unavailable", lookupFree |-> "unavailable",
    lookupHeld |-> "unavailable", insert |-> "markBooked",
    readBack |-> "unavailable",
    markBooked |-> "publishBooked", publishBooked |-> "confirmed"]

\* A call returns an error: the store is unreachable, or the client went away
\* and its context was cancelled.  Reading or deciding calls turn it into a
\* 503; after the insert, and for every publish, it is only logged.
AfterError == [
    tryHold |-> "unavailable", publishHeld |-> "held",
    holdOwner |-> "unavailable", lookupFree |-> "unavailable",
    lookupHeld |-> "unavailable", insert |-> "unavailable",
    readBack |-> "unavailable",
    markBooked |-> "publishBooked", publishBooked |-> "confirmed"]

CallFails(r) ==
    /\ pc[r] \in DOMAIN AfterError
    /\ Fault("error")
    /\ Continue(r, AfterError[pc[r]])
    /\ UNCHANGED <<redis, bookings, lives, granted>>

\* Redis ran the hold script, its reply was lost, and go-redis sends it again.
HoldReplyLost(r) ==
    /\ pc[r] = "tryHold"
    /\ Fault("lostReply")
    /\ HoldScript(r)
    /\ UNCHANGED <<marker, bookings, lives, pc, told>>

\* The same for the book script.
MarkReplyLost(r) ==
    /\ pc[r] = "markBooked"
    /\ Fault("lostReply")
    /\ BookScript(r)
    /\ UNCHANGED <<bookings, lives, pc, history>>

\* Postgres committed the insert and the reply was lost: an error, no retry.
InsertReplyLost(r) ==
    /\ pc[r] = "insert"
    /\ Fault("lostReply")
    /\ Insert(r)
    /\ Continue(r, "unavailable")
    /\ UNCHANGED <<redis, lives, granted>>

\* Redis delivered an event and the reply was lost: it is published again.
PublishReplyLost(r) ==
    /\ pc[r] \in {"publishHeld", "publishBooked"}
    /\ Fault("lostReply")
    /\ UNCHANGED <<redis, bookings, lives, pc, history>>

\* Redis comes back empty (it runs with --appendonly no).
RedisWipe ==
    /\ Fault("redisWipe")
    /\ hold' = [s \in Seats |-> None]
    /\ marker' = [s \in Seats |-> None]
    /\ UNCHANGED <<bookings, lives, pc, history>>

-----------------------------------------------------------------------------
(* The life of an instance: main() and rehydrateBooked.                    *)

\* The process dies, and every handler it was running with it.
Crash(i) ==
    /\ inst[i] # "down"
    /\ Fault("crash")
    /\ inst' = [inst EXCEPT ![i] = "down"]
    /\ toMark' = [toMark EXCEPT ![i] = {}]
    /\ pc' = [r \in Requests |->
                IF r.at = i /\ pc[r] \notin Resting THEN "dropped" ELSE pc[r]]
    /\ UNCHANGED <<redis, bookings, history>>

\* SIGTERM, or the listener failed: no request is accepted any more, those
\* that run go on, and a rehydration under way ends with its context.
Stop(i) ==
    /\ inst[i] \in {"starting", "rehydrating", "up"}
    /\ Fault("stop")
    /\ inst' = [inst EXCEPT ![i] = "draining"]
    /\ toMark' = [toMark EXCEPT ![i] = {}]
    /\ UNCHANGED <<redis, bookings, pc, history>>

\* Shutdown has waited for the handlers, and main returns.  When it waits in
\* vain, for 8 seconds, the process ends as in a crash.
Exit(i) ==
    /\ inst[i] = "draining"
    /\ \A r \in Requests : r.at = i => pc[r] \in Resting
    /\ inst' = [inst EXCEPT ![i] = "down"]
    /\ UNCHANGED <<redis, bookings, toMark, pc, history, faults>>

\* Variant: rehydration happens on the first boot only.
RestartWithoutRehydration(i) ==
    /\ inst[i] = "down"
    /\ inst' = [inst EXCEPT ![i] = "up"]
    /\ UNCHANGED <<redis, bookings, toMark, pc, history, faults>>

\* restart: unless-stopped, or the deployment that stopped it.
Restart(i) ==
    /\ inst[i] = "down"
    /\ inst' = [inst EXCEPT ![i] = "starting"]
    /\ UNCHANGED <<redis, bookings, toMark, pc, history, faults>>

\* BookedSeats reads the whole table in one statement.
LoadBooked(i) ==
    /\ inst[i] = "starting"
    /\ inst' = [inst EXCEPT ![i] = "rehydrating"]
    /\ toMark' = [toMark EXCEPT ![i] = bookings]
    /\ UNCHANGED <<redis, bookings, pc, history, faults>>

\* Variant: the markers are replaced by those of the rows that were read.
RehydrateReplacing(i, b) ==
    /\ inst[i] = "rehydrating"
    /\ b \in toMark[i]
    /\ marker' = [s \in Seats |->
                     IF \E c \in toMark[i] : c.seat = s
                     THEN (CHOOSE c \in toMark[i] : c.seat = s).session ELSE None]
    /\ toMark' = [toMark EXCEPT ![i] = {}]
    /\ UNCHANGED <<hold, bookings, inst, pc, history, faults>>

\* One SET of the pipeline; other clients' commands may come between two.
RehydrateBooked(i, b) ==
    /\ inst[i] = "rehydrating"
    /\ b \in toMark[i]
    /\ marker' = [marker EXCEPT ![b.seat] = b.session]
    /\ toMark' = [toMark EXCEPT ![i] = @ \ {b}]
    /\ UNCHANGED <<hold, bookings, inst, pc, history, faults>>

\* Variant: the rest of the pipeline is thrown away.
ServeEarly(i) ==
    /\ inst[i] = "rehydrating"
    /\ inst' = [inst EXCEPT ![i] = "up"]
    /\ toMark' = [toMark EXCEPT ![i] = {}]
    /\ UNCHANGED <<redis, bookings, pc, history, faults>>

\* The pipeline is through: the HTTP server starts to listen.
Serve(i) ==
    /\ inst[i] = "rehydrating"
    /\ toMark[i] = {}
    /\ inst' = [inst EXCEPT ![i] = "up"]
    /\ UNCHANGED <<redis, bookings, toMark, pc, history, faults>>

\* Either store fails during rehydration: logged, and the instance serves.
RehydrateFails(i) ==
    /\ inst[i] \in {"starting", "rehydrating"}
    /\ Fault("error")
    /\ inst' = [inst EXCEPT ![i] = "up"]
    /\ toMark' = [toMark EXCEPT ![i] = {}]
    /\ UNCHANGED <<redis, bookings, pc, history>>

-----------------------------------------------------------------------------
HandlerStep(r) ==
    \/ TryHold(r)
    \/ PublishHeld(r)
    \/ HoldOwner(r)
    \/ BookingOwner(r)
    \/ ConfirmBooking(r)
    \/ ReadBack(r)
    \/ MarkBooked(r)
    \/ PublishBooked(r)

RequestFault(r) ==
    \/ CallFails(r)
    \/ HoldReplyLost(r)
    \/ MarkReplyLost(r)
    \/ InsertReplyLost(r)
    \/ PublishReplyLost(r)

BootStep(i) ==
    \/ Restart(i)
    \/ LoadBooked(i)
    \/ \E b \in toMark[i] : RehydrateBooked(i, b)
    \/ Serve(i)

LifeStep(i) ==
    \/ BootStep(i)
    \/ RehydrateFails(i)
    \/ Crash(i)
    \/ Stop(i)
    \/ Exit(i)

Next ==
    \/ \E r \in Requests :
          ReceiveHold(r) \/ ReceiveConfirm(r) \/ HandlerStep(r) \/ RequestFault(r)
    \/ \E i \in Instances : LifeStep(i)
    \/ \E s \in Seats : Expire(s)
    \/ RedisWipe

Spec == Init /\ [][Next]_vars

\* A running handler goes on, and an instance that boots, drains or is down
\* comes up: the goroutine scheduler, Shutdown and the restart policy.  Nothing
\* is assumed of clients, of expiries or of faults.
Fairness ==
    /\ \A r \in Requests : WF_vars(HandlerStep(r))
    /\ \A i \in Instances : WF_vars(BootStep(i) \/ Exit(i))

FairSpec == Spec /\ Fairness

-----------------------------------------------------------------------------
(* Properties.                                                             *)

BookingRows == [seat : Seats, session : Sessions]

\* Every variable has its type.
TypeOK ==
    /\ hold \in [Seats -> Sessions \cup {None}]
    /\ marker \in [Seats -> Sessions \cup {None}]
    /\ bookings \subseteq BookingRows
    /\ inst \in [Instances -> {"down", "starting", "rehydrating", "up", "draining"}]
    /\ toMark \in [Instances -> SUBSET BookingRows]
    /\ pc \in [Requests -> Resting \cup HoldSteps \cup ConfirmSteps]
    /\ granted \subseteq BookingRows
    /\ told \subseteq [seat : Seats, session : Sessions, status : Success]
    /\ faults \in 0 .. MaxFaults

\* Zero double bookings, the number BookingStats lets the load test read: no
\* two rows of the table are for one seat, whoever raced for it.
NoDoubleBooking == \A b, c \in bookings : b.seat = c.seat => b = c

\* Whoever was answered "confirmed" or "already_mine" owns the seat in the
\* durable table, then and for ever after, through every crash and lost reply.
SuccessMeansOwner == \A t \in told : [seat |-> t.seat, session |-> t.session] \in bookings

Announcing(r) == pc[r] \in {"markBooked", "publishBooked"}

\* One sale is carried to "confirmed" by one request: a double click or a
\* retry never runs the side effects of the sale (the booked marker, the
\* booked event) a second time (comment of Confirm).
OneSale ==
    \A r \in Requests : Announcing(r) =>
        /\ \A q \in Requests : Announcing(q) /\ q.seat = r.seat => q = r
        /\ \A t \in told : t.seat = r.seat => t.status # "confirmed"

\* Redis never refuses a seat as sold that is not: a marker always stands for
\* a row of the table, with the row's owner.
MarkerSound ==
    \A s \in Seats : marker[s] # None => [seat |-> s, session |-> marker[s]] \in bookings

\* What is answered is so, and stays so after holds ran out, markers were lost
\* and instances restarted: "held" was granted, a seat the hold path calls sold
\* has its row, and "conflict" is only said where another session was granted
\* the seat.  "taken" is said where another session was, or where this one was
\* itself: the script does not ask whose hold it met.
GrantedToAnother(r) == \E g \in granted : g.seat = r.seat /\ g.session # r.session

AnswersTrue ==
    \A r \in Requests :
        /\ pc[r] \in {"publishHeld", "held"} => Row(r) \in granted
        /\ pc[r] = "seat_booked" => Sold(r.seat)
        /\ pc[r] \in {"lookupHeld", "conflict"} => GrantedToAnother(r)
        /\ pc[r] = "taken" => GrantedToAnother(r) \/ Row(r) \in granted

\* Whoever owns a seat is never told that the seat belongs to someone else or
\* that the hold ran out, even when the booking was written by a request whose
\* answer was lost and another session holds the seat by now.
TruthfulRejection ==
    [][\A r \in Requests :
          /\ pc[r] \in ConfirmSteps
          /\ pc'[r] \in {"conflict", "hold_expired"}
          => Row(r) \notin bookings]_vars

\* Nobody's hold is taken away, by whatever order of other people's scripts,
\* repeated ones included: it ends with its time, with the Redis that kept it, or
\* because the seat is sold, and it never passes on to somebody else directly.
HoldsAreKept ==
    [][\A s \in Seats : hold[s] # None /\ hold'[s] # hold[s] =>
          /\ hold'[s] = None
          /\ Expire(s) \/ RedisWipe \/ Sold(s)]_vars

\* A seat Redis calls sold stays sold to the same session: however marks of two
\* requests, their repetitions and the rehydrations of instances with an older
\* view of the table interleave, only a Redis that lost everything forgets it.
MarkersStay ==
    [][\A s \in Seats : marker[s] # None => marker'[s] = marker[s] \/ RedisWipe]_vars

\* While only crashes and stops happen no sale is ever without somebody who
\* will set its marker: it is set, or the request that sold the seat is about
\* to set it, or an instance that has yet to read the table will come up, or
\* one that read it has the row still to write.
BeingMarked(b) ==
    \/ marker[b.seat] = b.session
    \/ \E r \in Requests : pc[r] = "markBooked" /\ Row(r) = b
    \/ \E i \in Instances : inst[i] \in {"draining", "down", "starting"} \/ b \in toMark[i]

SaleIsBeingMarked ==
    FaultKinds \subseteq {"crash", "stop"} => \A b \in bookings : BeingMarked(b)

\* Every sold seat is in the end refused by Redis as sold again, so that the
\* hold path rejects it (comments of bookScript and RehydrateBooked).
SoldEventuallyMarked == \A s \in Seats : [](Sold(s) => <>(marker[s] # None))

\* The sale as the table and the answers show it is a SeatSale.
Owners == [s \in Seats |-> OwnerOf(s)]

Sale == INSTANCE SeatSale WITH owner <- Owners

SaleSpec == Sale!Spec

-----------------------------------------------------------------------------
(* What comments of the code say, and the code does not do.                *)

\* booking.go:102 "so we can't accidentally book a seat we don't hold".
NeverBooksWithoutHold ==
    [][\A b \in bookings' \ bookings : hold[b.seat] = b.session]_vars
=============================================================================
