---------------------------- MODULE BookingProofs ----------------------------
(***************************************************************************)
(* What holds of Booking for every set of seats, sessions, instances and   *)
(* requests, and for any number of faults of any kind.                     *)
(***************************************************************************)
EXTENDS Booking, TLAPS

-----------------------------------------------------------------------------
(* The inductive invariant.                                                *)

\* The stores: a hold was granted by the script, a row was once a hold, and an
\* instance only rehydrates rows that are in the table.
HoldsWereGranted ==
    \A s \in Seats : hold[s] # None => [seat |-> s, session |-> hold[s]] \in granted

BookedOnlyAfterHold == bookings \subseteq granted

RehydratesRows == \A i \in Instances : toMark[i] \subseteq bookings

\* The requests: at the insert the session had a hold (it may have none any
\* more), and the side effects of a sale run only once its row is there.
InsertAfterHold == \A r \in Requests : pc[r] = "insert" => Row(r) \in granted

AnnouncesOwnRow == \A r \in Requests : Announcing(r) => Row(r) \in bookings

StoresAgree == NoDoubleBooking /\ HoldsWereGranted /\ BookedOnlyAfterHold
                  /\ MarkerSound /\ RehydratesRows

RequestsAgree == InsertAfterHold /\ AnnouncesOwnRow /\ SuccessMeansOwner /\ OneSale

IInv == TypeOK /\ StoresAgree /\ RequestsAgree

-----------------------------------------------------------------------------
(* What a request slot is made of.                                         *)

LEMMA RequestFields ==
    ASSUME NEW r \in Requests
    PROVE  /\ r.at \in Instances
           /\ r.seat \in Seats
           /\ r.session \in Sessions
           /\ r.session # None
           /\ Row(r) \in BookingRows
           /\ Row(r).seat = r.seat
           /\ Row(r).session = r.session
  BY RequestsAssumption, NoneAssumption DEF Row, BookingRows

\* The next call or the answer is a legal one, and only r moves.
LEMMA ContinueEffect ==
    ASSUME TypeOK,
           NEW r \in Requests,
           NEW next \in Resting \cup HoldSteps \cup ConfirmSteps,
           Continue(r, next)
    PROVE  /\ pc' \in [Requests -> Resting \cup HoldSteps \cup ConfirmSteps]
           /\ pc'[r] = next
           /\ \A q \in Requests : q # r => pc'[q] = pc[q]
           /\ told' \subseteq [seat : Seats, session : Sessions, status : Success]
           /\ told \subseteq told'
           /\ \A t \in told' : \/ t \in told
                               \/ /\ next \in Success
                                  /\ t = [seat |-> r.seat, session |-> r.session,
                                          status |-> next]
  <1>1. r.seat \in Seats /\ r.session \in Sessions
    BY RequestFields
  <1>2. \A t \in told' : \/ t \in told
                         \/ /\ next \in Success
                            /\ t = [seat |-> r.seat, session |-> r.session,
                                    status |-> next]
    BY DEF Continue
  <1>3. told' \subseteq [seat : Seats, session : Sessions, status : Success]
    BY <1>1, <1>2 DEF TypeOK
  <1>4. QED
    BY <1>2, <1>3 DEF Continue, TypeOK

-----------------------------------------------------------------------------
(* Type correctness.                                                       *)

LEMMA TypeInit == Init => TypeOK
  BY FaultsAssumption
     DEF Init, TypeOK, Resting, HoldSteps, ConfirmSteps

LEMMA TypeHandler ==
    ASSUME TypeOK, NEW r \in Requests,
           \/ ReceiveHold(r) \/ ReceiveConfirm(r)
           \/ HandlerStep(r)
           \/ RequestFault(r)
    PROVE  TypeOK'
  <1> USE RequestFields DEF redis, lives, history
  <1>1. CASE ReceiveHold(r)
    <2>1. Continue(r, "tryHold") BY <1>1 DEF ReceiveHold
    <2>2. QED BY <1>1, <2>1, ContinueEffect DEF ReceiveHold, TypeOK, HoldSteps
  <1>2. CASE ReceiveConfirm(r)
    <2>1. Continue(r, "holdOwner") BY <1>2 DEF ReceiveConfirm
    <2>2. QED BY <1>2, <2>1, ContinueEffect DEF ReceiveConfirm, TypeOK, ConfirmSteps
  <1>3. CASE TryHold(r)
    <2>1. /\ Continue(r, HoldResult(r))
          /\ HoldResult(r) \in Resting \cup HoldSteps \cup ConfirmSteps
      BY <1>3 DEF TryHold, HoldResult, Resting, Answers, HoldSteps
    <2>2. QED BY <1>3, <2>1, ContinueEffect DEF TryHold, HoldScript, TypeOK
  <1>4. CASE PublishHeld(r)
    <2>1. Continue(r, "held") BY <1>4 DEF PublishHeld
    <2>2. QED BY <1>4, <2>1, ContinueEffect DEF PublishHeld, TypeOK, Resting, Answers
  <1>5. CASE HoldOwner(r)
    <2>1. /\ Continue(r, AfterHoldOwner(r))
          /\ AfterHoldOwner(r) \in ConfirmSteps
      BY <1>5 DEF HoldOwner, AfterHoldOwner, ConfirmSteps
    <2>2. QED BY <1>5, <2>1, ContinueEffect DEF HoldOwner, TypeOK
  <1>6. CASE BookingOwner(r)
    <2>1. /\ Continue(r, NotHolderAnswer(r))
          /\ NotHolderAnswer(r) \in Resting
      BY <1>6 DEF BookingOwner, NotHolderAnswer, Resting, Answers, Success
    <2>2. QED BY <1>6, <2>1, ContinueEffect DEF BookingOwner, TypeOK
  <1>7. CASE ConfirmBooking(r)
    <2>1. PICK next \in ConfirmSteps : Continue(r, next)
      BY <1>7 DEF ConfirmBooking, ConfirmSteps
    <2>2. QED BY <1>7, <2>1, ContinueEffect DEF ConfirmBooking, Insert, TypeOK
  <1>8. CASE ReadBack(r)
    <2>1. /\ Continue(r, ReadBackAnswer(r))
          /\ ReadBackAnswer(r) \in Resting
      BY <1>8 DEF ReadBack, ReadBackAnswer, Resting, Answers, Success
    <2>2. QED BY <1>8, <2>1, ContinueEffect DEF ReadBack, TypeOK
  <1>9. CASE MarkBooked(r)
    <2>1. Continue(r, "publishBooked") BY <1>9 DEF MarkBooked
    <2>2. QED BY <1>9, <2>1, ContinueEffect DEF MarkBooked, BookScript, TypeOK, ConfirmSteps
  <1>10. CASE PublishBooked(r)
    <2>1. Continue(r, "confirmed") BY <1>10 DEF PublishBooked
    <2>2. QED BY <1>10, <2>1, ContinueEffect
             DEF PublishBooked, TypeOK, Resting, Answers, Success
  <1>11. CASE CallFails(r)
    <2>1. PICK next \in Resting \cup HoldSteps \cup ConfirmSteps : Continue(r, next)
      BY <1>11 DEF CallFails, AfterError, Resting, Answers, Success, HoldSteps, ConfirmSteps
    <2>2. QED BY <1>11, <2>1, ContinueEffect, FaultsAssumption DEF CallFails, Fault, TypeOK
  <1>12. CASE HoldReplyLost(r)
    BY <1>12, FaultsAssumption DEF HoldReplyLost, HoldScript, Fault, TypeOK
  <1>13. CASE MarkReplyLost(r)
    BY <1>13, FaultsAssumption DEF MarkReplyLost, BookScript, Fault, TypeOK
  <1>14. CASE InsertReplyLost(r)
    <2>1. Continue(r, "unavailable") BY <1>14 DEF InsertReplyLost
    <2>2. QED BY <1>14, <2>1, ContinueEffect, FaultsAssumption
             DEF InsertReplyLost, Insert, Fault, TypeOK, Resting, Answers
  <1>15. CASE PublishReplyLost(r)
    BY <1>15, FaultsAssumption DEF PublishReplyLost, Fault, TypeOK
  <1>16. QED
    BY <1>1, <1>2, <1>3, <1>4, <1>5, <1>6, <1>7, <1>8, <1>9, <1>10, <1>11, <1>12,
       <1>13, <1>14, <1>15 DEF HandlerStep, RequestFault

LEMMA TypeInstance ==
    ASSUME TypeOK, NEW i \in Instances, LifeStep(i)
    PROVE  TypeOK'
  <1> USE FaultsAssumption DEF redis, lives, history, TypeOK
  <1>1. CASE Restart(i)        BY <1>1 DEF Restart
  <1>2. CASE LoadBooked(i)     BY <1>2 DEF LoadBooked
  <1>3. CASE \E b \in toMark[i] : RehydrateBooked(i, b)
    BY <1>3 DEF RehydrateBooked, BookingRows
  <1>4. CASE Serve(i)          BY <1>4 DEF Serve
  <1>5. CASE Crash(i)          BY <1>5 DEF Crash, Fault, Resting
  <1>6. CASE RehydrateFails(i) BY <1>6 DEF RehydrateFails, Fault
  <1>7. CASE Stop(i)           BY <1>7 DEF Stop, Fault
  <1>8. CASE Exit(i)           BY <1>8 DEF Exit
  <1>9. QED BY <1>1, <1>2, <1>3, <1>4, <1>5, <1>6, <1>7, <1>8 DEF LifeStep, BootStep

LEMMA TypeNext == TypeOK /\ [Next]_vars => TypeOK'
  <1> SUFFICES ASSUME TypeOK, [Next]_vars PROVE TypeOK'
    OBVIOUS
  <1>1. ASSUME NEW s \in Seats, Expire(s) PROVE TypeOK'
    BY <1>1 DEF Expire, lives, history, TypeOK
  <1>2. CASE RedisWipe
    BY <1>2, FaultsAssumption DEF RedisWipe, Fault, lives, history, TypeOK
  <1>3. CASE UNCHANGED vars
    BY <1>3 DEF vars, TypeOK
  <1>4. QED BY <1>1, <1>2, <1>3, TypeHandler, TypeInstance DEF Next

\* Every variable keeps its type: no handler is ever at a call or an answer
\* the code does not have, and no store holds a value nobody wrote.
THEOREM TypeCorrect == Spec => []TypeOK
  BY TypeInit, TypeNext, PTL DEF Spec

-----------------------------------------------------------------------------
(* The inductive invariant.                                                *)

LEMMA InitIInv == Init => IInv
  <1> SUFFICES ASSUME Init PROVE IInv
    OBVIOUS
  <1>1. TypeOK
    BY TypeInit
  <1>2. StoresAgree
    BY DEF Init, StoresAgree, NoDoubleBooking, HoldsWereGranted,
           BookedOnlyAfterHold, MarkerSound, RehydratesRows
  <1>3. RequestsAgree
    BY DEF Init, RequestsAgree, InsertAfterHold, AnnouncesOwnRow, Announcing,
           SuccessMeansOwner, OneSale
  <1>4. QED BY <1>1, <1>2, <1>3 DEF IInv

\* What a handler has to know before it goes on to a call or an answer.
LEMMA ContinueKeeps ==
    ASSUME TypeOK, RequestsAgree,
           NEW r \in Requests,
           NEW next \in Resting \cup HoldSteps \cup ConfirmSteps,
           Continue(r, next),
           bookings \subseteq bookings',
           granted \subseteq granted',
           next = "insert" => Row(r) \in granted',
           next \in {"markBooked", "publishBooked"} \cup Success => Row(r) \in bookings',
           next \in {"markBooked", "publishBooked"} =>
              /\ \A q \in Requests : Announcing(q) /\ q.seat = r.seat => q = r
              /\ \A t \in told : t.seat = r.seat => t.status # "confirmed",
           next = "confirmed" => Announcing(r)
    PROVE  RequestsAgree'
  <1> USE DEF RequestsAgree
  <1>1. /\ pc'[r] = next
        /\ \A q \in Requests : q # r => pc'[q] = pc[q]
        /\ \A t \in told' : \/ t \in told
                            \/ /\ next \in Success
                               /\ t = [seat |-> r.seat, session |-> r.session,
                                       status |-> next]
    BY ContinueEffect
  <1>2. InsertAfterHold'
    BY <1>1 DEF InsertAfterHold, Row
  <1>3. AnnouncesOwnRow'
    BY <1>1 DEF AnnouncesOwnRow, Announcing, Row
  <1>4. SuccessMeansOwner'
    <2> SUFFICES ASSUME NEW t \in told'
                 PROVE  [seat |-> t.seat, session |-> t.session] \in bookings'
      BY DEF SuccessMeansOwner
    <2>1. CASE t \in told
      BY <2>1 DEF SuccessMeansOwner
    <2>2. CASE /\ next \in Success
               /\ t = [seat |-> r.seat, session |-> r.session, status |-> next]
      <3>1. [seat |-> t.seat, session |-> t.session] = Row(r)
        BY <2>2 DEF Row
      <3>2. QED BY <2>2, <3>1
    <2>3. QED BY <1>1, <2>1, <2>2
  <1>5. OneSale'
    <2> SUFFICES ASSUME NEW p \in Requests, Announcing(p)'
                 PROVE  /\ \A q \in Requests : Announcing(q)' /\ q.seat = p.seat => q = p
                        /\ \A t \in told' : t.seat = p.seat => t.status # "confirmed"
      BY DEF OneSale
    <2>1. CASE p = r
      <3>1. next \in {"markBooked", "publishBooked"}
        BY <1>1, <2>1 DEF Announcing
      <3>2. next \notin Success
        BY <3>1 DEF Success
      <3>3. QED BY <1>1, <2>1, <3>1, <3>2 DEF Announcing
    <2>2. CASE p # r
      <3>1. Announcing(p)
        BY <1>1, <2>2 DEF Announcing
      <3>2. ASSUME next \in {"markBooked", "publishBooked"} PROVE p.seat # r.seat
        BY <2>2, <3>1, <3>2
      <3>3. ASSUME NEW q \in Requests, Announcing(q)', q.seat = p.seat PROVE q = p
        <4>1. CASE q = r
          BY <1>1, <3>2, <3>3, <4>1 DEF Announcing
        <4>2. CASE q # r
          BY <1>1, <3>1, <3>3, <4>2 DEF Announcing, OneSale
        <4>3. QED BY <4>1, <4>2
      <3>4. ASSUME NEW t \in told', t.seat = p.seat PROVE t.status # "confirmed"
        <4>1. CASE t \in told
          BY <3>1, <3>4, <4>1 DEF OneSale
        <4>2. CASE t = [seat |-> r.seat, session |-> r.session, status |-> next]
          <5>1. t.seat = r.seat /\ t.status = next
            BY <4>2
          <5>2. ASSUME next = "confirmed" PROVE FALSE
            BY <2>2, <3>1, <3>4, <5>1, <5>2 DEF OneSale
          <5>3. QED BY <5>1, <5>2
        <4>3. QED BY <1>1, <4>1, <4>2
      <3>5. QED BY <3>3, <3>4
    <2>3. QED BY <2>1, <2>2
  <1>6. QED BY <1>2, <1>3, <1>4, <1>5

\* The SELECT returns the owner of the one row there is, or nothing.
LEMMA OwnerOfRow ==
    ASSUME TypeOK, NoDoubleBooking
    PROVE  /\ \A b \in bookings : OwnerOf(b.seat) = b.session
           /\ \A s \in Seats : Sold(s) =>
                 /\ [seat |-> s, session |-> OwnerOf(s)] \in bookings
                 /\ OwnerOf(s) \in Sessions
           /\ \A s \in Seats : ~Sold(s) => OwnerOf(s) = None
  <1>1. ASSUME NEW b \in bookings PROVE OwnerOf(b.seat) = b.session
    <2>1. \A c \in bookings : c.seat = b.seat => c = b
      BY DEF NoDoubleBooking
    <2>2. (CHOOSE c \in bookings : c.seat = b.seat) = b
      BY <2>1
    <2>3. QED BY <2>2 DEF OwnerOf, Sold
  <1>2. ASSUME NEW s \in Seats, Sold(s)
        PROVE  /\ [seat |-> s, session |-> OwnerOf(s)] \in bookings
               /\ OwnerOf(s) \in Sessions
    <2>1. PICK b \in bookings : b.seat = s
      BY <1>2 DEF Sold
    <2>2. b = [seat |-> s, session |-> b.session] /\ b.session \in Sessions
      BY <2>1 DEF TypeOK, BookingRows
    <2>3. QED BY <1>1, <2>1, <2>2
  <1>3. QED BY <1>1, <1>2 DEF OwnerOf

LEMMA HandlerKeeps ==
    ASSUME IInv, NEW r \in Requests,
           \/ ReceiveHold(r) \/ ReceiveConfirm(r)
           \/ HandlerStep(r)
           \/ RequestFault(r)
    PROVE  StoresAgree' /\ RequestsAgree'
  <1> USE DEF redis, lives, history, IInv, Success
  <1> DEFINE QuietSteps == {"tryHold", "publishHeld", "holdOwner", "lookupFree",
                            "lookupHeld", "readBack", "held", "taken", "seat_booked",
                            "conflict", "hold_expired", "unavailable"}
  \* A step that neither writes to a store nor announces or answers a success.
  <1>1. ASSUME NEW next \in QuietSteps, Continue(r, next),
               UNCHANGED <<bookings, granted>>
        PROVE  RequestsAgree'
    BY <1>1, ContinueKeeps DEF Resting, Answers, HoldSteps, ConfirmSteps
  <1>2. ASSUME UNCHANGED <<hold, marker, bookings, toMark, granted>>
        PROVE  StoresAgree'
    BY <1>2 DEF StoresAgree, NoDoubleBooking, HoldsWereGranted, BookedOnlyAfterHold,
                MarkerSound, RehydratesRows
  <1>3. CASE ReceiveHold(r)
    BY <1>1, <1>2, <1>3 DEF ReceiveHold
  <1>4. CASE ReceiveConfirm(r)
    BY <1>1, <1>2, <1>4 DEF ReceiveConfirm
  <1>5. ASSUME HoldScript(r), UNCHANGED <<marker, bookings, toMark>>
        PROVE  StoresAgree' /\ granted \subseteq granted'
    <2>1. HoldsWereGranted'
      BY <1>5 DEF HoldScript, StoresAgree, HoldsWereGranted, Row, TypeOK
    <2>2. QED
      BY <1>5, <2>1 DEF HoldScript, StoresAgree, NoDoubleBooking, BookedOnlyAfterHold,
                        MarkerSound, RehydratesRows
  <1>6. CASE TryHold(r)
    <2>1. HoldResult(r) \in QuietSteps
      BY DEF HoldResult
    <2>2. StoresAgree' /\ granted \subseteq granted'
      BY <1>5, <1>6 DEF TryHold
    <2>3. RequestsAgree'
      BY <1>6, <2>1, <2>2, ContinueKeeps
         DEF TryHold, Resting, Answers, HoldSteps, ConfirmSteps
    <2>4. QED BY <2>2, <2>3
  <1>7. CASE PublishHeld(r)
    BY <1>1, <1>2, <1>7 DEF PublishHeld
  <1>8. CASE HoldOwner(r)
    <2>1. CASE AfterHoldOwner(r) = "insert"
      <3>1. hold[r.seat] = r.session
        BY <2>1 DEF AfterHoldOwner
      <3>2. Row(r) \in granted
        BY <3>1, RequestFields DEF StoresAgree, HoldsWereGranted, Row
      <3>3. QED
        BY <1>2, <1>8, <2>1, <3>2, ContinueKeeps DEF HoldOwner, ConfirmSteps
    <2>2. CASE AfterHoldOwner(r) # "insert"
      <3>1. AfterHoldOwner(r) \in QuietSteps
        BY <2>2 DEF AfterHoldOwner
      <3>2. QED BY <1>1, <1>2, <1>8, <3>1 DEF HoldOwner
    <2>3. QED BY <2>1, <2>2
  \* An answer that depends on the owner the SELECT found.
  <1>9. ASSUME NEW next \in QuietSteps \cup {"already_mine"}, Continue(r, next),
               next = "already_mine" => OwnerOf(r.seat) = r.session,
               UNCHANGED <<hold, marker, bookings, toMark, granted>>
        PROVE  StoresAgree' /\ RequestsAgree'
    <2>1. next = "already_mine" => Row(r) \in bookings
      BY <1>9, OwnerOfRow, RequestFields DEF StoresAgree, Row
    <2>2. RequestsAgree'
      BY <1>9, <2>1, ContinueKeeps DEF Resting, Answers, HoldSteps, ConfirmSteps
    <2>3. QED BY <1>2, <1>9, <2>2
  <1>10. CASE BookingOwner(r)
    <2>1. /\ NotHolderAnswer(r) \in QuietSteps \cup {"already_mine"}
          /\ NotHolderAnswer(r) = "already_mine" => OwnerOf(r.seat) = r.session
      BY DEF NotHolderAnswer
    <2>2. QED BY <1>9, <1>10, <2>1 DEF BookingOwner
  <1>11. CASE ReadBack(r)
    <2>1. /\ ReadBackAnswer(r) \in QuietSteps \cup {"already_mine"}
          /\ ReadBackAnswer(r) = "already_mine" => OwnerOf(r.seat) = r.session
      BY DEF ReadBackAnswer
    <2>2. QED BY <1>9, <1>11, <2>1 DEF ReadBack
  \* The insert, whether its reply arrives or not.
  <1>12. ASSUME pc[r] = "insert", Insert(r), UNCHANGED <<hold, marker, toMark, granted>>
         PROVE  StoresAgree' /\ bookings \subseteq bookings'
    <2>1. CASE Sold(r.seat)
      BY <1>2, <1>12, <2>1 DEF Insert
    <2>2. CASE ~Sold(r.seat)
      <3>1. bookings' = bookings \cup {Row(r)}
        BY <1>12, <2>2 DEF Insert
      <3>2. Row(r) \in granted
        BY <1>12 DEF RequestsAgree, InsertAfterHold
      <3>3. \A b \in bookings : b.seat # Row(r).seat
        BY <2>2, RequestFields DEF Sold
      <3>4. NoDoubleBooking'
        BY <3>1, <3>3 DEF StoresAgree, NoDoubleBooking
      <3>5. QED
        BY <1>12, <3>1, <3>2, <3>4
           DEF StoresAgree, HoldsWereGranted, BookedOnlyAfterHold, MarkerSound,
               RehydratesRows
    <2>3. QED BY <2>1, <2>2
  <1>13. CASE ConfirmBooking(r)
    <2>1. StoresAgree' /\ bookings \subseteq bookings'
      BY <1>12, <1>13 DEF ConfirmBooking
    <2>2. CASE Sold(r.seat)
      BY <1>1, <1>13, <2>1, <2>2 DEF ConfirmBooking, Insert
    <2>3. CASE ~Sold(r.seat)
      <3>1. Continue(r, "markBooked") /\ Row(r) \in bookings'
        BY <1>13, <2>3 DEF ConfirmBooking, Insert
      <3>2. ASSUME NEW q \in Requests, Announcing(q), q.seat = r.seat PROVE FALSE
        <4>1. Row(q) \in bookings /\ Row(q).seat = r.seat
          BY <3>2, RequestFields DEF RequestsAgree, AnnouncesOwnRow
        <4>2. QED BY <2>3, <4>1 DEF Sold
      <3>3. ASSUME NEW t \in told, t.seat = r.seat PROVE FALSE
        <4>1. [seat |-> t.seat, session |-> t.session] \in bookings
          BY DEF RequestsAgree, SuccessMeansOwner
        <4>2. QED BY <2>3, <3>3, <4>1 DEF Sold
      <3>4. RequestsAgree'
        BY <1>13, <2>1, <3>1, <3>2, <3>3, ContinueKeeps DEF ConfirmBooking, ConfirmSteps
      <3>5. QED BY <2>1, <3>4
    <2>4. QED BY <2>2, <2>3
  <1>14. CASE InsertReplyLost(r)
    <2>1. StoresAgree' /\ bookings \subseteq bookings'
      BY <1>12, <1>14 DEF InsertReplyLost
    <2>2. Continue(r, "unavailable") /\ granted' = granted
      BY <1>14 DEF InsertReplyLost
    <2>3. RequestsAgree'
      BY <2>1, <2>2, ContinueKeeps DEF Resting, Answers
    <2>4. QED BY <2>1, <2>3
  \* The seller's own steps after the insert.
  <1>15. ASSUME Announcing(r)
         PROVE  /\ Row(r) \in bookings
                /\ \A q \in Requests : Announcing(q) /\ q.seat = r.seat => q = r
                /\ \A t \in told : t.seat = r.seat => t.status # "confirmed"
    BY <1>15 DEF RequestsAgree, AnnouncesOwnRow, OneSale
  <1>16. ASSUME Announcing(r), NEW next \in {"publishBooked", "confirmed"},
                Continue(r, next), UNCHANGED <<bookings, granted>>
         PROVE  RequestsAgree'
    BY <1>15, <1>16, ContinueKeeps DEF Resting, Answers, ConfirmSteps
  <1>17. ASSUME Announcing(r), BookScript(r), UNCHANGED <<bookings, toMark, granted>>
         PROVE  StoresAgree'
    <2>1. [seat |-> r.seat, session |-> r.session] \in bookings
      BY <1>15, <1>17 DEF Row
    <2>2. HoldsWereGranted'
      BY <1>17 DEF BookScript, StoresAgree, HoldsWereGranted, TypeOK
    <2>3. MarkerSound'
      BY <1>17, <2>1 DEF BookScript, StoresAgree, MarkerSound, TypeOK
    <2>4. QED
      BY <1>17, <2>2, <2>3 DEF StoresAgree, NoDoubleBooking, BookedOnlyAfterHold,
                               RehydratesRows
  <1>18. CASE MarkBooked(r)
    BY <1>16, <1>17, <1>18 DEF MarkBooked, Announcing
  <1>19. CASE PublishBooked(r)
    BY <1>2, <1>16, <1>19 DEF PublishBooked, Announcing
  <1>20. CASE CallFails(r)
    <2>1. /\ Continue(r, AfterError[pc[r]])
          /\ UNCHANGED <<hold, marker, bookings, toMark, granted>>
      BY <1>20 DEF CallFails
    <2>2. CASE Announcing(r)
      <3>1. AfterError[pc[r]] \in {"publishBooked", "confirmed"}
        BY <2>2 DEF Announcing, AfterError
      <3>2. QED BY <1>2, <1>16, <2>1, <2>2, <3>1
    <2>3. CASE ~Announcing(r)
      <3>1. AfterError[pc[r]] \in QuietSteps
        BY <1>20, <2>3 DEF CallFails, Announcing, AfterError
      <3>2. QED BY <1>1, <1>2, <2>1, <3>1
    <2>4. QED BY <2>2, <2>3
  \* Scripts whose reply was lost: the handler stays where it is.
  <1>21. ASSUME UNCHANGED <<bookings, pc, told>>, granted \subseteq granted'
         PROVE  RequestsAgree'
    BY <1>21 DEF RequestsAgree, InsertAfterHold, AnnouncesOwnRow, Announcing,
                 SuccessMeansOwner, OneSale
  <1>22. CASE HoldReplyLost(r)
    BY <1>5, <1>21, <1>22 DEF HoldReplyLost
  <1>23. CASE MarkReplyLost(r)
    BY <1>17, <1>21, <1>23 DEF MarkReplyLost, Announcing
  <1>24. CASE PublishReplyLost(r)
    BY <1>2, <1>21, <1>24 DEF PublishReplyLost
  <1>25. QED
    BY <1>3, <1>4, <1>6, <1>7, <1>8, <1>10, <1>11, <1>13, <1>14, <1>18, <1>19, <1>20,
       <1>22, <1>23, <1>24 DEF HandlerStep, RequestFault

LEMMA InstanceKeeps ==
    ASSUME IInv, NEW i \in Instances, LifeStep(i)
    PROVE  StoresAgree' /\ RequestsAgree'
  <1> USE DEF redis, lives, history, IInv
  <1>1. ASSUME UNCHANGED <<bookings, granted, told>>,
               \A r \in Requests : pc'[r] \in {pc[r], "dropped"}
        PROVE  RequestsAgree'
    BY <1>1 DEF RequestsAgree, InsertAfterHold, AnnouncesOwnRow, Announcing,
                SuccessMeansOwner, OneSale
  <1>2. ASSUME UNCHANGED <<redis, bookings, granted>>,
               \A j \in Instances : toMark'[j] \subseteq bookings
        PROVE  StoresAgree'
    BY <1>2 DEF StoresAgree, NoDoubleBooking, HoldsWereGranted, BookedOnlyAfterHold,
                MarkerSound, RehydratesRows
  <1>3. CASE Restart(i)
    BY <1>1, <1>2, <1>3 DEF Restart, StoresAgree, RehydratesRows
  <1>4. CASE LoadBooked(i)
    BY <1>1, <1>2, <1>4 DEF LoadBooked, StoresAgree, RehydratesRows, TypeOK
  <1>5. ASSUME NEW b \in toMark[i], RehydrateBooked(i, b)
        PROVE  StoresAgree' /\ RequestsAgree'
    <2>1. b \in bookings /\ b = [seat |-> b.seat, session |-> b.session]
      BY DEF StoresAgree, RehydratesRows, TypeOK, BookingRows
    <2>2. MarkerSound'
      BY <1>5, <2>1 DEF RehydrateBooked, StoresAgree, MarkerSound, TypeOK
    <2>3. RehydratesRows'
      BY <1>5 DEF RehydrateBooked, StoresAgree, RehydratesRows, TypeOK
    <2>4. StoresAgree'
      BY <1>5, <2>2, <2>3 DEF RehydrateBooked, StoresAgree, NoDoubleBooking,
                              HoldsWereGranted, BookedOnlyAfterHold
    <2>5. QED BY <1>1, <1>5, <2>4 DEF RehydrateBooked
  <1>6. CASE Serve(i)
    BY <1>1, <1>2, <1>6 DEF Serve, StoresAgree, RehydratesRows
  <1>7. CASE Crash(i)
    <2>1. \A r \in Requests : pc'[r] \in {pc[r], "dropped"}
      BY <1>7 DEF Crash
    <2>2. \A j \in Instances : toMark'[j] \subseteq bookings
      BY <1>7 DEF Crash, StoresAgree, RehydratesRows, TypeOK
    <2>3. QED BY <1>1, <1>2, <1>7, <2>1, <2>2 DEF Crash
  <1>8. CASE RehydrateFails(i)
    <2>1. \A j \in Instances : toMark'[j] \subseteq bookings
      BY <1>8 DEF RehydrateFails, StoresAgree, RehydratesRows, TypeOK
    <2>2. QED BY <1>1, <1>2, <1>8, <2>1 DEF RehydrateFails
  <1>9. CASE Stop(i)
    <2>1. \A j \in Instances : toMark'[j] \subseteq bookings
      BY <1>9 DEF Stop, StoresAgree, RehydratesRows, TypeOK
    <2>2. QED BY <1>1, <1>2, <1>9, <2>1 DEF Stop
  <1>10. CASE Exit(i)
    BY <1>1, <1>2, <1>10 DEF Exit, StoresAgree, RehydratesRows
  <1>11. QED
    BY <1>3, <1>4, <1>5, <1>6, <1>7, <1>8, <1>9, <1>10 DEF LifeStep, BootStep

LEMMA NextIInv == IInv /\ [Next]_vars => IInv'
  <1> SUFFICES ASSUME IInv, [Next]_vars PROVE StoresAgree' /\ RequestsAgree'
    BY TypeNext DEF IInv
  <1> USE DEF IInv
  <1>1. ASSUME UNCHANGED <<bookings, toMark, pc, granted, told>>,
               \A s \in Seats : hold'[s] \in {hold[s], None} /\ marker'[s] \in {marker[s], None}
        PROVE  StoresAgree' /\ RequestsAgree'
    BY <1>1 DEF StoresAgree, NoDoubleBooking, HoldsWereGranted, BookedOnlyAfterHold,
                MarkerSound, RehydratesRows, RequestsAgree, InsertAfterHold,
                AnnouncesOwnRow, Announcing, SuccessMeansOwner, OneSale
  <1>2. ASSUME NEW s \in Seats, Expire(s) PROVE StoresAgree' /\ RequestsAgree'
    BY <1>1, <1>2 DEF Expire, lives, history, TypeOK
  <1>3. CASE RedisWipe
    BY <1>1, <1>3 DEF RedisWipe, lives, history
  <1>4. CASE UNCHANGED vars
    BY <1>1, <1>4 DEF vars
  <1>5. QED BY <1>2, <1>3, <1>4, HandlerKeeps, InstanceKeeps DEF Next

\* The inductive invariant holds: stores and requests always agree.
THEOREM Invariance == Spec => []IInv
  BY InitIInv, NextIInv, PTL DEF Spec

-----------------------------------------------------------------------------
(* The safety properties.                                                  *)

\* No two rows of the bookings table are for one seat.
THEOREM NeverDoubleBooked == Spec => []NoDoubleBooking
  BY Invariance, PTL DEF IInv, StoresAgree

\* A session told "confirmed" or "already_mine" owns the seat for ever.
THEOREM SuccessIsOwnership == Spec => []SuccessMeansOwner
  BY Invariance, PTL DEF IInv, RequestsAgree

\* A sale is announced by one request, and confirmed once.
THEOREM SoldOnce == Spec => []OneSale
  BY Invariance, PTL DEF IInv, RequestsAgree

\* Redis refuses as sold only what the table says is sold.
THEOREM MarkersAreRows == Spec => []MarkerSound
  BY Invariance, PTL DEF IInv, StoresAgree

\* An owner is never told that it lost.
THEOREM RejectionsAreTrue == Spec => TruthfulRejection
  <1>1. IInv /\ [Next]_vars =>
          [\A r \in Requests :
             /\ pc[r] \in ConfirmSteps
             /\ pc'[r] \in {"conflict", "hold_expired"}
             => Row(r) \notin bookings]_vars
    <2> SUFFICES ASSUME IInv, Next, NEW r \in Requests,
                        pc[r] \in ConfirmSteps,
                        pc'[r] \in {"conflict", "hold_expired"},
                        Row(r) \in bookings
                 PROVE  FALSE
      OBVIOUS
    <2>1. OwnerOf(r.seat) = r.session
      BY OwnerOfRow, RequestFields DEF IInv, StoresAgree
    <2>2. pc'[r] # pc[r]
      BY DEF ConfirmSteps
    <2>3. PICK q \in Requests :
            \/ ReceiveHold(q) \/ ReceiveConfirm(q)
            \/ HandlerStep(q)
            \/ RequestFault(q)
      <3>1. ASSUME NEW i \in Instances, LifeStep(i)
            PROVE  FALSE
        BY <2>2, <3>1 DEF LifeStep, BootStep, Restart, LoadBooked, RehydrateBooked, Serve,
                          Crash, RehydrateFails, Stop, Exit
      <3>2. QED
        BY <2>2, <3>1 DEF Next, Expire, RedisWipe
    <2>4. q = r
      BY <2>2, <2>3 DEF ReceiveHold, ReceiveConfirm, HandlerStep, TryHold, PublishHeld,
           HoldOwner, BookingOwner, ConfirmBooking, ReadBack, MarkBooked, PublishBooked,
           RequestFault, CallFails, HoldReplyLost, MarkReplyLost, InsertReplyLost,
           PublishReplyLost, Continue, IInv, TypeOK
    <2>5. CASE BookingOwner(r)
      BY <2>1, <2>5 DEF BookingOwner, NotHolderAnswer, Continue, IInv, TypeOK
    <2>6. CASE ReadBack(r)
      BY <2>1, <2>6 DEF ReadBack, ReadBackAnswer, Continue, IInv, TypeOK
    <2>7. CASE CallFails(r)
      BY <2>7 DEF CallFails, AfterError, Continue, IInv, TypeOK
    <2>8. QED
      BY <2>3, <2>4, <2>5, <2>6, <2>7 DEF ReceiveHold, ReceiveConfirm, HandlerStep,
           TryHold, PublishHeld, HoldOwner, AfterHoldOwner, ConfirmBooking, MarkBooked,
           PublishBooked, RequestFault, HoldReplyLost, MarkReplyLost, InsertReplyLost,
           PublishReplyLost, Continue, Resting, Answers, Success, ConfirmSteps, IInv, TypeOK
  <1>2. QED BY <1>1, Invariance, PTL DEF Spec, TruthfulRejection

-----------------------------------------------------------------------------
(* What was true stays true: holds once granted and rows only accumulate.  *)

LEMMA TruthGrows ==
    ASSUME Next \/ UNCHANGED vars
    PROVE  bookings \subseteq bookings' /\ granted \subseteq granted'
  <1> USE DEF redis, lives, history, vars
  <1>1. ASSUME NEW r \in Requests,
               ReceiveHold(r) \/ ReceiveConfirm(r) \/ HandlerStep(r) \/ RequestFault(r)
        PROVE  bookings \subseteq bookings' /\ granted \subseteq granted'
    BY <1>1 DEF ReceiveHold, ReceiveConfirm, HandlerStep, RequestFault, TryHold, PublishHeld,
         HoldOwner, BookingOwner, ConfirmBooking, ReadBack, MarkBooked, PublishBooked,
         CallFails, HoldReplyLost, MarkReplyLost, InsertReplyLost, PublishReplyLost,
         HoldScript, BookScript, Insert
  <1>2. ASSUME NEW i \in Instances, LifeStep(i)
        PROVE  bookings \subseteq bookings' /\ granted \subseteq granted'
    BY <1>2 DEF LifeStep, BootStep, Restart, LoadBooked, RehydrateBooked, Serve, Crash,
                RehydrateFails, Stop, Exit
  <1>3. QED
    BY <1>1, <1>2 DEF Next, Expire, RedisWipe

\* No two rows of a seat, and none that goes away: nor does a marker.
LEMMA MarkerKept ==
    ASSUME IInv, IInv', Next, NEW s \in Seats, marker[s] # None, ~RedisWipe
    PROVE  marker'[s] = marker[s]
  <1>1. [seat |-> s, session |-> marker[s]] \in bookings'
    BY TruthGrows DEF IInv, StoresAgree, MarkerSound
  <1>2. marker'[s] # None
    <2> USE DEF redis, lives, history
    <2>1. ASSUME NEW r \in Requests,
                 ReceiveHold(r) \/ ReceiveConfirm(r) \/ HandlerStep(r) \/ RequestFault(r)
          PROVE  marker' = marker \/ marker' = [marker EXCEPT ![r.seat] = r.session]
      BY <2>1 DEF ReceiveHold, ReceiveConfirm, HandlerStep, RequestFault, TryHold,
           PublishHeld, HoldOwner, BookingOwner, ConfirmBooking, ReadBack, MarkBooked,
           PublishBooked, CallFails, HoldReplyLost, MarkReplyLost, InsertReplyLost,
           PublishReplyLost, BookScript
    <2>2. ASSUME NEW i \in Instances, LifeStep(i)
          PROVE  marker' = marker \/ \E b \in bookings :
                                        marker' = [marker EXCEPT ![b.seat] = b.session]
      BY <2>2 DEF LifeStep, BootStep, Restart, LoadBooked, RehydrateBooked, Serve,
           Crash, RehydrateFails, Stop, Exit, IInv, StoresAgree, RehydratesRows
    <2>3. \A b \in bookings : b.session \in Sessions
      BY DEF IInv, TypeOK, BookingRows
    <2>4. \/ marker' = marker
          \/ \E t, u : u \in Sessions /\ marker' = [marker EXCEPT ![t] = u]
      BY <2>1, <2>2, <2>3, RequestFields DEF Next, Expire
    <2>5. QED BY <2>4, NoneAssumption DEF IInv, TypeOK
  <1>3. [seat |-> s, session |-> marker'[s]] \in bookings'
    BY <1>2 DEF IInv, StoresAgree, MarkerSound
  <1>4. QED BY <1>1, <1>3 DEF IInv, StoresAgree, NoDoubleBooking

\* Rehydrations with older views of the table interleave with marks, and no marker
\* of a sale is ever lost or handed to another session by them: only with Redis
\* itself does one go.
THEOREM MarkersAreKept == Spec => MarkersStay
  <1>1. IInv /\ IInv' /\ [Next]_vars
            => [\A s \in Seats : marker[s] # None => marker'[s] = marker[s] \/ RedisWipe]_vars
    BY MarkerKept
  <1>2. QED BY <1>1, Invariance, PTL DEF Spec, MarkersStay

\* Only the script of a sale, the clock and the end of Redis delete a hold, and
\* only into a free place is one written.
THEOREM HoldsStay == Spec => HoldsAreKept
  <1>1. ASSUME IInv, Next, NEW s \in Seats, hold[s] # None, hold'[s] # hold[s], ~RedisWipe
        PROVE  hold'[s] = None /\ (Expire(s) \/ Sold(s))
    <2> USE DEF redis, lives, history
    <2>1. CASE \E t \in Seats : Expire(t)
      BY <1>1, <2>1 DEF Expire, IInv, TypeOK
    <2>2. ASSUME NEW r \in Requests,
                 ReceiveHold(r) \/ ReceiveConfirm(r) \/ HandlerStep(r) \/ RequestFault(r)
          PROVE  hold'[s] = None /\ Sold(s)
      <3>1. CASE TryHold(r) \/ HoldReplyLost(r)
        BY <1>1, <3>1 DEF TryHold, HoldReplyLost, HoldScript, IInv, TypeOK
      <3>2. CASE MarkBooked(r) \/ MarkReplyLost(r)
        <4>1. Announcing(r) /\ hold' = [hold EXCEPT ![r.seat] = None]
          BY <3>2 DEF MarkBooked, MarkReplyLost, BookScript, Announcing
        <4>2. Row(r) \in bookings /\ Row(r).seat = r.seat
          BY <1>1, <4>1, RequestFields DEF IInv, RequestsAgree, AnnouncesOwnRow
        <4>3. r.seat = s /\ hold'[s] = None
          BY <1>1, <4>1 DEF IInv, TypeOK
        <4>4. QED BY <4>2, <4>3 DEF Sold
      <3>3. CASE ~TryHold(r) /\ ~HoldReplyLost(r) /\ ~MarkBooked(r) /\ ~MarkReplyLost(r)
        <4>1. hold' = hold
          BY <2>2, <3>3 DEF ReceiveHold, ReceiveConfirm, HandlerStep, RequestFault,
               PublishHeld, HoldOwner, BookingOwner, ConfirmBooking, ReadBack,
               PublishBooked, CallFails, InsertReplyLost, PublishReplyLost
        <4>2. QED BY <1>1, <4>1
      <3>4. QED BY <3>1, <3>2, <3>3
    <2>3. ASSUME NEW i \in Instances, LifeStep(i) PROVE hold' = hold
      BY <2>3 DEF LifeStep, BootStep, Restart, LoadBooked, RehydrateBooked, Serve, Crash,
                  RehydrateFails, Stop, Exit
    <2>4. QED BY <1>1, <2>1, <2>2, <2>3 DEF Next
  <1>2. ASSUME IInv, RedisWipe, NEW s \in Seats PROVE hold'[s] = None
    BY <1>2 DEF RedisWipe
  <1>3. IInv /\ [Next]_vars
            => [\A s \in Seats : hold[s] # None /\ hold'[s] # hold[s] =>
                   /\ hold'[s] = None
                   /\ Expire(s) \/ RedisWipe \/ Sold(s)]_vars
    BY <1>1, <1>2
  <1>4. QED BY <1>3, Invariance, PTL DEF Spec, HoldsAreKept

-----------------------------------------------------------------------------
(* The answers.                                                            *)

\* A request that goes on to one of these has something to show for it.
LEMMA AnswersKept ==
    ASSUME IInv, AnswersTrue, Next \/ UNCHANGED vars
    PROVE  AnswersTrue'
  <1> USE DEF redis, lives, history, vars
  <1>1. bookings \subseteq bookings' /\ granted \subseteq granted'
    BY TruthGrows
  <1> DEFINE Grounds(q, place) ==
                 /\ place \in {"publishHeld", "held"} => Row(q) \in granted'
                 /\ place = "seat_booked" => \E b \in bookings' : b.seat = q.seat
                 /\ place \in {"lookupHeld", "conflict"} => GrantedToAnother(q)'
                 /\ place = "taken" => GrantedToAnother(q)' \/ Row(q) \in granted'
  <1>2. \A q \in Requests : Grounds(q, pc[q])
    BY <1>1 DEF AnswersTrue, Sold, GrantedToAnother
  <1>3. ASSUME NEW r \in Requests, NEW next, Continue(r, next), Grounds(r, next)
        PROVE  AnswersTrue'
    <2>1. \A q \in Requests : pc'[q] = IF q = r THEN next ELSE pc[q]
      BY <1>3 DEF Continue, IInv, TypeOK
    <2>2. QED BY <1>2, <1>3, <2>1 DEF AnswersTrue, Sold, Row, GrantedToAnother
  <1>4. ASSUME NEW r \in Requests, TryHold(r)
        PROVE  Grounds(r, HoldResult(r))
    <2>1. CASE marker[r.seat] # None
      <3>1. [seat |-> r.seat, session |-> marker[r.seat]] \in bookings'
        BY <1>1, <2>1, RequestFields DEF IInv, StoresAgree, MarkerSound
      <3>2. HoldResult(r) = "seat_booked"
        BY <2>1 DEF HoldResult
      <3>3. QED BY <3>1, <3>2
    <2>2. CASE marker[r.seat] = None /\ hold[r.seat] = None
      BY <1>4, <2>2 DEF TryHold, HoldScript, HoldResult
    <2>3. CASE marker[r.seat] = None /\ hold[r.seat] # None
      <3>1. [seat |-> r.seat, session |-> hold[r.seat]] \in granted'
        BY <1>1, <2>3, RequestFields DEF IInv, StoresAgree, HoldsWereGranted
      <3>2. HoldResult(r) = "taken"
        BY <2>3 DEF HoldResult
      <3>3. QED BY <3>1, <3>2 DEF GrantedToAnother, Row
    <2>4. QED BY <2>1, <2>2, <2>3
  <1>5. ASSUME NEW r \in Requests, ReceiveHold(r) \/ ReceiveConfirm(r) \/ HandlerStep(r)
        PROVE  AnswersTrue'
    <2>1. CASE TryHold(r)
      BY <1>3, <1>4, <2>1 DEF TryHold
    <2>2. CASE PublishHeld(r)
      BY <1>2, <1>3, <2>2 DEF PublishHeld
    <2>3. CASE HoldOwner(r)
      <3>1. hold[r.seat] # None => [seat |-> r.seat, session |-> hold[r.seat]] \in granted'
        BY <1>1, RequestFields DEF IInv, StoresAgree, HoldsWereGranted
      <3>2. Grounds(r, AfterHoldOwner(r))
        BY <3>1 DEF AfterHoldOwner, GrantedToAnother
      <3>3. QED BY <1>3, <2>3, <3>2 DEF HoldOwner
    <2>4. ASSUME OwnerOf(r.seat) # r.session, Sold(r.seat)
          PROVE  GrantedToAnother(r)'
      <3>1. [seat |-> r.seat, session |-> OwnerOf(r.seat)] \in bookings
        BY <2>4, OwnerOfRow, RequestFields DEF IInv, StoresAgree
      <3>2. QED
        BY <1>1, <2>4, <3>1 DEF IInv, StoresAgree, BookedOnlyAfterHold, GrantedToAnother
    <2>5. CASE BookingOwner(r)
      <3>1. Grounds(r, NotHolderAnswer(r))
        BY <1>2, <2>4 DEF NotHolderAnswer
      <3>2. QED BY <1>3, <2>5, <3>1 DEF BookingOwner
    <2>6. CASE ReadBack(r)
      <3>1. OwnerOf(r.seat) # None => Sold(r.seat)
        BY DEF OwnerOf
      <3>2. Grounds(r, ReadBackAnswer(r))
        BY <2>4, <3>1 DEF ReadBackAnswer
      <3>3. QED BY <1>3, <2>6, <3>2 DEF ReadBack
    <2>7. CASE \/ ReceiveHold(r) \/ ReceiveConfirm(r)
               \/ ConfirmBooking(r) \/ MarkBooked(r) \/ PublishBooked(r)
      BY <1>3, <2>7 DEF ReceiveHold, ReceiveConfirm, ConfirmBooking, MarkBooked, PublishBooked
    <2>8. QED BY <1>5, <2>1, <2>2, <2>3, <2>5, <2>6, <2>7 DEF HandlerStep
  <1>6. ASSUME NEW r \in Requests, RequestFault(r)
        PROVE  AnswersTrue'
    <2>1. CASE CallFails(r)
      <3>1. pc[r] # "publishHeld"
                => AfterError[pc[r]] \notin {"publishHeld", "held", "seat_booked", "taken",
                                             "lookupHeld", "conflict"}
        BY <2>1 DEF CallFails, AfterError
      <3>2. pc[r] = "publishHeld" => AfterError[pc[r]] = "held"
        BY DEF AfterError
      <3>3. Grounds(r, AfterError[pc[r]])
        BY <1>2, <3>1, <3>2
      <3>4. QED BY <1>3, <2>1, <3>3 DEF CallFails
    <2>2. CASE InsertReplyLost(r)
      BY <1>3, <2>2 DEF InsertReplyLost
    <2>3. CASE HoldReplyLost(r) \/ MarkReplyLost(r) \/ PublishReplyLost(r)
      <3>1. pc' = pc
        BY <2>3 DEF HoldReplyLost, MarkReplyLost, PublishReplyLost
      <3>2. QED BY <1>2, <3>1 DEF AnswersTrue, Sold, Row, GrantedToAnother
    <2>4. QED BY <1>6, <2>1, <2>2, <2>3 DEF RequestFault
  <1>7. ASSUME NEW i \in Instances, LifeStep(i)
        PROVE  AnswersTrue'
    <2>1. \A q \in Requests : pc'[q] = pc[q] \/ pc'[q] = "dropped"
      BY <1>7 DEF LifeStep, BootStep, Restart, LoadBooked, RehydrateBooked, Serve, Crash,
                  RehydrateFails, Stop, Exit
    <2>2. QED BY <1>2, <2>1 DEF AnswersTrue, Sold, Row, GrantedToAnother
  <1>8. CASE pc' = pc
    BY <1>2, <1>8 DEF AnswersTrue, Sold, Row, GrantedToAnother
  <1>9. QED BY <1>5, <1>6, <1>7, <1>8 DEF Next, Expire, RedisWipe

\* Neither handler says what the stores do not bear out.
THEOREM AnswersAreTrue == Spec => []AnswersTrue
  <1>1. Init => AnswersTrue
    BY DEF Init, AnswersTrue
  <1>2. IInv /\ AnswersTrue /\ [Next]_vars => AnswersTrue'
    BY AnswersKept
  <1>3. QED BY <1>1, <1>2, Invariance, PTL DEF Spec

-----------------------------------------------------------------------------
(* While only crashes and stops happen, every sale is on its way to its    *)
(* marker.                                                                 *)

\* Under crashes and stops a marker is never removed, so it is enough that
\* whoever was to set it still is.
LEMMA MarkedStaysMarked ==
    ASSUME IInv, IInv', NEW b \in bookings, b \in bookings',
           marker[b.seat] = b.session,
           marker'[b.seat] # None
    PROVE  marker'[b.seat] = b.session
  <1>1. b.seat \in Seats
    BY DEF IInv, TypeOK, BookingRows
  <1>2. [seat |-> b.seat, session |-> marker'[b.seat]] \in bookings'
    BY <1>1 DEF IInv, StoresAgree, MarkerSound
  <1>3. [seat |-> b.seat, session |-> marker'[b.seat]] = b
    BY <1>2 DEF IInv, StoresAgree, NoDoubleBooking
  <1>4. QED BY <1>3

LEMMA NextBeingMarked ==
    ASSUME FaultKinds \subseteq {"crash", "stop"}
    PROVE  SaleIsBeingMarked /\ IInv /\ IInv' /\ [Next]_vars => SaleIsBeingMarked'
  <1> SUFFICES ASSUME SaleIsBeingMarked, IInv, IInv', [Next]_vars,
                      NEW b \in bookings'
               PROVE  BeingMarked(b)'
    BY DEF SaleIsBeingMarked
  <1> USE DEF redis, lives, history
  <1>1. ASSUME b \in bookings PROVE BeingMarked(b)
    BY <1>1 DEF SaleIsBeingMarked
  <1>2. /\ b.seat \in Seats /\ b.session \in Sessions /\ b.session # None
        /\ b = [seat |-> b.seat, session |-> b.session]
    BY NoneAssumption DEF IInv, TypeOK, BookingRows
  \* Steps after which the marker is there if it was before, and the one who
  \* was to set it still is to set it.
  <1>3. ASSUME b \in bookings,
               marker[b.seat] # None => marker'[b.seat] # None,
               \A r \in Requests : pc[r] = "markBooked" /\ Row(r) = b =>
                    \/ pc'[r] = "markBooked"
                    \/ marker'[b.seat] = b.session
                    \/ inst'[r.at] = "down",
               \A i \in Instances : \/ inst'[i] = inst[i] /\ toMark'[i] = toMark[i]
                                    \/ inst'[i] \in {"draining", "down", "starting"}
                                    \/ b \in toMark'[i]
                                    \/ /\ inst[i] \notin {"draining", "down", "starting"}
                                       /\ b \notin toMark[i]
                                    \/ marker'[b.seat] = b.session
        PROVE  BeingMarked(b)'
    <2>1. CASE marker[b.seat] = b.session
      BY <1>2, <1>3, <2>1, MarkedStaysMarked DEF BeingMarked
    <2>2. CASE \E r \in Requests : pc[r] = "markBooked" /\ Row(r) = b
      BY <1>3, <2>2, RequestFields DEF BeingMarked, Row
    <2>3. CASE \E i \in Instances : inst[i] \in {"draining", "down", "starting"} \/ b \in toMark[i]
      BY <1>3, <2>3 DEF BeingMarked
    <2>4. QED BY <1>1, <1>3, <2>1, <2>2, <2>3 DEF BeingMarked
  <1>4. ~Fault("error") /\ ~Fault("lostReply") /\ ~Fault("redisWipe")
    BY DEF Fault
  <1>5. ASSUME NEW r \in Requests,
               ReceiveHold(r) \/ ReceiveConfirm(r) \/ HandlerStep(r) \/ RequestFault(r)
        PROVE  BeingMarked(b)'
    <2>1. ~RequestFault(r)
      BY <1>4 DEF RequestFault, CallFails, HoldReplyLost, MarkReplyLost, InsertReplyLost,
                        PublishReplyLost
    <2>2. UNCHANGED <<inst, toMark>> /\ (\A q \in Requests : q # r => pc'[q] = pc[q])
      BY <1>5, <2>1 DEF ReceiveHold, ReceiveConfirm, HandlerStep, TryHold, PublishHeld,
           HoldOwner, BookingOwner, ConfirmBooking, ReadBack, MarkBooked, PublishBooked,
           Continue, IInv, TypeOK
    <2>3. CASE MarkBooked(r)
      <3>1. bookings' = bookings /\ BookScript(r)
        BY <2>3 DEF MarkBooked
      <3>2. Row(r) = b => marker'[b.seat] = b.session
        BY <3>1, RequestFields DEF BookScript, IInv, TypeOK, Row
      <3>3. marker[b.seat] # None => marker'[b.seat] # None
        BY <3>1, RequestFields, <1>2 DEF BookScript, IInv, TypeOK
      <3>4. QED BY <1>3, <2>2, <3>1, <3>2, <3>3
    <2>4. CASE ConfirmBooking(r)
      <3>1. marker' = marker /\ pc[r] = "insert"
        BY <2>4 DEF ConfirmBooking
      <3>2. CASE b \in bookings
        BY <1>3, <2>2, <3>1, <3>2
      <3>3. CASE b \notin bookings
        <4>1. b = Row(r) /\ ~Sold(r.seat)
          BY <2>4, <3>3 DEF ConfirmBooking, Insert
        <4>2. pc'[r] = "markBooked"
          BY <2>4, <4>1 DEF ConfirmBooking, Continue, IInv, TypeOK
        <4>3. QED BY <4>1, <4>2 DEF BeingMarked, Row
      <3>4. QED BY <3>2, <3>3
    <2>5. CASE ~MarkBooked(r) /\ ~ConfirmBooking(r)
      <3>1. bookings' = bookings /\ marker' = marker /\ pc[r] # "markBooked"
        BY <1>5, <2>1, <2>5 DEF ReceiveHold, ReceiveConfirm, HandlerStep, TryHold,
             PublishHeld, HoldOwner, BookingOwner, ReadBack, PublishBooked,
             Resting, Answers, Success
      <3>2. QED BY <1>3, <2>2, <3>1
    <2>6. QED BY <2>3, <2>4, <2>5
  <1>6. ASSUME NEW i \in Instances, LifeStep(i)
        PROVE  BeingMarked(b)'
    <2>1. CASE Restart(i)
      BY <1>3, <2>1 DEF Restart, IInv, TypeOK
    <2>2. CASE LoadBooked(i)
      BY <1>3, <2>2 DEF LoadBooked, IInv, TypeOK
    <2>3. ASSUME NEW c \in toMark[i], RehydrateBooked(i, c) PROVE BeingMarked(b)'
      <3>1. c = b => marker'[b.seat] = b.session
        BY <1>2, <2>3 DEF RehydrateBooked, IInv, TypeOK
      <3>2. marker[b.seat] # None => marker'[b.seat] # None
        <4>1. c.session # None
          BY NoneAssumption DEF IInv, TypeOK, BookingRows
        <4>2. QED BY <1>2, <2>3, <4>1 DEF RehydrateBooked, IInv, TypeOK
      <3>3. QED BY <1>3, <2>3, <3>1, <3>2 DEF RehydrateBooked, IInv, TypeOK
    <2>4. CASE Serve(i)
      BY <1>3, <2>4 DEF Serve, IInv, TypeOK
    <2>5. CASE Crash(i)
      <3>1. inst'[i] = "down"
        BY <2>5 DEF Crash, IInv, TypeOK
      <3>2. QED BY <3>1 DEF BeingMarked
    <2>6. CASE Stop(i)
      <3>1. inst'[i] = "draining"
        BY <2>6 DEF Stop, IInv, TypeOK
      <3>2. QED BY <3>1 DEF BeingMarked
    <2>7. CASE Exit(i)
      <3>1. inst'[i] = "down"
        BY <2>7 DEF Exit, IInv, TypeOK
      <3>2. QED BY <3>1 DEF BeingMarked
    <2>8. QED
      BY <1>4, <1>6, <2>1, <2>2, <2>3, <2>4, <2>5, <2>6, <2>7
         DEF LifeStep, BootStep, RehydrateFails
  <1>7. ASSUME NEW s \in Seats, Expire(s) PROVE BeingMarked(b)'
    BY <1>3, <1>7 DEF Expire
  <1>8. CASE UNCHANGED vars
    BY <1>3, <1>8 DEF vars
  <1>9. QED BY <1>4, <1>5, <1>6, <1>7, <1>8 DEF Next, RedisWipe

\* Every sale is marked, or somebody is left who will mark it.
THEOREM SalesAreBeingMarked == Spec => []SaleIsBeingMarked
  <1>1. CASE FaultKinds \subseteq {"crash", "stop"}
    <2>1. Init => SaleIsBeingMarked
      BY DEF Init, SaleIsBeingMarked
    <2>2. QED BY <1>1, <2>1, NextBeingMarked, Invariance, PTL DEF Spec
  <1>2. CASE ~(FaultKinds \subseteq {"crash", "stop"})
    <2>1. SaleIsBeingMarked
      BY <1>2 DEF SaleIsBeingMarked
    <2>2. QED BY <2>1, PTL
  <1>3. QED BY <1>1, <1>2

-----------------------------------------------------------------------------
(* Booking implements SeatSale.                                            *)

LEMMA InitSale == Init => Sale!Init
  BY DEF Init, Sale!Init, Owners, OwnerOf, Sold

\* Nothing the abstraction sees has changed.
LEMMA QuietIsStutter ==
    ASSUME UNCHANGED <<bookings, granted, told>>
    PROVE  UNCHANGED Sale!vars
  BY DEF Sale!vars, Owners, OwnerOf, Sold

\* Only successes are told.
LEMMA QuietContinue ==
    ASSUME NEW r \in Requests, NEW next, next \notin Success, Continue(r, next)
    PROVE  told' = told
  BY DEF Continue

LEMMA SuccessContinue ==
    ASSUME NEW r \in Requests, NEW next \in Success, Continue(r, next)
    PROVE  told' = told \cup {[seat |-> r.seat, session |-> r.session, status |-> next]}
  BY DEF Continue

\* The insert of a new row is the sale, and changes one owner.
LEMMA InsertIsSell ==
    ASSUME IInv, IInv', NEW r \in Requests, pc[r] = "insert", ~Sold(r.seat),
           bookings' = bookings \cup {Row(r)},
           UNCHANGED <<granted, told>>
    PROVE  Sale!Next
  <1>1. Owners[r.seat] = None /\ Row(r) \in granted
    BY RequestFields DEF Owners, OwnerOf, IInv, RequestsAgree, InsertAfterHold
  <1>2. \A s \in Seats : s # r.seat => OwnerOf(s)' = OwnerOf(s)
    <2> SUFFICES ASSUME NEW s \in Seats, s # r.seat PROVE OwnerOf(s)' = OwnerOf(s)
      OBVIOUS
    <2>1. \A b : (b \in bookings' /\ b.seat = s) <=> (b \in bookings /\ b.seat = s)
      BY RequestFields
    <2>2. CASE Sold(s)
      <3>1. PICK b \in bookings : b.seat = s
        BY <2>2 DEF Sold
      <3>2. OwnerOf(s) = b.session
        BY <3>1, OwnerOfRow DEF IInv, StoresAgree
      <3>3. NoDoubleBooking' /\ b \in bookings'
        BY <2>1, <3>1 DEF IInv, StoresAgree
      <3>4. \A c \in bookings' : c.seat = s => c = b
        BY <3>1, <3>3 DEF NoDoubleBooking
      <3>5. (CHOOSE c \in bookings' : c.seat = s) = b
        BY <3>1, <3>3, <3>4
      <3>6. OwnerOf(s)' = b.session
        BY <3>1, <3>3, <3>5 DEF OwnerOf, Sold
      <3>7. QED BY <3>2, <3>6
    <2>3. CASE ~Sold(s)
      BY <2>1, <2>3 DEF OwnerOf, Sold
    <2>4. QED BY <2>2, <2>3
  <1>3. OwnerOf(r.seat)' = r.session
    <2>1. Row(r) \in bookings' /\ NoDoubleBooking'
      BY DEF IInv, StoresAgree
    <2>2. \A c \in bookings' : c.seat = r.seat => c = Row(r)
      BY <2>1, RequestFields DEF NoDoubleBooking
    <2>3. (CHOOSE c \in bookings' : c.seat = r.seat) = Row(r)
      BY <2>1, <2>2, RequestFields
    <2>4. QED BY <2>1, <2>3, RequestFields DEF OwnerOf, Sold
  <1>4. Owners' = [Owners EXCEPT ![r.seat] = r.session]
    BY <1>2, <1>3, RequestFields DEF Owners
  <1>5. Sale!Sell(r.seat, r.session)
    BY <1>1, <1>4 DEF Sale!Sell, Row
  <1>6. QED BY <1>5, RequestFields DEF Sale!Next

LEMMA NextSale ==
    IInv /\ IInv' /\ [Next]_vars => Sale!Next \/ UNCHANGED Sale!vars
  <1> SUFFICES ASSUME IInv, IInv', [Next]_vars PROVE Sale!Next \/ UNCHANGED Sale!vars
    OBVIOUS
  <1> USE DEF redis, lives, history
  <1>1. ASSUME UNCHANGED bookings PROVE Owners' = Owners
    BY <1>1 DEF Owners, OwnerOf, Sold
  <1>2. ASSUME NEW r \in Requests, HoldScript(r), UNCHANGED <<bookings, told>>
        PROVE  Sale!Next \/ UNCHANGED Sale!vars
    <2>1. CASE granted' = granted
      BY <1>2, <2>1, QuietIsStutter
    <2>2. CASE granted' # granted
      <3>1. Sale!Grant(r.seat, r.session)
        BY <1>1, <1>2, <2>2 DEF HoldScript, Sale!Grant, Row
      <3>2. QED BY <3>1, RequestFields DEF Sale!Next
    <2>3. QED BY <2>1, <2>2
  \* Answering an owner is Confirm or Remind.
  <1>3. ASSUME NEW r \in Requests, Row(r) \in bookings, NEW next \in Success,
               Continue(r, next), next = "confirmed" => Announcing(r),
               UNCHANGED <<bookings, granted>>
        PROVE  Sale!Next
    <2>1. Owners[r.seat] = r.session
      BY <1>3, OwnerOfRow, RequestFields DEF Owners, IInv, StoresAgree
    <2>2. told' = told \cup {[seat |-> r.seat, session |-> r.session, status |-> next]}
      BY <1>3, SuccessContinue
    <2>3. CASE next = "already_mine"
      <3>1. Sale!Remind(r.seat, r.session)
        BY <1>1, <1>3, <2>1, <2>2, <2>3 DEF Sale!Remind
      <3>2. QED BY <3>1, RequestFields DEF Sale!Next
    <2>4. CASE next = "confirmed"
      <3>1. \A t \in told : t.seat = r.seat => t.status # "confirmed"
        BY <1>3, <2>4 DEF IInv, RequestsAgree, OneSale
      <3>2. Sale!Confirm(r.seat, r.session)
        BY <1>1, <1>3, <2>1, <2>2, <2>4, <3>1 DEF Sale!Confirm
      <3>3. QED BY <3>2, RequestFields DEF Sale!Next
    <2>5. QED BY <1>3, <2>3, <2>4 DEF Success
  <1>4. ASSUME NEW r \in Requests, NEW next, Continue(r, next), next \notin Success,
               UNCHANGED <<bookings, granted>>
        PROVE  UNCHANGED Sale!vars
    BY <1>4, QuietContinue, QuietIsStutter
  \* Answers that depend on the owner the SELECT found.
  <1>5. ASSUME NEW r \in Requests, NEW next, Continue(r, next),
               next # "confirmed",
               next = "already_mine" => OwnerOf(r.seat) = r.session,
               UNCHANGED <<bookings, granted>>
        PROVE  Sale!Next \/ UNCHANGED Sale!vars
    <2>1. CASE next = "already_mine"
      <3>1. Row(r) \in bookings
        BY <1>5, <2>1, OwnerOfRow, RequestFields DEF IInv, StoresAgree, Row
      <3>2. QED BY <1>3, <1>5, <2>1, <3>1 DEF Success
    <2>2. CASE next # "already_mine"
      BY <1>4, <1>5, <2>2 DEF Success
    <2>3. QED BY <2>1, <2>2
  <1>6. ASSUME NEW r \in Requests, pc[r] = "insert", Insert(r), NEW next,
               Continue(r, next), next \notin Success, UNCHANGED granted
        PROVE  Sale!Next \/ UNCHANGED Sale!vars
    <2>1. CASE Sold(r.seat)
      BY <1>4, <1>6, <2>1 DEF Insert
    <2>2. CASE ~Sold(r.seat)
      BY <1>6, <2>2, InsertIsSell, QuietContinue DEF Insert
    <2>3. QED BY <2>1, <2>2
  <1>7. ASSUME NEW r \in Requests, pc[r] = "publishBooked", Continue(r, "confirmed"),
               UNCHANGED <<bookings, granted>>
        PROVE  Sale!Next
    BY <1>3, <1>7 DEF Success, Announcing, IInv, RequestsAgree, AnnouncesOwnRow
  <1>8. ASSUME NEW r \in Requests,
               ReceiveHold(r) \/ ReceiveConfirm(r) \/ HandlerStep(r) \/ RequestFault(r)
        PROVE  Sale!Next \/ UNCHANGED Sale!vars
    <2> USE DEF Success
    <2>1. CASE ReceiveHold(r)     BY <1>4, <2>1 DEF ReceiveHold
    <2>2. CASE ReceiveConfirm(r)  BY <1>4, <2>2 DEF ReceiveConfirm
    <2>3. CASE TryHold(r)
      <3>1. HoldResult(r) \notin Success
        BY DEF HoldResult
      <3>2. told' = told
        BY <2>3, <3>1, QuietContinue DEF TryHold
      <3>3. QED BY <1>2, <2>3, <3>2 DEF TryHold
    <2>4. CASE PublishHeld(r)     BY <1>4, <2>4 DEF PublishHeld
    <2>5. CASE HoldOwner(r)
      <3>1. AfterHoldOwner(r) \notin Success
        BY DEF AfterHoldOwner
      <3>2. QED BY <1>4, <2>5, <3>1 DEF HoldOwner
    <2>6. CASE BookingOwner(r)
      <3>1. /\ NotHolderAnswer(r) # "confirmed"
            /\ NotHolderAnswer(r) = "already_mine" => OwnerOf(r.seat) = r.session
        BY DEF NotHolderAnswer
      <3>2. QED BY <1>5, <2>6, <3>1 DEF BookingOwner
    <2>7. CASE ConfirmBooking(r)
      <3>1. PICK next \in {"readBack", "markBooked"} : Continue(r, next)
        BY <2>7 DEF ConfirmBooking
      <3>2. QED BY <1>6, <2>7, <3>1 DEF ConfirmBooking
    <2>8. CASE ReadBack(r)
      <3>1. /\ ReadBackAnswer(r) # "confirmed"
            /\ ReadBackAnswer(r) = "already_mine" => OwnerOf(r.seat) = r.session
        BY DEF ReadBackAnswer
      <3>2. QED BY <1>5, <2>8, <3>1 DEF ReadBack
    <2>9. CASE MarkBooked(r)      BY <1>4, <2>9 DEF MarkBooked
    <2>10. CASE PublishBooked(r)  BY <1>7, <2>10 DEF PublishBooked
    <2>11. CASE CallFails(r)
      <3>1. CASE pc[r] = "publishBooked"
        BY <1>7, <2>11, <3>1 DEF CallFails, AfterError
      <3>2. CASE pc[r] # "publishBooked"
        <4>1. AfterError[pc[r]] \notin Success
          BY <2>11, <3>2 DEF CallFails, AfterError
        <4>2. QED BY <1>4, <2>11, <4>1 DEF CallFails
      <3>3. QED BY <3>1, <3>2
    <2>12. CASE HoldReplyLost(r)  BY <1>2, <2>12 DEF HoldReplyLost
    <2>13. CASE MarkReplyLost(r)  BY <2>13, QuietIsStutter DEF MarkReplyLost
    <2>14. CASE InsertReplyLost(r) BY <1>6, <2>14 DEF InsertReplyLost
    <2>15. CASE PublishReplyLost(r) BY <2>15, QuietIsStutter DEF PublishReplyLost
    <2>16. QED
      BY <1>8, <2>1, <2>2, <2>3, <2>4, <2>5, <2>6, <2>7, <2>8, <2>9, <2>10, <2>11,
         <2>12, <2>13, <2>14, <2>15 DEF HandlerStep, RequestFault
  <1>9. ASSUME NEW i \in Instances, LifeStep(i)
        PROVE  UNCHANGED Sale!vars
    <2>1. UNCHANGED <<bookings, granted, told>>
      BY <1>9 DEF LifeStep, BootStep, Restart, LoadBooked, RehydrateBooked, Serve, Crash,
                  RehydrateFails, Stop, Exit
    <2>2. QED BY <2>1, QuietIsStutter
  <1>10. ASSUME NEW s \in Seats, Expire(s) PROVE UNCHANGED Sale!vars
    BY <1>10, QuietIsStutter DEF Expire
  <1>11. CASE RedisWipe
    BY <1>11, QuietIsStutter DEF RedisWipe
  <1>12. CASE UNCHANGED vars
    BY <1>12, QuietIsStutter DEF vars
  <1>13. QED BY <1>8, <1>9, <1>10, <1>11, <1>12 DEF Next

\* The two stores, the instances and their faults are one sale of each seat.
THEOREM BookingImplementsSale == Spec => SaleSpec
  BY InitSale, NextSale, Invariance, PTL DEF Spec, SaleSpec, Sale!Spec

=============================================================================
