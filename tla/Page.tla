---------------------------------- MODULE Page ----------------------------------
(***************************************************************************)
(* One browser tab: what page.tsx lets its user do, composed with all the  *)
(* rest.  The tab shows the live map of one connection and sends the       *)
(* requests of one session through fetch, so its hold is announced to it   *)
(* twice: by the answer, as a toast, and by the event, on the map.  Only   *)
(* the map decides what can be clicked.  A toast is an output, and no      *)
(* state: operators say which one a step shows.                            *)
(*                                                                         *)
(* Other requests, of this session too, come as they like (LiveMap).       *)
(***************************************************************************)
EXTENDS LiveMap

CONSTANTS
    Me,              \* the session of the tab
    Tab,             \* its websocket connection
    NetworkMayFail   \* bound: whether a fetch may fail for no other reason

ASSUME PageAssumption ==
    /\ Me \in Sessions
    /\ Tab \in Browsers
    /\ None \notin Seats
    /\ NetworkMayFail \in BOOLEAN

VARIABLES
    selected,  \* selectedId
    busy,      \* whether the buttons of the panel are disabled
    wasMine,   \* the seat that was held and selected at the last effect, or None
    call       \* the fetch of each of the tab's requests

page == <<selected, busy, wasMine, call>>
pageVars == <<liveVars, page>>

-----------------------------------------------------------------------------
Mine == {r \in Requests : r.session = Me}

\* A fetch is on its way, or with its handler.
Sent == {"hold", "confirm"}
Arrived == {"holding", "confirming"}

\* Variant: whatever is not sold is taken for the tab's own.
HeldByMeUnlessSold(s) == s # None /\ view[Tab][s].status # "booked"

\* What the map says of a seat, as the page reads it (mine, bookedByMe).
HeldByMe(s) == s # None /\ view[Tab][s] = Held(Me)
Free(s) == s # None /\ view[Tab][s] = Open

PageInit ==
    /\ LiveInit
    /\ selected = None
    /\ busy = FALSE
    /\ wasMine = None
    /\ call = [r \in Mine |-> "none"]

-----------------------------------------------------------------------------
(* What the user does.                                                     *)

Unused(r) == call[r] = "none" /\ pc[r] \in Resting /\ (ReuseSlots \/ pc[r] = "idle")

\* postSeat: busy is set, but nothing looks at it first.
Send(r, kind) ==
    /\ Unused(r)
    /\ call' = [call EXCEPT ![r] = kind]
    /\ busy' = TRUE

\* Variant: what is remembered is not the id of the seat.
ClickFreeWhole(r) ==
    /\ Free(r.seat)
    /\ selected' = r
    /\ Send(r, "hold")
    /\ UNCHANGED <<liveVars, wasMine>>

\* onSelect, on a seat Seat.tsx lets be clicked: the selection changes, and an
\* open seat is held at once.
ClickFree(r) ==
    /\ Free(r.seat)
    /\ selected' = r.seat
    /\ Send(r, "hold")
    /\ UNCHANGED <<liveVars, wasMine>>

ClickMine(s) ==
    /\ HeldByMe(s)
    /\ selected' = s
    /\ UNCHANGED <<liveVars, busy, wasMine, call>>

\* The panel's button for an open seat.
PressHold(r) ==
    /\ selected = r.seat
    /\ Free(r.seat)
    /\ ~busy
    /\ Send(r, "hold")
    /\ UNCHANGED <<liveVars, selected, wasMine>>

\* The panel's button for a seat of one's own.
PressConfirm(r) ==
    /\ selected = r.seat
    /\ HeldByMe(r.seat)
    /\ ~busy
    /\ Send(r, "confirm")
    /\ UNCHANGED <<liveVars, selected, wasMine>>

-----------------------------------------------------------------------------
(* What becomes of a fetch.                                                *)

\* The request passes the limiter and reaches its handler.
Arrive(r) ==
    /\ Receives(r)
    /\ \/ call[r] = "hold" /\ ReceiveHold(r) /\ call' = [call EXCEPT ![r] = "holding"]
       \/ call[r] = "confirm" /\ ReceiveConfirm(r) /\ call' = [call EXCEPT ![r] = "confirming"]
    /\ UNCHANGED <<selected, busy, wasMine>>
    /\ TrackUndisturbed

\* handleHold and handleConfirm: the code and the body's status of an answer.
Reply(answer) ==
    [code |-> IF answer \in Success \cup {"held"} THEN 200
              ELSE IF answer = "unavailable" THEN 503 ELSE 409,
     status |-> IF answer = "unavailable" THEN "none" ELSE answer]

\* Variant: the status of a confirm is not looked at.
TextOfEager(reply) ==
    CASE reply.status = "held" -> "held"
      [] reply.status = "taken" -> "taken"
      [] reply.status = "seat_booked" -> "sold"
      [] OTHER -> "booked"

\* The toast of doHold, or of doConfirm, for a reply.
TextOf(reply) ==
    CASE reply.code = 200 /\ reply.status = "held" -> "held"
      [] reply.code = 200 /\ reply.status \in Success -> "booked"
      [] reply.status = "taken" -> "taken"
      [] reply.status = "seat_booked" -> "sold"
      [] reply.status = "conflict" -> "notYours"
      [] reply.status = "hold_expired" -> "tooLate"
      [] OTHER -> "failed"

\* The end of doHold and doConfirm: a toast, and finally the buttons.
Finish(r) ==
    /\ call' = [call EXCEPT ![r] = "none"]
    /\ busy' = FALSE
    /\ UNCHANGED <<liveVars, selected, wasMine>>

Answering(r) == call[r] \in Arrived /\ pc[r] \in Answers

Answered(r) == Answering(r) /\ Finish(r)

\* denyRateLimited: the toast is the one of a 429.
Refused(r) == call[r] \in Sent /\ Finish(r)

\* Variant: no finally.
FetchFailsBusy(r) ==
    /\ call[r] # "none"
    /\ NetworkMayFail \/ inst[r.at] # "up" \/ pc[r] = "dropped"
    /\ call' = [call EXCEPT ![r] = "none"]
    /\ UNCHANGED <<liveVars, selected, wasMine, busy>>

\* Nobody listens, the process died, or the network failed: what the request
\* has done, or will do, stays unknown.
FetchFails(r) ==
    /\ call[r] # "none"
    /\ NetworkMayFail \/ inst[r.at] # "up" \/ pc[r] = "dropped"
    /\ Finish(r)

-----------------------------------------------------------------------------
\* The effect that follows a render (some renders are skipped): "Your hold
\* expired", when ExpiryToast, and the next wasMine.
ExpiryToast ==
    /\ wasMine # None
    /\ ~HeldByMe(selected)
    /\ view[Tab][selected].status # "booked"

Effect ==
    /\ wasMine # IF HeldByMe(selected) THEN selected ELSE None
    /\ wasMine' = IF HeldByMe(selected) THEN selected ELSE None
    /\ UNCHANGED <<liveVars, selected, busy, call>>

CallStep(r) == Arrive(r) \/ Answered(r) \/ Refused(r) \/ FetchFails(r)

UserStep ==
    \/ \E r \in Mine : ClickFree(r) \/ PressHold(r) \/ PressConfirm(r)
    \/ \E s \in Seats : ClickMine(s)

\* Everybody else, a duplicate of the tab, which has its session, included.
WorldStep ==
    /\ \/ SystemStep
       \/ \E r \in Requests : (r \in Mine => call[r] = "none") /\ Receives(r)
    /\ TrackUndisturbed
    /\ UNCHANGED page

PageNext ==
    \/ UserStep
    \/ \E r \in Mine : CallStep(r)
    \/ Effect
    \/ WorldStep

PageSpec == PageInit /\ [][PageNext]_pageVars

\* As in LiveMap; and a fetch ends, if only by failing, when its handler does.
\* Nothing is assumed of the user.
PageFairness ==
    /\ \A r \in Requests : WF_pageVars(HandlerGoesOn(r) /\ TrackUndisturbed /\ UNCHANGED page)
    /\ \A k \in Subscriptions : WF_pageVars(Deliver(k) /\ TrackUndisturbed /\ UNCHANGED page)
    /\ \A v \in Browsers : WF_pageVars(Receive(v) /\ TrackUndisturbed /\ UNCHANGED page)
    /\ \A r \in Mine : WF_pageVars(CallStep(r))

PageFairSpec == PageSpec /\ PageFairness

-----------------------------------------------------------------------------
(* Properties                                                              *)

PageTypeOK ==
    /\ selected \in Seats \cup {None}
    /\ busy \in BOOLEAN
    /\ wasMine \in Seats \cup {None}
    /\ call \in [Mine -> Sent \cup Arrived \cup {"none"}]

\* However stale the map is, the page never asks to buy a seat that was not
\* held for its session: "conflict" and "hold_expired" are about lost holds
\* only (the button of SidePanel.tsx stands on what useSeatSocket.ts shows).
ConfirmsOwnHolds ==
    \A r \in Mine : call[r] \in {"confirm", "confirming"} => Row(r) \in granted

\* "Booked! That seat is yours." is never said of a seat that is not, through
\* retries, lost answers and whatever the map shows meanwhile (doConfirm).
BookedToastTrue ==
    \A r \in Mine : Answering(r) /\ TextOf(Reply(pc[r])) = "booked" => Row(r) \in bookings

\* doHold and doConfirm each know the statuses of their own handler: however the
\* two calls a tab may have under way, their failures and a reused connection
\* interleave, no answer of one reaches the toasts of the other, and an answer
\* is never read off a handler that has not run.
HoldAnswers == {"held", "taken", "seat_booked", "unavailable"}
ConfirmAnswers == Success \cup {"conflict", "hold_expired", "unavailable"}

AnswersMatch ==
    \A r \in Mine :
        /\ call[r] \in Sent => pc[r] \in Resting
        /\ call[r] = "holding" => pc[r] \in HoldSteps \cup HoldAnswers \cup {"dropped"}
        /\ call[r] = "confirming" => pc[r] \in ConfirmSteps \cup ConfirmAnswers \cup {"dropped"}

\* The buttons come back, whatever becomes of the calls that disabled them,
\* also when they overlap (finally, in doHold and doConfirm).
BusyEnds == busy ~> ~busy

\* Whoever is granted a hold gets to see the confirm button for it while the
\* map is live: the toast alone does not offer it, only the event does
\* (page.tsx, mine).
BeingHeld(s) == \E r \in Mine : r.seat = s /\ pc[r] = "publishHeld"

HoldsReachTheirTab ==
    \A s \in Seats :
        (BeingHeld(s) /\ Watching(Tab) /\ SellersGoOn)
        ~> (HeldByMe(s) \/ ~Watching(Tab))

-----------------------------------------------------------------------------
(* What a comment of the code says, and the code does not do.              *)

\* page.tsx:60 "Notice when a seat we were holding slips away (hold expired),
\* and say so": the toast is about a seat the map does not show as held by us.
ExpiryToastTrue ==
    [][Effect /\ ExpiryToast => ~HeldByMe(wasMine)]_pageVars
=============================================================================
