------------------------------ MODULE PageProofs ------------------------------
(***************************************************************************)
(* What holds of a tab for every number of seats, requests, instances and  *)
(* other browsers, whatever its user does and however the network fails:   *)
(* the rest of the system does not notice that it is driven by a page, the *)
(* page never asks to buy a seat it was not granted, and never says that a *)
(* seat is bought that is not.                                             *)
(***************************************************************************)
EXTENDS Page, LiveMapProofs

-----------------------------------------------------------------------------
(* The system with a page is the system.                                   *)

LEMMA PageStepIsLive == PageNext => LiveNext \/ UNCHANGED liveVars
  <1>1. ASSUME NEW r \in Mine, CallStep(r) PROVE LiveNext \/ UNCHANGED liveVars
    BY <1>1 DEF CallStep, Arrive, Answered, Refused, FetchFails, Finish, LiveNext, LiveStep,
                Mine
  <1>2. CASE UserStep
    BY <1>2 DEF UserStep, ClickFree, PressHold, PressConfirm, ClickMine
  <1>3. CASE Effect
    BY <1>3 DEF Effect
  <1>4. CASE WorldStep
    BY <1>4 DEF WorldStep, LiveNext, LiveStep
  <1>5. QED BY <1>1, <1>2, <1>3, <1>4 DEF PageNext

\* Every behaviour of a tab is one of the live map, and so of the sale: what is
\* proved of them holds for the users of a page (page.tsx is only a client).
THEOREM PageImplementsLive == PageSpec => LiveSpec
  <1>1. PageInit => LiveInit
    BY DEF PageInit
  <1>2. [PageNext]_pageVars => [LiveNext]_liveVars
    BY PageStepIsLive DEF pageVars
  <1>3. QED BY <1>1, <1>2, PTL DEF PageSpec, LiveSpec

\* Through all the layers: however people click, nets break, processes die and
\* Redis forgets, what the table and the answers show is the sale of SeatSale.
THEOREM PageImplementsSale == PageSpec => SaleSpec
  BY PageImplementsLive, LiveMapImplementsBooking, BookingImplementsSale, PTL

-----------------------------------------------------------------------------
(* A success that is waiting to be answered is on record.                  *)

AnswersTold ==
    \A r \in Requests : pc[r] \in Success =>
        \E t \in told : t.seat = r.seat /\ t.session = r.session

LEMMA ContinueTells ==
    ASSUME TypeOK, AnswersTold, NEW r \in Requests, NEW next, Continue(r, next)
    PROVE  AnswersTold'
  <1>1. \A q \in Requests : pc'[q] = IF q = r THEN next ELSE pc[q]
    BY DEF Continue, TypeOK
  <1>2. told \subseteq told'
    BY DEF Continue
  <1>3. next \in Success => [seat |-> r.seat, session |-> r.session, status |-> next] \in told'
    BY DEF Continue
  <1>4. QED BY <1>1, <1>2, <1>3 DEF AnswersTold

LEMMA NextTells ==
    ASSUME TypeOK, AnswersTold, Next \/ UNCHANGED vars
    PROVE  AnswersTold'
  <1> USE DEF redis, lives, history, vars
  <1>1. ASSUME NEW r \in Requests, ReceiveHold(r) \/ ReceiveConfirm(r) \/ HandlerStep(r)
        PROVE  AnswersTold'
    BY <1>1, ContinueTells DEF ReceiveHold, ReceiveConfirm, HandlerStep, TryHold,
         PublishHeld, HoldOwner, BookingOwner, ConfirmBooking, ReadBack, MarkBooked,
         PublishBooked
  <1>2. ASSUME NEW r \in Requests, CallFails(r) \/ InsertReplyLost(r)
        PROVE  AnswersTold'
    BY <1>2, ContinueTells DEF CallFails, InsertReplyLost
  <1>3. ASSUME NEW r \in Requests, HoldReplyLost(r) \/ MarkReplyLost(r) \/ PublishReplyLost(r)
        PROVE  AnswersTold'
    BY <1>3 DEF HoldReplyLost, MarkReplyLost, PublishReplyLost, AnswersTold
  <1>4. ASSUME NEW i \in Instances, LifeStep(i) PROVE AnswersTold'
    <2>1. told' = told
      BY <1>4 DEF LifeStep, BootStep, Restart, LoadBooked, RehydrateBooked, Serve, Crash,
                  RehydrateFails, Stop, Exit
    <2>2. \A q \in Requests : pc'[q] = pc[q] \/ pc'[q] = "dropped"
      BY <1>4 DEF LifeStep, BootStep, Restart, LoadBooked, RehydrateBooked, Serve, Crash,
                  RehydrateFails, Stop, Exit
    <2>3. QED BY <2>1, <2>2 DEF AnswersTold, Success
  <1>5. ASSUME pc' = pc, told' = told PROVE AnswersTold'
    BY <1>5 DEF AnswersTold
  <1>6. QED
    BY <1>1, <1>2, <1>3, <1>4, <1>5 DEF Next, RequestFault, Expire, RedisWipe

-----------------------------------------------------------------------------
(* The invariant of the page.                                              *)

\* Why the page's questions are honest: what the tab is shown is true.
PageInv == LiveInv /\ AnswersTold /\ PageTypeOK /\ ConfirmsOwnHolds

LEMMA ShownHoldsWereGranted ==
    ASSUME LiveInv, NEW r \in Mine, HeldByMe(r.seat)
    PROVE  Row(r) \in granted
  <1>1. r \in Requests /\ r.session = Me /\ r.seat \in Seats
    BY RequestFields DEF Mine
  <1>2. TrueOf(r.seat, view[Tab][r.seat])
    BY <1>1, PageAssumption DEF LiveInv, ViewSound
  <1>3. QED BY <1>1, <1>2 DEF TrueOf, HeldByMe, Held, Row

LEMMA PageTypesKept == PageTypeOK /\ PageNext => PageTypeOK'
  <1> SUFFICES ASSUME PageTypeOK, PageNext PROVE PageTypeOK'
    OBVIOUS
  <1> USE DEF PageTypeOK, Sent, Arrived
  <1>1. ASSUME NEW r \in Mine, ClickFree(r) \/ PressHold(r) \/ PressConfirm(r)
        PROVE  PageTypeOK'
    BY <1>1, RequestFields DEF ClickFree, PressHold, PressConfirm, Send, Mine
  <1>2. ASSUME NEW s \in Seats, ClickMine(s) PROVE PageTypeOK'
    BY <1>2 DEF ClickMine
  <1>3. ASSUME NEW r \in Mine, CallStep(r) PROVE PageTypeOK'
    BY <1>3 DEF CallStep, Arrive, Answered, Refused, FetchFails, Finish
  <1>4. CASE Effect
    BY <1>4 DEF Effect
  <1>5. CASE WorldStep
    BY <1>5 DEF WorldStep, page
  <1>6. QED BY <1>1, <1>2, <1>3, <1>4, <1>5 DEF PageNext, UserStep

LEMMA ConfirmsKept ==
    ASSUME PageInv, PageNext
    PROVE  ConfirmsOwnHolds'
  <1>1. Next \/ UNCHANGED vars
    BY PageStepIsLive, LiveStepIsBooking DEF liveVars
  <1>2. granted \subseteq granted'
    BY <1>1, TruthGrows
  <1>3. ASSUME NEW r \in Mine, call'[r] \in {"confirm", "confirming"}
        PROVE  call[r] \in {"confirm", "confirming"} \/ Row(r) \in granted
    <2>1. CASE UserStep
      <3>1. ASSUME NEW q \in Mine, ClickFree(q) \/ PressHold(q)
            PROVE  call[r] \in {"confirm", "confirming"}
        BY <1>3, <3>1 DEF ClickFree, PressHold, Send, PageInv, PageTypeOK
      <3>2. ASSUME NEW q \in Mine, PressConfirm(q)
            PROVE  call[r] \in {"confirm", "confirming"} \/ Row(r) \in granted
        BY <1>3, <3>2, ShownHoldsWereGranted DEF PressConfirm, Send, PageInv, PageTypeOK
      <3>3. ASSUME NEW s \in Seats, ClickMine(s)
            PROVE  call[r] \in {"confirm", "confirming"}
        BY <1>3, <3>3 DEF ClickMine
      <3>4. QED BY <2>1, <3>1, <3>2, <3>3 DEF UserStep
    <2>2. ASSUME NEW q \in Mine, CallStep(q)
          PROVE  call[r] \in {"confirm", "confirming"}
      BY <1>3, <2>2 DEF CallStep, Arrive, Answered, Refused, FetchFails, Finish, PageInv,
                        PageTypeOK
    <2>3. CASE Effect \/ WorldStep
      BY <1>3, <2>3 DEF Effect, WorldStep, page
    <2>4. QED BY <2>1, <2>2, <2>3 DEF PageNext
  <1>4. QED
    BY <1>2, <1>3 DEF ConfirmsOwnHolds, PageInv, Row

LEMMA InitPageInv == PageInit => PageInv
  <1> SUFFICES ASSUME PageInit PROVE PageInv
    OBVIOUS
  <1>1. LiveInv
    BY InitLiveInv DEF PageInit
  <1>2. AnswersTold
    BY DEF PageInit, LiveInit, Init, AnswersTold, Success
  <1>3. PageTypeOK /\ ConfirmsOwnHolds
    BY DEF PageInit, PageTypeOK, ConfirmsOwnHolds
  <1>4. QED BY <1>1, <1>2, <1>3 DEF PageInv

LEMMA NextPageInv == PageInv /\ [PageNext]_pageVars => PageInv'
  <1>1. ASSUME PageInv, PageNext PROVE PageInv'
    <2>1. LiveNext \/ UNCHANGED liveVars
      BY <1>1, PageStepIsLive
    <2>2. LiveInv'
      BY <1>1, <2>1, NextLiveInv DEF PageInv
    <2>3. AnswersTold'
      <3>1. TypeOK
        BY <1>1 DEF PageInv, LiveInv, IInv
      <3>2. QED BY <1>1, <2>1, <3>1, LiveStepIsBooking, NextTells DEF PageInv, liveVars
    <2>4. PageTypeOK' /\ ConfirmsOwnHolds'
      BY <1>1, PageTypesKept, ConfirmsKept DEF PageInv
    <2>5. QED BY <2>2, <2>3, <2>4 DEF PageInv
  <1>2. ASSUME PageInv, UNCHANGED pageVars PROVE PageInv'
    <2>1. LiveInv'
      BY <1>2, NextLiveInv DEF PageInv, pageVars
    <2>2. (AnswersTold /\ PageTypeOK /\ ConfirmsOwnHolds)'
      BY <1>2 DEF PageInv, pageVars, page, liveVars, vars, history, AnswersTold, PageTypeOK,
                  ConfirmsOwnHolds
    <2>3. QED BY <2>1, <2>2 DEF PageInv
  <1>3. QED BY <1>1, <1>2

-----------------------------------------------------------------------------
(* The two handlers of a tab keep their answers apart.                     *)

\* A step that is not the arrival of a request moves no handler from one path
\* to the other, starts none, and answers in the words of its path.
StaysOnPath(r) ==
    \/ pc'[r] = pc[r]
    \/ pc[r] \notin Resting /\ pc'[r] = "dropped"
    \/ pc[r] \in HoldSteps /\ pc'[r] \in HoldSteps \cup HoldAnswers
    \/ pc[r] \in ConfirmSteps /\ pc'[r] \in ConfirmSteps \cup ConfirmAnswers

LEMMA HandlersStayOnPath ==
    ASSUME TypeOK, SystemStep, NEW q \in Requests
    PROVE  StaysOnPath(q)
  <1> USE DEF StaysOnPath
  <1>1. ASSUME NEW r \in Requests, HandlerGoesOn(r) \/ HandlerFault(r)
        PROVE  StaysOnPath(q)
    <2> USE DEF HoldSteps, ConfirmSteps, HoldAnswers, ConfirmAnswers, Success
    <2>1. ASSUME NEW next, Continue(r, next)
          PROVE  pc'[q] = IF q = r THEN next ELSE pc[q]
      BY <2>1 DEF Continue, TypeOK
    <2>2. CASE TryHold(r) \/ PublishHeld(r)
      BY <2>1, <2>2 DEF TryHold, HoldResult, PublishHeld
    <2>3. CASE HoldOwner(r) \/ BookingOwner(r)
      BY <2>1, <2>3 DEF HoldOwner, AfterHoldOwner, BookingOwner, NotHolderAnswer
    <2>4. CASE ConfirmBooking(r)
      BY <2>1, <2>4 DEF ConfirmBooking
    <2>5. CASE ReadBack(r)
      BY <2>1, <2>5 DEF ReadBack, ReadBackAnswer
    <2>6. CASE MarkBooked(r) \/ PublishBooked(r)
      BY <2>1, <2>6 DEF MarkBooked, PublishBooked
    <2>7. CASE CallFails(r)
      BY <2>1, <2>7 DEF CallFails, AfterError
    <2>8. CASE InsertReplyLost(r)
      BY <2>1, <2>8 DEF InsertReplyLost
    <2>9. CASE HoldReplyLost(r) \/ MarkReplyLost(r) \/ PublishReplyLost(r)
      BY <2>9 DEF HoldReplyLost, MarkReplyLost, PublishReplyLost
    <2>10. QED
      BY <1>1, <2>2, <2>3, <2>4, <2>5, <2>6, <2>7, <2>8, <2>9
         DEF HandlerGoesOn, HandlerFault, Announce, AnnounceAgain
  <1>2. ASSUME NEW i \in Instances, InstanceStep(i) PROVE StaysOnPath(q)
    <2>1. CASE InstanceDies(i)
      BY <2>1 DEF InstanceDies, Crash
    <2>2. CASE ~InstanceDies(i)
      BY <1>2, <2>2 DEF InstanceStep, InstanceStops, InstanceExits, BootStep, Restart,
                        LoadBooked, RehydrateBooked, Serve, RehydrateFails, Stop, Exit
    <2>3. QED BY <2>1, <2>2
  <1>3. CASE \/ \E s \in Seats : HoldExpires(s)
             \/ \E k \in Subscriptions : Subscribe(k) \/ LoseSubscription(k) \/ Deliver(k)
             \/ RedisRestarts
             \/ \E v \in Browsers : BrowserStep(v)
    BY <1>3 DEF HoldExpires, Expire, Subscribe, LoseSubscription, Deliver, RedisRestarts,
                RedisWipe, BrowserStep, Connect, ReadBookings, ReadHold, ReadHoldsFails,
                ReadBookingsFails, SendSnapshot, Receive, LinkBreaks, vars
  <1>4. QED BY <1>1, <1>2, <1>3 DEF SystemStep

LEMMA PathsDisjoint ==
    /\ Resting \cap (HoldSteps \cup ConfirmSteps) = {}
    /\ HoldSteps \cap ConfirmSteps = {}
    /\ HoldAnswers \cup ConfirmAnswers \subseteq Resting
    /\ "dropped" \in Resting
    /\ "dropped" \notin HoldAnswers \cup ConfirmAnswers
  BY DEF Resting, Answers, Success, HoldSteps, ConfirmSteps, HoldAnswers, ConfirmAnswers

LEMMA AnswersMatchKept ==
    ASSUME TypeOK, PageTypeOK, AnswersMatch, PageNext
    PROVE  AnswersMatch'
  <1> SUFFICES ASSUME NEW r \in Mine
               PROVE  /\ call'[r] \in Sent => pc'[r] \in Resting
                      /\ call'[r] = "holding" =>
                            pc'[r] \in HoldSteps \cup HoldAnswers \cup {"dropped"}
                      /\ call'[r] = "confirming" =>
                            pc'[r] \in ConfirmSteps \cup ConfirmAnswers \cup {"dropped"}
    BY DEF AnswersMatch
  <1> r \in Requests
    BY DEF Mine
  <1>1. CASE UserStep
    <2>1. pc' = pc
      BY <1>1 DEF UserStep, ClickFree, PressHold, PressConfirm, ClickMine, liveVars, vars
    <2>2. \/ call'[r] = call[r]
          \/ call'[r] \in Sent /\ pc[r] \in Resting
      BY <1>1 DEF UserStep, ClickFree, PressHold, PressConfirm, ClickMine, Send, Unused,
                  PageTypeOK, Sent
    <2>3. QED BY <2>1, <2>2 DEF AnswersMatch, Sent
  <1>2. ASSUME NEW q \in Mine, Arrive(q)
        PROVE  \/ /\ call'[r] = call[r] /\ pc'[r] = pc[r]
               \/ call'[r] = "holding" /\ pc'[r] \in HoldSteps
               \/ call'[r] = "confirming" /\ pc'[r] \in ConfirmSteps
    BY <1>2 DEF Arrive, ReceiveHold, ReceiveConfirm, Continue, TypeOK, PageTypeOK,
                HoldSteps, ConfirmSteps
  <1>3. ASSUME NEW q \in Mine, Answered(q) \/ Refused(q) \/ FetchFails(q)
        PROVE  pc' = pc /\ (call'[r] = call[r] \/ call'[r] = "none")
    BY <1>3 DEF Answered, Refused, FetchFails, Finish, PageTypeOK, liveVars, vars
  <1>4. CASE Effect
    BY <1>4 DEF Effect, liveVars, vars, AnswersMatch
  <1>5. CASE WorldStep
    <2>1. call' = call
      BY <1>5 DEF WorldStep, page
    <2>2. CASE SystemStep
      <3>1. StaysOnPath(r)
        BY <2>2, HandlersStayOnPath
      <3>2. QED BY <2>1, <3>1, PathsDisjoint DEF AnswersMatch, StaysOnPath
    <2>3. ASSUME NEW q \in Requests, q \in Mine => call[q] = "none", Receives(q)
          PROVE  call[r] = "none" \/ pc'[r] = pc[r]
      BY <2>3 DEF Receives, ReceiveHold, ReceiveConfirm, Continue, TypeOK
    <2>4. QED BY <1>5, <2>1, <2>2, <2>3 DEF WorldStep, AnswersMatch, Sent
  <1>6. QED
    BY <1>1, <1>2, <1>3, <1>4, <1>5 DEF PageNext, CallStep, AnswersMatch, Sent

\* The inductive invariant: what the map shows as held was granted, and an
\* answer under way is on record, whatever the tab and the network do.
THEOREM PageInvariance == PageSpec => []PageInv
  BY InitPageInv, NextPageInv, PTL DEF PageSpec

\* A toast of doHold is about an answer of the hold handler, one of doConfirm
\* about an answer of the other, and both about a handler that has run.
THEOREM AnswersReachTheirCaller == PageSpec => []AnswersMatch
  <1>1. PageInit => AnswersMatch
    BY DEF PageInit, AnswersMatch, Sent
  <1>2. ASSUME PageInv, AnswersMatch, [PageNext]_pageVars PROVE AnswersMatch'
    <2>1. TypeOK /\ PageTypeOK
      BY <1>2 DEF PageInv, LiveInv, IInv
    <2>2. CASE PageNext
      BY <1>2, <2>1, <2>2, AnswersMatchKept
    <2>3. CASE UNCHANGED pageVars
      BY <1>2, <2>3 DEF pageVars, page, liveVars, vars, AnswersMatch
    <2>4. QED BY <1>2, <2>2, <2>3
  <1>3. QED BY <1>1, <1>2, PageInvariance, PTL DEF PageSpec

\* What the tab remembers keeps its form.
THEOREM PageTypes == PageSpec => []PageTypeOK
  <1>1. PageInv => PageTypeOK
    BY DEF PageInv
  <1>2. QED BY <1>1, PageInvariance, PTL

\* A confirm is only ever sent for a hold the session was granted.
THEOREM ConfirmsAreHonest == PageSpec => []ConfirmsOwnHolds
  <1>1. PageInv => ConfirmsOwnHolds
    BY DEF PageInv
  <1>2. QED BY <1>1, PageInvariance, PTL

\* The toast that congratulates is about a row of the table.
THEOREM BookedToastsAreTrue == PageSpec => []BookedToastTrue
  <1>1. ASSUME PageInv PROVE BookedToastTrue
    <2> SUFFICES ASSUME NEW r \in Mine, TextOf(Reply(pc[r])) = "booked"
                 PROVE  Row(r) \in bookings
      BY DEF BookedToastTrue
    <2>1. pc[r] \in Success
      BY DEF TextOf, Reply, Success
    <2>2. \E t \in told : t.seat = r.seat /\ t.session = r.session
      BY <1>1, <2>1 DEF PageInv, AnswersTold, Mine
    <2>3. QED
      BY <1>1, <2>2 DEF PageInv, LiveInv, IInv, RequestsAgree, SuccessMeansOwner, Row
  <1>2. QED BY <1>1, PageInvariance, PTL
=============================================================================
