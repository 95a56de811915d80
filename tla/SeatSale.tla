------------------------------ MODULE SeatSale ------------------------------
(***************************************************************************)
(* What GrabSeat promises about one sale, whatever the lock server, the    *)
(* instances and the network do: a seat is sold at most once and for ever, *)
(* only to a session that was once granted a hold on it; a session is told *)
(* it bought a seat only when it owns it; and one sale is announced as     *)
(* "confirmed" at most once, every other success being "already_mine".     *)
(***************************************************************************)
CONSTANTS Seats,     \* the seats of the event
          Sessions,  \* the browser tabs that buy (X-Session-Id)
          None       \* the owner of an unsold seat

VARIABLES owner,     \* owner[s]: the session that bought seat s, or None
          granted,   \* every hold ever granted, as [seat, session]
          told       \* every success ever answered, [seat, session, status]

vars == <<owner, granted, told>>

Init ==
    /\ owner = [s \in Seats |-> None]
    /\ granted = {}
    /\ told = {}

Grant(s, u) ==
    /\ granted' = granted \cup {[seat |-> s, session |-> u]}
    /\ UNCHANGED <<owner, told>>

Sell(s, u) ==
    /\ owner[s] = None
    /\ [seat |-> s, session |-> u] \in granted
    /\ owner' = [owner EXCEPT ![s] = u]
    /\ UNCHANGED <<granted, told>>

Confirm(s, u) ==
    /\ owner[s] = u
    /\ \A t \in told : t.seat = s => t.status # "confirmed"
    /\ told' = told \cup {[seat |-> s, session |-> u, status |-> "confirmed"]}
    /\ UNCHANGED <<owner, granted>>

Remind(s, u) ==
    /\ owner[s] = u
    /\ told' = told \cup {[seat |-> s, session |-> u, status |-> "already_mine"]}
    /\ UNCHANGED <<owner, granted>>

Next == \E s \in Seats, u \in Sessions :
    \/ Grant(s, u)
    \/ Sell(s, u)
    \/ Confirm(s, u)
    \/ Remind(s, u)

Spec == Init /\ [][Next]_vars
=============================================================================
