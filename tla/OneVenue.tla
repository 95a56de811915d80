------------------------------ MODULE OneVenue ------------------------------
(***************************************************************************)
(* What the instances promise about the venue, whatever their number, the  *)
(* order they start in and the faults on the way: the event is published   *)
(* once, whole and for ever, and an instance that serves, serves it, from  *)
(* its first request to its end.  This is why Booking may take the seats   *)
(* for a constant.                                                         *)
(***************************************************************************)
EXTENDS Naturals

CONSTANTS Instances,  \* the backend processes
          Seats,      \* the seats of the venue
          NoEvent     \* no event yet, or none served

VARIABLES published,  \* the event the database has, [id, seats], or NoEvent
          serving     \* the event each instance serves, or NoEvent

vars == <<published, serving>>

Init ==
    /\ published = NoEvent
    /\ serving = [i \in Instances |-> NoEvent]

Publish ==
    /\ published = NoEvent
    /\ published' \in [id : Nat \ {0}, seats : {Seats}]
    /\ UNCHANGED serving

Serve(i) ==
    /\ published # NoEvent
    /\ serving[i] = NoEvent
    /\ serving' = [serving EXCEPT ![i] = published]
    /\ UNCHANGED published

End(i) ==
    /\ serving' = [serving EXCEPT ![i] = NoEvent]
    /\ UNCHANGED published

Next == Publish \/ \E i \in Instances : Serve(i) \/ End(i)

Spec == Init /\ [][Next]_vars
=============================================================================
