----------------------------- MODULE MCBooking -----------------------------
(***************************************************************************)
(* Instances of Booking for TLC: the requests that may be in flight.       *)
(***************************************************************************)
EXTENDS Booking

CONSTANTS a, b, s1, s2, i1, i2

Slot(i, u, s, n) == [at |-> i, session |-> u, seat |-> s, copy |-> n]

\* One instance; Ann may have two requests in flight, Bob one.
OneServer == {Slot(i1, a, s1, 1), Slot(i1, a, s1, 2), Slot(i1, b, s1, 1)}

\* Two instances share the stores and sell a seat each, so that there are two
\* rows to rehydrate and a crash may come between them.
TwoServers == {Slot(i1, a, s1, 1), Slot(i2, b, s2, 1)}
=============================================================================
