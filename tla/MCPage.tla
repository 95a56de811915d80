-------------------------------- MODULE MCPage --------------------------------
(***************************************************************************)
(* Instances of Page for TLC: the tab of session a.                        *)
(***************************************************************************)
EXTENDS Page

CONSTANTS a, s1, s2, i1, v1

Slot(u, s, n) == [at |-> i1, session |-> u, seat |-> s, copy |-> n]

\* The tab may hold and confirm one seat, or try either twice.
OneSeat == {Slot(a, s1, 1), Slot(a, s1, 2)}

\* The tab may hold two seats.
TwoSeats == {Slot(a, s1, 1), Slot(a, s2, 1)}
=============================================================================
