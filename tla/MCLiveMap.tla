----------------------------- MODULE MCLiveMap -----------------------------
(***************************************************************************)
(* Instances of LiveMap for TLC.                                           *)
(***************************************************************************)
EXTENDS LiveMap

CONSTANTS a, b, s1, i1, v1

Slot(u, n) == [at |-> i1, session |-> u, seat |-> s1, copy |-> n]

\* Two sessions want the same seat, and one may hold and confirm.
TwoSessions == {Slot(a, 1), Slot(a, 2), Slot(b, 1)}

\* One session holds and confirms.
OneSession == {Slot(a, 1), Slot(a, 2)}
=============================================================================
