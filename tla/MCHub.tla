-------------------------------- MODULE MCHub --------------------------------
(* Instances of Hub for TLC: two browsers, and the two broadcasters of main. *)
EXTENDS Hub

CONSTANTS c1, c2, events, expiries
=============================================================================
