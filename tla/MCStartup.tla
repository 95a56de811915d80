------------------------------ MODULE MCStartup ------------------------------
(***************************************************************************)
(* An instance of Startup for TLC: a venue of two seats.                   *)
(***************************************************************************)
EXTENDS Startup

CONSTANTS i1, i2, i3, s1, s2
=============================================================================
