---------------------------- MODULE MCRateLimiter ----------------------------
(* Instances of RateLimiter for TLC: two keys and a minute of two ticks.   *)
EXTENDS RateLimiter

CONSTANTS r1, r2, s1, a1
=============================================================================
