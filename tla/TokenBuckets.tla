---------------------------- MODULE TokenBuckets ----------------------------
(***************************************************************************)
(* What the rate limiter promises: every key has a bucket of its own, full *)
(* from the start and refilled as time passes; a request is let through    *)
(* when, and only when, its own bucket has a token.  Nothing is ever       *)
(* forgotten.                                                              *)
(***************************************************************************)
EXTENDS Integers

CONSTANTS Keys,      \* who is throttled: sessions, or addresses
          Capacity,  \* what a bucket holds
          Token,     \* what a request costs
          Refill     \* what a bucket gains in a tick

VARIABLES level,     \* what is in each bucket
          served,    \* how many requests of each key were let through
          answer     \* the last answer, [key, allowed]

vars == <<level, served, answer>>

Init ==
    /\ level = [k \in Keys |-> Capacity]
    /\ served = [k \in Keys |-> 0]
    /\ answer \in [key : Keys, allowed : BOOLEAN]

Allow(k) ==
    /\ level[k] >= Token
    /\ level' = [level EXCEPT ![k] = @ - Token]
    /\ served' = [served EXCEPT ![k] = @ + 1]
    /\ answer' = [key |-> k, allowed |-> TRUE]

Deny(k) ==
    /\ level[k] < Token
    /\ answer' = [key |-> k, allowed |-> FALSE]
    /\ UNCHANGED <<level, served>>

Filled(x) == IF x < Capacity THEN x ELSE Capacity

Tick ==
    /\ level' = [k \in Keys |-> Filled(level[k] + Refill)]
    /\ UNCHANGED <<served, answer>>

Next == Tick \/ \E k \in Keys : Allow(k) \/ Deny(k)

Spec == Init /\ [][Next]_vars
=============================================================================
