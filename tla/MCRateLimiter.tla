---------------------------- MODULE MCRateLimiter ---------------------------
(***************************************************************************)
(* Small instances of RateLimiter for TLC.                                 *)
(***************************************************************************)
EXTENDS RateLimiter, TLC

CONSTANTS t1, r1, r2

\* Two channels with different limits; the rate of the first may change.
Rates  == [ch \in Channel |-> IF ch = "email" THEN {1, 2} ELSE {1}]
Quotas == [ch \in Channel |-> IF ch = "email" THEN {2} ELSE {1}]

\* One limit of two a second for every channel.
TwoPerSecond == [ch \in Channel |-> {2}]
Plenty       == [ch \in Channel |-> {9}]

RequestSymmetry == Permutations(Request)
=============================================================================
