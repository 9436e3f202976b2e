------------------------------- MODULE MCAuth -------------------------------
(* Instances of Auth for TLC: overlapping requests from two addresses, the   *)
(* expiry of their sessions, windows that slide, and the sweeps.             *)
EXTENDS Auth

CONSTANTS r1, r2, a1, a2
TwoRequests == {r1, r2}
TwoAddrs    == {a1, a2}
=============================================================================
