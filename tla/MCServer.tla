------------------------------ MODULE MCServer ------------------------------
(* Instances of Server for TLC: two requests of any kind, uploads of up to   *)
(* two files, and a signal at any moment.                                    *)
EXTENDS Server

CONSTANTS q1, q2
TwoRequests == {q1, q2}
=============================================================================
