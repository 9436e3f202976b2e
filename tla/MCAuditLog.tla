----------------------------- MODULE MCAuditLog -----------------------------
(* Instances of AuditLog for TLC: a logger, two goroutines that rotate the   *)
(* log and one that closes it.                                               *)
EXTENDS AuditLog

CONSTANTS l1, r1, r2, c1

OneLogger    == {l1}
TwoReopeners == {r1, r2}
OneCloser    == {c1}
=============================================================================
