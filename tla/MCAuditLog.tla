----------------------------- MODULE MCAuditLog -----------------------------
(* Model-checking instances of AuditLog.                                   *)
EXTENDS AuditLog, TLC

\* No definition tells two writers, or two business rows, apart.
Symmetry == Permutations(Writers) \cup Permutations(Rows)
=============================================================================
