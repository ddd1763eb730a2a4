---------------------------- MODULE MCJobBilling ----------------------------
(* Small instances of JobBilling: one key, two contents of a request. *)
EXTENDS JobBilling, TLC

CONSTANTS k1, s1, s2, r1, r2, e1, e2

MCEstimate == [s \in Snaps |-> IF s = s1 THEN 1 ELSE 2]
=============================================================================
