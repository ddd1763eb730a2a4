------------------------- MODULE MCTenantScheduling -------------------------
(* Small instances of TenantScheduling: a big tenant, which submits again  *)
(* and again, and a small one.                                             *)
EXTENDS TenantScheduling, TLC

CONSTANTS big, small, b1, b2, b3, s1, e1, e2, e3, p1, p2

MCTenantOf == [j \in Jobs |-> IF j # s1 THEN big ELSE small]
MCCap == [t \in Tenants |-> 1]
MCProc == [e \in Executors |-> IF e = e3 THEN p2 ELSE p1]
=============================================================================
