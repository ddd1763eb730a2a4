------------------------------ MODULE MCQuota ------------------------------
(* Three operations of one kind under limits that change. *)
EXTENDS Quota, TLC

CONSTANTS o1, o2, o3, k1

MCLimits == {-1, 2, 4}
=============================================================================
