----------------------------- MODULE MCJobQueue -----------------------------
(* Small instances of JobQueue: two executors of one process and one of     *)
(* another, so that a lease may pass between executors that share an owner. *)
EXTENDS JobQueue, TLC

CONSTANTS e1, e2, e3, p1, p2, j1, j2

\* Executor names are model values: e1 and e2 share a process, e3 is alone.
MCProc == [e \in Executors |-> IF e = e3 THEN p2 ELSE p1]
=============================================================================
