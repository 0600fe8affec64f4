---------------------------- MODULE MCTaskLease ----------------------------
(* Model checking of TaskLease: all processes work for one tenant. *)
EXTENDS TaskLease

CONSTANT T1

MCTenantOf == [p \in Workers \cup Sweepers |-> T1]
=============================================================================
