----------------------------- MODULE MCSandbox -----------------------------
(* Model checking of Sandbox.  No symmetry: ExecuteEnds is about each call. *)
EXTENDS Sandbox
=============================================================================
