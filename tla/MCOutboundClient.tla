-------------------------- MODULE MCOutboundClient --------------------------
(* Model checking of OutboundClient. *)
EXTENDS OutboundClient
=============================================================================
