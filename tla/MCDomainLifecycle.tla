-------------------------- MODULE MCDomainLifecycle --------------------------
(* Model checking of DomainLifecycle. *)
EXTENDS DomainLifecycle, TLC

ActorSymmetry == Permutations(Actors)
=============================================================================
