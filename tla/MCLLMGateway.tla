---------------------------- MODULE MCLLMGateway ----------------------------
(* Model checking of LLMGateway: provider 1 serves both models, the others  *)
(* only the first.                                                          *)
EXTENDS LLMGateway

CONSTANTS m1, m2, m3

MCModelsOf == [p \in Providers |-> IF p = 1 THEN {m1, m2, m3} ELSE {m1}]
=============================================================================
