--------------------------- MODULE MCMemoryStore ---------------------------
(* Model checking of MemoryStore on small sets of sessions and contents. *)
EXTENDS MemoryStore, TLC

ContentSymmetry == Permutations(Contents)
=============================================================================
