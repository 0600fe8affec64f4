----------------------------- MODULE MCRedisLock -----------------------------
(* Model checking of RedisLock. *)
EXTENDS RedisLock
=============================================================================
