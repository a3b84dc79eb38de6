---------------------------- MODULE MCRedisSync ----------------------------
(* RedisSync.tla for TLC: two instances, enough deliveries for one of them *)
(* to deliver before, during and after a sync, and one restart.            *)
EXTENDS RedisSync

CONSTANTS i1, i2

TwoInstances == {i1, i2}
============================================================================
