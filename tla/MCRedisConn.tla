---------------------------- MODULE MCRedisConn ----------------------------
(* A small instance of RedisConn for TLC. *)
EXTENDS RedisConn
CONSTANTS t1, t2, t3
=============================================================================
