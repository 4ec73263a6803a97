----------------------------- MODULE MCRedisLock -----------------------------
(***************************************************************************)
(* A small instance of the lock.                                           *)
(***************************************************************************)
EXTENDS RedisLock

CONSTANTS prompt, late, third

\* The watchdog of one client may come when its key has expired.
Lateness == [c \in Clients |-> IF c = late THEN Ttl ELSE 1]
==============================================================================
