---------------------------- MODULE MC_Migration ----------------------------
(* Migrations for TLC: the lock of node 1 lives much longer than a tombstone *)
(* is kept, the lock of node 2 runs out within the bound on time.          *)
EXTENDS Migration

NodeTimeouts == [n \in Node |-> IF n = 1 THEN 4 ELSE 2]
=============================================================================
