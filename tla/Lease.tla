-------------------------------- MODULE Lease --------------------------------
(***************************************************************************)
(* What internal/lock promises to the callers on one node: a lease of a    *)
(* key is granted when there is none, and it ends when its holder releases *)
(* it, when its time is over, or with the node's process.  Nothing else    *)
(* touches it.  DB implements this as long as nothing is gossiped.         *)
(***************************************************************************)
EXTENDS Integers

CONSTANTS Node, LockKey, Holder, NoLease

VARIABLES wall,  \* the nodes' wall clocks, which advance together
          lease  \* the lease of every key on every node

vars == <<wall, lease>>

Terms == [holder : Holder, until : Nat]

Init ==
    /\ wall \in [Node -> Nat]
    /\ lease = [n \in Node |-> [k \in LockKey |-> NoLease]]

Change(n, k, l) == lease' = [lease EXCEPT ![n][k] = l] /\ UNCHANGED wall

\* lock.Acquire that returns true.
Grant(n, k) ==
    /\ lease[n][k] = NoLease
    /\ lease'[n][k] \in Terms /\ wall[n] <= lease'[n][k].until
    /\ Change(n, k, lease'[n][k])

\* lock.Release by the holder of a lease that has not run out.
Release(n, k) ==
    /\ lease[n][k] # NoLease /\ wall[n] < lease[n][k].until
    /\ Change(n, k, NoLease)

\* Time passes and ends the leases whose time is over; the processes of the
\* nodes in crashed die and lose theirs.
Advance(crashed) ==
    /\ wall' = [n \in Node |-> wall[n] + 1]
    /\ lease' = [n \in Node |-> [k \in LockKey |->
                    IF n \in crashed \/ (lease[n][k] # NoLease /\ lease[n][k].until < wall'[n])
                      THEN NoLease ELSE lease[n][k]]]

Next ==
    \/ \E n \in Node, k \in LockKey : Grant(n, k) \/ Release(n, k)
    \/ Advance({}) \/ \E n \in Node : Advance({n})

Spec == Init /\ [][Next]_vars
=============================================================================
