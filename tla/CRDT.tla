-------------------------------- MODULE CRDT --------------------------------
(***************************************************************************)
(* The replicated entries of internal/crdt and how two copies are merged.  *)
(*                                                                         *)
(* SessionCRDT, LockCRDT and RegisterCRDT share one record:                *)
(*    val       the session's Data, the lock's Holder, the register's Value*)
(*    lockedBy  the session's LockedBy                                     *)
(*    exp       ExpiresAt (sessions, locks)                                *)
(*    deleted   the tombstone flag Deleted (sessions, locks)               *)
(*    ts, node  Timestamp and NodeID, which decide merges                  *)
(* CreatedAt, UpdatedAt and LockedAt are read by no code and left out.     *)
(* Node identifiers are numbers, ranked as the code's strings compare.     *)
(***************************************************************************)
EXTENDS HLC

CONSTANTS Node,    \* node identifiers, natural numbers
          Value,   \* session data, lock holders and metadata values
          None     \* the empty value: nil data, no LockedBy, metadata ""

ASSUME NodeAssumption == Node \subseteq Nat
ASSUME NoneAssumption == None \notin Value

Entry == [val : Value \cup {None}, lockedBy : Value \cup {None}, exp : Nat,
          deleted : BOOLEAN, ts : Timestamp, node : Node]

\* IsExpired of sessions, and the expiry test of LockCRDT.Merge.
Expired(e, now) == now > e.exp

\* Faulty variant of Newer, for the mutation runs.
NewerNoTie(a, b) == Less(a.ts, b.ts)

\* Copy b is newer than copy a: later timestamp, ties by node identifier.
Newer(a, b) == Less(a.ts, b.ts) \/ (a.ts = b.ts /\ a.node < b.node)

\* SessionCRDT.Merge and RegisterCRDT.Merge: last write wins.
Merge(a, b) == IF Newer(a, b) THEN b ELSE a

\* Faulty variant of LockMerge, for the mutation runs.
LockMergePrefersHeld(a, b, now) ==
    IF (a.deleted \/ Expired(a, now)) # (b.deleted \/ Expired(b, now))
      THEN IF a.deleted \/ Expired(a, now) THEN b ELSE a
      ELSE Merge(a, b)

\* LockCRDT.Merge: a lock that has not expired beats one that has, and
\* otherwise the last write wins.
LockMerge(a, b, now) ==
    IF Expired(a, now) # Expired(b, now)
      THEN IF Expired(a, now) THEN b ELSE a
      ELSE Merge(a, b)

\* LockCRDT.IsDeleted, IsHeld and IsHeldBy.  At now = exp none of them is
\* true: the lock can neither be taken nor is it held.
LockFree(e, now) == e.deleted \/ Expired(e, now)

LockHeld(e, now) == ~e.deleted /\ now < e.exp

LockHeldBy(e, holder, now) == e.val = holder /\ LockHeld(e, now)

\* NewSessionCRDT as SaveSession and CreateSession fill it, NewLockCRDT and
\* NewRegisterCRDT.
NewSession(data, exp, n, ts) ==
    [val |-> data, lockedBy |-> None, exp |-> exp, deleted |-> FALSE, ts |-> ts, node |-> n]

NewLock(holder, exp, n, ts) ==
    [val |-> holder, lockedBy |-> None, exp |-> exp, deleted |-> FALSE, ts |-> ts, node |-> n]

NewRegister(value, n, ts) ==
    [val |-> value, lockedBy |-> None, exp |-> 0, deleted |-> FALSE, ts |-> ts, node |-> n]

\* SessionCRDT.Delete and LockCRDT.Release turn the entry into a tombstone.
Tombstone(e, n, ts) == [e EXCEPT !.deleted = TRUE, !.ts = ts, !.node = n]
=============================================================================
