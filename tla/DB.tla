--------------------------------- MODULE DB ---------------------------------
(***************************************************************************)
(* The replicated store: internal/db's Manager on every node, driven by    *)
(* internal/session and internal/lock, with state gossip between nodes.    *)
(*                                                                         *)
(* store[n] holds the three sync.Maps of node n's Manager, sessions, locks *)
(* and meta, as one function: the three key sets are disjoint.  clock[n]   *)
(* is its HLC, gossipVersion[n] its lastGossipVersion.  Every exported     *)
(* method is one atomic step: two goroutines of one node inside methods    *)
(* that work on the same key are not modelled.                             *)
(*                                                                         *)
(* net holds the snapshots and deltas that were serialised and can still   *)
(* be applied.  The code that would carry them is not written (Broadcast   *)
(* is a placeholder), so the transport is any: messages are lost,          *)
(* duplicated, delayed and reordered.  MaxMsgs = 0 is the system as wired. *)
(*                                                                         *)
(* History variables: change[n][k], what last changed the entry since n's  *)
(* last snapshot, and grants, the locks AcquireLock has granted and nobody *)
(* has released.                                                           *)
(***************************************************************************)
EXTENDS CRDT, FiniteSets

CONSTANTS SessionID, LockKey, MetaKey,  \* the keys of the three maps
          NoEntry,                      \* the key is not in the map
          TTL,                          \* the lifetimes sessions and locks are given
          SessionRetention,             \* time.Hour of cleanupExpired
          LockRetention,                \* 5*time.Minute of cleanupExpired
          MaxSkew,                      \* how far wall clocks are apart
          LagAllowed,                   \* a wall clock behind its HLC may take the HLC back
          MaxTime, MaxLogical, MaxMsgs  \* bounds: time, logical part, messages

Key == SessionID \cup LockKey \cup MetaKey

ASSUME KeyAssumption ==
    SessionID \cap LockKey = {} /\ SessionID \cap MetaKey = {} /\ LockKey \cap MetaKey = {}
ASSUME NoEntryAssumption ==
    NoEntry \notin Entry /\ NoEntry \notin [holder : Value, until : Nat]
ASSUME TTLAssumption == TTL \subseteq Nat
ASSUME LagAssumption == LagAllowed \in BOOLEAN
ASSUME NumberAssumption ==
    /\ SessionRetention \in Nat /\ LockRetention \in Nat
    /\ MaxSkew \in Nat /\ MaxTime \in Nat /\ MaxLogical \in Nat /\ MaxMsgs \in Nat

VARIABLES time, skew, clock, store, gossipVersion, net, change, grants

vars == <<time, skew, clock, store, gossipVersion, net, change, grants>>

Contents == [Key -> Entry \cup {NoEntry}]

Message == [from : Node, version : Timestamp, entries : Contents]

Grant == [node : Node, key : LockKey, holder : Value, exp : Nat]

TypeOK ==
    /\ time \in Nat
    /\ skew \in [Node -> 0 .. MaxSkew]
    /\ clock \in [Node -> Timestamp]
    /\ store \in [Node -> Contents]
    /\ gossipVersion \in [Node -> Timestamp]
    /\ net \subseteq Message
    /\ change \in [Node -> [Key -> {"none", "written", "merged"}]]
    /\ grants \subseteq Grant

Empty == [k \in Key |-> NoEntry]

Unchanged == [k \in Key |-> "none"]

Wall(n) == time + skew[n]

\* db.New on every node.
Init ==
    /\ time = 1
    /\ skew \in [Node -> 0 .. MaxSkew]
    /\ clock = [n \in Node |-> NewClock(time + skew[n])]
    /\ store = [n \in Node |-> Empty]
    /\ gossipVersion = [n \in Node |-> ZeroTimestamp]
    /\ net = {}
    /\ change = [n \in Node |-> Unchanged]
    /\ grants = {}

-----------------------------------------------------------------------------
(* Helpers. *)

\* Faulty variant of NextStamp, for the mutation runs.
NextStampUnderflow(n, k) == Stamp(Wall(n), clock[n].l - k)

\* The last of the k stamps an operation on node n takes from its clock.
NextStamp(n, k) == ClockNowTimes(clock[n], Wall(n), k)

SetClock(n, t) == t.l <= MaxLogical /\ clock' = [clock EXCEPT ![n] = t]

Put(n, k, e) == store' = [store EXCEPT ![n][k] = e]

Mark(n, k, how) == change' = [change EXCEPT ![n][k] = how]

\* GetSession: what is visible, and what is left in the map (an expired
\* session is removed by looking at it).
VisibleSession(n, id) ==
    LET e == store[n][id]
    IN  e # NoEntry /\ ~e.deleted /\ ~Expired(e, Wall(n))

AfterGetSession(n, id) ==
    LET e == store[n][id]
    IN  IF e # NoEntry /\ ~e.deleted /\ Expired(e, Wall(n)) THEN NoEntry ELSE e

\* Faulty variant of Saved, for the mutation runs.
SavedKeepsOld(old, e) == IF old = NoEntry THEN e ELSE old

\* SaveSession of a session e that is not the stored object, old being in
\* the map: a tombstone gives way only to a strictly newer session.
Saved(old, e) ==
    IF old = NoEntry THEN e
    ELSE IF old.deleted THEN IF Less(old.ts, e.ts) THEN e ELSE old
    ELSE Merge(old, e)

-----------------------------------------------------------------------------
(* Sessions: session.Manager over the Manager's session operations. *)

\* session.SaveSession: a fresh SessionCRDT, LockedBy empty.
SaveSession(n, id, data, ttl) ==
    LET ts == NextStamp(n, 1)
    IN  /\ SetClock(n, ts)
        /\ Put(n, id, Saved(store[n][id], NewSession(data, Wall(n) + ttl, n, ts)))
        /\ Mark(n, id, "written")
        /\ UNCHANGED <<time, skew, gossipVersion, net, grants>>

DeleteSession(n, id) ==
    LET ts == NextStamp(n, 1)
    IN  /\ store[n][id] # NoEntry
        /\ SetClock(n, ts)
        /\ Put(n, id, Tombstone(store[n][id], n, ts))
        /\ Mark(n, id, "written")
        /\ UNCHANGED <<time, skew, gossipVersion, net, grants>>

\* GetSession of an expired session.
GetSession(n, id) ==
    /\ AfterGetSession(n, id) # store[n][id]
    /\ Put(n, id, NoEntry)
    /\ Mark(n, id, "none")
    /\ UNCHANGED <<time, skew, clock, gossipVersion, net, grants>>

\* session.LockSession: the visible session is changed in place; without
\* one CreateSession makes an empty session first.
LockSession(n, id, holder, ttl) ==
    LET visible == VisibleSession(n, id)
        ts == NextStamp(n, IF visible THEN 2 ELSE 4)
        created == [NewSession(None, Wall(n) + ttl, n, ts) EXCEPT !.lockedBy = holder]
    IN  /\ SetClock(n, ts)
        /\ Put(n, id, IF visible
                        THEN [store[n][id] EXCEPT !.lockedBy = holder, !.ts = ts, !.node = n]
                        ELSE Saved(AfterGetSession(n, id), created))
        /\ Mark(n, id, "written")
        /\ UNCHANGED <<time, skew, gossipVersion, net, grants>>

\* session.UnlockSession of a visible session (otherwise it is GetSession).
UnlockSession(n, id) ==
    LET ts == NextStamp(n, 2)
    IN  /\ VisibleSession(n, id)
        /\ SetClock(n, ts)
        /\ Put(n, id, [store[n][id] EXCEPT !.lockedBy = None, !.ts = ts, !.node = n])
        /\ Mark(n, id, "written")
        /\ UNCHANGED <<time, skew, gossipVersion, net, grants>>

-----------------------------------------------------------------------------
(* Locks: lock.Manager and migration.Manager call these. *)

\* Faulty variant of Acquirable, for the mutation runs.
AcquirableIfStamped(n, key) == store[n][key] = NoEntry \/ Less(store[n][key].ts, NextStamp(n, 1))

\* AcquireLock succeeds when the key is absent or its lock is free.
Acquirable(n, key) == store[n][key] = NoEntry \/ LockFree(store[n][key], Wall(n))

\* A refused AcquireLock has still taken a stamp from the clock.
AcquireLock(n, key, holder, ttl) ==
    LET ts == NextStamp(n, 1)
        exp == Wall(n) + ttl
    IN  /\ SetClock(n, ts)
        /\ IF Acquirable(n, key)
             THEN /\ Put(n, key, NewLock(holder, exp, n, ts))
                  /\ Mark(n, key, "written")
                  /\ grants' = grants \cup
                        {[node |-> n, key |-> key, holder |-> holder, exp |-> exp]}
             ELSE UNCHANGED <<store, change, grants>>
        /\ UNCHANGED <<time, skew, gossipVersion, net>>

ReleaseLock(n, key, holder) ==
    LET ts == NextStamp(n, 1)
        e  == store[n][key]
    IN  /\ e # NoEntry /\ LockHeldBy(e, holder, Wall(n))
        /\ SetClock(n, ts)
        /\ Put(n, key, Tombstone(e, n, ts))
        /\ Mark(n, key, "written")
        /\ grants' = {g \in grants : ~(g.node = n /\ g.key = key /\ g.holder = holder)}
        /\ UNCHANGED <<time, skew, gossipVersion, net>>

-----------------------------------------------------------------------------
(* Metadata. *)

\* SetMeta; DeleteMeta is SetMeta with the empty value.
SetMeta(n, key, value) ==
    LET ts  == NextStamp(n, 1)
        reg == NewRegister(value, n, ts)
    IN  /\ SetClock(n, ts)
        /\ Put(n, key, IF store[n][key] = NoEntry THEN reg ELSE Merge(store[n][key], reg))
        /\ Mark(n, key, "written")
        /\ UNCHANGED <<time, skew, gossipVersion, net, grants>>

-----------------------------------------------------------------------------
(* Gossip. *)

\* GetStateSnapshot, serialised and sent.
GetStateSnapshot(n) ==
    LET version == NextStamp(n, 1)
    IN  /\ Cardinality(net) < MaxMsgs
        /\ SetClock(n, version)
        /\ gossipVersion' = [gossipVersion EXCEPT ![n] = version]
        /\ net' = net \cup {[from |-> n, version |-> version, entries |-> store[n]]}
        /\ change' = [change EXCEPT ![n] = Unchanged]
        /\ UNCHANGED <<time, skew, store, grants>>

\* The entries GetDeltaSince(since) collects on node n.
DeltaSince(n, since) ==
    [k \in Key |-> IF store[n][k] # NoEntry /\ Less(since, store[n][k].ts)
                     THEN store[n][k] ELSE NoEntry]

\* GetDeltaSince(GetLastGossipVersion()), serialised and sent.
GetDeltaSince(n) ==
    LET version == NextStamp(n, 1)
    IN  /\ Cardinality(net) < MaxMsgs
        /\ SetClock(n, version)
        /\ net' = net \cup {[from |-> n, version |-> version,
                             entries |-> DeltaSince(n, gossipVersion[n])]}
        /\ UNCHANGED <<time, skew, store, gossipVersion, change, grants>>

\* Faulty variant of Merged, for the mutation runs.
MergedOverwrites(n, k, old, e) == IF e = NoEntry THEN old ELSE e

\* MergeSessions, MergeLocks and MergeMeta on one key.
Merged(n, k, old, e) ==
    IF e = NoEntry THEN old
    ELSE IF old = NoEntry THEN e
    ELSE IF k \in LockKey THEN LockMerge(old, e, Wall(n))
    ELSE Merge(old, e)

\* Update leaves the clock above where it was.
UpdateAdvances(n, m) == Less(clock[n], ClockUpdate(clock[n], m.version, Wall(n)))

\* Faulty variant of ClockAfter, for the mutation runs.
ClockAfterVersionOnly(n, m) == m.version

\* The clock after a message is applied: Update(version), then Witness of
\* the entries whose keys were already present.  Update leaves a physical
\* part that is not behind the wall clock, so Witness only takes maxima.
ClockAfter(n, m) ==
    LET loaded  == {k \in Key : m.entries[k] # NoEntry /\ store[n][k] # NoEntry}
        updated == ClockUpdate(clock[n], m.version, Wall(n))
        stamps  == {updated} \cup {m.entries[k].ts : k \in loaded}
    IN  CHOOSE t \in stamps : \A u \in stamps : LessOrEqual(u, t)

\* ImportStateSnapshot and ApplyDelta, of any message: nobody keeps a node
\* from getting its own back.  The code lets Update take the clock back when
\* the wall clock lags behind it; LagAllowed says whether that happens.
Import(n, m) ==
    /\ LagAllowed \/ UpdateAdvances(n, m)
    /\ SetClock(n, ClockAfter(n, m))
    /\ store' = [store EXCEPT ![n] = [k \in Key |-> Merged(n, k, store[n][k], m.entries[k])]]
    /\ change' = [change EXCEPT ![n] =
                    [k \in Key |-> IF store'[n][k] # store[n][k] THEN "merged" ELSE @[k]]]
    /\ UNCHANGED <<time, skew, gossipVersion, net, grants>>

Lose(m) ==
    /\ net' = net \ {m}
    /\ UNCHANGED <<time, skew, clock, store, gossipVersion, change, grants>>

-----------------------------------------------------------------------------
(* Time, cleanup and restarts. *)

\* Faulty variant of Collectable, for the mutation runs.
CollectableEarly(n, k) ==
    LET e == store[n][k] IN k \in LockKey /\ e # NoEntry /\ Wall(n) - e.ts.p > LockRetention

\* What cleanupExpired removes on node n.
Collectable(n, k) ==
    LET e == store[n][k]
    IN  /\ e # NoEntry
        /\ \/ k \in SessionID /\ (Expired(e, Wall(n)) \/
                                  (e.deleted /\ Wall(n) - e.ts.p > SessionRetention))
           \/ k \in LockKey /\ LockFree(e, Wall(n)) /\ Wall(n) - e.ts.p > LockRetention

CleanupExpired(n) ==
    /\ \E k \in Key : Collectable(n, k)
    /\ store' = [store EXCEPT ![n] =
                    [k \in Key |-> IF Collectable(n, k) THEN NoEntry ELSE store[n][k]]]
    /\ change' = [change EXCEPT ![n] =
                    [k \in Key |-> IF Collectable(n, k) THEN "none" ELSE @[k]]]
    /\ UNCHANGED <<time, skew, clock, gossipVersion, net, grants>>

Tick ==
    /\ time < MaxTime
    /\ time' = time + 1
    /\ UNCHANGED <<skew, clock, store, gossipVersion, net, change, grants>>

\* Faulty variant of Restart, for the mutation runs.
RestartWithoutTick(n) ==
    /\ clock' = [clock EXCEPT ![n] = NewClock(0)]
    /\ store' = [store EXCEPT ![n] = Empty]
    /\ gossipVersion' = [gossipVersion EXCEPT ![n] = ZeroTimestamp]
    /\ UNCHANGED <<time, skew, net, change, grants>>

\* The process of node n dies and comes back with the same node identifier:
\* nothing was persisted, and coming back takes at least one tick.  The new
\* clock starts at the wall clock, which may be behind the old one: LagAllowed
\* says whether that happens.
Restart(n) ==
    /\ LagAllowed \/ clock[n].p <= Wall(n)
    /\ time < MaxTime
    /\ time' = time + 1
    /\ clock' = [clock EXCEPT ![n] = NewClock(time + 1 + skew[n])]
    /\ store' = [store EXCEPT ![n] = Empty]
    /\ gossipVersion' = [gossipVersion EXCEPT ![n] = ZeroTimestamp]
    /\ change' = [change EXCEPT ![n] = Unchanged]
    /\ grants' = {g \in grants : g.node # n}
    /\ UNCHANGED <<skew, net>>

-----------------------------------------------------------------------------

SessionNext(n) ==
    \E id \in SessionID :
        \/ \E v \in Value, ttl \in TTL : SaveSession(n, id, v, ttl) \/ LockSession(n, id, v, ttl)
        \/ DeleteSession(n, id) \/ GetSession(n, id) \/ UnlockSession(n, id)

LockNext(n) ==
    \E key \in LockKey, h \in Value :
        \/ \E ttl \in TTL : AcquireLock(n, key, h, ttl)
        \/ ReleaseLock(n, key, h)

MetaNext(n) == \E key \in MetaKey, v \in Value \cup {None} : SetMeta(n, key, v)

GossipNext(n) ==
    \/ GetStateSnapshot(n) \/ GetDeltaSince(n)
    \/ \E m \in net : Import(n, m)

Next ==
    \/ Tick
    \/ \E m \in net : Lose(m)
    \/ \E n \in Node : \/ SessionNext(n) \/ LockNext(n) \/ MetaNext(n) \/ GossipNext(n)
                       \/ CleanupExpired(n) \/ Restart(n)

Spec == Init /\ [][Next]_vars

-----------------------------------------------------------------------------
(* Properties. *)

\* All copies of key k, in the stores and in flight.
Copies(k) == ({store[n][k] : n \in Node} \cup {m.entries[k] : m \in net}) \ {NoEntry}

\* A timestamp and a node identify one write: two copies of a key that carry
\* the same pair are the same entry.  Merge's tie-breaker decides nothing
\* between copies that agree on both, so replicas would disagree for ever.
\* This holds across restarts as long as no clock is taken back (LagAllowed).
StampsIdentifyWrites ==
    \A k \in Key : \A a, b \in Copies(k) : a.ts = b.ts /\ a.node = b.node => a = b

\* A node's clock covers its whole store, so that a local write (SetMeta,
\* SaveSession) wins its merge with what is stored ("LWW register").  The code
\* guarantees it only as long as Update takes no clock back (LagAllowed).
LocalWriteWins ==
    \A n \in Node, k \in Key :
        store[n][k] # NoEntry => Less(store[n][k].ts, NextStamp(n, 1))

\* Replicas that have received the same copies of a session or a register
\* agree, in whatever order, however often and at whatever times they came:
\* merging the copies that exist is commutative, associative and idempotent.
\* The merge of locks reads the wall clock and promises nothing of the kind.
MergeOrderIrrelevant ==
    \A k \in Key \ LockKey : \A a, b, c \in Copies(k) :
        /\ Merge(a, b) = Merge(b, a)
        /\ Merge(Merge(a, b), c) = Merge(a, Merge(b, c))
        /\ Merge(Merge(a, b), b) = Merge(a, b)

InDelta(n, k) == DeltaSince(n, gossipVersion[n])[k] = store[n][k]

\* What a node has written itself since its last snapshot is in the delta
\* GetDeltaSince returns for that snapshot's version.
DeltaHasLocalWrites ==
    \A n \in Node, k \in Key : change[n][k] = "written" => InDelta(n, k)

\* No step replaces what is stored by something older, except that a lock or
\* its tombstone that has run out gives way to one that has not; entries are
\* replaced by newer ones, collected, or lost with their process.
StoreMonotone ==
    [][\A n \in Node, k \in Key :
            store[n][k] # NoEntry /\ store'[n][k] # NoEntry =>
                \/ store'[n][k] = store[n][k] \/ Newer(store[n][k], store'[n][k])
                \/ k \in LockKey /\ Expired(store[n][k], Wall(n))]_vars

Live(g) == Wall(g.node) < g.exp

\* One node never grants a lock while an earlier grant of it is live.
NodeMutualExclusion ==
    \A g, h \in grants : g.node = h.node /\ g.key = h.key /\ Live(g) /\ Live(h) => g = h

\* What the lock operations of a node show to their callers: the lease of a
\* lock that is neither released nor expired.
LeaseOf(n, k) ==
    IF store[n][k] = NoEntry \/ LockFree(store[n][k], Wall(n)) THEN NoEntry
    ELSE [holder |-> store[n][k].val, until |-> store[n][k].exp]

Walls == [n \in Node |-> Wall(n)]

HeldLeases == [n \in Node |-> [k \in LockKey |-> LeaseOf(n, k)]]

Leases == INSTANCE Lease WITH
    Holder <- Value, NoLease <- NoEntry, wall <- Walls, lease <- HeldLeases

\* Without gossip the store's locks are leases: AcquireLock grants one only
\* when there is none, and only ReleaseLock by its holder, its expiry or the
\* end of the process ends it; refused calls, metadata, sessions and the
\* cleanup leave all leases alone.
ImplementsLease == Leases!Spec
=============================================================================
