--------------------------- MODULE MigrationProofs ---------------------------
(***************************************************************************)
(* Migrations over the replicated store, for any nodes, versions, crashes  *)
(* and gossip.  What is said of versions holds under any wall clocks; what *)
(* is said of the migration lock as long as no clock is taken back (Sound).*)
(***************************************************************************)
EXTENDS Migration, DBProofs

\* The store has an entry or NoEntry for every key on every node.
StoreShape == store = [n \in Node |-> [k \in Key |-> store[n][k]]]

\* What runMigrations knows at its steps.
RunKnows ==
    \A n \in Node :
        /\ pc[n] = "version" => file[n] \in migrated
        /\ pc[n] = "release" /\ versioned # "query" => file[n] \in migrated
        /\ pc[n] = "waiting" => n \in waited

\* The inductive invariant for the versions.
MInv ==
    /\ MTypeOK
    /\ StoreShape
    /\ VersionMeansMigrated
    /\ RunKnows
    /\ ServesMigrated

\* Every copy of the migration lock is in the name of the node that wrote it
\* and does not outlive a lock that node would take now.
LocksOwned ==
    \A c \in Copies(MigrationKey) :
        c.val = c.node /\ c.exp <= Wall(c.node) + LockTimeout[c.node]

\* The copies of the locks node n has written.
Own(n) == {c \in Copies(MigrationKey) : c.node = n}

RunOut(n) == \A c \in Own(n) : c.exp <= Wall(n)

\* All of them have run out or are older than tombstones are kept.
Past(n) == \A c \in Own(n) : c.exp <= Wall(n) \/ Wall(n) - c.ts.p > LockRetention

\* The node's store has the last of them, and it expires last.
HasLast(n) ==
    /\ store[n][MigrationKey] \in Own(n)
    /\ \A c \in Own(n) :
            /\ c.exp <= store[n][MigrationKey].exp
            /\ c = store[n][MigrationKey] \/ Less(c.ts, store[n][MigrationKey].ts)

\* runMigrations has returned.
Over(n) == pc[n] \in {"serving", "failed"}

\* Once a node has had the lock, and until its migration is over, all copies
\* have run out or its store has the last one; after that all copies are past
\* or its store has the tombstone.
LastKept(n) ==
    n \notin waited /\ pc[n] # "boot" /\ OnlyLockSent(n) =>
        /\ ~Over(n) => RunOut(n) \/ (HasLast(n) /\ ~store[n][MigrationKey].deleted)
        /\ Over(n) => Past(n) \/ (HasLast(n) /\ store[n][MigrationKey].deleted)

\* The inductive invariant for the migration lock, on top of IInv and MInv.
LockInv == LocksOwned /\ \A n \in Node : LastKept(n)
-----------------------------------------------------------------------------

\* Every step of a migration is a step of the store, or none.
LEMMA StoreStepped ==
    ASSUME MTypeOK, [MNext]_mvars PROVE [Next]_vars
<1>1. /\ MigrationKey \in LockKey /\ VersionKey \in MetaKey
      /\ Node \subseteq Value /\ LockTimeout \in [Node -> TTL] /\ Version \subseteq Value
  BY MigrationAssumption
<1>2. CASE Underneath
  BY <1>2 DEF Underneath, Next, GossipNext
<1>3. ASSUME NEW n \in Node, RunMigrations(n) PROVE [Next]_vars
  <2>1. CASE TryLock(n)
    <3>1. AcquireLock(n, MigrationKey, n, LockTimeout[n])
      BY <2>1 DEF TryLock
    <3>2. LockNext(n)
      BY <1>1, <3>1 DEF LockNext
    <3> QED BY <3>2 DEF Next
  <2>2. CASE UpdateVersion(n)
    <3>1. CASE UNCHANGED vars
      BY <3>1
    <3>2. CASE SetMeta(n, VersionKey, file[n])
      <4>1. file[n] \in Value
        BY <1>1 DEF MTypeOK
      <4>2. MetaNext(n)
        BY <1>1, <3>2, <4>1 DEF MetaNext
      <4> QED BY <4>2 DEF Next
    <3> QED BY <2>2, <3>1, <3>2 DEF UpdateVersion
  <2>3. CASE Release(n)
    <3>1. CASE ReleaseLock(n, MigrationKey, n)
      <4>1. LockNext(n)
        BY <1>1, <3>1 DEF LockNext
      <4> QED BY <4>1 DEF Next
    <3> QED BY <2>3, <3>1 DEF Release
  <2> QED BY <1>3, <2>1, <2>2, <2>3
          DEF RunMigrations, Check, Command, WaitForCompletion, CancelWait
<1>4. ASSUME NEW n \in Node, MRestart(n) PROVE [Next]_vars
  BY <1>4 DEF MRestart, Next
<1>5. CASE UNCHANGED mvars
  BY <1>5 DEF mvars
<1> QED BY <1>2, <1>3, <1>4, <1>5 DEF MNext

\* No step of a migration disturbs the types of its own state.
LEMMA MTypeStep == ASSUME MTypeOK, [MNext]_mvars PROVE MTypeOK'
<1>1. CASE Underneath
  BY <1>1 DEF Underneath, MTypeOK, world
<1>2. ASSUME NEW n \in Node, RunMigrations(n) PROVE MTypeOK'
  <2>1. CASE TryLock(n)
    BY <2>1 DEF TryLock, Goto, MTypeOK, world
  <2>2. CASE Check(n)
    BY <2>2 DEF Check, Goto, MTypeOK, world
  <2>3. CASE Command(n)
    <3>1. file[n] \in Version
      BY DEF MTypeOK
    <3> QED BY <2>3, <3>1 DEF Command, Goto, MTypeOK
  <2>4. CASE UpdateVersion(n)
    BY <2>4 DEF UpdateVersion, Goto, MTypeOK, world
  <2>5. CASE Release(n)
    BY <2>5 DEF Release, Goto, MTypeOK, world
  <2>6. CASE WaitForCompletion(n) \/ CancelWait(n)
    BY <2>6 DEF WaitForCompletion, CancelWait, Goto, MTypeOK, world
  <2> QED BY <1>2, <2>1, <2>2, <2>3, <2>4, <2>5, <2>6 DEF RunMigrations
<1>3. ASSUME NEW n \in Node, MRestart(n) PROVE MTypeOK'
  BY <1>3 DEF MRestart, Goto, MTypeOK
<1>4. CASE UNCHANGED mvars
  BY <1>4 DEF mvars, world, MTypeOK
<1> QED BY <1>1, <1>2, <1>3, <1>4 DEF MNext

\* The state of every node's migration has its type; in particular only
\* deployed versions are ever migrated (internal/migration's Run).
THEOREM MigrationTypeCorrect == MSpec => []MTypeOK
<1>1. MInit => MTypeOK
  BY DEF MInit, MTypeOK
<1> QED BY <1>1, MTypeStep, PTL DEF MSpec

\* runMigrations and the Migrator use the store only through its operations:
\* migrations on any number of nodes are a behaviour of the replicated store.
THEOREM MigrationsUseTheStore == MSpec => Spec
<1>1. MInit => Init
  BY DEF MInit
<1> QED BY <1>1, StoreStepped, MigrationTypeCorrect, PTL DEF MSpec, Spec

-----------------------------------------------------------------------------

\* Keys of the two kinds a migration uses differ.
LEMMA MigrationKeys ==
    /\ MigrationKey \in Key /\ VersionKey \in Key /\ MigrationKey # VersionKey
    /\ MigrationKey \in LockKey /\ VersionKey \notin LockKey
BY MigrationAssumption, KeyAssumption DEF Key

\* Putting e under one key of one node adds at most the copy e of that key.
LEMMA PutCopies ==
    ASSUME StoreShape, NEW n \in Node, NEW key \in Key, NEW e,
           Put(n, key, e), net' = net
    PROVE  /\ StoreShape'
           /\ \A j \in Node, k \in Key :
                store'[j][k] = IF j = n /\ k = key THEN e ELSE store[j][k]
           /\ Copies(key)' \subseteq Copies(key) \cup {e}
           /\ \A k \in Key \ {key} : Copies(k)' = Copies(k)
<1>1. \A j \in Node, k \in Key : store'[j][k] = IF j = n /\ k = key THEN e ELSE store[j][k]
  BY DEF Put, StoreShape
<1>2. StoreShape'
  BY DEF Put, StoreShape
<1>3. Copies(key)' \subseteq Copies(key) \cup {e}
  BY <1>1 DEF Copies
<1>4. \A k \in Key \ {key} : Copies(k)' = Copies(k)
  BY <1>1 DEF Copies
<1> QED BY <1>1, <1>2, <1>3, <1>4

\* Gossip, the cleanup, time and crashes make no copies, and no message is
\* taken back.
LEMMA EnvironmentCopies ==
    ASSUME StoreShape, NEW n \in Node,
           \/ Tick \/ GetStateSnapshot(n) \/ CleanupExpired(n) \/ Restart(n)
           \/ \E m \in net : Import(n, m)
    PROVE  /\ StoreShape'
           /\ \A k \in Key : Copies(k)' \subseteq Copies(k)
           /\ \A j \in Node \ {n} : store'[j] = store[j]
           /\ net \subseteq net'
<1>1. CASE Tick
  BY <1>1 DEF Tick, StoreShape, Copies
<1>2. CASE GetStateSnapshot(n)
  <2>1. /\ store' = store
        /\ net' = net \cup {[from |-> n, version |-> NextStamp(n, 1), entries |-> store[n]]}
    BY <1>2 DEF GetStateSnapshot
  <2>2. \A k \in Key : Copies(k)' \subseteq Copies(k)
    BY <2>1 DEF Copies
  <2> QED BY <2>1, <2>2 DEF StoreShape
<1>3. CASE CleanupExpired(n)
  <2>1. /\ net' = net
        /\ store' = [store EXCEPT ![n] =
                [k \in Key |-> IF Collectable(n, k) THEN NoEntry ELSE store[n][k]]]
    BY <1>3 DEF CleanupExpired
  <2>2. /\ StoreShape'
        /\ \A j \in Node \ {n} : store'[j] = store[j]
        /\ \A k \in Key : store'[n][k] \in {NoEntry, store[n][k]}
    BY <2>1 DEF StoreShape
  <2>3. \A k \in Key : Copies(k)' \subseteq Copies(k)
    BY <2>1, <2>2 DEF Copies
  <2> QED BY <2>1, <2>2, <2>3
<1>4. CASE Restart(n)
  <2>1. /\ net' = net
        /\ store' = [store EXCEPT ![n] = Empty]
    BY <1>4 DEF Restart
  <2>2. /\ StoreShape'
        /\ \A j \in Node \ {n} : store'[j] = store[j]
        /\ \A k \in Key : store'[n][k] = NoEntry
    BY <2>1 DEF StoreShape, Empty
  <2>3. \A k \in Key : Copies(k)' \subseteq Copies(k)
    BY <2>1, <2>2 DEF Copies
  <2> QED BY <2>1, <2>2, <2>3
<1>5. ASSUME NEW m \in net, Import(n, m)
      PROVE  /\ StoreShape'
             /\ \A k \in Key : Copies(k)' \subseteq Copies(k)
             /\ \A j \in Node \ {n} : store'[j] = store[j]
             /\ net \subseteq net'
  <2>1. /\ net' = net
        /\ store' = [store EXCEPT ![n] =
                        [k \in Key |-> Merged(n, k, store[n][k], m.entries[k])]]
    BY <1>5 DEF Import
  <2>2. /\ StoreShape'
        /\ \A j \in Node \ {n} : store'[j] = store[j]
        /\ \A k \in Key : store'[n][k] \in {store[n][k], m.entries[k]}
    BY <2>1, MergedIsOneOf DEF StoreShape
  <2>3. \A k \in Key : Copies(k)' \subseteq Copies(k)
    BY <2>1, <2>2 DEF Copies
  <2> QED BY <2>1, <2>2, <2>3
<1> QED BY <1>1, <1>2, <1>3, <1>4, <1>5

-----------------------------------------------------------------------------

\* A step that makes no copy of the version register and forgets no migration
\* keeps its meaning.
LEMMA VersionsKept ==
    ASSUME VersionMeansMigrated, migrated \subseteq migrated',
           Copies(VersionKey)' \subseteq Copies(VersionKey)
    PROVE  VersionMeansMigrated'
BY DEF VersionMeansMigrated

\* The store a step of runMigrations leaves, but for updateVersion.
LEMMA LockCopies ==
    ASSUME StoreShape, NEW n \in Node, TryLock(n) \/ Release(n)
    PROVE  /\ StoreShape'
           /\ Copies(VersionKey)' \subseteq Copies(VersionKey)
           /\ \A j \in Node \ {n} : store'[j][MigrationKey] = store[j][MigrationKey]
           /\ net' = net
<1>1. CASE UNCHANGED <<store, net>>
  BY <1>1 DEF StoreShape, Copies
<1>2. ASSUME NEW e, Put(n, MigrationKey, e), net' = net
      PROVE  /\ StoreShape'
             /\ Copies(VersionKey)' \subseteq Copies(VersionKey)
             /\ \A j \in Node \ {n} : store'[j][MigrationKey] = store[j][MigrationKey]
  <2>1. /\ StoreShape'
        /\ \A j \in Node, k \in Key :
                store'[j][k] = IF j = n /\ k = MigrationKey THEN e ELSE store[j][k]
        /\ \A k \in Key \ {MigrationKey} : Copies(k)' = Copies(k)
    BY <1>2, MigrationKeys, PutCopies
  <2> QED BY <2>1, MigrationKeys
<1>3. CASE TryLock(n)
  BY <1>1, <1>2, <1>3 DEF TryLock, AcquireLock
<1>4. CASE Release(n)
  BY <1>1, <1>2, <1>4 DEF Release, ReleaseLock, vars
<1> QED BY <1>3, <1>4

\* Every step keeps the invariant for the versions.
LEMMA MStep == ASSUME MInv, [MNext]_mvars PROVE MInv'
<1>0. MTypeOK'
  BY MTypeStep DEF MInv
<1>1. CASE Underneath
  <2>1. UNCHANGED <<versioned, file, migrated, pc, waited>>
    BY <1>1 DEF Underneath, world
  <2>2. StoreShape' /\ Copies(VersionKey)' \subseteq Copies(VersionKey)
    <3>1. CASE Tick
      BY <3>1 DEF Tick, StoreShape, Copies, MInv
    <3>2. ASSUME NEW n \in Node, \/ GetStateSnapshot(n) \/ CleanupExpired(n)
                                 \/ \E m \in net : Import(n, m)
          PROVE  StoreShape' /\ Copies(VersionKey)' \subseteq Copies(VersionKey)
      BY <3>2, EnvironmentCopies, MigrationKeys DEF MInv
    <3> QED BY <1>1, <3>1, <3>2 DEF Underneath
  <2>3. VersionMeansMigrated'
    BY <2>1, <2>2, VersionsKept DEF MInv
  <2> QED BY <1>0, <2>1, <2>2, <2>3 DEF MInv, RunKnows, ServesMigrated
<1>2. ASSUME NEW n \in Node, TryLock(n) PROVE MInv'
  <2>1. VersionMeansMigrated' /\ StoreShape'
    BY <1>2, LockCopies, VersionsKept DEF MInv, TryLock, world
  <2>2. RunKnows' /\ ServesMigrated'
    BY <1>2 DEF TryLock, Goto, MInv, MTypeOK, RunKnows, ServesMigrated, world
  <2> QED BY <1>0, <2>1, <2>2 DEF MInv
<1>3. ASSUME NEW n \in Node, Release(n) PROVE MInv'
  <2>1. VersionMeansMigrated' /\ StoreShape'
    BY <1>3, LockCopies, VersionsKept DEF MInv, Release, world
  <2>2. RunKnows' /\ ServesMigrated'
    BY <1>3 DEF Release, Goto, MInv, MTypeOK, RunKnows, ServesMigrated, world
  <2> QED BY <1>0, <2>1, <2>2 DEF MInv
<1>4. ASSUME NEW n \in Node, Check(n) PROVE MInv'
  <2>1. ASSUME ~NeedsMigration(n), versioned # "query" PROVE file[n] \in migrated
    <3>1. versioned = "file" /\ file[n] = StoredVersion(n)
      BY <2>1, MigrationAssumption DEF NeedsMigration, MInv, MTypeOK
    <3>2. file[n] # None
      BY MigrationAssumption, NoneAssumption DEF MInv, MTypeOK
    <3>3. store[n][VersionKey] # NoEntry /\ file[n] = store[n][VersionKey].val
      BY <3>1, <3>2 DEF StoredVersion
    <3> QED BY <3>3 DEF MInv, VersionMeansMigrated, Copies
  <2>2. UNCHANGED <<vars, world, waited>>
    BY <1>4 DEF Check
  <2>3. VersionMeansMigrated' /\ StoreShape'
    BY <2>2, VersionsKept DEF MInv, vars, world, StoreShape, Copies
  <2>4. RunKnows' /\ ServesMigrated'
    BY <1>4, <2>1 DEF Check, Goto, MInv, MTypeOK, RunKnows, ServesMigrated, world
  <2> QED BY <1>0, <2>3, <2>4 DEF MInv
<1>5. ASSUME NEW n \in Node, Command(n) PROVE MInv'
  <2>1. UNCHANGED <<vars, versioned, file, waited>> /\ migrated \subseteq migrated'
    BY <1>5 DEF Command
  <2>2. VersionMeansMigrated' /\ StoreShape'
    BY <2>1, VersionsKept DEF MInv, vars, StoreShape, Copies
  <2>3. RunKnows' /\ ServesMigrated'
    BY <1>5 DEF Command, Goto, MInv, MTypeOK, RunKnows, ServesMigrated
  <2> QED BY <1>0, <2>2, <2>3 DEF MInv
<1>6. ASSUME NEW n \in Node, UpdateVersion(n) PROVE MInv'
  <2>1. UNCHANGED <<versioned, file, migrated, waited>> /\ file[n] \in migrated
    BY <1>6 DEF UpdateVersion, MInv, RunKnows, world
  <2>2. ASSUME UNCHANGED vars PROVE VersionMeansMigrated' /\ StoreShape'
    BY <2>1, <2>2, VersionsKept DEF MInv, vars, StoreShape, Copies
  <2>3. ASSUME SetMeta(n, VersionKey, file[n])
        PROVE  VersionMeansMigrated' /\ StoreShape'
    <3> DEFINE reg == NewRegister(file[n], n, NextStamp(n, 1))
               e == IF store[n][VersionKey] = NoEntry THEN reg
                    ELSE Merge(store[n][VersionKey], reg)
    <3>1. Put(n, VersionKey, e) /\ net' = net
      BY <2>3 DEF SetMeta
    <3>2. e = reg \/ e \in Copies(VersionKey)
      BY DEF Merge, Copies
    <3>3. reg.val \in migrated
      BY <2>1 DEF NewRegister
    <3> HIDE DEF reg, e
    <3>4. StoreShape' /\ Copies(VersionKey)' \subseteq Copies(VersionKey) \cup {e}
      BY <3>1, PutCopies, MigrationKeys DEF MInv
    <3>5. VersionMeansMigrated'
      BY <3>2, <3>3, <3>4, <2>1 DEF MInv, VersionMeansMigrated
    <3> QED BY <3>4, <3>5
  <2>4. VersionMeansMigrated' /\ StoreShape'
    BY <1>6, <2>2, <2>3 DEF UpdateVersion
  <2>5. RunKnows' /\ ServesMigrated'
    BY <1>6, <2>1 DEF UpdateVersion, Goto, MInv, MTypeOK, RunKnows, ServesMigrated, world
  <2> QED BY <1>0, <2>4, <2>5 DEF MInv
<1>7. ASSUME NEW n \in Node, WaitForCompletion(n) \/ CancelWait(n) PROVE MInv'
  <2>1. UNCHANGED <<vars, world, waited>>
    BY <1>7 DEF WaitForCompletion, CancelWait
  <2>2. VersionMeansMigrated' /\ StoreShape'
    BY <2>1, VersionsKept DEF MInv, vars, world, StoreShape, Copies
  <2>3. RunKnows' /\ ServesMigrated'
    BY <1>7 DEF WaitForCompletion, CancelWait, Goto, MInv, MTypeOK, RunKnows,
                ServesMigrated, world
  <2> QED BY <1>0, <2>2, <2>3 DEF MInv
<1>8. ASSUME NEW n \in Node, MRestart(n) PROVE MInv'
  <2>1. VersionMeansMigrated' /\ StoreShape'
    BY <1>8, EnvironmentCopies, VersionsKept, MigrationKeys DEF MInv, MRestart
  <2>2. RunKnows' /\ ServesMigrated'
    BY <1>8 DEF MRestart, Goto, MInv, MTypeOK, RunKnows, ServesMigrated
  <2> QED BY <1>0, <2>1, <2>2 DEF MInv
<1>9. CASE UNCHANGED mvars
  BY <1>9, <1>0 DEF mvars, vars, world, MInv, StoreShape, VersionMeansMigrated, Copies, RunKnows,
                    ServesMigrated
<1> QED BY <1>1, <1>2, <1>3, <1>4, <1>5, <1>6, <1>7, <1>8, <1>9 DEF MNext, RunMigrations

LEMMA MInvariance == MSpec => []MInv
<1>1. MInit => MInv
  <2> SUFFICES ASSUME MInit PROVE MInv
    OBVIOUS
  <2>1. store = [n \in Node |-> [k \in Key |-> NoEntry]] /\ net = {}
    BY DEF MInit, Init, Empty
  <2>2. StoreShape /\ Copies(VersionKey) = {}
    BY <2>1, MigrationKeys DEF StoreShape, Copies
  <2> QED BY <2>2 DEF MInit, MInv, MTypeOK, VersionMeansMigrated, RunKnows, ServesMigrated
<1> QED BY <1>1, MStep, PTL DEF MSpec

\* A version is recorded only after its migration has succeeded, across
\* failing hooks, crashes and gossip in any order (migration.go: Run,
\* updateVersion).
THEOREM RecordedIsMigrated == MSpec => []VersionMeansMigrated
BY MInvariance, PTL DEF MInv

\* A node that took the lock and does not detect its version by version_query
\* serves only on a migrated database (bootstrap.go: runMigrations).
THEOREM ServersAreMigrated == MSpec => []ServesMigrated
BY MInvariance, PTL DEF MInv

-----------------------------------------------------------------------------

\* The types of the copies of the lock.
LEMMA LockTypes ==
    ASSUME TypeOK
    PROVE  /\ time \in Nat /\ LockRetention \in Nat
           /\ \A n \in Node : Wall(n) \in Nat /\ LockTimeout[n] \in Nat
           /\ \A c \in Copies(MigrationKey) :
                /\ c \in Entry /\ c # NoEntry /\ c.ts \in Timestamp /\ c.ts.p \in Nat
                /\ c.exp \in Nat /\ c.deleted \in BOOLEAN /\ c.node \in Node
<1>1. \A c \in Copies(MigrationKey) : c \in Entry /\ c # NoEntry
  BY Types, MigrationKeys
<1>2. \A n \in Node : Wall(n) \in Nat
  BY WallFacts
<1>3. \A n \in Node : LockTimeout[n] \in Nat
  BY MigrationAssumption, TTLAssumption
<1> QED BY <1>1, <1>2, <1>3, NumberAssumption DEF TypeOK, Entry, Timestamp

\* Wall clocks advance with time.
LEMMA WallAdvances ==
    ASSUME TypeOK, TypeOK', skew' = skew, time <= time', NEW n \in Node
    PROVE  Wall(n)' \in Nat /\ Wall(n) <= Wall(n)'
<1>1. time \in Nat /\ time' \in Nat /\ skew[n] \in Nat
  BY NumberAssumption DEF TypeOK
<1> QED BY <1>1 DEF Wall

\* A new stamp is later than every copy its node has written.
LEMMA FreshStamp ==
    ASSUME IInv, NEW n \in Node
    PROVE  /\ NextStamp(n, 1) \in Timestamp
           /\ \A c \in Own(n) : Less(c.ts, NextStamp(n, 1))
<1>1. clock[n] \in Timestamp
  BY Types DEF IInv
<1>2. NextStamp(n, 1) \in Timestamp /\ Less(clock[n], NextStamp(n, 1))
  BY NextStampFacts
<1>3. ASSUME NEW c \in Own(n) PROVE Less(c.ts, NextStamp(n, 1))
  <2>1. c.ts \in Timestamp /\ LessOrEqual(c.ts, clock[n])
    BY <1>3, LockTypes, MigrationKeys DEF IInv, WriterCovers, Own
  <2> QED BY <2>1, <1>1, <1>2, LessOrder
<1> QED BY <1>2, <1>3

\* Copies that have run out, or are past, stay so while no new ones are made.
LEMMA PastStays ==
    ASSUME NEW n \in Node, TypeOK, Wall(n)' \in Nat, Wall(n) <= Wall(n)',
           \A c \in Own(n)' : c \in Own(n)
    PROVE  (RunOut(n) => RunOut(n)') /\ (Past(n) => Past(n)')
<1>1. \A c \in Own(n) : c.exp \in Nat /\ c.ts.p \in Nat
  BY LockTypes DEF Own
<1>2. Wall(n) \in Nat /\ LockRetention \in Nat
  BY LockTypes
<1>3. ASSUME RunOut(n) PROVE RunOut(n)'
  BY <1>1, <1>2, <1>3 DEF RunOut
<1>4. ASSUME Past(n) PROVE Past(n)'
  <2> SUFFICES ASSUME NEW c \in Own(n)'
               PROVE  c.exp <= Wall(n)' \/ Wall(n)' - c.ts.p > LockRetention
    BY DEF Past
  <2>1. c \in Own(n) /\ (c.exp <= Wall(n) \/ Wall(n) - c.ts.p > LockRetention)
    BY <1>4 DEF Past
  <2> QED BY <1>1, <1>2, <2>1
<1> QED BY <1>3, <1>4

\* What others do leaves the last lock of a node where it is.
LEMMA LastStaysKept ==
    ASSUME NEW n \in Node, LastKept(n), TypeOK,
           Wall(n)' \in Nat, Wall(n) <= Wall(n)',
           \A c \in Own(n)' : c \in Own(n),
           store'[n][MigrationKey] = store[n][MigrationKey],
           net \subseteq net',
           n \in waited => n \in waited',
           pc[n] = "boot" => pc'[n] = "boot",
           Over(n)' = Over(n)
    PROVE  LastKept(n)'
<1> SUFFICES ASSUME n \notin waited', pc'[n] # "boot", OnlyLockSent(n)'
             PROVE  /\ ~Over(n)' => RunOut(n)' \/ (HasLast(n)' /\ ~store'[n][MigrationKey].deleted)
                    /\ Over(n)' => Past(n)' \/ (HasLast(n)' /\ store'[n][MigrationKey].deleted)
  BY DEF LastKept
<1>1. OnlyLockSent(n)
  BY DEF OnlyLockSent
<1>2. ASSUME HasLast(n) PROVE HasLast(n)'
  <2>1. store'[n][MigrationKey] \in Own(n)'
    BY <1>2 DEF HasLast, Own, Copies
  <2> QED BY <1>2, <2>1 DEF HasLast
<1>3. (RunOut(n) => RunOut(n)') /\ (Past(n) => Past(n)')
  BY PastStays
<1> QED BY <1>1, <1>2, <1>3 DEF LastKept

\* A step that makes no copies of the lock keeps what is said of each.
LEMMA OwnedStaysOwned ==
    ASSUME LocksOwned, TypeOK, TypeOK', skew' = skew, time <= time',
           Copies(MigrationKey)' \subseteq Copies(MigrationKey)
    PROVE  LocksOwned'
<1> SUFFICES ASSUME NEW c \in Copies(MigrationKey)
             PROVE  c.val = c.node /\ c.exp <= Wall(c.node)' + LockTimeout[c.node]
  BY DEF LocksOwned
<1>1. c.node \in Node /\ c.exp \in Nat /\ c.val = c.node
      /\ c.exp <= Wall(c.node) + LockTimeout[c.node]
  BY LockTypes DEF LocksOwned
<1> QED BY <1>1, LockTypes, WallAdvances

\* A lock just written by node n is the last of its locks.
LEMMA WrittenIsLast ==
    ASSUME IInv, MInv, LockInv, TypeOK', NEW n \in Node, NEW e,
           Put(n, MigrationKey, e), net' = net, UNCHANGED <<time, skew>>,
           e # NoEntry, e.node = n, e.val = n, e.ts = NextStamp(n, 1),
           e.exp \in Nat, e.exp <= Wall(n) + LockTimeout[n],
           \A c \in Own(n) : c.exp <= e.exp
    PROVE  /\ LocksOwned'
           /\ HasLast(n)' /\ store'[n][MigrationKey] = e
           /\ \A j \in Node \ {n} : \A c \in Own(j)' : c \in Own(j)
<1>1. /\ \A j \in Node : store'[j][MigrationKey] =
                            IF j = n THEN e ELSE store[j][MigrationKey]
      /\ Copies(MigrationKey)' \subseteq Copies(MigrationKey) \cup {e}
  BY PutCopies, MigrationKeys DEF MInv
<1>2. LocksOwned'
  BY <1>1 DEF LockInv, LocksOwned, Wall
<1>3. \A j \in Node \ {n} : \A c \in Own(j)' : c \in Own(j)
  BY <1>1 DEF Own
<1>4. \A c \in Own(n)' : c = e \/ c \in Own(n)
  BY <1>1 DEF Own
<1>5. e \in Own(n)'
  BY <1>1 DEF Own, Copies
<1>6. HasLast(n)'
  BY <1>1, <1>4, <1>5, FreshStamp DEF HasLast
<1> QED BY <1>1, <1>2, <1>3, <1>6

\* runMigrations takes the lock, or finds it taken.
LEMMA TryLockStep ==
    ASSUME IInv, TypeOK', MInv, LockInv, NEW n \in Node, TryLock(n)
    PROVE  LockInv'
<1>0. /\ UNCHANGED <<time, skew, net>> /\ time <= time'
      /\ \A j \in Node \ {n} : pc'[j] = pc[j]
      /\ \A j \in Node \ {n} : store'[j][MigrationKey] = store[j][MigrationKey]
      /\ waited \subseteq waited'
      /\ \A j \in Node : Wall(j) \in Nat /\ Wall(j)' = Wall(j) /\ LockTimeout[j] \in Nat
  BY LockCopies, LockTypes DEF TryLock, AcquireLock, Goto, MInv, MTypeOK, IInv, Wall
<1>1. CASE Acquirable(n, MigrationKey)
  <2> DEFINE e == NewLock(n, Wall(n) + LockTimeout[n], n, NextStamp(n, 1))
  <2>1. Put(n, MigrationKey, e) /\ pc'[n] = "check"
    BY <1>1 DEF TryLock, AcquireLock, Goto, MInv, MTypeOK
  <2>3. /\ e.node = n /\ e.val = n /\ e.ts = NextStamp(n, 1) /\ ~e.deleted /\ e.exp = Wall(n) + LockTimeout[n]
    BY DEF NewLock
  <2>4. e.exp \in Nat /\ e.exp <= Wall(n) + LockTimeout[n]
    BY <2>3, <1>0, LockTypes DEF IInv
  <2>5. e # NoEntry
    <3>1. e \in Entry
      BY <2>4, <2>3, FreshStamp, MigrationAssumption DEF NewLock, Entry
    <3> QED BY <3>1, NoEntryAssumption
  <2>6. \A c \in Own(n) : c.exp <= e.exp
    BY <2>3 DEF LockInv, LocksOwned, Own
  <2> HIDE DEF e
  <2>7. /\ LocksOwned' /\ HasLast(n)' /\ ~store'[n][MigrationKey].deleted
        /\ \A j \in Node \ {n} : \A c \in Own(j)' : c \in Own(j)
    BY <1>0, <2>1, <2>3, <2>4, <2>5, <2>6, WrittenIsLast
  <2>8. LastKept(n)'
    BY <2>1, <2>3, <2>7 DEF LastKept, Over
  <2>9. \A j \in Node \ {n} : LastKept(j)'
    BY <1>0, <2>7, LastStaysKept DEF LockInv, IInv, Over
  <2> QED BY <2>7, <2>8, <2>9 DEF LockInv
<1>2. CASE ~Acquirable(n, MigrationKey)
  <2>1. store' = store /\ n \in waited'
    BY <1>2 DEF TryLock, AcquireLock
  <2>2. Copies(MigrationKey)' = Copies(MigrationKey)
    BY <1>0, <2>1 DEF Copies
  <2>3. LocksOwned'
    BY <1>0, <2>2, OwnedStaysOwned DEF LockInv, IInv
  <2>4. \A j \in Node \ {n} : LastKept(j)'
    BY <1>0, <2>2, LastStaysKept DEF LockInv, IInv, Over, Own
  <2>5. LastKept(n)'
    BY <2>1 DEF LastKept
  <2> QED BY <2>3, <2>4, <2>5 DEF LockInv
<1> QED BY <1>1, <1>2

\* The lock is released, or has run out before.
LEMMA ReleaseStep ==
    ASSUME IInv, TypeOK', MInv, LockInv, NEW n \in Node, Release(n)
    PROVE  LockInv'
<1>0. /\ UNCHANGED <<time, skew, net, waited>> /\ time <= time'
      /\ \A j \in Node \ {n} : pc'[j] = pc[j]
      /\ \A j \in Node \ {n} : store'[j][MigrationKey] = store[j][MigrationKey]
      /\ pc[n] # "boot" /\ pc[n] \notin {"serving", "failed"} /\ pc'[n] \in {"serving", "failed"}
      /\ \A j \in Node : Wall(j) \in Nat /\ Wall(j)' = Wall(j)
  <2>1. UNCHANGED <<time, skew, net, waited>>
    BY DEF Release, ReleaseLock, vars
  <2>2. time <= time' /\ \A j \in Node : Wall(j) \in Nat /\ Wall(j)' = Wall(j)
    BY <2>1, LockTypes DEF Wall, IInv
  <2>3. /\ \A j \in Node \ {n} : pc'[j] = pc[j]
        /\ pc[n] # "boot" /\ pc[n] \notin {"serving", "failed"} /\ pc'[n] \in {"serving", "failed"}
    BY DEF Release, Goto, MInv, MTypeOK
  <2>4. \A j \in Node \ {n} : store'[j][MigrationKey] = store[j][MigrationKey]
    BY LockCopies DEF Release, ReleaseLock, MInv, vars
  <2> QED BY <2>1, <2>2, <2>3, <2>4
<1>2. CASE HoldsLock(n)
  <2> DEFINE old == store[n][MigrationKey]
             e == Tombstone(old, n, NextStamp(n, 1))
  <2>1. Put(n, MigrationKey, e)
    BY <1>2 DEF Release, ReleaseLock
  <2>2. /\ old \in Copies(MigrationKey) /\ old.val = n /\ old.exp \in Nat /\ Wall(n) < old.exp
        /\ old \in Entry /\ old.node = n /\ old.exp <= Wall(n) + LockTimeout[n]
    <3>1. old \in Copies(MigrationKey) /\ old.val = n /\ Wall(n) < old.exp
      BY <1>2 DEF HoldsLock, LockHeldBy, LockHeld, Copies
    <3> QED BY <3>1, LockTypes DEF LockInv, LocksOwned, IInv
  <2>3. old \in Own(n)
    BY <2>2 DEF Own
  <2>4. /\ e.node = n /\ e.val = n /\ e.ts = NextStamp(n, 1) /\ e.exp = old.exp
        /\ e.deleted = TRUE
    BY <2>2 DEF Tombstone, Entry
  <2>5. e # NoEntry
    <3>1. e \in Entry
      BY <2>2, FreshStamp DEF Tombstone, Entry
    <3> QED BY <3>1, NoEntryAssumption
  <2>6. CASE n \notin waited /\ OnlyLockSent(n)
    <3>1. ~RunOut(n)
      BY <2>2, <2>3, <1>0 DEF RunOut
    <3>2. \A c \in Own(n) : c.exp <= e.exp
      BY <1>0, <2>4, <2>6, <3>1 DEF LockInv, LastKept, HasLast, Over
    <3> HIDE DEF e
    <3>3. /\ LocksOwned' /\ HasLast(n)' /\ store'[n][MigrationKey] = e
          /\ \A j \in Node \ {n} : \A c \in Own(j)' : c \in Own(j)
      BY <1>0, <2>1, <2>2, <2>4, <2>5, <3>2, WrittenIsLast
    <3>4. LastKept(n)'
      BY <1>0, <2>4, <3>3 DEF LastKept, Over
    <3>5. \A j \in Node \ {n} : LastKept(j)'
      BY <1>0, <3>3, LastStaysKept DEF LockInv, IInv, Over
    <3> QED BY <3>3, <3>4, <3>5 DEF LockInv
  <2>7. CASE ~(n \notin waited /\ OnlyLockSent(n))
    <3> HIDE DEF e
    <3>1. Copies(MigrationKey)' \subseteq Copies(MigrationKey) \cup {e}
      BY <1>0, <2>1, PutCopies, MigrationKeys DEF MInv
    <3>2. LocksOwned'
      BY <1>0, <2>2, <2>4, <3>1 DEF LockInv, LocksOwned, Wall
    <3>3. \A j \in Node \ {n} : \A c \in Own(j)' : c \in Own(j)
      BY <2>4, <3>1 DEF Own
    <3>4. \A j \in Node \ {n} : LastKept(j)'
      BY <1>0, <3>3, LastStaysKept DEF LockInv, IInv, Over
    <3>5. LastKept(n)'
      BY <1>0, <2>7 DEF LastKept, OnlyLockSent
    <3> QED BY <3>2, <3>4, <3>5 DEF LockInv
  <2> QED BY <2>6, <2>7
<1>3. CASE ~HoldsLock(n)
  <2>1. store' = store
    BY <1>3 DEF Release, vars
  <2>2. Copies(MigrationKey)' = Copies(MigrationKey)
    BY <1>0, <2>1 DEF Copies
  <2>3. LocksOwned'
    BY <1>0, <2>2, OwnedStaysOwned DEF LockInv, IInv
  <2>4. \A j \in Node \ {n} : LastKept(j)'
    BY <1>0, <2>1, <2>2, LastStaysKept DEF LockInv, IInv, Over, Own
  <2>5. ASSUME n \notin waited, OnlyLockSent(n)
        PROVE  RunOut(n)
    <3>1. ASSUME HasLast(n), ~store[n][MigrationKey].deleted PROVE RunOut(n)
      <4> DEFINE e == store[n][MigrationKey]
      <4>1. e \in Copies(MigrationKey) /\ e # NoEntry /\ e.val = n /\ e.exp \in Nat
        BY <3>1, LockTypes DEF HasLast, Own, LockInv, LocksOwned, IInv
      <4>2. e.exp <= Wall(n)
        BY <1>0, <1>3, <3>1, <4>1 DEF HoldsLock, LockHeldBy, LockHeld
      <4>3. \A c \in Own(n) : c.exp \in Nat /\ c.exp <= e.exp
        BY <3>1, LockTypes DEF HasLast, Own, IInv
      <4> QED BY <1>0, <4>1, <4>2, <4>3 DEF RunOut
    <3> QED BY <1>0, <2>5, <3>1 DEF LockInv, LastKept, Over
  <2>6. /\ OnlyLockSent(n)' = OnlyLockSent(n)
        /\ RunOut(n) => Past(n)'
    BY <1>0, <2>2 DEF OnlyLockSent, RunOut, Past, Own
  <2>7. LastKept(n)'
    BY <1>0, <2>5, <2>6 DEF LastKept, Over
  <2> QED BY <2>3, <2>4, <2>7 DEF LockInv
<1> QED BY <1>2, <1>3

\* When the last lock is in the store, no copy of an earlier one replaces it.
LEMMA LastIsNotReplaced ==
    ASSUME IInv, NEW n \in Node, NEW m \in net, Import(n, m), MInv,
           HasLast(n), OnlyLockSent(n)
    PROVE  store'[n][MigrationKey] = store[n][MigrationKey]
<1> DEFINE old == store[n][MigrationKey]
           c == m.entries[MigrationKey]
<1>1. store'[n][MigrationKey] = Merged(n, MigrationKey, old, c)
  BY MigrationKeys DEF Import, MInv, StoreShape
<1>2. /\ old \in Own(n) /\ old # NoEntry /\ old.ts \in Timestamp /\ old.exp \in Nat
      /\ Wall(n) \in Nat
  BY LockTypes DEF HasLast, Own, IInv
<1>3. CASE c = NoEntry
  BY <1>1, <1>3 DEF Merged
<1>4. CASE c # NoEntry
  <2>1. c \in Own(n)
    BY <1>4 DEF Own, Copies, OnlyLockSent
  <2>2. c.exp <= old.exp /\ (c = old \/ Less(c.ts, old.ts)) /\ c.ts \in Timestamp /\ c.exp \in Nat
    BY <2>1, LockTypes DEF HasLast, Own, IInv
  <2> HIDE DEF c
  <2>3. c = old \/ ~Newer(old, c)
    BY <1>2, <2>2, LessOrder DEF Newer, LessOrEqual
  <2>4. ~(Expired(old, Wall(n)) /\ ~Expired(c, Wall(n)))
    BY <1>2, <2>2 DEF Expired
  <2>5. LockMerge(old, c, Wall(n)) = old
    BY <2>3, <2>4 DEF LockMerge, Merge
  <2> QED BY <1>1, <1>2, <1>4, <2>5, MigrationKeys DEF Merged
<1> QED BY <1>3, <1>4

\* When the last lock is collected it has run out, and all others before it;
\* when its tombstone is collected, all copies are older than tombstones are
\* kept.
LEMMA CollectedIsPast ==
    ASSUME IInv, LockInv, NEW n \in Node, HasLast(n), Collectable(n, MigrationKey)
    PROVE  IF store[n][MigrationKey].deleted THEN Past(n) ELSE RunOut(n)
<1> DEFINE old == store[n][MigrationKey]
<1>1. /\ old \in Own(n) /\ old # NoEntry /\ old.ts \in Timestamp /\ old.exp \in Nat
      /\ Wall(n) \in Nat /\ LockRetention \in Nat
  BY LockTypes DEF HasLast, Own, IInv
<1>2. LockFree(old, Wall(n)) /\ Wall(n) - old.ts.p > LockRetention
  BY <1>1, MigrationKeys, KeyAssumption DEF Collectable
<1>3. \A c \in Own(n) : /\ c.exp \in Nat /\ c.exp <= old.exp /\ c.ts \in Timestamp
                        /\ c = old \/ Less(c.ts, old.ts)
  BY LockTypes DEF HasLast, Own, IInv
<1> HIDE DEF old
<1>4. Past(n)
  <2> SUFFICES ASSUME NEW c \in Own(n) PROVE Wall(n) - c.ts.p > LockRetention
    BY DEF Past
  <2>1. c.ts.p <= old.ts.p /\ c.ts.p \in Nat /\ old.ts.p \in Nat
    <3>1. c.ts \in Timestamp /\ (c.ts = old.ts \/ Less(c.ts, old.ts))
      BY <1>3
    <3> QED BY <1>1, <3>1 DEF Less, Timestamp
  <2> QED BY <1>1, <1>2, <2>1
<1>5. ASSUME ~old.deleted PROVE RunOut(n)
  <2>1. Expired(old, Wall(n))
    BY <1>2, <1>5 DEF LockFree
  <2>2. old.exp <= Wall(n)
    BY <1>1, <2>1 DEF Expired
  <2> SUFFICES ASSUME NEW c \in Own(n) PROVE c.exp <= Wall(n)
    BY DEF RunOut
  <2>3. c.exp \in Nat /\ c.exp <= old.exp
    BY <1>3
  <2> QED BY <1>1, <2>2, <2>3
<1> QED BY <1>4, <1>5 DEF old

\* Gossip, time and the cleanup.
LEMMA UnderneathStep ==
    ASSUME IInv, TypeOK', MInv, LockInv, Underneath
    PROVE  LockInv'
<1>0. UNCHANGED <<pc, waited>>
  BY DEF Underneath
<1>1. CASE Tick
  <2>1. store' = store /\ net' = net /\ skew' = skew /\ time <= time'
    BY <1>1, LockTypes DEF Tick, IInv
  <2>2. Copies(MigrationKey)' = Copies(MigrationKey)
    BY <2>1 DEF Copies
  <2>3. LocksOwned'
    BY <2>1, <2>2, OwnedStaysOwned DEF LockInv, IInv
  <2>4. \A j \in Node : LastKept(j)'
    BY <1>0, <2>1, <2>2, WallAdvances, LastStaysKept DEF LockInv, IInv, Own, Over
  <2> QED BY <2>3, <2>4 DEF LockInv
<1>2. ASSUME NEW n \in Node,
             \/ GetStateSnapshot(n) \/ CleanupExpired(n)
             \/ \E m \in net : Import(n, m)
      PROVE  LockInv'
  <2>1. /\ UNCHANGED <<time, skew>> /\ time <= time'
        /\ \A j \in Node : Wall(j) \in Nat /\ Wall(j)' = Wall(j)
    BY <1>2, LockTypes DEF GetStateSnapshot, CleanupExpired, Import, IInv, Wall
  <2>2. /\ Copies(MigrationKey)' \subseteq Copies(MigrationKey)
        /\ \A j \in Node \ {n} : store'[j] = store[j]
        /\ net \subseteq net'
    BY <1>2, EnvironmentCopies, MigrationKeys DEF MInv
  <2>3. LocksOwned'
    BY <2>1, <2>2, OwnedStaysOwned DEF LockInv, IInv
  <2>4. \A j \in Node : \A c \in Own(j)' : c \in Own(j)
    BY <2>2 DEF Own
  <2>5. \A j \in Node \ {n} : LastKept(j)'
    BY <1>0, <2>1, <2>2, <2>4, LastStaysKept DEF LockInv, IInv, Over
  <2>6. CASE store'[n][MigrationKey] = store[n][MigrationKey]
    <3>1. LastKept(n)'
      BY <1>0, <2>1, <2>2, <2>4, <2>6, LastStaysKept DEF LockInv, IInv, Over
    <3> QED BY <2>3, <2>5, <3>1 DEF LockInv
  <2>7. (RunOut(n) => RunOut(n)') /\ (Past(n) => Past(n)')
    BY <2>1, <2>4, PastStays DEF IInv
  <2>8. ASSUME OnlyLockSent(n)' PROVE OnlyLockSent(n)
    BY <2>2, <2>8 DEF OnlyLockSent
  <2>9. ASSUME store'[n][MigrationKey] # store[n][MigrationKey], HasLast(n), OnlyLockSent(n)
        PROVE  IF store[n][MigrationKey].deleted THEN Past(n) ELSE RunOut(n)
    <3>1. CASE GetStateSnapshot(n)
      BY <2>9, <3>1 DEF GetStateSnapshot
    <3>2. CASE CleanupExpired(n)
      <4>1. Collectable(n, MigrationKey)
        BY <2>9, <3>2, MigrationKeys DEF CleanupExpired, MInv, StoreShape
      <4> QED BY <2>9, <4>1, CollectedIsPast
    <3>3. CASE \E m \in net : Import(n, m)
      BY <2>9, <3>3, LastIsNotReplaced
    <3> QED BY <1>2, <3>1, <3>2, <3>3
  <2>10. CASE store'[n][MigrationKey] # store[n][MigrationKey]
    <3>1. LastKept(n)'
      BY <1>0, <2>7, <2>8, <2>9, <2>10 DEF LockInv, LastKept, Over
    <3> QED BY <2>3, <2>5, <3>1 DEF LockInv
  <2> QED BY <2>6, <2>10
<1> QED BY <1>1, <1>2 DEF Underneath

\* Every step keeps the invariant for the lock.
LEMMA LockStep ==
    ASSUME IInv, TypeOK', MInv, LockInv, [MNext]_mvars
    PROVE  LockInv'
<1>1. ASSUME NEW n \in Node, Check(n) \/ Command(n) \/ UpdateVersion(n)
                             \/ WaitForCompletion(n) \/ CancelWait(n)
      PROVE  LockInv'
  <2>1. /\ UNCHANGED <<time, skew, net, waited>> /\ time <= time'
        /\ \A j \in Node : Wall(j) \in Nat /\ Wall(j)' = Wall(j)
        /\ \A j \in Node \ {n} : pc'[j] = pc[j]
        /\ pc[n] # "boot" /\ pc[n] \notin {"serving", "failed"}
        /\ pc'[n] \in {"serving", "failed"} => n \in waited
    BY <1>1, LockTypes DEF Check, Command, UpdateVersion, WaitForCompletion, CancelWait, SetMeta,
                           Goto, MInv, MTypeOK, RunKnows, IInv, vars, Wall
  <2>2. /\ Copies(MigrationKey)' = Copies(MigrationKey)
        /\ \A j \in Node : store'[j][MigrationKey] = store[j][MigrationKey]
    <3>1. CASE UNCHANGED vars
      BY <3>1 DEF vars, Copies
    <3>2. CASE SetMeta(n, VersionKey, file[n])
      <4> DEFINE reg == NewRegister(file[n], n, NextStamp(n, 1))
                 e == IF store[n][VersionKey] = NoEntry THEN reg
                      ELSE Merge(store[n][VersionKey], reg)
      <4>1. Put(n, VersionKey, e) /\ net' = net
        BY <3>2 DEF SetMeta
      <4> HIDE DEF e
      <4> QED BY <4>1, PutCopies, MigrationKeys DEF MInv
    <3> QED BY <1>1, <3>1, <3>2
            DEF Check, Command, UpdateVersion, WaitForCompletion, CancelWait
  <2>3. LocksOwned'
    BY <2>1, <2>2, OwnedStaysOwned DEF LockInv, IInv
  <2>4. \A j \in Node \ {n} : LastKept(j)'
    BY <2>1, <2>2, LastStaysKept DEF LockInv, IInv, Own, Over
  <2>5. /\ OnlyLockSent(n)' = OnlyLockSent(n) /\ RunOut(n)' = RunOut(n)
        /\ HasLast(n)' = HasLast(n)
    BY <2>1, <2>2 DEF OnlyLockSent, RunOut, HasLast, Own
  <2>6. LastKept(n)'
    BY <2>1, <2>2, <2>5 DEF LockInv, LastKept, Over
  <2> QED BY <2>3, <2>4, <2>6 DEF LockInv
<1>2. ASSUME NEW n \in Node, MRestart(n) PROVE LockInv'
  <2>1. /\ skew' = skew /\ time <= time' /\ Restart(n)
        /\ \A j \in Node \ {n} : pc'[j] = pc[j] /\ (j \in waited => j \in waited')
        /\ pc'[n] = "boot"
    BY <1>2, LockTypes DEF MRestart, Restart, Goto, MInv, MTypeOK, IInv
  <2>2. /\ Copies(MigrationKey)' \subseteq Copies(MigrationKey)
        /\ \A j \in Node \ {n} : store'[j] = store[j]
        /\ net \subseteq net'
    BY <2>1, EnvironmentCopies, MigrationKeys DEF MInv
  <2>3. LocksOwned'
    BY <2>1, <2>2, OwnedStaysOwned DEF LockInv, IInv
  <2>4. \A j \in Node : \A c \in Own(j)' : c \in Own(j)
    BY <2>2 DEF Own
  <2>5. \A j \in Node \ {n} : LastKept(j)'
    BY <2>1, <2>2, <2>4, WallAdvances, LastStaysKept DEF LockInv, IInv, Over
  <2>6. LastKept(n)'
    BY <2>1 DEF LastKept
  <2> QED BY <2>3, <2>5, <2>6 DEF LockInv
<1>3. CASE UNCHANGED mvars
  BY <1>3 DEF mvars, vars, world, LockInv, LocksOwned, LastKept, OnlyLockSent, RunOut, Past,
              HasLast, Own, Over, Copies, Wall
<1> QED BY <1>1, <1>2, <1>3, TryLockStep, ReleaseStep, UnderneathStep DEF MNext, RunMigrations

\* As long as no clock is taken back, a released migration lock does not come
\* back to its node with late copies of its own locks before cleanupExpired may
\* have collected its tombstone, whatever crashes and however gossip is delayed,
\* repeated and passed on (db.go: ReleaseLock, MergeLocks, cleanupExpired;
\* crdt.go: LockCRDT.Merge).
THEOREM ReleasedLocksStay ==
    ASSUME Sound PROVE MSpec => []ReleasedUntilCollected
<1>1. MSpec => []IInv
  BY MigrationsUseTheStore, Invariance, PTL
<1>2. MInit => LockInv
  <2> SUFFICES ASSUME MInit PROVE LockInv
    OBVIOUS
  <2>1. Copies(MigrationKey) = {}
    BY MigrationKeys DEF MInit, Init, Copies, Empty
  <2> QED BY <2>1 DEF MInit, LockInv, LocksOwned, LastKept
<1>3. IInv /\ IInv' /\ MInv /\ LockInv /\ [MNext]_mvars => LockInv'
  BY LockStep DEF IInv
<1>4. IInv /\ LockInv => ReleasedUntilCollected
  <2> SUFFICES ASSUME IInv, LockInv, NEW n \in Node \ waited, pc[n] = "serving",
                      OnlyLockSent(n), HoldsLock(n)
               PROVE  Wall(n) - store[n][MigrationKey].ts.p > LockRetention
    BY DEF ReleasedUntilCollected
  <2> DEFINE e == store[n][MigrationKey]
  <2>1. e # NoEntry /\ e.val = n /\ ~e.deleted /\ Wall(n) < e.exp
    BY DEF HoldsLock, LockHeldBy, LockHeld
  <2>2. e \in Own(n) /\ e.exp \in Nat /\ Wall(n) \in Nat
    BY <2>1, LockTypes DEF Own, Copies, LockInv, LocksOwned, IInv
  <2>3. Past(n)
    BY <2>1 DEF LockInv, LastKept, Over
  <2> QED BY <2>1, <2>2, <2>3 DEF Past
<1> QED BY <1>1, <1>2, <1>3, <1>4, MInvariance, PTL DEF MSpec
=============================================================================
