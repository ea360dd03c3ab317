------------------------------ MODULE Migration ------------------------------
(***************************************************************************)
(* Migrations at the start of every node: the engine's runMigrations over  *)
(* internal/migration's Migrator, on the locks and the metadata of DB.     *)
(*                                                                         *)
(* A node's holder name is its host name, written here as the node itself. *)
(* file[n] is the version in node n's version file: it changes only with   *)
(* the process, when another image is deployed.  migrated is the state of  *)
(* the database behind the application: the versions whose migration       *)
(* command has succeeded.  versioned is the configuration: the version is  *)
(* not detected, read from a file, or to be asked for by version_query.    *)
(***************************************************************************)
EXTENDS DB

CONSTANTS MigrationKey,  \* config.Migration.LockKey
          VersionKey,    \* "app_version"
          LockTimeout,   \* config.Migration.LockTimeout of every node
          Version,       \* the versions that are deployed
          Detection,     \* the ways of detecting the version to consider
          Crashing       \* the nodes whose process may die

ASSUME MigrationAssumption ==
    /\ MigrationKey \in LockKey /\ VersionKey \in MetaKey
    /\ LockTimeout \in [Node -> TTL \ {0}]
    /\ Version \subseteq Value /\ Node \subseteq Value
    /\ Detection \subseteq {"none", "file", "query"}
    /\ Crashing \subseteq Node

VARIABLES versioned, file, migrated,
          pc,      \* where runMigrations is on every node
          waited   \* the nodes that found the lock taken since they started

world == <<versioned, file, migrated>>
mvars == <<vars, world, pc, waited>>

MTypeOK ==
    /\ versioned \in Detection
    /\ file \in [Node -> Version]
    /\ migrated \subseteq Version
    /\ pc \in [Node -> {"boot", "check", "command", "version",
                        "release", "giveUp", "waiting", "serving", "failed"}]
    /\ waited \subseteq Node

MInit ==
    /\ Init
    /\ versioned \in Detection
    /\ file \in [Node -> Version]
    /\ migrated = {}
    /\ pc = [n \in Node |-> "boot"]
    /\ waited = {}

Goto(n, l) == pc' = [pc EXCEPT ![n] = l]

-----------------------------------------------------------------------------
(* runMigrations. *)

\* The lock is taken, or somebody has it.
TryLock(n) ==
    /\ pc[n] = "boot"
    /\ AcquireLock(n, MigrationKey, n, LockTimeout[n])
    /\ IF Acquirable(n, MigrationKey)
         THEN Goto(n, "check") /\ UNCHANGED waited
         ELSE Goto(n, "waiting") /\ waited' = waited \cup {n}
    /\ UNCHANGED world

\* GetMeta of the version.
StoredVersion(n) == IF store[n][VersionKey] = NoEntry THEN None ELSE store[n][VersionKey].val

\* needsMigration.  With a version query and no file the current version is
\* the empty string.
NeedsMigration(n) ==
    CASE versioned = "none"  -> TRUE
      [] versioned = "file"  -> file[n] # StoredVersion(n)
      [] versioned = "query" -> None # StoredVersion(n)

\* Run asks whether there is anything to do, and fails when the version file
\* cannot be read.
Check(n) ==
    /\ pc[n] = "check"
    /\ \/ Goto(n, IF NeedsMigration(n) THEN "command" ELSE "release")
       \/ versioned = "file" /\ Goto(n, "giveUp")
    /\ UNCHANGED <<vars, world, waited>>

\* Faulty variant of Command, for the mutation runs.
CommandOfStoredVersion(n) ==
    /\ pc[n] = "command"
    /\ migrated' = migrated \cup {StoredVersion(n)} /\ Goto(n, "version")
    /\ UNCHANGED <<vars, versioned, file, waited>>

\* Faulty variant of Command, for the mutation runs.
CommandAfterVersion(n) ==
    /\ pc[n] = "command"
    /\ SetMeta(n, VersionKey, file[n])
    /\ Goto(n, "version")
    /\ UNCHANGED <<world, waited>>

\* The pre-hooks and the migration command, in this order; the first that
\* fails ends the run.
Command(n) ==
    /\ pc[n] = "command"
    /\ \/ migrated' = migrated \cup {file[n]} /\ Goto(n, "version")
       \/ UNCHANGED migrated /\ Goto(n, "giveUp")
    /\ UNCHANGED <<vars, versioned, file, waited>>

\* The post-hooks, any of which may fail, and updateVersion: nothing without
\* a version file, and reading it may fail.
UpdateVersion(n) ==
    /\ pc[n] = "version"
    /\ \/ versioned = "file" /\ SetMeta(n, VersionKey, file[n]) /\ Goto(n, "release")
       \/ versioned # "file" /\ UNCHANGED vars /\ Goto(n, "release")
       \/ UNCHANGED vars /\ Goto(n, "giveUp")
    /\ UNCHANGED <<world, waited>>

IsLockHeld(n) ==
    store[n][MigrationKey] # NoEntry /\ LockHeld(store[n][MigrationKey], Wall(n))

HoldsLock(n) ==
    /\ store[n][MigrationKey] # NoEntry
    /\ LockHeldBy(store[n][MigrationKey], n, Wall(n))

\* Faulty variant of Release, for the mutation runs.
ReleaseForgetsError(n) ==
    /\ pc[n] \in {"release", "giveUp"}
    /\ IF HoldsLock(n) THEN ReleaseLock(n, MigrationKey, n) ELSE UNCHANGED vars
    /\ Goto(n, "serving")
    /\ UNCHANGED <<world, waited>>

\* ReleaseLock does nothing when the lock has run out or is another's.  After
\* a failed run the engine's Start fails.
Release(n) ==
    /\ pc[n] \in {"release", "giveUp"}
    /\ IF HoldsLock(n) THEN ReleaseLock(n, MigrationKey, n) ELSE UNCHANGED vars
    /\ Goto(n, IF pc[n] = "release" THEN "serving" ELSE "failed")
    /\ UNCHANGED <<world, waited>>

\* Faulty variant of WaitForCompletion, for the mutation runs.
WaitForRelease(n) ==
    /\ pc[n] = "waiting"
    /\ ~(store[n][MigrationKey] # NoEntry /\ ~store[n][MigrationKey].deleted)
    /\ Goto(n, "serving")
    /\ UNCHANGED <<vars, world, waited>>

\* WaitForCompletion returns at the first tick that finds the lock not held,
\* whatever became of the migration.
WaitForCompletion(n) ==
    /\ pc[n] = "waiting"
    /\ ~IsLockHeld(n)
    /\ Goto(n, "serving")
    /\ UNCHANGED <<vars, world, waited>>

\* The context is cancelled: the wait ends, and a hook or a command that runs
\* is killed, which is one of the failures above.
CancelWait(n) ==
    /\ pc[n] = "waiting"
    /\ Goto(n, "failed")
    /\ UNCHANGED <<vars, world, waited>>

-----------------------------------------------------------------------------
(* The environment. *)

\* The process dies wherever it is and starts again, perhaps from another
\* image.
MRestart(n) ==
    /\ n \in Crashing
    /\ Restart(n)
    /\ file' \in {[file EXCEPT ![n] = v] : v \in Version}
    /\ Goto(n, "boot") /\ waited' = waited \ {n}
    /\ UNCHANGED <<versioned, migrated>>

\* The rest of DB goes on underneath, on the nodes whose Start has not failed:
\* after that main returns.  A snapshot can be imported at any later time,
\* again and again, or never, which is its loss.
Underneath ==
    /\ \/ Tick
       \/ \E n \in Node : /\ pc[n] # "failed"
                         /\ \/ GetStateSnapshot(n) \/ CleanupExpired(n)
                            \/ \E m \in net : Import(n, m)
    /\ UNCHANGED <<world, pc, waited>>

RunMigrations(n) ==
    \/ TryLock(n) \/ Check(n) \/ Command(n) \/ UpdateVersion(n)
    \/ Release(n) \/ WaitForCompletion(n) \/ CancelWait(n)

MNext == Underneath \/ \E n \in Node : RunMigrations(n) \/ MRestart(n)

\* Time passes and the ticker of a waiting node ticks.  Nothing is assumed of
\* the node that has the lock: no timeout ends a hook or a command.
MSpec ==
    /\ MInit /\ [][MNext]_mvars
    /\ WF_mvars(Tick /\ UNCHANGED <<world, pc, waited>>)
    /\ \A n \in Node : WF_mvars(WaitForCompletion(n))

-----------------------------------------------------------------------------
(* Properties. *)

\* A version is recorded only after its migration has succeeded: no copy of
\* the version register, on a node or in flight, names another one.
VersionMeansMigrated ==
    \A e \in Copies(VersionKey) : e.val \in migrated

\* A node that took the lock and serves has its database migrated, by itself
\* or by the node whose version it was gossiped.  Two kinds of nodes are
\* exempt, because the code lets them serve an unmigrated database: those that
\* waited, and those that detect the version by version_query, which is read
\* as the empty string and equals the version that was never recorded.
ServesMigrated ==
    \A n \in Node \ waited :
        pc[n] = "serving" /\ versioned # "query" => file[n] \in migrated

\* No lock of another node has been gossiped.
OnlyLockSent(n) ==
    \A m \in net : m.entries[MigrationKey] # NoEntry => m.entries[MigrationKey].node = n

\* A migration lock that was released does not come back to the node that
\* released it, with late copies of that lock or of the locks it took before it
\* crashed, until its stamp is so old that cleanupExpired may have collected
\* the tombstone.  Locks of others are excepted: merged into the store they
\* replace the tombstone, and when they expire a late copy of the released
\* lock beats them.
ReleasedUntilCollected ==
    \A n \in Node \ waited :
        pc[n] = "serving" /\ OnlyLockSent(n) /\ HoldsLock(n) =>
            Wall(n) - store[n][MigrationKey].ts.p > LockRetention

\* ReleaseLock is final: the lock does not come back at all ("lock should be
\* released").  A tombstone is kept for 5 minutes and a migration lock lives
\* for 30, and the run with constants in that order violates it.
ReleasedStaysReleased ==
    \A n \in Node \ waited :
        pc[n] = "serving" /\ OnlyLockSent(n) => ~HoldsLock(n)

\* Whoever waits for the lock goes on in the end, even if the node that has
\* it hangs or dies: the lock runs out (within the bound on time).
WaitersProceed ==
    \A n \in Node :
        (pc[n] = "waiting") ~>
            \/ pc[n] # "waiting"
            \/ store[n][MigrationKey] # NoEntry /\ store[n][MigrationKey].exp > MaxTime + skew[n]
=============================================================================
