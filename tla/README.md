# phpcloud in TLA+

phpcloud is a Go process that sits in front of PHP-FPM in a container: an HTTP
gateway, an FPM supervisor, a replicated in-memory store for sessions, locks
and metadata, leader election over memberlist, a cron scheduler, migrations and
a SQL proxy. This directory models the parts of it in which state, time and
concurrency meet, checks them with TLC and proves the central results with
TLAPS. `PROJECT.json` lists the components, runs, mutants, findings, hazards
and theorems, and maps every definition to the lines it models.

## 1. Inventory

| Component (source) | State | Operations | What is hard | What makes it correct |
|---|---|---|---|---|
| HLC (`internal/hlc`) | `latest` per clock; the map of a `Context` | `Now`, `Update`, `Witness`, `GetClock`, `NowFor`, `UpdateFor` | wall clocks that drift or step back, stamps received late or twice | stamps agree with causality; a clock never goes back |
| CRDT entries (`internal/crdt`) | timestamp, node, tombstone, expiry | `Merge` of sessions, locks and registers | ties, expiry inside a merge | the order of merges does not matter |
| Store (`internal/db`) | three concurrent maps, the clock, the last gossip version | session, lock and metadata operations, snapshots, deltas, imports, cleanup | lost, duplicated and reordered gossip, restarts without persistence, tombstone collection | a local write wins; a stamp names one write; nothing newer is replaced by something older; deltas are complete; locks exclude |
| Sessions (`internal/session`), locks (`internal/lock`) | none of their own | thin layers over the store | session locks, lock lifetimes | exclusivity |
| FPM manager (`internal/fpm`) | `cmd`, `running`, a mutex, one monitor goroutine per process | `Start`, `Stop`, `Reload`, `IsRunning`, `monitor` | monitors that race with `Stop`, waits under the mutex | one process, supervised; `Stop` is final |
| Engine (`internal/bootstrap`, `cmd/phpcloud`) | `isLeader`, `isReady`, `cronMgr`, the components | `Start`, `Shutdown`, `Reload`, leadership watcher, signals | three threads without a lock, failure half way, exit during shutdown | order of start and stop, one scheduler, a graceful exit |
| Cluster (`internal/cluster`) | memberlist's view | `Start`, `Leave`, `IsLeader` | views that differ and change | one leader once views agree |
| Cron (`internal/cron`) | a scheduler, running jobs | `Start`, `Stop`, jobs | who starts it and who stops it; jobs that run while it is stopped | runs once, on the leader; no job outlives its `Stop` |
| Migrations (`internal/migration`) | lock and version in the store | `Run`, `WaitForCompletion` | a lock that expires, a migration that fails while others wait | a version is recorded only once it is migrated; who took the lock serves a migrated schema, `version_query` excepted; a released lock stays released as long as its tombstone is kept; waiters go on |
| SQL proxy (`internal/sqlproxy`) | migration state, connections, two wait groups | `handleConnection`, `StartMigration`, `EndMigration`, `Stop` | state changes between the packets of a connection, shutdown order | at most the write already checked passes once read-only; half-closed connections end; `Stop` returns and leaves nothing |
| Gateway (`internal/gateway`) | the HTTP server and its requests | `Start`, `Stop`, `servePHP` | `IsRunning` is asked before the request is forwarded; the drain has a time limit | FPM is stopped after the gateway, with no request left unless the drain ran out of time; requests get the mutex; shutdown ends |
| Metrics, configuration | none that changes after start | counters, loading | none concurrent | - |

The parts meet as follows. `main` runs `Engine.Start` in a goroutine and waits
for signals. The engine starts the store, the proxy, the cluster, migrations,
sessions, FPM, cron, metrics and the gateway in that order, and stops most of
them in another. `watchLeadership` polls the cluster and starts or stops cron.
Sessions, locks and migrations are clients of the store. The store's snapshots
and deltas are written to be gossiped, but `cluster.Broadcast` is a placeholder
and nothing calls them: today every node's store is alone.

## 2. Modules

| Module | Models | Notes |
|---|---|---|
| `HLC` | the clock's functions | pure operators `ClockNow`, `ClockUpdate`, `ClockWitness` with the code's branches |
| `HLCClocks` | nodes that stamp and exchange events | vector clocks as history, the reference for "happened before" |
| `CRDT` | entries and merges | one record for sessions, locks and registers |
| `DB` | the store on every node, sessions, locks, gossip | composes `HLC` and `CRDT`; methods are atomic |
| `Lease` | what `internal/lock` promises on one node | abstract; `DB` is shown to implement it |
| `StoreRaces` | goroutines of one node inside the methods of the store | the load, decide and store steps that `DB` takes as one |
| `Migration` | migrations at the start of every node | on top of `DB`: its locks, its metadata, its gossip |
| `SQLProxy` | accept loop, connections, read-only state, `Stop` | goroutine by goroutine |
| `FPM` | the FPM manager and its monitors | mutex, processes, goroutines |
| `Gateway` | the HTTP server and PHP requests | on top of `FPM`, in the engine's order |
| `Engine` | one process: main, engine, watcher, schedulers, jobs | configuration chosen in `Init` |
| `HLCProofs`, `HLCClocksProofs`, `DBProofs`, `StoreRacesProofs`, `MigrationProofs`, `SQLProxyProofs`, `GatewayProofs`, `EngineProofs` | theorems | see section 5; `GatewayProofs` also proves what `FPM` promises |
| `MC_HLC`, `MC_DB`, `MC_Migration` | symmetry, and the lifetimes of the two nodes' locks, for TLC | the others need nothing and are run directly |

How state corresponds to the code:

- `HLC`, `HLCClocks`: a stamp `[p, l]` is `Timestamp{Physical, Logical}`;
  `clocks[n]` is `latest` of node n's clock in a `Context`; `Wall(n)` is
  `time.Now()` on node n, true time plus a skew. In `HLCClocks` the skew steps
  both ways; in `DB` it is chosen once.
- `DB`: `store[n][k]` is the entry of key k in the map it belongs to,
  `NoEntry` when absent; `clock`, `gossipVersion` are the fields of the same
  names. Each exported method is one action, with all its calls: `LockSession`
  takes two or four stamps, as the code does, and an `AcquireLock` that is
  refused has still taken one. `GetSession` is an action because looking at an
  expired session removes it. `net` holds serialised snapshots and deltas; the
  transport does not exist in the code, so the model allows any: loss,
  duplication (a message stays until it is lost), delay, reordering, and a
  message that comes back to its sender, perhaps after a restart.
  `Restart` is a process that dies and comes back with the same name and
  nothing else. Two steps can take a clock back when the wall clock lags behind
  it: `Update` inside an import, and the `New` of a restart. The constant
  `LagAllowed` says whether these steps happen; the wall clocks may differ either
  way. `change` and `grants` are history.
- `FPM`: `lock` is `m.mu`; `Start`, `Stop` and `Reload` hold it while they wait,
  so each is two steps. `mon[p]` is the monitor launched for process p; that it
  reads `m.cmd` without the lock, after it was launched, is a step of its own.
- `Lease`: the refinement maps the lease of a key to its lock when the lock is
  neither released nor expired (`LeaseOf`), and the abstract clock to the wall
  clock. Leases end with the step of time that ends them, so that an expired
  lock, a released one, one that was collected and one that never was all map to
  no lease.
- `StoreRaces`: locks are shared objects that `ReleaseLock` changes in place, so
  `heap` holds them and goroutines hold pointers; registers are never changed in
  place and are values. `LoadOrStore`, `IsDeleted`, `Store`, the two assignments
  of `Release` and the two steps of `cleanupExpired` are separate steps. A moment is quiet when nobody is inside
  a method; history variables describe the burst since the last quiet moment.
- `Migration`: `pc[n]` is where `runMigrations` is on node n; `LockTimeout[n]` is
  the lifetime its configuration gives the lock; `file[n]` is its
  version file, `migrated` the versions whose migration command has succeeded in
  the database behind the application, `waited` the nodes that found the lock
  taken. Hooks and the command may fail or hang. The pre-hooks belong to the step
  of the command and the post-hooks to that of the version: nothing they do is
  visible to another node.
- `SQLProxy`: `handler`, `up` and `down` are the three goroutines of a
  connection, `open` the sockets on our side, `gone` the peers that hung up. What
  a `Read` returns is a packet of one of three kinds. Between the check of a
  packet and its `Write` the state may change, which is why these are two steps.
- `Gateway`: `req[r]` is where the goroutine of request r is, `via[r]` the
  process that took it. The guard of `EngineStop` is the order of
  `Engine.Shutdown`; `gaveUp` says that the drain ran out of time and requests
  are still under way. A gateway whose `ListenAndServe` failed is deaf, and the
  engine does not know.
- `Engine`: `phase` and `step` are where the goroutine of `Start` is; `watch` is
  where `watchLeadership` is inside its handlers; `cronMgr` is the pointer and
  `crons` the schedulers that really run. A check of `e.cronMgr` and its use are
  separate steps wherever another thread can come between. `busy` are the
  schedulers with a running job; `cron.Stop` ends the scheduling in one step and
  returns in another, when its jobs have ended. `up` are the components that
  run, `left` those of them that outlive their `Stop`: the `Stop`s of gateway,
  proxy and metrics give up after their limit, and an FPM that was stopped can be
  started again by its monitor. `Leave` ends the membership and leaves
  memberlist's sockets open, which `up` does not count. `view` is memberlist's, external,
  and changes at any time.

## 3. Runs

Passing runs:

| Run | Question | Distinct states |
|---|---|---|
| `hlc` | do stamps respect causality, with wall clocks that drift and step back? | 858 thousand |
| `db_session` | sessions under any gossip, on nodes whose wall clocks differ: save, lock, delete, expiry, collection, restarts, as long as no clock is taken back | 864 thousand |
| `db_wired` | a store as it is wired today, without gossip: are its locks leases? | 1.2 million |
| `races` | what is left of that when goroutines interleave inside the methods? | 1.8 million |
| `migration` | two nodes migrate at start: locks that run out or outlive their tombstones, failing hooks, crashes, late gossip, waiters | 1.2 million |
| `sqlproxy` | two connections while the proxy becomes read-only and back, peers hang up, and `Stop` waits | 390 thousand |
| `gateway` | requests through the gateway to FPM: crashes, monitors, reload, drain, stop | 6 thousand |
| `engine` | one process under every configuration, with leadership that moves and cron jobs that run | 238 thousand |

Properties, in one line each (the modules state them in full):

- `CausalOrder`, `ClockCoversPast`, `ClockMonotone`: what happened before
  carries the smaller stamp; a clock covers all it has heard of; it never goes
  back.
- `StampsIdentifyWrites`: no two writes share timestamp and node, across
  restarts, as long as no clock is taken back. Merge's tie-breaker rests on it.
- `LocalWriteWins`: the next local stamp exceeds everything in the store, so that a
  local write is not dropped by its own merge, as long as no clock is taken back;
  `db_lag` shows the write that is dropped otherwise.
- `MergeOrderIrrelevant`: merging is commutative, associative and idempotent on
  the copies of sessions and registers that exist, in stores and in flight. Locks
  are left out: their merge reads the wall clock.
- `DeltaHasLocalWrites`, `StoreMonotone`: deltas hold every local write since
  the snapshot; nothing is replaced by something older, except that a lock that
  has run out gives way to one that has not.
- `ImplementsLease`, `NodeMutualExclusion`: without gossip the locks of a node
  are leases, which only their holder, their expiry or the end of the process
  ends; no key has two at a time.
- `SettledLockStays`, `OneGrantOfNewLock`, `BurstsAdvance`: races are confined to
  their burst. A lock held at a quiet moment stays untouched until it expires or
  its holder releases it; goroutines that race for a key that is not in the map
  exclude each other; a burst of `SetMeta` leaves a value of the burst.
- `VersionMeansMigrated`, `ServesMigrated`: no copy of the version register,
  anywhere, names a version whose migration has not succeeded; a node that took
  the lock and serves has a migrated database. Two kinds of nodes are exempt from
  the second, because the code lets them serve an unmigrated database: nodes that
  waited, and nodes that detect their version by `version_query`
  (`internal/migration/migration.go:110-130`).
- `ReleasedUntilCollected`: a released migration lock does not come back to its
  node with late copies of its own locks before they are so old that
  `cleanupExpired` may have collected the tombstone; copies of another node's lock
  are excepted, see the list below. That it does not come back at all
  (`ReleasedStaysReleased`) is false, as `migration_retention` shows.
- `WaitersProceed`: whoever waits for the migration goes on, even if the node
  that migrates hangs or dies.
- `AtMostOneLateWrite`: once the proxy is read-only each connection gets at most
  the one write through that it had already checked.
- `CleanStop`, `StopReturns`, `ConnectionsEnd`: a `Stop` that did not time out
  leaves no goroutine and no socket; `Stop` returns; when one peer hangs up, the
  handler and both directions end.
- `OneProcess`, `Supervised`: at most one FPM, known to the manager, with exactly
  one monitor.
- `DrainedBeforeStop`, `RequestsGetThrough`, `ShutdownEnds`: when the engine stops
  FPM the gateway has stopped, and no request is under way unless the drain ran out
  of time; no request waits for the mutex for ever;
  shutdown ends even if PHP never answers.
- `TrafficHasBackends`, `FailedStartLeavesNoChild`: while the gateway accepts
  requests, or says it is ready, its backends run; a `Start` that fails leaves no
  FPM.
- `ShutdownIsComplete`: when `Shutdown` returns nothing runs but what a `Stop` gave
  up waiting for and an FPM that its monitor has started again; without leader-only
  cron no scheduler and no job either.
- `LeaderHasScheduler`, `AtMostOneLeak`, `LeadershipConverges`: a serving leader
  that has handled the change runs a scheduler; at most one scheduler runs that
  nobody points to; the engine settles on what memberlist says.
- `JobsAreWaitedFor`, `ShutdownCompletes`: no job outlives the `Stop` of its
  scheduler; a shutdown ends although a leaked scheduler goes on starting jobs.

Runs that find a disagreement between the code and its own words (details in
`PROJECT.json`, findings):

| Run | Shows |
|---|---|
| `db_lag` | `Update` takes the clock of a node whose wall clock lags behind it back, by applying one message twice, and the node's next write is dropped by its own merge |
| `fpm_stop` | FPM exits by itself, `Stop` finds it not running and returns, and the monitor starts it again |
| `engine_exit` | the process exits on SIGTERM before `Shutdown` has run |
| `migration_retention` | a released lock comes back with a late snapshot once its tombstone has been collected: tombstones are kept for 5 minutes, migration locks live for 30 |

Also met while modelling. Each is a step or a reachable state of the module named,
unless marked otherwise, and has no run of its own.

Store:

- a node that restarts while its wall clock lags behind its HLC can issue a stamp
  twice, without any fault of `Update`: it imports version [3,1], which leaves its
  clock at [3,2], and writes at [3,3]; it restarts, imports the same message and
  writes something else at [3,3] (`internal/hlc/hlc.go:65`, `internal/db/db.go:482`).
  `StampsIdentifyWrites` of `DB` fails with `LagAllowed`, and so does the tie-breaker
  of `Merge`;
- two nodes that merge the same copies of a lock at different times can keep
  different ones, because the merge asks which of them has expired
  (`internal/crdt/crdt.go:151-156`): `DB`, which is why `MergeOrderIrrelevant` leaves
  locks out;
- `GetDeltaSince` leaves out what was merged after a snapshot but written before
  it (`internal/db/db.go:450`, against line 443, "returns changes since a given
  version"): `DB`, three nodes;
- saving a deleted session brings it back: the merge prefers the newer stamp
  (`internal/db/db.go:168`, against the comment at line 155);
- `LockSession` takes the lock from its holder (`internal/session/session.go:111`,
  against line 102);
- two nodes can hold one lock (`internal/lock/lock.go:37`): inherent in a store
  that prefers availability, but the comment promises more;
- two goroutines that find a freed lock still in the map both get it; an older
  `SetMeta` can be stored last; `ReleaseLock` can store its tombstone over a lock
  acquired in between; `cleanupExpired` deletes by key what it did not check
  (`StoreRaces`, inside one burst).

Migrations:

- nodes whose stores are alone, as they are today, all migrate
  (`internal/e2e/e2e_test.go:158` tests two engines that share one store);
- when the migration fails, waiting nodes find the lock free, log "Migration lock
  released, migration complete" (`internal/migration/migration.go:101`) and serve;
- with `version_query` and no version file both versions are the empty string and
  nothing is ever migrated (`internal/migration/migration.go:110-130`);
- a released lock can come back whatever the retention: its tombstone gives way to
  a newer lock of another node, and when that one expires a late copy of the
  released lock, which has not expired, beats it in `Merge`
  (`internal/crdt/crdt.go:150-153`): `Migration`. `ReleasedUntilCollected`
  therefore excepts it.

SQL proxy, gateway, FPM:

- nothing calls `StartMigration`, so that the "Migration-aware read-only mode"
  of the repository's `README.md:11` is never entered (not in `SQLProxy`, which
  lets it be called at any time);
- a write that is split over two reads, or executed as a prepared statement,
  passes while read-only (`internal/sqlproxy/proxy.go:165`, `200`);
- `Stop` of the proxy does not close idle connections and then takes its 30
  seconds;
- the FastCGI parameters that `servePHP` builds, the session among them, are not
  passed to the handler (`internal/gateway/gateway.go:202-213`; not in `Gateway`);
- a gateway that cannot listen is reported as ready
  (`internal/gateway/gateway.go:77-80`);
- `IsRunning` stays true when a spawned FPM never became ready
  (`internal/fpm/manager.go:92`, against line 181);
- a manager started again within two seconds of `Stop` gets a second FPM from
  the old monitor (`internal/fpm/manager.go:271`); the engine never does this, nor
  does `FPM`.

Engine and cron:

- FPM can be started again by its monitor while `Shutdown` goes on or after it has
  returned (`internal/fpm/manager.go:277-279`, `internal/bootstrap/bootstrap.go:163-169`):
  `fpm_stop` shows it on the manager, `MonitorRestartsFPM` is the step of `Engine`;
- `Leave` ends the membership without `memberlist.Shutdown`, so that its sockets and
  goroutines last as long as the process (not in `Engine`);
- with leader-only cron, the leader runs two schedulers: `initCluster` has
  started one when `initCronManager` starts another and overwrites the pointer
  (`internal/bootstrap/bootstrap.go:387`, against line 93), so that every job
  runs twice and the first cannot be stopped; `AtMostOneLeak` bounds it;
- `Shutdown` can dereference a nil `cronMgr` when the watcher clears it between
  the check and the use (`internal/bootstrap/bootstrap.go:150-152`; the panicking
  step is in `Engine`);
- without a cluster nobody is leader, so leader-only cron, the default, never
  runs on a single node (`internal/bootstrap/bootstrap.go:262` and `440`);
- an HTTP job requests a bare path such as `/cron.php` (`profiles/nextcloud.yaml:28`),
  which no HTTP client accepts as a URL (`internal/cron/cron.go:97`; not in
  `Engine`, in which a job only starts and ends);
- a command whose children keep its output open is not ended by its time limit
  (`internal/cron/cron.go:145`; `JobEnds` assumes that none do).

## 4. Bounds, fairness, deadlock

- `HLCClocks`: two nodes, four events, one tick, a skew of up to two that steps
  both ways.
  Four events are enough for a message, a reply and a local event on each side.
- `DB`: keys do not interact, so that one per map is enough. `db_session`: two
  nodes whose wall clocks are up to one tick apart, one session, one message in
  flight, two ticks and a logical part of up to two; a session lives until the end
  of its tick and its tombstone is collected in the next, so that expiry, collection,
  a second import of a message and a restart all happen. `db_wired`: one node with a session, a
  lock and a register, four ticks and a logical part of up to three, so that
  `LockSession` can take its four stamps in one tick. `db_lag`: two nodes a tick
  apart, one register, two messages. `MaxTime`, `MaxLogical` and `MaxMsgs` are guards
  of the actions, and `LagAllowed` of the two steps above; nothing else is cut.
- `StoreRaces`: two goroutines and the cleanup, three ticks, one key. A
  behaviour works on the lock or on the register: the maps share only the clock.
- `Migration`: two nodes, of which one crashes, one version, four ticks, wall clocks
  that agree. The lock of the node that crashes lives for four ticks, that of the
  other for two, and tombstones are kept for one: a lock can outlive its tombstone,
  as in the program, and can run out under its holder, be taken by the other node and
  come back with gossip. One snapshot exists, of either node, which can be imported at
  any time, again, and by its sender.
- `SQLProxy`: two connections; `late` counts to two, one more than allowed.
- `FPM`, `Gateway`: three processes that the manager spawns and one that is not
  its own; two requests at a time.
- `Engine`: no bound. Schedulers are named from a set of four and names are used
  again; `AtMostOneLeak` shows that two run at most. Every configuration of proxy,
  cluster, FPM, cron and metrics is an initial state; the session manager and the
  migrator, which keep nothing running, are always enabled.
- Deadlock is not checked: the runs of `HLCClocks`, `DB`, `StoreRaces` and
  `Migration` stop at their bounds, and a proxy, an FPM or a process really ends.
- Fairness. `Gateway`, with `FPM` under it: the waits of `Start`, `Stop`, `Reload`
  and of the drain end because each has a 30 second limit in the code (weak
  fairness), and whoever waits for the mutex gets it in the end, as Go's mutexes
  guarantee (strong fairness); nothing makes PHP answer. `SQLProxy`: goroutines
  run, and a peer reads what it is sent or hangs up, since the sockets have no
  deadlines; nothing makes a peer say anything. `Migration`: time passes and the
  ticker of a waiting node ticks; nothing is assumed of the node that migrates.
  `Engine`: goroutines are scheduled, the ticker ticks, and jobs end, which have
  limits of five and ten minutes (weak fairness); nothing is assumed of signals,
  of memberlist or of `Exit`. All other properties are safety properties and
  assume nothing.
- Symmetry: the nodes of `hlc` and the values of `db_wired` are interchangeable.
  The nodes of `DB` are not (the tie-breaker orders them), and no run that checks
  liveness declares a symmetry.

## 5. Proofs

Every safety property of the passing runs is also a theorem, proved by TLAPS for every value
of the constants that satisfies the `ASSUME`s of the modules: any nodes,
keys, values, messages, connections, requests, processes and goroutines, and any
of the bounds of section 4. The `ASSUME`s are about the constants of the models
(numbers are natural, names are distinct); what an individual theorem assumes of
the world is a hypothesis of the theorem:

| Hypothesis | Means | Used by | Why it is needed |
|---|---|---|---|
| `Sound` | the wall clocks agree, or they differ and no clock is taken back: no node applies a message or restarts while its wall clock lags behind its HLC in a way that would | `StampsRespectCausality`, `ClocksCoverPast`, `ClocksAreMonotone`, the replication theorems of `DBProofs`, `ReleasedLocksStay` | `db_lag` is the counterexample |
| `Wired` | `MaxMsgs = 0`: no gossip, as in the program today | `NodesExclude`, `StoreImplementsLease` | with gossip two nodes get one lock |

The code does not establish `Sound`: its package comment says that clocks need not
be synchronised, which `db_lag` refutes. The theorems say that this is the only
way in which they can fail: with wall clocks any distance apart and any
gossip, they hold as long as no clock goes back.

All other theorems hold without hypothesis; in particular what is proved of
versions, of the races inside a store, of the proxy, of FPM and of the engine
does not depend on clocks.

The argument is the same everywhere: an invariant `IInv` that the initial
states satisfy, every action preserves (one lemma per action or thread) and from
which the property follows. What each one adds to its properties, and why:

- `HLCProofs`: the order on stamps, and that `Now`, `Update` and `Witness`
  exceed or cover what they start from (`Update` under the condition that the
  clock is not ahead of the wall clock).
- `HLCClocksProofs` (`StampsRespectCausality`, `ClocksCoverPast`,
  `ClocksAreMonotone`, and without `Sound` `TypeCorrect`): with wall
  clocks that agree no stamp is ahead of them (so that `Update` does not go back),
  and nobody counts more events of a node than the node itself (so that a new
  event is in nobody's past).
- `DBProofs`, replication (`TypeCorrect`, `WritesAreIdentified`,
  `LocalWritesWin`, `DeltasHoldLocalWrites`, `StoresAreMonotone`,
  `MergeIsOrderIndependent`): with wall clocks that agree nothing is ahead of them
  (`OnTime`), and otherwise no step takes a clock back; versions cover entries; every copy anywhere is covered by the clock of
  its writer, which a restart keeps only because time has passed; what was
  written since a snapshot is newer than it; stamps identify writes. `WriteStep`
  does what all local writes share.
- `DBProofs`, leases (`NodesExclude`, `StoreImplementsLease`): a grant whose time
  is not over is what the store says. From it every operation on a lock maps to
  an operation of `Lease` or to a stutter: a lock that is stored, refused,
  replaced, released, expired, collected or lost with its process. The
  theorem is the whole refinement, initial states and every step.
- `StoreRacesProofs` (`HeldLocksSettle`, `NewLocksExclude`,
  `MetaBurstsAdvance`): a lock that is not in the map yet is known to its
  goroutine alone; the holder of the last quiet lock is not in `ReleaseLock`, or
  the history variable would have let go of that lock; while that lock lasts everybody inside
  `AcquireLock` and `ReleaseLock` has seen it or nothing, and nobody is past the
  check; in a burst that found no lock either nothing is granted or everybody has
  seen the one grant; registers of a burst are newer than those from before it.
  The lemma `FreshIsUnused` counts the pointers: the model's heap is never full,
  so its size is no bound on the program.
- `MigrationProofs`: `MigrationsUseTheStore` first, that migrations are a
  behaviour of `DB`, so that the theorems about `DB` apply. `RecordedIsMigrated` and
  `ServersAreMigrated` need what `runMigrations` knows at each of its steps and,
  of the store, only its shape: they hold under any clocks. `ReleasedLocksStay`
  needs that the locks a node has written have all run out or its store has the
  last of them until the migration is over, and that afterwards they are all past,
  run out or older than tombstones are kept, or its store has the tombstone. It
  assumes nothing of the lifetimes of locks. A node that restarts
  with an empty store does not break this: it waits if it hears of its old lock
  first, and writes a newer one, which lasts longer, if not.
- `SQLProxyProofs` (`TypeCorrect`, `LateWritesBounded`, `StopIsClean`): a
  connection that has sent a late write has no other past the check; every open
  socket belongs to the accept loop or to a handler that will close it; each of
  the waits of `Stop` leaves what it waited for.
- `GatewayProofs`: `GatewayImplementsFPM`, that the gateway leaves the manager a
  behaviour of `FPM`; for the manager (`OneFPM`, `FPMIsSupervised`), that whoever
  holds the mutex is in the step that holds it, that there is one monitor at a
  time, that only the process of `m.cmd` can be alive, and that a waiting monitor
  waits for that one; for the server (`DrainIsFinal`, `GatewayTypeCorrect`), that
  a server that has stopped has no request unless the drain gave up, and that
  whoever stops FPM for the engine found the server stopped.
- `EngineProofs` (`TypeCorrect`, `BackendsBeforeTraffic`,
  `FailedStartIsChildless`, `ShutdownStopsAll`, `LeaderIsServed`,
  `LeakIsBounded`, `JobsAccountedFor`): which components run at which step of
  `Start` and `Shutdown`, in every configuration, and that what runs after its step of
  `Shutdown` is in `left`; which of the watcher's steps are
  possible before the cluster has started and without leader-only cron; that at
  most one scheduler is not pointed to and no assignment under way can lose
  another; that the pointer leads to a running scheduler except inside
  `onLeadershipLost`. `SchedulersSuffice` shows that the four identities of
  schedulers exclude no step of the program.

Only model-checked: liveness under fairness (`WaitersProceed`, `ConnectionsEnd`,
`StopReturns`, `RequestsGetThrough`, `ShutdownEnds`, `LeadershipConverges`,
`ShutdownCompletes`), which is out of the prover's reach, and the four runs that
end in a violation.

## 6. Not modelled, and the plan

Left out for good: the text of configurations and logs, cookies and FastCGI
parameters, static files and internal endpoints, what cron jobs do, Prometheus
counters, JSON encodings of stamps, the bytes of MySQL packets. Configuration is
loaded once, from files and the environment, before anything else runs: its
switches and lifetimes are constants and initial states of the other modules.
`cluster.Broadcast` and the transport of gossip are not written in the code;
memberlist, gofast and robfig/cron are libraries, modelled by how they are used.

Left for later, in this order:

1. The session methods step by step, next to locks and registers in `StoreRaces`:
   sessions are shared objects that callers also change outside the store.
2. Several engines with their views in one module: one leader once views agree.
3. Theorems about what `DB` promises of locks with gossip, short of exclusion: for
   instance that replicas with the same copies grant alike once all but one of them
   have expired.
