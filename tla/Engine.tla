------------------------------- MODULE Engine -------------------------------
(***************************************************************************)
(* One phpcloud process: main's signal loop, bootstrap.Engine's Start and  *)
(* Shutdown, the watchLeadership goroutine, and the cron schedulers they   *)
(* start and stop.  Three threads share e.isLeader and e.cronMgr without a *)
(* lock: main, the goroutine that runs Start, and the watcher.             *)
(*                                                                         *)
(* view is memberlist's Members() on this node.  memberlist is external:   *)
(* other members come and go at any time, this node itself only goes by    *)
(* Leave.  Names are numbers, compared as IsLeader compares strings.       *)
(*                                                                         *)
(* crons holds the schedulers that run, cronMgr the one e.cronMgr points   *)
(* to, and busy the schedulers some job of which is running: an HTTP       *)
(* request or a command, with a time limit of five or ten minutes.  Stop   *)
(* ends the scheduling and then waits for the jobs; stopOf and lostOf are  *)
(* the schedulers that Shutdown and the watcher wait for.  up holds the    *)
(* other components something of which runs: the session manager and the   *)
(* migrator keep nothing running, and cluster is the membership, which     *)
(* Leave ends without closing memberlist's sockets.  left holds those of   *)
(* them that run although Shutdown has called their Stop: requests and     *)
(* connections a Stop has not waited for any longer, and an FPM that its   *)
(* monitor has started again.                                              *)
(***************************************************************************)
EXTENDS Integers, Sequences, FiniteSets

CONSTANTS Self,        \* this node's name
          Peer,        \* the names of other members
          Always,      \* components every configuration enables
          Maybe,       \* components a configuration may enable
          LeaderOnly   \* the values of config.Cron.LeaderOnly

StartOrder == <<"db", "proxy", "cluster", "migration", "session", "fpm", "cron", "metrics", "gateway">>

\* Faulty variant of StopOrder, for the mutation runs.
StopOrderWithoutMetrics == <<"gateway", "cron", "cluster", "fpm", "proxy", "db">>

StopOrder == <<"gateway", "cron", "cluster", "fpm", "proxy", "db", "metrics">>

Component == {StartOrder[i] : i \in 1 .. Len(StartOrder)}

\* The components whose field of Engine is something that runs.
Runs == {"db", "proxy", "cluster", "fpm", "metrics", "gateway"}

\* The components whose Stop waits for requests or connections, for 30, 30 and
\* 5 seconds, and then returns without them.
Limited == {"gateway", "proxy", "metrics"}

\* The init functions that can return an error.
Fallible == {"proxy", "cluster", "migration", "fpm"}

ASSUME NameAssumption == Self \in Nat /\ Peer \subseteq Nat /\ Self \notin Peer
ASSUME ConfigAssumption ==
    Always \subseteq Component /\ Maybe \subseteq Component /\ LeaderOnly \subseteq BOOLEAN

\* Identities for schedulers; 0 is the nil of e.cronMgr.
Scheduler == 1 .. 4

VARIABLES enabled, leaderOnly,        \* the configuration
          phase, step,                \* where the goroutine of Start is
          up, left, isReady,
          view, isLeader, watch,      \* watch: where watchLeadership is
          cronMgr, crons, busy, stopOf, lostOf,
          cancelled, main             \* ctx, and where main's loop is

config == <<enabled, leaderOnly>>
engine == <<phase, step, up, left, isReady>>
leadership == <<view, isLeader, watch>>
jobs == <<busy, stopOf, lostOf>>
cron == <<cronMgr, crons, jobs>>
process == <<cancelled, main>>
vars == <<config, engine, leadership, cron, process>>

TypeOK ==
    /\ enabled \subseteq Component /\ leaderOnly \in BOOLEAN
    /\ phase \in {"starting", "startCron", "serving", "stopping", "stopCron", "drainCron",
                 "stopped", "failed"}
    /\ step \in 1 .. Len(StartOrder) + 1
    /\ up \subseteq Runs /\ left \subseteq Runs
    /\ isReady \in BOOLEAN
    /\ view \subseteq Peer \cup {Self}
    /\ isLeader \in BOOLEAN
    /\ watch \in {"off", "idle", "acquired", "starting", "lost", "stopping", "draining", "clearing"}
    /\ cronMgr \in Scheduler \cup {0}
    /\ crons \subseteq Scheduler /\ busy \subseteq Scheduler
    /\ stopOf \in Scheduler \cup {0} /\ lostOf \in Scheduler \cup {0}
    /\ cancelled \in BOOLEAN
    /\ main \in {"waiting", "returning", "exited", "panicked"}

Init ==
    /\ enabled \in {Always \cup S \cup {"db", "gateway"} : S \in SUBSET Maybe}
    /\ leaderOnly \in LeaderOnly
    /\ phase = "starting" /\ step = 1
    /\ up = {} /\ left = {} /\ isReady = FALSE
    /\ view = {} /\ isLeader = FALSE /\ watch = "off"
    /\ cronMgr = 0 /\ crons = {} /\ busy = {} /\ stopOf = 0 /\ lostOf = 0
    /\ cancelled = FALSE /\ main = "waiting"

Alive == main \in {"waiting", "returning"}

\* cluster.IsLeader: alone, or first among the members by name.
IsLeader(members) ==
    members = {} \/ (Self \in members /\ \A m \in members : Self <= m)

\* cluster.Start: this node and whoever it could join.
Joined == {{Self} \cup P : P \in SUBSET Peer}

LeaderCron == "cron" \in enabled /\ leaderOnly

\* cron.New and Start, and the assignment to e.cronMgr.
StartScheduler ==
    LET unused == Scheduler \ (crons \cup busy \cup {cronMgr, stopOf, lostOf})
    IN  \E s \in unused :
            /\ \A r \in unused : s <= r
            /\ crons' = crons \cup {s}
            /\ cronMgr' = s
            /\ UNCHANGED jobs

\* Every goroutine ends where it is.  The FPM subprocess is another process
\* and stays.
ProcessDies == up' = up \cap {"fpm"} /\ crons' = {} /\ busy' = {}

-----------------------------------------------------------------------------
(* Start: one init function after the other. *)

Starting(c) == Alive /\ phase = "starting" /\ step <= Len(StartOrder) /\ StartOrder[step] = c

InitComponent ==
    /\ \E c \in Component \ {"cluster", "cron"} :
        /\ Starting(c)
        /\ up' = up \cup ({c} \cap enabled \cap Runs)
    /\ step' = step + 1
    /\ UNCHANGED <<config, phase, left, isReady, leadership, cron, process>>

\* Faulty variant of InitFails, for the mutation runs.
InitFailsAnywhere ==
    /\ \E c \in enabled : Starting(c)
    /\ phase' = "failed"
    /\ UNCHANGED <<config, step, up, left, isReady, leadership, cron, process>>

\* Start returns the error of an init function and stops nothing.
InitFails ==
    /\ \E c \in enabled \cap Fallible : Starting(c)
    /\ phase' = "failed"
    /\ UNCHANGED <<config, step, up, left, isReady, leadership, cron, process>>

\* initCluster: join whoever is there (or nobody), check leadership, and
\* only then start the watcher.
InitCluster ==
    /\ Starting("cluster")
    /\ step' = step + 1
    /\ IF "cluster" \notin enabled THEN UNCHANGED <<up, leadership, cron>>
       ELSE /\ up' = up \cup {"cluster"}
            /\ view' \in Joined
            /\ isLeader' = IsLeader(view')
            /\ watch' = "idle"
            /\ IF isLeader' /\ LeaderCron THEN StartScheduler ELSE UNCHANGED cron
    /\ UNCHANGED <<config, phase, left, isReady, process>>

InitCronManager ==
    /\ Starting("cron")
    /\ IF "cron" \in enabled /\ (leaderOnly => isLeader)
         THEN phase' = "startCron" /\ UNCHANGED step
         ELSE step' = step + 1 /\ UNCHANGED phase
    /\ UNCHANGED <<config, up, left, isReady, leadership, cron, process>>

InitCronManagerStarts ==
    /\ Alive /\ phase = "startCron"
    /\ StartScheduler
    /\ phase' = "starting" /\ step' = step + 1
    /\ UNCHANGED <<config, up, left, isReady, leadership, process>>

\* Faulty variant of Ready, for the mutation runs.
ReadyOvershoots ==
    /\ Alive /\ phase = "starting" /\ step > Len(StartOrder)
    /\ phase' = "serving" /\ isReady' = TRUE /\ step' = step + 1
    /\ UNCHANGED <<config, up, left, leadership, cron, process>>

Ready ==
    /\ Alive /\ phase = "starting" /\ step > Len(StartOrder)
    /\ phase' = "serving" /\ isReady' = TRUE
    /\ UNCHANGED <<config, step, up, left, leadership, cron, process>>

-----------------------------------------------------------------------------
(* Shutdown, by the goroutine of Start once ctx is cancelled.  shutdownCh  *)
(* is never closed.                                                        *)

\* Faulty variant of Shutdown, for the mutation runs.
ShutdownStaysReady ==
    /\ Alive /\ phase = "serving" /\ cancelled
    /\ phase' = "stopping" /\ step' = 1
    /\ UNCHANGED <<config, up, left, isReady, leadership, cron, process>>

Shutdown ==
    /\ Alive /\ phase = "serving" /\ cancelled
    /\ phase' = "stopping" /\ step' = 1 /\ isReady' = FALSE
    /\ UNCHANGED <<config, up, left, leadership, cron, process>>

Stopping(c) == Alive /\ phase = "stopping" /\ step <= Len(StopOrder) /\ StopOrder[step] = c

\* Errors of a Stop are logged, that it ran out of time among them.
StopComponent ==
    /\ \E c \in Runs :
        /\ Stopping(c)
        /\ \/ up' = up \ {c} /\ UNCHANGED left
           \/ c \in up \cap Limited /\ left' = left \cup {c} /\ UNCHANGED up
        /\ view' = IF c = "cluster" THEN view \ {Self} ELSE view
    /\ step' = step + 1
    /\ UNCHANGED <<config, phase, isReady, isLeader, watch, cron, process>>

\* e.cronMgr is read for the nil check, and read again for the call.
StopCron ==
    /\ Stopping("cron")
    /\ IF cronMgr # 0 THEN phase' = "stopCron" /\ UNCHANGED step
                      ELSE step' = step + 1 /\ UNCHANGED phase
    /\ UNCHANGED <<config, up, left, isReady, leadership, cron, process>>

\* cron.Stop: the scheduler starts no more jobs.
StopCronStops ==
    /\ Alive /\ phase = "stopCron"
    /\ IF cronMgr = 0
         THEN main' = "panicked" /\ ProcessDies /\ UNCHANGED <<phase, stopOf>>
         ELSE /\ crons' = crons \ {cronMgr} /\ stopOf' = cronMgr
              /\ phase' = "drainCron" /\ UNCHANGED <<up, busy, main>>
    /\ UNCHANGED <<config, step, left, isReady, leadership, cronMgr, lostOf, cancelled>>

\* Faulty variant of StopCronReturns, for the mutation runs.
StopCronReturnsAtOnce ==
    /\ Alive /\ phase = "drainCron"
    /\ phase' = "stopping" /\ step' = step + 1 /\ stopOf' = 0
    /\ UNCHANGED <<config, up, left, isReady, leadership, cronMgr, crons, busy, lostOf, process>>

\* Faulty variant of StopCronReturns, for the mutation runs.
StopCronWaitsForAll ==
    /\ Alive /\ phase = "drainCron" /\ busy = {}
    /\ phase' = "stopping" /\ step' = step + 1 /\ stopOf' = 0
    /\ UNCHANGED <<config, up, left, isReady, leadership, cronMgr, crons, busy, lostOf, process>>

\* cron.Stop returns when the jobs that were running have ended.
StopCronReturns ==
    /\ Alive /\ phase = "drainCron" /\ stopOf \notin busy
    /\ phase' = "stopping" /\ step' = step + 1 /\ stopOf' = 0
    /\ UNCHANGED <<config, up, left, isReady, leadership, cronMgr, crons, busy, lostOf, process>>

ShutdownReturns ==
    /\ Alive /\ phase = "stopping" /\ step > Len(StopOrder)
    /\ phase' = "stopped"
    /\ UNCHANGED <<config, step, up, left, isReady, leadership, cron, process>>

-----------------------------------------------------------------------------
(* What goes on behind the back of Shutdown. *)

\* The last request or connection that a Stop did not wait for ends.
LeftoverEnds(c) ==
    /\ Alive /\ c \in left \cap Limited
    /\ up' = up \ {c} /\ left' = left \ {c}
    /\ UNCHANGED <<config, phase, step, isReady, leadership, cron, process>>

\* FPM had exited before its Stop or because of it, and its monitor, which has
\* slept for two seconds, calls Start (run fpm_stop).
MonitorRestartsFPM ==
    /\ Alive /\ "fpm" \in enabled \ up
    /\ phase = "stopped" \/ (phase = "stopping" /\ \E i \in 1 .. step - 1 : StopOrder[i] = "fpm")
    /\ up' = up \cup {"fpm"} /\ left' = left \cup {"fpm"}
    /\ UNCHANGED <<config, phase, step, isReady, leadership, cron, process>>

-----------------------------------------------------------------------------
(* watchLeadership: a tick every five seconds, until the process exits. *)

\* Faulty variant of CheckLeadership, for the mutation runs.
CheckLeadershipKeeps ==
    /\ Alive /\ watch = "idle" /\ ~isLeader /\ IsLeader(view)
    /\ isLeader' = TRUE
    /\ watch' = "acquired"
    /\ UNCHANGED <<config, engine, view, cron, process>>

\* A tick that finds leadership changed; any other does nothing.
CheckLeadership ==
    /\ Alive /\ watch = "idle" /\ isLeader # IsLeader(view)
    /\ isLeader' = IsLeader(view)
    /\ watch' = IF isLeader' THEN "acquired" ELSE "lost"
    /\ UNCHANGED <<config, engine, view, cron, process>>

OnLeadershipAcquired ==
    /\ Alive /\ watch = "acquired"
    /\ watch' = IF LeaderCron /\ cronMgr = 0 THEN "starting" ELSE "idle"
    /\ UNCHANGED <<config, engine, view, isLeader, cron, process>>

AcquiredStarts ==
    /\ Alive /\ watch = "starting"
    /\ StartScheduler
    /\ watch' = "idle"
    /\ UNCHANGED <<config, engine, view, isLeader, process>>

OnLeadershipLost ==
    /\ Alive /\ watch = "lost"
    /\ watch' = IF LeaderCron /\ cronMgr # 0 THEN "stopping" ELSE "idle"
    /\ UNCHANGED <<config, engine, view, isLeader, cron, process>>

\* Faulty variant of LostStops, for the mutation runs.
LostForgetsToStop ==
    /\ Alive /\ watch = "stopping"
    /\ watch' = "draining"
    /\ UNCHANGED <<config, engine, view, isLeader, cron, process>>

\* cron.Stop, in the same two steps.
LostStops ==
    /\ Alive /\ watch = "stopping"
    /\ crons' = crons \ {cronMgr} /\ lostOf' = cronMgr
    /\ watch' = "draining"
    /\ UNCHANGED <<config, engine, view, isLeader, cronMgr, busy, stopOf, process>>

LostReturns ==
    /\ Alive /\ watch = "draining" /\ lostOf \notin busy
    /\ watch' = "clearing" /\ lostOf' = 0
    /\ UNCHANGED <<config, engine, view, isLeader, cronMgr, crons, busy, stopOf, process>>

\* Faulty variant of LostClears, for the mutation runs.
LostKeepsPointer ==
    /\ Alive /\ watch = "clearing"
    /\ watch' = "idle"
    /\ UNCHANGED <<config, engine, view, isLeader, cron, process>>

LostClears ==
    /\ Alive /\ watch = "clearing"
    /\ cronMgr' = 0
    /\ watch' = "idle"
    /\ UNCHANGED <<config, engine, view, isLeader, crons, jobs, process>>

Watcher ==
    \/ CheckLeadership \/ OnLeadershipAcquired \/ AcquiredStarts
    \/ OnLeadershipLost \/ LostStops \/ LostReturns \/ LostClears

\* memberlist learns that another member came or went.
ViewChange(m) ==
    /\ Alive /\ watch # "off"
    /\ view' = IF m \in view THEN view \ {m} ELSE view \cup {m}
    /\ UNCHANGED <<config, engine, isLeader, watch, cron, process>>

-----------------------------------------------------------------------------
(* The jobs of a scheduler. *)

JobStarts(s) ==
    /\ Alive /\ s \in crons \ busy
    /\ busy' = busy \cup {s}
    /\ UNCHANGED <<config, engine, leadership, cronMgr, crons, stopOf, lostOf, process>>

\* The last running job of the scheduler ends or reaches its time limit.
JobEnds(s) ==
    /\ Alive /\ s \in busy
    /\ busy' = busy \ {s}
    /\ UNCHANGED <<config, engine, leadership, cronMgr, crons, stopOf, lostOf, process>>

-----------------------------------------------------------------------------
(* main. *)

\* SIGTERM or SIGINT: cancel, and return at once.
SigTerm ==
    /\ main = "waiting"
    /\ cancelled' = TRUE /\ main' = "returning"
    /\ UNCHANGED <<config, engine, leadership, cron>>

\* Start has returned, and errChan says so.
StartReturned ==
    /\ main = "waiting" /\ phase \in {"failed", "stopped"}
    /\ main' = "returning"
    /\ UNCHANGED <<config, engine, leadership, cron, cancelled>>

\* main returns.
Exit ==
    /\ main = "returning"
    /\ main' = "exited"
    /\ ProcessDies
    /\ UNCHANGED <<config, phase, step, left, isReady, leadership, cronMgr, stopOf, lostOf, cancelled>>

-----------------------------------------------------------------------------

StartThread ==
    \/ InitComponent \/ InitFails \/ InitCluster \/ InitCronManager \/ InitCronManagerStarts
    \/ Ready \/ Shutdown \/ StopComponent \/ StopCron \/ StopCronStops
    \/ StopCronReturns \/ ShutdownReturns

Next ==
    \/ StartThread \/ Watcher
    \/ \E m \in Peer : ViewChange(m)
    \/ \E s \in Scheduler : JobStarts(s) \/ JobEnds(s)
    \/ \E c \in Limited : LeftoverEnds(c)
    \/ MonitorRestartsFPM
    \/ SigTerm \/ StartReturned \/ Exit

\* Goroutines run, the ticker keeps ticking, and jobs have a time limit.
FairSpec ==
    /\ Init /\ [][Next]_vars
    /\ WF_vars(StartThread) /\ WF_vars(Watcher)
    /\ \A s \in Scheduler : WF_vars(JobEnds(s))

-----------------------------------------------------------------------------
(* Properties. *)

\* Traffic has its backends: while the gateway accepts requests, and while
\* readyHandler says "ready", what a request needs is running.
TrafficHasBackends ==
    Alive =>
        /\ "gateway" \in up \ left => enabled \cap {"fpm", "proxy", "db"} \subseteq up
        /\ isReady => enabled \cap Runs \subseteq up

\* A Start that fails stops nothing, and yet leaves no FPM subprocess behind:
\* nothing after initFPMManager can fail.
FailedStartLeavesNoChild == phase = "failed" => "fpm" \notin up

\* Shutdown forgets nothing: when it has returned, whatever still runs is
\* something whose Stop ran out of time or an FPM that its monitor has started
\* again; and no scheduler and no job runs (leader-only schedulers apart).
ShutdownIsComplete ==
    phase = "stopped" => up \subseteq left /\ (~leaderOnly => crons = {} /\ busy = {})

\* However leadership moves while Start runs, a serving node that is leader
\* and has handled the change runs a scheduler.
LeaderHasScheduler ==
    Alive /\ LeaderCron /\ phase = "serving" /\ isLeader /\ watch = "idle" => crons # {}

\* However often leadership moves, the process leaks at most one scheduler:
\* the one of the race between initCronManager and the leadership handlers.
AtMostOneLeak == Cardinality(crons) <= 2

\* No job outlives the Stop of its scheduler: every scheduler with a running
\* job still schedules, or somebody waits for it, Shutdown and the watcher
\* perhaps both at once.
JobsAreWaitedFor == busy \subseteq crons \cup {stopOf, lostOf}

\* Once membership stops changing the watcher settles on what it says.
LeadershipConverges ==
    <>[][UNCHANGED view]_vars =>
        <>[](Alive /\ watch # "off" => watch = "idle" /\ isLeader = IsLeader(view))

\* A shutdown that has begun ends, or the process does, although a leaked
\* scheduler may go on starting jobs all the while.
ShutdownCompletes == (phase = "stopping") ~> (phase = "stopped" \/ ~Alive)

\* A process that was asked to stop does not exit with its FPM subprocess
\* running (main: "Graceful shutdown").
ExitIsGraceful == main = "exited" => up = {}
=============================================================================
