---------------------------- MODULE EngineProofs ----------------------------
(***************************************************************************)
(* bootstrap.Engine for every configuration, any names of nodes and any    *)
(* changes of membership: Start and Shutdown, and the schedulers that      *)
(* initCronManager, the leadership handlers and Shutdown start and stop    *)
(* without a lock.                                                         *)
(***************************************************************************)
EXTENDS Engine, FiniteSetTheorems, TLAPS

\* The phases up to Shutdown, and the part of them before initCronManager has
\* started its scheduler.
Running == phase \in {"starting", "startCron", "serving"}

BeforeCron == phase = "startCron" \/ (phase = "starting" /\ step <= 7)

\* After the part of Shutdown that stops cron.
AfterCron == phase \in {"drainCron", "stopped"} \/ (phase = "stopping" /\ step > 2)

-----------------------------------------------------------------------------
(* The inductive invariant. *)

\* The steps of Start and Shutdown in which the phases occur.
PhaseSteps ==
    /\ phase = "startCron" => step = 7
    /\ phase \in {"stopCron", "drainCron"} => step = 2
    /\ phase = "stopping" => step <= 8
    /\ phase \in {"starting", "startCron", "failed", "serving"} => left = {}

\* Start and Shutdown have handled the components before step, in order; what
\* runs again or runs on after its Stop is left.
UpToStep ==
    Alive =>
        /\ phase \in {"starting", "startCron", "failed"} =>
                \A i \in 1 .. 9 : StartOrder[i] \in Runs =>
                    (StartOrder[i] \in up <=> StartOrder[i] \in enabled /\ i < step)
        /\ phase = "serving" => up = enabled \cap Runs
        /\ phase \in {"stopping", "stopCron", "drainCron"} =>
                \A i \in 1 .. 7 : StopOrder[i] \in Runs =>
                    (StopOrder[i] \in up \ left <=> StopOrder[i] \in enabled /\ i >= step)
        /\ isReady => phase = "serving"

\* What is left of up when Start has failed or Shutdown has returned, even
\* after the process has ended.
UpAtEnd ==
    /\ phase = "failed" => "fpm" \notin up
    /\ phase = "stopped" => up \subseteq left

\* The threads that wait for jobs are where they do so.
Waiting ==
    /\ stopOf # 0 => phase = "drainCron"
    /\ lostOf # 0 => watch = "draining"
    /\ JobsAreWaitedFor

\* The watcher starts with the cluster, and the leadership handlers change
\* nothing unless cron is for leaders only.
WatcherPlace ==
    /\ phase = "starting" /\ step <= 3 => watch = "off" /\ crons = {} /\ cronMgr = 0
    /\ ~LeaderCron => watch \in {"off", "idle", "acquired", "lost"}
    /\ watch \in {"lost", "stopping", "draining", "clearing"} => ~isLeader

\* At most one scheduler runs that e.cronMgr does not point to, and none of
\* the assignments that are under way can lose a second one.
OneLeak ==
    /\ BeforeCron => crons \subseteq {cronMgr}
    /\ BeforeCron /\ watch \in {"starting", "draining", "clearing"} => crons = {}
    /\ \A r, s \in crons \ {cronMgr} : r = s
    /\ watch \in {"starting", "draining", "clearing"} => \A r, s \in crons : r = s

\* e.cronMgr points to a scheduler that runs, except between the Stop and the
\* assignment of onLeadershipLost; a leader that is not handling a change of
\* leadership has one.
PointerRuns ==
    Alive /\ Running =>
        /\ cronMgr # 0 /\ watch \notin {"draining", "clearing"} => cronMgr \in crons
        /\ LeaderCron /\ isLeader /\ watch = "idle" => crons # {}

\* Without leader-only cron there is at most the scheduler of initCronManager.
OneScheduler ==
    ~leaderOnly =>
        /\ crons \subseteq {cronMgr}
        /\ BeforeCron => crons = {} /\ cronMgr = 0
        /\ AfterCron => crons = {}

IInv ==
    /\ TypeOK
    /\ PhaseSteps
    /\ UpToStep
    /\ UpAtEnd
    /\ Waiting
    /\ WatcherPlace
    /\ OneLeak
    /\ PointerRuns
    /\ OneScheduler

CronInv == Waiting /\ WatcherPlace /\ OneLeak /\ PointerRuns /\ OneScheduler

-----------------------------------------------------------------------------

\* The order of Start: nothing twice, and where the steps are that the
\* invariant speaks of.
LEMMA StartOrderFacts ==
    /\ Len(StartOrder) = 9
    /\ \A i, j \in 1 .. 9 : StartOrder[i] = StartOrder[j] => i = j
    /\ StartOrder[3] = "cluster" /\ StartOrder[6] = "fpm" /\ StartOrder[7] = "cron"
    /\ StartOrder[9] = "gateway"
    /\ \A i \in 1 .. 9 : StartOrder[i] \in Fallible => i <= 6
    /\ \A c \in Runs : \E i \in 1 .. 9 : StartOrder[i] = c
    /\ Runs \subseteq Component
BY DEF StartOrder, Runs, Fallible, Component

\* The order of Shutdown: nothing twice, and everything that runs.
LEMMA StopOrderFacts ==
    /\ Len(StopOrder) = 7
    /\ \A i, j \in 1 .. 7 : StopOrder[i] = StopOrder[j] => i = j
    /\ StopOrder[1] = "gateway" /\ StopOrder[2] = "cron"
    /\ StopOrder[4] = "fpm"
    /\ \A c \in Runs : \E i \in 1 .. 7 : StopOrder[i] = c
BY DEF StopOrder, Runs

\* Leadership is TRUE or FALSE.
LEMMA IsLeaderType == \A members : IsLeader(members) \in BOOLEAN
BY DEF IsLeader

\* What StartScheduler leaves.
LEMMA StartSchedulerFacts ==
    ASSUME StartScheduler
    PROVE  \E s \in Scheduler : /\ crons' = crons \cup {s} /\ cronMgr' = s
                                /\ UNCHANGED jobs
BY DEF StartScheduler

\* A new Engine satisfies the invariant.
LEMMA InitInv == Init => IInv
<1> SUFFICES ASSUME Init PROVE IInv
  OBVIOUS
<1>1. TypeOK
  <2>1. enabled \subseteq Component /\ leaderOnly \in BOOLEAN
    BY ConfigAssumption, StartOrderFacts DEF Init, Runs
  <2>2. step \in 1 .. Len(StartOrder) + 1 /\ main = "waiting" /\ phase = "starting" /\ watch = "off"
    BY StartOrderFacts DEF Init
  <2>3. /\ isReady \in BOOLEAN /\ isLeader \in BOOLEAN /\ cancelled \in BOOLEAN
        /\ cronMgr = 0 /\ crons = {} /\ busy = {} /\ stopOf = 0 /\ lostOf = 0 /\ up = {} /\ left = {} /\ view = {}
    BY DEF Init
  <2> QED BY <2>1, <2>2, <2>3 DEF TypeOK
<1>2. PhaseSteps /\ UpToStep /\ UpAtEnd
  BY DEF Init, PhaseSteps, UpToStep, UpAtEnd
<1>3. CronInv
  BY DEF Init, CronInv, Waiting, JobsAreWaitedFor, WatcherPlace, OneLeak, PointerRuns,
         OneScheduler, AfterCron
<1> QED BY <1>1, <1>2, <1>3 DEF IInv, CronInv

\* The process ends, by a return of main or by a nil pointer: what is left
\* satisfies the invariant whatever the threads were doing.
LEMMA DyingInv ==
    ASSUME IInv, ProcessDies, ~Alive',
           UNCHANGED <<config, phase, step, left, isReady, leadership, cronMgr, stopOf, lostOf, cancelled>>,
           main' \in {"exited", "panicked"}
    PROVE  IInv'
<1>1. TypeOK' /\ PhaseSteps' /\ UpToStep' /\ UpAtEnd'
  BY DEF IInv, TypeOK, PhaseSteps, UpToStep, UpAtEnd, ProcessDies, config, leadership
<1>2. CronInv'
  BY DEF IInv, CronInv, Waiting, JobsAreWaitedFor, WatcherPlace, OneLeak, PointerRuns,
         OneScheduler, BeforeCron, AfterCron, ProcessDies, config, leadership, LeaderCron
<1> QED BY <1>1, <1>2 DEF IInv, CronInv

\* A step that does not touch leadership or schedulers preserves what the
\* invariant says of them, if it moves Start or Shutdown only where the steps
\* about cron are not concerned.
LEMMA CronUntouched ==
    ASSUME IInv, UNCHANGED <<config, isLeader, watch, cron>>,
           Alive' => Alive,
           BeforeCron' => BeforeCron,
           phase' = "starting" /\ step' <= 3 => phase = "starting" /\ step <= 3,
           AfterCron' /\ ~leaderOnly => AfterCron \/ crons = {},
           stopOf # 0 => phase' = "drainCron",
           Alive /\ Running' => Running
    PROVE  CronInv'
<1> USE DEF IInv, CronInv, config, cron, jobs, LeaderCron
<1>1. Waiting' /\ WatcherPlace'
  BY DEF Waiting, JobsAreWaitedFor, WatcherPlace
<1>2. OneLeak' /\ OneScheduler'
  BY DEF OneLeak, OneScheduler
<1>3. PointerRuns'
  BY DEF PointerRuns
<1> QED BY <1>1, <1>2, <1>3

-----------------------------------------------------------------------------
(* Start. *)

\* The init functions of components other than cluster and cron.
LEMMA InitComponentInv ==
    ASSUME IInv, InitComponent
    PROVE  IInv'
<1> USE StartOrderFacts DEF IInv
<1>1. PICK c \in Component \ {"cluster", "cron"} :
          Starting(c) /\ up' = up \cup ({c} \cap enabled \cap Runs)
  BY DEF InitComponent
<1>2. step \in 1 .. 9 /\ step # 3 /\ step # 7 /\ Alive /\ phase = "starting" /\ StartOrder[step] = c
  BY <1>1 DEF Starting, TypeOK
<1>3. TypeOK' /\ PhaseSteps' /\ UpAtEnd'
  BY <1>1, <1>2 DEF InitComponent, TypeOK, PhaseSteps, UpAtEnd, config, leadership, cron, jobs, process
<1>4. UpToStep'
  BY <1>1, <1>2 DEF InitComponent, UpToStep, config, process, Alive
<1>5. CronInv'
  BY <1>2, CronUntouched
     DEF InitComponent, config, leadership, cron, jobs, process, Alive, BeforeCron, AfterCron,
         Running, TypeOK, Waiting
<1> QED BY <1>3, <1>4, <1>5 DEF CronInv

\* An init function returns an error.
LEMMA InitFailsInv ==
    ASSUME IInv, InitFails
    PROVE  IInv'
<1> USE StartOrderFacts DEF IInv
<1>1. step \in 1 .. 6 /\ Alive /\ phase = "starting"
  BY DEF InitFails, Starting, TypeOK
<1>2. TypeOK' /\ PhaseSteps' /\ UpToStep'
  BY <1>1 DEF InitFails, TypeOK, PhaseSteps, UpToStep, Alive, config, leadership, cron, jobs, process
<1>3. UpAtEnd'
  BY <1>1 DEF InitFails, UpAtEnd, UpToStep, Runs
<1>4. CronInv'
  BY <1>1, CronUntouched
     DEF InitFails, config, leadership, cron, jobs, process, Alive, BeforeCron, AfterCron,
         Running, Waiting
<1> QED BY <1>2, <1>3, <1>4 DEF CronInv

\* initCluster, which may start the first scheduler and launches the watcher.
LEMMA InitClusterInv ==
    ASSUME IInv, InitCluster
    PROVE  IInv'
<1> USE StartOrderFacts DEF IInv
<1>1. step = 3 /\ Alive /\ phase = "starting"
  BY DEF InitCluster, Starting, TypeOK
<1>2. /\ watch = "off" /\ crons = {} /\ cronMgr = 0 /\ stopOf = 0 /\ lostOf = 0
      /\ step' = 4 /\ phase' = phase /\ isReady' = isReady /\ left' = left
      /\ UNCHANGED config /\ UNCHANGED process
  BY <1>1 DEF InitCluster, WatcherPlace, Waiting
<1>3. CASE "cluster" \notin enabled
  <2>1. UNCHANGED <<up, leadership, cron>>
    BY <1>3 DEF InitCluster
  <2>2. TypeOK' /\ PhaseSteps' /\ UpToStep' /\ UpAtEnd'
    BY <1>1, <1>2, <1>3, <2>1
       DEF TypeOK, PhaseSteps, UpToStep, UpAtEnd, Alive, config, leadership, cron, jobs, process
  <2>3. CronInv'
    BY <1>1, <1>2, <2>1, CronUntouched
       DEF config, leadership, cron, jobs, process, Alive, BeforeCron, AfterCron, Running
  <2> QED BY <2>2, <2>3 DEF CronInv
<1>4. CASE "cluster" \in enabled
  <2>1. /\ up' = up \cup {"cluster"} /\ view' \in Joined /\ isLeader' = IsLeader(view')
        /\ watch' = "idle"
        /\ IF isLeader' /\ LeaderCron THEN StartScheduler ELSE UNCHANGED cron
    BY <1>4 DEF InitCluster
  <2>2. isLeader' \in BOOLEAN
    BY <2>1, IsLeaderType
  <2>3. view' \subseteq Peer \cup {Self}
    BY <2>1 DEF Joined
  <2>4. /\ \/ crons' = {} /\ cronMgr' = 0 /\ ~(isLeader' /\ LeaderCron)
           \/ \E s \in Scheduler : crons' = {s} /\ cronMgr' = s /\ LeaderCron
        /\ UNCHANGED jobs
    BY <1>2, <2>1, StartSchedulerFacts DEF cron
  <2>5. TypeOK' /\ PhaseSteps' /\ UpAtEnd'
    BY <1>1, <1>2, <2>1, <2>2, <2>3, <2>4
       DEF TypeOK, PhaseSteps, UpAtEnd, config, jobs, process, Runs
  <2>6. UpToStep'
    BY <1>1, <1>2, <1>4, <2>1 DEF UpToStep, Alive, config, process, Runs
  <2>7. CronInv'
    BY <1>1, <1>2, <2>1, <2>4
       DEF CronInv, Waiting, JobsAreWaitedFor, WatcherPlace, OneLeak, PointerRuns, OneScheduler,
           BeforeCron, AfterCron, Running, LeaderCron, TypeOK, config, jobs
  <2> QED BY <2>5, <2>6, <2>7 DEF CronInv
<1> QED BY <1>3, <1>4

\* initCronManager up to the decision.
LEMMA InitCronManagerInv ==
    ASSUME IInv, InitCronManager
    PROVE  IInv'
<1> USE StartOrderFacts DEF IInv
<1>1. step = 7 /\ Alive /\ phase = "starting"
  BY DEF InitCronManager, Starting, TypeOK
<1>2. TypeOK' /\ PhaseSteps' /\ UpAtEnd'
  BY <1>1 DEF InitCronManager, TypeOK, PhaseSteps, UpAtEnd, config, leadership, cron, jobs, process
<1>3. UpToStep'
  BY <1>1 DEF InitCronManager, UpToStep, Alive, config, process, Runs
<1>4. CronInv'
  BY <1>1, CronUntouched
     DEF InitCronManager, config, leadership, cron, jobs, process, Alive, BeforeCron, AfterCron,
         Running, Waiting
<1> QED BY <1>2, <1>3, <1>4 DEF CronInv

\* initCronManager starts its scheduler, whatever the watcher has done since.
LEMMA InitCronManagerStartsInv ==
    ASSUME IInv, InitCronManagerStarts
    PROVE  IInv'
<1> USE StartOrderFacts DEF IInv
<1>1. step = 7 /\ Alive /\ phase = "startCron" /\ phase' = "starting" /\ step' = 8
  BY DEF InitCronManagerStarts, PhaseSteps
<1>2. PICK s \in Scheduler : crons' = crons \cup {s} /\ cronMgr' = s /\ UNCHANGED jobs
  BY StartSchedulerFacts DEF InitCronManagerStarts
<1>3. TypeOK' /\ PhaseSteps' /\ UpAtEnd'
  BY <1>1, <1>2
     DEF InitCronManagerStarts, TypeOK, PhaseSteps, UpAtEnd, config, leadership, jobs, process
<1>4. UpToStep'
  BY <1>1 DEF InitCronManagerStarts, UpToStep, Alive, config, process, Runs
<1>5. Waiting' /\ WatcherPlace' /\ PointerRuns' /\ OneScheduler'
  BY <1>1, <1>2
     DEF InitCronManagerStarts, Waiting, JobsAreWaitedFor, WatcherPlace, PointerRuns, OneScheduler,
         BeforeCron, AfterCron, LeaderCron, config, leadership, jobs
<1>6. OneLeak'
  BY <1>1, <1>2 DEF InitCronManagerStarts, OneLeak, BeforeCron, leadership
<1> QED BY <1>3, <1>4, <1>5, <1>6

\* Start is done.
LEMMA ReadyInv ==
    ASSUME IInv, Ready
    PROVE  IInv'
<1> USE StartOrderFacts DEF IInv
<1>1. step = 10 /\ Alive /\ phase = "starting" /\ phase' = "serving"
  BY DEF Ready, TypeOK
<1>2. TypeOK' /\ PhaseSteps' /\ UpAtEnd'
  BY <1>1 DEF Ready, TypeOK, PhaseSteps, UpAtEnd, config, leadership, cron, jobs, process
<1>3. up = enabled \cap Runs
  <2>1. \A c \in Runs : c \in up <=> c \in enabled
    BY <1>1 DEF UpToStep
  <2> QED BY <2>1 DEF TypeOK
<1>4. UpToStep'
  BY <1>1, <1>3 DEF Ready, UpToStep, config
<1>5. CronInv'
  BY <1>1, CronUntouched
     DEF Ready, config, leadership, cron, jobs, process, Alive, BeforeCron, AfterCron, Running, Waiting
<1> QED BY <1>2, <1>4, <1>5 DEF CronInv

-----------------------------------------------------------------------------
(* Shutdown. *)

\* Shutdown begins.
LEMMA ShutdownInv ==
    ASSUME IInv, Shutdown
    PROVE  IInv'
<1> USE StartOrderFacts, StopOrderFacts DEF IInv
<1>1. step' = 1 /\ Alive /\ phase = "serving" /\ phase' = "stopping" /\ isReady' = FALSE
  BY DEF Shutdown
<1>2. TypeOK'
  <2>1. step' \in 1 .. Len(StartOrder) + 1
    BY <1>1
  <2>2. isReady' \in BOOLEAN
    BY <1>1
  <2>3. UNCHANGED <<config, up, left, leadership, cron, process>>
    BY DEF Shutdown
  <2> QED BY <1>1, <2>1, <2>2, <2>3 DEF TypeOK, config, leadership, cron, jobs, process
<1>3. PhaseSteps' /\ UpAtEnd'
  BY <1>1 DEF PhaseSteps, UpAtEnd
<1>4. UpToStep'
  BY <1>1 DEF Shutdown, UpToStep, PhaseSteps, config
<1>5. CronInv'
  BY <1>1, CronUntouched
     DEF Shutdown, config, leadership, cron, jobs, process, Alive, BeforeCron, AfterCron, Running,
         Waiting
<1> QED BY <1>2, <1>3, <1>4, <1>5 DEF CronInv

\* One component is stopped, or its Stop has waited long enough.
LEMMA StopComponentInv ==
    ASSUME IInv, StopComponent
    PROVE  IInv'
<1> USE StartOrderFacts, StopOrderFacts DEF IInv
<1>1. PICK c \in Runs : /\ Stopping(c)
                        /\ \/ up' = up \ {c} /\ UNCHANGED left
                           \/ c \in up \cap Limited /\ left' = left \cup {c} /\ UNCHANGED up
                        /\ view' = IF c = "cluster" THEN view \ {Self} ELSE view
  BY DEF StopComponent
<1>2. /\ step \in 1 .. 7 /\ step # 2 /\ Alive /\ phase = "stopping" /\ StopOrder[step] = c
      /\ phase' = "stopping" /\ step' = step + 1
  BY <1>1 DEF StopComponent, Stopping, TypeOK, Runs
<1>3. TypeOK' /\ PhaseSteps' /\ UpAtEnd'
  BY <1>1, <1>2 DEF StopComponent, TypeOK, PhaseSteps, UpAtEnd, config, cron, jobs, process
<1>4. UpToStep'
  BY <1>1, <1>2 DEF StopComponent, UpToStep, config
<1>5. CronInv'
  BY <1>2, CronUntouched
     DEF StopComponent, config, cron, jobs, process, Alive, BeforeCron, AfterCron, Running, Waiting
<1> QED BY <1>3, <1>4, <1>5 DEF CronInv

\* Shutdown looks at e.cronMgr.
LEMMA StopCronInv ==
    ASSUME IInv, StopCron
    PROVE  IInv'
<1> USE StartOrderFacts, StopOrderFacts DEF IInv
<1>1. step = 2 /\ Alive /\ phase = "stopping"
  BY DEF StopCron, Stopping, TypeOK
<1>2. TypeOK' /\ PhaseSteps' /\ UpAtEnd'
  BY <1>1 DEF StopCron, TypeOK, PhaseSteps, UpAtEnd, config, leadership, cron, jobs, process
<1>3. UpToStep'
  BY <1>1 DEF StopCron, UpToStep, Alive, config, process, Runs
<1>4. ASSUME cronMgr = 0, ~leaderOnly PROVE crons = {}
  BY <1>4 DEF OneScheduler, TypeOK, Scheduler
<1>5. CronInv'
  BY <1>1, <1>4, CronUntouched
     DEF StopCron, config, leadership, cron, jobs, process, Alive, BeforeCron, AfterCron, Running,
         Waiting
<1> QED BY <1>2, <1>3, <1>5 DEF CronInv

\* Shutdown calls the Stop of e.cronMgr, which the watcher may have cleared.
LEMMA StopCronStopsInv ==
    ASSUME IInv, StopCronStops
    PROVE  IInv'
<1>1. CASE cronMgr = 0
  BY <1>1, DyingInv DEF StopCronStops, Alive
<1>2. CASE cronMgr # 0
  <2> USE StartOrderFacts, StopOrderFacts DEF IInv
  <2>1. /\ step = 2 /\ step' = 2 /\ Alive /\ phase = "stopCron" /\ phase' = "drainCron"
        /\ crons' = crons \ {cronMgr} /\ stopOf' = cronMgr /\ UNCHANGED <<up, busy, main>>
    BY <1>2 DEF StopCronStops, PhaseSteps
  <2>2. TypeOK' /\ PhaseSteps' /\ UpAtEnd' /\ UpToStep'
    BY <2>1
       DEF StopCronStops, TypeOK, PhaseSteps, UpAtEnd, UpToStep, Alive, config, leadership
  <2>3. Waiting' /\ WatcherPlace'
    <3>1. stopOf = 0 /\ 0 \notin busy
      BY <2>1 DEF Waiting, TypeOK, Scheduler
    <3> QED BY <2>1, <3>1
            DEF StopCronStops, Waiting, JobsAreWaitedFor, WatcherPlace, LeaderCron, config,
                leadership
  <2>4. OneLeak' /\ PointerRuns' /\ OneScheduler'
    BY <2>1 DEF StopCronStops, OneLeak, PointerRuns, OneScheduler, BeforeCron, AfterCron, Running,
                config, leadership
  <2> QED BY <2>2, <2>3, <2>4
<1> QED BY <1>1, <1>2

\* The jobs Shutdown waited for have ended.
LEMMA StopCronReturnsInv ==
    ASSUME IInv, StopCronReturns
    PROVE  IInv'
<1> USE StartOrderFacts, StopOrderFacts DEF IInv
<1>1. /\ step = 2 /\ step' = 3 /\ Alive /\ phase = "drainCron" /\ phase' = "stopping"
      /\ stopOf \notin busy /\ stopOf' = 0
  BY DEF StopCronReturns, PhaseSteps
<1>2. TypeOK' /\ PhaseSteps' /\ UpAtEnd'
  BY <1>1 DEF StopCronReturns, TypeOK, PhaseSteps, UpAtEnd, config, leadership, process
<1>3. UpToStep'
  BY <1>1 DEF StopCronReturns, UpToStep, Alive, config, process, Runs
<1>4. Waiting' /\ WatcherPlace'
  BY <1>1 DEF StopCronReturns, Waiting, JobsAreWaitedFor, WatcherPlace, LeaderCron, config, leadership
<1>5. OneLeak' /\ PointerRuns' /\ OneScheduler'
  BY <1>1 DEF StopCronReturns, OneLeak, PointerRuns, OneScheduler, BeforeCron, AfterCron, Running,
              config, leadership
<1> QED BY <1>2, <1>3, <1>4, <1>5

\* Shutdown returns: by the order of its steps it has called every Stop.
LEMMA ShutdownReturnsInv ==
    ASSUME IInv, ShutdownReturns
    PROVE  IInv'
<1> USE StartOrderFacts, StopOrderFacts DEF IInv
<1>1. step = 8 /\ Alive /\ phase = "stopping" /\ phase' = "stopped"
  BY DEF ShutdownReturns, TypeOK, PhaseSteps
<1>2. up \subseteq left
  <2>1. \A c \in Runs : c \notin up \ left
    BY <1>1 DEF UpToStep
  <2> QED BY <2>1 DEF TypeOK
<1>3. TypeOK' /\ PhaseSteps' /\ UpAtEnd' /\ UpToStep'
  BY <1>1, <1>2
     DEF ShutdownReturns, TypeOK, PhaseSteps, UpAtEnd, UpToStep, Alive, config, leadership, cron,
         jobs, process
<1>4. CronInv'
  BY <1>1, CronUntouched
     DEF ShutdownReturns, config, leadership, cron, jobs, process, Alive, BeforeCron, AfterCron,
         Running, Waiting
<1> QED BY <1>3, <1>4 DEF CronInv

\* What was left ends, or the monitor starts FPM again.
LEMMA LeftoverInv ==
    ASSUME IInv, (\E c \in Limited : LeftoverEnds(c)) \/ MonitorRestartsFPM
    PROVE  IInv'
<1> USE StartOrderFacts, StopOrderFacts DEF IInv
<1>1. /\ UNCHANGED <<config, phase, step, isReady, leadership, cron, process>>
      /\ phase \notin {"starting", "startCron", "failed", "serving"} /\ Alive
  BY DEF LeftoverEnds, MonitorRestartsFPM, PhaseSteps
<1>2. ASSUME NEW c \in Limited, LeftoverEnds(c)
      PROVE  TypeOK' /\ PhaseSteps' /\ UpAtEnd' /\ UpToStep'
  <2>1. c \in left /\ up' = up \ {c} /\ left' = left \ {c}
    BY <1>2 DEF LeftoverEnds
  <2> QED
    BY <1>1, <2>1
       DEF TypeOK, PhaseSteps, UpAtEnd, UpToStep, config, leadership, cron, jobs, process
<1>3. ASSUME MonitorRestartsFPM
      PROVE  TypeOK' /\ PhaseSteps' /\ UpAtEnd' /\ UpToStep'
  <2>1. /\ up' = up \cup {"fpm"} /\ left' = left \cup {"fpm"} /\ "fpm" \in Runs
        /\ phase = "stopped" \/ (phase = "stopping" /\ step > 4)
    BY <1>3 DEF MonitorRestartsFPM, Runs, PhaseSteps, TypeOK
  <2> QED
    BY <1>1, <2>1
       DEF TypeOK, PhaseSteps, UpAtEnd, UpToStep, config, leadership, cron, jobs, process
<1>4. TypeOK' /\ PhaseSteps' /\ UpAtEnd' /\ UpToStep'
  BY <1>2, <1>3
<1>5. CronInv'
  BY <1>1, CronUntouched
     DEF config, leadership, cron, jobs, process, Alive, BeforeCron, AfterCron, Running, Waiting
<1> QED BY <1>4, <1>5 DEF CronInv

-----------------------------------------------------------------------------
(* watchLeadership, the jobs and main. *)

\* A step that leaves Start, Shutdown, main and the configuration alone.
LEMMA EngineUntouched ==
    ASSUME IInv, UNCHANGED <<config, engine, process>>
    PROVE  /\ PhaseSteps' /\ UpToStep' /\ UpAtEnd'
           /\ Alive' = Alive /\ Running' = Running /\ BeforeCron' = BeforeCron
           /\ AfterCron' = AfterCron /\ LeaderCron' = LeaderCron
BY DEF IInv, PhaseSteps, UpToStep, UpAtEnd, config, engine, process, Alive, Running, BeforeCron,
       AfterCron, LeaderCron

\* The steps of the watcher.
LEMMA WatcherInv ==
    ASSUME IInv, Watcher
    PROVE  IInv'
<1> USE DEF IInv
<1>0. UNCHANGED <<config, engine, process>>
  BY DEF Watcher, CheckLeadership, OnLeadershipAcquired, AcquiredStarts, OnLeadershipLost,
         LostStops, LostReturns, LostClears
<1>1. /\ PhaseSteps' /\ UpToStep' /\ UpAtEnd'
      /\ Alive' = Alive /\ Running' = Running /\ BeforeCron' = BeforeCron
      /\ AfterCron' = AfterCron /\ LeaderCron' = LeaderCron
      /\ phase' = phase /\ step' = step /\ leaderOnly' = leaderOnly
  BY <1>0, EngineUntouched DEF engine, config
<1> USE DEF CronInv, Waiting, JobsAreWaitedFor, WatcherPlace, OneLeak, PointerRuns, OneScheduler
<1>2. CASE CheckLeadership
  <2>1. isLeader' \in BOOLEAN
    BY <1>2, IsLeaderType DEF CheckLeadership
  <2>2. TypeOK'
    BY <1>2, <2>1 DEF CheckLeadership, TypeOK, config, engine, cron, jobs, process
  <2>3. CronInv'
    BY <1>1, <1>2 DEF CheckLeadership, cron, jobs
  <2> QED BY <1>1, <2>2, <2>3
<1>3. CASE OnLeadershipAcquired
  <2>1. TypeOK'
    BY <1>3 DEF OnLeadershipAcquired, TypeOK, config, engine, cron, jobs, process
  <2>2. 0 \notin crons
    BY DEF TypeOK, Scheduler
  <2>3. Waiting' /\ WatcherPlace' /\ PointerRuns' /\ OneScheduler'
    BY <1>1, <1>3 DEF OnLeadershipAcquired, cron, jobs
  <2>4. OneLeak'
    BY <1>1, <1>3, <2>2 DEF OnLeadershipAcquired, cron
  <2> QED BY <1>1, <2>1, <2>3, <2>4
<1>4. CASE AcquiredStarts
  <2>1. PICK s \in Scheduler : crons' = crons \cup {s} /\ cronMgr' = s /\ UNCHANGED jobs
    BY <1>4, StartSchedulerFacts DEF AcquiredStarts
  <2>2. TypeOK'
    BY <1>4, <2>1 DEF AcquiredStarts, TypeOK, config, engine, jobs, process
  <2>3. LeaderCron /\ leaderOnly /\ watch # "off"
    BY <1>4 DEF AcquiredStarts, LeaderCron
  <2>4. CronInv'
    BY <1>1, <1>4, <2>1, <2>3 DEF AcquiredStarts, jobs
  <2> QED BY <1>1, <2>2, <2>4
<1>5. CASE OnLeadershipLost
  <2>1. TypeOK'
    BY <1>5 DEF OnLeadershipLost, TypeOK, config, engine, cron, jobs, process
  <2>2. CronInv'
    BY <1>1, <1>5 DEF OnLeadershipLost, cron, jobs
  <2> QED BY <1>1, <2>1, <2>2
<1>6. CASE LostStops
  <2>1. TypeOK'
    BY <1>6 DEF LostStops, TypeOK, config, engine, process
  <2>2. LeaderCron /\ leaderOnly /\ watch # "off" /\ lostOf = 0 /\ 0 \notin busy
    BY <1>6 DEF LostStops, LeaderCron, TypeOK, Scheduler
  <2>3. Waiting' /\ WatcherPlace' /\ PointerRuns' /\ OneScheduler'
    BY <1>1, <1>6, <2>2 DEF LostStops
  <2>4. OneLeak'
    BY <1>1, <1>6 DEF LostStops
  <2> QED BY <1>1, <2>1, <2>3, <2>4
<1>7. CASE LostReturns
  <2>1. TypeOK'
    BY <1>7 DEF LostReturns, TypeOK, config, engine, process
  <2>2. LeaderCron /\ leaderOnly
    BY <1>7 DEF LostReturns, LeaderCron
  <2>3. CronInv'
    BY <1>1, <1>7, <2>2 DEF LostReturns
  <2> QED BY <1>1, <2>1, <2>3
<1>8. CASE LostClears
  <2>1. TypeOK'
    BY <1>8 DEF LostClears, TypeOK, config, engine, jobs, process
  <2>2. LeaderCron /\ leaderOnly
    BY <1>8 DEF LostClears, LeaderCron
  <2>3. CronInv'
    BY <1>1, <1>8, <2>2 DEF LostClears, jobs
  <2> QED BY <1>1, <2>1, <2>3
<1> QED BY <1>2, <1>3, <1>4, <1>5, <1>6, <1>7, <1>8 DEF Watcher

\* memberlist, and the jobs of the schedulers.
LEMMA EnvironmentInv ==
    ASSUME IInv,
           \/ \E m \in Peer : ViewChange(m)
           \/ \E s \in Scheduler : JobStarts(s) \/ JobEnds(s)
    PROVE  IInv'
<1> USE DEF IInv
<1>0. UNCHANGED <<config, engine, process, isLeader, watch, cronMgr, crons, stopOf, lostOf>>
  BY DEF ViewChange, JobStarts, JobEnds, leadership, cron, jobs
<1>1. /\ PhaseSteps' /\ UpToStep' /\ UpAtEnd'
      /\ Alive' = Alive /\ Running' = Running /\ BeforeCron' = BeforeCron
      /\ AfterCron' = AfterCron /\ LeaderCron' = LeaderCron
      /\ phase' = phase /\ step' = step /\ leaderOnly' = leaderOnly
  BY <1>0, EngineUntouched DEF engine, config
<1>2. TypeOK' /\ JobsAreWaitedFor'
  <2>1. ASSUME NEW m \in Peer, ViewChange(m) PROVE TypeOK' /\ JobsAreWaitedFor'
    BY <2>1 DEF ViewChange, TypeOK, config, engine, cron, jobs, process, Waiting, JobsAreWaitedFor
  <2>2. ASSUME NEW s \in Scheduler, JobStarts(s) PROVE TypeOK' /\ JobsAreWaitedFor'
    BY <2>2 DEF JobStarts, TypeOK, config, engine, leadership, process, Waiting, JobsAreWaitedFor
  <2>3. ASSUME NEW s \in Scheduler, JobEnds(s) PROVE TypeOK' /\ JobsAreWaitedFor'
    BY <2>3 DEF JobEnds, TypeOK, config, engine, leadership, process, Waiting, JobsAreWaitedFor
  <2> QED BY <2>1, <2>2, <2>3
<1>3. CronInv'
  BY <1>0, <1>1, <1>2 DEF CronInv, Waiting, WatcherPlace, OneLeak, PointerRuns, OneScheduler
<1> QED BY <1>1, <1>2, <1>3 DEF CronInv

\* Signals, the end of Start, and the return of main.
LEMMA MainInv ==
    ASSUME IInv, SigTerm \/ StartReturned \/ Exit
    PROVE  IInv'
<1>1. CASE SigTerm \/ StartReturned
  <2> USE DEF IInv
  <2>1. /\ UNCHANGED <<config, engine, leadership, cron>>
        /\ Alive /\ Alive' /\ main' = "returning" /\ cancelled' \in BOOLEAN
    BY <1>1 DEF SigTerm, StartReturned, Alive, TypeOK
  <2>2. TypeOK' /\ PhaseSteps' /\ UpToStep' /\ UpAtEnd'
    BY <2>1 DEF TypeOK, PhaseSteps, UpToStep, UpAtEnd, config, engine, leadership, cron, jobs
  <2>3. CronInv'
    BY <2>1, CronUntouched
       DEF config, engine, leadership, cron, jobs, BeforeCron, AfterCron, Running, Waiting
  <2> QED BY <2>2, <2>3 DEF CronInv
<1>2. CASE Exit
  BY <1>2, DyingInv DEF Exit, Alive
<1> QED BY <1>1, <1>2

\* The invariant holds of every reachable state.
LEMMA Invariance == FairSpec => []IInv
<1>1. IInv /\ UNCHANGED vars => IInv'
  <2> SUFFICES ASSUME IInv, UNCHANGED vars PROVE IInv'
    OBVIOUS
  <2>1. TypeOK' /\ PhaseSteps' /\ UpToStep' /\ UpAtEnd'
    BY EngineUntouched DEF IInv, TypeOK, vars, config, engine, leadership, cron, jobs, process
  <2>2. CronInv'
    BY CronUntouched
       DEF vars, config, engine, leadership, cron, jobs, process, Alive, BeforeCron, AfterCron,
           Running, IInv, Waiting
  <2> QED BY <2>1, <2>2 DEF IInv, CronInv
<1>2. IInv /\ [Next]_vars => IInv'
  BY <1>1, InitComponentInv, InitFailsInv, InitClusterInv, InitCronManagerInv,
     InitCronManagerStartsInv, ReadyInv, ShutdownInv, StopComponentInv, StopCronInv,
     StopCronStopsInv, StopCronReturnsInv, ShutdownReturnsInv, LeftoverInv, WatcherInv, EnvironmentInv, MainInv
     DEF Next, StartThread
<1> QED BY InitInv, <1>2, PTL DEF FairSpec

-----------------------------------------------------------------------------

\* Every field of Engine keeps its type.
THEOREM TypeCorrect == FairSpec => []TypeOK
<1>1. IInv => TypeOK
  BY DEF IInv
<1> QED BY Invariance, <1>1, PTL

\* In every configuration the gateway is the last component up and the first
\* one down: while it accepts requests, or readyHandler says so, what a
\* request needs is running.
THEOREM BackendsBeforeTraffic == FairSpec => []TrafficHasBackends
<1>1. ASSUME IInv PROVE TrafficHasBackends
  <2> USE StartOrderFacts, StopOrderFacts DEF IInv
  <2>1. SUFFICES ASSUME Alive, "gateway" \in up \ left
                 PROVE  \A c \in {"fpm", "proxy", "db"} : c \in enabled => c \in up
    BY <1>1 DEF TrafficHasBackends, UpToStep
  <2>2. "gateway" \in Runs /\ {"fpm", "proxy", "db"} \subseteq Runs
    BY DEF Runs
  <2>3. CASE phase \in {"starting", "startCron", "failed"}
    <3>1. 9 < step
      BY <1>1, <2>1, <2>2, <2>3 DEF UpToStep
    <3> QED BY <1>1, <2>1, <2>2, <2>3, <3>1 DEF UpToStep, TypeOK
  <2>4. CASE phase = "serving"
    BY <1>1, <2>1, <2>2, <2>4 DEF UpToStep
  <2>5. CASE phase \in {"stopping", "stopCron", "drainCron"}
    <3>1. 1 >= step
      BY <1>1, <2>1, <2>2, <2>5 DEF UpToStep
    <3> QED BY <1>1, <2>1, <2>2, <2>5, <3>1 DEF UpToStep, TypeOK
  <2>6. CASE phase = "stopped"
    BY <1>1, <2>1, <2>6 DEF UpAtEnd
  <2> QED BY <1>1, <2>3, <2>4, <2>5, <2>6 DEF TypeOK
<1> QED BY Invariance, <1>1, PTL

\* A Start that returns an error leaves no FPM subprocess behind.
THEOREM FailedStartIsChildless == FairSpec => []FailedStartLeavesNoChild
<1>1. IInv => FailedStartLeavesNoChild
  BY DEF IInv, UpAtEnd, FailedStartLeavesNoChild
<1> QED BY Invariance, <1>1, PTL

\* When Shutdown returns nothing runs but what a Stop gave up waiting for or the
\* FPM that its monitor has started again, and without leader-only cron no
\* scheduler and no job either.
THEOREM ShutdownStopsAll == FairSpec => []ShutdownIsComplete
<1>1. ASSUME IInv PROVE ShutdownIsComplete
  <2> SUFFICES ASSUME phase = "stopped"
               PROVE  up \subseteq left /\ (~leaderOnly => crons = {} /\ busy = {})
    BY DEF ShutdownIsComplete
  <2>1. up \subseteq left
    BY <1>1 DEF IInv, UpAtEnd
  <2>2. ASSUME ~leaderOnly PROVE crons = {} /\ busy = {}
    <3>1. crons = {} /\ stopOf = 0 /\ lostOf = 0
      BY <1>1, <2>2 DEF IInv, OneScheduler, AfterCron, Waiting, WatcherPlace, LeaderCron
    <3>2. busy \subseteq {0} /\ 0 \notin busy
      BY <1>1, <3>1 DEF IInv, Waiting, JobsAreWaitedFor, TypeOK, Scheduler
    <3> QED BY <3>1, <3>2
  <2> QED BY <2>1, <2>2
<1> QED BY Invariance, <1>1, PTL

\* However initCronManager and the leadership handlers interleave, a serving
\* leader that has handled the change of leadership runs a scheduler.
THEOREM LeaderIsServed == FairSpec => []LeaderHasScheduler
<1>1. IInv => LeaderHasScheduler
  BY DEF IInv, PointerRuns, Running, LeaderHasScheduler
<1> QED BY Invariance, <1>1, PTL

\* However often leadership moves, at most one scheduler runs that nobody
\* points to.
THEOREM LeakIsBounded == FairSpec => []AtMostOneLeak
<1>1. ASSUME IInv PROVE AtMostOneLeak
  <2> DEFINE lost == crons \ {cronMgr}
  <2>1. \A r, s \in lost : r = s
    BY <1>1 DEF IInv, OneLeak
  <2>2. IsFiniteSet(lost) /\ Cardinality(lost) <= 1
    <3>1. CASE lost = {}
      BY <3>1, FS_EmptySet
    <3>2. ASSUME NEW s \in lost PROVE IsFiniteSet(lost) /\ Cardinality(lost) <= 1
      <4>1. lost = {s}
        BY <2>1, <3>2
      <4>2. IsFiniteSet({s}) /\ Cardinality({s}) = 1
        BY FS_Singleton
      <4> QED BY <4>1, <4>2
    <3> QED BY <3>1, <3>2
  <2>3. crons = lost \/ crons = lost \cup {cronMgr}
    OBVIOUS
  <2> HIDE DEF lost
  <2>4. /\ IsFiniteSet(lost \cup {cronMgr})
        /\ Cardinality(lost \cup {cronMgr}) \in {Cardinality(lost), Cardinality(lost) + 1}
        /\ Cardinality(lost) \in Nat
    BY <2>2, FS_AddElement, FS_CardinalityType
  <2> QED BY <2>2, <2>3, <2>4 DEF AtMostOneLeak
<1> QED BY Invariance, <1>1, PTL

\* No job goes on without a thread that schedules for it or waits for it,
\* even when Shutdown and the watcher stop schedulers at the same time.
THEOREM JobsAccountedFor == FairSpec => []JobsAreWaitedFor
<1>1. IInv => JobsAreWaitedFor
  BY DEF IInv, Waiting
<1> QED BY Invariance, <1>1, PTL

\* The four identities of schedulers are enough: wherever the code calls
\* cron.New the model has one that is not in use, so the bound forbids no
\* step of the program.
SchedulerIsLeft ==
    Starting("cluster") \/ phase = "startCron" \/ watch = "starting" =>
        Scheduler \ (crons \cup busy \cup {cronMgr, stopOf, lostOf}) # {}

\* Whoever calls cron.New (initCluster, initCronManager, the leadership handler)
\* finds an identity that is free.
THEOREM SchedulersSuffice == FairSpec => []SchedulerIsLeft
<1>1. ASSUME IInv PROVE SchedulerIsLeft
  <2> USE DEF IInv
  <2>0. Scheduler = {1, 2, 3, 4}
    BY DEF Scheduler
  <2> SUFFICES ASSUME Starting("cluster") \/ phase = "startCron" \/ watch = "starting",
                      \A s \in {1, 2, 3, 4} : s \in crons \cup busy \cup {cronMgr, stopOf, lostOf}
               PROVE  FALSE
    BY <2>0 DEF SchedulerIsLeft
  <2>1. \A s \in {1, 2, 3, 4} : s \in crons \cup {cronMgr, stopOf, lostOf}
    BY <1>1 DEF Waiting, JobsAreWaitedFor
  <2>2. CASE Starting("cluster") \/ phase = "startCron"
    <3>1. crons \subseteq {cronMgr} /\ stopOf = 0
      BY <1>1, <2>2, StartOrderFacts
         DEF Starting, TypeOK, OneLeak, BeforeCron, Waiting, PhaseSteps
    <3>2. \A s \in {1, 2, 3, 4} : s = cronMgr \/ s = lostOf
      BY <2>1, <3>1
    <3> QED BY <3>2
  <2>3. CASE watch = "starting"
    <3>1. lostOf = 0 /\ \A r, s \in crons : r = s
      BY <1>1, <2>3 DEF OneLeak, Waiting
    <3> QED BY <2>1, <3>1
  <2> QED BY <2>2, <2>3
<1> QED BY Invariance, <1>1, PTL
=============================================================================
