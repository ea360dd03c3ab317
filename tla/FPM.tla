--------------------------------- MODULE FPM ---------------------------------
(***************************************************************************)
(* internal/fpm's Manager: the engine that starts and stops PHP-FPM, the   *)
(* SIGHUP handler that reloads it and the monitor goroutines that restart  *)
(* it.  Start, Stop and Reload hold the mutex while they wait, so each is  *)
(* two steps: taking the lock, and the end of the wait.                    *)
(*                                                                         *)
(* Process 0 is an FPM the manager does not own (External); processes      *)
(* 1 .. MaxProcs are the ones it spawns, in that order.  mon[p] is the     *)
(* monitor goroutine that Start launched for process p, watch[p] the       *)
(* process whose exit it waits for.                                        *)
(***************************************************************************)
EXTENDS Integers, FiniteSets

CONSTANT MaxProcs  \* bound on the processes spawned

ASSUME MaxProcsAssumption == MaxProcs \in Nat \ {0}

Managed == 1 .. MaxProcs

VARIABLES external,  \* config: connect to an FPM that is not ours
          procs,     \* what the processes are doing
          cmd,       \* the process of m.cmd, 0 when there is none
          running,   \* m.running
          lock,      \* who holds m.mu
          owner,     \* where the engine is
          hup,       \* where the SIGHUP handler is
          mon, watch

vars == <<external, procs, cmd, running, lock, owner, hup, mon, watch>>

TypeOK ==
    /\ external \in BOOLEAN
    /\ procs \in [0 .. MaxProcs -> {"none", "alive", "exited"}]
    /\ cmd \in 0 .. MaxProcs
    /\ running \in BOOLEAN
    /\ lock \in {"free", "owner", "hup", "monitor"}
    /\ owner \in {"new", "starting", "up", "failed", "stopping", "stopped"}
    /\ hup \in {"idle", "reloading"}
    /\ mon \in [Managed -> {"none", "spawned", "waiting", "exited", "sleeping", "starting", "done"}]
    /\ watch \in [Managed -> 0 .. MaxProcs]

Init ==
    /\ external \in BOOLEAN
    /\ procs \in {[p \in 0 .. MaxProcs |-> IF p = 0 THEN s ELSE "none"] :
                     s \in IF external THEN {"alive", "exited"} ELSE {"none"}}
    /\ cmd = 0
    /\ running = FALSE
    /\ lock = "free"
    /\ owner = "new"
    /\ hup = "idle"
    /\ mon = [p \in Managed |-> "none"]
    /\ watch = [p \in Managed |-> 0]

-----------------------------------------------------------------------------
(* The environment: processes end by themselves or after a signal, and the *)
(* external FPM comes and goes.                                            *)

ProcessExits(p) ==
    /\ procs[p] = "alive"
    /\ procs' = [procs EXCEPT ![p] = "exited"]
    /\ UNCHANGED <<external, cmd, running, lock, owner, hup, mon, watch>>

ExternalComesUp ==
    /\ procs[0] = "exited"
    /\ procs' = [procs EXCEPT ![0] = "alive"]
    /\ UNCHANGED <<external, cmd, running, lock, owner, hup, mon, watch>>

-----------------------------------------------------------------------------
(* Start, called by the engine and by monitors. *)

NextProc == Cardinality({p \in Managed : procs[p] # "none"}) + 1

\* Start takes the lock and, unless FPM is external, spawns a process.
\* m.running is set before the process has answered.
StartBegins(who) ==
    /\ lock = "free" /\ ~running
    /\ lock' = who
    /\ IF external
         THEN UNCHANGED <<procs, cmd, running>>
         ELSE /\ NextProc \in Managed
              /\ procs' = [procs EXCEPT ![NextProc] = "alive"]
              /\ cmd' = NextProc
              /\ running' = TRUE

\* Faulty variant of StartRefused, for the mutation runs.
StartRefusedKeepsPid ==
    /\ lock = "free" /\ ~running /\ ~external
    /\ cmd' = -1
    /\ UNCHANGED <<procs, running, lock>>

\* The socket directory, the configuration or the process cannot be made.
\* In the last case m.cmd already is the command that did not start.
StartRefused ==
    /\ lock = "free" /\ ~running /\ ~external
    /\ cmd' \in {cmd, 0}
    /\ UNCHANGED <<procs, running, lock>>

\* waitForReady gets through to the socket: some FPM is listening.
StartSucceeds(who) ==
    /\ lock = who
    /\ \E p \in 0 .. MaxProcs : procs[p] = "alive"
    /\ lock' = "free"
    /\ running' = TRUE
    /\ UNCHANGED <<procs, cmd>>

\* waitForReady gives up after 30 seconds: the process is killed, m.running
\* stays as it was.
StartTimesOut(who) ==
    /\ lock = who
    /\ lock' = "free"
    /\ procs' = IF external THEN procs ELSE [procs EXCEPT ![cmd] = "exited"]
    /\ UNCHANGED <<cmd, running>>

\* Faulty variant of Monitored, for the mutation runs.
NotMonitored(m) == m

\* go m.monitor(), after a start that succeeded.
Monitored(m) == IF external THEN m ELSE [m EXCEPT ![cmd] = "spawned"]

-----------------------------------------------------------------------------
(* The engine: one Start, then one Stop. *)

EngineStart ==
    /\ owner = "new"
    /\ \/ StartBegins("owner") /\ owner' = "starting"
       \/ StartRefused /\ owner' = "failed"
    /\ UNCHANGED <<external, hup, mon, watch>>

EngineStarted ==
    /\ owner = "starting"
    /\ \/ StartSucceeds("owner") /\ owner' = "up" /\ mon' = Monitored(mon)
       \/ StartTimesOut("owner") /\ owner' = "failed" /\ UNCHANGED mon
    /\ UNCHANGED <<external, hup, watch>>

\* Stop: nothing to do, an external FPM to let go of, or SIGQUIT.
EngineStop ==
    /\ owner = "up" /\ lock = "free"
    /\ IF running /\ ~external
         THEN owner' = "stopping" /\ lock' = "owner" /\ UNCHANGED running
         ELSE owner' = "stopped" /\ running' = FALSE /\ UNCHANGED lock
    /\ UNCHANGED <<external, procs, cmd, hup, mon, watch>>

\* Faulty variant of EngineStopped, for the mutation runs.
EngineStoppedKeepsLock ==
    /\ owner = "stopping"
    /\ procs' = [procs EXCEPT ![cmd] = "exited"]
    /\ running' = FALSE
    /\ owner' = "stopped"
    /\ UNCHANGED <<external, cmd, lock, hup, mon, watch>>

\* The process has exited, or is killed after 30 seconds.
EngineStopped ==
    /\ owner = "stopping"
    /\ procs' = IF cmd = 0 THEN procs ELSE [procs EXCEPT ![cmd] = "exited"]
    /\ running' = FALSE
    /\ lock' = "free"
    /\ owner' = "stopped"
    /\ UNCHANGED <<external, cmd, hup, mon, watch>>

-----------------------------------------------------------------------------
(* Reload on SIGHUP: the engine calls it once FPM was started. *)

Reload ==
    /\ hup = "idle" /\ lock = "free" /\ owner = "up" /\ running
    /\ hup' = "reloading" /\ lock' = "hup"
    /\ UNCHANGED <<external, procs, cmd, running, owner, mon, watch>>

\* FPM answers again, could not be signalled, or 30 seconds have passed.
ReloadReturns ==
    /\ hup = "reloading"
    /\ hup' = "idle" /\ lock' = "free"
    /\ UNCHANGED <<external, procs, cmd, running, owner, mon, watch>>

-----------------------------------------------------------------------------
(* The monitor goroutines. *)

\* monitor reads m.cmd, without the lock, and waits for that process.
MonitorBegins(p) ==
    /\ mon[p] = "spawned"
    /\ mon' = [mon EXCEPT ![p] = IF cmd = 0 THEN "done" ELSE "waiting"]
    /\ watch' = [watch EXCEPT ![p] = cmd]
    /\ UNCHANGED <<external, procs, cmd, running, lock, owner, hup>>

\* Faulty variant of MonitorSeesExit, for the mutation runs.
MonitorPolls(p) ==
    /\ mon[p] = "waiting"
    /\ mon' = [mon EXCEPT ![p] = "exited"]
    /\ UNCHANGED <<external, procs, cmd, running, lock, owner, hup, watch>>

MonitorSeesExit(p) ==
    /\ mon[p] = "waiting" /\ procs[watch[p]] = "exited"
    /\ mon' = [mon EXCEPT ![p] = "exited"]
    /\ UNCHANGED <<external, procs, cmd, running, lock, owner, hup, watch>>

MonitorMarksStopped(p) ==
    /\ mon[p] = "exited" /\ lock = "free"
    /\ running' = FALSE
    /\ mon' = [mon EXCEPT ![p] = "sleeping"]
    /\ UNCHANGED <<external, procs, cmd, lock, owner, hup, watch>>

\* After two seconds the monitor calls Start, which refuses if FPM runs.
MonitorRestarts(p) ==
    /\ mon[p] = "sleeping"
    /\ \/ StartBegins("monitor") /\ mon' = [mon EXCEPT ![p] = "starting"]
       \/ StartRefused /\ mon' = [mon EXCEPT ![p] = "done"]
       \/ /\ lock = "free" /\ running
          /\ mon' = [mon EXCEPT ![p] = "done"]
          /\ UNCHANGED <<procs, cmd, running, lock>>
    /\ UNCHANGED <<external, owner, hup, watch>>

MonitorRestarted(p) ==
    /\ mon[p] = "starting"
    /\ \/ StartSucceeds("monitor") /\ mon' = Monitored([mon EXCEPT ![p] = "done"])
       \/ StartTimesOut("monitor") /\ mon' = [mon EXCEPT ![p] = "done"]
    /\ UNCHANGED <<external, owner, hup, watch>>

Monitor(p) ==
    \/ MonitorBegins(p) \/ MonitorSeesExit(p) \/ MonitorMarksStopped(p)
    \/ MonitorRestarts(p) \/ MonitorRestarted(p)

Next ==
    \/ \E p \in 0 .. MaxProcs : ProcessExits(p)
    \/ ExternalComesUp
    \/ EngineStart \/ EngineStarted \/ EngineStop \/ EngineStopped
    \/ Reload \/ ReloadReturns
    \/ \E p \in Managed : Monitor(p)

Spec == Init /\ [][Next]_vars

-----------------------------------------------------------------------------

Alive == {p \in Managed : procs[p] = "alive"}

Watches(p, q) == mon[p] = "spawned" \/ (mon[p] \in {"waiting", "exited"} /\ watch[p] = q)

\* The manager never has two FPM processes at a time: a monitor starts the
\* next one only after the last one has exited, and Start otherwise refuses
\* with "PHP-FPM is already running".
OneProcess == Cardinality(Alive) <= 1

\* Whenever the mutex is free, every FPM process that is alive is the one
\* m.cmd knows and exactly one monitor will notice that it exits.  No second
\* monitor is ever about to act: one that has restarted FPM or given up never
\* touches it again.
Supervised ==
    /\ Cardinality({p \in Managed : mon[p] \notin {"none", "done"}}) <= 1
    /\ lock = "free" =>
        \A q \in Alive : cmd = q /\ Cardinality({p \in Managed : Watches(p, q)}) = 1

\* Stop is final: once it has returned no FPM process runs (Stop: "stops the
\* PHP-FPM subprocess gracefully").
StopIsFinal == owner = "stopped" => Alive = {}
=============================================================================
