---------------------------- MODULE GatewayProofs ----------------------------
(***************************************************************************)
(* internal/fpm's Manager, by itself and under internal/gateway's Server,  *)
(* for any number of restarts and of requests: there is one PHP-FPM at a   *)
(* time, someone watches it, and Shutdown stops it under no request unless *)
(* the drain gave up.  FPMInv is the inductive invariant of the manager.   *)
(***************************************************************************)
EXTENDS Gateway, FiniteSetTheorems, TLAPS

Acting(p) == mon[p] \notin {"none", "done"}

\* Whoever holds m.mu is in the step that holds it.
LockHeld ==
    /\ lock = "owner" <=> owner \in {"starting", "stopping"}
    /\ lock = "monitor" <=> \E p \in Managed : mon[p] = "starting"
    /\ lock = "hup" <=> hup = "reloading"

\* There is one monitor at a time, and none before the first Start is over.
OneMonitor ==
    /\ \A p, q \in Managed : Acting(p) /\ Acting(q) => p = q
    /\ owner \in {"new", "starting"} => \A p \in Managed : ~Acting(p)

\* Only the process of m.cmd can be alive, and only while m.running is set;
\* Start waits for a process it has spawned.
AliveIsCmd ==
    /\ \A q \in Managed : procs[q] = "alive" => q = cmd /\ running
    /\ (owner = "starting" \/ \E p \in Managed : mon[p] = "starting") /\ ~external =>
            cmd \in Managed

\* A monitor that waits, waits for the process of m.cmd.
MonitorWatchesCmd ==
    \A p \in Managed :
        /\ mon[p] \in {"waiting", "exited"} => watch[p] = cmd /\ cmd # 0
        /\ mon[p] = "exited" => procs[cmd] = "exited"

\* An FPM that is not ours is neither spawned nor watched.
ExternalIsLeftAlone ==
    external => /\ cmd = 0
                /\ \A p \in Managed : procs[p] # "alive" /\ mon[p] = "none"

\* While nobody starts or stops FPM, a process that is alive has a monitor.
AliveIsWatched ==
    lock \in {"free", "hup"} /\ (\E q \in Managed : procs[q] = "alive") =>
        \E p \in Managed : mon[p] \in {"spawned", "waiting", "exited"}

FPMInv ==
    /\ TypeOK
    /\ LockHeld
    /\ OneMonitor
    /\ AliveIsCmd
    /\ MonitorWatchesCmd
    /\ ExternalIsLeftAlone
    /\ AliveIsWatched

-----------------------------------------------------------------------------
(* The manager. *)

\* Process 0 is not one of the manager's.
LEMMA ManagedFacts ==
    /\ Managed \subseteq 0 .. MaxProcs /\ 0 \notin Managed
    /\ \A p \in 0 .. MaxProcs : p # 0 => p \in Managed
    /\ 0 \in 0 .. MaxProcs
BY MaxProcsAssumption DEF Managed

\* A manager that was just made satisfies the invariant.
LEMMA FPMInit == Init => FPMInv
<1> SUFFICES ASSUME Init PROVE FPMInv
  OBVIOUS
<1>1. TypeOK
  <2>1. procs \in [0 .. MaxProcs -> {"none", "alive", "exited"}]
    <3>1. PICK s \in {"none", "alive", "exited"} :
              procs = [p \in 0 .. MaxProcs |-> IF p = 0 THEN s ELSE "none"]
      BY DEF Init
    <3> QED BY <3>1
  <2>2. watch \in [Managed -> 0 .. MaxProcs] /\ cmd \in 0 .. MaxProcs
    BY ManagedFacts DEF Init
  <2> QED BY <2>1, <2>2 DEF Init, TypeOK
<1>2. \A p \in Managed : procs[p] = "none"
  BY ManagedFacts DEF Init
<1> QED BY <1>1, <1>2
        DEF Init, FPMInv, LockHeld, OneMonitor, Acting, AliveIsCmd, MonitorWatchesCmd,
            ExternalIsLeftAlone, AliveIsWatched

\* Processes end, and the external FPM comes up.
LEMMA EnvironmentInv ==
    ASSUME FPMInv, ExternalComesUp \/ \E p \in 0 .. MaxProcs : ProcessExits(p)
    PROVE  FPMInv'
<1> USE ManagedFacts
        DEF FPMInv, TypeOK, LockHeld, OneMonitor, Acting, AliveIsCmd, MonitorWatchesCmd,
            ExternalIsLeftAlone, AliveIsWatched
<1>1. CASE ExternalComesUp
  BY <1>1 DEF ExternalComesUp
<1>2. ASSUME NEW p \in 0 .. MaxProcs, ProcessExits(p) PROVE FPMInv'
  BY <1>2 DEF ProcessExits
<1> QED BY <1>1, <1>2

\* The engine's Start.
LEMMA EngineStartInv ==
    ASSUME FPMInv, EngineStart \/ EngineStarted
    PROVE  FPMInv'
<1> USE ManagedFacts
        DEF FPMInv, TypeOK, LockHeld, OneMonitor, Acting, AliveIsCmd, MonitorWatchesCmd,
            ExternalIsLeftAlone, AliveIsWatched
<1>1. CASE EngineStart /\ StartBegins("owner")
  BY <1>1 DEF EngineStart, StartBegins, StartRefused
<1>2. CASE EngineStart /\ StartRefused
  BY <1>2 DEF EngineStart, StartBegins, StartRefused
<1>3. CASE EngineStarted /\ StartSucceeds("owner")
  BY <1>3 DEF EngineStarted, StartSucceeds, StartTimesOut, Monitored
<1>4. CASE EngineStarted /\ StartTimesOut("owner")
  BY <1>4 DEF EngineStarted, StartSucceeds, StartTimesOut, Monitored
<1> QED BY <1>1, <1>2, <1>3, <1>4 DEF EngineStart, EngineStarted

\* The engine's Stop, and Reload on SIGHUP.
LEMMA EngineStopInv ==
    ASSUME FPMInv, EngineStop \/ EngineStopped \/ Reload \/ ReloadReturns
    PROVE  FPMInv'
<1> USE ManagedFacts
        DEF FPMInv, TypeOK, LockHeld, OneMonitor, Acting, AliveIsCmd, MonitorWatchesCmd,
            ExternalIsLeftAlone, AliveIsWatched
<1>1. CASE EngineStop
  BY <1>1 DEF EngineStop
<1>2. CASE EngineStopped
  BY <1>2 DEF EngineStopped
<1>3. CASE Reload
  BY <1>3 DEF Reload
<1>4. CASE ReloadReturns
  BY <1>4 DEF ReloadReturns
<1> QED BY <1>1, <1>2, <1>3, <1>4

\* A monitor up to the end of its two seconds.
LEMMA MonitorWaitsInv ==
    ASSUME FPMInv, NEW p \in Managed,
           MonitorBegins(p) \/ MonitorSeesExit(p) \/ MonitorMarksStopped(p)
    PROVE  FPMInv'
<1> USE ManagedFacts
        DEF FPMInv, TypeOK, LockHeld, OneMonitor, Acting, AliveIsCmd, MonitorWatchesCmd,
            ExternalIsLeftAlone, AliveIsWatched
<1>1. CASE MonitorBegins(p)
  BY <1>1 DEF MonitorBegins
<1>2. CASE MonitorSeesExit(p)
  BY <1>2 DEF MonitorSeesExit
<1>3. CASE MonitorMarksStopped(p)
  BY <1>3 DEF MonitorMarksStopped
<1> QED BY <1>1, <1>2, <1>3

\* The Start that a monitor calls.
LEMMA MonitorRestartsInv ==
    ASSUME FPMInv, NEW p \in Managed, MonitorRestarts(p) \/ MonitorRestarted(p)
    PROVE  FPMInv'
<1> USE ManagedFacts
        DEF FPMInv, TypeOK, LockHeld, OneMonitor, Acting, AliveIsCmd, MonitorWatchesCmd,
            ExternalIsLeftAlone, AliveIsWatched
<1>1. CASE MonitorRestarts(p) /\ StartBegins("monitor")
  BY <1>1 DEF MonitorRestarts, StartBegins, StartRefused
<1>2. CASE MonitorRestarts(p) /\ ~StartBegins("monitor")
  BY <1>2 DEF MonitorRestarts, StartRefused
<1>3. ASSUME MonitorRestarted(p), StartSucceeds("monitor"),
             mon' = Monitored([mon EXCEPT ![p] = "done"])
      PROVE  FPMInv'
  <2>1. ~external /\ cmd \in Managed /\ mon' = [mon EXCEPT ![p] = "done", ![cmd] = "spawned"]
    BY <1>3 DEF MonitorRestarted, Monitored
  <2>2. \A q \in Managed : mon'[q] = IF q = cmd THEN "spawned" ELSE IF q = p THEN "done" ELSE mon[q]
    BY <2>1
  <2>3. \A q \in Managed : q # cmd => mon'[q] \in {"none", "done"}
    BY <1>3, <2>2 DEF MonitorRestarted
  <2>4. TypeOK' /\ LockHeld'
    BY <1>3, <2>1, <2>2, <2>3 DEF MonitorRestarted, StartSucceeds
  <2> QED BY <1>3, <2>1, <2>2, <2>3, <2>4 DEF MonitorRestarted, StartSucceeds
<1>4. CASE MonitorRestarted(p) /\ StartTimesOut("monitor")
  BY <1>4 DEF MonitorRestarted, StartSucceeds, StartTimesOut, Monitored
<1> QED BY <1>1, <1>2, <1>3, <1>4 DEF MonitorRestarts, MonitorRestarted

\* Every step of the manager preserves the invariant.
LEMMA FPMStep == FPMInv /\ [Next]_vars => FPMInv'
<1>1. FPMInv /\ UNCHANGED vars => FPMInv'
  BY DEF FPMInv, TypeOK, LockHeld, OneMonitor, Acting, AliveIsCmd, MonitorWatchesCmd,
         ExternalIsLeftAlone, AliveIsWatched, vars
<1> QED BY <1>1, EnvironmentInv, EngineStartInv, EngineStopInv, MonitorWaitsInv,
           MonitorRestartsInv DEF Next, Monitor

-----------------------------------------------------------------------------
(* The gateway on top of it. *)

\* FPM is stopped after the server, and a server that has stopped without
\* giving up has no request and receives none.
DrainInv ==
    /\ owner \in {"stopping", "stopped"} => gw = "stopped"
    /\ gw = "stopped" => gaveUp \/ Active = {}

GInv == FPMInv /\ GTypeOK /\ DrainInv

\* The engine and the server, both new.
LEMMA GatewayInit == GInit => GInv
<1> SUFFICES ASSUME GInit PROVE GInv
  OBVIOUS
<1>1. FPMInv
  BY FPMInit DEF GInit
<1>2. TypeOK
  BY <1>1 DEF FPMInv
<1>3. GTypeOK
  BY <1>2 DEF GInit, GTypeOK
<1> QED BY <1>1, <1>3 DEF GInit, Init, GInv, DrainInv

\* The gateway leaves the manager's state to the manager.
LEMMA GatewayStepIsFPMStep == [GNext]_gvars => [Next]_vars
<1> SUFFICES ASSUME [GNext]_gvars PROVE [Next]_vars
  OBVIOUS
<1>1. CASE ManageFPM
  BY <1>1 DEF ManageFPM, Next
<1>2. CASE GatewayStart \/ GatewayStop \/ GatewayStopped
  BY <1>2 DEF GatewayStart, GatewayStop, GatewayStopped
<1>3. CASE \E r \in Request : Receive(r) \/ AskIsRunning(r) \/ Forward(r) \/ Answer(r)
  BY <1>3 DEF Receive, AskIsRunning, Forward, Answer
<1>4. CASE UNCHANGED gvars
  BY <1>4 DEF gvars
<1> QED BY <1>1, <1>2, <1>3, <1>4 DEF GNext

\* Every step of the engine, the server and the requests.
LEMMA GatewayStep == GInv /\ [GNext]_gvars => GInv'
<1> SUFFICES ASSUME GInv, [GNext]_gvars PROVE GInv'
  OBVIOUS
<1>1. FPMInv' /\ TypeOK'
  BY GatewayStepIsFPMStep, FPMStep DEF GInv, FPMInv
<1> USE DEF GInv, GTypeOK, DrainInv, Active
<1>2. CASE ManageFPM
  <2>1. owner' \in {"stopping", "stopped"} => gw = "stopped"
    BY <1>2 DEF ManageFPM, EngineStart, EngineStarted, EngineStop, EngineStopped, Reload,
                ReloadReturns, ExternalComesUp, ProcessExits, Monitor, MonitorBegins,
                MonitorSeesExit, MonitorMarksStopped, MonitorRestarts, MonitorRestarted
  <2>2. UNCHANGED web
    BY <1>2 DEF ManageFPM
  <2> QED BY <1>1, <2>1, <2>2 DEF web
<1>3. CASE GatewayStart \/ GatewayStop
  BY <1>1, <1>3 DEF GatewayStart, GatewayStop, vars
<1>4. CASE GatewayStopped
  <2>1. req' = req /\ via' = via /\ Active' = Active
    BY <1>4 DEF GatewayStopped
  <2>2. GTypeOK'
    BY <1>1, <1>4, <2>1 DEF GatewayStopped
  <2>3. DrainInv'
    BY <1>4, <2>1 DEF GatewayStopped, vars
  <2> QED BY <1>1, <2>2, <2>3
<1>5. ASSUME NEW r \in Request, Receive(r) PROVE GInv'
  BY <1>1, <1>5 DEF Receive, vars
<1>6. ASSUME NEW r \in Request, AskIsRunning(r) PROVE GInv'
  BY <1>1, <1>6 DEF AskIsRunning, vars
<1>7. ASSUME NEW r \in Request, Forward(r) PROVE GInv'
  BY <1>1, <1>7 DEF Forward, vars
<1>8. ASSUME NEW r \in Request, Answer(r) PROVE GInv'
  BY <1>1, <1>8 DEF Answer, vars
<1>9. CASE UNCHANGED gvars
  BY <1>1, <1>9 DEF gvars, web, vars
<1> QED BY <1>2, <1>3, <1>4, <1>5, <1>6, <1>7, <1>8, <1>9 DEF GNext

\* The invariant holds of every reachable state.
LEMMA GatewayInvariance == GSpec => []GInv
BY GatewayInit, GatewayStep, PTL DEF GSpec

-----------------------------------------------------------------------------

\* A set all of whose members are equal has at most one.
LEMMA AtMostOne ==
    ASSUME NEW S, \A x, y \in S : x = y
    PROVE  Cardinality(S) <= 1
<1>1. CASE S = {}
  BY <1>1, FS_EmptySet
<1>2. ASSUME NEW x \in S PROVE Cardinality(S) <= 1
  <2>1. S = {x}
    BY <1>2
  <2> QED BY <2>1, FS_Singleton
<1> QED BY <1>1, <1>2

\* Under the gateway the manager behaves as FPM's own specification says: no
\* request and no shutdown of the server makes it take any other step.
THEOREM GatewayImplementsFPM == GSpec => Spec
<1>1. GInit => Init
  BY DEF GInit
<1> QED BY <1>1, GatewayStepIsFPMStep, PTL DEF GSpec, Spec

\* Server and manager keep their types.
THEOREM GatewayTypeCorrect == GSpec => []GTypeOK
<1>1. GInv => GTypeOK
  BY DEF GInv
<1> QED BY <1>1, GatewayInvariance, PTL

\* However often FPM crashes and monitors restart it, Start never spawns a
\* process while another one is alive.
THEOREM OneFPM == GSpec => []OneProcess
<1>1. GInv => OneProcess
  BY AtMostOne DEF GInv, FPMInv, AliveIsCmd, OneProcess, Alive
<1> QED BY <1>1, GatewayInvariance, PTL

\* Whenever the mutex is free, the process that is alive is the one of m.cmd
\* and exactly one monitor goroutine waits for its exit or is about to.
THEOREM FPMIsSupervised == GSpec => []Supervised
<1>1. ASSUME GInv PROVE Supervised
  <2> USE DEF GInv, FPMInv
  <2>1. Cardinality({p \in Managed : mon[p] \notin {"none", "done"}}) <= 1
    BY <1>1, AtMostOne DEF OneMonitor, Acting
  <2>2. ASSUME lock = "free", NEW q \in Alive
        PROVE  cmd = q /\ Cardinality({p \in Managed : Watches(p, q)}) = 1
    <3>1. q \in Managed /\ cmd = q
      BY <1>1, <2>2 DEF Alive, AliveIsCmd
    <3>2. PICK p \in Managed : mon[p] \in {"spawned", "waiting", "exited"}
      BY <1>1, <2>2 DEF Alive, AliveIsWatched
    <3>3. Watches(p, q)
      BY <1>1, <3>1, <3>2 DEF Watches, MonitorWatchesCmd
    <3>4. \A r \in Managed : Watches(r, q) => r = p
      BY <1>1, <3>2 DEF Watches, OneMonitor, Acting
    <3>5. {r \in Managed : Watches(r, q)} = {p}
      BY <3>3, <3>4
    <3> QED BY <3>1, <3>5, FS_Singleton
  <2> QED BY <2>1, <2>2 DEF Supervised
<1> QED BY <1>1, GatewayInvariance, PTL

\* Shutdown stops FPM only after the server, and under no request unless the
\* drain gave up, for any number of requests, crashes and restarts of FPM.
THEOREM DrainIsFinal == GSpec => []DrainedBeforeStop
<1>1. GInv => DrainedBeforeStop
  BY DEF GInv, DrainInv, DrainedBeforeStop
<1> QED BY <1>1, GatewayInvariance, PTL
=============================================================================
