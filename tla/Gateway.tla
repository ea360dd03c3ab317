------------------------------- MODULE Gateway -------------------------------
(***************************************************************************)
(* internal/gateway's Server on top of FPM, as the engine starts and stops *)
(* them: FPM first, then the gateway; the gateway is drained before FPM is *)
(* stopped.  Every request is a goroutine of net/http.                     *)
(*                                                                         *)
(* A PHP request reads m.running under the mutex and is forwarded later:   *)
(* in between FPM may crash, restart, reload or be stopped.  via[r] is the *)
(* process that has taken request r.  Requests for internal endpoints and  *)
(* static files meet no shared state and are answered in one step.         *)
(***************************************************************************)
EXTENDS FPM

CONSTANTS Request,  \* requests that are handled at the same time
          NoProc    \* no process has taken the request

ASSUME NoProcAssumption == NoProc \notin 0 .. MaxProcs

VARIABLES phpEnabled,  \* config.PHPFPM.Enabled
          gw,          \* the HTTP server
          gaveUp,      \* Shutdown of the HTTP server ran out of its 30 seconds
          req, via

web == <<phpEnabled, gw, gaveUp, req, via>>
gvars == <<vars, web>>

GTypeOK ==
    /\ TypeOK
    /\ phpEnabled \in BOOLEAN
    /\ gw \in {"none", "listening", "deaf", "draining", "stopped"}
    /\ gaveUp \in BOOLEAN
    /\ req \in [Request -> {"none", "asking", "forwarding"}]
    /\ via \in [Request -> 0 .. MaxProcs \cup {NoProc}]

GInit ==
    /\ Init
    /\ phpEnabled \in BOOLEAN
    /\ gw = "none" /\ gaveUp = FALSE
    /\ req = [r \in Request |-> "none"] /\ via = [r \in Request |-> NoProc]

-----------------------------------------------------------------------------
(* The server. *)

\* Start: ListenAndServe runs in a goroutine of its own, and when it fails
\* that is only logged.
GatewayStart ==
    /\ gw = "none" /\ (phpEnabled => owner = "up")
    /\ gw' \in {"listening", "deaf"}
    /\ UNCHANGED <<vars, phpEnabled, gaveUp, req, via>>

\* Stop, from the engine's Shutdown: nothing new is accepted.
GatewayStop ==
    /\ gw \in {"listening", "deaf"}
    /\ gw' = "draining"
    /\ UNCHANGED <<vars, phpEnabled, gaveUp, req, via>>

Active == {r \in Request : req[r] # "none"}

\* Faulty variant of GatewayStopped, for the mutation runs.
GatewayStoppedWaits ==
    /\ gw = "draining" /\ Active = {}
    /\ gw' = "stopped"
    /\ UNCHANGED <<vars, phpEnabled, gaveUp, req, via>>

\* All requests have ended, or 30 seconds have passed; those that have not
\* ended go on.
GatewayStopped ==
    /\ gw = "draining"
    /\ gw' = "stopped"
    /\ \/ Active = {} /\ UNCHANGED gaveUp
       \/ gaveUp' = TRUE
    /\ UNCHANGED <<vars, phpEnabled, req, via>>

-----------------------------------------------------------------------------
(* createHandler and servePHP. *)

\* A PHP request.  Without a PHP handler it is refused at once.
Receive(r) ==
    /\ gw = "listening" /\ req[r] = "none" /\ phpEnabled
    /\ req' = [req EXCEPT ![r] = "asking"]
    /\ UNCHANGED <<vars, phpEnabled, gw, gaveUp, via>>

\* IsRunning takes the mutex for reading, as Reload does.
AskIsRunning(r) ==
    /\ req[r] = "asking" /\ lock \in {"free", "hup"}
    /\ req' = [req EXCEPT ![r] = IF running THEN "forwarding" ELSE "none"]
    /\ UNCHANGED <<vars, phpEnabled, gw, gaveUp, via>>

\* The FastCGI client gets through to a process that is alive, or fails.
Forward(r) ==
    /\ req[r] = "forwarding" /\ via[r] = NoProc
    /\ \/ \E p \in 0 .. MaxProcs : /\ procs[p] = "alive"
                                   /\ via' = [via EXCEPT ![r] = p]
                                   /\ UNCHANGED req
       \/ req' = [req EXCEPT ![r] = "none"] /\ UNCHANGED via
    /\ UNCHANGED <<vars, phpEnabled, gw, gaveUp>>

\* The process answers, or it has exited and the connection breaks.
Answer(r) ==
    /\ via[r] # NoProc
    /\ req' = [req EXCEPT ![r] = "none"] /\ via' = [via EXCEPT ![r] = NoProc]
    /\ UNCHANGED <<vars, phpEnabled, gw, gaveUp>>

-----------------------------------------------------------------------------
(* FPM, with the engine's Start before the gateway's and its Stop after it. *)

\* Faulty variant of ManageFPM, for the mutation runs.
ManageFPMUnordered == phpEnabled /\ Next /\ UNCHANGED web

ManageFPM ==
    /\ \/ EngineStart \/ EngineStarted \/ EngineStopped
       \/ gw = "stopped" /\ EngineStop
       \/ Reload \/ ReloadReturns
       \/ ExternalComesUp \/ \E p \in 0 .. MaxProcs : ProcessExits(p)
       \/ \E p \in Managed : Monitor(p)
    /\ phpEnabled
    /\ UNCHANGED web

GNext ==
    \/ ManageFPM
    \/ GatewayStart \/ GatewayStop \/ GatewayStopped
    \/ \E r \in Request : Receive(r) \/ AskIsRunning(r) \/ Forward(r) \/ Answer(r)

\* As in FPM; the wait of GatewayStopped ends after 30 seconds, and whoever
\* waits for the mutex gets it.  Nothing makes PHP answer.
GSpec ==
    /\ GInit /\ [][GNext]_gvars
    /\ WF_gvars(EngineStarted /\ UNCHANGED web) /\ WF_gvars(EngineStopped /\ UNCHANGED web)
    /\ WF_gvars(ReloadReturns /\ UNCHANGED web) /\ WF_gvars(GatewayStopped)
    /\ SF_gvars(gw = "stopped" /\ EngineStop /\ UNCHANGED web)
    /\ \A p \in Managed : SF_gvars(Monitor(p) /\ UNCHANGED web)
    /\ \A r \in Request : SF_gvars(AskIsRunning(r))

-----------------------------------------------------------------------------
(* Properties. *)

\* Shutdown stops FPM under no request, wherever that is between the question
\* to IsRunning and its answer: from the moment Shutdown calls Stop of FPM the
\* server has stopped, and unless the drain gave up after 30 seconds nothing
\* is being handled.
DrainedBeforeStop ==
    owner \in {"stopping", "stopped"} => gw = "stopped" /\ (gaveUp \/ Active = {})

\* No request waits for the mutex for ever, although Start, Stop and Reload
\* hold it for up to 30 seconds.
RequestsGetThrough == \A r \in Request : (req[r] = "asking") ~> (req[r] # "asking")

\* A shutdown ends, with FPM stopped, even if PHP never answers.
ShutdownEnds == (gw = "draining") ~> (gw = "stopped" /\ (phpEnabled => owner = "stopped"))
=============================================================================
