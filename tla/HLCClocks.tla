----------------------------- MODULE HLCClocks -----------------------------
(***************************************************************************)
(* Nodes that stamp events with the clocks of internal/hlc.                *)
(*                                                                         *)
(* Every node reads its own wall clock, time + skew[n]; skew[n] moves      *)
(* between 0 and MaxSkew, forwards or backwards, as NTP steps a clock.     *)
(* clocks is the map of hlc.Context: a clock exists once GetClock, NowFor  *)
(* or UpdateFor has been called for the node.  Any stamp ever issued may   *)
(* reach any node at any later time, any number of times or never.         *)
(*                                                                         *)
(* events and vc are history variables: every event carries the vector     *)
(* clock of its node, the reference definition of "happened before" that   *)
(* the stamps are compared with.                                           *)
(***************************************************************************)
EXTENDS HLC, FiniteSets

CONSTANTS Node,       \* the node identifiers
          NoClock,    \* stands for a clock the Context has not created
          MaxSkew,    \* how far a wall clock may run ahead of true time
          LagAllowed, \* Update may be called while the wall clock lags behind the clock
          MaxTime,    \* bound on time
          MaxEvents   \* bound on the number of events

ASSUME SkewAssumption == MaxSkew \in Nat
ASSUME LagAssumption == LagAllowed \in BOOLEAN
ASSUME BoundsAssumption == MaxTime \in Nat /\ MaxEvents \in Nat
ASSUME NoClockAssumption == NoClock \notin Timestamp

VARIABLES time, skew, clocks, vc, events

vars == <<time, skew, clocks, vc, events>>

Event == [node : Node, ts : Timestamp, vc : [Node -> Nat]]

TypeOK ==
    /\ time \in Nat
    /\ skew \in [Node -> 0 .. MaxSkew]
    /\ clocks \in [Node -> Timestamp \cup {NoClock}]
    /\ vc \in [Node -> [Node -> Nat]]
    /\ events \subseteq Event

Init ==
    /\ time = 0
    /\ skew = [n \in Node |-> 0]
    /\ clocks = [n \in Node |-> NoClock]
    /\ vc = [n \in Node |-> [m \in Node |-> 0]]
    /\ events = {}

-----------------------------------------------------------------------------

Wall(n) == time + skew[n]

\* The clock GetClock returns: the existing one, or a new one.
ClockOf(n) == IF clocks[n] = NoClock THEN NewClock(Wall(n)) ELSE clocks[n]

\* Node n stamps a new event with ts; v is its causal past.
Issue(n, ts, v) ==
    LET w == [v EXCEPT ![n] = @ + 1]
    IN  /\ clocks' = [clocks EXCEPT ![n] = ts]
        /\ vc' = [vc EXCEPT ![n] = w]
        /\ events' = events \cup {[node |-> n, ts |-> ts, vc |-> w]}

Join(v, w) == [m \in Node |-> IF v[m] < w[m] THEN w[m] ELSE v[m]]

Tick ==
    /\ time < MaxTime
    /\ time' = time + 1
    /\ UNCHANGED <<skew, clocks, vc, events>>

\* The wall clock of node n is set.
StepWallClock(n) ==
    /\ skew' \in {[skew EXCEPT ![n] = d] : d \in (0 .. MaxSkew) \ {skew[n]}}
    /\ UNCHANGED <<time, clocks, vc, events>>

\* Context.GetClock, the clock being new.
GetClock(n) ==
    /\ clocks[n] = NoClock
    /\ clocks' = [clocks EXCEPT ![n] = ClockOf(n)]
    /\ UNCHANGED <<time, skew, vc, events>>

\* Context.NowFor: a local event.
NowFor(n) ==
    /\ Cardinality(events) < MaxEvents
    /\ Issue(n, ClockNow(ClockOf(n), Wall(n)), vc[n])
    /\ UNCHANGED <<time, skew>>

\* Context.UpdateFor: node n receives e's stamp, and that is an event.
UpdateFor(n, e) ==
    /\ LagAllowed \/ ClockOf(n).p <= Wall(n)
    /\ Cardinality(events) < MaxEvents
    /\ Issue(n, ClockUpdate(ClockOf(n), e.ts, Wall(n)), Join(vc[n], e.vc))
    /\ UNCHANGED <<time, skew>>

\* Clock.Witness: node n receives e's stamp, and that is no event.
Witness(n, e) ==
    /\ clocks[n] # NoClock
    /\ clocks' = [clocks EXCEPT ![n] = ClockWitness(@, e.ts, Wall(n))]
    /\ vc' = [vc EXCEPT ![n] = Join(@, e.vc)]
    /\ UNCHANGED <<time, skew, events>>

Next ==
    \/ Tick
    \/ \E n \in Node : StepWallClock(n) \/ GetClock(n) \/ NowFor(n)
    \/ \E n \in Node, e \in events : UpdateFor(n, e) \/ Witness(n, e)

Spec == Init /\ [][Next]_vars

-----------------------------------------------------------------------------

HappenedBefore(e, f) == e # f /\ e.vc[e.node] <= f.vc[e.node]

\* The stamps order events as causality does: what happened before carries
\* the smaller stamp (hlc.go, package comment: "Causal ordering").
CausalOrder == \A e, f \in events : HappenedBefore(e, f) => Less(e.ts, f.ts)

\* Every stamp a node has issued or received, directly or through other
\* nodes, is covered by its clock, so its next stamp exceeds all of them.
ClockCoversPast ==
    \A n \in Node, e \in events :
        e.vc[e.node] <= vc[n][e.node] =>
            clocks[n] # NoClock /\ LessOrEqual(e.ts, clocks[n])

\* No method moves a clock backwards: Now, Update and Witness only raise
\* latest (Witness: "ensure physical clock doesn't drift backwards").
ClockMonotone ==
    [][\A n \in Node : clocks[n] # NoClock =>
            clocks'[n] # NoClock /\ LessOrEqual(clocks[n], clocks'[n])]_vars
=============================================================================
