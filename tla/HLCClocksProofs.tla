--------------------------- MODULE HLCClocksProofs ---------------------------
(***************************************************************************)
(* The stamps of internal/hlc respect causality for any number of nodes,   *)
(* provided that the wall clocks agree, or that no node calls Update while *)
(* its wall clock lags behind its HLC.                                     *)
(***************************************************************************)
EXTENDS HLCClocks, HLCProofs

\* The condition under which the clock is correct.
Sound == MaxSkew = 0 \/ ~LagAllowed

\* With wall clocks that agree no stamp is ahead of them.
NoStampAhead ==
    MaxSkew = 0 =>
        /\ \A n \in Node : clocks[n] # NoClock => clocks[n].p <= time
        /\ \A e \in events : e.ts.p <= time

\* Nobody knows of more events of a node than the node itself.
OwnCountIsLargest ==
    /\ \A n, m \in Node : vc[n][m] <= vc[m][m]
    /\ \A e \in events : \A m \in Node : e.vc[m] <= vc[m][m]

\* The inductive invariant.
IInv == TypeOK /\ NoStampAhead /\ OwnCountIsLargest /\ ClockCoversPast /\ CausalOrder

-----------------------------------------------------------------------------

\* What a node's clock covers also holds of the clock GetClock would create.
LEMMA ClockOfFacts ==
    ASSUME IInv, NEW n \in Node
    PROVE  /\ Wall(n) \in Nat
           /\ ClockOf(n) \in Timestamp
           /\ MaxSkew = 0 => Wall(n) = time /\ ClockOf(n).p <= time
           /\ \A e \in events : e.vc[e.node] <= vc[n][e.node] => LessOrEqual(e.ts, ClockOf(n))
<1> USE SkewAssumption
<1>1. time \in Nat /\ skew[n] \in 0 .. MaxSkew
  BY DEF IInv, TypeOK
<1>2. Wall(n) \in Nat /\ (MaxSkew = 0 => Wall(n) = time)
  BY <1>1 DEF Wall
<1>3. ClockOf(n) \in Timestamp
  BY <1>2 DEF ClockOf, NewClock, Stamp, Timestamp, IInv, TypeOK
<1>4. MaxSkew = 0 => ClockOf(n).p <= time
  BY <1>1, <1>2 DEF ClockOf, NewClock, Stamp, IInv, NoStampAhead
<1>5. \A e \in events : e.vc[e.node] <= vc[n][e.node] => LessOrEqual(e.ts, ClockOf(n))
  BY DEF ClockOf, IInv, ClockCoversPast
<1> QED BY <1>2, <1>3, <1>4, <1>5

\* A node that stamps an event above everything in the event's past keeps
\* the invariant.
LEMMA IssueStep ==
    ASSUME IInv, UNCHANGED <<time, skew>>,
           NEW n \in Node, NEW ts \in Timestamp, NEW v \in [Node -> Nat],
           Issue(n, ts, v),
           v[n] = vc[n][n],
           \A m \in Node : v[m] <= vc[m][m],
           MaxSkew = 0 => ts.p <= time,
           \A e \in events : e.vc[e.node] <= v[e.node] => Less(e.ts, ts)
    PROVE  IInv'
<1> DEFINE w == [v EXCEPT ![n] = @ + 1]
           f == [node |-> n, ts |-> ts, vc |-> w]
<1>1. /\ clocks' = [clocks EXCEPT ![n] = ts]
      /\ vc' = [vc EXCEPT ![n] = w]
      /\ events' = events \cup {f}
      /\ time' = time /\ skew' = skew
  BY DEF Issue
<1>2. /\ w \in [Node -> Nat]
      /\ w[n] = vc[n][n] + 1
      /\ \A m \in Node : m # n => w[m] = v[m]
      /\ vc \in [Node -> [Node -> Nat]]
      /\ clocks \in [Node -> Timestamp \cup {NoClock}]
      /\ \A e \in events : e.node \in Node /\ e.ts \in Timestamp /\ e.vc \in [Node -> Nat]
  BY DEF IInv, TypeOK, Event
<1> HIDE DEF w
<1>3. f \in Event /\ f.node = n /\ f.ts = ts /\ f.vc = w
  BY <1>2 DEF Event
<1>4. /\ clocks'[n] = ts /\ vc'[n] = w
      /\ \A m \in Node : m # n => clocks'[m] = clocks[m] /\ vc'[m] = vc[m]
  BY <1>1, <1>2
<1> HIDE DEF f
<1>5. TypeOK'
  BY <1>1, <1>2, <1>3 DEF TypeOK, IInv
<1>6. NoStampAhead'
  BY <1>1, <1>3, <1>4 DEF NoStampAhead, IInv
<1>7. OwnCountIsLargest'
  <2>1. \A m \in Node : vc[m][m] <= vc'[m][m] /\ w[m] <= vc'[m][m]
    BY <1>2, <1>4
  <2>2. \A a, m \in Node : vc'[a][m] <= vc'[m][m]
    <3> TAKE a, m \in Node
    <3>1. CASE a = n
      BY <3>1, <2>1, <1>4
    <3>2. CASE a # n
      <4>1. vc'[a][m] = vc[a][m] /\ vc[a][m] <= vc[m][m]
        BY <3>2, <1>4 DEF IInv, OwnCountIsLargest
      <4>2. vc[a][m] \in Nat /\ vc[m][m] \in Nat /\ vc'[m][m] \in Nat
        BY <1>2, <1>5 DEF TypeOK
      <4> QED BY <4>1, <4>2, <2>1
    <3> QED BY <3>1, <3>2
  <2>3. \A e \in events' : \A m \in Node : e.vc[m] <= vc'[m][m]
    <3> TAKE e \in events'
    <3> TAKE m \in Node
    <3>1. CASE e \in events
      <4>1. e.vc[m] <= vc[m][m]
        BY <3>1 DEF IInv, OwnCountIsLargest
      <4>2. e.vc[m] \in Nat /\ vc[m][m] \in Nat /\ vc'[m][m] \in Nat
        BY <3>1, <1>2, <1>5 DEF TypeOK
      <4> QED BY <4>1, <4>2, <2>1
    <3>2. CASE e = f
      BY <3>2, <2>1, <1>3
    <3> QED BY <3>1, <3>2, <1>1
  <2> QED BY <2>2, <2>3 DEF OwnCountIsLargest
<1>8. \A e \in events : e.vc[e.node] <= w[e.node] => Less(e.ts, ts)
  <2> TAKE e \in events
  <2> HAVE e.vc[e.node] <= w[e.node]
  <2>1. e.vc[e.node] <= vc[e.node][e.node] /\ e.node \in Node
    BY <1>2 DEF IInv, OwnCountIsLargest
  <2>2. e.vc[e.node] <= v[e.node]
    BY <2>1, <1>2
  <2> QED BY <2>2
<1>9. \A e \in events, m \in Node : e.vc[e.node] <= vc[m][e.node] =>
                                      clocks[m] # NoClock /\ LessOrEqual(e.ts, clocks[m])
  BY DEF IInv, ClockCoversPast
<1>10. ClockCoversPast'
  <2> SUFFICES ASSUME NEW m \in Node, NEW e \in events', e.vc[e.node] <= vc'[m][e.node]
               PROVE  clocks'[m] # NoClock /\ LessOrEqual(e.ts, clocks'[m])
    BY DEF ClockCoversPast
  <2>1. CASE m = n
    <3>1. clocks'[m] = ts /\ ts # NoClock
      BY <2>1, <1>4, NoClockAssumption
    <3>2. CASE e \in events
      BY <3>1, <3>2, <1>8, <1>4, <2>1 DEF LessOrEqual
    <3>3. CASE e = f
      BY <3>1, <3>3, <1>3 DEF LessOrEqual
    <3> QED BY <3>2, <3>3, <1>1
  <2>2. CASE m # n
    <3>1. CASE e \in events
      BY <3>1, <2>2, <1>4, <1>9
    <3>2. CASE e = f
      <4>1. w[n] <= vc[m][n]
        BY <3>2, <2>2, <1>3, <1>4
      <4>2. vc[m][n] <= vc[n][n] /\ vc[m][n] \in Nat /\ vc[n][n] \in Nat
        BY <1>2 DEF IInv, OwnCountIsLargest
      <4> QED BY <4>1, <4>2, <1>2
    <3> QED BY <3>1, <3>2, <1>1
  <2> QED BY <2>1, <2>2
<1>11. CausalOrder'
  <2> SUFFICES ASSUME NEW e \in events', NEW g \in events', HappenedBefore(e, g)
               PROVE  Less(e.ts, g.ts)
    BY DEF CausalOrder, HappenedBefore
  <2>0. e # g /\ e.vc[e.node] <= g.vc[e.node]
    BY DEF HappenedBefore
  <2>1. CASE e \in events /\ g \in events
    BY <2>1 DEF IInv, CausalOrder
  <2>2. CASE e \in events /\ g = f
    BY <2>0, <2>2, <1>3, <1>8
  <2>3. CASE e = f /\ g \in events
    <3>1. w[n] <= g.vc[n] /\ g.vc[n] <= vc[n][n]
      BY <2>0, <2>3, <1>3 DEF IInv, OwnCountIsLargest
    <3>2. g.vc[n] \in Nat /\ vc[n][n] \in Nat
      BY <2>3, <1>2
    <3> QED BY <3>1, <3>2, <1>2
  <2> QED BY <2>0, <2>1, <2>2, <2>3, <1>1
<1> QED BY <1>5, <1>6, <1>7, <1>10, <1>11 DEF IInv

\* The invariant holds initially and every step of a sound system keeps it.
LEMMA Inductive ==
    ASSUME Sound
    PROVE  (Init => IInv) /\ (IInv /\ [Next]_vars => IInv')
<1> USE SkewAssumption, NoClockAssumption
<1>1. Init => IInv
  BY DEF Init, IInv, TypeOK, NoStampAhead, OwnCountIsLargest, ClockCoversPast, CausalOrder
<1>2. ASSUME IInv, [Next]_vars PROVE IInv'
  <2>0. /\ vc \in [Node -> [Node -> Nat]]
        /\ clocks \in [Node -> Timestamp \cup {NoClock}]
        /\ \A e \in events : e.node \in Node /\ e.ts \in Timestamp /\ e.vc \in [Node -> Nat]
    BY <1>2 DEF IInv, TypeOK, Event
  <2>1. CASE Tick
    <3>1. time \in Nat /\ time' = time + 1 /\ time' \in Nat
      BY <1>2, <2>1 DEF Tick, IInv, TypeOK
    <3>2. UNCHANGED <<skew, clocks, vc, events>>
      BY <2>1 DEF Tick
    <3>3. TypeOK'
      BY <1>2, <3>1, <3>2 DEF IInv, TypeOK
    <3>4. NoStampAhead'
      BY <1>2, <2>0, <3>1, <3>2 DEF IInv, NoStampAhead, Timestamp
    <3>5. OwnCountIsLargest' /\ ClockCoversPast' /\ CausalOrder'
      BY <1>2, <3>2 DEF IInv, OwnCountIsLargest, ClockCoversPast, CausalOrder, HappenedBefore
    <3> QED BY <3>3, <3>4, <3>5 DEF IInv
  <2>2. ASSUME NEW n \in Node, StepWallClock(n) PROVE IInv'
    <3>1. UNCHANGED <<time, clocks, vc, events>> /\ skew' \in [Node -> 0 .. MaxSkew]
      BY <1>2, <2>2 DEF StepWallClock, IInv, TypeOK
    <3> QED BY <1>2, <3>1 DEF IInv, TypeOK, NoStampAhead, OwnCountIsLargest,
                              ClockCoversPast, CausalOrder, HappenedBefore
  <2>3. ASSUME NEW n \in Node, GetClock(n) PROVE IInv'
    <3>1. /\ UNCHANGED <<time, skew, vc, events>>
          /\ clocks[n] = NoClock
          /\ clocks' = [clocks EXCEPT ![n] = ClockOf(n)]
      BY <2>3 DEF GetClock
    <3>2. /\ clocks'[n] = ClockOf(n) /\ ClockOf(n) \in Timestamp
          /\ \A m \in Node : m # n => clocks'[m] = clocks[m]
      BY <1>2, <2>0, <3>1, ClockOfFacts
    <3>3. TypeOK'
      BY <1>2, <3>1, <3>2 DEF IInv, TypeOK
    <3>4. NoStampAhead'
      BY <1>2, <3>1, <3>2, ClockOfFacts DEF IInv, NoStampAhead
    <3>5. ClockCoversPast'
      BY <1>2, <3>1, <3>2 DEF IInv, ClockCoversPast
    <3>6. OwnCountIsLargest' /\ CausalOrder'
      BY <1>2, <3>1 DEF IInv, OwnCountIsLargest, CausalOrder, HappenedBefore
    <3> QED BY <3>3, <3>4, <3>5, <3>6 DEF IInv
  <2>4. ASSUME NEW n \in Node, NowFor(n) PROVE IInv'
    <3> DEFINE ts == ClockNow(ClockOf(n), Wall(n))
    <3>1. Issue(n, ts, vc[n]) /\ UNCHANGED <<time, skew>>
      BY <2>4 DEF NowFor
    <3>2. ts \in Timestamp /\ Less(ClockOf(n), ts)
      BY <1>2, ClockOfFacts, NowIncreases
    <3>3. MaxSkew = 0 => ts.p <= time
      BY <1>2, ClockOfFacts DEF ClockNow, Stamp
    <3>4. \A e \in events : e.vc[e.node] <= vc[n][e.node] => Less(e.ts, ts)
      BY <1>2, <2>0, <3>2, ClockOfFacts, LessOrder
    <3> HIDE DEF ts
    <3>5. \A m \in Node : vc[n][m] <= vc[m][m]
      BY <1>2 DEF IInv, OwnCountIsLargest
    <3> QED BY <1>2, <2>0, <3>1, <3>2, <3>3, <3>4, <3>5, IssueStep
  <2>5. ASSUME NEW n \in Node, NEW e \in events, UpdateFor(n, e) PROVE IInv'
    <3> DEFINE ts == ClockUpdate(ClockOf(n), e.ts, Wall(n))
               v == Join(vc[n], e.vc)
    <3>1. Issue(n, ts, v) /\ UNCHANGED <<time, skew>> /\ ClockOf(n).p <= Wall(n)
      BY <1>2, <2>5, ClockOfFacts DEF UpdateFor, Sound
    <3>2. /\ e.ts \in Timestamp /\ e.vc \in [Node -> Nat]
          /\ MaxSkew = 0 => e.ts.p <= time /\ Wall(n) = time
      BY <1>2, <2>0, ClockOfFacts DEF IInv, NoStampAhead
    <3>3. /\ ts \in Timestamp /\ Less(ClockOf(n), ts) /\ Less(e.ts, ts)
          /\ MaxSkew = 0 => ts.p <= time
      BY <1>2, <3>1, <3>2, ClockOfFacts, UpdateIncreases
    <3> HIDE DEF ts
    <3>4. v \in [Node -> Nat] /\ \A m \in Node : v[m] = vc[n][m] \/ v[m] = e.vc[m]
      BY <2>0, <3>2 DEF Join
    <3>5. v[n] = vc[n][n] /\ \A m \in Node : v[m] <= vc[m][m]
      <4>1. \A m \in Node : vc[n][m] <= vc[m][m] /\ e.vc[m] <= vc[m][m]
        BY <1>2 DEF IInv, OwnCountIsLargest
      <4>2. v[n] = IF vc[n][n] < e.vc[n] THEN e.vc[n] ELSE vc[n][n]
        BY DEF Join
      <4>3. vc[n][n] \in Nat /\ e.vc[n] \in Nat
        BY <2>0
      <4> QED BY <3>4, <4>1, <4>2, <4>3
    <3> HIDE DEF v
    <3>6. \A g \in events : g.vc[g.node] <= v[g.node] => Less(g.ts, ts)
      <4> TAKE g \in events
      <4> HAVE g.vc[g.node] <= v[g.node]
      <4>1. g.node \in Node /\ g.ts \in Timestamp
        BY <2>0
      <4>2. CASE g.vc[g.node] <= vc[n][g.node]
        BY <1>2, <4>1, <4>2, <3>3, ClockOfFacts, LessOrder
      <4>3. CASE g.vc[g.node] <= e.vc[g.node]
        <5>1. g = e \/ Less(g.ts, e.ts)
          BY <1>2, <4>3 DEF IInv, CausalOrder, HappenedBefore
        <5> QED BY <5>1, <4>1, <3>2, <3>3, LessOrder DEF LessOrEqual
      <4> QED BY <3>4, <4>1, <4>2, <4>3
    <3> QED BY <1>2, <3>1, <3>3, <3>4, <3>5, <3>6, IssueStep
  <2>6. ASSUME NEW n \in Node, NEW e \in events, Witness(n, e) PROVE IInv'
    <3> DEFINE c == ClockWitness(clocks[n], e.ts, Wall(n))
               v == Join(vc[n], e.vc)
    <3>1. /\ clocks[n] # NoClock
          /\ clocks' = [clocks EXCEPT ![n] = c]
          /\ vc' = [vc EXCEPT ![n] = v]
          /\ UNCHANGED <<time, skew, events>>
      BY <2>6 DEF Witness
    <3>2. /\ clocks[n] \in Timestamp /\ e.ts \in Timestamp /\ Wall(n) \in Nat
          /\ MaxSkew = 0 => Wall(n) = time /\ clocks[n].p <= time /\ e.ts.p <= time
      BY <1>2, <2>0, <3>1, ClockOfFacts DEF IInv, NoStampAhead
    <3>3. /\ c \in Timestamp /\ LessOrEqual(clocks[n], c) /\ LessOrEqual(e.ts, c)
          /\ MaxSkew = 0 => c.p <= time
      BY <3>2, WitnessCovers
    <3> HIDE DEF c
    <3>4. v \in [Node -> Nat] /\ \A m \in Node : v[m] = vc[n][m] \/ v[m] = e.vc[m]
      BY <2>0 DEF Join
    <3>5. v[n] = vc[n][n] /\ \A m \in Node : v[m] <= vc[m][m]
      <4>1. \A m \in Node : vc[n][m] <= vc[m][m] /\ e.vc[m] <= vc[m][m]
        BY <1>2 DEF IInv, OwnCountIsLargest
      <4>2. v[n] = IF vc[n][n] < e.vc[n] THEN e.vc[n] ELSE vc[n][n]
        BY DEF Join
      <4>3. vc[n][n] \in Nat /\ e.vc[n] \in Nat
        BY <2>0
      <4> QED BY <3>4, <4>1, <4>2, <4>3
    <3> HIDE DEF v
    <3>6. /\ clocks'[n] = c /\ vc'[n] = v
          /\ \A m \in Node : m # n => clocks'[m] = clocks[m] /\ vc'[m] = vc[m]
          /\ \A m \in Node : vc'[m][m] = vc[m][m]
      BY <2>0, <3>1, <3>5
    <3>7. TypeOK'
      BY <1>2, <3>1, <3>3, <3>4 DEF IInv, TypeOK
    <3>8. NoStampAhead'
      BY <1>2, <3>1, <3>3, <3>6 DEF IInv, NoStampAhead
    <3>9. OwnCountIsLargest'
      BY <1>2, <3>1, <3>5, <3>6 DEF IInv, OwnCountIsLargest
    <3>10. ClockCoversPast'
      <4> SUFFICES ASSUME NEW m \in Node, NEW g \in events, g.vc[g.node] <= vc'[m][g.node]
                   PROVE  clocks'[m] # NoClock /\ LessOrEqual(g.ts, clocks'[m])
        BY <3>1 DEF ClockCoversPast
      <4>1. g.node \in Node /\ g.ts \in Timestamp
        BY <2>0
      <4>2. CASE m # n
        BY <1>2, <4>1, <4>2, <3>6 DEF IInv, ClockCoversPast
      <4>3. CASE m = n /\ g.vc[g.node] <= vc[n][g.node]
        <5>1. LessOrEqual(g.ts, clocks[n])
          BY <1>2, <4>3 DEF IInv, ClockCoversPast
        <5> QED BY <5>1, <4>1, <4>3, <3>2, <3>3, <3>6, LessOrder
      <4>4. CASE m = n /\ g.vc[g.node] <= e.vc[g.node]
        <5>1. g = e \/ Less(g.ts, e.ts)
          BY <1>2, <4>4 DEF IInv, CausalOrder, HappenedBefore
        <5> QED BY <5>1, <4>1, <4>4, <3>2, <3>3, <3>6, LessOrder DEF LessOrEqual
      <4> QED BY <3>4, <3>6, <4>1, <4>2, <4>3, <4>4
    <3>11. CausalOrder'
      BY <1>2, <3>1 DEF IInv, CausalOrder, HappenedBefore
    <3> QED BY <3>7, <3>8, <3>9, <3>10, <3>11 DEF IInv
  <2>7. CASE UNCHANGED vars
    BY <1>2, <2>7 DEF vars, IInv, TypeOK, NoStampAhead, OwnCountIsLargest,
                      ClockCoversPast, CausalOrder, HappenedBefore
  <2> QED BY <1>2, <2>1, <2>2, <2>3, <2>4, <2>5, <2>6, <2>7 DEF Next
<1> QED BY <1>1, <1>2

\* Stamps respect causality, for every set of nodes, if the wall clocks
\* agree or received stamps are only witnessed (hlc.go: "Causal ordering").
THEOREM StampsRespectCausality == ASSUME Sound PROVE Spec => []CausalOrder
<1>1. IInv => CausalOrder
  BY DEF IInv
<1> QED BY <1>1, Inductive, PTL DEF Spec

\* Under the same condition a clock covers every stamp its node has seen.
THEOREM ClocksCoverPast == ASSUME Sound PROVE Spec => []ClockCoversPast
<1>1. IInv => ClockCoversPast
  BY DEF IInv
<1> QED BY <1>1, Inductive, PTL DEF Spec

\* Under the same condition no clock ever runs backwards.
THEOREM ClocksAreMonotone == ASSUME Sound PROVE Spec => ClockMonotone
<1> DEFINE Step == \A n \in Node : clocks[n] # NoClock =>
                       clocks'[n] # NoClock /\ LessOrEqual(clocks[n], clocks'[n])
<1>1. ASSUME IInv, [Next]_vars PROVE [Step]_vars
  <2>0. clocks \in [Node -> Timestamp \cup {NoClock}] /\ clocks' \in [Node -> Timestamp \cup {NoClock}]
    <3>1. IInv'
      BY <1>1, Inductive
    <3> QED BY <1>1, <3>1 DEF IInv, TypeOK
  <2>1. CASE UNCHANGED clocks
    BY <2>1 DEF LessOrEqual
  <2>2. ASSUME NEW n \in Node, NEW t, clocks' = [clocks EXCEPT ![n] = t],
               clocks[n] # NoClock => t \in Timestamp /\ LessOrEqual(clocks[n], t)
        PROVE  Step
    BY <2>0, <2>2, NoClockAssumption DEF LessOrEqual
  <2>3. ASSUME NEW n \in Node, GetClock(n) PROVE Step
    BY <2>2, <2>3 DEF GetClock
  <2>4. ASSUME NEW n \in Node, NowFor(n) PROVE Step
    BY <1>1, <2>2, <2>4, ClockOfFacts, NowIncreases DEF NowFor, Issue, ClockOf, LessOrEqual
  <2>5. ASSUME NEW n \in Node, NEW e \in events, UpdateFor(n, e) PROVE Step
    <3>1. ClockOf(n).p <= Wall(n) /\ e.ts \in Timestamp
      BY <1>1, <2>5, ClockOfFacts DEF UpdateFor, Sound, IInv, TypeOK, Event
    <3>2. LessOrEqual(ClockOf(n), ClockUpdate(ClockOf(n), e.ts, Wall(n)))
          /\ ClockUpdate(ClockOf(n), e.ts, Wall(n)) \in Timestamp
      BY <1>1, <3>1, ClockOfFacts, UpdateIncreases DEF LessOrEqual
    <3> QED BY <2>2, <2>5, <3>2 DEF UpdateFor, Issue, ClockOf
  <2>6. ASSUME NEW n \in Node, NEW e \in events, Witness(n, e) PROVE Step
    <3>1. e.ts \in Timestamp /\ clocks[n] \in Timestamp /\ Wall(n) \in Nat
      BY <1>1, <2>0, <2>6, ClockOfFacts DEF Witness, IInv, TypeOK, Event
    <3> QED BY <2>2, <2>6, <3>1, WitnessCovers DEF Witness
  <2> QED BY <1>1, <2>1, <2>3, <2>4, <2>5, <2>6 DEF Next, Tick, StepWallClock, vars
<1> QED BY <1>1, Inductive, PTL DEF Spec, ClockMonotone

\* Whatever the wall clocks do and whichever methods are called, clocks and
\* stamps are well-formed: no part of a timestamp ever falls below zero
\* (hlc.go: Now, Update, Witness).
THEOREM TypeCorrect == Spec => []TypeOK
<1>1. Init => TypeOK
  BY SkewAssumption DEF Init, TypeOK
<1>2. ASSUME TypeOK, [Next]_vars PROVE TypeOK'
  <2>0. \A n \in Node : Wall(n) \in Nat /\ ClockOf(n) \in Timestamp
    <3> TAKE n \in Node
    <3>1. time \in Nat /\ skew[n] \in 0 .. MaxSkew /\ clocks[n] \in Timestamp \cup {NoClock}
      BY <1>2 DEF TypeOK
    <3>2. Wall(n) \in Nat
      BY <3>1, SkewAssumption DEF Wall
    <3> QED BY <3>1, <3>2 DEF ClockOf, NewClock, Stamp, Timestamp
  <2>1. \A e \in events : e.ts \in Timestamp /\ e.vc \in [Node -> Nat]
    BY <1>2 DEF TypeOK, Event
  <2>2. \A v, w \in [Node -> Nat] : Join(v, w) \in [Node -> Nat]
    BY DEF Join
  <2>3. ASSUME NEW n \in Node, NEW ts \in Timestamp, NEW v \in [Node -> Nat],
               Issue(n, ts, v), UNCHANGED <<time, skew>>
        PROVE  TypeOK'
    <3> DEFINE w == [v EXCEPT ![n] = @ + 1]
    <3>1. w \in [Node -> Nat]
      OBVIOUS
    <3> HIDE DEF w
    <3>2. /\ clocks' = [clocks EXCEPT ![n] = ts] /\ vc' = [vc EXCEPT ![n] = w]
          /\ events' = events \cup {[node |-> n, ts |-> ts, vc |-> w]}
      BY <2>3 DEF Issue, w
    <3> QED BY <1>2, <2>3, <3>1, <3>2 DEF TypeOK, Event
  <2>4. CASE Tick
    BY <1>2, <2>4 DEF Tick, TypeOK
  <2>5. ASSUME NEW n \in Node, StepWallClock(n) PROVE TypeOK'
    BY <1>2, <2>5 DEF StepWallClock, TypeOK
  <2>6. ASSUME NEW n \in Node, GetClock(n) PROVE TypeOK'
    BY <1>2, <2>0, <2>6 DEF GetClock, TypeOK
  <2>7. ASSUME NEW n \in Node, NowFor(n) PROVE TypeOK'
    <3>1. vc[n] \in [Node -> Nat] /\ ClockNow(ClockOf(n), Wall(n)) \in Timestamp
      BY <1>2, <2>0, NowIncreases DEF TypeOK
    <3> QED BY <2>3, <2>7, <3>1 DEF NowFor
  <2>8. ASSUME NEW n \in Node, NEW e \in events, UpdateFor(n, e) PROVE TypeOK'
    <3>1. vc[n] \in [Node -> Nat] /\ ClockUpdate(ClockOf(n), e.ts, Wall(n)) \in Timestamp
      BY <1>2, <2>0, <2>1, UpdateExceedsReceived DEF TypeOK
    <3>2. Join(vc[n], e.vc) \in [Node -> Nat]
      BY <2>1, <2>2, <3>1
    <3> QED BY <2>3, <2>8, <3>1, <3>2 DEF UpdateFor
  <2>9. ASSUME NEW n \in Node, NEW e \in events, Witness(n, e) PROVE TypeOK'
    <3>1. vc[n] \in [Node -> Nat] /\ clocks[n] \in Timestamp
      BY <1>2, <2>9 DEF TypeOK, Witness
    <3>2. ClockWitness(clocks[n], e.ts, Wall(n)) \in Timestamp
      BY <2>0, <2>1, <3>1, WitnessCovers
    <3>3. Join(vc[n], e.vc) \in [Node -> Nat]
      BY <2>1, <2>2, <3>1
    <3>4. /\ clocks' = [clocks EXCEPT ![n] = ClockWitness(clocks[n], e.ts, Wall(n))]
          /\ vc' = [vc EXCEPT ![n] = Join(vc[n], e.vc)] /\ UNCHANGED <<time, skew, events>>
      BY <2>9 DEF Witness
    <3> QED BY <1>2, <3>2, <3>3, <3>4 DEF TypeOK
  <2>10. CASE UNCHANGED vars
    BY <1>2, <2>10 DEF vars, TypeOK
  <2> QED BY <1>2, <2>4, <2>5, <2>6, <2>7, <2>8, <2>9, <2>10 DEF Next
<1> QED BY <1>1, <1>2, PTL DEF Spec
=============================================================================
