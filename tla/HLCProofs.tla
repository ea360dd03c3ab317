------------------------------ MODULE HLCProofs ------------------------------
(***************************************************************************)
(* What the operations of the hybrid logical clock return, for every       *)
(* timestamp and every reading of the wall clock.                          *)
(***************************************************************************)
EXTENDS HLC, TLAPS

\* Less is a strict total order on timestamps, and LessOrEqual its
\* reflexive closure (hlc.go: Less, LessOrEqual).
LEMMA LessOrder ==
    ASSUME NEW t \in Timestamp, NEW u \in Timestamp, NEW v \in Timestamp
    PROVE  /\ ~Less(t, t)
           /\ Less(t, u) \/ t = u \/ Less(u, t)
           /\ LessOrEqual(t, u) /\ Less(u, v) => Less(t, v)
           /\ Less(t, u) /\ LessOrEqual(u, v) => Less(t, v)
           /\ LessOrEqual(t, u) /\ LessOrEqual(u, v) => LessOrEqual(t, v)
BY SMT DEF Less, LessOrEqual, Timestamp

\* Now() returns a timestamp above everything the clock has seen, also when
\* the wall clock has gone backwards.
LEMMA NowIncreases ==
    ASSUME NEW latest \in Timestamp, NEW now \in Nat
    PROVE  /\ ClockNow(latest, now) \in Timestamp
           /\ Less(latest, ClockNow(latest, now))
BY SMT DEF ClockNow, Stamp, Less, Timestamp

\* So do several calls in a row, and the result is not ahead of the wall
\* clock unless the clock already was.
LEMMA NowTimesIncreases ==
    ASSUME NEW latest \in Timestamp, NEW now \in Nat, NEW k \in Nat \ {0}
    PROVE  /\ ClockNowTimes(latest, now, k) \in Timestamp
           /\ Less(latest, ClockNowTimes(latest, now, k))
           /\ latest.p <= now => ClockNowTimes(latest, now, k).p <= now
BY SMT DEF ClockNowTimes, Stamp, Less, Timestamp

\* Update(received) exceeds both timestamps when the clock itself is not ahead
\* of the wall clock: the case its branches are written for.
LEMMA UpdateIncreases ==
    ASSUME NEW latest \in Timestamp, NEW received \in Timestamp, NEW now \in Nat,
           latest.p <= now
    PROVE  /\ ClockUpdate(latest, received, now) \in Timestamp
           /\ Less(latest, ClockUpdate(latest, received, now))
           /\ Less(received, ClockUpdate(latest, received, now))
           /\ received.p <= now => ClockUpdate(latest, received, now).p = now
<1> DEFINE physicals == {now, received.p, latest.p}
           maxPhysical == CHOOSE x \in physicals : \A y \in physicals : y <= x
<1>1. latest.p \in Nat /\ received.p \in Nat /\ latest.l \in Nat /\ received.l \in Nat
  BY DEF Timestamp
<1>2. maxPhysical = IF received.p <= now THEN now ELSE received.p
  <2> DEFINE top == IF received.p <= now THEN now ELSE received.p
  <2>1. top \in physicals /\ \A y \in physicals : y <= top
    BY <1>1
  <2>2. maxPhysical \in physicals /\ \A y \in physicals : y <= maxPhysical
    BY <2>1
  <2> QED BY <1>1, <2>1, <2>2
<1> HIDE DEF maxPhysical
<1>3. ClockUpdate(latest, received, now) =
        Stamp(maxPhysical,
              IF now = maxPhysical /\ latest.p = maxPhysical /\ received.p = maxPhysical
                THEN (IF received.l > latest.l THEN received.l ELSE latest.l) + 1
              ELSE IF latest.p = maxPhysical /\ now = maxPhysical THEN latest.l + 1
              ELSE IF received.p = maxPhysical THEN received.l + 1
              ELSE 0)
  BY DEF ClockUpdate, maxPhysical
<1> QED BY <1>1, <1>2, <1>3, SMT DEF Stamp, Less, Timestamp

\* Whatever the clocks, the result of Update is a timestamp above the one
\* received.
LEMMA UpdateExceedsReceived ==
    ASSUME NEW latest \in Timestamp, NEW received \in Timestamp, NEW now \in Nat
    PROVE  /\ ClockUpdate(latest, received, now) \in Timestamp
           /\ Less(received, ClockUpdate(latest, received, now))
<1> DEFINE physicals == {now, received.p, latest.p}
           maxPhysical == CHOOSE x \in physicals : \A y \in physicals : y <= x
<1>1. latest.p \in Nat /\ received.p \in Nat /\ latest.l \in Nat /\ received.l \in Nat
  BY DEF Timestamp
<1>2. maxPhysical \in Nat /\ received.p <= maxPhysical
  <2>1. \E x \in physicals : \A y \in physicals : y <= x
    BY <1>1
  <2>2. maxPhysical \in physicals /\ \A y \in physicals : y <= maxPhysical
    BY <2>1
  <2> QED BY <1>1, <2>2
<1> HIDE DEF maxPhysical
<1>3. ClockUpdate(latest, received, now) =
        Stamp(maxPhysical,
              IF now = maxPhysical /\ latest.p = maxPhysical /\ received.p = maxPhysical
                THEN (IF received.l > latest.l THEN received.l ELSE latest.l) + 1
              ELSE IF latest.p = maxPhysical /\ now = maxPhysical THEN latest.l + 1
              ELSE IF received.p = maxPhysical THEN received.l + 1
              ELSE 0)
  BY DEF ClockUpdate, maxPhysical
<1> QED BY <1>1, <1>2, <1>3, SMT DEF Stamp, Less, Timestamp

\* Witness(received) covers both timestamps, whatever the wall clock says.
LEMMA WitnessCovers ==
    ASSUME NEW latest \in Timestamp, NEW received \in Timestamp, NEW now \in Nat
    PROVE  /\ ClockWitness(latest, received, now) \in Timestamp
           /\ LessOrEqual(latest, ClockWitness(latest, received, now))
           /\ LessOrEqual(received, ClockWitness(latest, received, now))
           /\ latest.p <= now /\ received.p <= now =>
                ClockWitness(latest, received, now).p <= now
BY SMT DEF ClockWitness, MaxStamp, Stamp, LessOrEqual, Less, Timestamp
=============================================================================
