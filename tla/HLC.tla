-------------------------------- MODULE HLC --------------------------------
(***************************************************************************)
(* The hybrid logical clock of internal/hlc as pure operators.             *)
(*                                                                         *)
(* A timestamp is the pair (Physical, Logical) of hlc.go, here the record  *)
(* [p, l].  A Clock holds one timestamp, `latest`; each of its methods     *)
(* reads the wall clock once (`now`) under the clock's mutex, so a method  *)
(* is one function of latest, now and the timestamp it is given.           *)
(***************************************************************************)
EXTENDS Integers

Timestamp == [p : Nat, l : Nat]

Stamp(p, l) == [p |-> p, l |-> l]

ZeroTimestamp == Stamp(0, 0)

Less(t, u) == t.p < u.p \/ (t.p = u.p /\ t.l < u.l)

LessOrEqual(t, u) == Less(t, u) \/ t = u

MaxStamp(t, u) == IF Less(t, u) THEN u ELSE t

\* NewClock: the wall clock with logical part zero.
NewClock(now) == Stamp(now, 0)

\* Faulty variant of ClockNow, for the mutation runs.
ClockNowForgetsLogical(latest, now) == Stamp(IF now > latest.p THEN now ELSE latest.p, latest.l)

\* Faulty variant of ClockNow, for the mutation runs.
ClockNowCountsDown(latest, now) == Stamp(IF now > latest.p THEN now ELSE latest.p, latest.l - 1)

\* (c *Clock) Now(): the value it leaves in latest, and returns.
ClockNow(latest, now) ==
    IF now > latest.p THEN Stamp(now, 0) ELSE Stamp(latest.p, latest.l + 1)

\* k successive calls of Now() at one reading of the wall clock (k > 0).
ClockNowTimes(latest, now, k) ==
    IF now > latest.p THEN Stamp(now, k - 1) ELSE Stamp(latest.p, latest.l + k)

\* Faulty variant of ClockUpdate, for the mutation runs.
ClockUpdateIgnoresReceived(latest, received, now) == ClockNow(latest, now)

\* (c *Clock) Update(received): the value it leaves in latest, and returns.
\* The four branches are those of the code, in its order.
ClockUpdate(latest, received, now) ==
    LET maxPhysical == CHOOSE x \in {now, received.p, latest.p} :
                           \A y \in {now, received.p, latest.p} : y <= x
    IN  Stamp(maxPhysical,
              IF now = maxPhysical /\ latest.p = maxPhysical /\ received.p = maxPhysical
                THEN (IF received.l > latest.l THEN received.l ELSE latest.l) + 1
              ELSE IF latest.p = maxPhysical /\ now = maxPhysical THEN latest.l + 1
              ELSE IF received.p = maxPhysical THEN received.l + 1
              ELSE 0)

\* Faulty variant of ClockWitness, for the mutation runs.
ClockWitnessOverwrites(latest, received, now) == received

\* (c *Clock) Witness(received): the value it leaves in latest.
ClockWitness(latest, received, now) ==
    LET seen == MaxStamp(latest, received)
    IN  IF now > seen.p THEN Stamp(now, 0) ELSE seen
=============================================================================
