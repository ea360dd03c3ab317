----------------------------- MODULE StoreRaces -----------------------------
(***************************************************************************)
(* Goroutines of one node inside the methods of db.Manager on one lock and *)
(* one register.  The maps are safe for concurrent use, but the methods    *)
(* load, decide and store in separate steps; DB takes them as atomic.      *)
(*                                                                         *)
(* Locks are shared objects that ReleaseLock changes in place: heap holds  *)
(* them, lockAt is the one in the map (0: none), mine[g] and seen[g] are   *)
(* the pointers of goroutine g.  Registers are never changed in place, so  *)
(* reg and own[g] are values.  A goroutine is its own lock holder.         *)
(* The two maps share nothing but the clock: target is the one the         *)
(* goroutines of a behaviour work on.                                      *)
(*                                                                         *)
(* A moment is quiet when nobody is inside a method.  What happens between *)
(* two quiet moments is a burst; the history variables remember the last   *)
(* quiet moment and count the grants of the burst.                         *)
(***************************************************************************)
EXTENDS CRDT, FiniteSets

CONSTANTS Goroutine,      \* they call the methods, each one call at a time
          Self,           \* this node
          NoEntry,        \* the register is not in the map
          TTL,            \* the lifetimes locks are given
          LockRetention,  \* 5*time.Minute of cleanupExpired
          MaxTime, MaxLogical  \* bounds: time, logical part

ASSUME RacesAssumption ==
    /\ Goroutine \subseteq Value /\ IsFiniteSet(Goroutine)
    /\ Self \in Node /\ NoEntry \notin Entry
    /\ TTL \subseteq Nat /\ LockRetention \in Nat /\ MaxTime \in Nat /\ MaxLogical \in Nat

\* Enough objects: the map, the last quiet one and two per goroutine.
Obj == 1 .. 2 * Cardinality(Goroutine) + 2

VARIABLES target, time, clock,
          heap, lockAt, reg,
          pc,                  \* where in which method a goroutine is
          mine, seen, own,     \* its new lock, the lock it loaded, its register
          janitor,             \* cleanupExpired: about to delete the lock
          quietLock, quietReg, \* the lock and the register at the last quiet moment
          grants, undisturbed, \* of the burst: locks granted (2: or more), nobody else at them
          wrote                \* of the burst: some SetMeta

store == <<heap, lockAt, reg>>
locals == <<mine, seen, own>>
history == <<quietLock, quietReg, grants, undisturbed, wrote>>
vars == <<target, time, clock, store, pc, locals, janitor, history>>

Blank == NewLock(None, 0, Self, ZeroTimestamp)

Init ==
    /\ target \in {"locks", "meta"} /\ time = 1 /\ clock = NewClock(1)
    /\ heap = [o \in Obj |-> Blank] /\ lockAt = 0 /\ reg = NoEntry
    /\ pc = [g \in Goroutine |-> "idle"]
    /\ mine = [g \in Goroutine |-> 0] /\ seen = [g \in Goroutine |-> 0]
    /\ own = [g \in Goroutine |-> NoEntry]
    /\ janitor = FALSE
    /\ quietLock = 0 /\ quietReg = NoEntry
    /\ grants = 0 /\ undisturbed = TRUE /\ wrote = FALSE

-----------------------------------------------------------------------------

Stamped == ClockNow(clock, time)

SetClock == Stamped.l <= MaxLogical /\ clock' = Stamped

Goto(g, l) == pc' = [pc EXCEPT ![g] = l]

\* The method returns and its pointers are gone.
Return(g) ==
    /\ Goto(g, "idle")
    /\ mine' = [mine EXCEPT ![g] = 0] /\ seen' = [seen EXCEPT ![g] = 0]
    /\ own' = [own EXCEPT ![g] = NoEntry]

Used == {lockAt, quietLock} \cup {mine[g] : g \in Goroutine} \cup {seen[g] : g \in Goroutine}

\* Objects nobody points to are collected and used again.
Fresh == CHOOSE o \in Obj \ Used : TRUE

-----------------------------------------------------------------------------
(* AcquireLock. *)

AcquireBegins(g, ttl) ==
    /\ pc[g] = "idle" /\ target = "locks"
    /\ SetClock
    /\ heap' = [o \in Obj |-> CASE o = Fresh  -> NewLock(g, time + ttl, Self, Stamped)
                                [] o \in Used -> heap[o]
                                [] OTHER      -> Blank]
    /\ mine' = [mine EXCEPT ![g] = Fresh]
    /\ Goto(g, "lockLoad")
    /\ UNCHANGED <<time, lockAt, reg, seen, own, janitor>>

\* Faulty variant of AcquireLoads, for the mutation runs.
AcquireLoadsOnly(g) ==
    /\ pc[g] = "lockLoad"
    /\ IF lockAt = 0
         THEN Goto(g, "lockStore") /\ UNCHANGED locals
         ELSE Goto(g, "lockCheck") /\ seen' = [seen EXCEPT ![g] = lockAt] /\ UNCHANGED <<mine, own>>
    /\ UNCHANGED <<time, clock, store, janitor>>

\* LoadOrStore: granted at once when there was no lock.
AcquireLoads(g) ==
    /\ pc[g] = "lockLoad"
    /\ IF lockAt = 0
         THEN lockAt' = mine[g] /\ Return(g)
         ELSE /\ seen' = [seen EXCEPT ![g] = lockAt] /\ Goto(g, "lockCheck")
              /\ UNCHANGED <<lockAt, mine, own>>
    /\ UNCHANGED <<time, clock, heap, reg, janitor>>

\* IsDeleted of the lock that was loaded: refused when it is not free.
AcquireChecks(g) ==
    /\ pc[g] = "lockCheck"
    /\ IF LockFree(heap[seen[g]], time)
         THEN Goto(g, "lockStore") /\ UNCHANGED locals
         ELSE Return(g)
    /\ UNCHANGED <<time, clock, store, janitor>>

\* Granted, whatever the map holds by now.
AcquireStores(g) ==
    /\ pc[g] = "lockStore"
    /\ lockAt' = mine[g]
    /\ Return(g)
    /\ UNCHANGED <<time, clock, heap, reg, janitor>>

-----------------------------------------------------------------------------
(* ReleaseLock. *)

ReleaseBegins(g) ==
    /\ pc[g] = "idle" /\ lockAt # 0
    /\ seen' = [seen EXCEPT ![g] = lockAt]
    /\ Goto(g, "holderCheck")
    /\ UNCHANGED <<time, clock, store, mine, own, janitor>>

\* Faulty variant of ReleaseChecks, for the mutation runs.
ReleaseChecksNothing(g) ==
    /\ pc[g] = "holderCheck"
    /\ Goto(g, "release") /\ UNCHANGED locals
    /\ UNCHANGED <<time, clock, store, janitor>>

ReleaseChecks(g) ==
    /\ pc[g] = "holderCheck"
    /\ IF LockHeldBy(heap[seen[g]], g, time)
         THEN Goto(g, "release") /\ UNCHANGED locals
         ELSE Return(g)
    /\ UNCHANGED <<time, clock, store, janitor>>

\* The shared object becomes a tombstone, and gets its stamp later.
ReleaseMarks(g) ==
    /\ pc[g] = "release"
    /\ heap' = [heap EXCEPT ![seen[g]].deleted = TRUE]
    /\ Goto(g, "releaseStamp")
    /\ UNCHANGED <<time, clock, lockAt, reg, locals, janitor>>

ReleaseStamps(g) ==
    /\ pc[g] = "releaseStamp"
    /\ SetClock
    /\ heap' = [heap EXCEPT ![seen[g]] = Tombstone(@, Self, Stamped)]
    /\ Goto(g, "releaseStore")
    /\ UNCHANGED <<time, lockAt, reg, locals, janitor>>

\* And is stored again, over whatever has come in between.
ReleaseStores(g) ==
    /\ pc[g] = "releaseStore"
    /\ lockAt' = seen[g]
    /\ Return(g)
    /\ UNCHANGED <<time, clock, heap, reg, janitor>>

-----------------------------------------------------------------------------
(* SetMeta. *)

SetMetaBegins(g) ==
    /\ pc[g] = "idle" /\ target = "meta"
    /\ SetClock
    /\ own' = [own EXCEPT ![g] = NewRegister(g, Self, Stamped)]
    /\ Goto(g, "metaLoad")
    /\ UNCHANGED <<time, store, mine, seen, janitor>>

\* Faulty variant of SetMetaLoads, for the mutation runs.
SetMetaKeepsLoaded(g) ==
    /\ pc[g] = "metaLoad"
    /\ IF reg = NoEntry
         THEN reg' = own[g] /\ Return(g)
         ELSE /\ own' = [own EXCEPT ![g] = reg] /\ Goto(g, "metaStore")
              /\ UNCHANGED <<reg, mine, seen>>
    /\ UNCHANGED <<time, clock, heap, lockAt, janitor>>

\* LoadOrStore, and the merge with what was loaded.
SetMetaLoads(g) ==
    /\ pc[g] = "metaLoad"
    /\ IF reg = NoEntry
         THEN reg' = own[g] /\ Return(g)
         ELSE /\ own' = [own EXCEPT ![g] = Merge(reg, @)] /\ Goto(g, "metaStore")
              /\ UNCHANGED <<reg, mine, seen>>
    /\ UNCHANGED <<time, clock, heap, lockAt, janitor>>

SetMetaStores(g) ==
    /\ pc[g] = "metaStore"
    /\ reg' = own[g]
    /\ Return(g)
    /\ UNCHANGED <<time, clock, heap, lockAt, janitor>>

-----------------------------------------------------------------------------
(* cleanupExpired: the check and the deletion, which is by key. *)

CleanupChecks ==
    /\ ~janitor /\ lockAt # 0
    /\ LockFree(heap[lockAt], time) /\ time - heap[lockAt].ts.p > LockRetention
    /\ janitor' = TRUE
    /\ UNCHANGED <<time, clock, store, pc, locals>>

CleanupDeletes ==
    /\ janitor
    /\ lockAt' = 0 /\ janitor' = FALSE
    /\ UNCHANGED <<time, clock, heap, reg, pc, locals>>

Tick ==
    /\ time < MaxTime
    /\ time' = time + 1
    /\ UNCHANGED <<clock, store, pc, locals, janitor>>

-----------------------------------------------------------------------------

Acquiring(g) == pc[g] \in {"lockLoad", "lockCheck", "lockStore"}

Releasing(g) == pc[g] \in {"holderCheck", "release", "releaseStamp", "releaseStore"}

Writing(g) == pc[g] \in {"metaLoad", "metaStore"}

Quiet == ~janitor /\ \A g \in Goroutine : pc[g] = "idle"

\* A step of AcquireLock returns true.
GrantStep == \E g \in Goroutine : Acquiring(g) /\ pc'[g] = "idle" /\ lockAt' = mine[g]

\* The holder of the last quiet lock calls ReleaseLock.
GivenUp == \E g \in Goroutine : Releasing(g)' /\ quietLock # 0 /\ heap[quietLock].val = g

\* The history of the burst; a step from a quiet moment starts a new one.
Observe ==
    /\ undisturbed' = /\ IF Quiet THEN lockAt = 0 ELSE undisturbed
                      /\ time' = time /\ \A g \in Goroutine : ~Releasing(g)'
    /\ grants' = LET before == IF Quiet THEN 0 ELSE grants
                 IN  CASE ~undisturbed'           -> 0
                       [] undisturbed' /\ GrantStep  -> IF before < 2 THEN before + 1 ELSE 2
                       [] undisturbed' /\ ~GrantStep -> before
    /\ wrote' = (~Quiet' /\ (wrote \/ \E g \in Goroutine : Writing(g)'))
    /\ quietReg' = IF Quiet' THEN reg' ELSE quietReg
    /\ quietLock' = CASE Quiet' /\ lockAt' # 0 -> IF LockHeld(heap'[lockAt'], time') THEN lockAt' ELSE 0
                      [] Quiet' /\ lockAt' = 0 -> 0
                      [] ~Quiet'               -> IF GivenUp THEN 0 ELSE quietLock

Step(g) ==
    \/ \E ttl \in TTL : AcquireBegins(g, ttl)
    \/ AcquireLoads(g) \/ AcquireChecks(g) \/ AcquireStores(g)
    \/ ReleaseBegins(g) \/ ReleaseChecks(g) \/ ReleaseMarks(g) \/ ReleaseStamps(g) \/ ReleaseStores(g)
    \/ SetMetaBegins(g) \/ SetMetaLoads(g) \/ SetMetaStores(g)

Next ==
    /\ (\E g \in Goroutine : Step(g)) \/ CleanupChecks \/ CleanupDeletes \/ Tick
    /\ Observe
    /\ UNCHANGED target

Spec == Init /\ [][Next]_vars

-----------------------------------------------------------------------------
(* Properties. *)

\* Races are confined to their burst: a lock that was held at a quiet moment
\* stays in the map, untouched, until it expires or its own holder calls
\* ReleaseLock, whatever other goroutines and the cleanup do meanwhile.
SettledLockStays ==
    quietLock # 0 /\ time <= heap[quietLock].exp =>
        lockAt = quietLock /\ ~heap[quietLock].deleted

\* Goroutines that race for a lock that is not in the map exclude each other:
\* LoadOrStore grants one of them.  (When a freed lock is still in the map
\* they do not, AcquireLock stores over it unconditionally.)
OneGrantOfNewLock == undisturbed => grants <= 1

\* A burst of SetMeta leaves a value of the burst, never one from before it.
\* (Which of them is not determined: an older one may be stored last.)
BurstsAdvance ==
    [][Quiet' /\ wrote => reg' # NoEntry /\ (quietReg = NoEntry \/ Newer(quietReg, reg'))]_vars
=============================================================================
