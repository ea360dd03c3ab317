--------------------------- MODULE StoreRacesProofs ---------------------------
(***************************************************************************)
(* Goroutines inside the methods of db.Manager, for any number of them,    *)
(* any lifetimes of locks and any retention.                               *)
(***************************************************************************)
EXTENDS StoreRaces, HLCProofs, FiniteSetTheorems

Pointer == Obj \cup {0}

Place == {"idle", "lockLoad", "lockCheck", "lockStore", "holderCheck", "release",
          "releaseStamp", "releaseStore", "metaLoad", "metaStore"}

CoreTypes ==
    /\ time \in Nat /\ clock \in Timestamp
    /\ heap \in [Obj -> Entry] /\ lockAt \in Pointer /\ reg \in Entry \cup {NoEntry}
    /\ pc \in [Goroutine -> Place]
    /\ mine \in [Goroutine -> Pointer] /\ seen \in [Goroutine -> Pointer]
    /\ own \in [Goroutine -> Entry \cup {NoEntry}]

TypeOK == CoreTypes /\ quietLock \in Pointer /\ quietReg \in Entry \cup {NoEntry}

\* A goroutine has the pointers its place needs, and none when idle.
PointersFit ==
    \A g \in Goroutine :
        /\ pc[g] = "idle" => mine[g] = 0 /\ seen[g] = 0
        /\ Acquiring(g) <=> mine[g] # 0
        /\ pc[g] = "lockCheck" \/ Releasing(g) => seen[g] # 0
        /\ Writing(g) => own[g] # NoEntry

\* A lock that is not in the map yet is known to its goroutine alone.
NewIsPrivate ==
    \A g \in Goroutine :
        mine[g] # 0 =>
            /\ mine[g] # lockAt /\ mine[g] # quietLock
            /\ \A h \in Goroutine : mine[g] # seen[h] /\ (h # g => mine[g] # mine[h])

\* The holder of the last quiet lock has not called ReleaseLock.
HolderIsAway ==
    quietLock # 0 => \A g \in Goroutine : Releasing(g) => heap[quietLock].val # g

\* While the last quiet lock lasts, everybody inside AcquireLock or
\* ReleaseLock has seen this lock or none, and nobody is past the check.
Settled ==
    quietLock # 0 /\ time <= heap[quietLock].exp =>
        /\ lockAt = quietLock /\ ~heap[quietLock].deleted /\ ~janitor
        /\ \A g \in Goroutine :
            /\ pc[g] \in {"lockCheck", "holderCheck"} => seen[g] = quietLock
            /\ pc[g] \notin {"lockStore", "release", "releaseStamp", "releaseStore"}

\* In an undisturbed burst either nothing is granted yet, or one lock is and
\* everybody has seen that lock or none.
OneGranted ==
    undisturbed =>
        /\ ~janitor
        /\ \A g \in Goroutine :
            /\ ~Releasing(g) /\ pc[g] # "lockStore"
            /\ Acquiring(g) => ~LockFree(heap[mine[g]], time)
            /\ pc[g] = "lockCheck" => seen[g] = lockAt
        /\ \/ grants = 0 /\ lockAt = 0
           \/ grants = 1 /\ lockAt # 0 /\ ~LockFree(heap[lockAt], time)

\* The entry is newer than the register of the last quiet moment.
Advanced(e) == e # NoEntry /\ (quietReg # NoEntry => Newer(quietReg, e))

\* Registers of the burst are newer than those from before it, and the map
\* has one of the burst when all its writers are gone.
BurstIsNewer ==
    /\ \A g \in Goroutine : Writing(g) => Advanced(own[g])
    /\ reg = quietReg \/ Advanced(reg)
    /\ wrote => Advanced(reg) \/ \E g \in Goroutine : Writing(g)

\* The clock covers all registers.
ClockCovers ==
    /\ reg # NoEntry => LessOrEqual(reg.ts, clock)
    /\ quietReg # NoEntry => LessOrEqual(quietReg.ts, clock)
    /\ \A g \in Goroutine : own[g] # NoEntry => LessOrEqual(own[g].ts, clock)

\* A quiet moment is remembered as it is.
QuietIsKnown == Quiet => reg = quietReg /\ ~wrote

\* The inductive invariant.
IInv ==
    /\ TypeOK /\ PointersFit /\ NewIsPrivate
    /\ HolderIsAway /\ Settled
    /\ OneGranted
    /\ BurstIsNewer /\ ClockCovers /\ QuietIsKnown
-----------------------------------------------------------------------------

\* A function has no more values than arguments.
LEMMA FewValues ==
    ASSUME NEW S, IsFiniteSet(S), NEW f, f = [x \in S |-> f[x]]
    PROVE  LET T == {f[x] : x \in S}
           IN  IsFiniteSet(T) /\ Cardinality(T) <= Cardinality(S) /\ Cardinality(T) \in Nat
<1> DEFINE T == {f[x] : x \in S}
<1>1. f \in Surjection(S, T)
  BY DEF Surjection
<1> HIDE DEF T
<1>2. IsFiniteSet(T) /\ Cardinality(T) <= Cardinality(S)
  BY <1>1, FS_Surjection
<1>3. Cardinality(T) \in Nat
  BY <1>2, FS_CardinalityType
<1> QED BY <1>2, <1>3 DEF T

\* There is an object for every new lock: an idle goroutine leaves two of
\* the objects unused.
LEMMA FreshIsUnused ==
    ASSUME TypeOK, PointersFit, NEW g \in Goroutine, pc[g] = "idle"
    PROVE  Fresh \in Obj /\ Fresh \notin Used
<1> DEFINE N == Cardinality(Goroutine)
           A == {mine[h] : h \in Goroutine}
           B == {seen[h] : h \in Goroutine}
           C == {lockAt, quietLock}
<1>1. IsFiniteSet(Goroutine) /\ N \in Nat
  BY RacesAssumption, FS_CardinalityType
<1>2. IsFiniteSet(A) /\ Cardinality(A) <= N /\ Cardinality(A) \in Nat
  BY <1>1, FewValues DEF TypeOK, CoreTypes
<1>3. IsFiniteSet(B) /\ Cardinality(B) <= N /\ Cardinality(B) \in Nat
  BY <1>1, FewValues DEF TypeOK, CoreTypes
<1>4. IsFiniteSet(C) /\ Cardinality(C) <= 2 /\ Cardinality(C) \in Nat
  <2>1. IsFiniteSet({lockAt}) /\ Cardinality({lockAt}) = 1
    BY FS_Singleton
  <2>2. C = {lockAt} \cup {quietLock}
    OBVIOUS
  <2>3. IsFiniteSet(C) /\ (Cardinality(C) = 1 \/ Cardinality(C) = 2)
    BY <2>1, <2>2, FS_AddElement
  <2> QED BY <2>3
<1> HIDE DEF A, B, C
<1>5. IsFiniteSet(A \cup B) /\ Cardinality(A \cup B) <= 2 * N /\ Cardinality(A \cup B) \in Nat
  <2>1. IsFiniteSet(A \cap B)
    BY <1>2, FS_Intersection
  <2>2. Cardinality(A \cap B) \in Nat
    BY <2>1, FS_CardinalityType
  <2>3. /\ IsFiniteSet(A \cup B)
        /\ Cardinality(A \cup B) = Cardinality(A) + Cardinality(B) - Cardinality(A \cap B)
    BY <1>2, <1>3, FS_Union
  <2>4. Cardinality(A \cup B) \in Nat
    BY <2>3, FS_CardinalityType
  <2> QED BY <1>1, <1>2, <1>3, <2>2, <2>3, <2>4
<1>6. IsFiniteSet(C \cup (A \cup B)) /\ Cardinality(C \cup (A \cup B)) <= 2 * N + 2
      /\ Cardinality(C \cup (A \cup B)) \in Nat
  <2>1. IsFiniteSet(C \cap (A \cup B))
    BY <1>4, FS_Intersection
  <2>2. Cardinality(C \cap (A \cup B)) \in Nat
    BY <2>1, FS_CardinalityType
  <2>3. /\ IsFiniteSet(C \cup (A \cup B))
        /\ Cardinality(C \cup (A \cup B)) =
             Cardinality(C) + Cardinality(A \cup B) - Cardinality(C \cap (A \cup B))
    BY <1>4, <1>5, FS_Union
  <2>4. Cardinality(C \cup (A \cup B)) \in Nat
    BY <2>3, FS_CardinalityType
  <2> QED BY <1>1, <1>4, <1>5, <2>2, <2>3, <2>4
<1>7. Used = C \cup (A \cup B) /\ 0 \in Used
  BY DEF Used, A, B, C, PointersFit
<1>8. ~(Obj \subseteq Used)
  <2> SUFFICES ASSUME Obj \subseteq Used PROVE FALSE
    OBVIOUS
  <2>1. 0 .. 2 * N + 2 = Obj \cup {0}
    BY <1>1 DEF Obj
  <2>2. 0 .. 2 * N + 2 \subseteq Used
    BY <1>7, <2>1
  <2>3. Cardinality(0 .. 2 * N + 2) = 2 * N + 3
    BY <1>1, FS_Interval
  <2>4. Cardinality(0 .. 2 * N + 2) <= Cardinality(Used)
    BY <1>6, <1>7, <2>2, FS_Subset
  <2> QED BY <1>1, <1>6, <1>7, <2>3, <2>4
<1> QED BY <1>8 DEF Fresh

\* The last quiet lock after a step: none, as before, or the present one.
LEMMA QuietLockIs ==
    ASSUME Observe
    PROVE  \/ quietLock' = 0
           \/ quietLock' = quietLock /\ ~Quiet' /\ ~GivenUp
           \/ /\ Quiet' /\ quietLock' = lockAt' /\ lockAt' # 0
              /\ LockHeld(heap'[lockAt'], time')
<1> DEFINE held == LockHeld(heap'[lockAt'], time')
<1>1. quietLock' = CASE Quiet' /\ lockAt' # 0 -> IF held THEN lockAt' ELSE 0
                     [] Quiet' /\ lockAt' = 0 -> 0
                     [] ~Quiet'               -> IF GivenUp THEN 0 ELSE quietLock
  BY DEF Observe
<1> HIDE DEF held
<1>2. CASE Quiet' /\ lockAt' # 0
  BY <1>1, <1>2 DEF held
<1>3. CASE Quiet' /\ lockAt' = 0
  BY <1>1, <1>3
<1>4. CASE ~Quiet'
  BY <1>1, <1>4
<1> QED BY <1>2, <1>3, <1>4

\* Stamps are taken from a clock that only goes forward.
LEMMA StampedIsNew ==
    ASSUME TypeOK
    PROVE  Stamped \in Timestamp /\ Less(clock, Stamped)
BY NowIncreases DEF Stamped, TypeOK, CoreTypes

\* What Return and Goto leave.
LEMMA Leaves ==
    ASSUME CoreTypes, NEW g \in Goroutine
    PROVE  /\ Return(g) =>
                /\ \A h \in Goroutine :
                    /\ pc'[h] = IF h = g THEN "idle" ELSE pc[h]
                    /\ mine'[h] = IF h = g THEN 0 ELSE mine[h]
                    /\ seen'[h] = IF h = g THEN 0 ELSE seen[h]
                    /\ own'[h] = IF h = g THEN NoEntry ELSE own[h]
                /\ pc' \in [Goroutine -> Place]
                /\ mine' \in [Goroutine -> Pointer] /\ seen' \in [Goroutine -> Pointer]
                /\ own' \in [Goroutine -> Entry \cup {NoEntry}]
           /\ \A l \in Place : Goto(g, l) =>
                /\ pc' \in [Goroutine -> Place]
                /\ \A h \in Goroutine : pc'[h] = IF h = g THEN l ELSE pc[h]
<1>1. "idle" \in Place /\ 0 \in Pointer
  BY DEF Place, Pointer
<1> QED BY <1>1 DEF CoreTypes, Return, Goto

\* A step of a goroutine, the cleanup or the clock, without the history.
CoreNext == (\E g \in Goroutine : Step(g)) \/ CleanupChecks \/ CleanupDeletes \/ Tick

\* A new lock stays private, also from the last quiet lock as it was.
StaysPrivate ==
    \A g \in Goroutine :
        mine'[g] # 0 =>
            /\ mine'[g] # lockAt' /\ mine'[g] # quietLock
            /\ \A h \in Goroutine : mine'[g] # seen'[h] /\ (h # g => mine'[g] # mine'[h])

\* AcquireLock.
LEMMA AcquireCore ==
    ASSUME IInv, NEW g \in Goroutine,
           \/ \E ttl \in TTL : AcquireBegins(g, ttl)
           \/ AcquireLoads(g) \/ AcquireChecks(g) \/ AcquireStores(g)
    PROVE  CoreTypes' /\ PointersFit' /\ StaysPrivate
<1> USE DEF IInv, TypeOK
<1>1. ASSUME NEW ttl \in TTL, AcquireBegins(g, ttl)
      PROVE  CoreTypes' /\ PointersFit' /\ StaysPrivate
  <2>1. Fresh \in Obj /\ Fresh \notin Used /\ Fresh # 0
    BY <1>1, FreshIsUnused DEF AcquireBegins, Obj
  <2>2. /\ UNCHANGED <<time, lockAt, reg, seen, own>> /\ clock' = Stamped
        /\ mine' = [mine EXCEPT ![g] = Fresh] /\ Goto(g, "lockLoad")
        /\ pc[g] = "idle"
    BY <1>1 DEF AcquireBegins, SetClock
  <2>3. /\ pc' \in [Goroutine -> Place]
        /\ \A h \in Goroutine : pc'[h] = IF h = g THEN "lockLoad" ELSE pc[h]
    BY <2>2, Leaves DEF Place
  <2>4. heap' \in [Obj -> Entry]
    <3>1. NewLock(g, time + ttl, Self, Stamped) \in Entry /\ Blank \in Entry
      BY StampedIsNew, RacesAssumption DEF NewLock, Entry, Blank, ZeroTimestamp, Stamp, Timestamp,
                                           CoreTypes
    <3>2. \A o \in Obj : heap[o] \in Entry
      BY DEF CoreTypes
    <3> QED BY <1>1, <3>1, <3>2 DEF AcquireBegins
  <2>5. CoreTypes'
    BY <2>1, <2>2, <2>3, <2>4, StampedIsNew DEF CoreTypes, Pointer
  <2>6. \A h \in Goroutine : mine'[h] = IF h = g THEN Fresh ELSE mine[h]
    BY <2>2 DEF CoreTypes
  <2>7. PointersFit'
    BY <2>1, <2>2, <2>3, <2>6 DEF PointersFit, Acquiring, Releasing, Writing
  <2>8. StaysPrivate
    BY <2>1, <2>2, <2>6 DEF StaysPrivate, NewIsPrivate, Used
  <2> QED BY <2>5, <2>7, <2>8
<1>2. ASSUME UNCHANGED <<time, clock, heap, reg>>, Return(g), lockAt' = lockAt \/ lockAt' = mine[g]
      PROVE  CoreTypes' /\ PointersFit' /\ StaysPrivate
  <2>1. CoreTypes'
    BY <1>2, Leaves DEF CoreTypes
  <2>2. PointersFit'
    BY <1>2, Leaves DEF PointersFit, Acquiring, Releasing, Writing
  <2>3. StaysPrivate
    BY <1>2, Leaves DEF StaysPrivate, NewIsPrivate
  <2> QED BY <2>1, <2>2, <2>3
<1>3. CASE AcquireLoads(g) /\ lockAt # 0
  <2>1. /\ UNCHANGED <<time, clock, heap, reg, lockAt, mine, own>>
        /\ seen' = [seen EXCEPT ![g] = lockAt] /\ Goto(g, "lockCheck") /\ pc[g] = "lockLoad"
    BY <1>3 DEF AcquireLoads
  <2>2. /\ pc' \in [Goroutine -> Place]
        /\ \A h \in Goroutine : pc'[h] = IF h = g THEN "lockCheck" ELSE pc[h]
        /\ \A h \in Goroutine : seen'[h] = IF h = g THEN lockAt ELSE seen[h]
    BY <2>1, Leaves DEF Place, CoreTypes
  <2>3. CoreTypes'
    BY <2>1, <2>2 DEF CoreTypes
  <2>4. PointersFit'
    BY <1>3, <2>1, <2>2 DEF PointersFit, Acquiring, Releasing, Writing
  <2>5. StaysPrivate
    BY <2>1, <2>2 DEF StaysPrivate, NewIsPrivate
  <2> QED BY <2>3, <2>4, <2>5
<1>4. CASE AcquireChecks(g) /\ Goto(g, "lockStore") /\ UNCHANGED locals
  <2>1. UNCHANGED <<time, clock, heap, reg, lockAt, mine, seen, own>> /\ pc[g] = "lockCheck"
    BY <1>4 DEF AcquireChecks, store, locals
  <2>2. /\ pc' \in [Goroutine -> Place]
        /\ \A h \in Goroutine : pc'[h] = IF h = g THEN "lockStore" ELSE pc[h]
    BY <1>4, Leaves DEF Place
  <2>3. CoreTypes'
    BY <2>1, <2>2 DEF CoreTypes
  <2>4. PointersFit'
    BY <2>1, <2>2 DEF PointersFit, Acquiring, Releasing, Writing
  <2>5. StaysPrivate
    BY <2>1 DEF StaysPrivate, NewIsPrivate
  <2> QED BY <2>3, <2>4, <2>5
<1>5. CASE AcquireLoads(g) /\ lockAt = 0
  BY <1>2, <1>5 DEF AcquireLoads
<1>6. CASE AcquireChecks(g)
  BY <1>2, <1>4, <1>6 DEF AcquireChecks, store
<1>7. CASE AcquireStores(g)
  BY <1>2, <1>7 DEF AcquireStores
<1> QED BY <1>1, <1>3, <1>5, <1>6, <1>7

\* ReleaseLock.
LEMMA ReleaseCore ==
    ASSUME IInv, NEW g \in Goroutine,
           \/ ReleaseBegins(g) \/ ReleaseChecks(g) \/ ReleaseMarks(g)
           \/ ReleaseStamps(g) \/ ReleaseStores(g)
    PROVE  CoreTypes' /\ PointersFit' /\ StaysPrivate
<1> USE DEF IInv, TypeOK
<1>1. CASE ReleaseBegins(g)
  <2>1. /\ UNCHANGED <<time, clock, heap, reg, lockAt, mine, own>>
        /\ seen' = [seen EXCEPT ![g] = lockAt] /\ Goto(g, "holderCheck")
        /\ pc[g] = "idle" /\ lockAt # 0
    BY <1>1 DEF ReleaseBegins, store
  <2>2. /\ pc' \in [Goroutine -> Place]
        /\ \A h \in Goroutine : pc'[h] = IF h = g THEN "holderCheck" ELSE pc[h]
        /\ \A h \in Goroutine : seen'[h] = IF h = g THEN lockAt ELSE seen[h]
    BY <2>1, Leaves DEF Place, CoreTypes
  <2>3. CoreTypes'
    BY <2>1, <2>2 DEF CoreTypes
  <2>4. PointersFit'
    BY <2>1, <2>2 DEF PointersFit, Acquiring, Releasing, Writing
  <2>5. StaysPrivate
    BY <2>1, <2>2 DEF StaysPrivate, NewIsPrivate
  <2> QED BY <2>3, <2>4, <2>5
<1>2. ASSUME UNCHANGED <<time, clock, heap, reg>>, Return(g), lockAt' = lockAt \/ lockAt' = seen[g]
      PROVE  CoreTypes' /\ PointersFit' /\ StaysPrivate
  <2>1. CoreTypes'
    BY <1>2, Leaves DEF CoreTypes
  <2>2. PointersFit'
    BY <1>2, Leaves DEF PointersFit, Acquiring, Releasing, Writing
  <2>3. StaysPrivate
    BY <1>2, Leaves DEF StaysPrivate, NewIsPrivate
  <2> QED BY <2>1, <2>2, <2>3
<1>3. ASSUME NEW l \in {"release", "releaseStamp", "releaseStore"}, Goto(g, l), Releasing(g),
             UNCHANGED <<time, reg, lockAt, mine, seen, own>>,
             clock' \in Timestamp, heap' \in [Obj -> Entry]
      PROVE  CoreTypes' /\ PointersFit' /\ StaysPrivate
  <2>1. /\ pc' \in [Goroutine -> Place]
        /\ \A h \in Goroutine : pc'[h] = IF h = g THEN l ELSE pc[h]
    BY <1>3, Leaves DEF Place
  <2>2. CoreTypes'
    BY <1>3, <2>1 DEF CoreTypes
  <2>3. PointersFit'
    BY <1>3, <2>1 DEF PointersFit, Acquiring, Releasing, Writing
  <2>4. StaysPrivate
    BY <1>3 DEF StaysPrivate, NewIsPrivate
  <2> QED BY <2>2, <2>3, <2>4
<1>4. CASE ReleaseChecks(g)
  <2>1. UNCHANGED <<time, clock, heap, reg, lockAt>> /\ Releasing(g)
        /\ clock' \in Timestamp /\ heap' \in [Obj -> Entry]
    BY <1>4 DEF ReleaseChecks, store, Releasing, CoreTypes
  <2> QED BY <1>2, <1>3, <1>4, <2>1 DEF ReleaseChecks, locals
<1>5. CASE ReleaseMarks(g)
  <2>1. UNCHANGED <<time, clock, reg, lockAt, mine, seen, own>> /\ Goto(g, "releaseStamp")
        /\ Releasing(g) /\ heap' = [heap EXCEPT ![seen[g]].deleted = TRUE]
    BY <1>5 DEF ReleaseMarks, locals, Releasing
  <2>2. clock' \in Timestamp /\ heap' \in [Obj -> Entry]
    BY <2>1 DEF CoreTypes, Entry
  <2> QED BY <1>3, <2>1, <2>2
<1>6. CASE ReleaseStamps(g)
  <2>1. UNCHANGED <<time, reg, lockAt, mine, seen, own>> /\ Goto(g, "releaseStore")
        /\ Releasing(g) /\ clock' = Stamped
        /\ heap' = [heap EXCEPT ![seen[g]] = Tombstone(@, Self, Stamped)]
    BY <1>6 DEF ReleaseStamps, locals, Releasing, SetClock
  <2>2. \A e \in Entry : Tombstone(e, Self, Stamped) \in Entry
    BY StampedIsNew, RacesAssumption DEF Tombstone, Entry
  <2>3. clock' \in Timestamp /\ heap' \in [Obj -> Entry]
    BY <2>1, <2>2, StampedIsNew DEF CoreTypes
  <2> QED BY <1>3, <2>1, <2>3
<1>7. CASE ReleaseStores(g)
  BY <1>2, <1>7 DEF ReleaseStores
<1> QED BY <1>1, <1>4, <1>5, <1>6, <1>7

\* SetMeta.
LEMMA MetaCore ==
    ASSUME IInv, NEW g \in Goroutine,
           SetMetaBegins(g) \/ SetMetaLoads(g) \/ SetMetaStores(g)
    PROVE  CoreTypes' /\ PointersFit' /\ StaysPrivate
<1> USE DEF IInv, TypeOK
<1>1. ASSUME NEW l \in {"metaLoad", "metaStore"}, NEW e \in Entry, Goto(g, l),
             pc[g] = "idle" \/ Writing(g),
             own' = [own EXCEPT ![g] = e], clock' \in Timestamp,
             UNCHANGED <<time, heap, lockAt, reg, mine, seen>>
      PROVE  CoreTypes' /\ PointersFit' /\ StaysPrivate
  <2>1. /\ pc' \in [Goroutine -> Place]
        /\ \A h \in Goroutine : pc'[h] = IF h = g THEN l ELSE pc[h]
        /\ \A h \in Goroutine : own'[h] = IF h = g THEN e ELSE own[h]
        /\ own' \in [Goroutine -> Entry \cup {NoEntry}]
    BY <1>1, Leaves DEF Place, CoreTypes
  <2>2. CoreTypes'
    BY <1>1, <2>1 DEF CoreTypes
  <2>3. PointersFit'
    BY <1>1, <2>1, RacesAssumption DEF PointersFit, Acquiring, Releasing, Writing
  <2>4. StaysPrivate
    BY <1>1 DEF StaysPrivate, NewIsPrivate
  <2> QED BY <2>2, <2>3, <2>4
<1>2. ASSUME UNCHANGED <<time, clock, heap, lockAt>>, Return(g), reg' = own[g]
      PROVE  CoreTypes' /\ PointersFit' /\ StaysPrivate
  <2>1. CoreTypes'
    BY <1>2, Leaves DEF CoreTypes
  <2>2. PointersFit'
    BY <1>2, Leaves DEF PointersFit, Acquiring, Releasing, Writing
  <2>3. StaysPrivate
    BY <1>2, Leaves DEF StaysPrivate, NewIsPrivate
  <2> QED BY <2>1, <2>2, <2>3
<1>3. CASE SetMetaBegins(g)
  <2>1. NewRegister(g, Self, Stamped) \in Entry /\ Stamped \in Timestamp
    BY StampedIsNew, RacesAssumption DEF NewRegister, Entry
  <2> QED BY <1>1, <1>3, <2>1 DEF SetMetaBegins, SetClock, store
<1>4. CASE SetMetaLoads(g) /\ reg # NoEntry
  <2>1. /\ own' = [own EXCEPT ![g] = Merge(reg, own[g])] /\ Goto(g, "metaStore")
        /\ UNCHANGED <<reg, mine, seen, time, clock, heap, lockAt>> /\ Writing(g)
    BY <1>4 DEF SetMetaLoads, Writing
  <2>2. Merge(reg, own[g]) \in Entry /\ clock' \in Timestamp
    BY <1>4, <2>1 DEF Merge, CoreTypes, PointersFit
  <2> QED BY <1>1, <2>1, <2>2
<1>5. CASE SetMetaLoads(g) /\ reg = NoEntry
  BY <1>2, <1>5 DEF SetMetaLoads
<1>6. CASE SetMetaStores(g)
  BY <1>2, <1>6 DEF SetMetaStores
<1> QED BY <1>3, <1>4, <1>5, <1>6

\* Every step keeps the types, and new locks private.
LEMMA CoreStep ==
    ASSUME IInv, CoreNext
    PROVE  CoreTypes' /\ PointersFit' /\ StaysPrivate
<1>1. CASE CleanupChecks \/ CleanupDeletes \/ Tick
  <2>1. /\ UNCHANGED <<clock, heap, reg, pc, mine, seen, own>>
        /\ lockAt' \in {lockAt, 0} /\ time' \in {time, time + 1}
    BY <1>1 DEF CleanupChecks, CleanupDeletes, Tick, store, locals
  <2>2. CoreTypes'
    BY <2>1 DEF CoreTypes, IInv, TypeOK, Pointer
  <2>3. PointersFit'
    BY <2>1 DEF PointersFit, IInv, Acquiring, Releasing, Writing
  <2>4. StaysPrivate
    BY <2>1 DEF StaysPrivate, NewIsPrivate, IInv
  <2> QED BY <2>2, <2>3, <2>4
<1> QED BY <1>1, AcquireCore, ReleaseCore, MetaCore DEF CoreNext, Step

\* So do steps with their history.
LEMMA BaseStep ==
    ASSUME IInv, Next
    PROVE  TypeOK' /\ PointersFit' /\ NewIsPrivate'
<1>1. CoreTypes' /\ PointersFit' /\ StaysPrivate /\ Observe
  BY CoreStep DEF Next, CoreNext
<1>2. quietReg' = IF Quiet' THEN reg' ELSE quietReg
  BY <1>1 DEF Observe
<1>3. TypeOK'
  BY <1>1, <1>2, QuietLockIs DEF TypeOK, CoreTypes, IInv, Pointer
<1>4. Quiet' => \A g \in Goroutine : mine'[g] = 0
  BY <1>1 DEF Quiet, PointersFit
<1>5. NewIsPrivate'
  BY <1>1, <1>4, QuietLockIs DEF StaysPrivate, NewIsPrivate
<1> QED BY <1>1, <1>3, <1>5

\* An object somebody points to keeps its holder and its expiry, and changes
\* only when its releaser marks or stamps it.
LEMMA UsedIsKept ==
    ASSUME IInv, CoreNext, NEW o \in Obj, o \in Used
    PROVE  /\ heap'[o].val = heap[o].val /\ heap'[o].exp = heap[o].exp
           /\ \/ heap'[o] = heap[o]
              \/ \E g \in Goroutine : pc[g] \in {"release", "releaseStamp"} /\ seen[g] = o
<1>0. heap \in [Obj -> Entry]
  BY DEF IInv, TypeOK, CoreTypes
<1>1. ASSUME NEW g \in Goroutine, NEW ttl \in TTL, AcquireBegins(g, ttl)
      PROVE  heap'[o] = heap[o]
  BY <1>1, FreshIsUnused DEF AcquireBegins, IInv
<1>2. ASSUME NEW g \in Goroutine, ReleaseMarks(g)
      PROVE  /\ heap'[o].val = heap[o].val /\ heap'[o].exp = heap[o].exp
             /\ heap'[o] = heap[o] \/ (pc[g] = "release" /\ seen[g] = o)
  BY <1>0, <1>2 DEF ReleaseMarks, Entry
<1>3. ASSUME NEW g \in Goroutine, ReleaseStamps(g)
      PROVE  /\ heap'[o].val = heap[o].val /\ heap'[o].exp = heap[o].exp
             /\ heap'[o] = heap[o] \/ (pc[g] = "releaseStamp" /\ seen[g] = o)
  BY <1>0, <1>3 DEF ReleaseStamps, Tombstone, Entry
<1>4. ASSUME UNCHANGED heap
      PROVE  /\ heap'[o].val = heap[o].val /\ heap'[o].exp = heap[o].exp
             /\ heap'[o] = heap[o]
  BY <1>4
<1>5. ASSUME NEW g \in Goroutine,
             \/ AcquireLoads(g) \/ AcquireChecks(g) \/ AcquireStores(g)
             \/ ReleaseBegins(g) \/ ReleaseChecks(g) \/ ReleaseStores(g)
             \/ SetMetaBegins(g) \/ SetMetaLoads(g) \/ SetMetaStores(g)
      PROVE  UNCHANGED heap
  BY <1>5 DEF AcquireLoads, AcquireChecks, AcquireStores, ReleaseBegins, ReleaseChecks,
              ReleaseStores, SetMetaBegins, SetMetaLoads, SetMetaStores, store
<1>6. CASE CleanupChecks \/ CleanupDeletes \/ Tick
  BY <1>4, <1>6 DEF CleanupChecks, CleanupDeletes, Tick, store
<1> QED BY <1>1, <1>2, <1>3, <1>4, <1>5, <1>6 DEF CoreNext, Step

\* Whoever is about to release the last quiet lock is not its holder.
LEMMA HolderStep ==
    ASSUME IInv, Next
    PROVE  HolderIsAway'
<1> SUFFICES ASSUME quietLock' # 0, NEW g \in Goroutine, Releasing(g)'
             PROVE  heap'[quietLock'].val # g
  BY DEF HolderIsAway
<1>1. ~Quiet'
  BY DEF Quiet, Releasing
<1>2. quietLock' = quietLock /\ ~GivenUp /\ quietLock # 0
  BY <1>1, QuietLockIs DEF Next
<1>3. heap[quietLock].val # g
  BY <1>2 DEF GivenUp
<1>4. quietLock \in Obj /\ quietLock \in Used
  BY <1>2 DEF IInv, TypeOK, Pointer, Used
<1> QED BY <1>2, <1>3, <1>4, UsedIsKept DEF Next, CoreNext

\* While the last quiet lock lasts nobody gets past the check.
LEMMA SettledStep ==
    ASSUME IInv, Next
    PROVE  Settled'
<1> SUFFICES ASSUME quietLock' # 0, time' <= heap'[quietLock'].exp
             PROVE  /\ lockAt' = quietLock' /\ ~heap'[quietLock'].deleted /\ ~janitor'
                    /\ \A h \in Goroutine :
                        /\ pc'[h] \in {"lockCheck", "holderCheck"} => seen'[h] = quietLock'
                        /\ pc'[h] \notin {"lockStore", "release", "releaseStamp", "releaseStore"}
  BY DEF Settled
<1>0. CoreNext /\ Observe
  BY DEF Next, CoreNext
<1>1. CASE Quiet' /\ quietLock' = lockAt' /\ LockHeld(heap'[lockAt'], time')
  BY <1>1 DEF Quiet, LockHeld
<1>2. CASE quietLock' = quietLock
  <2> DEFINE q == quietLock
             Kept == /\ lockAt' = q /\ ~janitor'
                     /\ \A h \in Goroutine :
                         /\ pc'[h] \in {"lockCheck", "holderCheck"} => seen'[h] = q
                         /\ pc'[h] \notin {"lockStore", "release", "releaseStamp", "releaseStore"}
  <2>1. q \in Obj /\ q \in Used /\ q # 0
    BY <1>2 DEF IInv, TypeOK, Pointer, Used
  <2>2. heap'[q].exp = heap[q].exp
    BY <1>0, <2>1, UsedIsKept
  <2>3. time \in Nat /\ time <= time' /\ time' \in Nat /\ heap[q].exp \in Nat
    <3>1. time \in Nat /\ heap[q].exp \in Nat
      BY <2>1 DEF IInv, TypeOK, CoreTypes, Entry
    <3>2. time' = time \/ time' = time + 1
      BY <1>0 DEF CoreNext, Step, AcquireBegins, AcquireLoads, AcquireChecks, AcquireStores,
                  ReleaseBegins, ReleaseChecks, ReleaseMarks, ReleaseStamps, ReleaseStores,
                  SetMetaBegins, SetMetaLoads, SetMetaStores, CleanupChecks, CleanupDeletes, Tick
    <3> QED BY <3>1, <3>2
  <2>4. time <= heap[q].exp
    BY <1>2, <2>2, <2>3
  <2>5. /\ lockAt = q /\ ~heap[q].deleted /\ ~janitor
        /\ \A h \in Goroutine :
            /\ pc[h] \in {"lockCheck", "holderCheck"} => seen[h] = q
            /\ pc[h] \notin {"lockStore", "release", "releaseStamp", "releaseStore"}
    BY <2>1, <2>4 DEF IInv, Settled
  <2>6. heap'[q] = heap[q]
    BY <1>0, <2>1, <2>5, UsedIsKept
  <2>7. ~LockFree(heap[q], time)
    BY <2>3, <2>4, <2>5 DEF LockFree, Expired
  <2>8. CoreTypes
    BY DEF IInv, TypeOK
  <2>9. ASSUME NEW g \in Goroutine, Return(g), UNCHANGED <<lockAt, janitor>>
        PROVE  Kept
    BY <2>5, <2>8, <2>9, Leaves
  <2>10. ASSUME NEW g \in Goroutine, NEW ttl \in TTL, AcquireBegins(g, ttl) PROVE Kept
    BY <2>5, <2>8, <2>10 DEF AcquireBegins, Goto, CoreTypes
  <2>11. ASSUME NEW g \in Goroutine, AcquireLoads(g) PROVE Kept
    BY <2>1, <2>5, <2>8, <2>11 DEF AcquireLoads, Goto, CoreTypes
  <2>12. ASSUME NEW g \in Goroutine, AcquireChecks(g) PROVE Kept
    BY <2>5, <2>7, <2>9, <2>12 DEF AcquireChecks, store
  <2>13. ASSUME NEW g \in Goroutine, ReleaseBegins(g) PROVE Kept
    BY <2>5, <2>8, <2>13 DEF ReleaseBegins, Goto, CoreTypes, store
  <2>14. ASSUME NEW g \in Goroutine, ReleaseChecks(g) PROVE Kept
    <3>1. heap[q].val # g
      BY <2>1, <2>14 DEF IInv, HolderIsAway, ReleaseChecks, Releasing
    <3> QED BY <2>5, <2>9, <2>14, <3>1 DEF ReleaseChecks, LockHeldBy, store
  <2>15. ASSUME NEW g \in Goroutine, \/ AcquireStores(g) \/ ReleaseMarks(g) \/ ReleaseStamps(g)
                                     \/ ReleaseStores(g)
         PROVE  Kept
    BY <2>5, <2>15 DEF AcquireStores, ReleaseMarks, ReleaseStamps, ReleaseStores
  <2>16. ASSUME NEW g \in Goroutine, SetMetaBegins(g) PROVE Kept
    BY <2>5, <2>8, <2>16 DEF SetMetaBegins, Goto, CoreTypes, store
  <2>17. ASSUME NEW g \in Goroutine, SetMetaLoads(g) \/ SetMetaStores(g) PROVE Kept
    <3>1. UNCHANGED <<lockAt, janitor>>
      BY <2>17 DEF SetMetaLoads, SetMetaStores
    <3>2. CASE Goto(g, "metaStore") /\ UNCHANGED seen
      BY <2>5, <2>8, <3>1, <3>2 DEF Goto, CoreTypes
    <3> QED BY <2>9, <2>17, <3>1, <3>2 DEF SetMetaLoads, SetMetaStores
  <2>18. ASSUME CleanupChecks \/ CleanupDeletes \/ Tick PROVE Kept
    BY <2>5, <2>7, <2>18 DEF CleanupChecks, CleanupDeletes, Tick, store, locals
  <2> HIDE DEF Kept
  <2>19. Kept
    BY <1>0, <2>10, <2>11, <2>12, <2>13, <2>14, <2>15, <2>16, <2>17, <2>18 DEF CoreNext, Step
  <2> QED BY <1>2, <2>5, <2>6, <2>19 DEF Kept
<1> QED BY <1>0, <1>1, <1>2, QuietLockIs

\* What an undisturbed burst has come to before a step.
Granted(before) ==
    /\ ~janitor
    /\ \A h \in Goroutine :
        /\ ~Releasing(h) /\ pc[h] # "lockStore"
        /\ Acquiring(h) => ~LockFree(heap[mine[h]], time)
        /\ pc[h] = "lockCheck" => seen[h] = lockAt
    /\ \/ before = 0 /\ lockAt = 0
       \/ before = 1 /\ lockAt # 0 /\ ~LockFree(heap[lockAt], time)

\* A step of a burst that stays undisturbed continues an undisturbed burst,
\* or begins one where there is no lock.
LEMMA UndisturbedIs ==
    ASSUME IInv, Next, undisturbed'
    PROVE  /\ time' = time /\ \A h \in Goroutine : ~Releasing(h)'
           /\ \E before \in {0, 1} :
                /\ Granted(before)
                /\ GrantStep => grants' = before + 1
                /\ ~GrantStep => grants' = before
<1> DEFINE before == IF Quiet THEN 0 ELSE grants
<1>1. undisturbed' <=> /\ IF Quiet THEN lockAt = 0 ELSE undisturbed
                       /\ time' = time /\ \A h \in Goroutine : ~Releasing(h)'
  BY Zenon DEF Next, Observe
<1>2. time' = time /\ \A h \in Goroutine : ~Releasing(h)'
  BY <1>1
<1>3. before \in {0, 1} /\ Granted(before)
  <2>1. CASE Quiet
    BY <1>1, <2>1 DEF Quiet, Granted, Releasing, Acquiring
  <2>2. CASE ~Quiet
    <3>1. undisturbed
      BY <1>1, <2>2
    <3> QED BY <2>2, <3>1 DEF IInv, OneGranted, Granted
  <2> QED BY <2>1, <2>2
<1>4. grants' = CASE ~undisturbed'           -> 0
                  [] undisturbed' /\ GrantStep  -> IF before < 2 THEN before + 1 ELSE 2
                  [] undisturbed' /\ ~GrantStep -> before
  BY DEF Next, Observe
<1> HIDE DEF before
<1>5. CASE GrantStep
  <2>1. grants' = before + 1
    BY <1>3, <1>4, <1>5
  <2> QED BY <1>2, <1>3, <1>5, <2>1
<1>6. CASE ~GrantStep
  <2>1. grants' = before
    BY <1>3, <1>4, <1>6
  <2> QED BY <1>2, <1>3, <1>6, <2>1
<1> QED BY <1>5, <1>6

\* LoadOrStore grants the lock once.
LEMMA GrantedStep ==
    ASSUME IInv, Next
    PROVE  OneGranted'
<1> SUFFICES ASSUME undisturbed' PROVE OneGranted'
  BY DEF OneGranted
<1>0. CoreNext /\ CoreTypes
  BY DEF Next, CoreNext, IInv, TypeOK
<1>1. time' = time /\ \A h \in Goroutine : ~Releasing(h)'
  BY UndisturbedIs
<1>2. PICK before \in {0, 1} : /\ Granted(before)
                               /\ GrantStep => grants' = before + 1
                               /\ ~GrantStep => grants' = before
  BY UndisturbedIs
<1>3. PointersFit /\ NewIsPrivate
  BY DEF IInv
<1>4. ASSUME ~GrantStep, ~janitor', UNCHANGED <<heap, lockAt>>,
             \A h \in Goroutine :
                /\ pc'[h] # "lockStore"
                /\ Acquiring(h)' => mine'[h] = mine[h] /\ Acquiring(h)
                /\ pc'[h] = "lockCheck" => seen'[h] = lockAt
      PROVE  OneGranted'
  BY <1>1, <1>2, <1>4 DEF Granted, OneGranted
<1>5. ASSUME NEW g \in Goroutine, ~Acquiring(g) \/ pc'[g] # "idle" \/ lockAt' # mine[g],
             \A h \in Goroutine \ {g} : pc'[h] = pc[h]
      PROVE  ~GrantStep
  BY <1>5 DEF GrantStep, Acquiring
<1>6. ASSUME NEW g \in Goroutine, NEW ttl \in TTL, AcquireBegins(g, ttl) PROVE OneGranted'
  <2>1. /\ Fresh \in Obj /\ Fresh \notin Used /\ lockAt' = lockAt /\ janitor' = janitor
        /\ pc[g] = "idle" /\ seen' = seen
        /\ \A h \in Goroutine : pc'[h] = IF h = g THEN "lockLoad" ELSE pc[h]
        /\ \A h \in Goroutine : mine'[h] = IF h = g THEN Fresh ELSE mine[h]
    BY <1>0, <1>6, FreshIsUnused DEF AcquireBegins, IInv, Goto, CoreTypes
  <2>2. ~GrantStep
    BY <1>5, <2>1 DEF Acquiring
  <2>3. \A o \in Obj : o \in Used => heap'[o] = heap[o]
    BY <1>6, <2>1 DEF AcquireBegins
  <2>4. heap'[Fresh] = NewLock(g, time + ttl, Self, Stamped)
    BY <1>6, <2>1 DEF AcquireBegins
  <2>5. ~LockFree(heap'[Fresh], time)
    <3>1. ttl \in Nat /\ time \in Nat
      BY <1>0, RacesAssumption DEF CoreTypes
    <3> QED BY <2>4, <3>1 DEF NewLock, LockFree, Expired
  <2>6. \A h \in Goroutine : Acquiring(h)' => ~LockFree(heap'[mine'[h]], time)
    <3> SUFFICES ASSUME NEW h \in Goroutine, Acquiring(h)', h # g
                 PROVE  ~LockFree(heap'[mine'[h]], time)
      BY <2>1, <2>5
    <3>1. Acquiring(h) /\ mine'[h] = mine[h]
      BY <2>1 DEF Acquiring
    <3>2. mine[h] \in Obj /\ mine[h] \in Used
      BY <1>0, <1>3, <3>1 DEF PointersFit, CoreTypes, Pointer, Used
    <3> QED BY <1>2, <2>3, <3>1, <3>2 DEF Granted
  <2>7. lockAt # 0 => heap'[lockAt] = heap[lockAt]
    BY <1>0, <2>3 DEF CoreTypes, Pointer, Used
  <2> QED BY <1>1, <1>2, <2>1, <2>2, <2>6, <2>7 DEF Granted, OneGranted
<1>7. ASSUME NEW g \in Goroutine, AcquireLoads(g), lockAt = 0 PROVE OneGranted'
  <2>1. /\ lockAt' = mine[g] /\ heap' = heap /\ janitor' = janitor /\ pc[g] = "lockLoad"
        /\ \A h \in Goroutine : /\ pc'[h] = IF h = g THEN "idle" ELSE pc[h]
                                /\ mine'[h] = IF h = g THEN 0 ELSE mine[h]
                                /\ seen'[h] = IF h = g THEN 0 ELSE seen[h]
    BY <1>0, <1>7, Leaves DEF AcquireLoads
  <2>2. GrantStep /\ mine[g] # 0 /\ ~LockFree(heap[mine[g]], time)
    BY <1>2, <1>3, <2>1 DEF GrantStep, Acquiring, PointersFit, Granted
  <2>3. \A h \in Goroutine : pc[h] # "lockCheck"
    BY <1>2, <1>3, <1>7 DEF Granted, PointersFit
  <2>4. \A h \in Goroutine : Acquiring(h)' => Acquiring(h) /\ mine'[h] = mine[h]
    BY <2>1 DEF Acquiring
  <2> QED BY <1>1, <1>2, <1>7, <2>1, <2>2, <2>3, <2>4 DEF Granted, OneGranted
<1>8. ASSUME NEW g \in Goroutine, AcquireLoads(g), lockAt # 0 PROVE OneGranted'
  <2>1. /\ UNCHANGED <<heap, lockAt, janitor, mine>> /\ pc[g] = "lockLoad"
        /\ \A h \in Goroutine : /\ pc'[h] = IF h = g THEN "lockCheck" ELSE pc[h]
                                /\ seen'[h] = IF h = g THEN lockAt ELSE seen[h]
    BY <1>0, <1>8 DEF AcquireLoads, Goto, CoreTypes
  <2>2. ~GrantStep
    BY <1>5, <2>1
  <2> QED BY <1>2, <1>4, <2>1, <2>2 DEF Granted, Acquiring
<1>9. ASSUME NEW g \in Goroutine, Return(g), UNCHANGED <<heap, lockAt, janitor>>,
             Writing(g) \/ pc[g] = "lockCheck"
      PROVE  OneGranted'
  <2>1. \A h \in Goroutine : /\ pc'[h] = IF h = g THEN "idle" ELSE pc[h]
                             /\ mine'[h] = IF h = g THEN 0 ELSE mine[h]
                             /\ seen'[h] = IF h = g THEN 0 ELSE seen[h]
    BY <1>0, <1>9, Leaves
  <2>2. Acquiring(g) => lockAt' # mine[g]
    BY <1>3, <1>9 DEF PointersFit, NewIsPrivate
  <2>3. ~GrantStep
    BY <1>5, <2>1, <2>2
  <2> QED BY <1>2, <1>4, <1>9, <2>1, <2>3 DEF Granted, Acquiring
<1>10. ASSUME NEW g \in Goroutine, AcquireChecks(g) PROVE OneGranted'
  <2>1. seen[g] = lockAt /\ lockAt # 0 /\ ~LockFree(heap[seen[g]], time)
    BY <1>2, <1>3, <1>10 DEF AcquireChecks, Granted, PointersFit
  <2> QED BY <1>9, <1>10, <2>1 DEF AcquireChecks, store
<1>11. ASSUME NEW g \in Goroutine, NEW l \in {"metaLoad", "metaStore"}, Goto(g, l),
              ~Acquiring(g), UNCHANGED <<heap, lockAt, janitor, mine, seen>>
       PROVE  OneGranted'
  <2>1. \A h \in Goroutine : pc'[h] = IF h = g THEN l ELSE pc[h]
    BY <1>0, <1>11 DEF Goto, CoreTypes
  <2>2. ~GrantStep
    BY <1>5, <1>11, <2>1
  <2> QED BY <1>2, <1>4, <1>11, <2>1, <2>2 DEF Granted, Acquiring
<1>12. ASSUME NEW g \in Goroutine, SetMetaBegins(g) \/ SetMetaLoads(g) \/ SetMetaStores(g)
       PROVE  OneGranted'
  <2>1. /\ UNCHANGED <<heap, lockAt, janitor>> /\ ~Acquiring(g)
        /\ pc[g] = "idle" \/ Writing(g)
        /\ \/ Return(g) /\ Writing(g)
           \/ \E l \in {"metaLoad", "metaStore"} : Goto(g, l) /\ UNCHANGED <<mine, seen>>
    BY <1>12 DEF SetMetaBegins, SetMetaLoads, SetMetaStores, store, Acquiring, Writing
  <2> QED BY <1>9, <1>11, <2>1
<1>13. ASSUME NEW g \in Goroutine, \/ ReleaseBegins(g) \/ ReleaseChecks(g) \/ ReleaseMarks(g)
                                   \/ ReleaseStamps(g) \/ ReleaseStores(g) \/ AcquireStores(g)
       PROVE  FALSE
  <2>1. CASE ReleaseBegins(g)
    BY <1>0, <1>1, <2>1 DEF ReleaseBegins, Goto, CoreTypes, Releasing
  <2> QED BY <1>2, <1>13, <2>1 DEF ReleaseChecks, ReleaseMarks, ReleaseStamps, ReleaseStores,
                                   AcquireStores, Granted, Releasing
<1>14. ASSUME CleanupChecks \/ CleanupDeletes \/ Tick PROVE FALSE
  <2>1. time \in Nat
    BY <1>0 DEF CoreTypes
  <2> QED BY <1>1, <1>2, <1>14, <2>1 DEF CleanupChecks, CleanupDeletes, Tick, Granted
<1> QED BY <1>0, <1>6, <1>7, <1>8, <1>10, <1>12, <1>13, <1>14 DEF CoreNext, Step

\* What a step does to the registers, apart from the history: nothing; a new
\* one is made; the loaded one is merged; or one is stored and its writer
\* returns.
LEMMA RegisterSteps ==
    ASSUME IInv, CoreNext
    PROVE  \/ /\ UNCHANGED reg
              /\ clock' = clock \/ clock' = Stamped
              /\ \A h \in Goroutine : (Writing(h)' <=> Writing(h)) /\ (Writing(h) => own'[h] = own[h])
              /\ \A h \in Goroutine : own'[h] \in {own[h], NoEntry}
           \/ \E g \in Goroutine :
                /\ UNCHANGED reg /\ clock' = Stamped
                /\ Writing(g)' /\ own'[g] = NewRegister(g, Self, Stamped)
                /\ \A h \in Goroutine \ {g} : (Writing(h)' <=> Writing(h)) /\ own'[h] = own[h]
           \/ \E g \in Goroutine :
                /\ UNCHANGED <<reg, clock>> /\ reg # NoEntry
                /\ Writing(g) /\ Writing(g)' /\ own'[g] = Merge(reg, own[g])
                /\ \A h \in Goroutine \ {g} : (Writing(h)' <=> Writing(h)) /\ own'[h] = own[h]
           \/ \E g \in Goroutine :
                /\ UNCHANGED clock /\ reg' = own[g]
                /\ Writing(g) /\ ~Writing(g)' /\ own'[g] = NoEntry
                /\ \A h \in Goroutine \ {g} : (Writing(h)' <=> Writing(h)) /\ own'[h] = own[h]
<1> DEFINE Nothing == /\ UNCHANGED reg
                      /\ clock' = clock \/ clock' = Stamped
                      /\ \A h \in Goroutine : (Writing(h)' <=> Writing(h))
                                              /\ (Writing(h) => own'[h] = own[h])
                      /\ \A h \in Goroutine : own'[h] \in {own[h], NoEntry}
<1>0. CoreTypes
  BY DEF IInv, TypeOK
<1>1. ASSUME CleanupChecks \/ CleanupDeletes \/ Tick PROVE Nothing
  BY <1>1 DEF CleanupChecks, CleanupDeletes, Tick, store, locals, Writing
<1>2. ASSUME NEW g \in Goroutine, Return(g), ~Writing(g), UNCHANGED <<reg, clock>> PROVE Nothing
  BY <1>0, <1>2, Leaves DEF Writing
<1>3. ASSUME NEW g \in Goroutine, ~Writing(g), UNCHANGED <<reg, own>>,
             clock' = clock \/ clock' = Stamped,
             NEW l \in Place \ {"metaLoad", "metaStore"}, Goto(g, l)
      PROVE  Nothing
  BY <1>0, <1>3, Leaves DEF Writing
<1> HIDE DEF Nothing
<1>4. ASSUME NEW g \in Goroutine,
             \/ \E ttl \in TTL : AcquireBegins(g, ttl)
             \/ AcquireLoads(g) \/ AcquireChecks(g) \/ AcquireStores(g)
      PROVE  Nothing
  <2>1. /\ reg' = reg /\ (clock' = clock \/ clock' = Stamped) /\ ~Writing(g)
        /\ \/ Return(g) /\ clock' = clock
           \/ UNCHANGED own /\ \E l \in {"lockLoad", "lockCheck", "lockStore"} : Goto(g, l)
    BY <1>4 DEF AcquireBegins, AcquireLoads, AcquireChecks, AcquireStores, SetClock, store,
                locals, Writing
  <2> QED BY <1>2, <1>3, <2>1 DEF Place
<1>5. ASSUME NEW g \in Goroutine,
             \/ ReleaseBegins(g) \/ ReleaseChecks(g) \/ ReleaseMarks(g)
             \/ ReleaseStamps(g) \/ ReleaseStores(g)
      PROVE  Nothing
  <2>1. /\ reg' = reg /\ (clock' = clock \/ clock' = Stamped) /\ ~Writing(g)
        /\ \/ Return(g) /\ clock' = clock
           \/ /\ UNCHANGED own
              /\ \E l \in {"holderCheck", "release", "releaseStamp", "releaseStore"} : Goto(g, l)
    BY <1>5 DEF ReleaseBegins, ReleaseChecks, ReleaseMarks, ReleaseStamps, ReleaseStores, SetClock,
                store, locals, Writing
  <2> QED BY <1>2, <1>3, <2>1 DEF Place
<1>6. ASSUME NEW g \in Goroutine, SetMetaBegins(g)
      PROVE  /\ UNCHANGED reg /\ clock' = Stamped
             /\ Writing(g)' /\ own'[g] = NewRegister(g, Self, Stamped)
             /\ \A h \in Goroutine \ {g} : (Writing(h)' <=> Writing(h)) /\ own'[h] = own[h]
  BY <1>0, <1>6 DEF SetMetaBegins, SetClock, Goto, CoreTypes, Writing, store
<1>7. ASSUME NEW g \in Goroutine, SetMetaLoads(g), reg # NoEntry
      PROVE  /\ UNCHANGED <<reg, clock>> /\ reg # NoEntry
             /\ Writing(g) /\ Writing(g)' /\ own'[g] = Merge(reg, own[g])
             /\ \A h \in Goroutine \ {g} : (Writing(h)' <=> Writing(h)) /\ own'[h] = own[h]
  BY <1>0, <1>7 DEF SetMetaLoads, Goto, CoreTypes, Writing
<1>8. ASSUME NEW g \in Goroutine, (SetMetaLoads(g) /\ reg = NoEntry) \/ SetMetaStores(g)
      PROVE  /\ UNCHANGED clock /\ reg' = own[g]
             /\ Writing(g) /\ ~Writing(g)' /\ own'[g] = NoEntry
             /\ \A h \in Goroutine \ {g} : (Writing(h)' <=> Writing(h)) /\ own'[h] = own[h]
  <2>1. Return(g) /\ reg' = own[g] /\ UNCHANGED clock /\ Writing(g)
    BY <1>8 DEF SetMetaLoads, SetMetaStores, Writing
  <2> QED BY <1>0, <2>1, Leaves DEF Writing
<1>9. CASE Nothing
  BY <1>9 DEF Nothing
<1>10. ASSUME NEW g \in Goroutine, SetMetaBegins(g) \/ SetMetaLoads(g) \/ SetMetaStores(g)
       PROVE  \/ SetMetaBegins(g) \/ (SetMetaLoads(g) /\ reg # NoEntry)
              \/ (SetMetaLoads(g) /\ reg = NoEntry) \/ SetMetaStores(g)
  BY <1>10
<1> QED BY <1>1, <1>4, <1>5, <1>6, <1>7, <1>8, <1>9, <1>10 DEF CoreNext, Step

\* The clock goes on covering all registers.
LEMMA ClockStep ==
    ASSUME IInv, CoreNext, CoreTypes'
    PROVE  /\ LessOrEqual(clock, clock')
           /\ reg' # NoEntry => LessOrEqual(reg'.ts, clock')
           /\ quietReg # NoEntry => LessOrEqual(quietReg.ts, clock')
           /\ \A h \in Goroutine : own'[h] # NoEntry => LessOrEqual(own'[h].ts, clock')
<1>0. /\ ClockCovers /\ clock \in Timestamp /\ clock' \in Timestamp
      /\ reg # NoEntry => reg.ts \in Timestamp
      /\ quietReg # NoEntry => quietReg.ts \in Timestamp
      /\ \A h \in Goroutine : own[h] # NoEntry => own[h].ts \in Timestamp
  BY DEF IInv, TypeOK, CoreTypes, Entry
<1>1. LessOrEqual(clock, clock')
  <2>1. clock' = clock \/ clock' = Stamped
    BY RegisterSteps
  <2> QED BY <2>1, StampedIsNew DEF LessOrEqual, IInv
<1>2. \A t \in Timestamp : LessOrEqual(t, clock) => LessOrEqual(t, clock')
  BY <1>0, <1>1, LessOrder
<1>3. quietReg # NoEntry => LessOrEqual(quietReg.ts, clock')
  BY <1>0, <1>2 DEF ClockCovers
<1>4. reg' # NoEntry => LessOrEqual(reg'.ts, clock')
  <2>1. reg' = reg \/ \E g \in Goroutine : reg' = own[g]
    BY RegisterSteps
  <2> QED BY <1>0, <1>2, <2>1 DEF ClockCovers
<1>5. ASSUME NEW h \in Goroutine, own'[h] # NoEntry PROVE LessOrEqual(own'[h].ts, clock')
  <2>1. \/ own'[h] = own[h] \/ own'[h] = reg
        \/ own'[h] = NewRegister(h, Self, Stamped) /\ clock' = Stamped
    BY <1>5, RegisterSteps DEF Merge
  <2>2. CASE own'[h] = NewRegister(h, Self, Stamped) /\ clock' = Stamped
    BY <2>2 DEF NewRegister, LessOrEqual
  <2> QED BY <1>0, <1>2, <1>5, <2>1, <2>2 DEF ClockCovers
<1> QED BY <1>1, <1>3, <1>4, <1>5

\* Registers made, merged and stored in a burst are newer than the last quiet
\* one: a merge with that one keeps the new one.
LEMMA RegistersAdvance ==
    ASSUME IInv, CoreNext, CoreTypes'
    PROVE  /\ \A h \in Goroutine : Writing(h)' => Advanced(own'[h])
           /\ reg' = quietReg \/ Advanced(reg')
           /\ wrote \/ (\E h \in Goroutine : Writing(h)') =>
                Advanced(reg') \/ \E h \in Goroutine : Writing(h)'
<1>0. /\ BurstIsNewer /\ CoreTypes
      /\ \A h \in Goroutine : Writing(h) => own[h] # NoEntry /\ Advanced(own[h])
  BY DEF IInv, TypeOK, PointersFit, BurstIsNewer
<1>1. CASE /\ UNCHANGED reg
           /\ \A h \in Goroutine : (Writing(h)' <=> Writing(h)) /\ (Writing(h) => own'[h] = own[h])
  BY <1>0, <1>1 DEF BurstIsNewer
<1>2. ASSUME NEW g \in Goroutine, UNCHANGED reg, Writing(g)', Advanced(own'[g]),
             \A h \in Goroutine \ {g} : (Writing(h)' <=> Writing(h)) /\ own'[h] = own[h]
      PROVE  /\ \A h \in Goroutine : Writing(h)' => Advanced(own'[h])
             /\ reg' = quietReg \/ Advanced(reg')
             /\ wrote \/ (\E h \in Goroutine : Writing(h)') =>
                  Advanced(reg') \/ \E h \in Goroutine : Writing(h)'
  BY <1>0, <1>2 DEF BurstIsNewer
<1>3. ASSUME NEW g \in Goroutine, own'[g] = NewRegister(g, Self, Stamped)
      PROVE  Advanced(own'[g])
  <2>1. own'[g] # NoEntry
    <3>1. NewRegister(g, Self, Stamped) \in Entry
      BY StampedIsNew, RacesAssumption DEF NewRegister, Entry, IInv
    <3> QED BY <1>3, <3>1, RacesAssumption
  <2>2. ASSUME quietReg # NoEntry PROVE Newer(quietReg, own'[g])
    <3>1. quietReg.ts \in Timestamp /\ clock \in Timestamp /\ LessOrEqual(quietReg.ts, clock)
      BY <2>2 DEF IInv, TypeOK, CoreTypes, Entry, ClockCovers
    <3>2. Less(quietReg.ts, Stamped)
      BY <3>1, StampedIsNew, LessOrder DEF IInv
    <3>3. own'[g].ts = Stamped
      BY <1>3 DEF NewRegister
    <3> QED BY <3>2, <3>3 DEF Newer
  <2> QED BY <2>1, <2>2 DEF Advanced
<1>4. ASSUME NEW g \in Goroutine, reg # NoEntry, Writing(g), own'[g] = Merge(reg, own[g])
      PROVE  Advanced(own'[g])
  <2>1. CASE Newer(reg, own[g])
    BY <1>0, <1>4, <2>1 DEF Merge
  <2>2. CASE ~Newer(reg, own[g])
    <3>1. own'[g] = reg
      BY <1>4, <2>2 DEF Merge
    <3>2. reg # quietReg
      BY <1>0, <1>4, <2>2 DEF Advanced
    <3> QED BY <1>0, <3>1, <3>2 DEF BurstIsNewer
  <2> QED BY <2>1, <2>2
<1>5. ASSUME NEW g \in Goroutine, reg' = own[g], Writing(g), ~Writing(g)',
             \A h \in Goroutine \ {g} : (Writing(h)' <=> Writing(h)) /\ own'[h] = own[h]
      PROVE  /\ \A h \in Goroutine : Writing(h)' => Advanced(own'[h])
             /\ Advanced(reg')
  BY <1>0, <1>5
<1> QED BY <1>1, <1>2, <1>3, <1>4, <1>5, RegisterSteps

\* The registers with their history.
LEMMA RegisterStep ==
    ASSUME IInv, Next
    PROVE  /\ BurstIsNewer' /\ ClockCovers' /\ QuietIsKnown'
           /\ Quiet' /\ wrote => reg' # NoEntry /\ (quietReg = NoEntry \/ Newer(quietReg, reg'))
<1>1. CoreNext /\ CoreTypes' /\ PointersFit'
  BY BaseStep DEF Next, CoreNext, TypeOK
<1>2. /\ quietReg' = IF Quiet' THEN reg' ELSE quietReg
      /\ wrote' <=> (~Quiet' /\ (wrote \/ \E g \in Goroutine : Writing(g)'))
  BY Zenon DEF Next, Observe
<1>3. Quiet' => \A h \in Goroutine : ~Writing(h)'
  BY DEF Quiet, Writing
<1>4. /\ \A h \in Goroutine : Writing(h)' => Advanced(own'[h])
      /\ reg' = quietReg \/ Advanced(reg')
      /\ wrote \/ (\E h \in Goroutine : Writing(h)') =>
           Advanced(reg') \/ \E h \in Goroutine : Writing(h)'
  BY <1>1, RegistersAdvance
<1>5. BurstIsNewer'
  <2>1. CASE Quiet'
    BY <1>2, <1>3, <2>1 DEF BurstIsNewer
  <2>2. CASE ~Quiet'
    BY <1>2, <1>4, <2>2 DEF BurstIsNewer, Advanced
  <2> QED BY <2>1, <2>2
<1>6. ClockCovers'
  BY <1>1, <1>2, ClockStep DEF ClockCovers
<1>7. QuietIsKnown'
  BY <1>2 DEF QuietIsKnown
<1>8. Quiet' /\ wrote => reg' # NoEntry /\ (quietReg = NoEntry \/ Newer(quietReg, reg'))
  BY <1>3, <1>4 DEF Advanced
<1> QED BY <1>5, <1>6, <1>7, <1>8

-----------------------------------------------------------------------------

\* Every step keeps the invariant, and a burst of SetMeta advances.
LEMMA NextStep ==
    ASSUME IInv, [Next]_vars
    PROVE  /\ IInv'
           /\ [Quiet' /\ wrote =>
                    reg' # NoEntry /\ (quietReg = NoEntry \/ Newer(quietReg, reg'))]_vars
<1>1. CASE Next
  BY <1>1, BaseStep, HolderStep, SettledStep, GrantedStep, RegisterStep DEF IInv
<1>2. CASE UNCHANGED vars
  <2>1. UNCHANGED <<time, clock, heap, lockAt, reg, pc, mine, seen, own, janitor, quietLock,
                    quietReg, grants, undisturbed, wrote>>
    BY <1>2 DEF vars, store, locals, history
  <2>2. TypeOK' /\ PointersFit' /\ NewIsPrivate'
    BY <2>1 DEF IInv, TypeOK, CoreTypes, PointersFit, NewIsPrivate, Acquiring, Releasing, Writing
  <2>3. HolderIsAway' /\ Settled' /\ OneGranted'
    BY <2>1 DEF IInv, HolderIsAway, Settled, OneGranted, Acquiring, Releasing
  <2>4. BurstIsNewer' /\ ClockCovers' /\ QuietIsKnown'
    BY <2>1 DEF IInv, BurstIsNewer, Advanced, ClockCovers, QuietIsKnown, Quiet, Writing
  <2> QED BY <1>2, <2>2, <2>3, <2>4 DEF IInv
<1> QED BY <1>1, <1>2

LEMMA InitStep == Init => IInv
<1> SUFFICES ASSUME Init PROVE IInv
  OBVIOUS
<1> USE DEF Init
<1>1. 0 \in Pointer /\ "idle" \in Place /\ NewClock(1) \in Timestamp
  BY DEF Pointer, Place, NewClock, Stamp, Timestamp
<1>2. Blank \in Entry
  BY RacesAssumption DEF Blank, NewLock, Entry, ZeroTimestamp, Stamp, Timestamp
<1>3. TypeOK
  BY <1>1, <1>2 DEF TypeOK, CoreTypes
<1>4. PointersFit /\ NewIsPrivate
  BY DEF PointersFit, NewIsPrivate, Acquiring, Releasing, Writing
<1>5. HolderIsAway /\ Settled /\ OneGranted
  BY DEF HolderIsAway, Settled, OneGranted, Acquiring, Releasing
<1>6. BurstIsNewer /\ ClockCovers /\ QuietIsKnown
  BY DEF BurstIsNewer, ClockCovers, QuietIsKnown, Writing
<1> QED BY <1>3, <1>4, <1>5, <1>6 DEF IInv

LEMMA Invariance == Spec => []IInv
BY InitStep, NextStep, PTL DEF Spec

\* A lock that is held when nobody is inside a method of db.Manager stays in
\* the map, untouched, until it expires or its own holder calls ReleaseLock
\* (db.go: AcquireLock, ReleaseLock, cleanupExpired, which load, decide and
\* store in separate steps), for any number of goroutines.
THEOREM HeldLocksSettle == Spec => []SettledLockStays
<1>1. IInv => SettledLockStays
  BY DEF IInv, Settled, SettledLockStays
<1> QED BY <1>1, Invariance, PTL

\* Goroutines that race for a lock that is not in the map exclude each other,
\* however many they are: LoadOrStore grants one of them (db.go: AcquireLock).
THEOREM NewLocksExclude == Spec => []OneGrantOfNewLock
<1>1. IInv => OneGrantOfNewLock
  BY DEF IInv, OneGranted, OneGrantOfNewLock
<1> QED BY <1>1, Invariance, PTL

\* A burst of SetMeta, whatever its interleaving, leaves a value of the burst
\* (db.go: SetMeta).
THEOREM MetaBurstsAdvance == Spec => BurstsAdvance
BY Invariance, NextStep, PTL DEF Spec, BurstsAdvance
=============================================================================
