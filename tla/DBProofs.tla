------------------------------ MODULE DBProofs ------------------------------
(***************************************************************************)
(* The replicated store of internal/db, for any nodes, keys, values,       *)
(* lifetimes and bounds and any loss, duplication and reordering of        *)
(* gossip; and its locks as they are wired today, without gossip           *)
(* (MaxMsgs = 0).                                                          *)
(***************************************************************************)
EXTENDS DB, HLCProofs, FiniteSetTheorems

\* No clock is taken back, because the wall clocks agree or, however far
\* apart they are, because none lags behind its HLC when a message is applied
\* or the process restarts.
Sound == MaxSkew = 0 \/ ~LagAllowed

\* With wall clocks that agree a timestamp is not ahead of the time.
OnTime(t, now) == MaxSkew = 0 => t.p <= now

\* No node has gossiped a version it has not reached, and with wall clocks
\* that agree no clock and no message is ahead of them.
NothingAhead ==
    /\ \A n \in Node : OnTime(clock[n], time) /\ LessOrEqual(gossipVersion[n], clock[n])
    /\ \A m \in net : OnTime(m.version, time)

\* A clock covers its node's store, a message's version its entries.
VersionsCover ==
    /\ \A n \in Node, k \in Key : store[n][k] # NoEntry => LessOrEqual(store[n][k].ts, clock[n])
    /\ \A m \in net, k \in Key :
            m.entries[k] # NoEntry => LessOrEqual(m.entries[k].ts, m.version)

\* No copy anywhere carries a stamp its writer's clock has not reached: the
\* writer's next stamp is a new one.
WriterCovers ==
    \A k \in Key : \A e \in Copies(k) : LessOrEqual(e.ts, clock[e.node])

\* What was written since the last snapshot is newer than that snapshot.
WrittenIsNewer ==
    \A n \in Node, k \in Key :
        change[n][k] = "written" /\ store[n][k] # NoEntry =>
            Less(gossipVersion[n], store[n][k].ts)

\* The inductive invariant.
IInv ==
    /\ TypeOK
    /\ NothingAhead
    /\ VersionsCover
    /\ WriterCovers
    /\ WrittenIsNewer
    /\ StampsIdentifyWrites

\* What StoreMonotone says of one step.
StoreStep ==
    \A n \in Node, k \in Key :
        store[n][k] # NoEntry /\ store'[n][k] # NoEntry =>
            \/ store'[n][k] = store[n][k] \/ Newer(store[n][k], store'[n][k])
            \/ k \in LockKey /\ Expired(store[n][k], Wall(n))

-----------------------------------------------------------------------------

\* The types of everything the invariant speaks of.
LEMMA Types ==
    ASSUME TypeOK
    PROVE  /\ time \in Nat
           /\ \A n \in Node : clock[n] \in Timestamp /\ gossipVersion[n] \in Timestamp
           /\ \A n \in Node : skew[n] \in 0 .. MaxSkew
           /\ \A n \in Node, k \in Key : store[n][k] \in Entry \cup {NoEntry}
           /\ \A m \in net : /\ m.from \in Node /\ m.version \in Timestamp
                             /\ \A k \in Key : m.entries[k] \in Entry \cup {NoEntry}
           /\ \A k \in Key : \A e \in Copies(k) :
                    e \in Entry /\ e # NoEntry /\ e.ts \in Timestamp /\ e.node \in Node
<1>1. /\ time \in Nat
      /\ \A n \in Node : clock[n] \in Timestamp /\ gossipVersion[n] \in Timestamp
      /\ \A n \in Node : skew[n] \in 0 .. MaxSkew
      /\ \A n \in Node, k \in Key : store[n][k] \in Entry \cup {NoEntry}
  BY DEF TypeOK, Contents
<1>2. \A m \in net : /\ m.from \in Node /\ m.version \in Timestamp
                     /\ \A k \in Key : m.entries[k] \in Entry \cup {NoEntry}
  BY DEF TypeOK, Message, Contents
<1>3. \A k \in Key : \A e \in Copies(k) : e \in Entry /\ e # NoEntry
  BY <1>1, <1>2 DEF Copies
<1> QED BY <1>1, <1>2, <1>3 DEF Entry

\* A node's reading of the time, the same everywhere when wall clocks agree.
LEMMA WallFacts ==
    ASSUME TypeOK, NEW n \in Node
    PROVE  Wall(n) \in Nat /\ (MaxSkew = 0 => Wall(n) = time)
<1>1. time \in Nat /\ skew[n] \in 0 .. MaxSkew
  BY Types
<1> QED BY <1>1, NumberAssumption DEF Wall

\* A node's next stamps exceed its clock and do not run ahead.
LEMMA NextStampFacts ==
    ASSUME IInv, NEW n \in Node, NEW j \in Nat \ {0}
    PROVE  /\ NextStamp(n, j) \in Timestamp
           /\ Less(clock[n], NextStamp(n, j))
           /\ OnTime(NextStamp(n, j), time)
<1>1. clock[n] \in Timestamp /\ OnTime(clock[n], time)
  BY Types DEF IInv, NothingAhead
<1>2. Wall(n) \in Nat /\ (MaxSkew = 0 => Wall(n) = time)
  BY WallFacts DEF IInv
<1> QED BY <1>1, <1>2, NowTimesIncreases DEF NextStamp, OnTime

\* The clock an imported message leaves exceeds both the clock and the
\* version: the entries' stamps, being covered by the version, add nothing.
LEMMA ClockAfterFacts ==
    ASSUME Sound, IInv, NEW n \in Node, NEW m \in net, LagAllowed \/ UpdateAdvances(n, m)
    PROVE  /\ ClockAfter(n, m) \in Timestamp
           /\ Less(clock[n], ClockAfter(n, m))
           /\ Less(m.version, ClockAfter(n, m))
           /\ OnTime(ClockAfter(n, m), time)
<1> DEFINE loaded == {k \in Key : m.entries[k] # NoEntry /\ store[n][k] # NoEntry}
           updated == ClockUpdate(clock[n], m.version, Wall(n))
           stamps == {updated} \cup {m.entries[k].ts : k \in loaded}
           top == CHOOSE t \in stamps : \A u \in stamps : LessOrEqual(u, t)
<1>1. /\ clock[n] \in Timestamp /\ OnTime(clock[n], time)
      /\ m.version \in Timestamp /\ OnTime(m.version, time)
      /\ Wall(n) \in Nat /\ (MaxSkew = 0 => Wall(n) = time)
  BY Types, WallFacts DEF IInv, NothingAhead
<1>2. /\ updated \in Timestamp /\ Less(clock[n], updated) /\ Less(m.version, updated)
      /\ OnTime(updated, time)
  <2>1. updated \in Timestamp /\ Less(m.version, updated)
    BY <1>1, UpdateExceedsReceived
  <2>2. CASE MaxSkew = 0
    <3>1. clock[n].p <= Wall(n) /\ m.version.p <= Wall(n)
      BY <1>1, <2>2 DEF OnTime
    <3>2. Less(clock[n], updated) /\ updated.p = Wall(n)
      BY <1>1, <3>1, UpdateIncreases
    <3>3. Wall(n) = time /\ time \in Nat
      BY <1>1, <2>2
    <3> QED BY <2>1, <3>2, <3>3 DEF OnTime
  <2>3. CASE MaxSkew # 0
    <3>1. Less(clock[n], updated)
      BY <2>3 DEF Sound, UpdateAdvances
    <3> QED BY <2>1, <2>3, <3>1 DEF OnTime
  <2> QED BY <2>2, <2>3
<1> HIDE DEF updated
<1>3. \A u \in stamps : u \in Timestamp /\ LessOrEqual(u, updated)
  <2> TAKE u \in stamps
  <2>1. CASE u = updated
    BY <2>1, <1>2 DEF LessOrEqual
  <2>2. ASSUME NEW k \in loaded, u = m.entries[k].ts
        PROVE  u \in Timestamp /\ LessOrEqual(u, updated)
    <3>1. m.entries[k] \in Entry /\ LessOrEqual(m.entries[k].ts, m.version)
      BY <2>2, Types DEF IInv, VersionsCover
    <3>2. u \in Timestamp
      BY <3>1, <2>2 DEF Entry
    <3> QED BY <3>1, <3>2, <2>2, <1>1, <1>2, LessOrder DEF LessOrEqual
  <2> QED BY <2>1, <2>2
<1>4. top \in stamps /\ \A u \in stamps : LessOrEqual(u, top)
  BY <1>3
<1>5. top = updated
  BY <1>2, <1>3, <1>4, LessOrder DEF LessOrEqual
<1>6. ClockAfter(n, m) = top
  BY DEF ClockAfter, updated
<1> QED BY <1>2, <1>5, <1>6

\* A step that makes no new copies and turns no clock back.
LEMMA NoNewCopies ==
    ASSUME IInv, TypeOK',
           \A n \in Node : LessOrEqual(clock[n], clock'[n]),
           \A k \in Key : Copies(k)' \subseteq Copies(k)
    PROVE  WriterCovers' /\ StampsIdentifyWrites'
<1>1. \A n \in Node : clock[n] \in Timestamp /\ clock'[n] \in Timestamp
  BY Types DEF IInv, TypeOK
<1>2. ASSUME NEW k \in Key, NEW e \in Copies(k)' PROVE LessOrEqual(e.ts, clock'[e.node])
  <2>1. e \in Copies(k)
    BY <1>2
  <2>2. LessOrEqual(e.ts, clock[e.node]) /\ e.node \in Node /\ e.ts \in Timestamp
    BY <2>1, Types DEF IInv, WriterCovers
  <2> QED BY <2>2, <1>1, LessOrder
<1>3. WriterCovers'
  BY <1>2 DEF WriterCovers
<1>4. StampsIdentifyWrites'
  <2> SUFFICES ASSUME NEW k \in Key, NEW a \in Copies(k)', NEW b \in Copies(k)',
                      a.ts = b.ts /\ a.node = b.node
               PROVE  a = b
    BY DEF StampsIdentifyWrites
  <2> QED BY DEF IInv, StampsIdentifyWrites
<1> QED BY <1>3, <1>4

\* A node writes an entry under a stamp above its clock: the whole effect of
\* every local write of the Manager.
LEMMA WriteStep ==
    ASSUME Sound, IInv, NEW n \in Node, NEW k \in Key, NEW e \in Entry,
           e.node = n, Less(clock[n], e.ts), OnTime(e.ts, time),
           clock' = [clock EXCEPT ![n] = e.ts],
           store' = [store EXCEPT ![n][k] = e],
           change' = [change EXCEPT ![n][k] = "written"],
           UNCHANGED <<time, skew, gossipVersion, net>>,
           grants' \subseteq Grant
    PROVE  IInv' /\ StoreStep
<1>1. /\ e.ts \in Timestamp /\ e # NoEntry
      /\ clock \in [Node -> Timestamp] /\ store \in [Node -> Contents]
      /\ change \in [Node -> [Key -> {"none", "written", "merged"}]]
  BY NoEntryAssumption DEF Entry, IInv, TypeOK
<1>2. TypeOK'
  BY <1>1 DEF IInv, TypeOK, Contents
<1>3. /\ clock'[n] = e.ts
      /\ \A a \in Node : a # n => clock'[a] = clock[a]
      /\ \A a \in Node : clock[a] \in Timestamp /\ LessOrEqual(clock[a], clock'[a])
  BY <1>1 DEF LessOrEqual
<1>4. /\ store'[n][k] = e
      /\ \A a \in Node, j \in Key : a # n \/ j # k => store'[a][j] = store[a][j]
  BY <1>1 DEF Contents
<1>5. /\ change'[n][k] = "written"
      /\ \A a \in Node, j \in Key : a # n \/ j # k => change'[a][j] = change[a][j]
  BY <1>1
<1>6. NothingAhead'
  <2>1. \A a \in Node : LessOrEqual(gossipVersion[a], clock'[a])
    BY <1>1, <1>3, Types, LessOrder DEF IInv, NothingAhead
  <2>2. \A a \in Node : OnTime(clock'[a], time)
    BY <1>3 DEF IInv, NothingAhead
  <2> QED BY <2>1, <2>2 DEF IInv, NothingAhead
<1>7. VersionsCover'
  <2>1. ASSUME NEW a \in Node, NEW j \in Key, store'[a][j] # NoEntry
        PROVE  LessOrEqual(store'[a][j].ts, clock'[a])
    <3>1. CASE a = n /\ j = k
      BY <3>1, <1>3, <1>4 DEF LessOrEqual
    <3>2. CASE a # n \/ j # k
      <4>1. store'[a][j] = store[a][j] /\ store[a][j] \in Entry
        BY <3>2, <2>1, <1>4, Types DEF IInv
      <4>2. store[a][j].ts \in Timestamp /\ LessOrEqual(store[a][j].ts, clock[a])
        BY <4>1, <2>1 DEF Entry, IInv, VersionsCover
      <4>3. clock'[a] \in Timestamp
        BY <1>2 DEF TypeOK
      <4> QED BY <4>1, <4>2, <4>3, <1>3, LessOrder
    <3> QED BY <3>1, <3>2
  <2> QED BY <2>1 DEF IInv, VersionsCover
<1>8. /\ \A j \in Key : j # k => Copies(j)' \subseteq Copies(j)
      /\ Copies(k)' \subseteq Copies(k) \cup {e}
  <2>1. \A j \in Key : \A x : x \in Copies(j)' => x \in Copies(j) \/ (j = k /\ x = e)
    BY <1>4 DEF Copies
  <2> QED BY <2>1
<1>9. \A j \in Key : \A x \in Copies(j) : Less(x.ts, e.ts) \/ x.node # n
  <2> TAKE j \in Key
  <2> TAKE x \in Copies(j)
  <2>1. LessOrEqual(x.ts, clock[x.node]) /\ x.ts \in Timestamp
    BY Types DEF IInv, WriterCovers
  <2> QED BY <2>1, <1>1, <1>3, LessOrder
<1>10. WriterCovers'
  <2>1. ASSUME NEW j \in Key, NEW x \in Copies(j)' PROVE LessOrEqual(x.ts, clock'[x.node])
    <3>1. CASE x \in Copies(j)
      <4>1. LessOrEqual(x.ts, clock[x.node]) /\ x.node \in Node /\ x.ts \in Timestamp
        BY <3>1, Types DEF IInv, WriterCovers
      <4>2. clock'[x.node] \in Timestamp
        BY <4>1, <1>2 DEF TypeOK
      <4> QED BY <4>1, <4>2, <1>3, LessOrder
    <3>2. CASE x = e
      BY <3>2, <1>3 DEF LessOrEqual
    <3> QED BY <3>1, <3>2, <1>8
  <2> QED BY <2>1 DEF WriterCovers
<1>11. StampsIdentifyWrites'
  <2> SUFFICES ASSUME NEW j \in Key, NEW a \in Copies(j)', NEW b \in Copies(j)',
                      a.ts = b.ts, a.node = b.node
               PROVE  a = b
    BY DEF StampsIdentifyWrites
  <2>1. CASE a \in Copies(j) /\ b \in Copies(j)
    BY <2>1 DEF IInv, StampsIdentifyWrites
  <2>2. CASE a = e /\ b \in Copies(j)
    BY <2>2, <1>1, <1>9, LessOrder
  <2>3. CASE b = e /\ a \in Copies(j)
    BY <2>3, <1>1, <1>9, LessOrder
  <2> QED BY <2>1, <2>2, <2>3, <1>8
<1>12. WrittenIsNewer'
  <2>1. ASSUME NEW a \in Node, NEW j \in Key,
               change'[a][j] = "written", store'[a][j] # NoEntry
        PROVE  Less(gossipVersion[a], store'[a][j].ts)
    <3>1. CASE a = n /\ j = k
      BY <3>1, <1>1, <1>4, Types, LessOrder DEF IInv, NothingAhead
    <3>2. CASE a # n \/ j # k
      BY <3>2, <2>1, <1>4, <1>5 DEF IInv, WrittenIsNewer
    <3> QED BY <3>1, <3>2
  <2> QED BY <2>1 DEF WrittenIsNewer
<1>13. StoreStep
  <2>1. store[n][k] # NoEntry => Newer(store[n][k], e)
    <3> HAVE store[n][k] # NoEntry
    <3>1. store[n][k] \in Entry
      BY Types DEF IInv
    <3>2. store[n][k].ts \in Timestamp /\ LessOrEqual(store[n][k].ts, clock[n])
      BY <3>1 DEF Entry, IInv, VersionsCover
    <3> QED BY <3>2, <1>1, <1>3, LessOrder DEF Newer
  <2> QED BY <2>1, <1>4 DEF StoreStep
<1> QED BY <1>2, <1>6, <1>7, <1>10, <1>11, <1>12, <1>13 DEF IInv

\* What a node stores is older than any stamp it takes next, so the merge
\* in SaveSession and SetMeta always keeps the new entry.
LEMMA StoredIsOlder ==
    ASSUME Sound, IInv, NEW n \in Node, NEW k \in Key, NEW j \in Nat \ {0},
           store[n][k] # NoEntry
    PROVE  /\ store[n][k] \in Entry
           /\ Less(store[n][k].ts, NextStamp(n, j))
<1>1. store[n][k] \in Entry
  BY Types DEF IInv
<1>2. store[n][k].ts \in Timestamp /\ LessOrEqual(store[n][k].ts, clock[n])
  BY <1>1 DEF Entry, IInv, VersionsCover
<1>3. clock[n] \in Timestamp
  BY Types DEF IInv
<1> QED BY <1>1, <1>2, <1>3, NextStampFacts, LessOrder

\* The expiry dates an operation computes are numbers.
LEMMA ExpiryType ==
    ASSUME Sound, IInv, NEW n \in Node, NEW ttl \in TTL
    PROVE  Wall(n) + ttl \in Nat
<1>1. ttl \in Nat
  BY TTLAssumption
<1> QED BY <1>1, WallFacts DEF IInv

\* session.SaveSession stores its fresh session: an instance of WriteStep.
LEMMA SaveSessionStep ==
    ASSUME Sound, IInv, NEW n \in Node, NEW id \in SessionID, NEW v \in Value, NEW ttl \in TTL,
           SaveSession(n, id, v, ttl)
    PROVE  IInv' /\ StoreStep
<1> DEFINE ts == NextStamp(n, 1)
           e == NewSession(v, Wall(n) + ttl, n, ts)
<1>1. /\ clock' = [clock EXCEPT ![n] = ts]
      /\ store' = [store EXCEPT ![n][id] = Saved(store[n][id], e)]
      /\ change' = [change EXCEPT ![n][id] = "written"]
      /\ UNCHANGED <<time, skew, gossipVersion, net, grants>>
  BY DEF SaveSession, SetClock, Put, Mark
<1>2. id \in Key
  BY DEF Key
<1>3. ts \in Timestamp /\ Less(clock[n], ts) /\ OnTime(ts, time)
  BY NextStampFacts
<1>4. e \in Entry /\ e.ts = ts /\ e.node = n
  BY <1>3, ExpiryType DEF NewSession, Entry
<1>5. store[n][id] # NoEntry => Less(store[n][id].ts, ts)
  BY <1>2, StoredIsOlder
<1> HIDE DEF ts, e
<1>6. Saved(store[n][id], e) = e
  BY <1>4, <1>5 DEF Saved, Merge, Newer
<1>7. grants' \subseteq Grant
  BY <1>1 DEF IInv, TypeOK
<1> QED BY <1>1, <1>2, <1>3, <1>4, <1>6, <1>7, WriteStep

\* DeleteSession stores a tombstone under a new stamp.
LEMMA DeleteSessionStep ==
    ASSUME Sound, IInv, NEW n \in Node, NEW id \in SessionID, DeleteSession(n, id)
    PROVE  IInv' /\ StoreStep
<1> DEFINE ts == NextStamp(n, 1)
           e == Tombstone(store[n][id], n, ts)
<1>1. /\ store[n][id] # NoEntry
      /\ clock' = [clock EXCEPT ![n] = ts]
      /\ store' = [store EXCEPT ![n][id] = e]
      /\ change' = [change EXCEPT ![n][id] = "written"]
      /\ UNCHANGED <<time, skew, gossipVersion, net, grants>>
  BY DEF DeleteSession, SetClock, Put, Mark
<1>2. id \in Key
  BY DEF Key
<1>3. ts \in Timestamp /\ Less(clock[n], ts) /\ OnTime(ts, time)
  BY NextStampFacts
<1>4. store[n][id] \in Entry
  BY <1>1, <1>2, Types DEF IInv
<1>5. e \in Entry /\ e.ts = ts /\ e.node = n
  BY <1>3, <1>4 DEF Tombstone, Entry
<1> HIDE DEF ts, e
<1>6. grants' \subseteq Grant
  BY <1>1 DEF IInv, TypeOK
<1> QED BY <1>1, <1>2, <1>3, <1>5, <1>6, WriteStep

\* session.LockSession stores the locked session under a new stamp, whether
\* the session was there or had to be created.
LEMMA LockSessionStep ==
    ASSUME Sound, IInv, NEW n \in Node, NEW id \in SessionID, NEW h \in Value, NEW ttl \in TTL,
           LockSession(n, id, h, ttl)
    PROVE  IInv' /\ StoreStep
<1> DEFINE visible == VisibleSession(n, id)
           ts == NextStamp(n, IF visible THEN 2 ELSE 4)
           created == [NewSession(None, Wall(n) + ttl, n, ts) EXCEPT !.lockedBy = h]
           locked == [store[n][id] EXCEPT !.lockedBy = h, !.ts = ts, !.node = n]
           e == IF visible THEN locked ELSE created
<1>1. /\ clock' = [clock EXCEPT ![n] = ts]
      /\ store' = [store EXCEPT ![n][id] =
                      IF visible THEN locked ELSE Saved(AfterGetSession(n, id), created)]
      /\ change' = [change EXCEPT ![n][id] = "written"]
      /\ UNCHANGED <<time, skew, gossipVersion, net, grants>>
  BY DEF LockSession, SetClock, Put, Mark
<1>2. id \in Key
  BY DEF Key
<1>3. ts \in Timestamp /\ Less(clock[n], ts) /\ OnTime(ts, time)
  BY NextStampFacts
<1>4. store[n][id] # NoEntry => store[n][id] \in Entry /\ Less(store[n][id].ts, ts)
  BY <1>2, StoredIsOlder
<1> HIDE DEF ts
<1>5. created \in Entry /\ created.ts = ts /\ created.node = n
  BY <1>3, ExpiryType DEF NewSession, Entry
<1>6. visible => locked \in Entry /\ locked.ts = ts /\ locked.node = n
  BY <1>3, <1>4 DEF VisibleSession, Entry
<1> HIDE DEF created, locked
<1>7. Saved(AfterGetSession(n, id), created) = created
  BY <1>4, <1>5 DEF Saved, Merge, Newer, AfterGetSession
<1>8. e \in Entry /\ e.ts = ts /\ e.node = n
  BY <1>5, <1>6
<1>9. store' = [store EXCEPT ![n][id] = e]
  BY <1>1, <1>7
<1> HIDE DEF e
<1>10. grants' \subseteq Grant
  BY <1>1 DEF IInv, TypeOK
<1> QED BY <1>1, <1>2, <1>3, <1>8, <1>9, <1>10, WriteStep

\* session.UnlockSession stores the unlocked session under a new stamp.
LEMMA UnlockSessionStep ==
    ASSUME Sound, IInv, NEW n \in Node, NEW id \in SessionID, UnlockSession(n, id)
    PROVE  IInv' /\ StoreStep
<1> DEFINE ts == NextStamp(n, 2)
           e == [store[n][id] EXCEPT !.lockedBy = None, !.ts = ts, !.node = n]
<1>1. /\ store[n][id] # NoEntry
      /\ clock' = [clock EXCEPT ![n] = ts]
      /\ store' = [store EXCEPT ![n][id] = e]
      /\ change' = [change EXCEPT ![n][id] = "written"]
      /\ UNCHANGED <<time, skew, gossipVersion, net, grants>>
  BY DEF UnlockSession, VisibleSession, SetClock, Put, Mark
<1>2. id \in Key
  BY DEF Key
<1>3. ts \in Timestamp /\ Less(clock[n], ts) /\ OnTime(ts, time)
  BY NextStampFacts
<1>4. store[n][id] \in Entry
  BY <1>1, <1>2, Types DEF IInv
<1>5. e \in Entry /\ e.ts = ts /\ e.node = n
  BY <1>3, <1>4 DEF Entry
<1> HIDE DEF ts, e
<1>6. grants' \subseteq Grant
  BY <1>1 DEF IInv, TypeOK
<1> QED BY <1>1, <1>2, <1>3, <1>5, <1>6, WriteStep

\* ReleaseLock stores a released lock under a new stamp.
LEMMA ReleaseLockStep ==
    ASSUME Sound, IInv, NEW n \in Node, NEW key \in LockKey, NEW h \in Value,
           ReleaseLock(n, key, h)
    PROVE  IInv' /\ StoreStep
<1> DEFINE ts == NextStamp(n, 1)
           e == Tombstone(store[n][key], n, ts)
<1>1. /\ store[n][key] # NoEntry
      /\ clock' = [clock EXCEPT ![n] = ts]
      /\ store' = [store EXCEPT ![n][key] = e]
      /\ change' = [change EXCEPT ![n][key] = "written"]
      /\ UNCHANGED <<time, skew, gossipVersion, net>>
      /\ grants' \subseteq grants
  BY DEF ReleaseLock, SetClock, Put, Mark
<1>2. key \in Key
  BY DEF Key
<1>3. ts \in Timestamp /\ Less(clock[n], ts) /\ OnTime(ts, time)
  BY NextStampFacts
<1>4. store[n][key] \in Entry
  BY <1>1, <1>2, Types DEF IInv
<1>5. e \in Entry /\ e.ts = ts /\ e.node = n
  BY <1>3, <1>4 DEF Tombstone, Entry
<1> HIDE DEF ts, e
<1>6. grants' \subseteq Grant
  BY <1>1 DEF IInv, TypeOK
<1> QED BY <1>1, <1>2, <1>3, <1>5, <1>6, WriteStep

\* SetMeta stores the new register.
LEMMA SetMetaStep ==
    ASSUME Sound, IInv, NEW n \in Node, NEW key \in MetaKey, NEW v \in Value \cup {None},
           SetMeta(n, key, v)
    PROVE  IInv' /\ StoreStep
<1> DEFINE ts == NextStamp(n, 1)
           e == NewRegister(v, n, ts)
<1>1. /\ clock' = [clock EXCEPT ![n] = ts]
      /\ store' = [store EXCEPT ![n][key] =
                      IF store[n][key] = NoEntry THEN e ELSE Merge(store[n][key], e)]
      /\ change' = [change EXCEPT ![n][key] = "written"]
      /\ UNCHANGED <<time, skew, gossipVersion, net, grants>>
  BY DEF SetMeta, SetClock, Put, Mark
<1>2. key \in Key
  BY DEF Key
<1>3. ts \in Timestamp /\ Less(clock[n], ts) /\ OnTime(ts, time)
  BY NextStampFacts
<1>4. e \in Entry /\ e.ts = ts /\ e.node = n
  BY <1>3 DEF NewRegister, Entry
<1>5. store[n][key] # NoEntry => Less(store[n][key].ts, ts)
  BY <1>2, StoredIsOlder
<1> HIDE DEF ts, e
<1>6. store' = [store EXCEPT ![n][key] = e]
  BY <1>1, <1>4, <1>5 DEF Merge, Newer
<1>7. grants' \subseteq Grant
  BY <1>1 DEF IInv, TypeOK
<1> QED BY <1>1, <1>2, <1>3, <1>4, <1>6, <1>7, WriteStep

\* A step that leaves the stores' entries alone or removes some, leaves the
\* messages alone or loses some, and turns no clock back and no clock ahead.
LEMMA RemoveStep ==
    ASSUME Sound, IInv, TypeOK',
           time <= time',
           \A n \in Node : LessOrEqual(clock[n], clock'[n]) /\ OnTime(clock'[n], time'),
           \A n \in Node : gossipVersion'[n] = gossipVersion[n] \/ gossipVersion'[n] = ZeroTimestamp,
           \A n \in Node, k \in Key :
                \/ store'[n][k] = NoEntry
                \/ /\ store'[n][k] = store[n][k] /\ gossipVersion'[n] = gossipVersion[n]
                   /\ change'[n][k] = "written" => change[n][k] = "written",
           net' \subseteq net
    PROVE  IInv' /\ StoreStep
<1>1. \A n \in Node : clock[n] \in Timestamp /\ clock'[n] \in Timestamp
                        /\ gossipVersion[n] \in Timestamp
  BY Types DEF IInv, TypeOK
<1>2. time \in Nat /\ time' \in Nat
  BY DEF IInv, TypeOK
<1>3. NothingAhead'
  <2>1. ASSUME NEW n \in Node PROVE LessOrEqual(gossipVersion'[n], clock'[n])
    <3>1. CASE gossipVersion'[n] = gossipVersion[n]
      BY <3>1, <1>1, LessOrder DEF IInv, NothingAhead
    <3>2. CASE gossipVersion'[n] = ZeroTimestamp
      <4>1. clock'[n] \in Timestamp
        BY <1>1
      <4> QED BY <3>2, <4>1, SMT DEF ZeroTimestamp, Stamp, LessOrEqual, Less, Timestamp
    <3> QED BY <3>1, <3>2
  <2>2. ASSUME NEW m \in net' PROVE OnTime(m.version, time')
    <3>1. OnTime(m.version, time) /\ m.version \in Timestamp
      BY Types DEF IInv, NothingAhead
    <3> QED BY <3>1, <1>2 DEF Timestamp, OnTime
  <2> QED BY <2>1, <2>2 DEF NothingAhead
<1>4. VersionsCover'
  <2>1. ASSUME NEW n \in Node, NEW k \in Key, store'[n][k] # NoEntry
        PROVE  LessOrEqual(store'[n][k].ts, clock'[n])
    <3>1. store'[n][k] = store[n][k] /\ store[n][k] \in Entry
      BY <2>1, Types DEF IInv
    <3>2. store[n][k].ts \in Timestamp /\ LessOrEqual(store[n][k].ts, clock[n])
      BY <2>1, <3>1 DEF Entry, IInv, VersionsCover
    <3> QED BY <3>1, <3>2, <1>1, LessOrder
  <2> QED BY <2>1 DEF IInv, VersionsCover
<1>5. \A k \in Key : Copies(k)' \subseteq Copies(k)
  <2>1. \A k \in Key : \A x : x \in Copies(k)' => x \in Copies(k)
    BY DEF Copies
  <2> QED BY <2>1
<1>6. WriterCovers' /\ StampsIdentifyWrites'
  BY <1>5, NoNewCopies
<1>7. WrittenIsNewer'
  BY DEF IInv, WrittenIsNewer
<1>8. StoreStep
  BY DEF StoreStep
<1> QED BY <1>3, <1>4, <1>6, <1>7, <1>8 DEF IInv

\* AcquireLock either writes a new lock or only takes a stamp.
LEMMA AcquireLockStep ==
    ASSUME Sound, IInv, NEW n \in Node, NEW key \in LockKey, NEW h \in Value, NEW ttl \in TTL,
           AcquireLock(n, key, h, ttl)
    PROVE  IInv' /\ StoreStep
<1> DEFINE ts == NextStamp(n, 1)
           e == NewLock(h, Wall(n) + ttl, n, ts)
           g == [node |-> n, key |-> key, holder |-> h, exp |-> Wall(n) + ttl]
<1>1. /\ clock' = [clock EXCEPT ![n] = ts]
      /\ UNCHANGED <<time, skew, gossipVersion, net>>
  BY DEF AcquireLock, SetClock
<1>2. key \in Key
  BY DEF Key
<1>3. ts \in Timestamp /\ Less(clock[n], ts) /\ OnTime(ts, time)
  BY NextStampFacts
<1>4. CASE Acquirable(n, key)
  <2>1. /\ store' = [store EXCEPT ![n][key] = e]
        /\ change' = [change EXCEPT ![n][key] = "written"]
        /\ grants' = grants \cup {g}
    BY <1>4 DEF AcquireLock, Put, Mark
  <2>2. e \in Entry /\ e.ts = ts /\ e.node = n
    BY <1>3, ExpiryType DEF NewLock, Entry
  <2>3. g \in Grant
    BY ExpiryType DEF Grant
  <2>4. grants' \subseteq Grant
    BY <2>1, <2>3 DEF IInv, TypeOK
  <2> HIDE DEF ts, e, g
  <2> QED BY <1>1, <1>2, <1>3, <2>1, <2>2, <2>4, WriteStep
<1>5. CASE ~Acquirable(n, key)
  <2> HIDE DEF ts
  <2>1. UNCHANGED <<store, change, grants>>
    BY <1>5 DEF AcquireLock
  <2>2. clock \in [Node -> Timestamp] /\ time \in Nat
    BY DEF IInv, TypeOK
  <2>3. TypeOK'
    BY <1>1, <1>3, <2>1, <2>2 DEF IInv, TypeOK
  <2>4. \A a \in Node : LessOrEqual(clock[a], clock'[a]) /\ OnTime(clock'[a], time')
    BY <1>1, <1>3, <2>2 DEF LessOrEqual, IInv, NothingAhead
  <2> QED BY <1>1, <2>1, <2>2, <2>3, <2>4, RemoveStep
<1> QED BY <1>4, <1>5

\* GetSession of an expired session and cleanupExpired only remove entries.
LEMMA CleanupStep ==
    ASSUME Sound, IInv, NEW n \in Node,
           \/ CleanupExpired(n)
           \/ \E id \in SessionID : GetSession(n, id)
    PROVE  IInv' /\ StoreStep
<1>1. UNCHANGED <<time, skew, clock, gossipVersion, net, grants>>
  BY DEF CleanupExpired, GetSession
<1>2. /\ store \in [Node -> Contents] /\ time \in Nat
      /\ change \in [Node -> [Key -> {"none", "written", "merged"}]]
  BY DEF IInv, TypeOK
<1> DEFINE Removes ==
        /\ store' \in [Node -> Contents]
        /\ change' \in [Node -> [Key -> {"none", "written", "merged"}]]
        /\ \A a \in Node, k \in Key :
              \/ store'[a][k] = NoEntry
              \/ store'[a][k] = store[a][k] /\ change'[a][k] = change[a][k]
<1>3. Removes
  <2>1. CASE CleanupExpired(n)
    BY <2>1, <1>2 DEF CleanupExpired, Contents
  <2>2. ASSUME NEW id \in SessionID, GetSession(n, id) PROVE Removes
    <3>1. id \in Key
      BY DEF Key
    <3> QED BY <2>2, <3>1, <1>2 DEF GetSession, Put, Mark, Contents
  <2> QED BY <2>1, <2>2
<1>4. TypeOK'
  BY <1>1, <1>3 DEF IInv, TypeOK
<1>5. \A a \in Node : LessOrEqual(clock[a], clock'[a]) /\ OnTime(clock'[a], time')
  BY <1>1 DEF LessOrEqual, IInv, NothingAhead
<1> QED BY <1>1, <1>2, <1>3, <1>4, <1>5, RemoveStep

\* Time passing, a lost message and a restarted process remove copies at
\* most; the restarted clock starts above every stamp the process has used.
LEMMA EnvironmentStep ==
    ASSUME Sound, IInv,
           \/ Tick
           \/ \E m \in net : Lose(m)
           \/ \E n \in Node : Restart(n)
    PROVE  IInv' /\ StoreStep
<1>1. /\ store \in [Node -> Contents] /\ time \in Nat
      /\ clock \in [Node -> Timestamp] /\ skew \in [Node -> 0 .. MaxSkew]
      /\ gossipVersion \in [Node -> Timestamp]
      /\ change \in [Node -> [Key -> {"none", "written", "merged"}]]
  BY DEF IInv, TypeOK
<1>2. \A a \in Node : OnTime(clock[a], time) /\ clock[a].p \in Nat
  BY <1>1 DEF IInv, NothingAhead, Timestamp
<1>3. CASE Tick \/ \E m \in net : Lose(m)
  <2>1. /\ UNCHANGED <<skew, clock, store, gossipVersion, change, grants>>
        /\ time' \in Nat /\ time <= time' /\ net' \subseteq net
    BY <1>1, <1>3 DEF Tick, Lose
  <2>2. TypeOK'
    BY <2>1 DEF IInv, TypeOK
  <2>3. \A a \in Node : LessOrEqual(clock[a], clock'[a]) /\ OnTime(clock'[a], time')
    BY <1>1, <1>2, <2>1 DEF LessOrEqual, OnTime
  <2> QED BY <2>1, <2>2, <2>3, RemoveStep
<1>4. ASSUME NEW n \in Node, Restart(n) PROVE IInv' /\ StoreStep
  <2> DEFINE c == NewClock(time + 1 + skew[n])
  <2>1. /\ time' = time + 1
        /\ clock' = [clock EXCEPT ![n] = c]
        /\ store' = [store EXCEPT ![n] = Empty]
        /\ gossipVersion' = [gossipVersion EXCEPT ![n] = ZeroTimestamp]
        /\ change' = [change EXCEPT ![n] = Unchanged]
        /\ grants' \subseteq grants
        /\ UNCHANGED <<skew, net>>
    BY <1>4 DEF Restart
  <2>2. Wall(n) \in Nat /\ Wall(n) + 1 = time + 1 + skew[n] /\ (MaxSkew = 0 => Wall(n) = time)
    BY <1>1, WallFacts, NumberAssumption DEF IInv, Wall
  <2>3. c \in Timestamp /\ c.p = Wall(n) + 1
    BY <2>2 DEF NewClock, Stamp, Timestamp
  <2>4. Less(clock[n], c)
    <3>1. clock[n].p <= Wall(n)
      BY <1>2, <1>4, <2>2 DEF Sound, Restart, OnTime
    <3> QED BY <1>2, <2>2, <2>3, <3>1 DEF Less
  <2> HIDE DEF c
  <2>5. /\ Empty \in Contents /\ ZeroTimestamp \in Timestamp
        /\ Unchanged \in [Key -> {"none", "written", "merged"}]
    BY DEF Empty, Contents, ZeroTimestamp, Stamp, Timestamp, Unchanged
  <2>6. TypeOK'
    BY <1>1, <2>1, <2>3, <2>5 DEF IInv, TypeOK
  <2>7. \A a \in Node : LessOrEqual(clock[a], clock'[a]) /\ OnTime(clock'[a], time')
    BY <1>1, <1>2, <2>1, <2>2, <2>3, <2>4 DEF LessOrEqual, OnTime
  <2>8. \A a \in Node, k \in Key :
           \/ store'[a][k] = NoEntry
           \/ /\ store'[a][k] = store[a][k] /\ gossipVersion'[a] = gossipVersion[a]
              /\ change'[a][k] = change[a][k]
    BY <1>1, <2>1 DEF Empty
  <2>9. \A a \in Node : gossipVersion'[a] = gossipVersion[a] \/ gossipVersion'[a] = ZeroTimestamp
    BY <1>1, <2>1
  <2> QED BY <1>1, <2>1, <2>6, <2>7, <2>8, <2>9, RemoveStep
<1> QED BY <1>3, <1>4

\* A snapshot or a delta puts copies of the node's own entries in flight,
\* under a version above all of them.
LEMMA SendStep ==
    ASSUME Sound, IInv, NEW n \in Node, NEW contents \in Contents,
           GetStateSnapshot(n) \/ GetDeltaSince(n),
           \A k \in Key : contents[k] = NoEntry \/ contents[k] = store[n][k],
           net' = net \cup {[from |-> n, version |-> NextStamp(n, 1), entries |-> contents]}
    PROVE  IInv' /\ StoreStep
<1> DEFINE ts == NextStamp(n, 1)
           msg == [from |-> n, version |-> ts, entries |-> contents]
<1>1. /\ clock' = [clock EXCEPT ![n] = ts]
      /\ UNCHANGED <<time, skew, store, grants>>
      /\ \/ /\ gossipVersion' = [gossipVersion EXCEPT ![n] = ts]
            /\ change' = [change EXCEPT ![n] = Unchanged]
         \/ UNCHANGED <<gossipVersion, change>>
      /\ net' = net \cup {msg}
  BY DEF GetStateSnapshot, GetDeltaSince, SetClock
<1>2. ts \in Timestamp /\ Less(clock[n], ts) /\ OnTime(ts, time)
  BY NextStampFacts
<1> HIDE DEF ts
<1>3. /\ clock \in [Node -> Timestamp] /\ gossipVersion \in [Node -> Timestamp]
      /\ change \in [Node -> [Key -> {"none", "written", "merged"}]]
      /\ Unchanged \in [Key -> {"none", "written", "merged"}]
  BY DEF IInv, TypeOK, Unchanged
<1>4. msg \in Message /\ msg.version = ts /\ msg.entries = contents
  BY <1>2 DEF Message
<1> HIDE DEF msg
<1>5. TypeOK'
  BY <1>1, <1>2, <1>3, <1>4 DEF IInv, TypeOK
<1>6. /\ clock'[n] = ts
      /\ \A a \in Node : a # n => clock'[a] = clock[a] /\ gossipVersion'[a] = gossipVersion[a]
      /\ gossipVersion'[n] \in {gossipVersion[n], ts}
      /\ \A a \in Node : clock[a] \in Timestamp /\ clock'[a] \in Timestamp
                           /\ LessOrEqual(clock[a], clock'[a])
  BY <1>1, <1>2, <1>3 DEF LessOrEqual
<1>7. NothingAhead'
  <2>1. \A a \in Node : LessOrEqual(gossipVersion[a], clock'[a])
    BY <1>3, <1>6, LessOrder DEF IInv, NothingAhead
  <2>2. \A a \in Node : LessOrEqual(gossipVersion'[a], clock'[a])
    BY <1>6, <2>1 DEF LessOrEqual
  <2>3. \A a \in Node : OnTime(clock'[a], time)
    BY <1>2, <1>6 DEF IInv, NothingAhead
  <2> QED BY <1>1, <1>2, <1>4, <2>2, <2>3 DEF IInv, NothingAhead
<1>8. \A a \in Node, k \in Key : store[a][k] # NoEntry =>
            /\ LessOrEqual(store[a][k].ts, clock'[a])
            /\ store[a][k].ts \in Timestamp
  <2> SUFFICES ASSUME NEW a \in Node, NEW k \in Key, store[a][k] # NoEntry
               PROVE  /\ LessOrEqual(store[a][k].ts, clock'[a])
                      /\ store[a][k].ts \in Timestamp
    OBVIOUS
  <2>1. store[a][k] \in Entry
    BY Types DEF IInv
  <2>2. store[a][k].ts \in Timestamp /\ LessOrEqual(store[a][k].ts, clock[a])
    BY <2>1 DEF Entry, IInv, VersionsCover
  <2> QED BY <2>2, <1>6, LessOrder
<1>9. VersionsCover'
  BY <1>1, <1>4, <1>6, <1>8 DEF IInv, VersionsCover
<1>10. \A k \in Key : Copies(k)' \subseteq Copies(k)
  <2>1. \A k \in Key : \A x : x \in Copies(k)' => x \in Copies(k)
    BY <1>1, <1>4 DEF Copies
  <2> QED BY <2>1
<1>11. WriterCovers' /\ StampsIdentifyWrites'
  BY <1>5, <1>6, <1>10, NoNewCopies
<1>12. WrittenIsNewer'
  <2>1. CASE /\ gossipVersion' = [gossipVersion EXCEPT ![n] = ts]
             /\ change' = [change EXCEPT ![n] = Unchanged]
    <3>1. \A a \in Node, k \in Key : a # n => change'[a][k] = change[a][k]
      BY <2>1, <1>3
    <3>2. \A k \in Key : change'[n][k] = "none"
      BY <2>1, <1>3 DEF Unchanged
    <3> QED BY <1>1, <1>6, <3>1, <3>2 DEF IInv, WrittenIsNewer
  <2>2. CASE UNCHANGED <<gossipVersion, change>>
    BY <2>2, <1>1 DEF IInv, WrittenIsNewer
  <2> QED BY <1>1, <2>1, <2>2
<1>13. StoreStep
  BY <1>1 DEF StoreStep
<1> QED BY <1>5, <1>7, <1>9, <1>11, <1>12, <1>13 DEF IInv

\* What a merge leaves is one of the two copies it was given.
LEMMA MergedIsOneOf ==
    ASSUME NEW n, NEW k, NEW old, NEW e
    PROVE  /\ Merged(n, k, old, e) \in {old, e}
           /\ old # NoEntry => Merged(n, k, old, e) # NoEntry
           /\ e = NoEntry => Merged(n, k, old, e) = old
BY DEF Merged, LockMerge, Merge

\* ImportStateSnapshot and ApplyDelta move copies that are already known
\* into the store, under a clock raised above the message's version.
LEMMA ImportStep ==
    ASSUME Sound, IInv, NEW n \in Node, NEW m \in net, Import(n, m)
    PROVE  IInv' /\ StoreStep
<1> DEFINE ts == ClockAfter(n, m)
           contents == [k \in Key |-> Merged(n, k, store[n][k], m.entries[k])]
<1>1. /\ clock' = [clock EXCEPT ![n] = ts]
      /\ store' = [store EXCEPT ![n] = contents]
      /\ change' = [change EXCEPT ![n] =
                       [k \in Key |-> IF store'[n][k] # store[n][k] THEN "merged" ELSE change[n][k]]]
      /\ UNCHANGED <<time, skew, gossipVersion, net, grants>>
  BY DEF Import, SetClock
<1>2. ts \in Timestamp /\ Less(clock[n], ts) /\ Less(m.version, ts) /\ OnTime(ts, time)
  BY ClockAfterFacts DEF Import
<1> HIDE DEF ts
<1>3. /\ clock \in [Node -> Timestamp] /\ store \in [Node -> Contents]
      /\ gossipVersion \in [Node -> Timestamp]
      /\ change \in [Node -> [Key -> {"none", "written", "merged"}]]
      /\ m.version \in Timestamp
      /\ \A k \in Key : m.entries[k] \in Entry \cup {NoEntry} /\ store[n][k] \in Entry \cup {NoEntry}
  BY Types DEF IInv, TypeOK
<1>4. \A k \in Key : contents[k] = store[n][k] \/ (contents[k] = m.entries[k] /\ m.entries[k] # NoEntry)
  BY MergedIsOneOf
<1>5. contents \in Contents
  BY <1>3, <1>4 DEF Contents
<1> HIDE DEF contents
<1>6. /\ clock'[n] = ts /\ store'[n] = contents
      /\ \A a \in Node : a # n => clock'[a] = clock[a] /\ store'[a] = store[a]
      /\ \A a \in Node : clock[a] \in Timestamp /\ clock'[a] \in Timestamp
                           /\ LessOrEqual(clock[a], clock'[a])
  BY <1>1, <1>2, <1>3 DEF LessOrEqual
<1>7. /\ change' \in [Node -> [Key -> {"none", "written", "merged"}]]
      /\ \A a \in Node, k \in Key :
            change'[a][k] = "written" => change[a][k] = "written" /\ store'[a][k] = store[a][k]
  BY <1>1, <1>3, <1>6
<1>8. TypeOK'
  BY <1>1, <1>2, <1>3, <1>5, <1>7 DEF IInv, TypeOK
<1>9. NothingAhead'
  <2>1. \A a \in Node : LessOrEqual(gossipVersion[a], clock'[a])
    BY <1>3, <1>6, LessOrder DEF IInv, NothingAhead
  <2>2. \A a \in Node : OnTime(clock'[a], time)
    BY <1>2, <1>6 DEF IInv, NothingAhead
  <2> QED BY <1>1, <2>1, <2>2 DEF IInv, NothingAhead
<1>10. VersionsCover'
  <2>1. ASSUME NEW a \in Node, NEW k \in Key, store'[a][k] # NoEntry
        PROVE  LessOrEqual(store'[a][k].ts, clock'[a])
    <3>1. CASE store'[a][k] = store[a][k]
      <4>1. store[a][k] \in Entry
        BY <3>1, <2>1, Types DEF IInv
      <4>2. store[a][k].ts \in Timestamp /\ LessOrEqual(store[a][k].ts, clock[a])
        BY <3>1, <4>1, <2>1 DEF Entry, IInv, VersionsCover
      <4> QED BY <3>1, <4>2, <1>6, LessOrder
    <3>2. CASE a = n /\ store'[a][k] = m.entries[k] /\ m.entries[k] # NoEntry
      <4>1. m.entries[k] \in Entry
        BY <3>2, <1>3
      <4>2. m.entries[k].ts \in Timestamp /\ LessOrEqual(m.entries[k].ts, m.version)
        BY <3>2, <4>1 DEF Entry, IInv, VersionsCover
      <4>3. Less(m.entries[k].ts, ts)
        BY <4>2, <1>2, <1>3, LessOrder
      <4> QED BY <3>2, <4>3, <1>6 DEF LessOrEqual
    <3> QED BY <3>1, <3>2, <1>4, <1>6
  <2> QED BY <2>1, <1>1 DEF IInv, VersionsCover
<1>11. \A k \in Key : Copies(k)' \subseteq Copies(k)
  <2>1. \A k \in Key : \A x : x \in Copies(k)' => x \in Copies(k)
    BY <1>1, <1>4, <1>6 DEF Copies
  <2> QED BY <2>1
<1>12. WriterCovers' /\ StampsIdentifyWrites'
  BY <1>6, <1>8, <1>11, NoNewCopies
<1>13. WrittenIsNewer'
  BY <1>1, <1>7 DEF IInv, WrittenIsNewer
<1>14. StoreStep
  <2>1. \A k \in Key : store[n][k] # NoEntry =>
            \/ contents[k] = store[n][k] \/ Newer(store[n][k], contents[k])
            \/ k \in LockKey /\ Expired(store[n][k], Wall(n))
    BY DEF contents, Merged, Merge, LockMerge
  <2> QED BY <2>1, <1>6 DEF StoreStep
<1> QED BY <1>8, <1>9, <1>10, <1>12, <1>13, <1>14 DEF IInv

\* The invariant holds when the cluster starts.
LEMMA InitStep == Init => IInv
<1> SUFFICES ASSUME Init PROVE IInv
  OBVIOUS
<1>0. \A n \in Node : /\ skew[n] \in 0 .. MaxSkew /\ time + skew[n] \in Nat
                       /\ clock[n] = NewClock(time + skew[n])
  BY NumberAssumption DEF Init
<1>1. \A n \in Node : /\ NewClock(time + skew[n]) \in Timestamp /\ ZeroTimestamp \in Timestamp
                       /\ NewClock(time + skew[n]).p = time + skew[n]
                       /\ LessOrEqual(ZeroTimestamp, NewClock(time + skew[n]))
  BY <1>0 DEF NewClock, ZeroTimestamp, Stamp, Timestamp, LessOrEqual, Less
<1>2. TypeOK
  <2>1. clock \in [Node -> Timestamp] /\ gossipVersion \in [Node -> Timestamp]
    BY <1>1 DEF Init
  <2>2. Empty \in Contents /\ Unchanged \in [Key -> {"none", "written", "merged"}]
    BY DEF Empty, Unchanged, Contents
  <2>3. store \in [Node -> Contents]
        /\ change \in [Node -> [Key -> {"none", "written", "merged"}]]
    BY <2>2 DEF Init
  <2> QED BY <2>1, <2>3 DEF Init, TypeOK
<1>3. NothingAhead
  <2>1. \A n \in Node : OnTime(clock[n], time)
    BY <1>0, <1>1 DEF Init, OnTime
  <2> QED BY <1>0, <1>1, <2>1 DEF Init, NothingAhead
<1>4. VersionsCover /\ WrittenIsNewer
  BY DEF Init, VersionsCover, WrittenIsNewer, Empty, Unchanged
<1>5. \A k \in Key : Copies(k) = {}
  BY DEF Init, Copies, Empty
<1>6. WriterCovers /\ StampsIdentifyWrites
  BY <1>5 DEF WriterCovers, StampsIdentifyWrites
<1> QED BY <1>2, <1>3, <1>4, <1>6 DEF IInv

\* Every step that takes no clock back keeps the invariant.
LEMMA NextStep ==
    ASSUME Sound, IInv, [Next]_vars
    PROVE  IInv' /\ StoreStep
<1>1. ASSUME NEW n \in Node, SessionNext(n) PROVE IInv' /\ StoreStep
  BY <1>1, SaveSessionStep, LockSessionStep, DeleteSessionStep, UnlockSessionStep, CleanupStep
     DEF SessionNext
<1>2. ASSUME NEW n \in Node, LockNext(n) PROVE IInv' /\ StoreStep
  BY <1>2, AcquireLockStep, ReleaseLockStep DEF LockNext
<1>3. ASSUME NEW n \in Node, MetaNext(n) PROVE IInv' /\ StoreStep
  BY <1>3, SetMetaStep DEF MetaNext
<1>4. ASSUME NEW n \in Node, GossipNext(n) PROVE IInv' /\ StoreStep
  <2>1. store[n] \in Contents /\ DeltaSince(n, gossipVersion[n]) \in Contents
        /\ \A k \in Key : DeltaSince(n, gossipVersion[n])[k] \in {NoEntry, store[n][k]}
    BY DEF IInv, TypeOK, DeltaSince, Contents
  <2>2. CASE GetStateSnapshot(n)
    BY <2>1, <2>2, SendStep DEF GetStateSnapshot
  <2>3. CASE GetDeltaSince(n)
    BY <2>1, <2>3, SendStep DEF GetDeltaSince
  <2> QED BY <1>4, <2>2, <2>3, ImportStep DEF GossipNext
<1>5. ASSUME NEW n \in Node, CleanupExpired(n) \/ Restart(n) PROVE IInv' /\ StoreStep
  BY <1>5, CleanupStep, EnvironmentStep
<1>6. CASE Tick \/ \E m \in net : Lose(m)
  BY <1>6, EnvironmentStep
<1>7. CASE UNCHANGED vars
  BY <1>7 DEF vars, IInv, TypeOK, NothingAhead, VersionsCover, WriterCovers, WrittenIsNewer,
              StampsIdentifyWrites, Copies, StoreStep
<1> QED BY <1>1, <1>2, <1>3, <1>4, <1>5, <1>6, <1>7 DEF Next

\* The invariant holds throughout.
LEMMA Invariance == ASSUME Sound PROVE Spec => []IInv
BY InitStep, NextStep, PTL DEF Spec

-----------------------------------------------------------------------------

\* The store, the clocks and the messages always have their types.
THEOREM TypeCorrect == ASSUME Sound PROVE Spec => []TypeOK
<1>1. IInv => TypeOK
  BY DEF IInv
<1> QED BY <1>1, Invariance, PTL

\* A timestamp and a node identify one write, across all stores and all
\* messages, through restarts, lost and repeated gossip.
THEOREM WritesAreIdentified == ASSUME Sound PROVE Spec => []StampsIdentifyWrites
<1>1. IInv => StampsIdentifyWrites
  BY DEF IInv
<1> QED BY <1>1, Invariance, PTL

\* SetMeta and SaveSession are never silently lost to what is stored.
THEOREM LocalWritesWin == ASSUME Sound PROVE Spec => []LocalWriteWins
<1>1. IInv => LocalWriteWins
  BY StoredIsOlder DEF LocalWriteWins
<1> QED BY <1>1, Invariance, PTL

\* The delta since a node's last snapshot holds what it has written since.
THEOREM DeltasHoldLocalWrites == ASSUME Sound PROVE Spec => []DeltaHasLocalWrites
<1>1. IInv => DeltaHasLocalWrites
  BY DEF IInv, WrittenIsNewer, DeltaHasLocalWrites, InDelta, DeltaSince
<1> QED BY <1>1, Invariance, PTL

\* A stored entry is only ever replaced by a newer one, but for a lock that
\* has run out.
THEOREM StoresAreMonotone == ASSUME Sound PROVE Spec => StoreMonotone
<1>1. IInv /\ [Next]_vars => [StoreStep]_vars
  BY NextStep
<1> QED BY <1>1, Invariance, PTL DEF Spec, StoreMonotone, StoreStep

\* Newer is a strict total order on the copies of a key, because no two
\* different copies carry the same timestamp and node.
LEMMA NewerOrder ==
    ASSUME IInv, NEW k \in Key, NEW a \in Copies(k), NEW b \in Copies(k), NEW c \in Copies(k)
    PROVE  /\ a = b \/ Newer(a, b) \/ Newer(b, a)
           /\ ~(Newer(a, b) /\ Newer(b, a))
           /\ Newer(a, b) /\ Newer(b, c) => Newer(a, c)
<1>1. /\ a.ts \in Timestamp /\ b.ts \in Timestamp /\ c.ts \in Timestamp
      /\ a.node \in Nat /\ b.node \in Nat /\ c.node \in Nat
  BY Types, NodeAssumption DEF IInv
<1>2. a.ts = b.ts /\ a.node = b.node => a = b
  BY DEF IInv, StampsIdentifyWrites
<1>3. a = b \/ Newer(a, b) \/ Newer(b, a)
  BY <1>1, <1>2, LessOrder DEF Newer
<1>4. ~(Newer(a, b) /\ Newer(b, a))
  BY <1>1, LessOrder DEF Newer, LessOrEqual
<1>5. Newer(a, b) /\ Newer(b, c) => Newer(a, c)
  BY <1>1, LessOrder DEF Newer, LessOrEqual
<1> QED BY <1>3, <1>4, <1>5

\* Merging is commutative, associative and idempotent on the copies of a
\* session or a register: replicas that have received the same copies hold
\* the same entry, in whatever order and at whatever times they came.
THEOREM MergeIsOrderIndependent == ASSUME Sound PROVE Spec => []MergeOrderIrrelevant
<1>1. ASSUME IInv PROVE MergeOrderIrrelevant
  <2> SUFFICES ASSUME NEW k \in Key \ LockKey,
                      NEW a \in Copies(k), NEW b \in Copies(k), NEW c \in Copies(k)
               PROVE  /\ Merge(a, b) = Merge(b, a)
                      /\ Merge(Merge(a, b), c) = Merge(a, Merge(b, c))
                      /\ Merge(Merge(a, b), b) = Merge(a, b)
    BY DEF MergeOrderIrrelevant
  <2>1. \A x, y, z \in {a, b, c} :
            /\ x = y \/ Newer(x, y) \/ Newer(y, x)
            /\ ~(Newer(x, y) /\ Newer(y, x))
            /\ Newer(x, y) /\ Newer(y, z) => Newer(x, z)
    BY <1>1, NewerOrder
  <2> QED BY <2>1 DEF Merge
<1> QED BY <1>1, Invariance, PTL

-----------------------------------------------------------------------------
(* The locks as they are wired: nothing is gossiped, so every node's locks *)
(* are its own.  The wall clocks need not agree.                           *)

Wired == MaxMsgs = 0

\* A grant whose time is not over is what the node's store says.
GrantsStored ==
    \A g \in grants :
        Live(g) => LET e == store[g.node][g.key]
                   IN  e # NoEntry /\ ~e.deleted /\ e.val = g.holder /\ e.exp = g.exp

\* The inductive invariant of a store without gossip.
WiredInv == TypeOK /\ net = {} /\ GrantsStored

\* What a step may do to the grants and locks of all nodes without touching
\* any lock that is not free.
LocksAlone ==
    /\ UNCHANGED <<time, skew, grants>>
    /\ \A n \in Node, k \in LockKey :
            \/ store'[n][k] = store[n][k]
            \/ store'[n][k] = NoEntry /\ LockFree(store[n][k], Wall(n))

\* The clocks' readings and the stamps taken at them.
LEMMA WiredFacts ==
    ASSUME TypeOK, NEW n \in Node
    PROVE  /\ Wall(n) \in Nat
           /\ \A j \in Nat \ {0} : NextStamp(n, j) \in Timestamp
           /\ \A k \in Key : store[n][k] \in Entry \cup {NoEntry}
           /\ \A ttl \in TTL : Wall(n) + ttl \in Nat /\ Wall(n) <= Wall(n) + ttl
<1>1. time \in Nat /\ skew[n] \in 0 .. MaxSkew /\ clock[n] \in Timestamp
  BY Types
<1>2. Wall(n) \in Nat
  BY <1>1, NumberAssumption DEF Wall
<1>3. \A ttl \in TTL : Wall(n) + ttl \in Nat /\ Wall(n) <= Wall(n) + ttl
  BY <1>2, TTLAssumption
<1>4. \A k \in Key : store[n][k] \in Entry \cup {NoEntry}
  BY Types
<1> QED BY <1>1, <1>2, <1>3, <1>4, NowTimesIncreases DEF NextStamp

\* An operation that puts one entry into one store keeps the types.
LEMMA PutTypes ==
    ASSUME TypeOK, NEW n \in Node, NEW k \in Key, NEW e \in Entry \cup {NoEntry},
           NEW how \in {"none", "written"}, NEW t \in Timestamp,
           clock' = [clock EXCEPT ![n] = t], Put(n, k, e), Mark(n, k, how),
           UNCHANGED <<time, skew, gossipVersion, net>>, grants' \subseteq Grant
    PROVE  /\ TypeOK'
           /\ store'[n][k] = e
           /\ \A a \in Node, j \in Key : a # n \/ j # k => store'[a][j] = store[a][j]
<1>1. /\ clock \in [Node -> Timestamp] /\ store \in [Node -> Contents]
      /\ change \in [Node -> [Key -> {"none", "written", "merged"}]]
  BY DEF TypeOK
<1>2. store' \in [Node -> Contents] /\ clock' \in [Node -> Timestamp]
  BY <1>1 DEF Put, Contents
<1>3. change' \in [Node -> [Key -> {"none", "written", "merged"}]]
  BY <1>1 DEF Mark
<1>4. /\ store'[n][k] = e
      /\ \A a \in Node, j \in Key : a # n \/ j # k => store'[a][j] = store[a][j]
  BY <1>1 DEF Put, Contents
<1> QED BY <1>2, <1>3, <1>4 DEF TypeOK

\* A step that leaves the locks alone preserves the invariant, and the
\* leases stay what they are.
LEMMA LocksAloneStep ==
    ASSUME WiredInv, TypeOK', net' = {}, LocksAlone
    PROVE  WiredInv' /\ UNCHANGED Leases!vars
<1>1. GrantsStored'
  <2> SUFFICES ASSUME NEW g \in grants, Live(g)
               PROVE  /\ store'[g.node][g.key] # NoEntry /\ ~store'[g.node][g.key].deleted
                      /\ store'[g.node][g.key].val = g.holder /\ store'[g.node][g.key].exp = g.exp
    BY DEF GrantsStored, LocksAlone, Live, Wall
  <2>1. g.node \in Node /\ g.key \in LockKey /\ g.exp \in Nat
    BY DEF WiredInv, TypeOK, Grant
  <2>2. ~LockFree(store[g.node][g.key], Wall(g.node))
    BY <2>1, WiredFacts DEF WiredInv, GrantsStored, LockFree, Expired, Live
  <2> QED BY <2>1, <2>2 DEF LocksAlone, WiredInv, GrantsStored
<1>2. \A n \in Node, k \in LockKey : LeaseOf(n, k)' = LeaseOf(n, k)
  BY DEF LocksAlone, LeaseOf, Wall
<1>3. UNCHANGED Leases!vars
  <2>1. Walls' = Walls
    BY DEF LocksAlone, Walls, Wall
  <2>2. HeldLeases' = HeldLeases
    BY <1>2 DEF HeldLeases
  <2> QED BY <2>1, <2>2 DEF Leases!vars
<1> QED BY <1>1, <1>3 DEF WiredInv

\* The session operations and SetMeta write under keys that are no locks.
LEMMA OtherKeysStep ==
    ASSUME WiredInv, NEW n \in Node, SessionNext(n) \/ MetaNext(n)
    PROVE  WiredInv' /\ UNCHANGED Leases!vars
<1>1. ASSUME NEW k \in Key \ LockKey, NEW e \in Entry \cup {NoEntry},
             NEW how \in {"none", "written"}, NEW t \in Timestamp,
             clock' = [clock EXCEPT ![n] = t], Put(n, k, e), Mark(n, k, how),
             UNCHANGED <<time, skew, gossipVersion, net, grants>>
      PROVE  WiredInv' /\ UNCHANGED Leases!vars
  <2>1. /\ TypeOK'
        /\ \A a \in Node, j \in Key : a # n \/ j # k => store'[a][j] = store[a][j]
    <3>1. TypeOK /\ grants' \subseteq Grant
      BY <1>1 DEF WiredInv, TypeOK
    <3>2. k \in Key /\ UNCHANGED <<time, skew, gossipVersion, net>>
      BY <1>1
    <3> QED BY <1>1, <3>1, <3>2, PutTypes DEF Put, Mark
  <2>2. LocksAlone
    BY <1>1, <2>1 DEF LocksAlone, Key
  <2> QED BY <1>1, <2>1, <2>2, LocksAloneStep DEF WiredInv
<1>2. /\ \A k \in SessionID \cup MetaKey : k \in Key \ LockKey
      /\ \A k \in SessionID \cup MetaKey : store[n][k] \in Entry \cup {NoEntry}
      /\ \A j \in {1, 2, 4} : NextStamp(n, j) \in Timestamp
      /\ \A ttl \in TTL : Wall(n) + ttl \in Nat
      /\ clock = [clock EXCEPT ![n] = clock[n]] /\ clock[n] \in Timestamp
  <2>1. \A k \in SessionID \cup MetaKey : k \in Key \ LockKey
    BY KeyAssumption DEF Key
  <2> QED BY <2>1, WiredFacts DEF WiredInv, TypeOK
<1>3. \A ts \in Timestamp, exp \in Nat, v \in Value \cup {None}, h \in Value \cup {None} :
          /\ NewSession(v, exp, n, ts) \in Entry
          /\ [NewSession(v, exp, n, ts) EXCEPT !.lockedBy = h] \in Entry
          /\ NewRegister(v, n, ts) \in Entry
  BY DEF NewSession, NewRegister, Entry
<1>4. \A ts \in Timestamp, e \in Entry, h \in Value \cup {None} :
          /\ Tombstone(e, n, ts) \in Entry
          /\ [e EXCEPT !.lockedBy = h, !.ts = ts, !.node = n] \in Entry
  BY DEF Tombstone, Entry
<1>5. \A old \in Entry \cup {NoEntry}, e \in Entry :
          /\ Saved(old, e) \in Entry
          /\ (IF old = NoEntry THEN e ELSE Merge(old, e)) \in Entry
  BY DEF Saved, Merge
<1>6. ASSUME NEW id \in SessionID, NEW v \in Value, NEW ttl \in TTL, SaveSession(n, id, v, ttl)
      PROVE  WiredInv' /\ UNCHANGED Leases!vars
  <2> DEFINE e == Saved(store[n][id], NewSession(v, Wall(n) + ttl, n, NextStamp(n, 1)))
  <2>1. e \in Entry
    BY <1>2, <1>3, <1>5
  <2>2. /\ clock' = [clock EXCEPT ![n] = NextStamp(n, 1)]
        /\ Put(n, id, e) /\ Mark(n, id, "written")
        /\ UNCHANGED <<time, skew, gossipVersion, net, grants>>
    BY <1>6 DEF SaveSession, SetClock
  <2> HIDE DEF e
  <2> QED BY <1>1, <1>2, <2>1, <2>2
<1>7. ASSUME NEW id \in SessionID, DeleteSession(n, id)
      PROVE  WiredInv' /\ UNCHANGED Leases!vars
  <2> DEFINE e == Tombstone(store[n][id], n, NextStamp(n, 1))
  <2>1. e \in Entry
    BY <1>2, <1>4, <1>7 DEF DeleteSession
  <2>2. /\ clock' = [clock EXCEPT ![n] = NextStamp(n, 1)]
        /\ Put(n, id, e) /\ Mark(n, id, "written")
        /\ UNCHANGED <<time, skew, gossipVersion, net, grants>>
    BY <1>7 DEF DeleteSession, SetClock
  <2> HIDE DEF e
  <2> QED BY <1>1, <1>2, <2>1, <2>2
<1>8. ASSUME NEW id \in SessionID, GetSession(n, id)
      PROVE  WiredInv' /\ UNCHANGED Leases!vars
  <2>1. /\ clock' = [clock EXCEPT ![n] = clock[n]]
        /\ Put(n, id, NoEntry) /\ Mark(n, id, "none")
        /\ UNCHANGED <<time, skew, gossipVersion, net, grants>>
    BY <1>2, <1>8 DEF GetSession
  <2> QED BY <1>1, <1>2, <2>1
<1>9. ASSUME NEW id \in SessionID, NEW h \in Value, NEW ttl \in TTL, LockSession(n, id, h, ttl)
      PROVE  WiredInv' /\ UNCHANGED Leases!vars
  <2> DEFINE visible == VisibleSession(n, id)
             ts == NextStamp(n, IF visible THEN 2 ELSE 4)
             created == [NewSession(None, Wall(n) + ttl, n, ts) EXCEPT !.lockedBy = h]
             locked == [store[n][id] EXCEPT !.lockedBy = h, !.ts = ts, !.node = n]
             e == IF visible THEN locked ELSE Saved(AfterGetSession(n, id), created)
  <2>1. ts \in Timestamp
    BY <1>2
  <2>2. created \in Entry
    BY <1>2, <1>3, <2>1
  <2>3. visible => locked \in Entry
    BY <1>2, <1>4, <2>1 DEF VisibleSession
  <2>4. AfterGetSession(n, id) \in Entry \cup {NoEntry}
    BY <1>2 DEF AfterGetSession
  <2>5. /\ clock' = [clock EXCEPT ![n] = ts]
        /\ Put(n, id, e) /\ Mark(n, id, "written")
        /\ UNCHANGED <<time, skew, gossipVersion, net, grants>>
    BY <1>9 DEF LockSession, SetClock
  <2> HIDE DEF created, locked, ts
  <2>6. e \in Entry
    BY <2>2, <2>3, <2>4, <1>5
  <2> HIDE DEF e
  <2> QED BY <1>1, <1>2, <2>1, <2>5, <2>6
<1>10. ASSUME NEW id \in SessionID, UnlockSession(n, id)
       PROVE  WiredInv' /\ UNCHANGED Leases!vars
  <2> DEFINE ts == NextStamp(n, 2)
             e == [store[n][id] EXCEPT !.lockedBy = None, !.ts = ts, !.node = n]
  <2>1. e \in Entry
    BY <1>2, <1>4, <1>10 DEF UnlockSession, VisibleSession
  <2>2. /\ clock' = [clock EXCEPT ![n] = ts]
        /\ Put(n, id, e) /\ Mark(n, id, "written")
        /\ UNCHANGED <<time, skew, gossipVersion, net, grants>>
    BY <1>10 DEF UnlockSession, SetClock
  <2> HIDE DEF e
  <2> QED BY <1>1, <1>2, <2>1, <2>2
<1>11. ASSUME NEW key \in MetaKey, NEW v \in Value \cup {None}, SetMeta(n, key, v)
       PROVE  WiredInv' /\ UNCHANGED Leases!vars
  <2> DEFINE reg == NewRegister(v, n, NextStamp(n, 1))
             e == IF store[n][key] = NoEntry THEN reg ELSE Merge(store[n][key], reg)
  <2>1. reg \in Entry
    BY <1>2, <1>3
  <2>2. e \in Entry
    BY <1>2, <1>5, <2>1
  <2>3. /\ clock' = [clock EXCEPT ![n] = NextStamp(n, 1)]
        /\ Put(n, key, e) /\ Mark(n, key, "written")
        /\ UNCHANGED <<time, skew, gossipVersion, net, grants>>
    BY <1>11 DEF SetMeta, SetClock
  <2> HIDE DEF e
  <2> QED BY <1>1, <1>2, <2>2, <2>3
<1> QED BY <1>6, <1>7, <1>8, <1>9, <1>10, <1>11 DEF SessionNext, MetaNext

\* AcquireLock grants a lease where there is none, or changes nothing.
LEMMA AcquireLease ==
    ASSUME WiredInv, NEW n \in Node, NEW key \in LockKey, NEW h \in Value, NEW ttl \in TTL,
           AcquireLock(n, key, h, ttl)
    PROVE  WiredInv' /\ (Leases!Grant(n, key) \/ UNCHANGED Leases!vars)
<1> DEFINE ts == NextStamp(n, 1)
           exp == Wall(n) + ttl
           e == NewLock(h, exp, n, ts)
           g == [node |-> n, key |-> key, holder |-> h, exp |-> exp]
<1>1. /\ key \in Key /\ ts \in Timestamp /\ Wall(n) \in Nat
      /\ exp \in Nat /\ Wall(n) <= exp
  BY WiredFacts DEF WiredInv, Key
<1>2. /\ clock' = [clock EXCEPT ![n] = ts]
      /\ UNCHANGED <<time, skew, gossipVersion, net>>
  BY DEF AcquireLock, SetClock
<1>3. \A a \in Node : Wall(a)' = Wall(a)
  BY <1>2 DEF Wall
<1>4. CASE ~Acquirable(n, key)
  <2>1. UNCHANGED <<store, change, grants>>
    BY <1>4 DEF AcquireLock
  <2>2. TypeOK' /\ LocksAlone
    BY <1>1, <1>2, <2>1 DEF WiredInv, TypeOK, LocksAlone
  <2> QED BY <1>2, <2>2, LocksAloneStep DEF WiredInv
<1>5. CASE Acquirable(n, key)
  <2>1. /\ Put(n, key, e) /\ Mark(n, key, "written")
        /\ grants' = grants \cup {g}
    BY <1>5 DEF AcquireLock
  <2>2. e \in Entry /\ e # NoEntry /\ ~e.deleted /\ e.val = h /\ e.exp = exp
    <3>1. \A x \in Nat, t \in Timestamp :
              /\ NewLock(h, x, n, t) \in Entry /\ ~NewLock(h, x, n, t).deleted
              /\ NewLock(h, x, n, t).val = h /\ NewLock(h, x, n, t).exp = x
      BY DEF NewLock, Entry
    <3> QED BY <1>1, <3>1, NoEntryAssumption
  <2>3. g \in Grant /\ g.node = n /\ g.key = key /\ g.holder = h /\ g.exp = exp
    BY <1>1 DEF Grant
  <2> HIDE DEF e, g, ts, exp
  <2>4. /\ TypeOK' /\ store'[n][key] = e
        /\ \A a \in Node, j \in Key : a # n \/ j # key => store'[a][j] = store[a][j]
    <3>1. TypeOK /\ grants' \subseteq Grant
      BY <2>1, <2>3 DEF WiredInv, TypeOK
    <3> QED BY <1>1, <1>2, <2>1, <2>2, <3>1, PutTypes
  <2>5. \A x \in grants : x.node = n /\ x.key = key => ~Live(x)
    <3> SUFFICES ASSUME NEW x \in grants, x.node = n, x.key = key, Live(x) PROVE FALSE
      OBVIOUS
    <3>1. x.exp \in Nat /\ Wall(n) < x.exp
      BY DEF WiredInv, TypeOK, Grant, Live
    <3>2. store[n][key] # NoEntry /\ ~store[n][key].deleted /\ store[n][key].exp = x.exp
      BY DEF WiredInv, GrantsStored
    <3> QED BY <1>1, <1>5, <3>1, <3>2 DEF Acquirable, LockFree, Expired
  <2>6. GrantsStored'
    <3> SUFFICES ASSUME NEW x \in grants', Live(x)'
                 PROVE  /\ store'[x.node][x.key] # NoEntry /\ ~store'[x.node][x.key].deleted
                        /\ store'[x.node][x.key].val = x.holder /\ store'[x.node][x.key].exp = x.exp
      BY DEF GrantsStored
    <3>1. CASE x = g
      BY <3>1, <2>2, <2>3, <2>4
    <3>2. CASE x \in grants
      <4>1. x.node \in Node /\ x.key \in LockKey /\ x.key \in Key /\ Live(x)
        BY <3>2, <1>3 DEF WiredInv, TypeOK, Grant, Key, Live
      <4> QED BY <3>2, <4>1, <2>4, <2>5 DEF WiredInv, GrantsStored
    <3> QED BY <2>1, <3>1, <3>2
  <2>7. LeaseOf(n, key) = NoEntry
    BY <1>5 DEF Acquirable, LeaseOf
  <2>8. LeaseOf(n, key)' = [holder |-> h, until |-> exp]
    <3>1. ~LockFree(e, Wall(n))
      BY <1>1, <2>2 DEF LockFree, Expired
    <3> QED BY <1>2, <2>2, <2>4, <3>1 DEF LeaseOf, Wall
  <2>9. \A a \in Node, j \in LockKey : a # n \/ j # key => LeaseOf(a, j)' = LeaseOf(a, j)
    BY <1>2, <2>4 DEF LeaseOf, Key, Wall
  <2>10. Leases!Grant(n, key)
    <3>1. HeldLeases' = [HeldLeases EXCEPT ![n][key] = [holder |-> h, until |-> exp]]
      BY <2>8, <2>9 DEF HeldLeases
    <3>2. /\ HeldLeases[n][key] = NoEntry
          /\ HeldLeases'[n][key] = [holder |-> h, until |-> exp]
      BY <2>7, <2>8 DEF HeldLeases
    <3>3. Walls' = Walls /\ Walls[n] = Wall(n)
      BY <1>2 DEF Walls, Wall
    <3>4. [holder |-> h, until |-> exp] \in Leases!Terms
      BY <1>1 DEF Leases!Terms
    <3>5. Walls[n] <= HeldLeases'[n][key].until
      BY <1>1, <3>2, <3>3
    <3> QED BY <3>1, <3>2, <3>3, <3>4, <3>5 DEF Leases!Grant, Leases!Change
  <2> QED BY <1>2, <2>4, <2>6, <2>10 DEF WiredInv
<1> QED BY <1>4, <1>5

\* ReleaseLock ends the lease of its holder.
LEMMA ReleaseLease ==
    ASSUME WiredInv, NEW n \in Node, NEW key \in LockKey, NEW h \in Value, ReleaseLock(n, key, h)
    PROVE  WiredInv' /\ Leases!Release(n, key)
<1> DEFINE ts == NextStamp(n, 1)
           old == store[n][key]
           e == Tombstone(old, n, ts)
<1>1. /\ key \in Key /\ ts \in Timestamp /\ Wall(n) \in Nat
      /\ old \in Entry /\ old # NoEntry /\ old.val = h /\ ~old.deleted /\ Wall(n) < old.exp
  BY WiredFacts DEF WiredInv, Key, ReleaseLock, LockHeldBy, LockHeld
<1>2. /\ clock' = [clock EXCEPT ![n] = ts]
      /\ UNCHANGED <<time, skew, gossipVersion, net>>
      /\ Put(n, key, e) /\ Mark(n, key, "written")
      /\ grants' = {g \in grants : ~(g.node = n /\ g.key = key /\ g.holder = h)}
  BY DEF ReleaseLock, SetClock
<1>3. e \in Entry /\ e # NoEntry /\ e.deleted
  BY <1>1, NoEntryAssumption DEF Tombstone, Entry
<1> HIDE DEF e, ts
<1>4. \A a \in Node : Wall(a)' = Wall(a)
  BY <1>2 DEF Wall
<1>5. /\ TypeOK' /\ store'[n][key] = e
      /\ \A a \in Node, j \in Key : a # n \/ j # key => store'[a][j] = store[a][j]
  BY <1>1, <1>2, <1>3, PutTypes DEF WiredInv, TypeOK
<1>6. GrantsStored'
  <2> SUFFICES ASSUME NEW x \in grants', Live(x)'
               PROVE  /\ store'[x.node][x.key] # NoEntry /\ ~store'[x.node][x.key].deleted
                      /\ store'[x.node][x.key].val = x.holder /\ store'[x.node][x.key].exp = x.exp
    BY DEF GrantsStored
  <2>1. x \in grants /\ x.node \in Node /\ x.key \in LockKey /\ x.key \in Key /\ Live(x)
    BY <1>2, <1>4 DEF WiredInv, TypeOK, Grant, Key, Live
  <2>2. x.node # n \/ x.key # key
    BY <1>1, <1>2, <2>1 DEF WiredInv, GrantsStored
  <2> QED BY <2>1, <2>2, <1>5 DEF WiredInv, GrantsStored
<1>7. LeaseOf(n, key) = [holder |-> h, until |-> old.exp] /\ old.exp \in Nat
  <2>1. old.exp \in Nat
    BY <1>1 DEF Entry
  <2>2. ~LockFree(old, Wall(n))
    BY <1>1, <2>1 DEF LockFree, Expired
  <2> QED BY <1>1, <2>1, <2>2 DEF LeaseOf
<1>8. LeaseOf(n, key)' = NoEntry
  BY <1>3, <1>5 DEF LeaseOf, LockFree, Wall
<1>9. \A a \in Node, j \in LockKey : a # n \/ j # key => LeaseOf(a, j)' = LeaseOf(a, j)
  BY <1>2, <1>5 DEF LeaseOf, Key, Wall
<1>10. Leases!Release(n, key)
  <2>1. HeldLeases' = [HeldLeases EXCEPT ![n][key] = NoEntry]
    BY <1>8, <1>9 DEF HeldLeases
  <2>2. HeldLeases[n][key] = [holder |-> h, until |-> old.exp] /\ HeldLeases[n][key] # NoEntry
    BY <1>7, NoEntryAssumption DEF HeldLeases
  <2>3. Walls' = Walls /\ Walls[n] = Wall(n)
    BY <1>2 DEF Walls, Wall
  <2> QED BY <1>1, <2>1, <2>2, <2>3 DEF Leases!Release, Leases!Change
<1> QED BY <1>2, <1>5, <1>6, <1>10 DEF WiredInv

\* cleanupExpired removes only locks that are free.
LEMMA CleanupLease ==
    ASSUME WiredInv, NEW n \in Node, CleanupExpired(n)
    PROVE  WiredInv' /\ UNCHANGED Leases!vars
<1>1. /\ store \in [Node -> Contents]
      /\ change \in [Node -> [Key -> {"none", "written", "merged"}]]
  BY DEF WiredInv, TypeOK
<1>2. /\ \A k \in Key : store'[n][k] = IF Collectable(n, k) THEN NoEntry ELSE store[n][k]
      /\ \A a \in Node : a # n => store'[a] = store[a]
      /\ store' \in [Node -> Contents]
  BY <1>1 DEF CleanupExpired, Contents
<1>3. change' \in [Node -> [Key -> {"none", "written", "merged"}]]
  BY <1>1 DEF CleanupExpired
<1>4. TypeOK'
  BY <1>2, <1>3 DEF CleanupExpired, WiredInv, TypeOK
<1>5. LocksAlone
  BY <1>2, KeyAssumption DEF CleanupExpired, LocksAlone, Collectable, Key
<1> QED BY <1>4, <1>5, LocksAloneStep DEF CleanupExpired, WiredInv

\* Time passes, and with it perhaps the process of one node.
LEMMA AdvanceLease ==
    ASSUME WiredInv, NEW crashed \in SUBSET Node,
           time' = time + 1, skew' = skew, net' = net, TypeOK',
           grants' = {g \in grants : g.node \notin crashed},
           \A n \in Node, k \in Key :
                store'[n][k] = IF n \in crashed THEN NoEntry ELSE store[n][k]
    PROVE  WiredInv' /\ Leases!Advance(crashed)
<1>1. \A n \in Node : Wall(n) \in Nat /\ Wall(n)' = Wall(n) + 1
  BY WiredFacts, Types, NumberAssumption DEF WiredInv, Wall, TypeOK
<1>2. GrantsStored'
  <2> SUFFICES ASSUME NEW x \in grants', Live(x)'
               PROVE  /\ store'[x.node][x.key] # NoEntry /\ ~store'[x.node][x.key].deleted
                      /\ store'[x.node][x.key].val = x.holder /\ store'[x.node][x.key].exp = x.exp
    BY DEF GrantsStored
  <2>1. x \in grants /\ x.node \in Node \ crashed /\ x.key \in Key /\ x.exp \in Nat
    BY DEF WiredInv, TypeOK, Grant, Key
  <2>2. Live(x)
    BY <1>1, <2>1 DEF Live
  <2> QED BY <2>1, <2>2 DEF WiredInv, GrantsStored
<1>3. ASSUME NEW n \in Node, NEW k \in LockKey
      PROVE  LeaseOf(n, k)' =
                IF n \in crashed \/ (LeaseOf(n, k) # NoEntry /\ LeaseOf(n, k).until < Wall(n)')
                  THEN NoEntry ELSE LeaseOf(n, k)
  <2>1. k \in Key
    BY DEF Key
  <2>2. store[n][k] # NoEntry => store[n][k].exp \in Nat /\ store[n][k].val \in Value \cup {None}
    BY <2>1, WiredFacts DEF WiredInv, Entry
  <2>3. CASE n \in crashed
    BY <2>1, <2>3 DEF LeaseOf, Wall
  <2>4. CASE n \notin crashed
    <3>1. store'[n][k] = store[n][k]
      BY <2>1, <2>4
    <3>2. CASE LeaseOf(n, k) = NoEntry
      BY <1>1, <2>2, <2>4, <3>1, <3>2 DEF LeaseOf, LockFree, Expired, Wall
    <3>3. CASE LeaseOf(n, k) # NoEntry
      <4>1. /\ store[n][k] # NoEntry /\ ~LockFree(store[n][k], Wall(n))
            /\ LeaseOf(n, k) = [holder |-> store[n][k].val, until |-> store[n][k].exp]
        BY <3>3 DEF LeaseOf
      <4>2. LockFree(store[n][k], Wall(n)') <=> LeaseOf(n, k).until < Wall(n)'
        BY <1>1, <2>2, <4>1 DEF LockFree, Expired
      <4> QED BY <2>4, <3>1, <4>1, <4>2 DEF LeaseOf, Wall
    <3> QED BY <3>2, <3>3
  <2> QED BY <2>3, <2>4
<1>4. Leases!Advance(crashed)
  <2>1. \A n \in Node : Walls[n] = Wall(n) /\ Walls'[n] = Wall(n)'
    BY DEF Walls
  <2>2. Walls' = [n \in Node |-> Walls[n] + 1]
    BY <1>1 DEF Walls
  <2>3. HeldLeases' = [n \in Node |-> [k \in LockKey |->
            IF n \in crashed \/ (HeldLeases[n][k] # NoEntry /\ HeldLeases[n][k].until < Walls'[n])
              THEN NoEntry ELSE HeldLeases[n][k]]]
    BY <1>3, <2>1 DEF HeldLeases
  <2> QED BY <2>2, <2>3 DEF Leases!Advance
<1> QED BY <1>2, <1>4 DEF WiredInv

\* A step without gossip keeps the invariant and is a step of Lease.
LEMMA WiredStep ==
    ASSUME Wired, WiredInv, [Next]_vars
    PROVE  WiredInv' /\ [Leases!Next]_(Leases!vars)
<1>1. ASSUME NEW n \in Node, SessionNext(n) \/ MetaNext(n)
      PROVE  WiredInv' /\ [Leases!Next]_(Leases!vars)
  BY <1>1, OtherKeysStep
<1>2. ASSUME NEW n \in Node, LockNext(n) PROVE WiredInv' /\ [Leases!Next]_(Leases!vars)
  BY <1>2, AcquireLease, ReleaseLease DEF LockNext, Leases!Next
<1>3. ASSUME NEW n \in Node, GossipNext(n) PROVE FALSE
  <2>1. Cardinality(net) = 0
    BY FS_EmptySet DEF WiredInv
  <2> QED BY <1>3, <2>1 DEF GossipNext, GetStateSnapshot, GetDeltaSince, WiredInv, Wired
<1>4. ASSUME NEW n \in Node, CleanupExpired(n) PROVE WiredInv' /\ [Leases!Next]_(Leases!vars)
  BY <1>4, CleanupLease
<1>5. CASE Tick
  <2>1. TypeOK'
    BY <1>5 DEF Tick, WiredInv, TypeOK
  <2>2. /\ time' = time + 1 /\ skew' = skew /\ net' = net /\ store' = store
        /\ grants' = {g \in grants : g.node \notin {}}
    BY <1>5 DEF Tick
  <2>3. WiredInv' /\ Leases!Advance({})
    BY <2>1, <2>2, AdvanceLease
  <2> QED BY <2>3 DEF Leases!Next
<1>6. ASSUME NEW n \in Node, Restart(n) PROVE WiredInv' /\ [Leases!Next]_(Leases!vars)
  <2>1. NewClock(time + 1 + skew[n]) \in Timestamp /\ ZeroTimestamp \in Timestamp
    <3>1. time + 1 + skew[n] \in Nat
      BY NumberAssumption DEF WiredInv, TypeOK
    <3> QED BY <3>1 DEF NewClock, ZeroTimestamp, Stamp, Timestamp
  <2>2. Empty \in Contents /\ Unchanged \in [Key -> {"none", "written", "merged"}]
    BY DEF Empty, Unchanged, Contents
  <2>3. TypeOK'
    BY <1>6, <2>1, <2>2 DEF Restart, WiredInv, TypeOK
  <2>4. /\ time' = time + 1 /\ skew' = skew /\ net' = net
        /\ grants' = {g \in grants : g.node \notin {n}}
    BY <1>6 DEF Restart
  <2>5. \A a \in Node, k \in Key : store'[a][k] = IF a \in {n} THEN NoEntry ELSE store[a][k]
    BY <1>6 DEF Restart, WiredInv, TypeOK, Empty
  <2>6. WiredInv' /\ Leases!Advance({n})
    BY <2>3, <2>4, <2>5, AdvanceLease
  <2> QED BY <2>6 DEF Leases!Next
<1>7. CASE UNCHANGED vars
  <2>1. TypeOK' /\ net' = {} /\ LocksAlone
    BY <1>7 DEF vars, WiredInv, TypeOK, LocksAlone
  <2> QED BY <2>1, LocksAloneStep
<1>8. ASSUME NEW m \in net, Lose(m) PROVE FALSE
  BY <1>8 DEF WiredInv
<1> QED BY <1>1, <1>2, <1>3, <1>4, <1>5, <1>6, <1>7, <1>8 DEF Next

\* New stores hold no lock.
LEMMA WiredInit == Init => WiredInv /\ Leases!Init
<1> SUFFICES ASSUME Init PROVE WiredInv /\ Leases!Init
  OBVIOUS
<1>1. \A n \in Node : time + skew[n] \in Nat
  BY NumberAssumption DEF Init
<1>2. TypeOK
  <2>1. \A n \in Node : NewClock(time + skew[n]) \in Timestamp /\ ZeroTimestamp \in Timestamp
    BY <1>1 DEF NewClock, ZeroTimestamp, Stamp, Timestamp
  <2>2. Empty \in Contents /\ Unchanged \in [Key -> {"none", "written", "merged"}]
    BY DEF Empty, Unchanged, Contents
  <2>3. clock \in [Node -> Timestamp] /\ gossipVersion \in [Node -> Timestamp]
    BY <2>1 DEF Init
  <2>4. store \in [Node -> Contents]
        /\ change \in [Node -> [Key -> {"none", "written", "merged"}]]
    BY <2>2 DEF Init
  <2> QED BY <2>3, <2>4 DEF Init, TypeOK
<1>3. net = {} /\ GrantsStored
  BY DEF Init, GrantsStored
<1>4. Walls \in [Node -> Nat]
  BY <1>1 DEF Walls, Wall
<1>5. HeldLeases = [n \in Node |-> [k \in LockKey |-> NoEntry]]
  <2>1. \A n \in Node, k \in LockKey : LeaseOf(n, k) = NoEntry
    BY DEF Init, Empty, LeaseOf, Key
  <2> QED BY <2>1 DEF HeldLeases
<1> QED BY <1>2, <1>3, <1>4, <1>5 DEF WiredInv, Leases!Init

\* Without gossip AcquireLock never grants a lock of a node that has granted
\* it before, to anybody, and whose lifetime is not over: for any number of
\* nodes, whatever their wall clocks say, through cleanups and restarts.
THEOREM NodesExclude == ASSUME Wired PROVE Spec => []NodeMutualExclusion
<1>1. ASSUME WiredInv PROVE NodeMutualExclusion
  <2> SUFFICES ASSUME NEW g \in grants, NEW h \in grants,
                      g.node = h.node, g.key = h.key, Live(g), Live(h)
               PROVE  g = h
    BY DEF NodeMutualExclusion
  <2>1. g \in Grant /\ h \in Grant
    BY <1>1 DEF WiredInv, TypeOK
  <2>2. g.holder = h.holder /\ g.exp = h.exp
    BY <1>1 DEF WiredInv, GrantsStored
  <2> QED BY <2>1, <2>2 DEF Grant
<1>2. WiredInv /\ [Next]_vars => WiredInv'
  BY WiredStep
<1> QED BY <1>1, <1>2, WiredInit, PTL DEF Spec

\* Without gossip the lock operations of internal/db implement leases: the
\* store of every node, with its stamps, tombstones, cleanup and restarts, is
\* a step-by-step refinement of Lease.
THEOREM StoreImplementsLease == ASSUME Wired PROVE Spec => ImplementsLease
<1>1. WiredInv /\ [Next]_vars => WiredInv' /\ [Leases!Next]_(Leases!vars)
  BY WiredStep
<1> QED BY <1>1, WiredInit, PTL DEF Spec, ImplementsLease, Leases!Spec
=============================================================================
