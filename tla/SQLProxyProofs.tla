--------------------------- MODULE SQLProxyProofs ---------------------------
(***************************************************************************)
(* internal/sqlproxy's Proxy for any number of connections: the writes     *)
(* that pass once it is read-only, and what Stop leaves behind.            *)
(***************************************************************************)
EXTENDS SQLProxy, TLAPS

\* A write counts as late only while the proxy is read-only, and a connection
\* that has sent one has no other write past the check of isWriteQuery.
LateWrites ==
    \A c \in Conn :
        /\ state = "normal" => late[c] = 0
        /\ late[c] <= 1
        /\ late[c] = 1 => ~(up[c] = "sending" /\ packet[c] = "write")

\* Before Start nothing accepts.
NotStarted == listener = "none" => acceptor = "none"

\* Every open socket has a goroutine that will close it: the accept loop, or
\* the handler; and both are closed once either direction has ended.
SocketsOwned ==
    \A c \in Conn :
        /\ acceptor = c => handler[c] = "none"
        /\ open[c] # {} => handler[c] \in {"dialing", "proxying"} \/ acceptor = c
        /\ handler[c] \in {"none", "dialing"} => up[c] = "none" /\ down[c] = "none"
        /\ handler[c] = "proxying" /\ (up[c] = "done" \/ down[c] = "done") => open[c] = {}

\* What each of Stop's two waits leaves, unless one of them has timed out.
StopWaited ==
    ~timedOut =>
        /\ stop \in {"connections", "returned"} => acceptor \in {"none", "done"}
        /\ stop = "returned" => Handled = {}

\* The inductive invariant.
IInv == TypeOK /\ LateWrites /\ NotStarted /\ SocketsOwned /\ StopWaited

-----------------------------------------------------------------------------

\* New satisfies the invariant.
LEMMA InitInv == Init => IInv
<1> SUFFICES ASSUME Init PROVE IInv
  OBVIOUS
<1> USE DEF Init
<1>1. TypeOK
  <2>1. late \in [Conn -> 0 .. 2] /\ packet \in [Conn -> Packet]
    BY DEF Packet
  <2>2. open \in [Conn -> SUBSET Side] /\ gone \in [Conn -> SUBSET Side]
    BY Zenon
  <2> QED BY <2>1, <2>2 DEF TypeOK
<1>2. LateWrites /\ NotStarted
  BY DEF LateWrites, NotStarted
<1>3. SocketsOwned
  BY ConnAssumption DEF SocketsOwned
<1>4. StopWaited
  BY DEF StopWaited
<1> QED BY <1>1, <1>2, <1>3, <1>4 DEF IInv

\* A step that leaves everything alone.
LEMMA StutterInv == IInv /\ UNCHANGED vars => IInv'
BY DEF IInv, TypeOK, LateWrites, NotStarted, SocketsOwned, StopWaited, Handled,
       vars, connection, control

\* Start, and the steps of acceptLoop.
LEMMA AcceptorInv ==
    ASSUME IInv, Start \/ Acceptor
    PROVE  IInv'
<1> USE DEF IInv, TypeOK, LateWrites, NotStarted, SocketsOwned, StopWaited, Handled
<1>1. CASE Start
  BY <1>1, ConnAssumption DEF Start, connection
<1>2. CASE AcceptFails
  BY <1>2, ConnAssumption DEF AcceptFails, connection
<1>3. ASSUME NEW c \in Conn, Accept(c) PROVE IInv'
  <2>1. TypeOK' /\ LateWrites' /\ NotStarted'
    BY <1>3, ConnAssumption DEF Accept, Side
  <2>2. SocketsOwned'
    BY <1>3, ConnAssumption DEF Accept
  <2>3. StopWaited'
    BY <1>3, ConnAssumption DEF Accept
  <2> QED BY <2>1, <2>2, <2>3
<1>4. ASSUME NEW c \in Conn, Launch(c) PROVE IInv'
  <2>1. TypeOK' /\ LateWrites' /\ NotStarted'
    BY <1>4, ConnAssumption DEF Launch
  <2>2. SocketsOwned'
    BY <1>4, ConnAssumption DEF Launch
  <2>3. StopWaited'
    BY <1>4, ConnAssumption DEF Launch
  <2> QED BY <2>1, <2>2, <2>3
<1> QED BY <1>1, <1>2, <1>3, <1>4 DEF Acceptor

\* The steps of handleConnection.
LEMMA HandlerInv ==
    ASSUME IInv, NEW c \in Conn, Dial(c) \/ HandlerReturns(c)
    PROVE  IInv'
<1> USE DEF IInv, TypeOK, LateWrites, NotStarted, SocketsOwned, StopWaited, Handled, control
<1>1. CASE Dial(c)
  <2>1. TypeOK' /\ LateWrites' /\ NotStarted'
    BY <1>1 DEF Dial, Side
  <2>2. SocketsOwned'
    BY <1>1, ConnAssumption DEF Dial, Side
  <2>3. StopWaited'
    BY <1>1 DEF Dial
  <2> QED BY <2>1, <2>2, <2>3
<1>2. CASE HandlerReturns(c)
  <2>1. TypeOK' /\ LateWrites' /\ NotStarted'
    BY <1>2 DEF HandlerReturns
  <2>2. SocketsOwned'
    BY <1>2 DEF HandlerReturns
  <2>3. StopWaited'
    BY <1>2 DEF HandlerReturns
  <2> QED BY <2>1, <2>2, <2>3
<1> QED BY <1>1, <1>2

\* proxyWithInspection from the client to the target.
LEMMA UpInv ==
    ASSUME IInv, NEW c \in Conn, UpReads(c) \/ Inspect(c) \/ UpSends(c) \/ UpEnds(c)
    PROVE  IInv'
<1> USE DEF IInv, TypeOK, NotStarted, SocketsOwned, StopWaited, Handled, control, Unread
<1>1. CASE UpReads(c)
  <2>1. TypeOK' /\ NotStarted' /\ StopWaited'
    BY <1>1 DEF UpReads
  <2>2. SocketsOwned'
    BY <1>1 DEF UpReads
  <2>3. LateWrites'
    BY <1>1 DEF UpReads, LateWrites
  <2> QED BY <2>1, <2>2, <2>3
<1>2. CASE Inspect(c)
  <2>1. TypeOK' /\ NotStarted' /\ StopWaited'
    BY <1>2 DEF Inspect, Packet
  <2>2. SocketsOwned'
    BY <1>2 DEF Inspect
  <2>3. LateWrites'
    BY <1>2 DEF Inspect, LateWrites, Blocks, IsWriteQuery, IsMigrationQuery
  <2> QED BY <2>1, <2>2, <2>3
<1>3. CASE UpSends(c)
  <2>1. TypeOK' /\ NotStarted' /\ StopWaited'
    BY <1>3 DEF UpSends, Packet
  <2>2. SocketsOwned'
    BY <1>3 DEF UpSends
  <2>3. LateWrites'
    BY <1>3 DEF UpSends, LateWrites
  <2> QED BY <2>1, <2>2, <2>3
<1>4. CASE UpEnds(c)
  <2>1. TypeOK' /\ NotStarted' /\ StopWaited'
    BY <1>4 DEF UpEnds, Closed, Packet
  <2>2. SocketsOwned'
    BY <1>4 DEF UpEnds, Closed
  <2>3. LateWrites'
    BY <1>4 DEF UpEnds, LateWrites
  <2> QED BY <2>1, <2>2, <2>3
<1> QED BY <1>1, <1>2, <1>3, <1>4

\* proxyWithInspection from the target to the client, and a peer that hangs up.
LEMMA DownInv ==
    ASSUME IInv, NEW c \in Conn,
           \/ DownReads(c) \/ DownSends(c) \/ DownEnds(c)
           \/ \E side \in Side : HangUp(c, side)
    PROVE  IInv'
<1> USE DEF IInv, TypeOK, LateWrites, NotStarted, SocketsOwned, StopWaited, Handled, control
<1>1. CASE DownReads(c)
  BY <1>1 DEF DownReads
<1>2. CASE DownSends(c)
  BY <1>2 DEF DownSends
<1>3. CASE DownEnds(c)
  BY <1>3 DEF DownEnds, Closed
<1>4. ASSUME NEW side \in Side, HangUp(c, side) PROVE IInv'
  BY <1>4 DEF HangUp
<1> QED BY <1>1, <1>2, <1>3, <1>4

\* StartMigration, EndMigration and the steps of Stop.
LEMMA ControlInv ==
    ASSUME IInv, StartMigration \/ EndMigration \/ Stop
    PROVE  IInv'
<1> USE DEF IInv, TypeOK, LateWrites, NotStarted, SocketsOwned, StopWaited, Handled,
            connection, control
<1>1. CASE StartMigration
  BY <1>1 DEF StartMigration
<1>2. CASE EndMigration
  BY <1>2 DEF EndMigration
<1>3. CASE StopCancels
  BY <1>3 DEF StopCancels
<1>4. CASE StopCloses
  BY <1>4 DEF StopCloses
<1>5. CASE StopWaitsForAccept
  BY <1>5 DEF StopWaitsForAccept
<1>6. CASE StopWaitsForConnections
  BY <1>6 DEF StopWaitsForConnections
<1> QED BY <1>1, <1>2, <1>3, <1>4, <1>5, <1>6 DEF Stop

\* The invariant holds of every reachable state.
LEMMA Invariance == Spec => []IInv
<1>1. IInv /\ [Next]_vars => IInv'
  BY StutterInv, AcceptorInv, HandlerInv, UpInv, DownInv, ControlInv DEF Next, Progress
<1> QED BY InitInv, <1>1, PTL DEF Spec

-----------------------------------------------------------------------------

\* The variables of New and of every handler keep their types.
THEOREM TypeCorrect == Spec => []TypeOK
<1>1. IInv => TypeOK
  BY DEF IInv
<1> QED BY Invariance, <1>1, PTL

\* proxyWithInspection checks the state once for each packet: for any number
\* of connections, none gets a second write through once StartMigration has
\* returned.
THEOREM LateWritesBounded == Spec => []AtMostOneLateWrite
<1>1. IInv => AtMostOneLateWrite
  BY DEF IInv, LateWrites, AtMostOneLateWrite
<1> QED BY Invariance, <1>1, PTL

\* A Stop neither of whose waits timed out leaves no goroutine and no socket
\* of any connection behind, whatever was being accepted when it was called.
THEOREM StopIsClean == Spec => []CleanStop
<1>1. IInv => CleanStop
  BY ConnAssumption DEF IInv, TypeOK, SocketsOwned, StopWaited, CleanStop, Handled
<1> QED BY Invariance, <1>1, PTL
=============================================================================
