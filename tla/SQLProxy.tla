------------------------------ MODULE SQLProxy ------------------------------
(***************************************************************************)
(* internal/sqlproxy's Proxy: the accept loop, one handler per connection  *)
(* with a goroutine for each direction, the read-only state for migrations *)
(* and Stop with its two wait groups.                                      *)
(*                                                                         *)
(* What a Read returns is a packet of one of three kinds: "write" and      *)
(* "migration" contain a word of isWriteQuery, "migration" also one of     *)
(* isMigrationQuery, "plain" neither.  A query that is split over two      *)
(* reads, and a prepared statement that is executed, count as plain.       *)
(***************************************************************************)
EXTENDS Integers

CONSTANT Conn  \* the connections that clients make

\* A connection is none of the other values of acceptor.
ASSUME ConnAssumption == Conn \cap {"none", "accepting", "done"} = {}

VARIABLES state,      \* p.state: the proxy is read-only while migrating
          listener, cancelled,
          acceptor,   \* acceptLoop, or the connection it has just accepted
          handler,    \* handleConnection; connWg counts "dialing" and "proxying"
          open,       \* the two sockets of a connection, on our side
          gone,       \* the peers that have hung up or reset
          up, down,   \* proxyWithInspection client->target and target->client
          packet,     \* what the first of them has read
          stop,       \* where Stop is
          timedOut,   \* Stop has given up waiting
          late        \* history: writes sent since the proxy became read-only

connection == <<handler, open, gone, up, down, packet, late>>
control == <<listener, cancelled, acceptor, stop, timedOut>>
vars == <<state, connection, control>>

Side == {"client", "target"}

Packet == {"plain", "write", "migration"}

TypeOK ==
    /\ state \in {"normal", "migrating"}
    /\ listener \in {"none", "open", "closed"} /\ cancelled \in BOOLEAN
    /\ acceptor \in {"none", "accepting", "done"} \cup Conn
    /\ handler \in [Conn -> {"none", "dialing", "proxying", "done"}]
    /\ open \in [Conn -> SUBSET Side] /\ gone \in [Conn -> SUBSET Side]
    /\ up \in [Conn -> {"none", "reading", "inspecting", "sending", "done"}]
    /\ packet \in [Conn -> Packet]
    /\ down \in [Conn -> {"none", "reading", "sending", "done"}]
    /\ stop \in {"none", "closing", "accept", "connections", "returned"}
    /\ timedOut \in BOOLEAN
    /\ late \in [Conn -> 0 .. 2]

\* New.
Init ==
    /\ state = "normal"
    /\ listener = "none" /\ cancelled = FALSE /\ acceptor = "none"
    /\ handler = [c \in Conn |-> "none"]
    /\ open = [c \in Conn |-> {}] /\ gone = [c \in Conn |-> {}]
    /\ up = [c \in Conn |-> "none"] /\ down = [c \in Conn |-> "none"]
    /\ packet = [c \in Conn |-> "plain"]
    /\ stop = "none" /\ timedOut = FALSE
    /\ late = [c \in Conn |-> 0]

-----------------------------------------------------------------------------
(* Start and acceptLoop. *)

Start ==
    /\ listener = "none" /\ stop = "none"
    /\ listener' = "open" /\ acceptor' = "accepting"
    /\ UNCHANGED <<state, connection, cancelled, stop, timedOut>>

Accept(c) ==
    /\ acceptor = "accepting" /\ listener = "open"
    /\ handler[c] = "none" /\ open[c] = {}
    /\ acceptor' = c
    /\ open' = [open EXCEPT ![c] = {"client"}]
    /\ UNCHANGED <<state, listener, cancelled, stop, timedOut, handler, gone, up, down, packet, late>>

\* connWg.Add, and the handler is launched.
Launch(c) ==
    /\ acceptor = c
    /\ acceptor' = "accepting"
    /\ handler' = [handler EXCEPT ![c] = "dialing"]
    /\ UNCHANGED <<state, listener, cancelled, stop, timedOut, open, gone, up, down, packet, late>>

\* Accept fails: for good once the listener is closed, and now and then
\* before.  The loop ends when the context is done and goes on otherwise.
AcceptFails ==
    /\ acceptor = "accepting" /\ cancelled
    /\ acceptor' = "done"
    /\ UNCHANGED <<state, connection, listener, cancelled, stop, timedOut>>

-----------------------------------------------------------------------------
(* handleConnection. *)

\* The target answers and two goroutines start, or it does not.
Dial(c) ==
    /\ handler[c] = "dialing"
    /\ \/ /\ handler' = [handler EXCEPT ![c] = "proxying"]
          /\ open' = [open EXCEPT ![c] = Side]
          /\ up' = [up EXCEPT ![c] = "reading"] /\ down' = [down EXCEPT ![c] = "reading"]
       \/ /\ handler' = [handler EXCEPT ![c] = "done"]
          /\ open' = [open EXCEPT ![c] = {}]
          /\ UNCHANGED <<up, down>>
    /\ UNCHANGED <<state, control, gone, packet, late>>

\* wg.Wait returns, and the target is closed once more.
HandlerReturns(c) ==
    /\ handler[c] = "proxying" /\ up[c] = "done" /\ down[c] = "done"
    /\ handler' = [handler EXCEPT ![c] = "done"]
    /\ open' = [open EXCEPT ![c] = @ \ {"target"}]
    /\ UNCHANGED <<state, control, gone, up, down, packet, late>>

-----------------------------------------------------------------------------
(* proxyWithInspection. *)

\* A socket that we have closed, or whose peer has hung up, gives an error.
Dead(c, side) == side \notin open[c] \/ side \in gone[c]

\* Faulty variant of Closed, for the mutation runs.
ClosedClientOnly(c) == [open EXCEPT ![c] = @ \ {"client"}]

\* src.Close and dst.Close, deferred.
Closed(c) == [open EXCEPT ![c] = {}]

UpReads(c) ==
    /\ up[c] = "reading" /\ ~Dead(c, "client")
    /\ \E p \in Packet : packet' = [packet EXCEPT ![c] = p]
    /\ up' = [up EXCEPT ![c] = "inspecting"]
    /\ UNCHANGED <<state, control, handler, open, gone, down, late>>

\* The buffer holds nothing that is looked at again.
Unread(c) == packet' = [packet EXCEPT ![c] = "plain"]

IsWriteQuery(p) == p \in {"write", "migration"}

IsMigrationQuery(p) == p = "migration"

\* Faulty variant of Blocks, for the mutation runs.
BlocksWhenNormal(p) == state = "normal" /\ IsWriteQuery(p)

Blocks(p) == state = "migrating" /\ IsWriteQuery(p) /\ ~IsMigrationQuery(p)

\* A write that comes while the proxy is read-only is answered with an error.
Inspect(c) ==
    /\ up[c] = "inspecting"
    /\ IF Blocks(packet[c])
         THEN Unread(c) /\ up' = [up EXCEPT ![c] = "reading"]
         ELSE UNCHANGED packet /\ up' = [up EXCEPT ![c] = "sending"]
    /\ UNCHANGED <<state, control, handler, open, gone, down, late>>

UpSends(c) ==
    /\ up[c] = "sending" /\ ~Dead(c, "target")
    /\ up' = [up EXCEPT ![c] = "reading"] /\ Unread(c)
    /\ late' = IF state = "migrating" /\ packet[c] = "write" /\ late[c] < 2
                 THEN [late EXCEPT ![c] = @ + 1] ELSE late
    /\ UNCHANGED <<state, control, handler, open, gone, down>>

\* An error of Read or Write ends the goroutine, which closes both sockets.
UpEnds(c) ==
    /\ \/ up[c] = "reading" /\ Dead(c, "client")
       \/ up[c] = "sending" /\ Dead(c, "target")
    /\ up' = [up EXCEPT ![c] = "done"] /\ Unread(c)
    /\ open' = Closed(c)
    /\ UNCHANGED <<state, control, handler, gone, down, late>>

\* The other direction, which inspects nothing.
DownReads(c) ==
    /\ down[c] = "reading" /\ ~Dead(c, "target")
    /\ down' = [down EXCEPT ![c] = "sending"]
    /\ UNCHANGED <<state, control, handler, open, gone, up, packet, late>>

DownSends(c) ==
    /\ down[c] = "sending" /\ ~Dead(c, "client")
    /\ down' = [down EXCEPT ![c] = "reading"]
    /\ UNCHANGED <<state, control, handler, open, gone, up, packet, late>>

DownEnds(c) ==
    /\ \/ down[c] = "reading" /\ Dead(c, "target")
       \/ down[c] = "sending" /\ Dead(c, "client")
    /\ down' = [down EXCEPT ![c] = "done"]
    /\ open' = Closed(c)
    /\ UNCHANGED <<state, control, handler, gone, up, packet, late>>

HangUp(c, side) ==
    /\ side \in open[c] \ gone[c]
    /\ gone' = [gone EXCEPT ![c] = @ \cup {side}]
    /\ UNCHANGED <<state, control, handler, open, up, down, packet, late>>

-----------------------------------------------------------------------------
(* StartMigration, EndMigration and Stop. *)

StartMigration ==
    /\ state = "normal" /\ state' = "migrating"
    /\ UNCHANGED <<connection, control>>

\* Faulty variant of EndMigration, for the mutation runs.
EndMigrationToUnknown ==
    /\ state = "migrating" /\ state' = "unknown"
    /\ UNCHANGED <<connection, control>>

EndMigration ==
    /\ state = "migrating" /\ state' = "normal"
    /\ late' = [c \in Conn |-> 0]
    /\ UNCHANGED <<control, handler, open, gone, up, down, packet>>

StopCancels ==
    /\ stop = "none"
    /\ cancelled' = TRUE /\ stop' = "closing"
    /\ UNCHANGED <<state, connection, listener, acceptor, timedOut>>

\* Faulty variant of StopCloses, for the mutation runs.
StopClosesAndSkipsAccept ==
    /\ stop = "closing"
    /\ listener' = IF listener = "open" THEN "closed" ELSE listener
    /\ stop' = "connections"
    /\ UNCHANGED <<state, connection, cancelled, acceptor, timedOut>>

StopCloses ==
    /\ stop = "closing"
    /\ listener' = IF listener = "open" THEN "closed" ELSE listener
    /\ stop' = "accept"
    /\ UNCHANGED <<state, connection, cancelled, acceptor, timedOut>>

\* acceptWg.Wait, or five seconds.
StopWaitsForAccept ==
    /\ stop = "accept"
    /\ \/ acceptor \in {"none", "done"} /\ UNCHANGED timedOut
       \/ timedOut' = TRUE
    /\ stop' = "connections"
    /\ UNCHANGED <<state, connection, listener, cancelled, acceptor>>

Handled == {c \in Conn : handler[c] \in {"dialing", "proxying"}}

\* Faulty variant of StopWaitsForConnections, for the mutation runs.
StopWaitsForEver ==
    /\ stop = "connections" /\ Handled = {}
    /\ stop' = "returned"
    /\ UNCHANGED <<state, connection, listener, cancelled, acceptor, timedOut>>

\* connWg.Wait, or thirty seconds.
StopWaitsForConnections ==
    /\ stop = "connections"
    /\ \/ Handled = {} /\ UNCHANGED timedOut
       \/ timedOut' = TRUE
    /\ stop' = "returned"
    /\ UNCHANGED <<state, connection, listener, cancelled, acceptor>>

-----------------------------------------------------------------------------

Acceptor == AcceptFails \/ \E c \in Conn : Accept(c) \/ Launch(c)

\* The goroutines of connection c, as far as they do not wait for a peer to
\* say something.
Progress(c) ==
    \/ Dial(c) \/ HandlerReturns(c)
    \/ Inspect(c) \/ UpSends(c) \/ UpEnds(c)
    \/ DownSends(c) \/ DownEnds(c)

Stop == StopCancels \/ StopCloses \/ StopWaitsForAccept \/ StopWaitsForConnections

Next ==
    \/ Start \/ Acceptor \/ Stop \/ StartMigration \/ EndMigration
    \/ \E c \in Conn : \/ Progress(c) \/ UpReads(c) \/ DownReads(c)
                       \/ \E side \in Side : HangUp(c, side)

Spec == Init /\ [][Next]_vars

\* Goroutines run, and a peer reads what it is sent or hangs up: the sockets
\* have no deadlines.  Nothing makes a peer say anything or hang up.
FairSpec ==
    /\ Spec
    /\ WF_vars(AcceptFails \/ \E c \in Conn : Launch(c))
    /\ WF_vars(StopCloses \/ StopWaitsForAccept \/ StopWaitsForConnections)
    /\ \A c \in Conn :
        /\ WF_vars(Dial(c) \/ HandlerReturns(c))
        /\ WF_vars(Inspect(c) \/ UpSends(c) \/ UpEnds(c))
        /\ WF_vars(DownSends(c) \/ DownEnds(c))

-----------------------------------------------------------------------------
(* Properties. *)

\* The state is checked once per packet and the packet is sent later: once
\* the proxy is read-only, no connection gets more than the one write through
\* that it had already checked.
AtMostOneLateWrite == \A c \in Conn : late[c] <= 1

\* A Stop that did not give up waiting leaves nothing behind: no goroutine
\* that accepts or proxies and no socket.  It must wait for the accept loop
\* first, which may be about to launch one more handler.
CleanStop ==
    stop = "returned" /\ ~timedOut =>
        /\ acceptor \in {"none", "done"} /\ Handled = {}
        /\ \A c \in Conn : open[c] = {}

\* When either peer of a connection hangs up, both goroutines and the handler
\* end, although each direction may be waiting for the other peer.
ConnectionsEnd ==
    \A c \in Conn : (gone[c] # {}) ~> (handler[c] = "done")

\* Stop returns, although it does not close the connections it waits for.
StopReturns == (stop # "none") ~> (stop = "returned")
=============================================================================
