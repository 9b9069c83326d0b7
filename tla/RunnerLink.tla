------------------------------ MODULE RunnerLink ------------------------------
(***************************************************************************)
(* The stream between one runner and the backend, end to end: the runner's *)
(* connection loop, handshake and heartbeat monitor                        *)
(* (runner/internal/client), the network, the backend's Connect handlers   *)
(* with their receive and ping loops (backend/internal/api/grpc), the      *)
(* initialization timeout, and the runner's status row, which heartbeats   *)
(* reach through the HeartbeatBatcher and disconnects directly.            *)
(*                                                                         *)
(* A member of Streams is a slot for one Connect RPC; a slot is used again *)
(* once both ends and the timeout checker have let go of it, so            *)
(* reconnections are unbounded.  The interleavings inside the connection   *)
(* manager are those of ConnectionManager; here AddConnection is one step, *)
(* and RemoveConnection is split at the points where it holds no lock.     *)
(***************************************************************************)
EXTENDS Naturals, Sequences

CONSTANTS
    Streams,        \* slots for Connect RPCs
    NoStream,       \* nil
    MaxMissedAcks,  \* NewHeartbeatMonitor(3, ...)
    PongPeriods,    \* downstreamPongTimeout / downstreamPingInterval
    Explore          \* the faults and loops a run explores

ASSUME NoStreamAssumption == NoStream \notin Streams
ASSUME ThresholdAssumption == MaxMissedAcks \in Nat \ {0} /\ PongPeriods \in Nat \ {0}

AllBehaviours == {"break", "dead", "crash", "reject", "reconnect", "slowInit",
                  "pings"}
ASSUME ExploreAssumption == Explore \subseteq AllBehaviours

VARIABLES
    \* the runner
    loop,           \* where connectionLoop / runConnection is
    stream,         \* the RPC runConnection works on
    missedAcks,     \* HeartbeatMonitor.missedAcks
    reconnectCh,    \* the buffered reconnect signal
    \* the network, per stream
    net,            \* "up", or how the RPC has ended: "down", or "refused"
    dead,           \* directions that silently lose everything
    up,             \* messages runner -> backend
    down,           \* messages backend -> runner
    \* the backend
    handler,        \* where the Connect handler is
    connections,    \* the manager's entry for the runner
    closed,         \* GRPCConnection.closed
    initialized,    \* GRPCConnection.initialized
    ponged,         \* lastPong is not zero
    pings,          \* pings sent since the last pong, up to PongPeriods
    checker,        \* where checkInitTimeouts is
    target,         \* the connection it has found timed out
    buffer,         \* HeartbeatBatcher.buffer holds the runner's heartbeat
    status          \* runners.status

runnerVars  == <<loop, stream, missedAcks, reconnectCh>>
netVars     == <<net, dead, up, down>>
connVars    == <<connections, closed, initialized, ponged, pings>>
checkerVars == <<checker, target>>
rowVars     == <<buffer, status>>
vars == <<runnerVars, netVars, handler, connVars, checkerVars, rowVars>>

-----------------------------------------------------------------------------
Init ==
    /\ loop = "dialing" /\ stream = NoStream
    /\ missedAcks = 0 /\ reconnectCh = FALSE
    /\ net = [s \in Streams |-> "down"] /\ dead = [s \in Streams |-> {}]
    /\ up = [s \in Streams |-> <<>>] /\ down = [s \in Streams |-> <<>>]
    /\ handler = [s \in Streams |-> "none"]
    /\ connections = NoStream
    /\ closed = [s \in Streams |-> FALSE]
    /\ initialized = [s \in Streams |-> FALSE]
    /\ ponged = [s \in Streams |-> FALSE] /\ pings = [s \in Streams |-> 0]
    /\ checker = "scan" /\ target = NoStream
    /\ buffer = FALSE /\ status = "offline"

(* Sending: a dead direction and an ended RPC lose the message.             *)
Lost(s, dir) == net[s] # "up" \/ dir \in dead[s]
Send(q, s, dir, m) == IF Lost(s, dir) THEN q ELSE [q EXCEPT ![s] = Append(@, m)]

(* GRPCConnection.SendMessage fails on a closed connection.                 *)
SendMessage(s, m) == IF closed[s] THEN down ELSE Send(down, s, "down", m)

(* The RPC ends: nothing more reaches the runner; what reached the backend  *)
(* before may still be read there.                                          *)
EndRPC(s) ==
    /\ net' = [net EXCEPT ![s] = "down"]
    /\ dead' = [dead EXCEPT ![s] = {}]
    /\ down' = [down EXCEPT ![s] = <<>>]

(* The Connect handler returns and its GRPCConnection is garbage.           *)
Return(s) ==
    /\ handler' = [handler EXCEPT ![s] = "none"]
    /\ up' = [up EXCEPT ![s] = <<>>]
    /\ closed' = [closed EXCEPT ![s] = FALSE]
    /\ initialized' = [initialized EXCEPT ![s] = FALSE]
    /\ ponged' = [ponged EXCEPT ![s] = FALSE]
    /\ pings' = [pings EXCEPT ![s] = 0]

-----------------------------------------------------------------------------
(* Runner.                                                                  *)

(* Connect, client.Connect, and the Initialize request of                   *)
(* performInitialization, on a free slot.                                   *)
OpenStream(s) ==
    /\ loop = "dialing"
    /\ handler[s] = "none" /\ s # target
    /\ loop' = "handshake" /\ stream' = s
    /\ net' = [net EXCEPT ![s] = "up"]
    /\ up' = [up EXCEPT ![s] = <<"initialize">>]
    /\ handler' = [handler EXCEPT ![s] = "validating"]
    /\ UNCHANGED <<missedAcks, reconnectCh, dead, down, connVars, rowVars,
                   checkerVars>>

(* handleServerMessage, by message.  A ping is answered while the write     *)
(* loop runs, that is, not once done is closed.                             *)
ReadLoop ==
    /\ loop \in {"handshake", "ready", "initFailed"}
    /\ net[stream] = "up" /\ down[stream] # <<>>
    /\ LET m == Head(down[stream])
       IN  /\ down' = [down EXCEPT ![stream] = Tail(@)]
           /\ IF m = "result" /\ loop = "handshake"
              THEN /\ loop' = "ready"
                   /\ up' = Send(up, stream, "up", "initialized")
              ELSE /\ UNCHANGED loop
                   /\ up' = IF m = "ping" /\ loop # "initFailed"
                            THEN Send(up, stream, "up", "pong") ELSE up
           /\ missedAcks' = IF m = "ack" THEN 0 ELSE missedAcks
    /\ UNCHANGED <<stream, reconnectCh, net, dead, handler, connVars, rowVars,
                   checkerVars>>

(* runConnection returns: its context is cancelled, which ends the RPC.     *)
Leave ==
    /\ loop' = "dialing" /\ stream' = NoStream /\ missedAcks' = 0
    /\ EndRPC(stream)

(* performInitialization gives up.  runConnection closes done and waits for *)
(* the read loop before the deferred cancel.                                *)
InitTimeout ==
    /\ loop = "handshake"
    /\ "slowInit" \in Explore \/ net[stream] # "up" \/ dead[stream] # {} \/ closed[stream]
    /\ loop' = "initFailed"
    /\ UNCHANGED <<stream, missedAcks, reconnectCh, netVars, handler, connVars,
                   rowVars, checkerVars>>

WaitReadLoop ==
    /\ loop = "initFailed"
    /\ net[stream] = "down"
    /\ Leave
    /\ UNCHANGED <<reconnectCh, up, handler, connVars, rowVars, checkerVars>>

(* The read loop was told a fatal error: connectionLoop does not retry.     *)
FatalError ==
    /\ loop = "initFailed"
    /\ net[stream] = "refused"
    /\ loop' = "gone" /\ stream' = NoStream /\ missedAcks' = 0
    /\ EndRPC(stream)
    /\ UNCHANGED <<reconnectCh, up, handler, connVars, rowVars, checkerVars>>

(* The read loop sees the end of the RPC of an initialized connection.      *)
StreamEnded ==
    /\ loop = "ready"
    /\ net[stream] = "down"
    /\ Leave
    /\ UNCHANGED <<reconnectCh, up, handler, connVars, rowVars, checkerVars>>

(* HeartbeatMonitor.OnSent finds too many heartbeats unacknowledged.        *)
Unhealthy == missedAcks + 1 >= MaxMissedAcks

(* heartbeatLoop: send, then OnSent, which cancels an unhealthy stream.     *)
HeartbeatTick ==
    /\ loop = "ready"
    /\ up' = Send(up, stream, "up", "heartbeat")
    /\ IF Unhealthy
       THEN Leave
       ELSE /\ missedAcks' = missedAcks + 1
            /\ UNCHANGED <<loop, stream, net, dead, down>>
    /\ UNCHANGED <<reconnectCh, handler, connVars, rowVars, checkerVars>>

(* triggerReconnect: certificate renewal, a stuck writer, a send timeout.   *)
TriggerReconnect ==
    /\ "reconnect" \in Explore
    /\ loop = "ready"
    /\ ~reconnectCh
    /\ reconnectCh' = TRUE
    /\ UNCHANGED <<loop, stream, missedAcks, netVars, handler, connVars, rowVars,
                   checkerVars>>

(* The reconnect monitor takes the signal, be it one left over by an        *)
(* earlier connection.                                                      *)
ReconnectMonitor ==
    /\ loop = "ready"
    /\ reconnectCh
    /\ reconnectCh' = FALSE
    /\ Leave
    /\ UNCHANGED <<up, handler, connVars, rowVars, checkerVars>>

(* The runner process dies, and perhaps comes back, as one that gave up     *)
(* does when it is registered again.                                        *)
Crash ==
    /\ "crash" \in Explore
    /\ loop # "gone"
    /\ loop' = "gone" /\ stream' = NoStream
    /\ missedAcks' = 0 /\ reconnectCh' = FALSE
    /\ IF stream = NoStream THEN UNCHANGED <<net, dead, down>> ELSE EndRPC(stream)
    /\ UNCHANGED <<up, handler, connVars, rowVars, checkerVars>>

Restart ==
    /\ loop = "gone"
    /\ loop' = "dialing"
    /\ UNCHANGED <<stream, missedAcks, reconnectCh, netVars, handler, connVars,
                   rowVars, checkerVars>>

-----------------------------------------------------------------------------
(* Network.                                                                 *)

Break(s) ==
    /\ "break" \in Explore
    /\ net[s] = "up"
    /\ EndRPC(s)
    /\ UNCHANGED <<runnerVars, up, handler, connVars, rowVars, checkerVars>>

(* A half-dead connection: one direction loses what is in flight and all    *)
(* that follows, and neither end is told.                                   *)
GoDead(s, dir) ==
    /\ "dead" \in Explore
    /\ net[s] = "up" /\ dir \notin dead[s]
    /\ dead' = [dead EXCEPT ![s] = @ \cup {dir}]
    /\ up' = IF dir = "up" THEN [up EXCEPT ![s] = <<>>] ELSE up
    /\ down' = IF dir = "down" THEN [down EXCEPT ![s] = <<>>] ELSE down
    /\ UNCHANGED <<runnerVars, net, handler, connVars, rowVars, checkerVars>>

-----------------------------------------------------------------------------
(* Backend.                                                                 *)

(* Mutant: the replaced connection stays open.                              *)
RegisterOnly(s) ==
    /\ handler[s] = "validating"
    /\ handler' = [handler EXCEPT ![s] = "serving"]
    /\ connections' = s
    /\ UNCHANGED <<runnerVars, netVars, closed, initialized, ponged, pings, rowVars,
                   checkerVars>>

(* Connect: identity, organization and certificate checks, which take time; *)
(* then AddConnection, which closes the connection it replaces.             *)
Register(s) ==
    /\ handler[s] = "validating"
    /\ handler' = [handler EXCEPT ![s] = "serving"]
    /\ connections' = s
    /\ closed' = IF connections = NoStream THEN closed
                 ELSE [closed EXCEPT ![connections] = TRUE]
    /\ UNCHANGED <<runnerVars, netVars, initialized, ponged, pings, rowVars,
                   checkerVars>>

(* The checks fail, for good (unknown, disabled or revoked) or not.         *)
Reject(s, end) ==
    /\ "reject" \in Explore
    /\ handler[s] = "validating"
    /\ Return(s)
    /\ net' = IF net[s] = "up" THEN [net EXCEPT ![s] = end] ELSE net
    /\ dead' = [dead EXCEPT ![s] = {}]
    /\ down' = [down EXCEPT ![s] = <<>>]
    /\ UNCHANGED <<runnerVars, connections, rowVars, checkerVars>>

(* receiveLoop takes one message; handleProtoMessage, by message.           *)
Receiving(s, m) ==
    /\ handler[s] = "serving"
    /\ up[s] # <<>> /\ Head(up[s]) = m
    /\ up' = [up EXCEPT ![s] = Tail(@)]

HandleInitialize(s) ==
    /\ Receiving(s, "initialize")
    /\ down' = SendMessage(s, "result")
    /\ UNCHANGED <<runnerVars, net, dead, handler, connVars, rowVars, checkerVars>>

(* The flag goes to the manager's entry; UpdateLastSeen sets the row.       *)
HandleInitialized(s) ==
    /\ Receiving(s, "initialized")
    /\ initialized' = IF connections = NoStream THEN initialized
                      ELSE [initialized EXCEPT ![connections] = TRUE]
    /\ status' = "online"
    /\ UNCHANGED <<runnerVars, net, dead, down, handler, connections, closed,
                   ponged, pings, buffer, checkerVars>>

(* RecordHeartbeat: the batcher will write the row.                         *)
RecordHeartbeat == buffer' = TRUE

(* Mutant: heartbeats of closed connections are acknowledged.               *)
AckAlways(s) ==
    /\ Receiving(s, "heartbeat")
    /\ RecordHeartbeat
    /\ down' = Send(down, s, "down", "ack")
    /\ UNCHANGED <<runnerVars, net, dead, handler, connVars, status, checkerVars>>

(* Mutant: heartbeats are acknowledged and not recorded.                    *)
AckOnly(s) ==
    /\ Receiving(s, "heartbeat")
    /\ down' = SendMessage(s, "ack")
    /\ UNCHANGED <<runnerVars, net, dead, handler, connVars, rowVars, checkerVars>>

HandleHeartbeat(s) ==
    /\ Receiving(s, "heartbeat")
    /\ RecordHeartbeat
    /\ down' = SendMessage(s, "ack")
    /\ UNCHANGED <<runnerVars, net, dead, handler, connVars, status, checkerVars>>

HandlePong(s) ==
    /\ Receiving(s, "pong")
    /\ ponged' = [ponged EXCEPT ![s] = TRUE] /\ pings' = [pings EXCEPT ![s] = 0]
    /\ UNCHANGED <<runnerVars, net, dead, down, handler, connections, closed,
                   initialized, rowVars, checkerVars>>

InFlight(q, m) == \E i \in 1..Len(q) : q[i] = m

(* Mutant: a runner that never answered is not told apart.                  *)
PingUncapped(s) ==
    /\ "pings" \in Explore
    /\ handler[s] = "serving" /\ ~closed[s]
    /\ ~InFlight(down[s], "ping") /\ ~InFlight(up[s], "pong")
    /\ pings[s] <= PongPeriods
    /\ down' = SendMessage(s, "ping")
    /\ pings' = [pings EXCEPT ![s] = @ + 1]
    /\ UNCHANGED <<runnerVars, net, dead, up, handler, connections, closed,
                   initialized, ponged, rowVars, checkerVars>>

(* One tick of downstreamPingLoop, which ends when the connection is        *)
(* closed.  Closing also cancels the handler's derived context, which       *)
(* stream.Recv does not watch.  A ping still unanswered on its way is not    *)
(* repeated.                                                                *)
PingTick(s) ==
    /\ "pings" \in Explore
    /\ handler[s] = "serving" /\ ~closed[s]
    /\ IF ponged[s] /\ pings[s] >= PongPeriods
       THEN /\ closed' = [closed EXCEPT ![s] = TRUE]
            /\ UNCHANGED <<down, pings>>
       ELSE /\ ~InFlight(down[s], "ping") /\ ~InFlight(up[s], "pong")
            /\ down' = SendMessage(s, "ping")
            /\ pings' = [pings EXCEPT ![s] = IF @ < PongPeriods THEN @ + 1 ELSE @]
            /\ UNCHANGED closed
    /\ UNCHANGED <<runnerVars, net, dead, up, handler, connections, initialized,
                   ponged, rowVars, checkerVars>>

(* sendLoop fails to send and its wrapper closes the connection.            *)
SendLoopDies(s) ==
    /\ handler[s] = "serving" /\ net[s] = "down" /\ ~closed[s]
    /\ closed' = [closed EXCEPT ![s] = TRUE]
    /\ UNCHANGED <<runnerVars, netVars, handler, connections, initialized, ponged,
                   pings, rowVars, checkerVars>>

(* receiveLoop returns when stream.Recv does: the RPC has ended.            *)
ReceiveLoopExits(s) ==
    /\ handler[s] = "serving" /\ net[s] = "down"
    /\ handler' = [handler EXCEPT ![s] = "removing"]
    /\ UNCHANGED <<runnerVars, netVars, connVars, rowVars, checkerVars>>

(* The deferred RemoveConnection: entry first, onDisconnect later.          *)
RemoveConnection(s) ==
    /\ handler[s] = "removing"
    /\ IF connections = s
       THEN /\ connections' = NoStream
            /\ handler' = [handler EXCEPT ![s] = "closing"]
            /\ UNCHANGED <<up, closed, initialized, ponged, pings>>
       ELSE Return(s) /\ UNCHANGED connections
    /\ UNCHANGED <<runnerVars, net, dead, down, rowVars, checkerVars>>

OnDisconnect(s) ==
    /\ handler[s] = "closing"
    /\ status' = "offline"
    /\ Return(s)
    /\ UNCHANGED <<runnerVars, net, dead, down, connections, buffer, checkerVars>>

(* checkInitTimeouts collects an entry whose handshake is not complete,     *)
(* under the read lock.                                                     *)
CollectTimedOut ==
    /\ checker = "scan"
    /\ connections # NoStream
    /\ ~initialized[connections]
    /\ checker' = "remove" /\ target' = connections
    /\ UNCHANGED <<runnerVars, netVars, handler, connVars, rowVars>>

(* Later it calls RemoveConnection, which takes the entry out when it is    *)
(* still the one collected, its handshake complete by now or not.           *)
RemoveTimedOut ==
    /\ checker = "remove"
    /\ IF connections = target
       THEN /\ connections' = NoStream /\ checker' = "close"
            /\ UNCHANGED target
       ELSE /\ checker' = "scan" /\ target' = NoStream
            /\ UNCHANGED connections
    /\ UNCHANGED <<runnerVars, netVars, handler, closed, initialized, ponged, pings,
                   rowVars>>

(* The lock is released: conn.Close(), of a connection whose handler may    *)
(* have returned in the meantime.                                           *)
CloseTimedOut ==
    /\ checker = "close"
    /\ closed' = [closed EXCEPT ![target] = handler[target] # "none"]
    /\ checker' = "notify" /\ target' = NoStream
    /\ UNCHANGED <<runnerVars, netVars, handler, connections, initialized, ponged,
                   pings, rowVars>>

(* Last, onDisconnect, whatever connection the runner has by then.          *)
CheckerNotifies ==
    /\ checker = "notify"
    /\ status' = "offline"
    /\ checker' = "scan"
    /\ UNCHANGED <<runnerVars, netVars, handler, connVars, buffer, target>>

(* HeartbeatBatcher.flush writes the buffered status, "online".             *)
Flush ==
    /\ buffer
    /\ buffer' = FALSE
    /\ status' = "online"
    /\ UNCHANGED <<runnerVars, netVars, handler, connVars, checkerVars>>

-----------------------------------------------------------------------------
Handle(s) ==
    \/ HandleInitialize(s) \/ HandleInitialized(s)
    \/ HandleHeartbeat(s) \/ HandlePong(s)

HandlerStep(s) ==
    \/ Register(s) \/ ReceiveLoopExits(s) \/ RemoveConnection(s) \/ OnDisconnect(s)

CheckerStep ==
    CollectTimedOut \/ RemoveTimedOut \/ CloseTimedOut \/ CheckerNotifies

Next ==
    \/ \E s \in Streams :
        \/ OpenStream(s) \/ Break(s) \/ (\E dir \in {"up", "down"} : GoDead(s, dir))
        \/ HandlerStep(s) \/ Handle(s) \/ PingTick(s) \/ SendLoopDies(s)
        \/ (\E end \in {"down", "refused"} : Reject(s, end))
    \/ ReadLoop \/ InitTimeout \/ WaitReadLoop \/ FatalError \/ StreamEnded
    \/ HeartbeatTick \/ TriggerReconnect \/ ReconnectMonitor \/ Crash \/ Restart
    \/ CheckerStep \/ Flush

(* Timers fire and goroutines that can run do: the heartbeat, ping, init    *)
(* timeout and flush tickers, both read loops, the handlers and the         *)
(* runner's dialing.  The network and the process may fail at any time but  *)
(* need not; a crashed runner need not come back.                           *)
Fairness ==
    /\ WF_vars(\E s \in Streams : OpenStream(s))
    /\ SF_vars(ReadLoop) /\ WF_vars(HeartbeatTick)
    /\ WF_vars(InitTimeout) /\ WF_vars(WaitReadLoop \/ FatalError) /\ WF_vars(StreamEnded)
    /\ WF_vars(ReconnectMonitor) /\ WF_vars(CheckerStep) /\ WF_vars(Flush)
    /\ \A s \in Streams :
        WF_vars(HandlerStep(s)) /\ WF_vars(Handle(s)) /\ WF_vars(PingTick(s))

Spec == Init /\ [][Next]_vars
FairSpec == Spec /\ Fairness

-----------------------------------------------------------------------------
Messages == {"initialize", "initialized", "heartbeat", "pong", "result", "ack", "ping"}

(* The type of every variable.                                              *)
TypeOK ==
    /\ loop \in {"dialing", "handshake", "ready", "initFailed", "gone"}
    /\ stream \in Streams \cup {NoStream}
    /\ missedAcks \in Nat /\ reconnectCh \in BOOLEAN
    /\ net \in [Streams -> {"up", "down", "refused"}]
    /\ dead \in [Streams -> SUBSET {"up", "down"}]
    /\ up \in [Streams -> Seq(Messages)] /\ down \in [Streams -> Seq(Messages)]
    /\ handler \in [Streams -> {"none", "validating", "serving", "removing", "closing"}]
    /\ connections \in Streams \cup {NoStream}
    /\ closed \in [Streams -> BOOLEAN] /\ initialized \in [Streams -> BOOLEAN]
    /\ ponged \in [Streams -> BOOLEAN] /\ pings \in [Streams -> 0..PongPeriods]
    /\ checker \in {"scan", "remove", "close", "notify"}
    /\ target \in Streams \cup {NoStream}
    /\ buffer \in BOOLEAN /\ status \in {"online", "offline"}

(* A stream whose handler still serves it and whose connection is open is   *)
(* the one the manager sends commands to, or one that the timeout checker   *)
(* has just taken out of the map and is about to close: RemoveConnection    *)
(* deletes the entry first.  Every other one is closed and answers nothing, *)
(* so the runner's heartbeat monitor notices it.                            *)
OpenMeansRegistered ==
    \A s \in Streams :
        handler[s] = "serving" /\ ~closed[s]
            => connections = s \/ (checker = "close" /\ target = s)

(* A runner that completed the handshake leaves a stream the backend has    *)
(* closed or that is dead in either direction: heartbeat acknowledgements   *)
(* stop and the monitor reconnects.                                         *)
HeartbeatMonitorHeals ==
    \A s \in Streams :
        (stream = s /\ loop = "ready" /\ (closed[s] \/ dead[s] # {})) ~> stream # s

(* A runner whose stream stays up is shown online, although the disconnect  *)
(* callback of an earlier stream's handler, or of the timeout checker, may  *)
(* still mark it offline.                                                   *)
ServedRunnerIsOnline ==
    <>[](loop = "ready") => <>[](status = "online")
=============================================================================
