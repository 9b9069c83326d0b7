--------------------------- MODULE RunnerLinkProofs ---------------------------
(***************************************************************************)
(* Proofs about RunnerLink, for every number of streams and all            *)
(* thresholds: an open connection that is served is the registered one or  *)
(* about to be closed by the timeout checker.                              *)
(***************************************************************************)
EXTENDS RunnerLink, SequenceTheorems, TLAPS

(* The manager's entry is a stream whose handler has not run its deferred   *)
(* RemoveConnection.                                                        *)
EntryIsServed ==
    connections # NoStream => handler[connections] \in {"serving", "removing"}

IInv == TypeOK /\ EntryIsServed /\ OpenMeansRegistered

-----------------------------------------------------------------------------
Queues == [Streams -> Seq(Messages)]

(* A message that is sent is queued or lost.                                *)
LEMMA SendType ==
  ASSUME NEW q \in Queues, NEW s, NEW dir, NEW m \in Messages
  PROVE  Send(q, s, dir, m) \in Queues
<1>1. \A x \in Streams : Append(q[x], m) \in Seq(Messages)
  BY AppendProperties DEF Queues
<1> QED  BY <1>1 DEF Send, Queues

(* A queue whose head is taken is a queue.                                  *)
LEMMA TailType ==
  ASSUME NEW q \in Queues, NEW s, s \in Streams => q[s] # <<>>
  PROVE  [q EXCEPT ![s] = Tail(@)] \in Queues
<1>1. CASE s \in Streams
  <2>1. Tail(q[s]) \in Seq(Messages)
    BY <1>1, HeadTailProperties DEF Queues
  <2> QED  BY <2>1 DEF Queues
<1>2. CASE s \notin Streams
  BY <1>2 DEF Queues
<1> QED  BY <1>1, <1>2

(* A queue may be emptied.                                                  *)
LEMMA EmptyType ==
  ASSUME NEW q \in Queues, NEW s
  PROVE  [q EXCEPT ![s] = <<>>] \in Queues
<1>1. <<>> \in Seq(Messages)
  BY EmptySeq
<1> QED  BY <1>1 DEF Queues

(* The two steps that end an RPC and a handler keep the types.              *)
LEMMA EndRPCType ==
  ASSUME TypeOK, NEW s, EndRPC(s)
  PROVE  /\ net' \in [Streams -> {"up", "down", "refused"}]
         /\ dead' \in [Streams -> SUBSET {"up", "down"}]
         /\ down' \in Queues
<1>1. down \in Queues
  BY DEF TypeOK, Queues
<1>2. down' \in Queues
  BY <1>1, EmptyType DEF EndRPC
<1>3. net' \in [Streams -> {"up", "down", "refused"}]
  BY DEF EndRPC, TypeOK
<1>4. dead' \in [Streams -> SUBSET {"up", "down"}]
  BY DEF EndRPC, TypeOK
<1> QED  BY <1>2, <1>3, <1>4

HandlerStates == {"none", "validating", "serving", "removing", "closing"}

(* The handler and its connection are discarded.                            *)
LEMMA ReturnType ==
  ASSUME TypeOK, NEW s \in Streams, Return(s)
  PROVE  /\ handler' \in [Streams -> HandlerStates] /\ up' \in Queues
         /\ closed' \in [Streams -> BOOLEAN] /\ initialized' \in [Streams -> BOOLEAN]
         /\ ponged' \in [Streams -> BOOLEAN] /\ pings' \in [Streams -> 0..PongPeriods]
<1>1. up \in Queues /\ 0 \in 0..PongPeriods
  BY ThresholdAssumption DEF TypeOK, Queues
<1>2. up' \in Queues
  BY <1>1, EmptyType DEF Return
<1>3. handler' \in [Streams -> HandlerStates]
  BY DEF Return, TypeOK, HandlerStates
<1>4. closed' \in [Streams -> BOOLEAN] /\ initialized' \in [Streams -> BOOLEAN]
        /\ ponged' \in [Streams -> BOOLEAN]
  BY DEF Return, TypeOK
<1>5. pings' \in [Streams -> 0..PongPeriods]
  BY <1>1 DEF Return, TypeOK
<1> QED  BY <1>2, <1>3, <1>4, <1>5

(* A received message leaves a queue of messages.                           *)
LEMMA ReceivingType ==
  ASSUME TypeOK, NEW s \in Streams, NEW m, Receiving(s, m)
  PROVE  up' \in Queues
<1>1. up \in Queues
  BY DEF TypeOK, Queues
<1> QED  BY <1>1, TailType DEF Receiving

(* An answer of the backend is queued or lost.                              *)
LEMMA SendMessageType ==
  ASSUME TypeOK, NEW s \in Streams, NEW m \in Messages
  PROVE  SendMessage(s, m) \in Queues
<1>1. down \in Queues
  BY DEF TypeOK, Queues
<1> QED  BY <1>1, SendType DEF SendMessage

-----------------------------------------------------------------------------
(* Every step of the runner, the network and the backend keeps the types.   *)
LEMMA TypeStep == TypeOK /\ [Next]_vars => TypeOK'
<1> SUFFICES ASSUME TypeOK, [Next]_vars PROVE TypeOK'
  OBVIOUS
<1> USE ThresholdAssumption DEF runnerVars, netVars, connVars, checkerVars, rowVars
<1>q. up \in Queues /\ down \in Queues
  BY DEF TypeOK, Queues
<1>1. ASSUME NEW s \in Streams, OpenStream(s) PROVE TypeOK'
  <2>1. <<"initialize">> \in Seq(Messages)
    BY DEF Messages
  <2> QED  BY <1>1, <2>1 DEF OpenStream, TypeOK
<1>2. ASSUME ReadLoop PROVE TypeOK'
  <2>1. "initialized" \in Messages /\ "pong" \in Messages
    BY DEF Messages
  <2>2. down' \in Queues
    <3>1. down[stream] # <<>> /\ down' = [down EXCEPT ![stream] = Tail(@)]
      BY <1>2 DEF ReadLoop
    <3> QED  BY <1>q, <3>1, TailType
  <2>3. up' \in Queues
    <3>1. up' \in {up, Send(up, stream, "up", "initialized"), Send(up, stream, "up", "pong")}
      BY <1>2 DEF ReadLoop
    <3> QED  BY <1>q, <2>1, <3>1, SendType
  <2>4. loop' \in {loop, "ready"} /\ missedAcks' \in {0, missedAcks}
    BY <1>2 DEF ReadLoop
  <2> QED  BY <1>2, <2>2, <2>3, <2>4 DEF ReadLoop, TypeOK, Queues
<1>3. ASSUME InitTimeout PROVE TypeOK'
  BY <1>3 DEF InitTimeout, TypeOK
<1>4. ASSUME WaitReadLoop PROVE TypeOK'
  BY <1>4, EndRPCType DEF WaitReadLoop, Leave, TypeOK, Queues
<1>5. ASSUME FatalError PROVE TypeOK'
  BY <1>5, EndRPCType DEF FatalError, TypeOK, Queues
<1>6. ASSUME StreamEnded PROVE TypeOK'
  BY <1>6, EndRPCType DEF StreamEnded, Leave, TypeOK, Queues
<1>7. ASSUME HeartbeatTick PROVE TypeOK'
  <2>1. up' \in Queues
    BY <1>7, <1>q, SendType DEF HeartbeatTick, Messages
  <2>2. CASE Unhealthy
    BY <1>7, <2>1, <2>2, EndRPCType DEF HeartbeatTick, Leave, TypeOK, Queues
  <2>3. CASE ~Unhealthy
    BY <1>7, <2>1, <2>3 DEF HeartbeatTick, TypeOK, Queues
  <2> QED  BY <2>2, <2>3
<1>8. ASSUME TriggerReconnect PROVE TypeOK'
  BY <1>8 DEF TriggerReconnect, TypeOK
<1>9. ASSUME ReconnectMonitor PROVE TypeOK'
  BY <1>9, EndRPCType DEF ReconnectMonitor, Leave, TypeOK, Queues
<1>10. ASSUME Crash PROVE TypeOK'
  <2>1. CASE stream = NoStream
    BY <1>10, <2>1 DEF Crash, TypeOK
  <2>2. CASE stream # NoStream
    BY <1>10, <2>2, EndRPCType DEF Crash, TypeOK, Queues
  <2> QED  BY <2>1, <2>2
<1>11. ASSUME Restart PROVE TypeOK'
  BY <1>11 DEF Restart, TypeOK
<1>12. ASSUME NEW s \in Streams, Break(s) PROVE TypeOK'
  BY <1>12, EndRPCType DEF Break, TypeOK, Queues
<1>13. ASSUME NEW s \in Streams, NEW dir \in {"up", "down"}, GoDead(s, dir) PROVE TypeOK'
  <2>1. up' \in Queues /\ down' \in Queues
    BY <1>13, <1>q, EmptyType DEF GoDead
  <2>2. dead' \in [Streams -> SUBSET {"up", "down"}]
    BY <1>13 DEF GoDead, TypeOK
  <2> QED  BY <1>13, <2>1, <2>2 DEF GoDead, TypeOK, Queues
<1>14. ASSUME NEW s \in Streams, Register(s) PROVE TypeOK'
  BY <1>14 DEF Register, TypeOK
<1>15. ASSUME NEW s \in Streams, NEW end \in {"down", "refused"}, Reject(s, end) PROVE TypeOK'
  <2>1. down' \in Queues
    BY <1>15, <1>q, EmptyType DEF Reject
  <2>2. net' \in [Streams -> {"up", "down", "refused"}]
    BY <1>15 DEF Reject, TypeOK
  <2>3. dead' \in [Streams -> SUBSET {"up", "down"}]
    BY <1>15 DEF Reject, TypeOK
  <2> QED  BY <1>15, <2>1, <2>2, <2>3, ReturnType DEF Reject, TypeOK, Queues, HandlerStates
<1>16. ASSUME NEW s \in Streams, HandleInitialize(s) PROVE TypeOK'
  <2>1. up' \in Queues
    BY <1>16, ReceivingType DEF HandleInitialize
  <2>2. down' \in Queues
    BY <1>16, SendMessageType DEF HandleInitialize, Messages
  <2> QED  BY <1>16, <2>1, <2>2 DEF HandleInitialize, TypeOK, Queues
<1>17. ASSUME NEW s \in Streams, HandleInitialized(s) PROVE TypeOK'
  BY <1>17, ReceivingType DEF HandleInitialized, TypeOK, Queues
<1>18. ASSUME NEW s \in Streams, HandleHeartbeat(s) PROVE TypeOK'
  <2>1. up' \in Queues
    BY <1>18, ReceivingType DEF HandleHeartbeat
  <2>2. down' \in Queues
    BY <1>18, SendMessageType DEF HandleHeartbeat, Messages
  <2> QED  BY <1>18, <2>1, <2>2 DEF HandleHeartbeat, RecordHeartbeat, TypeOK, Queues
<1>19. ASSUME NEW s \in Streams, HandlePong(s) PROVE TypeOK'
  <2>1. up' \in Queues
    BY <1>19, ReceivingType DEF HandlePong
  <2>2. ponged' \in [Streams -> BOOLEAN] /\ pings' \in [Streams -> 0..PongPeriods]
    BY <1>19 DEF HandlePong, TypeOK
  <2> QED  BY <1>19, <2>1, <2>2 DEF HandlePong, TypeOK, Queues
<1>20. ASSUME NEW s \in Streams, PingTick(s) PROVE TypeOK'
  <2>1. down' \in Queues
    <3>1. down' \in {down, SendMessage(s, "ping")}
      BY <1>20 DEF PingTick
    <3> QED  BY <3>1, <1>q, SendMessageType DEF Messages
  <2>2. pings' \in [Streams -> 0..PongPeriods]
    <3>1. pings \in [Streams -> 0..PongPeriods]
      BY DEF TypeOK
    <3>2. (IF pings[s] < PongPeriods THEN pings[s] + 1 ELSE pings[s]) \in 0..PongPeriods
      BY <3>1
    <3> QED  BY <1>20, <3>1, <3>2 DEF PingTick
  <2>3. closed' \in [Streams -> BOOLEAN]
    BY <1>20 DEF PingTick, TypeOK
  <2> QED  BY <1>20, <2>1, <2>2, <2>3 DEF PingTick, TypeOK, Queues
<1>21. ASSUME NEW s \in Streams, SendLoopDies(s) PROVE TypeOK'
  BY <1>21 DEF SendLoopDies, TypeOK
<1>22. ASSUME NEW s \in Streams, ReceiveLoopExits(s) PROVE TypeOK'
  BY <1>22 DEF ReceiveLoopExits, TypeOK
<1>23. ASSUME NEW s \in Streams, RemoveConnection(s) PROVE TypeOK'
  <2>1. CASE connections = s
    BY <1>23, <2>1 DEF RemoveConnection, TypeOK
  <2>2. CASE connections # s
    BY <1>23, <2>2, ReturnType DEF RemoveConnection, TypeOK, Queues, HandlerStates
  <2> QED  BY <2>1, <2>2
<1>24. ASSUME NEW s \in Streams, OnDisconnect(s) PROVE TypeOK'
  BY <1>24, ReturnType DEF OnDisconnect, TypeOK, Queues, HandlerStates
<1>25. ASSUME CheckerStep PROVE TypeOK'
  <2>1. CASE CollectTimedOut
    BY <2>1 DEF CollectTimedOut, TypeOK
  <2>2. CASE RemoveTimedOut
    BY <2>2 DEF RemoveTimedOut, TypeOK
  <2>3. CASE CloseTimedOut
    BY <2>3 DEF CloseTimedOut, TypeOK
  <2>4. CASE CheckerNotifies
    BY <2>4 DEF CheckerNotifies, TypeOK
  <2> QED  BY <1>25, <2>1, <2>2, <2>3, <2>4 DEF CheckerStep
<1>26. ASSUME Flush PROVE TypeOK'
  BY <1>26 DEF Flush, TypeOK
<1>27. CASE UNCHANGED vars
  BY <1>27 DEF vars, TypeOK
<1> QED
  BY <1>1, <1>2, <1>3, <1>4, <1>5, <1>6, <1>7, <1>8, <1>9, <1>10, <1>11, <1>12, <1>13,
     <1>14, <1>15, <1>16, <1>17, <1>18, <1>19, <1>20, <1>21, <1>22, <1>23, <1>24, <1>25,
     <1>26, <1>27
     DEF Next, HandlerStep, Handle

(* The type invariant holds for every number of streams and all thresholds. *)
THEOREM TypeCorrect == Spec => []TypeOK
<1>1. Init => TypeOK
  <2> SUFFICES ASSUME Init PROVE TypeOK
    OBVIOUS
  <2>1. <<>> \in Seq(Messages)
    BY EmptySeq
  <2>2. 0 \in 0..PongPeriods /\ 0 \in Nat
    BY ThresholdAssumption
  <2>3. /\ up \in [Streams -> Seq(Messages)] /\ down \in [Streams -> Seq(Messages)]
        /\ pings \in [Streams -> 0..PongPeriods]
    BY <2>1, <2>2 DEF Init
  <2>4. /\ dead \in [Streams -> SUBSET {"up", "down"}]
        /\ net \in [Streams -> {"up", "down", "refused"}]
        /\ handler \in [Streams -> {"none", "validating", "serving", "removing", "closing"}]
    BY DEF Init
  <2>5. /\ closed \in [Streams -> BOOLEAN] /\ initialized \in [Streams -> BOOLEAN]
        /\ ponged \in [Streams -> BOOLEAN]
        /\ buffer \in BOOLEAN /\ reconnectCh \in BOOLEAN
    BY DEF Init
  <2> QED  BY <2>2, <2>3, <2>4, <2>5 DEF Init, TypeOK
<1> QED  BY <1>1, TypeStep, PTL DEF Spec

-----------------------------------------------------------------------------
(* The steps that touch nothing the invariant is about: all but the         *)
(* handlers, the ping and send loops and the timeout checker.               *)
Others ==
    \/ ReadLoop \/ InitTimeout \/ WaitReadLoop \/ FatalError \/ StreamEnded
    \/ HeartbeatTick \/ TriggerReconnect \/ ReconnectMonitor \/ Crash \/ Restart
    \/ Flush
    \/ \E s \in Streams :
          \/ Break(s) \/ Handle(s)
          \/ \E dir \in {"up", "down"} : GoDead(s, dir)
    \/ UNCHANGED vars

(* They leave the handlers, the map, the connections' closed flags and the  *)
(* checker alone.                                                           *)
LEMMA OthersKeepHandlers ==
  Others => UNCHANGED <<handler, connections, closed, checker, target>>
BY DEF Others, ReadLoop, InitTimeout, WaitReadLoop, FatalError, StreamEnded, HeartbeatTick,
       TriggerReconnect, ReconnectMonitor, Crash, Restart, Flush, Break, GoDead, Handle,
       HandleInitialize, HandleInitialized, HandleHeartbeat, HandlePong, vars, connVars,
       checkerVars

(* Every step keeps the inductive invariant.                                *)
LEMMA InvStep == IInv /\ [Next]_vars => IInv'
<1> SUFFICES ASSUME IInv, [Next]_vars PROVE EntryIsServed' /\ OpenMeansRegistered'
  BY TypeStep DEF IInv
<1> USE NoStreamAssumption DEF IInv, TypeOK, EntryIsServed, OpenMeansRegistered, connVars,
                                 checkerVars
<1>1. ASSUME NEW s \in Streams, OpenStream(s)
      PROVE  EntryIsServed' /\ OpenMeansRegistered'
  BY <1>1 DEF OpenStream
<1>2. ASSUME NEW s \in Streams, Register(s)
      PROVE  EntryIsServed' /\ OpenMeansRegistered'
  <2>1. connections # s
    BY <1>2 DEF Register
  <2> QED  BY <1>2, <2>1 DEF Register
<1>3. ASSUME NEW s \in Streams, NEW end \in {"down", "refused"}, Reject(s, end)
      PROVE  EntryIsServed' /\ OpenMeansRegistered'
  BY <1>3 DEF Reject, Return
<1>4. ASSUME NEW s \in Streams, PingTick(s)
      PROVE  EntryIsServed' /\ OpenMeansRegistered'
  BY <1>4 DEF PingTick
<1>5. ASSUME NEW s \in Streams, SendLoopDies(s)
      PROVE  EntryIsServed' /\ OpenMeansRegistered'
  BY <1>5 DEF SendLoopDies
<1>6. ASSUME NEW s \in Streams, ReceiveLoopExits(s)
      PROVE  EntryIsServed' /\ OpenMeansRegistered'
  BY <1>6 DEF ReceiveLoopExits
<1>7. ASSUME NEW s \in Streams, RemoveConnection(s)
      PROVE  EntryIsServed' /\ OpenMeansRegistered'
  <2>1. CASE connections = s
    BY <1>7, <2>1 DEF RemoveConnection
  <2>2. CASE connections # s
    <3>1. /\ handler' = [handler EXCEPT ![s] = "none"]
          /\ closed' = [closed EXCEPT ![s] = FALSE]
          /\ UNCHANGED <<connections, checker, target>>
      BY <1>7, <2>2 DEF RemoveConnection, Return
    <3> QED  BY <2>2, <3>1
  <2> QED  BY <2>1, <2>2
<1>8. ASSUME NEW s \in Streams, OnDisconnect(s)
      PROVE  EntryIsServed' /\ OpenMeansRegistered'
  BY <1>8 DEF OnDisconnect, Return
<1>9. ASSUME CheckerStep
      PROVE  EntryIsServed' /\ OpenMeansRegistered'
  <2>1. CASE CollectTimedOut
    BY <2>1 DEF CollectTimedOut
  <2>2. CASE RemoveTimedOut
    BY <2>2 DEF RemoveTimedOut
  <2>3. CASE CloseTimedOut
    BY <2>3 DEF CloseTimedOut
  <2>4. CASE CheckerNotifies
    BY <2>4 DEF CheckerNotifies
  <2> QED  BY <1>9, <2>1, <2>2, <2>3, <2>4 DEF CheckerStep
<1>10. ASSUME UNCHANGED <<handler, connections, closed, checker, target>>
       PROVE  EntryIsServed' /\ OpenMeansRegistered'
  BY <1>10
<1> HIDE DEF IInv, TypeOK, EntryIsServed, OpenMeansRegistered, connVars, checkerVars
<1>11. CASE Others
  BY <1>10, <1>11, OthersKeepHandlers
<1>12. ASSUME NEW s \in Streams, HandlerStep(s)
       PROVE  EntryIsServed' /\ OpenMeansRegistered'
  BY <1>12, <1>2, <1>6, <1>7, <1>8 DEF HandlerStep
<1>13. \/ Others \/ CheckerStep
       \/ \E s \in Streams :
             \/ OpenStream(s) \/ HandlerStep(s) \/ PingTick(s) \/ SendLoopDies(s)
             \/ \E end \in {"down", "refused"} : Reject(s, end)
  BY DEF Next, Others
<1> QED  BY <1>1, <1>3, <1>4, <1>5, <1>9, <1>11, <1>12, <1>13

(* The inductive invariant holds.                                           *)
THEOREM Invariance == Spec => []IInv
<1>1. Init => EntryIsServed /\ OpenMeansRegistered
  BY DEF Init, EntryIsServed, OpenMeansRegistered
<1>2. Init /\ TypeOK => IInv
  BY <1>1 DEF IInv
<1> QED  BY <1>2, TypeCorrect, InvStep, PTL DEF Spec

(* An open connection that a handler serves is the one the manager sends    *)
(* commands to, or the timeout checker is between deleting its entry and    *)
(* closing it (AddConnection, RemoveConnection, checkInitTimeouts).         *)
THEOREM OpenIsRegistered == Spec => []OpenMeansRegistered
<1>1. IInv => OpenMeansRegistered
  BY DEF IInv
<1> QED  BY <1>1, Invariance, PTL
=============================================================================
