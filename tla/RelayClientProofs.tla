-------------------------- MODULE RelayClientProofs --------------------------
(***************************************************************************)
(* Proofs about RelayClient, whatever the environment does: a client never *)
(* has two write loops, and it implements RelayContract.                   *)
(***************************************************************************)
EXTENDS RelayClient, TLAPS

(* From the wait for the old loops until it starts new ones, the reconnect  *)
(* loop is alone.                                                           *)
LoopIsAlone ==
    /\ loop \notin {"none", "started"} => reader = "none"
    /\ loop \in {"backoff", "dialed", "stored"} => writers = 0

(* A connected client has a read loop that has yet to mark its end.         *)
ConnectedIsRead == connected => reader \in {"reading", "unwinding"}

(* Stop sets stopped first, and only a stopped client discards a dial.      *)
StopComesFirst ==
    /\ stop # "none" \/ stopCh \/ loop = "discarding" => stopped
    /\ Down => ~connected

(* The close handler has run: the client is stopped, or nothing is left     *)
(* that could reconnect it.                                                 *)
NotifiedIsFinal == notified => stopped \/ (reader = "none" /\ loop = "none")

IInv ==
    /\ TypeOK /\ OneWriter /\ LoopIsAlone /\ ConnectedIsRead
    /\ StopComesFirst /\ NotifiedIsFinal

-----------------------------------------------------------------------------
(* The first state.                                                         *)
LEMMA InitIInv == Init => IInv
<1> SUFFICES ASSUME Init PROVE IInv
  OBVIOUS
<1>1. TypeOK
  BY DEF Init, TypeOK
<1>2. OneWriter /\ LoopIsAlone
  BY DEF Init, OneWriter, LoopIsAlone
<1>3. ConnectedIsRead
  BY DEF Init, ConnectedIsRead
<1>4. StopComesFirst
  BY DEF Init, StopComesFirst, Down
<1>5. NotifiedIsFinal
  BY DEF Init, NotifiedIsFinal
<1> QED  BY <1>1, <1>2, <1>3, <1>4, <1>5 DEF IInv

(* The environment and the loops of a connection.                           *)
LEMMA ConnectionKeepsIInv ==
  ASSUME IInv, Break \/ Expire \/ ReaderStep \/ WriteReturns
  PROVE  IInv'
<1> USE DEF IInv, TypeOK, OneWriter, LoopIsAlone, ConnectedIsRead,
            StopComesFirst, NotifiedIsFinal, Down
<1>1. CASE Break
  BY <1>1 DEF Break
<1>2. CASE Expire
  BY <1>2 DEF Expire
<1>3. CASE ReadFails
  BY <1>3 DEF ReadFails
<1>4. CASE ReadDone
  <2>1. TypeOK'
    <3>1. connected' \in BOOLEAN /\ connDone' \in BOOLEAN
      BY <1>4 DEF ReadDone
    <3> QED  BY <1>4, <3>1 DEF ReadDone
  <2>2. OneWriter' /\ LoopIsAlone'
    BY <1>4 DEF ReadDone
  <2>3. ConnectedIsRead'
    BY <1>4 DEF ReadDone
  <2>4. StopComesFirst'
    BY <1>4 DEF ReadDone
  <2>5. NotifiedIsFinal'
    BY <1>4 DEF ReadDone
  <2> QED  BY <2>1, <2>2, <2>3, <2>4, <2>5
<1>5. CASE ReadDecides
  <2>1. TypeOK'
    <3>1. notified' \in BOOLEAN
      BY <1>5 DEF ReadDecides
    <3>2. reconnecting' \in BOOLEAN
      BY <1>5 DEF ReadDecides
    <3>3. loop' \in {"none", "start", "waiting", "backoff", "dialed",
                    "stored", "started", "discarding"}
      BY <1>5 DEF ReadDecides
    <3> QED  BY <1>5, <3>1, <3>2, <3>3 DEF ReadDecides
  <2>2. OneWriter' /\ LoopIsAlone'
    BY <1>5 DEF ReadDecides
  <2>3. ConnectedIsRead'
    BY <1>5 DEF ReadDecides
  <2>4. StopComesFirst'
    BY <1>5 DEF ReadDecides
  <2>5. NotifiedIsFinal'
    BY <1>5 DEF ReadDecides
  <2> QED  BY <2>1, <2>2, <2>3, <2>4, <2>5
<1>6. CASE WriteReturns
  BY <1>6 DEF WriteReturns
<1> QED  BY <1>1, <1>2, <1>3, <1>4, <1>5, <1>6 DEF ReaderStep

(* The reconnect loop.                                                      *)
LEMMA LoopKeepsIInv ==
  ASSUME IInv, LoopStep \/ WaitTimesOut \/ DialFails \/ DialSucceeds
  PROVE  IInv'
<1> USE DEF IInv, TypeOK, OneWriter, LoopIsAlone, ConnectedIsRead,
            StopComesFirst, NotifiedIsFinal, Down
<1>1. CASE LoopStarts
  <2>1. TypeOK'
    <3>1. notified' \in BOOLEAN /\ reconnecting' \in BOOLEAN
      BY <1>1 DEF LoopStarts, LoopReturns
    <3> QED  BY <1>1, <3>1 DEF LoopStarts, LoopReturns
  <2>2. OneWriter' /\ LoopIsAlone'
    BY <1>1 DEF LoopStarts, LoopReturns
  <2>3. ConnectedIsRead'
    BY <1>1 DEF LoopStarts, LoopReturns
  <2>4. StopComesFirst'
    BY <1>1 DEF LoopStarts, LoopReturns
  <2>5. NotifiedIsFinal'
    BY <1>1 DEF LoopStarts, LoopReturns
  <2> QED  BY <2>1, <2>2, <2>3, <2>4, <2>5
<1>2. CASE LoopsExited
  BY <1>2 DEF LoopsExited
<1>3. CASE LoopCancelled
  <2>1. TypeOK'
    <3>1. notified' \in BOOLEAN /\ reconnecting' \in BOOLEAN
      BY <1>3 DEF LoopCancelled, LoopReturns
    <3> QED  BY <1>3, <3>1 DEF LoopCancelled, LoopReturns
  <2>2. OneWriter' /\ LoopIsAlone'
    BY <1>3 DEF LoopCancelled, LoopReturns
  <2>3. ConnectedIsRead'
    BY <1>3 DEF LoopCancelled, LoopReturns
  <2>4. StopComesFirst'
    BY <1>3 DEF LoopCancelled, LoopReturns
  <2>5. NotifiedIsFinal'
    BY <1>3 DEF LoopCancelled, LoopReturns
  <2> QED  BY <2>1, <2>2, <2>3, <2>4, <2>5
<1>4. CASE StoreConn
  BY <1>4 DEF StoreConn
<1>5. CASE Restart
  <2>1. TypeOK'
    <3>1. connected' \in BOOLEAN /\ connDone' \in BOOLEAN
      BY <1>5 DEF Restart
    <3>2. writers' \in Nat
      BY <1>5 DEF Restart
    <3> QED  BY <1>5, <3>1, <3>2 DEF Restart
  <2>2. OneWriter' /\ LoopIsAlone'
    BY <1>5 DEF Restart
  <2>3. ConnectedIsRead'
    BY <1>5 DEF Restart
  <2>4. StopComesFirst'
    BY <1>5 DEF Restart
  <2>5. NotifiedIsFinal'
    BY <1>5 DEF Restart
  <2> QED  BY <2>1, <2>2, <2>3, <2>4, <2>5
<1>6. CASE Discard
  BY <1>6 DEF Discard
<1>7. CASE CloseDiscarded
  <2>1. TypeOK'
    <3>1. notified' \in BOOLEAN /\ reconnecting' \in BOOLEAN
      BY <1>7 DEF CloseDiscarded, LoopReturns
    <3> QED  BY <1>7, <3>1 DEF CloseDiscarded, LoopReturns
  <2>2. OneWriter' /\ LoopIsAlone'
    BY <1>7 DEF CloseDiscarded, LoopReturns
  <2>3. ConnectedIsRead'
    BY <1>7 DEF CloseDiscarded, LoopReturns
  <2>4. StopComesFirst'
    BY <1>7 DEF CloseDiscarded, LoopReturns
  <2>5. NotifiedIsFinal'
    BY <1>7 DEF CloseDiscarded, LoopReturns
  <2> QED  BY <2>1, <2>2, <2>3, <2>4, <2>5
<1>8. CASE LoopEnds
  <2>1. TypeOK'
    <3>1. reconnecting' \in BOOLEAN
      BY <1>8 DEF LoopEnds, LoopReturns
    <3> QED  BY <1>8, <3>1 DEF LoopEnds, LoopReturns
  <2>2. OneWriter' /\ LoopIsAlone'
    BY <1>8 DEF LoopEnds, LoopReturns
  <2>3. ConnectedIsRead'
    BY <1>8 DEF LoopEnds, LoopReturns
  <2>4. StopComesFirst'
    BY <1>8 DEF LoopEnds, LoopReturns
  <2>5. NotifiedIsFinal'
    BY <1>8 DEF LoopEnds, LoopReturns
  <2> QED  BY <2>1, <2>2, <2>3, <2>4, <2>5
<1>9. CASE WaitTimesOut
  <2>1. TypeOK'
    <3>1. notified' \in BOOLEAN /\ reconnecting' \in BOOLEAN
      BY <1>9 DEF WaitTimesOut, LoopReturns
    <3> QED  BY <1>9, <3>1 DEF WaitTimesOut, LoopReturns
  <2>2. OneWriter' /\ LoopIsAlone'
    BY <1>9 DEF WaitTimesOut, LoopReturns
  <2>3. ConnectedIsRead'
    BY <1>9 DEF WaitTimesOut, LoopReturns
  <2>4. StopComesFirst'
    BY <1>9 DEF WaitTimesOut, LoopReturns
  <2>5. NotifiedIsFinal'
    BY <1>9 DEF WaitTimesOut, LoopReturns
  <2> QED  BY <2>1, <2>2, <2>3, <2>4, <2>5
<1>10. CASE DialFails
  <2>1. TypeOK'
    <3>1. refreshed' \in BOOLEAN
      BY <1>10 DEF DialFails
    <3> QED  BY <1>10, <3>1 DEF DialFails
  <2>2. OneWriter' /\ LoopIsAlone'
    BY <1>10 DEF DialFails
  <2>3. ConnectedIsRead'
    BY <1>10 DEF DialFails
  <2>4. StopComesFirst'
    BY <1>10 DEF DialFails
  <2>5. NotifiedIsFinal'
    BY <1>10 DEF DialFails
  <2> QED  BY <2>1, <2>2, <2>3, <2>4, <2>5
<1>11. CASE DialSucceeds
  BY <1>11 DEF DialSucceeds
<1> QED  BY <1>1, <1>2, <1>3, <1>4, <1>5, <1>6, <1>7, <1>8, <1>9, <1>10, <1>11
            DEF LoopStep

(* Stop.                                                                    *)
LEMMA StopKeepsIInv ==
  ASSUME IInv, StopMarks \/ StopStep
  PROVE  IInv'
<1> USE DEF IInv, TypeOK, OneWriter, LoopIsAlone, ConnectedIsRead,
            StopComesFirst, NotifiedIsFinal, Down
<1>1. CASE StopMarks
  <2>1. TypeOK'
    <3>1. stopped' \in BOOLEAN
      BY <1>1 DEF StopMarks
    <3> QED  BY <1>1, <3>1 DEF StopMarks
  <2>2. OneWriter' /\ LoopIsAlone'
    BY <1>1 DEF StopMarks
  <2>3. ConnectedIsRead'
    BY <1>1 DEF StopMarks
  <2>4. StopComesFirst'
    BY <1>1 DEF StopMarks
  <2>5. NotifiedIsFinal'
    BY <1>1 DEF StopMarks
  <2> QED  BY <2>1, <2>2, <2>3, <2>4, <2>5
<1>2. CASE StopSignals
  <2>1. TypeOK'
    <3>1. connected' \in BOOLEAN /\ stopCh' \in BOOLEAN
      BY <1>2 DEF StopSignals
    <3> QED  BY <1>2, <3>1 DEF StopSignals
  <2>2. OneWriter' /\ LoopIsAlone'
    BY <1>2 DEF StopSignals
  <2>3. ConnectedIsRead'
    BY <1>2 DEF StopSignals
  <2>4. StopComesFirst'
    BY <1>2 DEF StopSignals
  <2>5. NotifiedIsFinal'
    BY <1>2 DEF StopSignals
  <2> QED  BY <2>1, <2>2, <2>3, <2>4, <2>5
<1>3. CASE StopCloses
  BY <1>3 DEF StopCloses
<1>4. CASE StopForgets
  BY <1>4 DEF StopForgets
<1> QED  BY <1>1, <1>2, <1>3, <1>4 DEF StopStep

(* The invariant is inductive.                                              *)
LEMMA NextKeepsIInv == IInv /\ [Next]_vars => IInv'
<1>1. IInv /\ UNCHANGED vars => IInv'
  BY DEF vars, IInv, TypeOK, OneWriter, LoopIsAlone, ConnectedIsRead,
         StopComesFirst, NotifiedIsFinal, Down
<1> QED  BY <1>1, ConnectionKeepsIInv, LoopKeepsIInv, StopKeepsIInv DEF Next

(* What the theorems rest on.                                               *)
LEMMA Invariance == Spec => []IInv
  BY InitIInv, NextKeepsIInv, PTL DEF Spec

(* Type correctness.                                                        *)
THEOREM TypeCorrect == Spec => []TypeOK
<1>1. IInv => TypeOK
  BY DEF IInv
<1> QED  BY <1>1, Invariance, PTL

(* Two write loops never run on one client, whether the reconnect loop gets *)
(* its wait or gives up (client_reconnect.go:43-62).                        *)
THEOREM WritersExclude == Spec => []OneWriter
<1>1. IInv => OneWriter
  BY DEF IInv
<1> QED  BY <1>1, Invariance, PTL

-----------------------------------------------------------------------------
(* A step that changes none of what the pod sees.                           *)
LEMMA Hidden ==
  ASSUME UNCHANGED <<connected, notified>>, Down' = Down
  PROVE  UNCHANGED Contract!vars
  BY DEF Contract!vars

(* A step that calls the close handler.                                     *)
LEMMA Notifies ==
  ASSUME TypeOK, ~connected, notified' = TRUE,
         connected' = connected, Down' = Down
  PROVE  [Contract!Next]_(Contract!vars)
<1>1. CASE notified
  BY <1>1 DEF Contract!vars, TypeOK
<1>2. CASE ~notified
  BY <1>2 DEF Contract!Next, Contract!Notify
<1> QED  BY <1>1, <1>2

(* Every step of the client is a step of the contract or none.              *)
LEMMA StepImplements ==
  ASSUME IInv, [Next]_vars
  PROVE  [Contract!Next]_(Contract!vars)
<1> USE DEF Down
<1>1. CASE \/ UNCHANGED vars \/ Break \/ Expire \/ ReadFails \/ WriteReturns
  BY <1>1, Hidden DEF vars, Break, Expire, ReadFails, WriteReturns
<1>2. CASE ReadDone
  <2>1. CASE connected
    BY <1>2, <2>1 DEF ReadDone, Contract!Next, Contract!Drop
  <2>2. CASE ~connected
    <3>1. connected' = connected
      BY <1>2, <2>2 DEF ReadDone, IInv, TypeOK
    <3> QED  BY <1>2, <3>1, Hidden DEF ReadDone
  <2> QED  BY <2>1, <2>2
<1>3. CASE ReadDecides
  <2>1. ~connected
    BY <1>3 DEF ReadDecides, IInv, ConnectedIsRead
  <2>2. notified' = TRUE \/ UNCHANGED notified
    BY <1>3 DEF ReadDecides
  <2> QED  BY <1>3, <2>1, <2>2, Hidden, Notifies DEF ReadDecides, IInv
<1>4. CASE LoopStarts \/ LoopCancelled \/ CloseDiscarded \/ WaitTimesOut
  <2>1. ~connected
    BY <1>4 DEF LoopStarts, LoopCancelled, CloseDiscarded, WaitTimesOut, IInv,
                LoopIsAlone, ConnectedIsRead
  <2>2. /\ connected' = connected /\ Down' = Down
        /\ notified' = TRUE \/ UNCHANGED notified
    BY <1>4 DEF LoopStarts, LoopCancelled, CloseDiscarded, WaitTimesOut
  <2> QED  BY <2>1, <2>2, Hidden, Notifies DEF IInv
<1>5. CASE LoopsExited \/ StoreConn \/ Discard \/ LoopEnds \/ DialFails \/ DialSucceeds
  BY <1>5, Hidden DEF LoopsExited, StoreConn, Discard, LoopEnds, LoopReturns,
                      DialFails, DialSucceeds
<1>6. CASE Restart
  <2>1. ~connected /\ ~Down /\ ~notified
    BY <1>6 DEF Restart, IInv, TypeOK, LoopIsAlone, ConnectedIsRead, StopComesFirst,
                NotifiedIsFinal
  <2> QED  BY <1>6, <2>1 DEF Restart, Contract!Next, Contract!Reconnect
<1>7. CASE StopSignals
  <2>1. ~Down /\ Down'
    BY <1>7 DEF StopSignals
  <2>2. Down' = TRUE
    BY <2>1
  <2> QED  BY <1>7, <2>1, <2>2 DEF StopSignals, Contract!Next, Contract!Stop
<1>8. CASE StopMarks \/ StopCloses \/ StopForgets
  <2>1. (stop \in {"signalled", "waiting", "done"})' = (stop \in {"signalled", "waiting", "done"})
    BY <1>8 DEF StopMarks, StopCloses, StopForgets
  <2> QED  BY <1>8, <2>1, Hidden DEF StopMarks, StopCloses, StopForgets
<1> QED  BY <1>1, <1>2, <1>3, <1>4, <1>5, <1>6, <1>7, <1>8
            DEF Next, ReaderStep, LoopStep, StopStep

(* The detailed client implements what the pod relies on: stopped or        *)
(* reported as closed is for good, although dials, loops and Stop overlap.  *)
THEOREM ContractHolds == Spec => ImplementsContract
<1>1. Init => Contract!Init
  BY DEF Init, Contract!Init, Down
<1>2. IInv /\ [Next]_vars => [Contract!Next]_(Contract!vars)
  BY StepImplements
<1> QED  BY <1>1, <1>2, Invariance, PTL DEF Spec, ImplementsContract, Contract!Spec
=============================================================================
