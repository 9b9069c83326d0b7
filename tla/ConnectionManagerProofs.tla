------------------------ MODULE ConnectionManagerProofs ------------------------
(***************************************************************************)
(* Proofs about ConnectionManager, for every set of runners, streams and   *)
(* senders.  The inductive invariant says that generations identify        *)
(* connections, who holds a shard lock, and that a connection is on        *)
(* exactly one of the ways out of the map.                                 *)
(***************************************************************************)
EXTENDS ConnectionManager, FiniteSetTheorems, TLAPS

Unregistered == {"idle", "adding", "locked"}

(* Generations are drawn once each, from the counter.                      *)
GenerationsIdentify ==
    /\ \A c \in Conns : generation[c] <= generationCounter
    /\ \A c, d \in Conns :
        (pc[c] # "idle" /\ pc[d] # "idle" /\ generation[c] = generation[d]) => c = d

(* A shard lock is held across steps only by AddConnection.                *)
LockHolder ==
    \A r \in Runners : \A c \in Conns :
        lock[r] = c <=> pc[c] = "locked" /\ runnerOf[c] = r

(* A sender inside its read section keeps the connection open.             *)
SenderExcludesClose ==
    \A s \in Senders : sender[s] # NoConn => closeState[sender[s]] = "open"

(* A connection is unregistered, in the map, being removed by its handler, *)
(* being removed by the checker, or reported, and never two of these.      *)
OneWayOut ==
    /\ \A r \in Runners : connections[r] # NoConn =>
        callbacks[connections[r]] = 0 /\ current # connections[r]
    /\ \A c \in Conns : pc[c] \in Unregistered =>
        callbacks[c] = 0 /\ current # c /\ c \notin timedOut
    /\ \A c \in Conns : pc[c] = "closing" => callbacks[c] = 0 /\ current # c
    /\ current # NoConn => callbacks[current] = 0
    /\ checker = "closing" <=> current # NoConn
    /\ \A c \in Conns : callbacks[c] <= 1

IInv ==
    /\ TypeOK
    /\ GenerationsIdentify
    /\ LockHolder
    /\ EntryHasHandler
    /\ SenderExcludesClose
    /\ OneWayOut

-----------------------------------------------------------------------------
(* Every step of the manager and of the handlers keeps the types.          *)
LEMMA TypeStep == TypeOK /\ [Next]_vars => TypeOK'
<1> SUFFICES ASSUME TypeOK, [Next]_vars PROVE TypeOK'
  OBVIOUS
<1> USE NoConnAssumption DEF TypeOK, HandlerStates
<1>1. ASSUME NEW c \in Conns, TakeGeneration(c) PROVE TypeOK'
  BY <1>1 DEF TakeGeneration, checkerVars, managerVars, observed
<1>2. ASSUME NEW c \in Conns, LockShard(c) PROVE TypeOK'
  BY <1>2 DEF LockShard, checkerVars, managerVars, observed
<1>3. ASSUME NEW c \in Conns, AddConnection(c) PROVE TypeOK'
  BY <1>3 DEF AddConnection, checkerVars, managerVars, observed
<1>4. ASSUME NEW c \in Conns, RemoveConnection(c) PROVE TypeOK'
  BY <1>4 DEF RemoveConnection, DeleteEntry, Matches, checkerVars, managerVars, observed
<1>5. ASSUME NEW c \in Conns, OnDisconnect(c) PROVE TypeOK'
  BY <1>5 DEF OnDisconnect, checkerVars, managerVars
<1>6. ASSUME NEW c \in Conns, StreamEnds(c) PROVE TypeOK'
  BY <1>6 DEF StreamEnds, checkerVars, managerVars, observed
<1>7. ASSUME NEW c \in Conns, HandleInitialized(c) PROVE TypeOK'
  BY <1>7 DEF HandleInitialized, handlerVars, checkerVars, managerVars
<1>8. ASSUME NEW c \in Conns, Close(c) PROVE TypeOK'
  BY <1>8 DEF Close, handlerVars, checkerVars, managerVars, observed
<1>9. ASSUME NEW c \in Conns, CloseChannels(c) PROVE TypeOK'
  BY <1>9 DEF CloseChannels, handlerVars, checkerVars, managerVars, observed
<1>10. ASSUME NEW c \in Conns, RemoveTimedOut(c) PROVE TypeOK'
  BY <1>10 DEF RemoveTimedOut, DeleteEntry, Matches, handlerVars, managerVars, observed
<1>11. CASE CheckerNotifies
  <2>1. callbacks' \in [Conns -> Nat]
    <3>1. CASE current \in Conns
      BY <1>11, <3>1 DEF CheckerNotifies
    <3>2. CASE current = NoConn
      BY <1>11, <3>2 DEF CheckerNotifies
    <3> QED  BY <3>1, <3>2
  <2> QED
    BY <2>1, <1>11 DEF CheckerNotifies, handlerVars, managerVars
<1>12. ASSUME NEW r \in Runners, CollectTimedOut(r) PROVE TypeOK'
  BY <1>12 DEF CollectTimedOut, handlerVars, managerVars, observed
<1>13. ASSUME NEW r \in Runners, CloseShard(r) PROVE TypeOK'
  BY <1>13 DEF CloseShard, handlerVars, checkerVars, observed
<1>14. CASE ResetCount
  BY <1>14 DEF ResetCount, handlerVars, checkerVars, observed
<1>15. ASSUME NEW s \in Senders, SendPut(s) PROVE TypeOK'
  BY <1>15 DEF SendPut, handlerVars, checkerVars, managerVars, observed
<1>16. ASSUME NEW s \in Senders, NEW c \in Conns, SendCheck(s, c) PROVE TypeOK'
  BY <1>16 DEF SendCheck, handlerVars, checkerVars, managerVars, observed
<1>17. CASE UNCHANGED vars
  BY <1>17 DEF vars, handlerVars, checkerVars, managerVars, observed
<1> QED
  BY <1>1, <1>2, <1>3, <1>4, <1>5, <1>6, <1>7, <1>8, <1>9, <1>10, <1>11, <1>12,
     <1>13, <1>14, <1>15, <1>16, <1>17 DEF Next, HandlerStep, CheckerStep

(* The type invariant of the connection manager.                           *)
THEOREM TypeCorrect == Spec => []TypeOK
<1>1. Init => TypeOK
  BY NoConnAssumption DEF Init, TypeOK, HandlerStates
<1> QED
  BY <1>1, TypeStep, PTL DEF Spec

(* The generation check of RemoveConnection recognises the caller's own    *)
(* connection, whatever order generations reached the map in.              *)
LEMMA MatchesIsOwn ==
  ASSUME IInv, NEW c \in Conns, pc[c] # "idle"
  PROVE  Matches(c) <=> connections[runnerOf[c]] = c
<1>1. connections[runnerOf[c]] \in Conns \cup {NoConn}
  BY DEF IInv, TypeOK
<1>2. CASE connections[runnerOf[c]] = NoConn
  BY <1>2, NoConnAssumption DEF Matches
<1>3. CASE connections[runnerOf[c]] \in Conns
  <2> DEFINE d == connections[runnerOf[c]]
  <2>1. runnerOf[c] \in Runners /\ d # NoConn
    BY <1>3, NoConnAssumption DEF IInv, TypeOK
  <2>2. pc[d] # "idle"
    BY <2>1 DEF IInv, EntryHasHandler
  <2>3. generation[d] = generation[c] <=> d = c
    BY <1>3, <2>2 DEF IInv, GenerationsIdentify
  <2> QED  BY <2>1, <2>3 DEF Matches
<1> QED  BY <1>1, <1>2, <1>3

(* Every step keeps the inductive invariant.                               *)
LEMMA InvStep == IInv /\ [Next]_vars => IInv'
<1> SUFFICES ASSUME IInv, [Next]_vars PROVE IInv'
  OBVIOUS
<1>0. TypeOK /\ TypeOK'
  BY TypeStep DEF IInv
<1> USE NoConnAssumption, <1>0
<1>1. ASSUME NEW c \in Conns, TakeGeneration(c) PROVE IInv'
  <2>1. GenerationsIdentify'
    BY <1>1 DEF IInv, GenerationsIdentify, TypeOK, TakeGeneration,
       handlerVars, checkerVars, managerVars, observed
  <2>2. LockHolder'
    BY <1>1 DEF IInv, LockHolder, TypeOK, TakeGeneration,
       handlerVars, checkerVars, managerVars, observed
  <2>3. EntryHasHandler'
    BY <1>1 DEF IInv, EntryHasHandler, TypeOK, TakeGeneration,
       handlerVars, checkerVars, managerVars, observed
  <2>4. SenderExcludesClose'
    BY <1>1 DEF IInv, SenderExcludesClose, TypeOK, TakeGeneration,
       handlerVars, checkerVars, managerVars, observed
  <2>5. OneWayOut'
    BY <1>1 DEF IInv, OneWayOut, Unregistered, EntryHasHandler, TypeOK, TakeGeneration,
       handlerVars, checkerVars, managerVars, observed
  <2> QED
    BY <2>1, <2>2, <2>3, <2>4, <2>5 DEF IInv
<1>2. ASSUME NEW c \in Conns, LockShard(c) PROVE IInv'
  <2>1. GenerationsIdentify'
    BY <1>2 DEF IInv, GenerationsIdentify, TypeOK, LockShard,
       handlerVars, checkerVars, managerVars, observed
  <2>2. LockHolder'
    BY <1>2 DEF IInv, LockHolder, TypeOK, LockShard,
       handlerVars, checkerVars, managerVars, observed
  <2>3. EntryHasHandler'
    BY <1>2 DEF IInv, EntryHasHandler, TypeOK, LockShard,
       handlerVars, checkerVars, managerVars, observed
  <2>4. SenderExcludesClose'
    BY <1>2 DEF IInv, SenderExcludesClose, TypeOK, LockShard,
       handlerVars, checkerVars, managerVars, observed
  <2>5. OneWayOut'
    BY <1>2 DEF IInv, OneWayOut, Unregistered, EntryHasHandler, TypeOK, LockShard,
       handlerVars, checkerVars, managerVars, observed
  <2> QED
    BY <2>1, <2>2, <2>3, <2>4, <2>5 DEF IInv
<1>3. ASSUME NEW c \in Conns, AddConnection(c) PROVE IInv'
  <2>1. GenerationsIdentify'
    BY <1>3 DEF IInv, GenerationsIdentify, TypeOK, AddConnection,
       handlerVars, checkerVars, managerVars, observed
  <2>2. LockHolder'
    BY <1>3 DEF IInv, LockHolder, TypeOK, AddConnection,
       handlerVars, checkerVars, managerVars, observed
  <2>3. EntryHasHandler'
    BY <1>3 DEF IInv, EntryHasHandler, TypeOK, AddConnection,
       handlerVars, checkerVars, managerVars, observed
  <2>4. SenderExcludesClose'
    BY <1>3 DEF IInv, SenderExcludesClose, TypeOK, AddConnection,
       handlerVars, checkerVars, managerVars, observed
  <2>5. OneWayOut'
    BY <1>3 DEF IInv, OneWayOut, Unregistered, EntryHasHandler, TypeOK, AddConnection,
       handlerVars, checkerVars, managerVars, observed
  <2> QED
    BY <2>1, <2>2, <2>3, <2>4, <2>5 DEF IInv
<1>4. ASSUME NEW c \in Conns, RemoveConnection(c) PROVE IInv'
  <2>0. pc[c] # "idle" /\ (Matches(c) <=> connections[runnerOf[c]] = c)
    BY <1>4, MatchesIsOwn DEF RemoveConnection, IInv, OneWayOut, Unregistered
  <2>1. GenerationsIdentify'
    BY <2>0, <1>4 DEF IInv, GenerationsIdentify, TypeOK, RemoveConnection, DeleteEntry,
       handlerVars, checkerVars, managerVars, observed
  <2>2. LockHolder'
    BY <2>0, <1>4 DEF IInv, LockHolder, TypeOK, RemoveConnection, DeleteEntry,
       handlerVars, checkerVars, managerVars, observed
  <2>3. EntryHasHandler'
    BY <2>0, <1>4 DEF IInv, EntryHasHandler, TypeOK, RemoveConnection, DeleteEntry,
       handlerVars, checkerVars, managerVars, observed
  <2>4. SenderExcludesClose'
    BY <2>0, <1>4 DEF IInv, SenderExcludesClose, TypeOK, RemoveConnection, DeleteEntry,
       handlerVars, checkerVars, managerVars, observed
  <2>5. OneWayOut'
    BY <2>0, <1>4 DEF IInv, OneWayOut, Unregistered, EntryHasHandler, TypeOK, RemoveConnection, DeleteEntry,
       handlerVars, checkerVars, managerVars, observed
  <2> QED
    BY <2>1, <2>2, <2>3, <2>4, <2>5 DEF IInv
<1>5. ASSUME NEW c \in Conns, OnDisconnect(c) PROVE IInv'
  <2>1. GenerationsIdentify'
    BY <1>5 DEF IInv, GenerationsIdentify, TypeOK, OnDisconnect,
       handlerVars, checkerVars, managerVars, observed
  <2>2. LockHolder'
    BY <1>5 DEF IInv, LockHolder, TypeOK, OnDisconnect,
       handlerVars, checkerVars, managerVars, observed
  <2>3. EntryHasHandler'
    BY <1>5 DEF IInv, EntryHasHandler, TypeOK, OnDisconnect,
       handlerVars, checkerVars, managerVars, observed
  <2>4. SenderExcludesClose'
    BY <1>5 DEF IInv, SenderExcludesClose, TypeOK, OnDisconnect,
       handlerVars, checkerVars, managerVars, observed
  <2>5. OneWayOut'
    BY <1>5 DEF IInv, OneWayOut, Unregistered, EntryHasHandler, TypeOK, OnDisconnect,
       handlerVars, checkerVars, managerVars, observed
  <2> QED
    BY <2>1, <2>2, <2>3, <2>4, <2>5 DEF IInv
<1>6. ASSUME NEW c \in Conns, StreamEnds(c) PROVE IInv'
  <2>1. GenerationsIdentify'
    BY <1>6 DEF IInv, GenerationsIdentify, TypeOK, StreamEnds,
       handlerVars, checkerVars, managerVars, observed
  <2>2. LockHolder'
    BY <1>6 DEF IInv, LockHolder, TypeOK, StreamEnds,
       handlerVars, checkerVars, managerVars, observed
  <2>3. EntryHasHandler'
    BY <1>6 DEF IInv, EntryHasHandler, TypeOK, StreamEnds,
       handlerVars, checkerVars, managerVars, observed
  <2>4. SenderExcludesClose'
    BY <1>6 DEF IInv, SenderExcludesClose, TypeOK, StreamEnds,
       handlerVars, checkerVars, managerVars, observed
  <2>5. OneWayOut'
    BY <1>6 DEF IInv, OneWayOut, Unregistered, EntryHasHandler, TypeOK, StreamEnds,
       handlerVars, checkerVars, managerVars, observed
  <2> QED
    BY <2>1, <2>2, <2>3, <2>4, <2>5 DEF IInv
<1>7. ASSUME NEW c \in Conns, HandleInitialized(c) PROVE IInv'
  <2>1. GenerationsIdentify'
    BY <1>7 DEF IInv, GenerationsIdentify, TypeOK, HandleInitialized,
       handlerVars, checkerVars, managerVars, observed
  <2>2. LockHolder'
    BY <1>7 DEF IInv, LockHolder, TypeOK, HandleInitialized,
       handlerVars, checkerVars, managerVars, observed
  <2>3. EntryHasHandler'
    BY <1>7 DEF IInv, EntryHasHandler, TypeOK, HandleInitialized,
       handlerVars, checkerVars, managerVars, observed
  <2>4. SenderExcludesClose'
    BY <1>7 DEF IInv, SenderExcludesClose, TypeOK, HandleInitialized,
       handlerVars, checkerVars, managerVars, observed
  <2>5. OneWayOut'
    BY <1>7 DEF IInv, OneWayOut, Unregistered, EntryHasHandler, TypeOK, HandleInitialized,
       handlerVars, checkerVars, managerVars, observed
  <2> QED
    BY <2>1, <2>2, <2>3, <2>4, <2>5 DEF IInv
<1>8. ASSUME NEW c \in Conns, Close(c) PROVE IInv'
  <2>1. GenerationsIdentify'
    BY <1>8 DEF IInv, GenerationsIdentify, TypeOK, Close,
       handlerVars, checkerVars, managerVars, observed
  <2>2. LockHolder'
    BY <1>8 DEF IInv, LockHolder, TypeOK, Close,
       handlerVars, checkerVars, managerVars, observed
  <2>3. EntryHasHandler'
    BY <1>8 DEF IInv, EntryHasHandler, TypeOK, Close,
       handlerVars, checkerVars, managerVars, observed
  <2>4. SenderExcludesClose'
    BY <1>8 DEF IInv, SenderExcludesClose, TypeOK, Close,
       handlerVars, checkerVars, managerVars, observed
  <2>5. OneWayOut'
    BY <1>8 DEF IInv, OneWayOut, Unregistered, EntryHasHandler, TypeOK, Close,
       handlerVars, checkerVars, managerVars, observed
  <2> QED
    BY <2>1, <2>2, <2>3, <2>4, <2>5 DEF IInv
<1>9. ASSUME NEW c \in Conns, CloseChannels(c) PROVE IInv'
  <2>1. GenerationsIdentify'
    BY <1>9 DEF IInv, GenerationsIdentify, TypeOK, CloseChannels,
       handlerVars, checkerVars, managerVars, observed
  <2>2. LockHolder'
    BY <1>9 DEF IInv, LockHolder, TypeOK, CloseChannels,
       handlerVars, checkerVars, managerVars, observed
  <2>3. EntryHasHandler'
    BY <1>9 DEF IInv, EntryHasHandler, TypeOK, CloseChannels,
       handlerVars, checkerVars, managerVars, observed
  <2>4. SenderExcludesClose'
    BY <1>9 DEF IInv, SenderExcludesClose, TypeOK, CloseChannels,
       handlerVars, checkerVars, managerVars, observed
  <2>5. OneWayOut'
    BY <1>9 DEF IInv, OneWayOut, Unregistered, EntryHasHandler, TypeOK, CloseChannels,
       handlerVars, checkerVars, managerVars, observed
  <2> QED
    BY <2>1, <2>2, <2>3, <2>4, <2>5 DEF IInv
<1>10. ASSUME NEW c \in Conns, RemoveTimedOut(c) PROVE IInv'
  <2>0. pc[c] # "idle" /\ (Matches(c) <=> connections[runnerOf[c]] = c)
    BY <1>10, MatchesIsOwn DEF RemoveTimedOut, IInv, OneWayOut, Unregistered
  <2>1. GenerationsIdentify'
    BY <2>0, <1>10 DEF IInv, GenerationsIdentify, TypeOK, RemoveTimedOut, DeleteEntry,
       handlerVars, checkerVars, managerVars, observed
  <2>2. LockHolder'
    BY <2>0, <1>10 DEF IInv, LockHolder, TypeOK, RemoveTimedOut, DeleteEntry,
       handlerVars, checkerVars, managerVars, observed
  <2>3. EntryHasHandler'
    BY <2>0, <1>10 DEF IInv, EntryHasHandler, TypeOK, RemoveTimedOut, DeleteEntry,
       handlerVars, checkerVars, managerVars, observed
  <2>4. SenderExcludesClose'
    BY <2>0, <1>10 DEF IInv, SenderExcludesClose, TypeOK, RemoveTimedOut, DeleteEntry,
       handlerVars, checkerVars, managerVars, observed
  <2>5. OneWayOut'
    BY <2>0, <1>10 DEF IInv, OneWayOut, Unregistered, EntryHasHandler, TypeOK, RemoveTimedOut, DeleteEntry,
       handlerVars, checkerVars, managerVars, observed
  <2> QED
    BY <2>1, <2>2, <2>3, <2>4, <2>5 DEF IInv
<1>11. CASE CheckerNotifies
  <2>1. GenerationsIdentify'
    BY <1>11 DEF IInv, GenerationsIdentify, TypeOK, CheckerNotifies,
       handlerVars, checkerVars, managerVars, observed
  <2>2. LockHolder'
    BY <1>11 DEF IInv, LockHolder, TypeOK, CheckerNotifies,
       handlerVars, checkerVars, managerVars, observed
  <2>3. EntryHasHandler'
    BY <1>11 DEF IInv, EntryHasHandler, TypeOK, CheckerNotifies,
       handlerVars, checkerVars, managerVars, observed
  <2>4. SenderExcludesClose'
    BY <1>11 DEF IInv, SenderExcludesClose, TypeOK, CheckerNotifies,
       handlerVars, checkerVars, managerVars, observed
  <2>5. OneWayOut'
    BY <1>11 DEF IInv, OneWayOut, Unregistered, EntryHasHandler, TypeOK, CheckerNotifies,
       handlerVars, checkerVars, managerVars, observed
  <2> QED
    BY <2>1, <2>2, <2>3, <2>4, <2>5 DEF IInv
<1>12. ASSUME NEW r \in Runners, CollectTimedOut(r) PROVE IInv'
  <2>1. GenerationsIdentify'
    BY <1>12 DEF IInv, GenerationsIdentify, TypeOK, CollectTimedOut,
       handlerVars, checkerVars, managerVars, observed
  <2>2. LockHolder'
    BY <1>12 DEF IInv, LockHolder, TypeOK, CollectTimedOut,
       handlerVars, checkerVars, managerVars, observed
  <2>3. EntryHasHandler'
    BY <1>12 DEF IInv, EntryHasHandler, TypeOK, CollectTimedOut,
       handlerVars, checkerVars, managerVars, observed
  <2>4. SenderExcludesClose'
    BY <1>12 DEF IInv, SenderExcludesClose, TypeOK, CollectTimedOut,
       handlerVars, checkerVars, managerVars, observed
  <2>5. OneWayOut'
    BY <1>12 DEF IInv, OneWayOut, Unregistered, EntryHasHandler, TypeOK, CollectTimedOut,
       handlerVars, checkerVars, managerVars, observed
  <2> QED
    BY <2>1, <2>2, <2>3, <2>4, <2>5 DEF IInv
<1>13. ASSUME NEW r \in Runners, CloseShard(r) PROVE IInv'
  <2>1. GenerationsIdentify'
    BY <1>13 DEF IInv, GenerationsIdentify, TypeOK, CloseShard,
       handlerVars, checkerVars, managerVars, observed
  <2>2. LockHolder'
    BY <1>13 DEF IInv, LockHolder, TypeOK, CloseShard,
       handlerVars, checkerVars, managerVars, observed
  <2>3. EntryHasHandler'
    BY <1>13 DEF IInv, EntryHasHandler, TypeOK, CloseShard,
       handlerVars, checkerVars, managerVars, observed
  <2>4. SenderExcludesClose'
    BY <1>13 DEF IInv, SenderExcludesClose, TypeOK, CloseShard,
       handlerVars, checkerVars, managerVars, observed
  <2>5. OneWayOut'
    BY <1>13 DEF IInv, OneWayOut, Unregistered, EntryHasHandler, TypeOK, CloseShard,
       handlerVars, checkerVars, managerVars, observed
  <2> QED
    BY <2>1, <2>2, <2>3, <2>4, <2>5 DEF IInv
<1>14. CASE ResetCount
  <2>1. GenerationsIdentify'
    BY <1>14 DEF IInv, GenerationsIdentify, TypeOK, ResetCount,
       handlerVars, checkerVars, managerVars, observed
  <2>2. LockHolder'
    BY <1>14 DEF IInv, LockHolder, TypeOK, ResetCount,
       handlerVars, checkerVars, managerVars, observed
  <2>3. EntryHasHandler'
    BY <1>14 DEF IInv, EntryHasHandler, TypeOK, ResetCount,
       handlerVars, checkerVars, managerVars, observed
  <2>4. SenderExcludesClose'
    BY <1>14 DEF IInv, SenderExcludesClose, TypeOK, ResetCount,
       handlerVars, checkerVars, managerVars, observed
  <2>5. OneWayOut'
    BY <1>14 DEF IInv, OneWayOut, Unregistered, EntryHasHandler, TypeOK, ResetCount,
       handlerVars, checkerVars, managerVars, observed
  <2> QED
    BY <2>1, <2>2, <2>3, <2>4, <2>5 DEF IInv
<1>15. ASSUME NEW s \in Senders, SendPut(s) PROVE IInv'
  <2>1. GenerationsIdentify'
    BY <1>15 DEF IInv, GenerationsIdentify, TypeOK, SendPut,
       handlerVars, checkerVars, managerVars, observed
  <2>2. LockHolder'
    BY <1>15 DEF IInv, LockHolder, TypeOK, SendPut,
       handlerVars, checkerVars, managerVars, observed
  <2>3. EntryHasHandler'
    BY <1>15 DEF IInv, EntryHasHandler, TypeOK, SendPut,
       handlerVars, checkerVars, managerVars, observed
  <2>4. SenderExcludesClose'
    BY <1>15 DEF IInv, SenderExcludesClose, TypeOK, SendPut,
       handlerVars, checkerVars, managerVars, observed
  <2>5. OneWayOut'
    BY <1>15 DEF IInv, OneWayOut, Unregistered, EntryHasHandler, TypeOK, SendPut,
       handlerVars, checkerVars, managerVars, observed
  <2> QED
    BY <2>1, <2>2, <2>3, <2>4, <2>5 DEF IInv
<1>16. ASSUME NEW s \in Senders, NEW c \in Conns, SendCheck(s, c) PROVE IInv'
  <2>1. GenerationsIdentify'
    BY <1>16 DEF IInv, GenerationsIdentify, TypeOK, SendCheck,
       handlerVars, checkerVars, managerVars, observed
  <2>2. LockHolder'
    BY <1>16 DEF IInv, LockHolder, TypeOK, SendCheck,
       handlerVars, checkerVars, managerVars, observed
  <2>3. EntryHasHandler'
    BY <1>16 DEF IInv, EntryHasHandler, TypeOK, SendCheck,
       handlerVars, checkerVars, managerVars, observed
  <2>4. SenderExcludesClose'
    BY <1>16 DEF IInv, SenderExcludesClose, TypeOK, SendCheck,
       handlerVars, checkerVars, managerVars, observed
  <2>5. OneWayOut'
    BY <1>16 DEF IInv, OneWayOut, Unregistered, EntryHasHandler, TypeOK, SendCheck,
       handlerVars, checkerVars, managerVars, observed
  <2> QED
    BY <2>1, <2>2, <2>3, <2>4, <2>5 DEF IInv
<1>17. CASE UNCHANGED vars
  BY <1>17 DEF vars, handlerVars, checkerVars, managerVars, observed, IInv, TypeOK,
     GenerationsIdentify, LockHolder, EntryHasHandler, SenderExcludesClose, OneWayOut
<1> QED
  BY <1>1, <1>2, <1>3, <1>4, <1>5, <1>6, <1>7, <1>8, <1>9, <1>10, <1>11, <1>12, <1>13, <1>14, <1>15, <1>16, <1>17
     DEF Next, HandlerStep, CheckerStep

(* The inductive invariant holds throughout.                               *)
THEOREM Invariance == Spec => []IInv
<1>1. Init => IInv
  BY NoConnAssumption DEF Init, IInv, TypeOK, HandlerStates, GenerationsIdentify,
     LockHolder, EntryHasHandler, SenderExcludesClose, OneWayOut, Unregistered
<1> QED
  BY <1>1, InvStep, PTL DEF Spec

-----------------------------------------------------------------------------
(* What deleting the caller's own entry does to the number of entries.     *)
LEMMA DeleteCounts ==
  ASSUME IInv, CountMatchesMap, NEW c \in Conns, pc[c] # "idle", DeleteEntry(c),
         manager = "open"
  PROVE  connCount' = Cardinality(Registered')
<1> USE NoConnAssumption
<1>1. IsFiniteSet(Registered)
  BY RunnersAssumption, FS_Subset DEF Registered
<1>2. runnerOf[c] \in Runners
  BY DEF IInv, TypeOK
<1>3. CASE Matches(c)
  <2>1. runnerOf[c] \in Registered
    BY <1>2, <1>3 DEF Matches, Registered
  <2>2. Registered' = Registered \ {runnerOf[c]}
    BY <1>2, <1>3 DEF DeleteEntry, Registered, IInv, TypeOK
  <2>3. connCount' = connCount - 1
    BY <1>3 DEF DeleteEntry
  <2> QED
    BY <1>1, <2>1, <2>2, <2>3, FS_RemoveElement DEF CountMatchesMap
<1>4. CASE ~Matches(c)
  BY <1>4 DEF DeleteEntry, Registered, CountMatchesMap
<1> QED  BY <1>3, <1>4

(* Every step keeps the count.                                              *)
LEMMA CountStep == IInv /\ CountMatchesMap /\ [Next]_vars => CountMatchesMap'
<1> SUFFICES ASSUME IInv, CountMatchesMap, [Next]_vars, manager' = "open"
             PROVE  connCount' = Cardinality(Registered')
  BY DEF CountMatchesMap
<1> USE NoConnAssumption
<1>0. IsFiniteSet(Registered)
  BY RunnersAssumption, FS_Subset DEF Registered
<1>1. ASSUME NEW c \in Conns, AddConnection(c) PROVE connCount' = Cardinality(Registered')
  <2>1. runnerOf[c] \in Runners /\ manager = "open"
    BY <1>1 DEF AddConnection, managerVars, IInv, TypeOK
  <2>2. Registered' = Registered \cup {runnerOf[c]}
    BY <1>1, <2>1 DEF AddConnection, Registered, IInv, TypeOK
  <2>3. connCount' = connCount + (IF runnerOf[c] \in Registered THEN 0 ELSE 1)
    BY <1>1, <2>1 DEF AddConnection, Registered
  <2>4. connCount \in Int
    BY DEF IInv, TypeOK
  <2>5. /\ Cardinality(Registered \cup {runnerOf[c]}) =
           IF runnerOf[c] \in Registered THEN Cardinality(Registered)
                                         ELSE Cardinality(Registered) + 1
        /\ Cardinality(Registered) \in Nat
    BY <1>0, FS_AddElement, FS_CardinalityType
  <2> QED
    BY <2>1, <2>2, <2>3, <2>4, <2>5 DEF CountMatchesMap
<1>2. ASSUME NEW c \in Conns, RemoveConnection(c) PROVE connCount' = Cardinality(Registered')
  <2>1. manager = "open" /\ pc[c] # "idle" /\ DeleteEntry(c)
    BY <1>2 DEF RemoveConnection, managerVars
  <2> QED  BY <2>1, DeleteCounts
<1>3. ASSUME NEW c \in Conns, RemoveTimedOut(c) PROVE connCount' = Cardinality(Registered')
  <2>1. manager = "open" /\ pc[c] # "idle" /\ DeleteEntry(c)
    BY <1>3 DEF RemoveTimedOut, managerVars, IInv, OneWayOut, Unregistered
  <2> QED  BY <2>1, DeleteCounts
<1>4. ASSUME NEW r \in Runners, CloseShard(r) PROVE FALSE
  BY <1>4 DEF CloseShard
<1>5. CASE ResetCount
  BY <1>5 DEF ResetCount
<1>6. CASE UNCHANGED <<connections, connCount, manager>>
  BY <1>6 DEF Registered, CountMatchesMap
<1>7. ASSUME NEW c \in Conns,
             \/ TakeGeneration(c) \/ LockShard(c) \/ OnDisconnect(c) \/ StreamEnds(c)
             \/ HandleInitialized(c) \/ Close(c) \/ CloseChannels(c)
      PROVE  UNCHANGED <<connections, connCount, manager>>
  BY <1>7 DEF TakeGeneration, LockShard, OnDisconnect, StreamEnds, HandleInitialized,
     Close, CloseChannels, managerVars
<1>8. ASSUME NEW r \in Runners, CollectTimedOut(r)
      PROVE  UNCHANGED <<connections, connCount, manager>>
  BY <1>8 DEF CollectTimedOut, managerVars
<1>9. ASSUME NEW s \in Senders, SendPut(s) \/ \E c \in Conns : SendCheck(s, c)
      PROVE  UNCHANGED <<connections, connCount, manager>>
  BY <1>9 DEF SendPut, SendCheck, managerVars
<1>10. (CheckerNotifies \/ UNCHANGED vars) => UNCHANGED <<connections, connCount, manager>>
  BY DEF CheckerNotifies, vars, managerVars
<1> QED
  BY <1>1, <1>2, <1>3, <1>4, <1>5, <1>6, <1>7, <1>8, <1>9, <1>10
     DEF Next, HandlerStep, CheckerStep

(* ConnectionCount is exact while the manager is open: for every number of *)
(* runners, streams and senders, under every interleaving of AddConnection,*)
(* RemoveConnection and the timeout checker.                               *)
THEOREM CountIsExact == Spec => []CountMatchesMap
<1>1. Init => CountMatchesMap
  <2> SUFFICES ASSUME Init PROVE CountMatchesMap
    OBVIOUS
  <2>1. Registered = {}
    BY DEF Init, Registered
  <2> QED  BY <2>1, FS_EmptySet DEF Init, CountMatchesMap
<1> QED
  BY <1>1, CountStep, Invariance, PTL DEF Spec

(* No SendMessage ever writes to a closed Send channel, for every number   *)
(* of senders and whoever calls Close.                                     *)
THEOREM SendIsSafe == Spec => []NoSendOnClosedChannel
<1>1. IInv => NoSendOnClosedChannel
  BY DEF IInv, SenderExcludesClose, NoSendOnClosedChannel
<1> QED
  BY <1>1, Invariance, PTL

(* Every map entry still has a Connect handler that will remove it.        *)
THEOREM NoEntryLeaks == Spec => []EntryHasHandler
<1>1. IInv => EntryHasHandler
  BY DEF IInv
<1> QED
  BY <1>1, Invariance, PTL

(* The disconnect callback runs at most once per connection.               *)
THEOREM OneCallback == Spec => []NotifiedAtMostOnce
<1>1. IInv => NotifiedAtMostOnce
  BY DEF IInv, OneWayOut, NotifiedAtMostOnce
<1> QED
  BY <1>1, Invariance, PTL

(* A deferred RemoveConnection of an old stream never takes a newer        *)
(* connection out of the map.                                              *)
THEOREM GenerationCheckWorks == Spec => StaleRemoveIsHarmless
<1> DEFINE Harmless ==
      \A r \in Runners :
        LET c == connections[r]
        IN  (c # NoConn /\ connections'[r] = NoConn /\ pc[c] = "serving"
                /\ manager' = "open")
            => checker' = "closing" /\ current' = c
<1>1. IInv /\ [Next]_vars => [Harmless]_vars
  <2> SUFFICES ASSUME IInv, Next, NEW r \in Runners, connections[r] # NoConn,
                      connections'[r] = NoConn, pc[connections[r]] = "serving",
                      manager' = "open"
               PROVE  checker' = "closing" /\ current' = connections[r]
    BY DEF vars
  <2> USE NoConnAssumption
  <2>1. connections' # connections
    OBVIOUS
  <2>2. connections \in [Runners -> Conns \cup {NoConn}] /\ runnerOf \in [Conns -> Runners]
    BY DEF IInv, TypeOK
  <2>3. ASSUME NEW c \in Conns, AddConnection(c) PROVE FALSE
    BY <2>2, <2>3 DEF AddConnection
  <2>4. ASSUME NEW c \in Conns, RemoveConnection(c) PROVE FALSE
    BY <2>2, <2>4, MatchesIsOwn DEF RemoveConnection, DeleteEntry
  <2>5. ASSUME NEW c \in Conns, RemoveTimedOut(c)
        PROVE  checker' = "closing" /\ current' = connections[r]
    <3>1. pc[c] # "idle"
      BY <2>5 DEF RemoveTimedOut, IInv, OneWayOut, Unregistered
    <3> QED
      BY <2>2, <2>5, <3>1, MatchesIsOwn DEF RemoveTimedOut, DeleteEntry
  <2>6. ASSUME NEW q \in Runners, CloseShard(q) PROVE FALSE
    BY <2>6 DEF CloseShard
  <2> QED
    BY <2>1, <2>3, <2>4, <2>5, <2>6
       DEF Next, HandlerStep, CheckerStep, TakeGeneration, LockShard, OnDisconnect,
           StreamEnds, HandleInitialized, Close, CloseChannels, CheckerNotifies,
           CollectTimedOut, ResetCount, SendPut, SendCheck
<1> QED
  BY <1>1, Invariance, PTL DEF Spec, StaleRemoveIsHarmless

-----------------------------------------------------------------------------
(* The departure of runner r is told, or a goroutine is about to tell it.  *)
Told(r) ==
    \E d \in Conns : /\ runnerOf[d] = r
                     /\ pc[d] = "closing" \/ callbacks[d] = 1 \/ current = d

(* A runner that has ever been registered is registered still, or told.    *)
RegisteredOrTold ==
    manager = "open" =>
      \A c \in Conns : pc[c] \notin Unregistered =>
        connections[runnerOf[c]] # NoConn \/ Told(runnerOf[c])

(* Nothing that tells of a runner is undone.                               *)
LEMMA ToldStays ==
  ASSUME IInv, [Next]_vars, NEW r \in Runners, Told(r)
  PROVE  Told(r)'
<1> USE NoConnAssumption DEF TypeOK, checkerVars, managerVars, observed, handlerVars
<1>t. TypeOK
  BY DEF IInv
<1>1. PICK d \in Conns : /\ runnerOf[d] = r
                         /\ pc[d] = "closing" \/ callbacks[d] = 1 \/ current = d
  BY DEF Told
<1> SUFFICES /\ runnerOf'[d] = r
             /\ pc'[d] = "closing" \/ callbacks'[d] = 1 \/ current' = d
  BY DEF Told
<1>2. ASSUME NEW c \in Conns, TakeGeneration(c) \/ LockShard(c) \/ AddConnection(c)
                              \/ StreamEnds(c)
      PROVE  /\ runnerOf'[d] = r
             /\ pc'[d] = "closing" \/ callbacks'[d] = 1 \/ current' = d
  BY <1>t, <1>1, <1>2 DEF TakeGeneration, LockShard, AddConnection, StreamEnds
<1>3. ASSUME NEW c \in Conns, RemoveConnection(c)
      PROVE  /\ runnerOf'[d] = r
             /\ pc'[d] = "closing" \/ callbacks'[d] = 1 \/ current' = d
  BY <1>t, <1>1, <1>3 DEF RemoveConnection
<1>4. ASSUME NEW c \in Conns, OnDisconnect(c)
      PROVE  /\ runnerOf'[d] = r
             /\ pc'[d] = "closing" \/ callbacks'[d] = 1 \/ current' = d
  <2>1. callbacks[c] = 0
    BY <1>4 DEF OnDisconnect, IInv, OneWayOut
  <2> QED  BY <1>t, <1>1, <1>4, <2>1 DEF OnDisconnect
<1>5. ASSUME NEW c \in Conns, RemoveTimedOut(c)
      PROVE  /\ runnerOf'[d] = r
             /\ pc'[d] = "closing" \/ callbacks'[d] = 1 \/ current' = d
  <2>1. current = NoConn
    BY <1>5 DEF RemoveTimedOut, IInv, OneWayOut
  <2> QED  BY <1>t, <1>1, <1>5, <2>1 DEF RemoveTimedOut
<1>6. CASE CheckerNotifies
  <2>1. current \in Conns /\ callbacks[current] = 0
    BY <1>t, <1>6 DEF CheckerNotifies, IInv, OneWayOut
  <2> QED  BY <1>t, <1>1, <1>6, <2>1 DEF CheckerNotifies
<1>7. CASE UNCHANGED <<pc, callbacks, current, runnerOf>>
  BY <1>1, <1>7
<1>8. ASSUME NEW c \in Conns, HandleInitialized(c) \/ Close(c) \/ CloseChannels(c)
      PROVE  UNCHANGED <<pc, callbacks, current, runnerOf>>
  BY <1>8 DEF HandleInitialized, Close, CloseChannels
<1>9. ASSUME NEW q \in Runners, CollectTimedOut(q) \/ CloseShard(q)
      PROVE  UNCHANGED <<pc, callbacks, current, runnerOf>>
  BY <1>9 DEF CollectTimedOut, CloseShard
<1>10. ASSUME ResetCount \/ UNCHANGED vars
       PROVE  UNCHANGED <<pc, callbacks, current, runnerOf>>
  BY <1>10 DEF ResetCount, vars
<1>11. ASSUME NEW s \in Senders, SendPut(s) \/ \E c \in Conns : SendCheck(s, c)
       PROVE  UNCHANGED <<pc, callbacks, current, runnerOf>>
  BY <1>11 DEF SendPut, SendCheck
<1> QED
  BY <1>2, <1>3, <1>4, <1>5, <1>6, <1>7, <1>8, <1>9, <1>10, <1>11
  DEF Next, HandlerStep, CheckerStep

(* An entry that goes while the manager is open leaves somebody to tell.   *)
LEMMA EntryLeavesTold ==
  ASSUME IInv, [Next]_vars, manager' = "open", NEW r \in Runners,
         connections[r] # NoConn
  PROVE  connections'[r] # NoConn \/ Told(r)'
<1> USE NoConnAssumption DEF TypeOK, checkerVars, managerVars, observed, handlerVars
<1>t. TypeOK
  BY DEF IInv
<1>1. ASSUME NEW c \in Conns, RemoveConnection(c)
      PROVE  connections'[r] # NoConn \/ Told(r)'
  <2>1. Matches(c) <=> connections[runnerOf[c]] = c
    BY <1>1, MatchesIsOwn DEF RemoveConnection
  <2>2. CASE Matches(c) /\ runnerOf[c] = r
    <3>1. pc'[c] = "closing" /\ runnerOf'[c] = r
      BY <1>t, <1>1, <2>2 DEF RemoveConnection
    <3> QED  BY <3>1 DEF Told
  <2>3. CASE ~(Matches(c) /\ runnerOf[c] = r)
    BY <1>t, <1>1, <2>3 DEF RemoveConnection, DeleteEntry
  <2> QED  BY <2>2, <2>3
<1>2. ASSUME NEW c \in Conns, RemoveTimedOut(c)
      PROVE  connections'[r] # NoConn \/ Told(r)'
  <2>2. CASE Matches(c) /\ runnerOf[c] = r
    <3>1. current' = c /\ runnerOf'[c] = r
      BY <1>t, <1>2, <2>2 DEF RemoveTimedOut
    <3> QED  BY <3>1 DEF Told
  <2>3. CASE ~(Matches(c) /\ runnerOf[c] = r)
    BY <1>t, <1>2, <2>3 DEF RemoveTimedOut, DeleteEntry
  <2> QED  BY <2>2, <2>3
<1>3. ASSUME NEW c \in Conns, AddConnection(c)
      PROVE  connections'[r] # NoConn
  BY <1>t, <1>3 DEF AddConnection
<1>4. ASSUME NEW c \in Conns, TakeGeneration(c) \/ LockShard(c) \/ StreamEnds(c)
                              \/ OnDisconnect(c)
      PROVE  connections'[r] # NoConn
  BY <1>4 DEF TakeGeneration, LockShard, StreamEnds, OnDisconnect
<1>5. ASSUME NEW c \in Conns, HandleInitialized(c) \/ Close(c) \/ CloseChannels(c)
      PROVE  connections'[r] # NoConn
  BY <1>5 DEF HandleInitialized, Close, CloseChannels
<1>6. ASSUME NEW q \in Runners, CollectTimedOut(q) \/ CloseShard(q)
      PROVE  connections'[r] # NoConn
  BY <1>6 DEF CollectTimedOut, CloseShard
<1>7. ASSUME CheckerNotifies \/ ResetCount \/ UNCHANGED vars
      PROVE  connections'[r] # NoConn
  BY <1>7 DEF CheckerNotifies, ResetCount, vars
<1>8. ASSUME NEW s \in Senders, SendPut(s) \/ \E c \in Conns : SendCheck(s, c)
      PROVE  connections'[r] # NoConn
  BY <1>8 DEF SendPut, SendCheck
<1> QED
  BY <1>1, <1>2, <1>3, <1>4, <1>5, <1>6, <1>7, <1>8 DEF Next, HandlerStep, CheckerStep

(* Only AddConnection makes a connection a registered one.                 *)
LEMMA OnlyAddRegisters ==
  ASSUME TypeOK, [Next]_vars, NEW c \in Conns,
         pc[c] \in Unregistered, pc'[c] \notin Unregistered
  PROVE  AddConnection(c)
<1> USE DEF TypeOK, checkerVars, managerVars, observed, handlerVars, Unregistered
<1>1. ASSUME NEW d \in Conns, TakeGeneration(d) \/ LockShard(d) \/ StreamEnds(d)
                              \/ OnDisconnect(d) \/ RemoveConnection(d)
      PROVE  FALSE
  BY <1>1 DEF TakeGeneration, LockShard, StreamEnds, OnDisconnect, RemoveConnection
<1>2. ASSUME NEW d \in Conns, AddConnection(d)
      PROVE  d = c
  BY <1>2 DEF AddConnection
<1>3. ASSUME NEW d \in Conns, HandleInitialized(d) \/ Close(d) \/ CloseChannels(d)
                              \/ RemoveTimedOut(d)
      PROVE  FALSE
  BY <1>3 DEF HandleInitialized, Close, CloseChannels, RemoveTimedOut
<1>4. ASSUME NEW q \in Runners, CollectTimedOut(q) \/ CloseShard(q)
      PROVE  FALSE
  BY <1>4 DEF CollectTimedOut, CloseShard
<1>5. ASSUME CheckerNotifies \/ ResetCount \/ UNCHANGED vars
      PROVE  FALSE
  BY <1>5 DEF CheckerNotifies, ResetCount, vars
<1>6. ASSUME NEW s \in Senders, SendPut(s) \/ \E d \in Conns : SendCheck(s, d)
      PROVE  FALSE
  BY <1>6 DEF SendPut, SendCheck
<1> QED
  BY <1>1, <1>2, <1>3, <1>4, <1>5, <1>6 DEF Next, HandlerStep, CheckerStep

(* A manager that is open has been open.                                   *)
LEMMA OpenWasOpen ==
  ASSUME [Next]_vars, manager' = "open"
  PROVE  manager = "open" /\ runnerOf' = runnerOf
<1> USE DEF checkerVars, managerVars, observed, handlerVars
<1>1. ASSUME NEW d \in Conns, \/ TakeGeneration(d) \/ HandlerStep(d) \/ StreamEnds(d)
                              \/ RemoveTimedOut(d)
      PROVE  manager = "open" /\ runnerOf' = runnerOf
  BY <1>1 DEF TakeGeneration, HandlerStep, LockShard, AddConnection, RemoveConnection,
              OnDisconnect, StreamEnds, RemoveTimedOut
<1>2. ASSUME NEW d \in Conns, HandleInitialized(d) \/ Close(d) \/ CloseChannels(d)
      PROVE  manager = "open" /\ runnerOf' = runnerOf
  BY <1>2 DEF HandleInitialized, Close, CloseChannels
<1>3. ASSUME NEW q \in Runners, CollectTimedOut(q) \/ CloseShard(q)
      PROVE  manager = "open" /\ runnerOf' = runnerOf
  BY <1>3 DEF CollectTimedOut, CloseShard
<1>4. ASSUME CheckerNotifies \/ ResetCount \/ UNCHANGED vars
      PROVE  manager = "open" /\ runnerOf' = runnerOf
  BY <1>4 DEF CheckerNotifies, ResetCount, vars
<1>5. ASSUME NEW s \in Senders, SendPut(s) \/ \E d \in Conns : SendCheck(s, d)
      PROVE  manager = "open" /\ runnerOf' = runnerOf
  BY <1>5 DEF SendPut, SendCheck
<1> QED  BY <1>1, <1>2, <1>3, <1>4, <1>5 DEF Next, CheckerStep

(* When every handler of a runner is gone its departure has been told, for *)
(* any number of runners, streams and senders.                             *)
THEOREM DeparturesAreReported == Spec => []LeavingIsReported
<1>1. Init => RegisteredOrTold
  BY DEF Init, RegisteredOrTold, Unregistered
<1>2. IInv /\ RegisteredOrTold /\ [Next]_vars => RegisteredOrTold'
  <2> SUFFICES ASSUME IInv, RegisteredOrTold, [Next]_vars, manager' = "open",
                      NEW c \in Conns, pc'[c] \notin Unregistered
               PROVE  connections'[runnerOf'[c]] # NoConn \/ Told(runnerOf[c])'
    BY OpenWasOpen DEF RegisteredOrTold, Told
  <2>1. manager = "open" /\ runnerOf' = runnerOf /\ runnerOf[c] \in Runners
    BY OpenWasOpen DEF IInv, TypeOK
  <2>2. CASE pc[c] \in Unregistered
    <3>1. AddConnection(c)
      BY <2>2, OnlyAddRegisters DEF IInv
    <3> QED  BY <2>1, <3>1, NoConnAssumption DEF AddConnection, IInv, TypeOK
  <2>3. CASE pc[c] \notin Unregistered
    <3>1. connections[runnerOf[c]] # NoConn \/ Told(runnerOf[c])
      BY <2>1, <2>3 DEF RegisteredOrTold
    <3> QED  BY <2>1, <3>1, ToldStays, EntryLeavesTold
  <2> QED  BY <2>2, <2>3
<1>3. IInv /\ RegisteredOrTold => LeavingIsReported
  <2> SUFFICES ASSUME IInv, RegisteredOrTold, NEW r \in Runners, manager = "open",
                      checker \in {"scan", "remove"},
                      NEW c \in Conns, runnerOf[c] = r, pc[c] # "idle",
                      \A d \in Conns : runnerOf[d] = r /\ pc[d] # "idle" => pc[d] = "done"
               PROVE  \E d \in Conns : /\ runnerOf[d] = r /\ pc[d] # "idle"
                                       /\ callbacks[d] = 1
    BY DEF LeavingIsReported
  <2>1. pc[c] \notin Unregistered
    BY DEF Unregistered
  <2>2. connections[r] = NoConn
    BY DEF IInv, EntryHasHandler, TypeOK
  <2>3. PICK d \in Conns : /\ runnerOf[d] = r
                           /\ pc[d] = "closing" \/ callbacks[d] = 1 \/ current = d
    BY <2>1, <2>2 DEF RegisteredOrTold, Told
  <2>4. current = NoConn
    BY DEF IInv, OneWayOut
  <2>5. callbacks[d] = 1
    BY <2>3, <2>4, NoConnAssumption
  <2>6. pc[d] # "idle"
    BY <2>5 DEF IInv, OneWayOut, Unregistered
  <2> QED  BY <2>3, <2>5, <2>6
<1> QED
  BY <1>1, <1>2, <1>3, Invariance, PTL DEF Spec

-----------------------------------------------------------------------------
(* What the contract reads besides the handlers' places.                   *)
Watched == <<runnerOf, connections, timedOut, current, callbacks, shutdown>>

(* A step that registers, ends, collects, removes and reports no stream is *)
(* invisible to the users of the manager.                                  *)
LEMMA Invisible ==
  ASSUME UNCHANGED Watched,
         \A c \in Conns : /\ pc'[c] \in Unregistered <=> pc[c] \in Unregistered
                          /\ pc'[c] = "serving" <=> pc[c] = "serving"
                          /\ pc'[c] = "closing" <=> pc[c] = "closing",
         TypeOK, TypeOK'
  PROVE  UNCHANGED Contract!vars
<1>1. Fresh' = Fresh
  BY DEF Fresh, Unregistered
<1>2. Pending' = Pending
  BY DEF Pending, Watched
<1>3. Ended' = Ended
  BY DEF Ended, Unregistered, TypeOK, HandlerStates
<1> QED  BY <1>1, <1>2, <1>3 DEF Contract!vars, Watched

(* The locked part of RemoveConnection, by whoever calls it, takes the      *)
(* caller's own stream out of the map or changes nothing there.             *)
LEMMA DeleteTakesOwn ==
  ASSUME IInv, NEW c \in Conns, pc[c] # "idle", DeleteEntry(c)
  PROVE  /\ Matches(c) => /\ connections[runnerOf[c]] = c
                          /\ connections' = [connections EXCEPT ![runnerOf[c]] = NoConn]
         /\ ~Matches(c) => connections' = connections
BY MatchesIsOwn DEF DeleteEntry

(* Every step of the manager is one step of its contract, or invisible.     *)
LEMMA StepIsAtomic ==
  ASSUME IInv, [Next]_vars
  PROVE  [Contract!Next]_(Contract!vars)
<1> USE NoConnAssumption
<1>0. TypeOK /\ TypeOK'
  BY TypeStep DEF IInv
<1>1. CASE UNCHANGED vars
  BY <1>0, <1>1, Invisible DEF vars, Watched, handlerVars, checkerVars, managerVars, observed
<1>2. ASSUME NEW c \in Conns, TakeGeneration(c) \/ LockShard(c)
      PROVE  UNCHANGED Contract!vars
  <2>1. UNCHANGED Watched
    BY <1>2 DEF TakeGeneration, LockShard, Watched, checkerVars, managerVars, observed
  <2>2. ASSUME NEW d \in Conns
        PROVE  /\ pc'[d] \in Unregistered <=> pc[d] \in Unregistered
               /\ pc'[d] = "serving" <=> pc[d] = "serving"
               /\ pc'[d] = "closing" <=> pc[d] = "closing"
    BY <1>0, <1>2 DEF TypeOK, TakeGeneration, LockShard, Unregistered
  <2> QED  BY <1>0, <2>1, <2>2, Invisible
<1>3. ASSUME NEW c \in Conns, HandleInitialized(c) \/ Close(c) \/ CloseChannels(c)
      PROVE  UNCHANGED Contract!vars
  BY <1>0, <1>3, Invisible DEF HandleInitialized, Close, CloseChannels, Watched, handlerVars,
                               checkerVars, managerVars, observed
<1>4. ASSUME NEW s \in Senders, SendPut(s) \/ \E c \in Conns : SendCheck(s, c)
      PROVE  UNCHANGED Contract!vars
  BY <1>0, <1>4, Invisible DEF SendPut, SendCheck, Watched, handlerVars, checkerVars,
                               managerVars, observed
<1>5. ASSUME ResetCount PROVE UNCHANGED Contract!vars
  BY <1>0, <1>5, Invisible DEF ResetCount, Watched, handlerVars, checkerVars, observed
<1>6. ASSUME NEW c \in Conns, AddConnection(c) PROVE Contract!Register(c)
  <2>1. c \in Fresh /\ Fresh' = Fresh \ {c}
    BY <1>0, <1>6 DEF TypeOK, AddConnection, Fresh
  <2>2. Pending' = Pending /\ Ended' = Ended
    BY <1>0, <1>6 DEF TypeOK, AddConnection, Pending, Ended, checkerVars
  <2> QED
    BY <1>6, <2>1, <2>2
       DEF AddConnection, Contract!Register, checkerVars, managerVars, observed
<1>7. ASSUME NEW c \in Conns, StreamEnds(c) PROVE Contract!End(c)
  <2>1. c \notin Fresh \cup Ended /\ Ended' = Ended \cup {c}
    BY <1>0, <1>7 DEF TypeOK, StreamEnds, Fresh, Ended
  <2>2. Pending' = Pending /\ Fresh' = Fresh
    BY <1>0, <1>7 DEF TypeOK, StreamEnds, Pending, Fresh, checkerVars
  <2> QED
    BY <1>7, <2>1, <2>2 DEF StreamEnds, Contract!End, checkerVars, managerVars, observed
<1>8. ASSUME NEW r \in Runners, CollectTimedOut(r)
      PROVE  \E c \in Conns : Contract!MissHandshake(c)
  <2>1. connections[r] \in Conns /\ runnerOf[connections[r]] = r
    BY <1>0, <1>8 DEF CollectTimedOut, TypeOK, IInv, EntryHasHandler
  <2>2. Fresh' = Fresh /\ Ended' = Ended /\ Pending' = Pending
    BY <1>8 DEF CollectTimedOut, Fresh, Ended, Pending, handlerVars
  <2>3. Contract!MissHandshake(connections[r])
    BY <1>8, <2>1, <2>2
       DEF CollectTimedOut, Contract!MissHandshake, handlerVars, managerVars, observed
  <2> QED  BY <2>1, <2>3
<1>9. ASSUME NEW c \in Conns, RemoveConnection(c)
      PROVE  Contract!Leave(c) \/ UNCHANGED Contract!vars
  <2>0. pc[c] = "removing" /\ DeleteEntry(c)
    BY <1>9 DEF RemoveConnection
  <2>1. CASE Matches(c)
    <3>1. Fresh' = Fresh /\ c \in Ended /\ Ended' = Ended
      BY <1>0, <1>9, <2>1 DEF TypeOK, RemoveConnection, Fresh, Ended
    <3>2. Pending' = Pending \cup {c}
      BY <1>0, <1>9, <2>1 DEF TypeOK, RemoveConnection, Pending, checkerVars
    <3> QED
      BY <1>9, <2>0, <2>1, <3>1, <3>2, DeleteTakesOwn
         DEF RemoveConnection, Contract!Leave, Contract!TakeOut, checkerVars, managerVars,
             observed
  <2>2. CASE ~Matches(c)
    <3>1. UNCHANGED Watched
      BY <1>9, <2>0, <2>2, DeleteTakesOwn
         DEF RemoveConnection, Watched, checkerVars, managerVars, observed
    <3>2. ASSUME NEW d \in Conns
          PROVE  /\ pc'[d] \in Unregistered <=> pc[d] \in Unregistered
                 /\ pc'[d] = "serving" <=> pc[d] = "serving"
                 /\ pc'[d] = "closing" <=> pc[d] = "closing"
      BY <1>0, <1>9, <2>2 DEF TypeOK, RemoveConnection, Unregistered
    <3> QED  BY <1>0, <3>1, <3>2, Invisible
  <2> QED  BY <2>1, <2>2
<1>10. ASSUME NEW c \in Conns, RemoveTimedOut(c) PROVE Contract!Expire(c)
  <2>0. /\ pc[c] # "idle" /\ DeleteEntry(c)
        /\ current = NoConn
    BY <1>10 DEF RemoveTimedOut, IInv, OneWayOut, Unregistered
  <2>1. /\ Fresh' = Fresh /\ Ended' = Ended
        /\ UNCHANGED <<runnerOf, callbacks, shutdown>>
        /\ c \in timedOut /\ timedOut' = timedOut \ {c}
    BY <1>10 DEF RemoveTimedOut, Fresh, Ended, handlerVars, managerVars, observed
  <2>2. CASE Matches(c)
    <3>1. Pending' = Pending \cup {c}
      BY <1>10, <2>0, <2>2 DEF RemoveTimedOut, Pending, handlerVars
    <3> QED
      BY <2>0, <2>1, <2>2, <3>1, DeleteTakesOwn DEF Contract!Expire, Contract!TakeOut
  <2>3. CASE ~Matches(c)
    <3>1. Pending' = Pending
      BY <1>10, <2>0, <2>3 DEF RemoveTimedOut, Pending, handlerVars
    <3>2. connections' = connections /\ connections[runnerOf[c]] # c
      BY <2>0, <2>3, DeleteTakesOwn, MatchesIsOwn
    <3> QED  BY <2>1, <3>1, <3>2 DEF Contract!Expire
  <2> QED  BY <2>2, <2>3
<1>11. ASSUME NEW c \in Conns, OnDisconnect(c) PROVE Contract!Tell(c)
  <2>1. Fresh' = Fresh /\ Ended' = Ended
    BY <1>0, <1>11 DEF TypeOK, OnDisconnect, Fresh, Ended
  <2>2. c \in Pending /\ Pending' = Pending \ {c}
    <3>1. current # c
      BY <1>11 DEF OnDisconnect, IInv, OneWayOut
    <3> QED  BY <1>0, <1>11, <3>1 DEF TypeOK, OnDisconnect, Pending, checkerVars
  <2> QED
    BY <1>11, <2>1, <2>2 DEF OnDisconnect, Contract!Tell, checkerVars, managerVars
<1>12. ASSUME CheckerNotifies PROVE \E c \in Conns : Contract!Tell(c)
  <2>0. current \in Conns /\ pc[current] # "closing"
    BY <1>0, <1>12 DEF CheckerNotifies, IInv, TypeOK, OneWayOut
  <2>1. Fresh' = Fresh /\ Ended' = Ended
    BY <1>12 DEF CheckerNotifies, Fresh, Ended, handlerVars
  <2>2. current \in Pending /\ Pending' = Pending \ {current}
    BY <1>12, <2>0 DEF CheckerNotifies, Pending, handlerVars
  <2>3. Contract!Tell(current)
    BY <1>12, <2>1, <2>2 DEF CheckerNotifies, Contract!Tell, handlerVars, managerVars
  <2> QED  BY <2>0, <2>3
<1>13. ASSUME NEW r \in Runners, CloseShard(r) PROVE Contract!Clear(r)
  <2>1. Fresh' = Fresh /\ Ended' = Ended /\ Pending' = Pending
    BY <1>13 DEF CloseShard, Fresh, Ended, Pending, handlerVars, checkerVars
  <2> QED
    BY <1>13, <2>1 DEF CloseShard, Contract!Clear, handlerVars, checkerVars, observed
<1> QED
  BY <1>1, <1>2, <1>3, <1>4, <1>5, <1>6, <1>7, <1>8, <1>9, <1>10, <1>11, <1>12, <1>13
     DEF Next, HandlerStep, CheckerStep, Contract!Next

(* The manager acts as a map with single steps, for any number of runners,  *)
(* streams and senders: a stream leaves unreplaced only when it ended or    *)
(* missed its handshake, is then told of once, and a replaced one never.    *)
THEOREM ManagerIsAtomic == Spec => ActsAtomically
<1>1. Init => Contract!Init
  BY NoConnAssumption DEF Init, Contract!Init, Fresh, Ended, Pending
<1>2. IInv /\ [Next]_vars => [Contract!Next]_(Contract!vars)
  BY StepIsAtomic
<1> QED  BY <1>1, <1>2, Invariance, PTL DEF Spec, ActsAtomically, Contract!Spec
=============================================================================
