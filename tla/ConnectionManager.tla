--------------------------- MODULE ConnectionManager ---------------------------
(***************************************************************************)
(* The backend's registry of runner streams: RunnerConnectionManager and   *)
(* GRPCConnection (backend/internal/service/runner/connection*.go), driven *)
(* by the Connect handler of the gRPC adapter, one goroutine per stream,   *)
(* and by the initialization timeout checker.                              *)
(*                                                                         *)
(* A member of Conns is one execution of the Connect handler together with *)
(* the GRPCConnection it registers.  Locks are modelled by the steps they  *)
(* make atomic: a shard lock by lock[r] (two runners of one shard only     *)
(* exclude each other more), a connection's RWMutex by the senders inside  *)
(* its read section.                                                       *)
(***************************************************************************)
EXTENDS Integers, FiniteSets

CONSTANTS
    Runners,        \* runner ids
    Conns,          \* executions of the Connect handler
    Senders,        \* goroutines that call SendMessage
    Shutdown,       \* whether the server may shut down
    NoConn          \* nil

ASSUME NoConnAssumption == NoConn \notin Conns
ASSUME ShutdownAssumption == Shutdown \in BOOLEAN
ASSUME RunnersAssumption == IsFiniteSet(Runners)

VARIABLES
    generationCounter,  \* the atomic counter generations are drawn from
    connections,        \* shard.connections: runner -> its current connection
    connCount,          \* the atomic counter behind ConnectionCount
    lock,               \* shard.mu: the handler inside AddConnection, or NoConn
    pc,                 \* where the Connect handler of a connection is
    runnerOf,           \* GRPCConnection.RunnerID
    generation,         \* GRPCConnection.Generation
    initialized,        \* GRPCConnection.initialized
    closeState,         \* progress of GRPCConnection.Close
    sender,             \* the connection whose read lock a sender holds
    checker,            \* phase of the initialization timeout checker
    timedOut,           \* the checker's list of entries to remove
    current,            \* the entry the checker is removing
    shutdown,           \* the shards RunnerConnectionManager.Close emptied
    manager,            \* progress of RunnerConnectionManager.Close
    callbacks,          \* onDisconnect invocations, per connection removed
    handshaken          \* streams on which the runner sent Initialized

handlerVars == <<pc, runnerOf, generation>>
managerVars == <<shutdown, manager>>
checkerVars == <<checker, timedOut, current>>
observed    == <<callbacks, handshaken>>
vars == <<generationCounter, connections, connCount, lock, handlerVars,
          initialized, closeState, sender, checkerVars, managerVars, observed>>

-----------------------------------------------------------------------------
HandlerStates == {"idle", "adding", "locked", "serving", "removing",
                  "closing", "done"}

Init ==
    /\ generationCounter = 0
    /\ connections = [r \in Runners |-> NoConn]
    /\ connCount = 0
    /\ lock = [r \in Runners |-> NoConn]
    /\ pc = [c \in Conns |-> "idle"]
    /\ runnerOf \in [Conns -> Runners]
    /\ generation = [c \in Conns |-> 0]
    /\ initialized = [c \in Conns |-> FALSE]
    /\ closeState = [c \in Conns |-> "open"]
    /\ sender = [s \in Senders |-> NoConn]
    /\ checker = "scan"
    /\ timedOut = {}
    /\ current = NoConn
    /\ shutdown = {}
    /\ manager = "open"
    /\ callbacks = [c \in Conns |-> 0]
    /\ handshaken = {}

(* Mutant: the generation is one too small.                                *)
TakeGenerationLate(c) ==
    /\ pc[c] = "idle"
    /\ generationCounter' = generationCounter + 1
    /\ generation' = [generation EXCEPT ![c] = generationCounter - 1]
    /\ pc' = [pc EXCEPT ![c] = "adding"]
    /\ UNCHANGED <<connections, connCount, lock, runnerOf, initialized,
                   closeState, sender, checkerVars, managerVars, observed>>

(* AddConnection draws the generation before it takes the shard lock, so    *)
(* two streams of one runner may be registered in the opposite order.       *)
TakeGeneration(c) ==
    /\ pc[c] = "idle"
    /\ generationCounter' = generationCounter + 1
    /\ generation' = [generation EXCEPT ![c] = generationCounter']
    /\ pc' = [pc EXCEPT ![c] = "adding"]
    /\ UNCHANGED <<connections, connCount, lock, runnerOf, initialized,
                   closeState, sender, checkerVars, managerVars, observed>>

LockShard(c) ==
    /\ pc[c] = "adding"
    /\ lock[runnerOf[c]] = NoConn
    /\ lock' = [lock EXCEPT ![runnerOf[c]] = c]
    /\ pc' = [pc EXCEPT ![c] = "locked"]
    /\ UNCHANGED <<generationCounter, connections, connCount, runnerOf,
                   generation, initialized, closeState, sender, checkerVars,
                   managerVars, observed>>

(* Mutant: a replaced connection is not counted down.                      *)
AddWithoutDecrement(c) ==
    LET r == runnerOf[c]
        existing == connections[r]
    IN  /\ pc[c] = "locked"
        /\ existing # NoConn => closeState[existing] = "chanClosed"
        /\ connections' = [connections EXCEPT ![r] = c]
        /\ connCount' = connCount + 1
        /\ lock' = [lock EXCEPT ![r] = NoConn]
        /\ pc' = [pc EXCEPT ![c] = "serving"]
        /\ UNCHANGED <<generationCounter, runnerOf, generation, initialized,
                       closeState, sender, checkerVars, managerVars, observed>>

(* Mutant: the shard stays locked when a connection is replaced.           *)
AddWithoutUnlock(c) ==
    LET r == runnerOf[c]
        existing == connections[r]
    IN  /\ pc[c] = "locked"
        /\ existing # NoConn => closeState[existing] = "chanClosed"
        /\ connections' = [connections EXCEPT ![r] = c]
        /\ connCount' = connCount + (IF existing = NoConn THEN 1 ELSE 0)
        /\ lock' = IF existing = NoConn THEN [lock EXCEPT ![r] = NoConn] ELSE lock
        /\ pc' = [pc EXCEPT ![c] = "serving"]
        /\ UNCHANGED <<generationCounter, runnerOf, generation, initialized,
                       closeState, sender, checkerVars, managerVars, observed>>

(* With the lock held: existing.Close() has returned, the map entry is      *)
(* overwritten, and the counter goes down by one for the replaced           *)
(* connection and up by one for the new one.                                *)
AddConnection(c) ==
    LET r == runnerOf[c]
        existing == connections[r]
    IN  /\ pc[c] = "locked"
        /\ existing # NoConn => closeState[existing] = "chanClosed"
        /\ connections' = [connections EXCEPT ![r] = c]
        /\ connCount' = connCount + (IF existing = NoConn THEN 1 ELSE 0)
        /\ lock' = [lock EXCEPT ![r] = NoConn]
        /\ pc' = [pc EXCEPT ![c] = "serving"]
        /\ UNCHANGED <<generationCounter, runnerOf, generation, initialized,
                       closeState, sender, checkerVars, managerVars, observed>>

(* receiveLoop returns: the stream ended or failed.                         *)
StreamEnds(c) ==
    /\ pc[c] = "serving"
    /\ pc' = [pc EXCEPT ![c] = "removing"]
    /\ UNCHANGED <<generationCounter, connections, connCount, lock, runnerOf,
                   generation, initialized, closeState, sender, checkerVars,
                   managerVars, observed>>

-----------------------------------------------------------------------------
(* Mutant: no generation check.                                            *)
MatchesAny(c) == connections[runnerOf[c]] # NoConn

(* The locked part of RemoveConnection(runnerOf[c], generation[c]): the     *)
(* entry goes only if it has the caller's generation.                       *)
Matches(c) ==
    /\ connections[runnerOf[c]] # NoConn
    /\ generation[connections[runnerOf[c]]] = generation[c]

DeleteEntry(c) ==
    IF Matches(c)
    THEN /\ connections' = [connections EXCEPT ![runnerOf[c]] = NoConn]
         /\ connCount' = connCount - 1
    ELSE UNCHANGED <<connections, connCount>>

(* Mutant: no callback for a connection that was never initialized.        *)
RemoveSilently(c) ==
    /\ pc[c] = "removing"
    /\ lock[runnerOf[c]] = NoConn
    /\ DeleteEntry(c)
    /\ pc' = [pc EXCEPT ![c] = IF Matches(c) /\ initialized[c] THEN "closing" ELSE "done"]
    /\ UNCHANGED <<generationCounter, lock, runnerOf, generation, initialized,
                   closeState, sender, checkerVars, managerVars, observed>>

RemoveConnection(c) ==
    /\ pc[c] = "removing"
    /\ lock[runnerOf[c]] = NoConn
    /\ DeleteEntry(c)
    /\ pc' = [pc EXCEPT ![c] = IF Matches(c) THEN "closing" ELSE "done"]
    /\ UNCHANGED <<generationCounter, lock, runnerOf, generation, initialized,
                   closeState, sender, checkerVars, managerVars, observed>>

(* After the unlock: conn.Close() returns and onDisconnect(runnerID) runs, *)
(* by then possibly next to a newer connection of the runner.              *)
OnDisconnect(c) ==
    /\ pc[c] = "closing"
    /\ closeState[c] = "chanClosed"
    /\ callbacks' = [callbacks EXCEPT ![c] = @ + 1]
    /\ pc' = [pc EXCEPT ![c] = "done"]
    /\ UNCHANGED <<generationCounter, connections, connCount, lock, runnerOf,
                   generation, initialized, closeState, sender, checkerVars,
                   managerVars, handshaken>>

-----------------------------------------------------------------------------
(* HandleInitialized: the stream is identified by its runner id alone, so   *)
(* the flag is set on whatever connection the map holds for the runner.     *)
HandleInitialized(c) ==
    LET conn == connections[runnerOf[c]]
    IN  /\ pc[c] = "serving"
        /\ c \notin handshaken
        /\ handshaken' = handshaken \cup {c}
        /\ initialized' = IF conn = NoConn THEN initialized
                          ELSE [initialized EXCEPT ![conn] = TRUE]
        /\ UNCHANGED <<generationCounter, connections, connCount, lock,
                       handlerVars, closeState, sender, checkerVars,
                       managerVars,
                       callbacks>>

(* checkInitTimeouts, first loop: entries are collected under read locks.   *)
(* That initTimeout has passed for the connection is left to chance.        *)
CollectTimedOut(r) ==
    /\ checker = "scan"
    /\ lock[r] = NoConn
    /\ connections[r] # NoConn
    /\ ~initialized[connections[r]]
    /\ connections[r] \notin timedOut
    /\ timedOut' = timedOut \cup {connections[r]}
    /\ UNCHANGED <<generationCounter, connections, connCount, lock,
                   handlerVars, initialized, closeState, sender, checker,
                   current, managerVars, observed>>

(* Second loop: RemoveConnection for each collected entry, on what the map  *)
(* holds now.                                                               *)
RemoveTimedOut(c) ==
    /\ checker \in {"scan", "remove"}
    /\ c \in timedOut
    /\ lock[runnerOf[c]] = NoConn
    /\ DeleteEntry(c)
    /\ timedOut' = timedOut \ {c}
    /\ current' = IF Matches(c) THEN c ELSE NoConn
    /\ checker' = IF Matches(c) THEN "closing"
                  ELSE IF timedOut' = {} THEN "scan" ELSE "remove"
    /\ UNCHANGED <<generationCounter, lock, handlerVars, initialized,
                   closeState, sender, managerVars, observed>>

CheckerNotifies ==
    /\ checker = "closing"
    /\ closeState[current] = "chanClosed"
    /\ callbacks' = [callbacks EXCEPT ![current] = @ + 1]
    /\ current' = NoConn
    /\ checker' = IF timedOut = {} THEN "scan" ELSE "remove"
    /\ UNCHANGED <<generationCounter, connections, connCount, lock,
                   handlerVars, initialized, closeState, sender, timedOut,
                   managerVars, handshaken>>

-----------------------------------------------------------------------------
(* The goroutines that may be inside Close of connection c: the handler     *)
(* that replaces it, its own RemoveConnection, the checker's, the wrapper   *)
(* of sendLoop and the ping loop (at any time once the stream is served).   *)
MayClose(c) ==
    \/ \E d \in Conns : pc[d] = "locked" /\ connections[runnerOf[d]] = c
    \/ pc[c] \in {"serving", "removing", "closing"}
    \/ checker = "closing" /\ current = c

(* Mutant: closed is set without the write lock.                           *)
CloseUnlocked(c) ==
    /\ closeState[c] = "open"
    /\ MayClose(c)
    /\ closeState' = [closeState EXCEPT ![c] = "closed"]
    /\ UNCHANGED <<generationCounter, connections, connCount, lock,
                   handlerVars, initialized, sender, checkerVars,
                   managerVars, observed>>

(* Close takes the write lock to set closed: no sender is inside.           *)
Close(c) ==
    /\ closeState[c] = "open"
    /\ MayClose(c)
    /\ \A s \in Senders : sender[s] # c
    /\ closeState' = [closeState EXCEPT ![c] = "closed"]
    /\ UNCHANGED <<generationCounter, connections, connCount, lock,
                   handlerVars, initialized, sender, checkerVars,
                   managerVars, observed>>

(* After the unlock: close(closeChan), close(Send).                         *)
CloseChannels(c) ==
    /\ closeState[c] = "closed"
    /\ closeState' = [closeState EXCEPT ![c] = "chanClosed"]
    /\ UNCHANGED <<generationCounter, connections, connCount, lock,
                   handlerVars, initialized, sender, checkerVars,
                   managerVars, observed>>

(* SendMessage: the check of closed and the channel send share one read     *)
(* section.  The caller may have looked the connection up long ago.         *)
SendCheck(s, c) ==
    /\ sender[s] = NoConn
    /\ pc[c] \notin {"idle", "adding", "locked"}
    /\ closeState[c] = "open"
    /\ sender' = [sender EXCEPT ![s] = c]
    /\ UNCHANGED <<generationCounter, connections, connCount, lock,
                   handlerVars, initialized, closeState, checkerVars,
                   managerVars, observed>>

SendPut(s) ==
    /\ sender[s] # NoConn
    /\ sender' = [sender EXCEPT ![s] = NoConn]
    /\ UNCHANGED <<generationCounter, connections, connCount, lock,
                   handlerVars, initialized, closeState, checkerVars,
                   managerVars, observed>>

-----------------------------------------------------------------------------
(* RunnerConnectionManager.Close: one shard after the other is emptied      *)
(* under its lock once its connections are closed, and the counter is       *)
(* zeroed at the end, outside any lock.                                     *)
CloseShard(r) ==
    /\ Shutdown
    /\ manager # "closed"
    /\ r \notin shutdown
    /\ lock[r] = NoConn
    /\ connections[r] # NoConn => closeState[connections[r]] = "chanClosed"
    /\ connections' = [connections EXCEPT ![r] = NoConn]
    /\ shutdown' = shutdown \cup {r}
    /\ manager' = "closing"
    /\ UNCHANGED <<generationCounter, connCount, lock, handlerVars,
                   initialized, closeState, sender, checkerVars, observed>>

ResetCount ==
    /\ manager = "closing"
    /\ shutdown = Runners
    /\ connCount' = 0
    /\ manager' = "closed"
    /\ UNCHANGED <<generationCounter, connections, lock, handlerVars,
                   initialized, closeState, sender, checkerVars, shutdown,
                   observed>>

-----------------------------------------------------------------------------
HandlerStep(c) ==
    \/ LockShard(c) \/ AddConnection(c) \/ RemoveConnection(c)
    \/ OnDisconnect(c)

CheckerStep ==
    \/ \E c \in Conns : RemoveTimedOut(c)
    \/ CheckerNotifies

Next ==
    \/ \E c \in Conns :
        \/ TakeGeneration(c) \/ HandlerStep(c) \/ StreamEnds(c)
        \/ HandleInitialized(c) \/ Close(c) \/ CloseChannels(c)
    \/ CheckerStep
    \/ \E r \in Runners : CollectTimedOut(r) \/ CloseShard(r)
    \/ ResetCount
    \/ \E s \in Senders : SendPut(s) \/ \E c \in Conns : SendCheck(s, c)

Spec == Init /\ [][Next]_vars

(* Goroutines that can run do run: the scheduler is fair to the handlers,   *)
(* to a goroutine inside Close or SendMessage, and to the checker.  Nothing *)
(* makes a runner connect, disconnect or complete the handshake.            *)
Fairness ==
    /\ \A c \in Conns : WF_vars(HandlerStep(c)) /\ WF_vars(CloseChannels(c))
    /\ \A c \in Conns : SF_vars(Close(c))
    /\ \A s \in Senders : WF_vars(SendPut(s))
    /\ WF_vars(CheckerStep)

FairSpec == Spec /\ Fairness

-----------------------------------------------------------------------------
(* The type of every variable.                                              *)
TypeOK ==
    /\ generationCounter \in Nat
    /\ connections \in [Runners -> Conns \cup {NoConn}]
    /\ connCount \in Int
    /\ lock \in [Runners -> Conns \cup {NoConn}]
    /\ pc \in [Conns -> HandlerStates]
    /\ runnerOf \in [Conns -> Runners]
    /\ generation \in [Conns -> Nat]
    /\ initialized \in [Conns -> BOOLEAN]
    /\ closeState \in [Conns -> {"open", "closed", "chanClosed"}]
    /\ sender \in [Senders -> Conns \cup {NoConn}]
    /\ checker \in {"scan", "remove", "closing"}
    /\ timedOut \in SUBSET Conns
    /\ current \in Conns \cup {NoConn}
    /\ shutdown \in SUBSET Runners
    /\ manager \in {"open", "closing", "closed"}
    /\ callbacks \in [Conns -> Nat]
    /\ handshaken \in SUBSET Conns

(* ConnectionCount is the number of map entries as long as the manager is   *)
(* not being closed, whatever replacements, stale removals and timeouts     *)
(* run concurrently (AddConnection, RemoveConnection, checkInitTimeouts).   *)
Registered == {r \in Runners : connections[r] # NoConn}
CountMatchesMap == manager = "open" => connCount = Cardinality(Registered)

(* SendMessage never writes to a closed Send channel (which would panic):   *)
(* the read section that checked closed excludes Close until the write.     *)
NoSendOnClosedChannel ==
    \A s \in Senders :
        sender[s] # NoConn => closeState[sender[s]] # "chanClosed"

(* A map entry belongs to a Connect handler that has not yet run its        *)
(* deferred RemoveConnection: no entry is left behind that nobody removes.  *)
EntryHasHandler ==
    \A r \in Runners : connections[r] # NoConn =>
        /\ pc[connections[r]] \in {"serving", "removing"}
        /\ runnerOf[connections[r]] = r

(* onDisconnect runs at most once for one connection, although the handler  *)
(* and the timeout checker may both remove it.                              *)
NotifiedAtMostOnce == \A c \in Conns : callbacks[c] <= 1

(* When every handler of a runner is gone, the coordinator has been told    *)
(* that the runner disconnected, although replaced connections and skipped  *)
(* removals do not tell it.                                                 *)
LeavingIsReported ==
    \A r \in Runners :
        LET mine == {c \in Conns : runnerOf[c] = r /\ pc[c] # "idle"}
        IN  (manager = "open" /\ mine # {} /\ checker \in {"scan", "remove"}
                /\ \A c \in mine : pc[c] = "done")
            => \E c \in mine : callbacks[c] = 1

(* A connection whose stream is still served leaves the map only by being   *)
(* replaced, by the timeout checker or by the manager's Close: a stale      *)
(* deferred RemoveConnection never takes it out (the generation check).     *)
StaleRemoveIsHarmless ==
    [][\A r \in Runners :
        LET c == connections[r]
        IN  (c # NoConn /\ connections'[r] = NoConn /\ pc[c] = "serving"
                /\ manager' = "open")
            => checker' = "closing" /\ current' = c]_vars

(* Handlers, checker, senders and shutdown together behave like a map on    *)
(* which AddConnection, RemoveConnection and onDisconnect are single steps, *)
(* although each is several critical sections: a stream leaves the map      *)
(* unreplaced only when it has ended or was overdue, is then reported once, *)
(* and is never reported when it was replaced (ConnectionContract).         *)
Fresh   == {c \in Conns : pc[c] \in {"idle", "adding", "locked"}}
Ended   == {c \in Conns : pc[c] \in {"removing", "closing", "done"}}
Pending == {c \in Conns : pc[c] = "closing" \/ current = c}
Contract == INSTANCE ConnectionContract
            WITH owner <- runnerOf, entry <- connections, fresh <- Fresh,
                 ended <- Ended, overdue <- timedOut, pending <- Pending,
                 told <- callbacks, down <- shutdown
ActsAtomically == Contract!Spec

(* A handler whose stream has ended finishes: no wait for the shard lock,   *)
(* for Close or for a sender lasts forever.                                 *)
HandlersFinish ==
    \A c \in Conns : pc[c] = "removing" ~> pc[c] = "done"
================================================================================
