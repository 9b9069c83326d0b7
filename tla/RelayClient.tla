----------------------------- MODULE RelayClient -----------------------------
(***************************************************************************)
(* The runner's WebSocket client of the relay (runner/internal/relay):     *)
(* the read and write loops of the current connection, the reconnect loop  *)
(* the read loop starts when it fails, and Stop.  The model begins where   *)
(* Connect and Start have succeeded; until then only the goroutine that    *)
(* created the client knows it.                                            *)
(***************************************************************************)
EXTENDS Integers

CONSTANT Explore    \* the environment's behaviour: "flap", "expire", "stop"

VARIABLES
    conn,           \* the socket Client.conn refers to
    connected,      \* Client.connected
    reconnecting,   \* Client.reconnecting
    stopped,        \* Client.stopped
    stopCh,         \* Client.stopCh is closed
    connDone,       \* the connDoneCh of the current connection is closed
    reader,         \* the read loop
    writers,        \* write loops that have not returned
    loop,           \* the reconnect loop
    refreshed,      \* reconnectLoop's tokenRefreshAttempted
    token,          \* whether the relay still accepts Client.token
    stop,           \* progress of Stop
    notified        \* the close handler has run (closeOnce)

vars == <<conn, connected, reconnecting, stopped, stopCh,
          connDone, reader, writers, loop, refreshed, token, stop, notified>>

Init ==
    /\ conn = "open"
    /\ connected = TRUE
    /\ reconnecting = FALSE
    /\ stopped = FALSE /\ stopCh = FALSE
    /\ connDone = FALSE
    /\ reader = "reading"
    /\ writers = 1
    /\ loop = "none"
    /\ refreshed = FALSE
    /\ token = "valid"
    /\ stop = "none"
    /\ notified = FALSE

-----------------------------------------------------------------------------
(* The environment: the network or the relay breaks the connection, a token *)
(* expires.  Without "flap" a new connection outlives the reconnect         *)
(* callback.                                                                *)
Break ==
    /\ conn = "open"
    /\ "flap" \in Explore \/ loop \notin {"stored", "started"}
    /\ conn' = "broken"
    /\ UNCHANGED <<connected, reconnecting, stopped, stopCh,
                   connDone, reader, writers, loop, refreshed, token, stop,
                   notified>>

Expire ==
    /\ "expire" \in Explore
    /\ token = "valid"
    /\ token' = "expired"
    /\ UNCHANGED <<conn, connected, reconnecting, stopped,
                   stopCh, connDone, reader, writers, loop, refreshed, stop,
                   notified>>

-----------------------------------------------------------------------------
(* readLoop returns when the socket fails or stopCh is closed; its deferred *)
(* function first calls wg.Done.                                            *)
ReadFails ==
    /\ reader = "reading"
    /\ conn # "open" \/ stopCh
    /\ reader' = "unwinding"
    /\ UNCHANGED <<conn, connected, reconnecting, stopped,
                   stopCh, connDone, writers, loop, refreshed, token, stop,
                   notified>>

(* It marks the client disconnected and tells the write loop.               *)
ReadDone ==
    /\ reader = "unwinding"
    /\ connected' = FALSE
    /\ connDone' = TRUE
    /\ reader' = "deciding"
    /\ UNCHANGED <<conn, reconnecting, stopped, stopCh, writers,
                   loop, refreshed, token, stop, notified>>

(* After Stop it calls fireOnClose, otherwise it starts reconnectLoop       *)
(* unless the flag says that one is running.                                *)
ReadDecides ==
    /\ reader = "deciding"
    /\ reader' = "none"
    /\ \/ /\ stopCh
          /\ notified' = TRUE
          /\ UNCHANGED <<reconnecting, loop>>
       \/ /\ ~stopCh
          /\ reconnecting' = TRUE
          /\ loop' = IF reconnecting THEN loop ELSE "start"
          /\ UNCHANGED notified
    /\ UNCHANGED <<conn, connected, stopped, stopCh, connDone,
                   writers, refreshed, token, stop>>

(* Mutant: the write loop calls wg.Done twice.                              *)
WriteDoneTwice ==
    /\ writers > 0
    /\ stopCh \/ connDone \/ conn # "open"
    /\ writers' = writers - 2
    /\ UNCHANGED <<conn, connected, reconnecting, stopped, stopCh, connDone,
                   reader, loop, refreshed, token, stop, notified>>

(* writeLoop returns on stopCh, connDoneCh, a missing connection or a       *)
(* write error; only the read loop reacts to the end of the connection.     *)
WriteReturns ==
    /\ writers > 0
    /\ stopCh \/ connDone \/ conn # "open"
    /\ writers' = writers - 1
    /\ UNCHANGED <<conn, connected, reconnecting, stopped,
                   stopCh, connDone, reader, loop, refreshed, token, stop,
                   notified>>

-----------------------------------------------------------------------------
(* reconnectLoop returns: its deferred function clears the flag.            *)
LoopReturns == loop' = "none" /\ reconnecting' = FALSE

(* Its start: nothing is done for a stopped client, else the old connection *)
(* is closed and forgotten.                                                 *)
LoopStarts ==
    /\ loop = "start"
    /\ \/ stopped /\ notified' = TRUE /\ LoopReturns /\ UNCHANGED conn
       \/ /\ ~stopped
          /\ conn' = "none"
          /\ loop' = "waiting"
          /\ UNCHANGED <<notified, reconnecting>>
    /\ UNCHANGED <<connected, stopped, stopCh, connDone, reader,
                   writers, refreshed, token, stop>>

(* The wait for the old loops ends: wg is zero and the attempts begin.      *)
LoopsExited ==
    /\ loop = "waiting"
    /\ writers = 0 /\ reader \in {"unwinding", "deciding", "none"}
    /\ loop' = "backoff"
    /\ refreshed' = FALSE
    /\ UNCHANGED <<conn, connected, reconnecting, stopped,
                   stopCh, connDone, reader, writers, token, stop, notified>>

(* Mutant: after two seconds the attempts begin all the same.               *)
WaitTimesOutAndGoesOn ==
    /\ loop = "waiting"
    /\ writers > 0 \/ reader = "reading"
    /\ notified' = TRUE
    /\ loop' = "backoff"
    /\ UNCHANGED <<conn, connected, reconnecting, stopped,
                   stopCh, connDone, reader, writers, refreshed, token, stop>>

(* A loop has not returned within two seconds: reconnection is abandoned.   *)
WaitTimesOut ==
    /\ loop = "waiting"
    /\ writers > 0 \/ reader = "reading"
    /\ notified' = TRUE
    /\ LoopReturns
    /\ UNCHANGED <<conn, connected, stopped, stopCh, connDone,
                   reader, writers, refreshed, token, stop>>

(* stopCh is closed while the loop waits or backs off.                      *)
LoopCancelled ==
    /\ loop \in {"waiting", "backoff"}
    /\ stopCh
    /\ notified' = TRUE
    /\ LoopReturns
    /\ UNCHANGED <<conn, connected, stopped, stopCh, connDone,
                   reader, writers, refreshed, token, stop>>

(* An attempt fails: the loop backs off, after it has asked for a new token *)
(* once.  WaitForNewToken times out, for nothing calls DeliverNewToken: the *)
(* backend answers with a subscription that replaces the client.            *)
DialFails ==
    /\ loop = "backoff"
    /\ refreshed' = (refreshed \/ token = "expired")
    /\ UNCHANGED <<conn, connected, reconnecting, stopped,
                   stopCh, connDone, reader, writers, loop, token, stop,
                   notified>>

(* DialContext succeeds unless Stop has cancelled the context.              *)
DialSucceeds ==
    /\ loop = "backoff"
    /\ token = "valid"
    /\ ~stopCh
    /\ loop' = "dialed"
    /\ UNCHANGED <<conn, connected, reconnecting, stopped, stopCh,
                   connDone, reader, writers, refreshed, token, stop, notified>>

StoreConn ==
    /\ loop = "dialed"
    /\ conn' = "open"
    /\ loop' = "stored"
    /\ UNCHANGED <<connected, reconnecting, stopped, stopCh, connDone,
                   reader, writers, refreshed, token, stop, notified>>

(* Mutant: the client is connected whether or not it was stopped.           *)
RestartUnchecked ==
    /\ loop = "stored"
    /\ connected' = TRUE
    /\ connDone' = FALSE
    /\ reader' = "reading"
    /\ writers' = writers + 1
    /\ loop' = "started"
    /\ UNCHANGED <<conn, reconnecting, stopped, stopCh,
                   refreshed, token, stop, notified>>

(* Under wgMu: a client that is not stopped is connected again, with a new  *)
(* connDoneCh and new loops.                                                *)
Restart ==
    /\ loop = "stored"
    /\ ~stopped
    /\ connected' = TRUE
    /\ connDone' = FALSE
    /\ reader' = "reading"
    /\ writers' = writers + 1
    /\ loop' = "started"
    /\ UNCHANGED <<conn, reconnecting, stopped, stopCh,
                   refreshed, token, stop, notified>>

(* Under wgMu: the client was stopped.  After the unlock the connection     *)
(* that Client.conn refers to by then, if any, is closed.                   *)
Discard ==
    /\ loop = "stored"
    /\ stopped
    /\ loop' = "discarding"
    /\ UNCHANGED <<conn, connected, reconnecting, stopped,
                   stopCh, connDone, reader, writers, refreshed, token, stop,
                   notified>>

CloseDiscarded ==
    /\ loop = "discarding"
    /\ conn' = "none"
    /\ notified' = TRUE
    /\ LoopReturns
    /\ UNCHANGED <<connected, stopped, stopCh, connDone, reader,
                   writers, refreshed, token, stop>>

(* Mutant: the flag is not cleared when a connection was made.              *)
LoopKeepsFlag ==
    /\ loop = "started"
    /\ loop' = "none"
    /\ UNCHANGED <<conn, connected, reconnecting, stopped,
                   stopCh, connDone, reader, writers, refreshed, token, stop,
                   notified>>

(* onReconnect has run and the loop returns.                                *)
LoopEnds ==
    /\ loop = "started"
    /\ LoopReturns
    /\ UNCHANGED <<conn, connected, stopped, stopCh, connDone,
                   reader, writers, refreshed, token, stop, notified>>

-----------------------------------------------------------------------------
(* Stop: stopped is set under wgMu; the client is marked disconnected,      *)
(* stopCh closed and the context cancelled; the connection is closed; once  *)
(* the loops have returned, or after five seconds, it is forgotten.         *)
StopMarks ==
    /\ "stop" \in Explore
    /\ stop = "none"
    /\ stopped' = TRUE
    /\ stop' = "marked"
    /\ UNCHANGED <<conn, connected, reconnecting, stopCh,
                   connDone, reader, writers, loop, refreshed, token, notified>>

StopSignals ==
    /\ stop = "marked"
    /\ connected' = FALSE
    /\ stopCh' = TRUE
    /\ stop' = "signalled"
    /\ UNCHANGED <<conn, reconnecting, stopped, connDone, reader,
                   writers, loop, refreshed, token, notified>>

StopCloses ==
    /\ stop = "signalled"
    /\ conn' = IF conn = "none" THEN "none" ELSE "closed"
    /\ stop' = "waiting"
    /\ UNCHANGED <<connected, reconnecting, stopped, stopCh,
                   connDone, reader, writers, loop, refreshed, token, notified>>

StopForgets ==
    /\ stop = "waiting"
    /\ conn' = "none"
    /\ stop' = "done"
    /\ UNCHANGED <<connected, reconnecting, stopped, stopCh, connDone,
                   reader, writers, loop, refreshed, token, notified>>

-----------------------------------------------------------------------------
ReaderStep == ReadFails \/ ReadDone \/ ReadDecides
LoopStep ==
    \/ LoopStarts \/ LoopsExited \/ LoopCancelled \/ StoreConn \/ Restart
    \/ Discard \/ CloseDiscarded \/ LoopEnds
StopStep == StopSignals \/ StopCloses \/ StopForgets

Next ==
    \/ Break \/ Expire \/ ReaderStep \/ WriteReturns \/ LoopStep
    \/ WaitTimesOut \/ DialFails \/ DialSucceeds \/ StopMarks \/ StopStep

Spec == Init /\ [][Next]_vars

(* Goroutines that can run do run, and a relay that accepts the token is    *)
(* reached in the end (attempts go on without limit).                       *)
Fairness ==
    /\ WF_vars(ReaderStep) /\ WF_vars(WriteReturns) /\ WF_vars(LoopStep)
    /\ WF_vars(StopStep) /\ SF_vars(DialSucceeds)

FairSpec == Spec /\ Fairness

-----------------------------------------------------------------------------
(* The type of every variable.                                              *)
TypeOK ==
    /\ conn \in {"none", "open", "broken", "closed"}
    /\ connected \in BOOLEAN /\ reconnecting \in BOOLEAN
    /\ stopped \in BOOLEAN /\ stopCh \in BOOLEAN /\ connDone \in BOOLEAN
    /\ reader \in {"none", "reading", "unwinding", "deciding"}
    /\ writers \in Nat
    /\ loop \in {"none", "start", "waiting", "backoff", "dialed", "stored",
                 "started", "discarding"}
    /\ refreshed \in BOOLEAN /\ token \in {"valid", "expired"}
    /\ stop \in {"none", "marked", "signalled", "waiting", "done"}
    /\ notified \in BOOLEAN

(* Two write loops never run on one client: the WebSocket library panics on *)
(* concurrent writers.  reconnectLoop waits for the old one or gives up     *)
(* (client_reconnect.go:43-62).                                             *)
OneWriter == writers <= 1

Down == stop \in {"signalled", "waiting", "done"}

(* The pod-side contract: after Stop the client never shows as connected    *)
(* again, although a reconnect may be under way, and once the close handler *)
(* has run, on which the pod drops its reference, it never reconnects.      *)
Contract == INSTANCE RelayContract WITH stopped <- Down
ImplementsContract == Contract!Spec

(* A client that is down reconnects or tells the pod through the close      *)
(* handler, unless its token has expired (readLoop, reconnectLoop, Stop).   *)
Reconnects == ~connected ~> connected \/ notified \/ token = "expired"
=============================================================================
