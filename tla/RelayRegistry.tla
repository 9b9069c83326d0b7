---------------------------- MODULE RelayRegistry ----------------------------
(***************************************************************************)
(* The registration of one relay: the relay's heartbeat loop               *)
(* (relay/internal/backend/client.go, server.go), the backend's relay      *)
(* manager (service/relay: manager.go, manager_heartbeat.go,               *)
(* manager_unregister.go, health_checker.go) and its copy in Redis         *)
(* (store_redis_relay.go).  The relay has one request under way at a time; *)
(* the health checker runs next to the handlers.                           *)
(***************************************************************************)
EXTENDS Naturals

CONSTANT MaxFaults  \* backend restarts, lost requests and failed store calls

VARIABLES
    relay,          \* the relay process: "up", "leaving" (shutdown) or "gone"
    request,        \* the request under way and how far its handler is
    memory,         \* Manager.relays: the age of the last heartbeat, or "none"
    healthy,        \* RelayInfo.Healthy
    info,           \* the relay's record is in Redis
    alive,          \* the heartbeat key is in Redis and has not expired
    registered,     \* the relay's Client.registered
    check,          \* the health check: the relay was found stale, or its
                    \* record is being deleted
    deleting,       \* handlers of an unregistration that delete the record
    faults          \* bounds the faults

vars == <<relay, request, registered, memory, healthy, info, alive, check,
          deleting, faults>>

Ages == {"fresh", "late", "stale"}

Init ==
    /\ relay = "up"
    /\ request = "register" /\ registered = FALSE
    /\ memory = "none" /\ healthy = FALSE
    /\ info = FALSE /\ alive = FALSE
    /\ check = "none"
    /\ deleting = 0
    /\ faults = 0

Fault ==
    /\ faults < MaxFaults
    /\ faults' = faults + 1

-----------------------------------------------------------------------------
(* Time passes: without a heartbeat the entry ages past the health check    *)
(* interval and past ten of them, and the key in Redis expires.             *)
Age ==
    /\ \/ memory = "fresh" /\ memory' = "late"
       \/ memory = "late" /\ memory' = "stale"
    /\ UNCHANGED <<relay, request, registered, healthy, info, alive, check,
                   deleting, faults>>

KeyExpires ==
    /\ alive
    /\ alive' = FALSE
    /\ UNCHANGED <<relay, request, registered, memory, healthy, info, check,
                   deleting, faults>>

-----------------------------------------------------------------------------
(* Register persists first, and only then enters the relay in memory.       *)
RegisterSaves ==
    /\ request = "register"
    /\ info' = TRUE /\ alive' = TRUE
    /\ request' = "saved"
    /\ UNCHANGED <<relay, registered, memory, healthy, check, deleting, faults>>

EnterInMemory ==
    /\ request = "saved"
    /\ memory' = "fresh" /\ healthy' = TRUE
    /\ request' = "none"
    /\ UNCHANGED <<relay, info, alive, check, deleting>>

Registered == EnterInMemory /\ registered' = TRUE /\ UNCHANGED faults
RegisterUnanswered == EnterInMemory /\ Fault /\ UNCHANGED registered

(* StartHeartbeat's next tick: SendHeartbeat refuses when the relay is not  *)
(* registered, and any error makes StartHeartbeat register.                 *)
Tick ==
    /\ relay = "up" /\ request = "none"
    /\ request' = IF registered THEN "heartbeat" ELSE "register"
    /\ UNCHANGED <<relay, registered, memory, healthy, info, alive, check,
                   deleting, faults>>

(* Mutant: a relay the backend does not know only logs the error.           *)
HeartbeatGivesUp ==
    /\ request = "heartbeat"
    /\ \/ /\ memory # "none"
          /\ memory' = "fresh" /\ healthy' = TRUE
          /\ request' = "sync"
       \/ /\ memory = "none"
          /\ request' = "none"
          /\ UNCHANGED <<memory, healthy>>
    /\ UNCHANGED <<relay, registered, info, alive, check, deleting, faults>>

(* The entry is refreshed and its key in Redis after it; a relay that is    *)
(* not found answers 404, on which the relay registers again.               *)
Heartbeat ==
    /\ request = "heartbeat"
    /\ \/ /\ memory # "none"
          /\ memory' = "fresh" /\ healthy' = TRUE
          /\ request' = "sync"
          /\ UNCHANGED registered
       \/ /\ memory = "none"
          /\ registered' = FALSE
          /\ request' = IF relay = "up" THEN "register" ELSE "none"
          /\ UNCHANGED <<memory, healthy>>
    /\ UNCHANGED <<relay, info, alive, check, deleting, faults>>

SyncHeartbeat ==
    /\ request = "sync"
    /\ alive' = TRUE
    /\ request' = "none"
    /\ UNCHANGED <<relay, registered, memory, healthy, info, check, deleting,
                   faults>>

(* The key is not refreshed, which is only logged, or the answer is lost.   *)
SyncFails ==
    /\ request = "sync"
    /\ Fault
    /\ \/ request' = "none" /\ UNCHANGED alive
       \/ request' = (IF relay = "up" THEN "register" ELSE "none")
          /\ alive' = TRUE
    /\ UNCHANGED <<relay, registered, memory, healthy, info, check, deleting>>

(* A heartbeat is lost and the relay registers at once; a registration is   *)
(* lost or SaveRelay fails, and the relay waits for the next tick.          *)
RequestFails ==
    /\ request \in {"heartbeat", "register"}
    /\ Fault
    /\ request' = IF request = "heartbeat" /\ relay = "up"
                  THEN "register" ELSE "none"
    /\ UNCHANGED <<relay, registered, memory, healthy, info, alive, check,
                   deleting>>

-----------------------------------------------------------------------------
(* gracefulShutdown: the heartbeat loop ends with the context, though a     *)
(* request it has sent is still handled, and the relay unregisters.         *)
Shutdown ==
    /\ relay = "up"
    /\ relay' = "leaving"
    /\ UNCHANGED <<request, registered, memory, healthy, info, alive, check,
                   deleting, faults>>

(* The entry is removed; a handler that found one deletes the record        *)
(* outside the lock.                                                        *)
RemoveEntry ==
    /\ memory' = "none" /\ healthy' = FALSE
    /\ deleting' = IF memory = "none" THEN deleting ELSE deleting + 1
    /\ UNCHANGED <<request, registered, info, alive, check>>

GracefulUnregister ==
    /\ relay = "leaving"
    /\ relay' = "gone"
    /\ RemoveEntry
    /\ UNCHANGED faults

(* ForceUnregister through the internal API, of a relay that may be up.     *)
ForceUnregister ==
    /\ memory # "none"
    /\ Fault
    /\ RemoveEntry
    /\ UNCHANGED relay

(* The relay crashes, or its Unregister is lost.                            *)
Crash ==
    /\ relay # "gone"
    /\ Fault
    /\ relay' = "gone"
    /\ UNCHANGED <<request, registered, memory, healthy, info, alive, check,
                   deleting>>

(* A DeleteRelay call of a handler or of the health check ends; an error is *)
(* only logged.                                                             *)
DeleteCall ==
    /\ \/ deleting > 0 /\ deleting' = deleting - 1 /\ UNCHANGED check
       \/ check = "deleting" /\ check' = "none" /\ UNCHANGED deleting
    /\ UNCHANGED <<relay, request, registered, memory, healthy>>

DeleteFromStore ==
    DeleteCall /\ info' = FALSE /\ alive' = FALSE /\ UNCHANGED faults

DeleteFails == DeleteCall /\ Fault /\ UNCHANGED <<info, alive>>

-----------------------------------------------------------------------------
(* doHealthCheck: under the read lock it collects what is late or stale and *)
(* then marks or removes it under the write lock.                           *)
MarkUnhealthy ==
    /\ memory = "late" /\ healthy
    /\ healthy' = FALSE
    /\ UNCHANGED <<relay, request, registered, memory, info, alive, check,
                   deleting, faults>>

(* Mutant: only a relay that is still marked healthy is looked at.          *)
CollectHealthyStale ==
    /\ memory = "stale" /\ check = "none" /\ healthy
    /\ check' = "found"
    /\ UNCHANGED <<relay, request, registered, memory, healthy, info, alive,
                   deleting, faults>>

CollectStale ==
    /\ memory = "stale" /\ check = "none"
    /\ check' = "found"
    /\ UNCHANGED <<relay, request, registered, memory, healthy, info, alive,
                   deleting, faults>>

(* removeStaleRelay looks at the age again.                                 *)
RemoveStaleRelay ==
    /\ check = "found"
    /\ \/ /\ memory = "stale"
          /\ memory' = "none" /\ healthy' = FALSE
          /\ check' = "deleting"
       \/ /\ memory # "stale"
          /\ check' = "none"
          /\ UNCHANGED <<memory, healthy>>
    /\ UNCHANGED <<relay, request, registered, info, alive, deleting, faults>>

-----------------------------------------------------------------------------
(* NewManager after a restart: a record whose key has expired is loaded as  *)
(* stale and removed by the first health check; when GetAllRelays fails the *)
(* manager starts empty.  A request in flight fails.                        *)
Load ==
    /\ memory' = IF info /\ alive THEN "fresh" ELSE "none"
    /\ healthy' = (info /\ alive)
    /\ info' = (info /\ alive)

Restart ==
    /\ Fault
    /\ Load \/ (memory' = "none" /\ healthy' = FALSE /\ UNCHANGED info)
    /\ request' = "none"
    /\ check' = "none" /\ deleting' = 0
    /\ UNCHANGED <<relay, registered, alive>>

-----------------------------------------------------------------------------
Handler == RegisterSaves \/ Registered \/ Heartbeat \/ SyncHeartbeat
HealthCheck == MarkUnhealthy \/ CollectStale \/ RemoveStaleRelay

Next ==
    \/ Age \/ KeyExpires \/ Handler \/ Tick \/ HealthCheck \/ DeleteFromStore
    \/ Shutdown \/ GracefulUnregister \/ ForceUnregister \/ Crash
    \/ RegisterUnanswered \/ SyncFails \/ RequestFails \/ DeleteFails
    \/ Restart

(* The ticker of the relay and the one of the health check go on; requests  *)
(* are handled; time passes.                                                *)
Fairness ==
    /\ WF_vars(Tick) /\ WF_vars(Handler) /\ WF_vars(HealthCheck)
    /\ WF_vars(DeleteFromStore) /\ WF_vars(GracefulUnregister)
    /\ WF_vars(relay = "gone" /\ Age) /\ WF_vars(relay = "gone" /\ KeyExpires)

Spec == Init /\ [][Next]_vars
FairSpec == Spec /\ Fairness

-----------------------------------------------------------------------------
(* The type of every variable.                                              *)
TypeOK ==
    /\ relay \in {"up", "leaving", "gone"}
    /\ request \in {"none", "register", "saved", "heartbeat", "sync"}
    /\ registered \in BOOLEAN
    /\ memory \in Ages \cup {"none"}
    /\ healthy \in BOOLEAN /\ info \in BOOLEAN /\ alive \in BOOLEAN
    /\ check \in {"none", "found", "deleting"} /\ deleting \in Nat
    /\ faults \in 0..MaxFaults

(* A relay that stays up is entered as healthy again and again, whatever    *)
(* restarts, lost requests, failed store calls and races of a removal with  *)
(* a new registration took its entry or its record: 404 and re-registration *)
(* (client.go:351-355, 512-518) heal them all.                              *)
LiveRelayIsRegistered ==
    []<>(relay # "up" \/ (memory # "none" /\ healthy))

(* A relay that is gone disappears from the manager for good.               *)
GoneRelayIsForgotten == (relay = "gone") ~> [](memory = "none")
=============================================================================
