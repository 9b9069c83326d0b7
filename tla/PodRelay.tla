------------------------------ MODULE PodRelay ------------------------------
(***************************************************************************)
(* One pod of the runner and its relay clients: OnSubscribeTerminal, each  *)
(* execution in a goroutine of its own, OnUnsubscribeTerminal and          *)
(* OnTerminatePod with the pod's DisconnectRelay, and the close handlers   *)
(* of the clients (runner/message_handler_relay.go, pod.go).  A client is  *)
(* named after the subscription that creates it and behaves as             *)
(* RelayContract says.                                                     *)
(***************************************************************************)
CONSTANTS
    Subs,           \* executions of OnSubscribeTerminal, and their clients
    Closers,        \* executions of DisconnectRelay
    Relays,         \* relay URLs
    NoClient        \* nil

(* nil is no client, and a goroutine runs one handler.                      *)
ASSUME ClientsAssumption == NoClient \notin Subs /\ Subs \cap Closers = {}

VARIABLES
    inStore,        \* the pod is in the pod store
    relayClient,    \* Pod.RelayClient
    routed,         \* OutputRouter.relay
    sub,            \* where a subscription is
    url,            \* the relay a subscription names
    held,           \* the client a goroutine has taken from the pod to stop it
    life,           \* a client: not created, up (connected), down or stopped
    handler,        \* the close handler of a client
    closer,         \* where a DisconnectRelay is
    clobbered       \* a close handler cleared the reference to another client

podVars == <<inStore, relayClient, routed, sub, url, held, life, handler,
             closer, clobbered>>

clientVars == <<life, handler>>

PodInit ==
    /\ inStore = TRUE
    /\ relayClient = NoClient
    /\ routed = NoClient
    /\ sub = [s \in Subs |-> "idle"]
    /\ url \in [Subs -> Relays]
    /\ held = [g \in Subs \cup Closers |-> NoClient]
    /\ life = [s \in Subs |-> "none"]
    /\ handler = [s \in Subs |-> "none"]
    /\ closer = [d \in Closers |-> "idle"]
    /\ clobbered = FALSE

-----------------------------------------------------------------------------
(* The store is consulted before relayMu is taken.                          *)
Lookup(s) ==
    /\ sub[s] = "idle"
    /\ sub' = [sub EXCEPT ![s] = IF inStore THEN "found" ELSE "done"]
    /\ UNCHANGED <<inStore, relayClient, routed, url, held, clientVars, closer,
                   clobbered>>

(* Phase 1, under relayMu: a connected client of the same relay is kept,    *)
(* any other is taken out of the pod to be stopped.                         *)
Reusable(s) ==
    /\ relayClient # NoClient
    /\ life[relayClient] = "up"
    /\ url[relayClient] = url[s]

CheckExisting(s) ==
    /\ sub[s] = "found"
    /\ \/ /\ Reusable(s)
          /\ sub' = [sub EXCEPT ![s] = "done"]
          /\ UNCHANGED <<relayClient, held>>
       \/ /\ ~Reusable(s)
          /\ held' = [held EXCEPT ![s] = relayClient]
          /\ relayClient' = NoClient
          /\ sub' = [sub EXCEPT ![s] = "stopOld"]
    /\ UNCHANGED <<inStore, routed, url, clientVars, closer, clobbered>>

StopClient(c) ==
    life' = [x \in Subs |-> IF x = c THEN "stopped" ELSE life[x]]

StopOld(s) ==
    /\ sub[s] = "stopOld"
    /\ StopClient(held[s])
    /\ held' = [held EXCEPT ![s] = NoClient]
    /\ sub' = [sub EXCEPT ![s] = "dial"]
    /\ UNCHANGED <<inStore, relayClient, routed, url, handler, closer,
                   clobbered>>

(* Phase 2: Connect and Start, or an error that ends the subscription.      *)
Connect(s) ==
    /\ sub[s] = "dial"
    /\ \/ life' = [life EXCEPT ![s] = "up"] /\ sub' = [sub EXCEPT ![s] = "connected"]
       \/ sub' = [sub EXCEPT ![s] = "done"] /\ UNCHANGED life
    /\ UNCHANGED <<inStore, relayClient, routed, url, held, handler, closer,
                   clobbered>>

(* Mutant: a client set in the meantime is overwritten.                     *)
InstallAlways(s) ==
    /\ sub[s] = "connected"
    /\ relayClient' = s
    /\ sub' = [sub EXCEPT ![s] = "installed"]
    /\ UNCHANGED <<inStore, routed, url, held, clientVars, closer, clobbered>>

(* Phase 3, under relayMu: the client becomes the pod's unless another      *)
(* subscription was faster.                                                 *)
Install(s) ==
    /\ sub[s] = "connected"
    /\ \/ /\ relayClient = NoClient
          /\ relayClient' = s
          /\ sub' = [sub EXCEPT ![s] = "installed"]
       \/ /\ relayClient # NoClient
          /\ sub' = [sub EXCEPT ![s] = "discard"]
          /\ UNCHANGED relayClient
    /\ UNCHANGED <<inStore, routed, url, held, clientVars, closer, clobbered>>

DiscardOwn(s) ==
    /\ sub[s] = "discard"
    /\ StopClient(s)
    /\ sub' = [sub EXCEPT ![s] = "done"]
    /\ UNCHANGED <<inStore, relayClient, routed, url, held, handler, closer,
                   clobbered>>

(* Phase 4: the output router gets the client.                              *)
RouteOutput(s) ==
    /\ sub[s] = "installed"
    /\ routed' = s
    /\ sub' = [sub EXCEPT ![s] = "done"]
    /\ UNCHANGED <<inStore, relayClient, url, held, clientVars, closer,
                   clobbered>>

-----------------------------------------------------------------------------
(* OnTerminatePod and the exit handler first delete the pod from the store. *)
RemovePod(d) ==
    /\ closer[d] = "idle"
    /\ inStore
    /\ inStore' = FALSE
    /\ closer' = [closer EXCEPT ![d] = "take"]
    /\ UNCHANGED <<relayClient, routed, sub, url, held, clientVars, clobbered>>

Unsubscribe(d) ==
    /\ closer[d] = "idle"
    /\ closer' = [closer EXCEPT ![d] = IF inStore THEN "take" ELSE "done"]
    /\ UNCHANGED <<inStore, relayClient, routed, sub, url, held, clientVars,
                   clobbered>>

(* DisconnectRelay: the pointer is swapped under relayMu, the client is     *)
(* stopped outside it, the router loses its client, whichever it is by then.*)
TakeClient(d) ==
    /\ closer[d] = "take"
    /\ held' = [held EXCEPT ![d] = relayClient]
    /\ relayClient' = NoClient
    /\ closer' = [closer EXCEPT ![d] = "stop"]
    /\ UNCHANGED <<inStore, routed, sub, url, clientVars, clobbered>>

StopTaken(d) ==
    /\ closer[d] = "stop"
    /\ StopClient(held[d])
    /\ held' = [held EXCEPT ![d] = NoClient]
    /\ closer' = [closer EXCEPT ![d] = "clear"]
    /\ UNCHANGED <<inStore, relayClient, routed, sub, url, handler, clobbered>>

ClearRouter(d) ==
    /\ closer[d] = "clear"
    /\ routed' = NoClient
    /\ closer' = [closer EXCEPT ![d] = "done"]
    /\ UNCHANGED <<inStore, relayClient, sub, url, held, clientVars, clobbered>>

-----------------------------------------------------------------------------
(* The clients, as RelayContract lets them: a connection drops and comes    *)
(* back, and the close handler starts for a client that is stopped or has   *)
(* abandoned reconnection.                                                  *)
Drop(c) ==
    /\ life[c] = "up"
    /\ life' = [life EXCEPT ![c] = "down"]
    /\ UNCHANGED <<inStore, relayClient, routed, sub, url, held, handler,
                   closer, clobbered>>

Reconnect(c) ==
    /\ life[c] = "down"
    /\ handler[c] = "none"
    /\ life' = [life EXCEPT ![c] = "up"]
    /\ UNCHANGED <<inStore, relayClient, routed, sub, url, held, handler,
                   closer, clobbered>>

(* The handler compares, then clears the pod's pointer, then the router's.  *)
OnClose(c) ==
    /\ handler[c] = "none"
    /\ life[c] \in {"stopped", "down"}
    /\ handler' = [handler EXCEPT
                     ![c] = IF relayClient = c THEN "same" ELSE "done"]
    /\ UNCHANGED <<inStore, relayClient, routed, sub, url, held, life, closer,
                   clobbered>>

ClearPod(c) ==
    /\ handler[c] = "same"
    /\ relayClient' = NoClient
    /\ clobbered' = (clobbered \/ relayClient \notin {c, NoClient})
    /\ handler' = [handler EXCEPT ![c] = "cleared"]
    /\ UNCHANGED <<inStore, routed, sub, url, held, life, closer>>

ClearRouted(c) ==
    /\ handler[c] = "cleared"
    /\ routed' = NoClient
    /\ handler' = [handler EXCEPT ![c] = "done"]
    /\ UNCHANGED <<inStore, relayClient, sub, url, held, life, closer,
                   clobbered>>

-----------------------------------------------------------------------------
PodNext ==
    \/ \E s \in Subs :
        \/ Lookup(s) \/ CheckExisting(s) \/ StopOld(s) \/ Connect(s)
        \/ Install(s) \/ DiscardOwn(s) \/ RouteOutput(s)
        \/ Drop(s) \/ Reconnect(s) \/ OnClose(s) \/ ClearPod(s)
        \/ ClearRouted(s)
    \/ \E d \in Closers :
        \/ RemovePod(d) \/ Unsubscribe(d) \/ TakeClient(d) \/ StopTaken(d)
        \/ ClearRouter(d)

PodSpec == PodInit /\ [][PodNext]_podVars

-----------------------------------------------------------------------------
(* The type of every variable.                                              *)
PodTypeOK ==
    /\ inStore \in BOOLEAN
    /\ relayClient \in Subs \cup {NoClient}
    /\ routed \in Subs \cup {NoClient}
    /\ sub \in [Subs -> {"idle", "found", "stopOld", "dial", "connected",
                         "installed", "discard", "done"}]
    /\ url \in [Subs -> Relays]
    /\ held \in [Subs \cup Closers -> Subs \cup {NoClient}]
    /\ life \in [Subs -> {"none", "up", "down", "stopped"}]
    /\ handler \in [Subs -> {"none", "same", "cleared", "done"}]
    /\ closer \in [Closers -> {"idle", "take", "stop", "clear", "done"}]
    /\ clobbered \in BOOLEAN

(* A client that may still be connected, or reconnect.                      *)
Alive(c) == life[c] \in {"up", "down"} /\ handler[c] = "none"

(* A client that is alive is the pod's, or a goroutine still holds it: the  *)
(* one that created it, or the one that took it from the pod to stop it.    *)
(* Any other would keep its socket and reconnect for ever.  The exception   *)
(* is the close handler's comparison going stale: ClearPod.                 *)
NoStrayClient ==
    \A c \in Subs : Alive(c) /\ ~clobbered =>
        \/ relayClient = c
        \/ sub[c] \in {"connected", "discard"}
        \/ \E g \in Subs \cup Closers : held[g] = c
=============================================================================
