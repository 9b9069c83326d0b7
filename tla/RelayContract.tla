---------------------------- MODULE RelayContract ----------------------------
(***************************************************************************)
(* What a pod may rely on once it has connected and started a relay client *)
(* (the RelayClient interface as message_handler_relay.go and pod.go use   *)
(* it): the connection may drop and come back, Stop takes it down for      *)
(* good, and the close handler runs at most once and only for a connection *)
(* that never comes back.                                                  *)
(***************************************************************************)
VARIABLES
    connected,      \* what IsConnected returns
    stopped,        \* Stop has taken the connection down
    notified        \* the close handler has been called

vars == <<connected, stopped, notified>>

Init == connected = TRUE /\ stopped = FALSE /\ notified = FALSE

Drop ==
    /\ connected
    /\ connected' = FALSE
    /\ UNCHANGED <<stopped, notified>>

Reconnect ==
    /\ ~connected /\ ~stopped /\ ~notified
    /\ connected' = TRUE
    /\ UNCHANGED <<stopped, notified>>

Stop ==
    /\ ~stopped
    /\ stopped' = TRUE
    /\ connected' = FALSE
    /\ UNCHANGED notified

Notify ==
    /\ ~connected /\ ~notified
    /\ notified' = TRUE
    /\ UNCHANGED <<connected, stopped>>

Next == Drop \/ Reconnect \/ Stop \/ Notify

Spec == Init /\ [][Next]_vars
=============================================================================
