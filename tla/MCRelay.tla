------------------------------- MODULE MCRelay -------------------------------
(* Instances for TLC of the runner's relay client, of the relay server's    *)
(* channel and of the relay's registration with the backend.  They share no *)
(* state, so a behaviour moves one of them.                                 *)
EXTENDS RelayClient, RelayChannel

CONSTANT MaxFaults

ASSUME FaultsAssumption == MaxFaults \in Nat

VARIABLES
    part,       \* the module that moves
    relay, request, registered, memory, healthy, info, alive, check, deleting,
    faults

registryVars == <<relay, request, registered, memory, healthy, info, alive,
    check, deleting, faults>>

Registry == INSTANCE RelayRegistry

(* The relay has gone and nothing is left to do.                            *)
RegistryIdle ==
    /\ relay = "gone" /\ request = "none" /\ registered = FALSE
    /\ memory = "none" /\ healthy = FALSE /\ info = FALSE /\ alive = FALSE
    /\ check = "none" /\ deleting = 0 /\ faults = 0

RelayInit ==
    /\ part \in {"client", "channel", "registry"}
    /\ Init /\ ChannelInit
    /\ IF part = "registry" THEN Registry!Init ELSE RegistryIdle

RelayNext ==
    \/ /\ part = "client" /\ Next
       /\ UNCHANGED <<part, chVars, registryVars>>
    \/ /\ part = "channel" /\ ChannelNext
       /\ UNCHANGED <<part, vars, registryVars>>
    \/ /\ part = "registry" /\ Registry!Next
       /\ UNCHANGED <<part, vars, chVars>>

(* None of the fair actions of a part that does not move is enabled.        *)
RelaySpec ==
    /\ RelayInit /\ [][RelayNext]_<<part, vars, chVars, registryVars>>
    /\ Fairness /\ ChannelFairness /\ Registry!Fairness

-----------------------------------------------------------------------------
(* The types of the three modules.                                          *)
RelayTypes == TypeOK /\ ChannelTypeOK /\ Registry!TypeOK

(* A relay that stays up is entered as healthy again and again.             *)
LiveRelayIsRegistered == Registry!LiveRelayIsRegistered
(* A relay that is gone disappears from the manager for good.               *)
GoneRelayIsForgotten == Registry!GoneRelayIsForgotten
=============================================================================
