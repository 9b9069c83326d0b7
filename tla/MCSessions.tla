----------------------------- MODULE MCSessions ------------------------------
(* Instances for TLC of the browsers that watch a pod, of the pod's relay   *)
(* subscriptions, of the autopilot that drives it and of the upgrade of its *)
(* runner.  They share no state, so a behaviour moves one of them.          *)
EXTENDS Autopilot, PodRelay, RunnerUpgrade, RelaySubscribers

VARIABLE part   \* the module that moves

SessionsInit ==
    /\ part \in {"watch", "pod", "autopilot", "upgrade"}
    /\ WatchInit /\ PodInit /\ Init /\ UpgradeInit
    /\ part = "pod" \/ url = [s \in Subs |-> CHOOSE r \in Relays : TRUE]
    /\ part = "upgrade" \/ restartFn = "exec"

SessionsNext ==
    \/ /\ part = "watch" /\ WatchNext
       /\ UNCHANGED <<part, podVars, vars, upgradeVars>>
    \/ /\ part = "pod" /\ PodNext
       /\ UNCHANGED <<part, sbVars, vars, upgradeVars>>
    \/ /\ part = "autopilot" /\ Next
       /\ UNCHANGED <<part, sbVars, podVars, upgradeVars>>
    \/ /\ part = "upgrade" /\ UpgradeNext
       /\ UNCHANGED <<part, sbVars, podVars, vars>>

SessionsSpec ==
    SessionsInit /\ [][SessionsNext]_<<part, sbVars, podVars, vars, upgradeVars>>

-----------------------------------------------------------------------------
(* The types of the four modules.                                           *)
SessionTypes == WatchTypeOK /\ PodTypeOK /\ TypeOK /\ UpgradeTypeOK
=============================================================================
