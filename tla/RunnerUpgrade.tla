---------------------------- MODULE RunnerUpgrade ----------------------------
(***************************************************************************)
(* The remote upgrade of a runner (message_handler_upgrade.go,             *)
(* upgrade_coordinator.go): each command is handled by a goroutine of its  *)
(* own, next to those that create and terminate pods.  The restart         *)
(* replaces the process (exec_restart.go) or, on Windows, is left to the   *)
(* service manager (exec_restart_windows.go): the old process runs on      *)
(* until it is stopped.  Pods whose daemon runs are recovered, those that  *)
(* are still being built are not.                                          *)
(***************************************************************************)
EXTENDS Naturals, FiniteSets

CONSTANTS Cmds,     \* upgrade commands
          Forced,   \* those with the force flag
          Pods      \* pods the backend may create

VARIABLES
    upgrading,      \* UpgradeCoordinator.upgrading
    draining,       \* UpgradeCoordinator.draining
    restartFn,      \* UpgradeCoordinator.restartFn, by what it does
    cmd,            \* progress of each command
    pod             \* the pod store and what it holds

upgradeVars == <<upgrading, draining, restartFn, cmd, pod>>

(* A command that TryStartUpgrade let through and that has not finished.    *)
Active == {"admitted", "allowed", "updating", "updated", "restarting", "failed",
           "leaving"}

(* One that has entered draining mode and not left it.                      *)
Working == {"updating", "updated", "restarting", "failed"}

UpgradeInit ==
    /\ upgrading = FALSE
    /\ draining = FALSE
    /\ restartFn \in {"nil", "exec", "service"}
    /\ cmd = [c \in Cmds |-> "none"]
    /\ pod = [p \in Pods |-> "absent"]

-----------------------------------------------------------------------------
(* Pods come and go meanwhile: OnCreatePod does not ask CanAcceptPod.       *)
CreatePod(p) ==
    /\ pod[p] = "absent"
    /\ pod' = [pod EXCEPT ![p] = "building"]
    /\ UNCHANGED <<upgrading, draining, restartFn, cmd>>

PodStarts(p) ==
    /\ pod[p] = "building"
    /\ pod' = [pod EXCEPT ![p] = "running"]
    /\ UNCHANGED <<upgrading, draining, restartFn, cmd>>

PodGone(p) ==
    /\ pod[p] \in {"building", "running"}
    /\ pod' = [pod EXCEPT ![p] = "absent"]
    /\ UNCHANGED <<upgrading, draining, restartFn, cmd>>

GetActivePodCount == Cardinality({p \in Pods : pod[p] # "absent"})

-----------------------------------------------------------------------------
(* Mutant: a command is admitted whatever the flag says.                    *)
TryStartUnlocked(c) ==
    /\ cmd[c] = "none"
    /\ upgrading' = TRUE
    /\ cmd' = [cmd EXCEPT ![c] = "admitted"]
    /\ UNCHANGED <<draining, restartFn, pod>>

(* TryStartUpgrade: one command at a time; another one is discarded.        *)
TryStartUpgrade(c) ==
    /\ cmd[c] = "none"
    /\ upgrading' = TRUE
    /\ cmd' = [cmd EXCEPT ![c] = IF upgrading THEN "discarded" ELSE "admitted"]
    /\ UNCHANGED <<draining, restartFn, pod>>

(* Without force a runner with pods refuses and clears the flag.            *)
CheckPodCount(c) ==
    /\ cmd[c] = "admitted"
    /\ \/ /\ c \notin Forced /\ GetActivePodCount > 0
          /\ upgrading' = FALSE
          /\ cmd' = [cmd EXCEPT ![c] = "refused"]
       \/ /\ c \in Forced \/ GetActivePodCount = 0
          /\ cmd' = [cmd EXCEPT ![c] = "allowed"]
          /\ UNCHANGED upgrading
    /\ UNCHANGED <<draining, restartFn, pod>>

EnterDraining(c) ==
    /\ cmd[c] = "allowed"
    /\ draining' = TRUE
    /\ cmd' = [cmd EXCEPT ![c] = "updating"]
    /\ UNCHANGED <<upgrading, restartFn, pod>>

(* The binary is replaced, or the runner is shutting down, the update fails *)
(* or there is none.                                                        *)
Update(c) ==
    /\ cmd[c] = "updating"
    /\ \E r \in {"updated", "failed"} : cmd' = [cmd EXCEPT ![c] = r]
    /\ UNCHANGED <<upgrading, draining, restartFn, pod>>

(* restartFn returns an error, or there is none: the new binary waits for a *)
(* manual restart.                                                          *)
RestartFails(c) ==
    /\ cmd[c] = "updated"
    /\ cmd' = [cmd EXCEPT ![c] = "failed"]
    /\ UNCHANGED <<upgrading, draining, restartFn, pod>>

(* restartFn returns nil and draining is not to be restored: the service    *)
(* manager has been asked to restart the runner, or, in an interactive      *)
(* process, its user has.                                                   *)
RestartReturns(c) ==
    /\ restartFn = "service"
    /\ cmd[c] = "updated"
    /\ cmd' = [cmd EXCEPT ![c] = "restarting"]
    /\ UNCHANGED <<upgrading, draining, restartFn, pod>>

(* The new process starts with no flag and no handler and recovers the pods *)
(* whose daemon runs.                                                       *)
NewProcess ==
    /\ upgrading' = FALSE
    /\ draining' = FALSE
    /\ cmd' = [c \in Cmds |->
                 IF cmd[c] \in Active \cup {"handed"} THEN "restarted" ELSE cmd[c]]
    /\ pod' = [p \in Pods |->
                 IF pod[p] = "running" THEN "running" ELSE "absent"]
    /\ UNCHANGED restartFn

(* syscall.Exec succeeds and does not return.                               *)
Exec(c) ==
    /\ restartFn = "exec"
    /\ cmd[c] = "updated"
    /\ NewProcess

(* The service manager, or the user, gets round to it: while restartFn      *)
(* runs, before the handler has returned or long after, when another        *)
(* upgrade may be under way; or never.                                      *)
ServiceRestart(c) ==
    /\ restartFn = "service"
    /\ cmd[c] \in {"updated", "restarting", "handed"}
    /\ NewProcess

(* The deferred function: pods are accepted again, unless the restart is    *)
(* on its way, then the next upgrade is.                                    *)
RestoreDraining(c) ==
    /\ cmd[c] = "failed"
    /\ draining' = FALSE
    /\ cmd' = [cmd EXCEPT ![c] = "leaving"]
    /\ UNCHANGED <<upgrading, restartFn, pod>>

FinishUpgrade(c) ==
    /\ cmd[c] \in {"leaving", "restarting"}
    /\ upgrading' = FALSE
    /\ cmd' = [cmd EXCEPT ![c] = IF @ = "leaving" THEN "done" ELSE "handed"]
    /\ UNCHANGED <<draining, restartFn, pod>>

-----------------------------------------------------------------------------
UpgradeNext ==
    \/ \E p \in Pods : CreatePod(p) \/ PodStarts(p) \/ PodGone(p)
    \/ \E c \in Cmds :
          \/ TryStartUpgrade(c) \/ CheckPodCount(c) \/ EnterDraining(c)
          \/ Update(c) \/ RestartFails(c) \/ RestartReturns(c)
          \/ Exec(c) \/ ServiceRestart(c)
          \/ RestoreDraining(c) \/ FinishUpgrade(c)

UpgradeSpec == UpgradeInit /\ [][UpgradeNext]_upgradeVars

-----------------------------------------------------------------------------
(* The type of every variable.                                              *)
UpgradeTypeOK ==
    /\ upgrading \in BOOLEAN /\ draining \in BOOLEAN
    /\ restartFn \in {"nil", "exec", "service"}
    /\ cmd \in [Cmds -> Active \cup {"none", "discarded", "refused", "done",
                                     "handed", "restarted"}]
    /\ pod \in [Pods -> {"absent", "building", "running"}]

(* Two upgrades never replace the binary at the same time, and upgrading is *)
(* set only while a command is under way, however commands fail, hand the   *)
(* restart over or are restarted under (TryStartUpgrade, FinishUpgrade).    *)
(* No command leaves draining mode under one that still works, and one that *)
(* has ended leaves the runner in it only if it handed the restart to the   *)
(* service manager (SetDraining, restoreDraining in runUpgrade).            *)
OneUpgrade ==
    /\ \A c, d \in Cmds : cmd[c] \in Active /\ cmd[d] \in Active => c = d
    /\ upgrading <=> \E c \in Cmds : cmd[c] \in Active
    /\ (\E c \in Cmds : cmd[c] \in Working) => draining
    /\ draining => \E c \in Cmds : cmd[c] \in Working \cup {"handed"}
=============================================================================
