------------------------------ MODULE Autopilot ------------------------------
(***************************************************************************)
(* The autopilot controller of a pod (runner/internal/autopilot): Start,   *)
(* the callbacks that report a waiting pod (the state detector, the agent  *)
(* monitor, the resume callback), the decisions they start in goroutines,  *)
(* the user's commands and Stop.                                           *)
(***************************************************************************)
EXTENDS Integers, FiniteSets

CONSTANTS Triggers,             \* goroutines that run OnPodWaiting
          MaxIterations,        \* the configured iteration limit
          MaxConsecutiveErrors,
          MaxAdditional         \* bound on the iterations the user may add

(* Finitely many goroutines; an iteration limit of zero is replaced by the  *)
(* default one.                                                             *)
ASSUME LimitsAssumption ==
    /\ IsFiniteSet(Triggers)
    /\ MaxIterations \in Nat \ {0} /\ MaxAdditional \in Nat
    /\ MaxConsecutiveErrors \in Nat

VARIABLES
    phase,          \* PhaseManager.phase
    takeover,       \* UserInteractionHandler.userTakeover
    iter,           \* IterationController.currentIter
    maxIter,        \* IterationController.maxIterations
    errors,         \* IterationController.consecutiveErrors, up to its limit
    gap,            \* the last trigger is less than minTriggerGap ago
    start,          \* progress of Start
    trigger,        \* progress of each OnPodWaiting
    deciding,       \* decision goroutines (wg)
    stopped,        \* AutopilotController.stopped, under wgMu
    cancelled,      \* the controller's context
    stop,           \* progress of Stop
    decisions,      \* history: decisions started
    early           \* history: iterations counted before the initial one

vars == <<phase, takeover, iter, maxIter, errors, gap, start, trigger, deciding,
          stopped, cancelled, stop, decisions, early>>
control == <<takeover, iter, maxIter, errors, gap>>
history == <<decisions, early>>
lifetime == <<stopped, cancelled, stop>>

Terminal == {"completed", "failed", "stopped", "max_iterations"}
Phases == Terminal \cup {"initializing", "running", "paused", "user_takeover",
                         "waiting_approval"}
CanProcessIteration ==
    phase \notin Terminal \cup {"paused", "waiting_approval"}

Init ==
    /\ phase = "initializing"
    /\ takeover = FALSE
    /\ iter = 0 /\ maxIter = MaxIterations
    /\ errors = 0
    /\ gap = FALSE
    /\ start = "detecting"
    /\ trigger = [t \in Triggers |-> "idle"]
    /\ deciding = 0
    /\ stopped = FALSE /\ cancelled = FALSE /\ stop = "none"
    /\ decisions = 0 /\ early = 0

-----------------------------------------------------------------------------
(* Mutant: the decision is started without a look at stopped.               *)
StartDecisionAnyway ==
    /\ deciding' = deciding + 1
    /\ decisions' = decisions + 1
    /\ UNCHANGED early

(* The stopped check and wg.Add under wgMu, then the decision's goroutine.  *)
StartDecision ==
    /\ deciding' = IF stopped THEN deciding ELSE deciding + 1
    /\ decisions' = IF stopped THEN decisions ELSE decisions + 1
    /\ UNCHANGED early

-----------------------------------------------------------------------------
(* Start: with a waiting pod the initial iteration begins, whatever the     *)
(* detector that runs already has triggered; then the phase is set.         *)
SendInitialPrompt ==
    /\ start = "detecting"
    /\ gap' = TRUE
    /\ iter' = 1
    /\ early' = iter
    /\ start' = "prompting"
    /\ UNCHANGED <<phase, takeover, maxIter, errors, trigger, deciding, stopped,
                   cancelled, stop, decisions>>

InitialDecision ==
    /\ start = "prompting"
    /\ StartDecision
    /\ start' = "finishing"
    /\ UNCHANGED <<phase, control, trigger, lifetime>>

PodIsExecuting ==
    /\ start = "detecting"
    /\ start' = "finishing"
    /\ UNCHANGED <<phase, control, trigger, deciding, lifetime, history>>

StartReturns ==
    /\ start = "finishing"
    /\ phase' = "running"
    /\ start' = "done"
    /\ UNCHANGED <<control, trigger, deciding, lifetime, history>>

GapElapses ==
    /\ gap
    /\ gap' = FALSE
    /\ UNCHANGED <<phase, takeover, iter, maxIter, errors, start, trigger,
                   deciding, lifetime, history>>

-----------------------------------------------------------------------------
(* OnPodWaiting: deduplication, takeover and phase, the limit, the count    *)
(* and the decision, each under a lock of its own.                          *)
CheckTriggerDedup(t) ==
    /\ trigger[t] = "idle"
    /\ ~gap
    /\ gap' = TRUE
    /\ trigger' = [trigger EXCEPT ![t] = "dedup"]
    /\ UNCHANGED <<phase, takeover, iter, maxIter, errors, start, deciding,
                   lifetime, history>>

CheckTakeover(t) ==
    /\ trigger[t] = "dedup"
    /\ trigger' = [trigger EXCEPT ![t] = IF takeover THEN "idle" ELSE "mine"]
    /\ UNCHANGED <<phase, control, start, deciding, lifetime, history>>

CheckPhase(t) ==
    /\ trigger[t] = "mine"
    /\ trigger' = [trigger EXCEPT ![t] = IF CanProcessIteration THEN "allowed"
                                         ELSE "idle"]
    /\ UNCHANGED <<phase, control, start, deciding, lifetime, history>>

(* HasReachedMaxIterations ends the autopilot.                              *)
ReachedMax(t) ==
    /\ trigger[t] \in {"allowed", "within"}
    /\ iter >= maxIter
    /\ phase' = "max_iterations"
    /\ trigger' = [trigger EXCEPT ![t] = "idle"]
    /\ UNCHANGED <<control, start, deciding, lifetime, history>>

NotReachedMax(t) ==
    /\ trigger[t] = "allowed"
    /\ iter < maxIter
    /\ trigger' = [trigger EXCEPT ![t] = "within"]
    /\ UNCHANGED <<phase, control, start, deciding, lifetime, history>>

(* Mutant: the increment relies on the check that was made before.          *)
IncrementUnchecked(t) ==
    /\ trigger[t] = "within"
    /\ iter' = iter + 1
    /\ trigger' = [trigger EXCEPT ![t] = "counted"]
    /\ UNCHANGED <<phase, takeover, maxIter, errors, gap, start, deciding,
                   lifetime, history>>

(* IncrementIteration checks the limit again under the lock.                *)
IncrementIteration(t) ==
    /\ trigger[t] = "within"
    /\ iter < maxIter
    /\ iter' = iter + 1
    /\ trigger' = [trigger EXCEPT ![t] = "counted"]
    /\ UNCHANGED <<phase, takeover, maxIter, errors, gap, start, deciding,
                   lifetime, history>>

TriggerDecides(t) ==
    /\ trigger[t] = "counted"
    /\ StartDecision
    /\ trigger' = [trigger EXCEPT ![t] = "idle"]
    /\ UNCHANGED <<phase, control, start, lifetime>>

-----------------------------------------------------------------------------
(* runSingleDecision: the control process succeeds, and the decision sets   *)
(* the phase, or lets the autopilot go on.                                  *)
DecisionSucceeds ==
    /\ deciding > 0
    /\ deciding' = deciding - 1
    /\ errors' = 0
    /\ \E p \in {"completed", "waiting_approval", "failed", phase} : phase' = p
    /\ UNCHANGED <<takeover, iter, maxIter, gap, start, trigger, lifetime,
                   history>>

(* It fails: at the limit the autopilot fails, otherwise the attempt is     *)
(* repeated unless the pod no longer waits or the controller was stopped.   *)
DecisionFails ==
    /\ deciding > 0
    /\ errors' = IF errors < MaxConsecutiveErrors THEN errors + 1 ELSE errors
    /\ \/ /\ errors + 1 >= MaxConsecutiveErrors
          /\ phase' = "failed"
          /\ deciding' = deciding - 1
       \/ /\ errors + 1 < MaxConsecutiveErrors
          /\ deciding' \in {deciding - 1, deciding}
          /\ UNCHANGED phase
    /\ UNCHANGED <<takeover, iter, maxIter, gap, start, trigger, lifetime,
                   history>>

(* An attempt begins or backs off when the context is cancelled.            *)
DecisionCancelled ==
    /\ deciding > 0
    /\ cancelled
    /\ deciding' = deciding - 1
    /\ UNCHANGED <<phase, control, start, trigger, lifetime, history>>

-----------------------------------------------------------------------------
(* The user's commands, one after the other.                                *)
Command ==
    UNCHANGED <<iter, errors, gap, start, trigger, deciding, lifetime, history>>

Pause ==
    /\ phase = "running" /\ phase' = "paused"
    /\ Command /\ UNCHANGED <<takeover, maxIter>>

Resume ==
    /\ phase = "paused" /\ phase' = "running"
    /\ Command /\ UNCHANGED <<takeover, maxIter>>

Takeover ==
    /\ takeover' = TRUE /\ phase' = "user_takeover"
    /\ Command /\ UNCHANGED maxIter

(* Control is returned whatever the phase was, a terminal one included.     *)
Handback ==
    /\ takeover' = FALSE /\ phase' = "running"
    /\ Command /\ UNCHANGED maxIter

Approve ==
    /\ phase = "waiting_approval"
    /\ \/ phase' = "stopped" /\ UNCHANGED maxIter
       \/ /\ phase' = "running"
          /\ \E n \in 0..(MaxIterations + MaxAdditional - maxIter) :
                maxIter' = maxIter + n
    /\ Command /\ UNCHANGED takeover

-----------------------------------------------------------------------------
(* Stop, once: the phase; stopped under wgMu; the context; the wait for the *)
(* decisions, for at most 30 seconds.                                       *)
StopPhase ==
    /\ stop = "none"
    /\ phase' = "stopped"
    /\ stop' = "begun"
    /\ UNCHANGED <<control, start, trigger, deciding, stopped, cancelled,
                   history>>

StopMarks ==
    /\ stop = "begun"
    /\ stopped' = TRUE
    /\ stop' = "marked"
    /\ UNCHANGED <<phase, control, start, trigger, deciding, cancelled,
                   history>>

StopCancels ==
    /\ stop = "marked"
    /\ cancelled' = TRUE
    /\ stop' = "waiting"
    /\ UNCHANGED <<phase, control, start, trigger, deciding, stopped, history>>

StopWaits ==
    /\ stop = "waiting"
    /\ deciding = 0
    /\ stop' = "done"
    /\ UNCHANGED <<phase, control, start, trigger, deciding, stopped, cancelled,
                   history>>

StopTimesOut ==
    /\ stop = "waiting"
    /\ deciding > 0
    /\ stop' = "timeout"
    /\ UNCHANGED <<phase, control, start, trigger, deciding, stopped, cancelled,
                   history>>

-----------------------------------------------------------------------------
StartStep ==
    \/ SendInitialPrompt \/ InitialDecision \/ PodIsExecuting \/ StartReturns
TriggerStep(t) ==
    \/ CheckTriggerDedup(t) \/ CheckTakeover(t) \/ CheckPhase(t)
    \/ ReachedMax(t) \/ NotReachedMax(t)
    \/ IncrementIteration(t) \/ TriggerDecides(t)
UserStep == Pause \/ Resume \/ Takeover \/ Handback \/ Approve
DecisionStep == DecisionSucceeds \/ DecisionFails \/ DecisionCancelled
StopStep == StopPhase \/ StopMarks \/ StopCancels \/ StopWaits \/ StopTimesOut

Next ==
    \/ StartStep \/ GapElapses \/ (\E t \in Triggers : TriggerStep(t))
    \/ UserStep \/ DecisionStep \/ StopStep

Spec == Init /\ [][Next]_vars

-----------------------------------------------------------------------------
(* The type of every variable.                                              *)
TypeOK ==
    /\ phase \in Phases
    /\ takeover \in BOOLEAN /\ gap \in BOOLEAN
    /\ iter \in Nat /\ maxIter \in Nat /\ errors \in Nat
    /\ start \in {"detecting", "prompting", "finishing", "done"}
    /\ trigger \in [Triggers -> {"idle", "dedup", "mine", "allowed", "within",
                                 "counted"}]
    /\ deciding \in Nat /\ decisions \in Nat /\ early \in Nat
    /\ stopped \in BOOLEAN /\ cancelled \in BOOLEAN
    /\ stop \in {"none", "begun", "marked", "waiting", "done", "timeout"}

(* Once Stop has waited for the decisions none runs any more: a callback    *)
(* that was past every check cannot start one (wgMu).  The pod's terminal   *)
(* is torn down next.                                                       *)
StopEndsDecisions == stop = "done" => deciding = 0

(* The limit holds although triggers check it and count in two steps, and   *)
(* retries are free (iteration_controller.go:141-161).  Only the iterations *)
(* a trigger counted before Start set the counter to 1 come on top of it.   *)
BudgetHolds == decisions <= maxIter + early
=============================================================================
