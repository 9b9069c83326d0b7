------------------------------ MODULE LoopRuns ------------------------------
(***************************************************************************)
(* The runs of one loop (backend service/loop, infra/loop_run_repo.go):    *)
(* triggering under the concurrency cap, the StartRun goroutine, and the   *)
(* many paths that finish a run (pod and autopilot events, timeouts, idle  *)
(* pods, approval timeouts, orphan cleanup, the user), which race and are  *)
(* told apart only by FinishRun's "finished_at IS NULL".                   *)
(*                                                                         *)
(* A run's pod is named after the run.  What happens to the pod row        *)
(* (PodCoordinator, PodService) is reduced to the statuses and events that *)
(* PodLifecycle shows it to go through.                                    *)
(***************************************************************************)
EXTENDS Integers, FiniteSets

CONSTANTS
    MaxRuns,            \* bound: rows that are ever created
    MaxConcurrentRuns,  \* loops.max_concurrent_runs
    MaxRetainedRuns,    \* loops.max_retained_runs
    MaxInFlight,        \* bound: completions and events under way together
    Scenarios           \* what is explored: how many runs, in which execution
                        \* mode, with which of the moves below

Runs == 1..MaxRuns
NoRun == 0

AllMoves == {"crash", "cancel", "orphan", "idle", "approval", "attachFails",
             "delete", "disable"}

ASSUME LoopAssumption ==
    /\ MaxRuns \in Nat /\ MaxConcurrentRuns \in Nat
    /\ MaxRetainedRuns \in Nat \ {0} /\ MaxInFlight \in Nat \ {0}
    /\ Scenarios \subseteq [runs : 0..MaxRuns, mode : {"direct", "autopilot"},
                             moves : SUBSET AllMoves]

VARIABLES
    \* the rows of loops and loop_runs
    scenario,           \* fixed: holds execution_mode
    loopStatus,         \* status; "gone" without the row
    deleting,           \* a Delete has found no active run
    lastPodKey,         \* last_pod_key, as the run whose pod it is
    total, successful, failed,
    created,            \* rows ever inserted
    deleted,            \* rows removed again
    status, finished,   \* status, finished_at
    podKey,             \* runs with a pod_key
    \* the pods and autopilot_controllers rows of a run
    pod, phase,
    killed,             \* pods told to terminate whose end the runner may report
    \* goroutines of the backend
    starter,            \* where StartRun is
    source,             \* the sourcePodKey StartRun resumes from
    events,             \* published and not yet handled
    work,               \* completions under way
    \* history
    crashed, recovered, userKilled,
    uncounted           \* finished runs whose statistics found no row any more

loopVars  == <<scenario, loopStatus, deleting, lastPodKey, total, successful,
               failed>>
rowVars   == <<created, deleted, status, finished, podKey>>
podVars   == <<pod, phase, killed>>
startVars == <<starter, source>>
history   == <<crashed, recovered, userKilled, uncounted>>
vars == <<loopVars, rowVars, podVars, startVars, events, work, history>>

(* ActiveStatuses: "running" stands for an initializing pod too, which the  *)
(* cap and the timeouts treat alike and which an idle check only spares for *)
(* a while.  No running code writes "paused" or "disconnected".             *)
ActivePod   == {"running"}
DonePod     == {"completed", "terminated", "error"}
EndPhases   == {"completed", "failed", "stopped", "max_iterations"}
EndStatuses == {"completed", "failed", "timeout", "cancelled"}
Failures    == {"failed", "timeout", "cancelled"}

Rows == (1..created) \ deleted

Init ==
    /\ scenario \in Scenarios /\ loopStatus = "enabled" /\ deleting = FALSE
    /\ lastPodKey = NoRun
    /\ total = 0 /\ successful = 0 /\ failed = 0
    /\ created = 0 /\ deleted = {}
    /\ status = [r \in Runs |-> "pending"] /\ finished = {} /\ podKey = {}
    /\ pod = [r \in Runs |-> "none"] /\ phase = [r \in Runs |-> "none"]
    /\ killed = {}
    /\ starter = [r \in Runs |-> "none"] /\ source = [r \in Runs |-> NoRun]
    /\ events = {} /\ work = {}
    /\ crashed = FALSE /\ recovered = {} /\ userKilled = {} /\ uncounted = {}

-----------------------------------------------------------------------------
(* Helpers.                                                                 *)

(* A completion: who finishes which run how, and what it does next.         *)
Task(src, r, s, step) == [src |-> src, run |-> r, status |-> s, step |-> step]
Advance(t, step) == (work \ {t}) \cup {[t EXCEPT !.step = step]}
Done(t) == work \ {t}
InFlight == Cardinality(work) + Cardinality(events)
Begin(t) == InFlight < MaxInFlight /\ t \notin work /\ work' = work \cup {t}

(* Mutant: a terminated pod is not done for the loop.                       *)
DeriveWithoutTerminated(podStatus, autopilotPhase) ==
    CASE autopilotPhase \in {"completed", "max_iterations"} -> "completed"
      [] autopilotPhase = "failed" -> "failed"
      [] autopilotPhase = "stopped" -> "cancelled"
      [] podStatus = "completed" -> "completed"
      [] podStatus = "error" -> "failed"
      [] OTHER -> "running"

(* DeriveRunStatus: a terminal autopilot phase first, then a done pod.      *)
DeriveRunStatus(podStatus, autopilotPhase) ==
    CASE autopilotPhase \in {"completed", "max_iterations"} -> "completed"
      [] autopilotPhase = "failed" -> "failed"
      [] autopilotPhase = "stopped" -> "cancelled"
      [] podStatus = "completed" -> "completed"
      [] podStatus = "terminated" -> "cancelled"
      [] podStatus = "error" -> "failed"
      [] OTHER -> "running"

(* Mutant: only pods count, not the runs that wait for theirs.              *)
CountedByPod(r) == r \in podKey /\ pod[r] \in ActivePod

(* The count of TriggerRunAtomic and CountActiveRuns, by pod status.        *)
Counted(r) == IF r \in podKey THEN pod[r] \in ActivePod ELSE status[r] = "pending"

ActiveRuns == {r \in Rows : Counted(r)}

(* PodCoordinator.TerminatePod: the row becomes completed, whatever it was, *)
(* and nothing is published; the runner may report the end later.           *)
TerminatePod(r) ==
    /\ pod' = [pod EXCEPT ![r] = "completed"]
    /\ killed' = IF pod[r] \in ActivePod \cup {"orphaned"} THEN killed \cup {r} ELSE killed
    /\ UNCHANGED phase

-----------------------------------------------------------------------------
(* Triggering and starting.                                                 *)

(* TriggerRunAtomic: the loop row is locked, so the count and the insert    *)
(* are one step; a run over the cap is inserted as skipped and finished,    *)
(* and counted afterwards.  Otherwise StartRun gets a goroutine with the    *)
(* loop as read here.                                                       *)
TriggerRun ==
    /\ created < scenario.runs /\ loopStatus = "enabled" /\ InFlight < MaxInFlight
    /\ created' = created + 1
    /\ IF Cardinality(ActiveRuns) >= MaxConcurrentRuns
       THEN /\ status' = [status EXCEPT ![created'] = "skipped"]
            /\ finished' = finished \cup {created'}
            /\ work' = work \cup {Task("skip", created', "skipped", "stats")}
            /\ UNCHANGED startVars
       ELSE /\ starter' = [starter EXCEPT ![created'] = "check"]
            /\ source' = [source EXCEPT ![created'] = lastPodKey]
            /\ UNCHANGED <<status, finished, work>>
    /\ UNCHANGED <<loopVars, deleted, podKey, podVars, events, history>>

(* StartRun first looks whether the run was finished meanwhile.             *)
StartCheck(r) ==
    /\ starter[r] = "check"
    /\ starter' = [starter EXCEPT ![r] =
                     IF r \in Rows /\ r \notin finished THEN "create" ELSE "none"]
    /\ UNCHANGED <<loopVars, rowVars, podVars, source, events, work, history>>

(* CreatePod succeeds.  After a degraded resume the stale chain is cleared. *)
StartCreates(r) ==
    /\ starter[r] \in {"create", "fresh"}
    /\ pod' = [pod EXCEPT ![r] = "running"]
    /\ lastPodKey' = IF starter[r] = "fresh" THEN NoRun ELSE lastPodKey
    /\ starter' = [starter EXCEPT ![r] =
                     IF scenario.mode = "autopilot" THEN "autopilot" ELSE "attach"]
    /\ UNCHANGED <<scenario, loopStatus, deleting, total, successful, failed, rowVars, phase, killed,
                   source, events, work, history>>

(* CreatePod fails: a resume is tried once more without its source.         *)
StartFails(r) ==
    /\ \/ /\ starter[r] = "create" /\ source[r] # NoRun
          /\ starter' = [starter EXCEPT ![r] = "fresh"]
          /\ UNCHANGED work
       \/ /\ starter[r] = "fresh" \/ (starter[r] = "create" /\ source[r] = NoRun)
          /\ starter' = [starter EXCEPT ![r] = "none"]
          /\ Begin(Task("start", r, "failed", "finish"))
    /\ UNCHANGED <<loopVars, rowVars, podVars, source, events, history>>

(* startAutopilot succeeds ...                                              *)
StartAutopilot(r) ==
    /\ starter[r] = "autopilot"
    /\ phase' = [phase EXCEPT ![r] = "active"]
    /\ starter' = [starter EXCEPT ![r] = "attach"]
    /\ UNCHANGED <<loopVars, rowVars, pod, killed, source, events, work, history>>

(* ... or fails: the pod is terminated, then the run is marked failed.      *)
StartAutopilotFails(r) ==
    /\ starter[r] = "autopilot"
    /\ TerminatePod(r)
    /\ starter' = [starter EXCEPT ![r] = "none"]
    /\ Begin(Task("start", r, "failed", "finish"))
    /\ UNCHANGED <<loopVars, rowVars, source, events, history>>

(* SetRunPodKey, whatever has become of the run; its error is only logged.  *)
SetRunPodKey(r) ==
    /\ starter[r] = "attach"
    /\ podKey' = IF r \in Rows THEN podKey \cup {r} ELSE podKey
    /\ starter' = [starter EXCEPT ![r] = "none"]
    /\ UNCHANGED <<loopVars, created, deleted, status, finished, podVars, source, events,
                   work, history>>

SetRunPodKeyFails(r) ==
    /\ "attachFails" \in scenario.moves
    /\ starter[r] = "attach"
    /\ starter' = [starter EXCEPT ![r] = "none"]
    /\ UNCHANGED <<loopVars, rowVars, podVars, source, events, work, history>>

-----------------------------------------------------------------------------
(* The pod and its autopilot, outside the loop service.                     *)

(* The runner reports the end, or a user terminates the pod: row and event. *)
PodEnds(r, s) ==
    /\ \/ pod[r] \in ActivePod
       \/ pod[r] = "orphaned" /\ s # "terminated"
       \/ r \in killed /\ s # "terminated"
    /\ InFlight < MaxInFlight
    /\ pod' = [pod EXCEPT ![r] = s]
    /\ killed' = IF s = "terminated" THEN killed \cup {r} ELSE killed \ {r}
    /\ events' = events \cup {<<"pod", r, s>>}
    /\ UNCHANGED <<loopVars, rowVars, phase, startVars, work, history>>

(* The pod's runner is lost, and may come back.                             *)
PodOrphaned(r) ==
    /\ "orphan" \in scenario.moves
    /\ pod[r] = "running"
    /\ pod' = [pod EXCEPT ![r] = "orphaned"]
    /\ UNCHANGED <<loopVars, rowVars, phase, killed, startVars, events, work, history>>

PodRecovers(r) ==
    /\ pod[r] = "orphaned"
    /\ pod' = [pod EXCEPT ![r] = "running"]
    /\ recovered' = recovered \cup {r}
    /\ UNCHANGED <<loopVars, rowVars, phase, killed, startVars, events, work, crashed,
                   userKilled, uncounted>>

AutopilotEnds(r, p) ==
    /\ phase[r] = "active" /\ pod[r] \in ActivePod /\ InFlight < MaxInFlight
    /\ phase' = [phase EXCEPT ![r] = p]
    /\ events' = events \cup {<<"autopilot", r, p>>}
    /\ UNCHANGED <<loopVars, rowVars, pod, killed, startVars, work, history>>

-----------------------------------------------------------------------------
(* Handlers that find a run to finish.                                      *)

(* HandlePodTerminated: an unfinished run with this pod_key, if any.        *)
HandlePodTerminated(r, s) ==
    /\ <<"pod", r, s>> \in events
    /\ events' = events \ {<<"pod", r, s>>}
    /\ IF r \in (podKey \cap Rows) \ finished
       THEN work' = work \cup {Task("pod", r, DeriveRunStatus(s, phase[r]), "finish")}
       ELSE UNCHANGED work
    /\ UNCHANGED <<loopVars, rowVars, podVars, startVars, history>>

(* The subscription passes on every terminal phase but max_iterations.      *)
HandleAutopilotTerminated(r, p) ==
    /\ <<"autopilot", r, p>> \in events
    /\ events' = events \ {<<"autopilot", r, p>>}
    /\ IF r \in (podKey \cap Rows) \ finished /\ p # "max_iterations"
       THEN work' = work \cup {Task("autopilot", r, DeriveRunStatus("none", p), "finish")}
       ELSE UNCHANGED work
    /\ UNCHANGED <<loopVars, rowVars, podVars, startVars, history>>

CheckTimeoutRuns(r) ==
    /\ r \in (podKey \cap Rows) \ finished /\ pod[r] \in ActivePod
    /\ Begin(Task("timeout", r, "timeout", "finish"))
    /\ UNCHANGED <<loopVars, rowVars, podVars, startVars, events, history>>

CheckIdleLoopPods(r) ==
    /\ "idle" \in scenario.moves
    /\ r \in (podKey \cap Rows) \ finished /\ pod[r] = "running"
    /\ Begin(Task("idle", r, "completed", "finish"))
    /\ UNCHANGED <<loopVars, rowVars, podVars, startVars, events, history>>

(* Mutant: the cleanup looks only for runs whose StartRun is still there.   *)
CleanupOfStarting(r) ==
    /\ starter[r] # "none"
    /\ r \in Rows \ (podKey \cup finished) /\ status[r] = "pending"
    /\ Begin(Task("orphan", r, "failed", "finish"))
    /\ UNCHANGED <<loopVars, rowVars, podVars, startVars, events, history>>

(* CheckApprovalTimeouts stops the autopilot's row, then the pod; no event  *)
(* is published for either.                                                 *)
CheckApprovalTimeouts(r) ==
    /\ "approval" \in scenario.moves
    /\ phase[r] = "active"
    /\ phase' = [phase EXCEPT ![r] = "stopped"]
    /\ Begin(Task("approval", r, "cancelled", "kill"))
    /\ UNCHANGED <<loopVars, rowVars, pod, killed, startVars, events, history>>

CleanupOrphanPendingRuns(r) ==
    /\ r \in Rows \ (podKey \cup finished) /\ status[r] = "pending"
    /\ Begin(Task("orphan", r, "failed", "finish"))
    /\ UNCHANGED <<loopVars, rowVars, podVars, startVars, events, history>>

(* CancelRun reads the run, with its status resolved, and then terminates   *)
(* its pod or, when it read none, marks the run.                            *)
CancelRun(r) ==
    /\ "cancel" \in scenario.moves
    /\ r \in Rows \ finished
    /\ r \in podKey => DeriveRunStatus(pod[r], phase[r]) = "running"
    /\ Begin(Task("cancel", r, "cancelled", IF r \in podKey THEN "kill" ELSE "finish"))
    /\ UNCHANGED <<loopVars, rowVars, podVars, startVars, events, history>>

-----------------------------------------------------------------------------
(* Finishing a run: HandleRunCompleted and markRunTerminal.                 *)

Marks == {"start", "orphan", "cancel"}      \* markRunTerminal's callers
Kills == {"timeout", "idle"}                \* callers that terminate the pod next

AfterRun(t) == IF t.src \in Kills THEN Advance(t, "kill") ELSE Done(t)

(* Mutant: FinishRun without "finished_at IS NULL".                         *)
FinishUnguarded(t) ==
    /\ t.step = "finish"
    /\ finished' = finished \cup {t.run}
    /\ status' = [status EXCEPT ![t.run] = t.status]
    /\ work' = Advance(t, "stats")
    /\ UNCHANGED <<loopVars, created, deleted, podKey, podVars, startVars, events, history>>

(* FinishRun updates the row only if finished_at is still null; the loser   *)
(* skips every side effect.                                                 *)
FinishRun(t) ==
    /\ t.step = "finish"
    /\ IF t.run \in Rows \ finished
       THEN /\ finished' = finished \cup {t.run}
            /\ status' = [status EXCEPT ![t.run] = t.status]
            /\ work' = Advance(t, "stats")
       ELSE /\ work' = AfterRun(t)
            /\ UNCHANGED <<finished, status>>
    /\ UNCHANGED <<loopVars, created, deleted, podKey, podVars, startVars, events, history>>

(* IncrementRunStats, on the loop's row if it is still there.               *)
(* markRunTerminal reads the run again first and leaves the statistics out  *)
(* when its row is gone.                                                    *)
Counts(t) == loopStatus # "gone" /\ (t.src \in Marks => t.run \in Rows)

UpdateRunStats(t) ==
    LET n == IF Counts(t) THEN 1 ELSE 0
    IN  /\ t.step = "stats"
        /\ total' = total + n
        /\ successful' = IF t.status = "completed" THEN successful + n ELSE successful
        /\ failed' = IF t.status \in Failures THEN failed + n ELSE failed
        /\ uncounted' = IF Counts(t) THEN uncounted ELSE uncounted \cup {t.run}
        /\ work' = IF t.src \in Marks \cup {"skip"} THEN Done(t) ELSE Advance(t, "state")
        /\ UNCHANGED <<scenario, loopStatus, deleting, lastPodKey, rowVars, podVars,
                       startVars, events, crashed, recovered, userKilled>>

(* The resume chain of a persistent sandbox: a completed run becomes its    *)
(* head, a failed one clears it.                                            *)
UpdateRuntimeState(t) ==
    /\ t.step = "state"
    /\ lastPodKey' = CASE loopStatus = "gone" -> lastPodKey
                       [] t.status = "completed" -> t.run
                       [] t.status = "failed" -> NoRun
                       [] OTHER -> lastPodKey
    /\ work' = Advance(t, "trim")
    /\ UNCHANGED <<scenario, loopStatus, deleting, total, successful, failed, rowVars, podVars, startVars,
                   events, history>>

(* DeleteOldFinishedRuns keeps the newest finished rows.                    *)
Retained == {r \in Rows \cap finished :
               Cardinality({q \in Rows \cap finished : q > r}) < MaxRetainedRuns}

DeleteOldFinishedRuns(t) ==
    /\ t.step = "trim"
    /\ deleted' = deleted \cup ((Rows \cap finished) \ Retained)
    /\ work' = AfterRun(t)
    /\ UNCHANGED <<loopVars, created, status, finished, podKey, podVars, startVars, events,
                   history>>

KillPod(t) ==
    /\ t.step = "kill"
    /\ TerminatePod(t.run)
    /\ work' = Done(t)
    /\ userKilled' = IF t.src = "cancel" /\ pod[t.run] \in ActivePod
                     THEN userKilled \cup {t.run} ELSE userKilled
    /\ UNCHANGED <<loopVars, rowVars, startVars, events, crashed, recovered, uncounted>>

-----------------------------------------------------------------------------
(* The loop itself, and the server.                                         *)

SetStatus ==
    /\ "disable" \in scenario.moves
    /\ loopStatus # "gone"
    /\ loopStatus' = IF loopStatus = "enabled" THEN "disabled" ELSE "enabled"
    /\ UNCHANGED <<scenario, deleting, lastPodKey, total, successful, failed, rowVars, podVars,
                   startVars, events, work, history>>

(* Delete refuses while a row is pending and unfinished; the loop's row is  *)
(* not locked then, so a run may be triggered before the rows go.           *)
DeleteChecks ==
    /\ "delete" \in scenario.moves
    /\ loopStatus # "gone" /\ ~deleting /\ Rows \subseteq finished
    /\ deleting' = TRUE
    /\ UNCHANGED <<scenario, loopStatus, lastPodKey, total, successful, failed, rowVars, podVars,
                   startVars, events, work, history>>

DeleteLoop ==
    /\ deleting
    /\ deleted' = 1..created
    /\ loopStatus' = "gone" /\ deleting' = FALSE
    /\ UNCHANGED <<scenario, lastPodKey, total, successful, failed, created, status, finished,
                   podKey, podVars, startVars, events, work, history>>

(* The server stops: goroutines and undelivered events are gone.            *)
Crash ==
    /\ "crash" \in scenario.moves /\ ~crashed
    /\ crashed' = TRUE
    /\ starter' = [r \in Runs |-> "none"] /\ events' = {} /\ work' = {}
    /\ deleting' = FALSE
    /\ UNCHANGED <<scenario, loopStatus, lastPodKey, total, successful, failed, rowVars, podVars,
                   source, recovered, userKilled, uncounted>>

-----------------------------------------------------------------------------
Starting(r) ==
    \/ StartCheck(r) \/ StartCreates(r) \/ StartFails(r)
    \/ StartAutopilot(r) \/ StartAutopilotFails(r)
    \/ SetRunPodKey(r) \/ SetRunPodKeyFails(r)

PodMoves(r) ==
    \/ PodOrphaned(r) \/ PodRecovers(r)
    \/ \E s \in DonePod : PodEnds(r, s)
    \/ \E p \in EndPhases : AutopilotEnds(r, p)

Handles(r) ==
    \/ \E s \in DonePod : HandlePodTerminated(r, s)
    \/ \E p \in EndPhases : HandleAutopilotTerminated(r, p)

Schedules(r) ==
    \/ CheckTimeoutRuns(r) \/ CheckIdleLoopPods(r)
    \/ CheckApprovalTimeouts(r) \/ CleanupOrphanPendingRuns(r)

Completes(t) ==
    \/ FinishRun(t) \/ UpdateRunStats(t) \/ UpdateRuntimeState(t)
    \/ DeleteOldFinishedRuns(t) \/ KillPod(t)

Next ==
    \/ TriggerRun \/ SetStatus \/ DeleteChecks \/ DeleteLoop \/ Crash
    \/ \E r \in Runs : \/ Starting(r) \/ PodMoves(r) \/ Handles(r)
                       \/ Schedules(r) \/ CancelRun(r)
    \/ \E t \in work : Completes(t)

Spec == Init /\ [][Next]_vars

(* Goroutines get to run, and the scheduler's ticker comes round: a run     *)
(* that stays timed out or orphaned is found.                               *)
Fairness ==
    /\ \A r \in Runs : /\ WF_vars(Starting(r)) /\ WF_vars(Handles(r))
                       /\ WF_vars(CheckTimeoutRuns(r))
                       /\ WF_vars(CleanupOrphanPendingRuns(r))
    /\ WF_vars(\E t \in work : Completes(t))

FairSpec == Spec /\ Fairness

-----------------------------------------------------------------------------
(* Properties.                                                              *)

Sources == {"pod", "autopilot", "timeout", "idle", "approval", "orphan", "cancel", "start",
            "skip"}

(* Types; every task is at a step its source can be at, and only rows that  *)
(* exist are finished or hold a pod key.                                    *)
TypeOK ==
    /\ scenario \in Scenarios /\ loopStatus \in {"enabled", "disabled", "gone"}
    /\ deleting \in BOOLEAN
    /\ lastPodKey \in Runs \cup {NoRun}
    /\ total \in Nat /\ successful \in Nat /\ failed \in Nat
    /\ created \in 0..MaxRuns /\ deleted \subseteq 1..created
    /\ status \in [Runs -> EndStatuses \cup {"pending", "skipped"}]
    /\ finished \subseteq 1..created /\ podKey \subseteq 1..created
    /\ pod \in [Runs -> ActivePod \cup DonePod \cup {"none", "orphaned"}]
    /\ phase \in [Runs -> EndPhases \cup {"none", "active"}]
    /\ killed \subseteq Runs
    /\ starter \in [Runs -> {"none", "check", "create", "fresh", "autopilot", "attach"}]
    /\ source \in [Runs -> Runs \cup {NoRun}]
    /\ events \subseteq ({"pod"} \X Runs \X DonePod) \cup ({"autopilot"} \X Runs \X EndPhases)
    /\ work \subseteq [src : Sources, run : 1..created, status : EndStatuses \cup {"skipped"},
                      step : {"finish", "stats", "state", "trim", "kill"}]
    /\ crashed \in BOOLEAN /\ recovered \subseteq Runs /\ userKilled \subseteq Runs
    /\ uncounted \subseteq 1..created

(* Finished runs, and those whose statistics are still to come or never do. *)
Ended(S) == Cardinality({r \in finished : status[r] \in S})
Uncounted(S) == Cardinality({t \in work : t.step = "stats" /\ t.status \in S})
                + Cardinality({r \in uncounted : status[r] \in S})

(* The counters of the loop count each finished run once, however many      *)
(* completions raced for it: they differ from the rows only by the updates  *)
(* still to come, or lost in a crash or because retention or Delete took    *)
(* the row before them (FinishRun, UpdateRunStats).                         *)
StatsCountEachRunOnce ==
    ~crashed =>
      /\ total + Uncounted(EndStatuses \cup {"skipped"}) = Cardinality(finished)
      /\ successful + Uncounted({"completed"}) = Ended({"completed"})
      /\ failed + Uncounted(Failures) = Ended(Failures)

(* The concurrency cap: the unfinished runs that run or are about to are    *)
(* never more than MaxConcurrentRuns, leaving aside pods that come back     *)
(* after the heartbeat had given them up.                                   *)
CapRespected ==
    Cardinality({r \in Rows \ (finished \cup recovered) :
                   r \notin podKey \/ pod[r] \in ActivePod}) <= MaxConcurrentRuns

(* Every run comes to an end: it finishes, is deleted, or at least its pod  *)
(* does not run on, also when the server crashed before it had a pod.       *)
RunsComeToAnEnd ==
    \A r \in Runs :
      r \in Rows \ finished
        ~> \/ r \in finished \cup deleted
           \/ pod[r] \in DonePod \cup {"orphaned"}

(* What deriveFromPodStatus says of a user's cancellation: a run whose      *)
(* running pod the user had killed does not end up completed.               *)
CancelIsRecorded ==
    \A r \in userKilled : status[r] # "completed"
=============================================================================
