----------------------------- MODULE PodLifecycle -----------------------------
(***************************************************************************)
(* The life of a pod across the backend and one runner: the rows that      *)
(* PodOrchestrator, PodCoordinator and PodService write, the runner's pod  *)
(* store and message handler (runner/internal/runner), and the commands,   *)
(* events and heartbeats between them over a stream that breaks.           *)
(*                                                                         *)
(* The stream is the one of RunnerLink, reduced to three states: "up";     *)
(* "broken", dead but still registered, so that commands are accepted and  *)
(* lost; and "down", without an entry in the connection manager.           *)
(***************************************************************************)
EXTENDS Naturals, Sequences, FiniteSets

CONSTANTS
    Pods,                   \* pod keys
    OrphanMissThreshold,    \* orphanMissThreshold
    InitRecoverThreshold,   \* initRecoverThreshold
    Strangers,              \* pods the runner recovered that have no row
    Explore                 \* the faults and callers a run explores

ASSUME PodsAssumption == IsFiniteSet(Pods) /\ Strangers \subseteq Pods
ASSUME ThresholdAssumption ==
    OrphanMissThreshold \in Nat \ {0} /\ InitRecoverThreshold \in Nat \ {0}

AllBehaviours == {"break", "backendRestart", "runnerRestart", "buildFailure",
                  "commandFailure", "rest", "coordinator", "stale", "ptyError",
                  "earlyOutput"}
ASSUME ExploreAssumption == Explore \subseteq AllBehaviours

VARIABLES
    \* the database
    status,         \* pods.status; "none" without a row
    currentPods,    \* runners.current_pods
    \* the backend's memory and goroutines
    misses,         \* PodCoordinator.podMissCount
    initReports,    \* PodCoordinator.initReportCount
    cooldown,       \* pods whose terminate was sent within terminateCooldown
    buffered,       \* the pod count of a buffered heartbeat, in a set
    work,           \* the heartbeat reconcilePods is working on
    orchestrator,   \* progress of CreatePod, per pod
    rest,           \* pods the REST handler found active
    coordinator,    \* progress of PodCoordinator.TerminatePod, per pod
    \* the stream
    link,           \* "up", "broken" or "down"
    callback,       \* handleRunnerDisconnect is still to run
    up,             \* messages to the backend, in order
    controlCh,      \* messages the runner queued for its next stream
    down,           \* commands handed to the runner's goroutines
    \* the runner
    store,          \* the keys in PodStore
    alive,          \* pods whose process runs
    creator,        \* progress of OnCreatePod, per pod
    teardown        \* pods out of the store whose end is still to be reported

rowVars     == <<status, currentPods>>
memoryVars  == <<misses, initReports, cooldown, buffered>>
callerVars  == <<orchestrator, rest, coordinator>>
streamVars  == <<link, callback, up, controlCh, down>>
runnerVars  == <<store, alive, creator, teardown>>
vars == <<rowVars, memoryVars, work, callerVars, streamVars, runnerVars>>

ActiveStatuses == {"initializing", "running", "disconnected"}
Statuses == ActiveStatuses \cup {"none", "orphaned", "completed", "terminated", "error"}

Idle == [phase |-> "idle", reported |-> {}, active |-> {}, count |-> 0]

Init ==
    /\ status = [p \in Pods |-> "none"] /\ currentPods = 0
    /\ misses = [p \in Pods |-> 0] /\ initReports = [p \in Pods |-> 0]
    /\ cooldown = {} /\ buffered = {} /\ work = Idle
    /\ orchestrator = [p \in Pods |-> "idle"] /\ rest = {}
    /\ coordinator = [p \in Pods |-> "idle"]
    /\ link = "up" /\ callback = FALSE
    /\ up = <<>> /\ controlCh = <<>> /\ down = {}
    /\ store = Strangers /\ alive = Strangers
    /\ creator = [p \in Pods |-> IF p \in Strangers THEN "ended" ELSE "none"]
    /\ teardown = {}

-----------------------------------------------------------------------------
(* Helpers.                                                                 *)

(* UpdateByKey: no row, no update.                                          *)
UpdateByKey(p, s) ==
    status' = [status EXCEPT ![p] = IF @ = "none" THEN "none" ELSE s]

(* DecrementPods: GREATEST(current_pods - 1, 0).                            *)
Decrement(n, k) == IF n > k THEN n - k ELSE 0

(* SendCreatePod and SendTerminatePod fail without a registered connection. *)
Connected == link # "down"
Commands(cmds) == IF link = "up" THEN down \cup cmds ELSE down

(* sendControl: queued, and lost or kept for the next stream when the       *)
(* stream is gone.                                                          *)
SendControl(msgs) ==
    IF link = "up"
    THEN up' = up \o msgs /\ UNCHANGED controlCh
    ELSE UNCHANGED up /\ controlCh' \in {controlCh, controlCh \o msgs}

Event(kind, p) == [kind |-> kind, pod |-> p]
IsHeartbeat(m) == m.kind = "heartbeat"

-----------------------------------------------------------------------------
(* Creation, on the backend.                                                *)

(* The row is inserted first.                                               *)
InsertPod(p) ==
    /\ p \notin Strangers
    /\ status[p] = "none"
    /\ status' = [status EXCEPT ![p] = "initializing"]
    /\ orchestrator' = [orchestrator EXCEPT ![p] = "inserted"]
    /\ UNCHANGED <<currentPods, memoryVars, work, rest, coordinator, streamVars,
                   runnerVars>>

(* buildPodCommand fails: nothing is sent and the row stays as it is.       *)
BuildCommandFails(p) ==
    /\ "commandFailure" \in Explore
    /\ orchestrator[p] = "inserted"
    /\ orchestrator' = [orchestrator EXCEPT ![p] = "sent"]
    /\ UNCHANGED <<rowVars, memoryVars, work, rest, coordinator, streamVars, runnerVars>>

(* CreatePod: the count goes up, and down again when the send fails.  The   *)
(* acknowledgement tracker it also writes is read by nobody.                *)
CreatePod(p) ==
    /\ orchestrator[p] = "inserted"
    /\ currentPods' = IF Connected THEN currentPods + 1 ELSE currentPods
    /\ down' = Commands({Event("create", p)})
    /\ orchestrator' = [orchestrator EXCEPT ![p] = IF Connected THEN "sent" ELSE "failed"]
    /\ UNCHANGED <<status, memoryVars, work, rest, coordinator, link, callback, up,
                   controlCh, runnerVars>>

MarkInitFailed(p) ==
    /\ orchestrator[p] = "failed"
    /\ status' = [status EXCEPT ![p] = IF @ = "initializing" THEN "error" ELSE @]
    /\ orchestrator' = [orchestrator EXCEPT ![p] = "sent"]
    /\ UNCHANGED <<currentPods, memoryVars, work, rest, coordinator, streamVars,
                   runnerVars>>

-----------------------------------------------------------------------------
(* Termination, on the backend.                                             *)

(* The REST handler's PodService.TerminatePod reads the row ...             *)
RestCheck(p) ==
    /\ "rest" \in Explore
    /\ status[p] \in ActiveStatuses /\ p \notin rest
    /\ rest' = rest \cup {p}
    /\ UNCHANGED <<rowVars, memoryVars, work, orchestrator, coordinator, streamVars,
                   runnerVars>>

(* ... and writes it, whatever it holds by then.  No command is sent.       *)
RestTerminate(p) ==
    /\ p \in rest
    /\ UpdateByKey(p, "terminated")
    /\ currentPods' = Decrement(currentPods, 1)
    /\ rest' = rest \ {p}
    /\ UNCHANGED <<memoryVars, work, orchestrator, coordinator, streamVars,
                   runnerVars>>

(* PodCoordinator.TerminatePod, called by the loops: the command first ...  *)
SendTerminate(p) ==
    /\ "coordinator" \in Explore
    /\ coordinator[p] = "idle" /\ status[p] # "none"
    /\ down' = Commands({Event("terminate", p)})
    /\ coordinator' = [coordinator EXCEPT ![p] = "sent"]
    /\ UNCHANGED <<rowVars, memoryVars, work, orchestrator, rest, link, callback, up,
                   controlCh, runnerVars>>

(* ... then the row, unconditionally.                                       *)
MarkCompleted(p) ==
    /\ coordinator[p] = "sent"
    /\ UpdateByKey(p, "completed")
    /\ misses' = [misses EXCEPT ![p] = 0]
    /\ currentPods' = Decrement(currentPods, 1)
    /\ coordinator' = [coordinator EXCEPT ![p] = "done"]
    /\ UNCHANGED <<initReports, cooldown, buffered, work, orchestrator, rest,
                   streamVars, runnerVars>>

(* The cleanup task's MarkStaleAsDisconnected.                              *)
MarkStale(p) ==
    /\ "stale" \in Explore
    /\ status[p] \in {"initializing", "running"}
    /\ status' = [status EXCEPT ![p] = "disconnected"]
    /\ UNCHANGED <<currentPods, memoryVars, work, callerVars, streamVars, runnerVars>>

-----------------------------------------------------------------------------
(* The runner.                                                              *)

OnCreatePod(p) ==
    /\ Event("create", p) \in down
    /\ down' = down \ {Event("create", p)}
    /\ store' = store \cup {p}
    /\ creator' = [creator EXCEPT ![p] = "building"]
    /\ UNCHANGED <<rowVars, memoryVars, work, callerVars, link, callback, up, controlCh,
                   alive, teardown>>

(* A failed creation reports a pod error, and its dispatcher another one.   *)
FailCreation(p) ==
    /\ store' = store \ {p}
    /\ creator' = [creator EXCEPT ![p] = "ended"]
    /\ SendControl(<<Event("error", p), Event("error", p)>>)
    /\ UNCHANGED <<rowVars, memoryVars, work, callerVars, link, callback, down, alive,
                   teardown>>

BuildFails(p) ==
    /\ "buildFailure" \in Explore
    /\ creator[p] = "building"
    /\ FailCreation(p)

(* Build has succeeded; was the placeholder removed meanwhile?              *)
BuildDone(p) ==
    /\ creator[p] = "building"
    /\ IF p \in store
       THEN /\ creator' = [creator EXCEPT ![p] = "built"]
            /\ UNCHANGED <<up, controlCh>>
       ELSE /\ creator' = [creator EXCEPT ![p] = "ended"]
            /\ SendControl(<<Event("error", p)>>)
    /\ UNCHANGED <<rowVars, memoryVars, work, callerVars, link, callback, down, store,
                   alive, teardown>>

StorePod(p) ==
    /\ creator[p] = "built"
    /\ store' = store \cup {p}
    /\ creator' = [creator EXCEPT ![p] = "stored"]
    /\ UNCHANGED <<rowVars, memoryVars, work, callerVars, streamVars, alive, teardown>>

(* Mutant: Start does not look at closed.                                   *)
StartAlways(p) ==
    /\ creator[p] = "stored"
    /\ alive' = alive \cup {p}
    /\ creator' = [creator EXCEPT ![p] = "started"]
    /\ UNCHANGED <<rowVars, memoryVars, work, callerVars, streamVars, store, teardown>>

(* Terminal.Start refuses a terminal that OnTerminatePod has stopped; it    *)
(* may still win against one that is about to.                              *)
Stopping == {p \in Pods : Event("terminal", p) \in teardown}

StartTerminal(p) ==
    /\ creator[p] = "stored"
    /\ p \in store \cup Stopping
    /\ alive' = alive \cup {p}
    /\ creator' = [creator EXCEPT ![p] = "started"]
    /\ UNCHANGED <<rowVars, memoryVars, work, callerVars, streamVars, store, teardown>>

StartFails(p) ==
    /\ creator[p] = "stored"
    /\ p \notin store \/ "buildFailure" \in Explore
    /\ FailCreation(p)

SendPodCreated(p) ==
    /\ creator[p] = "started"
    /\ creator' = [creator EXCEPT ![p] = "ended"]
    /\ SendControl(<<Event("created", p)>>)
    /\ UNCHANGED <<rowVars, memoryVars, work, callerVars, link, callback, down, store,
                   alive, teardown>>

(* A terminate command takes the pod out of the store.  What it took is a   *)
(* placeholder as long as OnCreatePod has not stored the pod; the terminal  *)
(* of any other pod is then stopped, which may take seconds.                *)
OnTerminatePod(p) ==
    /\ Event("terminate", p) \in down
    /\ down' = down \ {Event("terminate", p)}
    /\ store' = store \ {p}
    /\ teardown' = IF p \notin store THEN teardown
                   ELSE teardown \cup {Event(IF creator[p] \in {"building", "built"}
                                             THEN "placeholder" ELSE "terminal", p)}
    /\ UNCHANGED <<rowVars, memoryVars, work, callerVars, link, callback, up, controlCh,
                   alive, creator>>

(* The process ends by itself, perhaps before OnCreatePod reports the pod   *)
(* as created.  The exit handler leaves a pod that is no longer in the      *)
(* store to OnTerminatePod.                                                 *)
PodExits(p) ==
    /\ p \in alive
    /\ alive' = alive \ {p}
    /\ store' = store \ {p}
    /\ teardown' = IF p \in store THEN teardown \cup {Event("exit", p)} ELSE teardown
    /\ \/ UNCHANGED <<up, controlCh>>
       \/ "ptyError" \in Explore /\ SendControl(<<Event("error", p)>>)
    /\ UNCHANGED <<rowVars, memoryVars, work, callerVars, link, callback, down, creator>>

(* The rest of both: Terminal.Stop where there is a terminal to stop, and   *)
(* the report, with or without early output, which makes it an error.       *)
SendPodTerminated(p, kind) ==
    /\ Event(kind, p) \in teardown
    /\ teardown' = teardown \ {Event(kind, p)}
    /\ alive' = IF kind = "terminal" THEN alive \ {p} ELSE alive
    /\ \/ SendControl(<<Event("exited", p)>>)
       \/ "earlyOutput" \in Explore /\ SendControl(<<Event("failed", p)>>)
    /\ UNCHANGED <<rowVars, memoryVars, work, callerVars, link, callback, down, store,
                   creator>>

TeardownKinds == {"placeholder", "terminal", "exit"}

(* A heartbeat lists the whole store, placeholders included.  At most one   *)
(* is on its way.                                                           *)
SendHeartbeat ==
    /\ link = "up"
    /\ \A i \in 1..Len(up) : ~IsHeartbeat(up[i])
    /\ up' = Append(up, [kind |-> "heartbeat", pods |-> store])
    /\ UNCHANGED <<rowVars, memoryVars, work, callerVars, link, callback, controlCh,
                   down, runnerVars>>

(* The process is replaced: pods with a daemon may be recovered from their  *)
(* state files, everything else is lost.                                    *)
RunnerRestart ==
    /\ "runnerRestart" \in Explore
    /\ link = "up" /\ ~callback
    /\ link' = "broken"
    /\ \E recovered \in SUBSET alive : store' = recovered /\ alive' = recovered
    /\ creator' = [p \in Pods |-> IF creator[p] = "none" THEN "none" ELSE "ended"]
    /\ \E n \in 0..Len(up) : up' = SubSeq(up, 1, n)
    /\ controlCh' = <<>> /\ down' = {} /\ teardown' = {}
    /\ UNCHANGED <<rowVars, memoryVars, work, callerVars, callback>>

-----------------------------------------------------------------------------
(* The stream.                                                              *)

(* A stream breaks: of the messages on their way a prefix was received, a   *)
(* suffix waits for the next stream, and what is between is lost.  Commands *)
(* either reached a goroutine of the runner or are lost.                    *)
Break ==
    /\ "break" \in Explore
    /\ link = "up" /\ ~callback
    /\ link' = "broken"
    /\ \E n \in 0..Len(up) : \E k \in n..Len(up) :
        up' = SubSeq(up, 1, n) /\ controlCh' = SubSeq(up, k + 1, Len(up))
    /\ down' \in SUBSET down
    /\ UNCHANGED <<rowVars, memoryVars, work, callerVars, callback, runnerVars>>

(* RemoveConnection, after the receive loop's last message; its callback    *)
(* may run after the runner has reconnected.                                *)
RemoveConnection ==
    /\ link = "broken" /\ up = <<>> /\ work = Idle
    /\ link' = "down"
    /\ callback' = TRUE
    /\ UNCHANGED <<rowVars, memoryVars, work, callerVars, up, controlCh, down,
                   runnerVars>>

(* A new stream, which replaces a broken one that is still registered.      *)
Reconnect ==
    /\ link # "up"
    /\ link' = "up"
    /\ up' = up \o controlCh
    /\ controlCh' = <<>>
    /\ UNCHANGED <<rowVars, memoryVars, work, callerVars, callback, down, runnerVars>>

(* handleRunnerDisconnect: miss counts are cleared and initializing pods    *)
(* fail.                                                                    *)
HandleRunnerDisconnect ==
    /\ callback
    /\ callback' = FALSE
    /\ misses' = [p \in Pods |-> 0]
    /\ status' = [p \in Pods |-> IF status[p] = "initializing" THEN "error" ELSE status[p]]
    /\ currentPods' = Decrement(currentPods,
                                Cardinality({p \in Pods : status[p] = "initializing"}))
    /\ UNCHANGED <<initReports, cooldown, buffered, work, callerVars, link, up,
                   controlCh, down, runnerVars>>

(* The backend process is replaced: its memory and its calls in progress    *)
(* are lost, and so is what the runner has sent to it.                      *)
BackendRestart ==
    /\ "backendRestart" \in Explore
    /\ link = "up"
    /\ link' = "down" /\ callback' = FALSE
    /\ misses' = [p \in Pods |-> 0] /\ initReports' = [p \in Pods |-> 0]
    /\ cooldown' = {} /\ buffered' = {} /\ work' = Idle
    /\ orchestrator' = [p \in Pods |-> IF orchestrator[p] = "idle" THEN "idle" ELSE "sent"]
    /\ rest' = {}
    /\ coordinator' = [p \in Pods |-> IF coordinator[p] = "idle" THEN "idle" ELSE "done"]
    /\ up' = <<>> /\ down' \in SUBSET down
    /\ \E k \in 0..Len(up) : controlCh' = SubSeq(up, k + 1, Len(up))
    /\ UNCHANGED <<rowVars, runnerVars>>

-----------------------------------------------------------------------------
(* The receive loop, one message after the other.                           *)

Receiving(kind) ==
    /\ work = Idle
    /\ up # <<>> /\ Head(up).kind = kind
    /\ up' = Tail(up)

(* handlePodCreated writes the row whatever it holds.                       *)
HandlePodCreated ==
    /\ Receiving("created")
    /\ UpdateByKey(Head(up).pod, "running")
    /\ initReports' = [initReports EXCEPT ![Head(up).pod] = 0]
    /\ UNCHANGED <<currentPods, misses, cooldown, buffered, work, callerVars, link,
                   callback, controlCh, down, runnerVars>>

(* handlePodTerminated: completed, or error when early output came along.   *)
HandlePodTerminated ==
    /\ \/ Receiving("exited") /\ UpdateByKey(Head(up).pod, "completed")
       \/ Receiving("failed") /\ UpdateByKey(Head(up).pod, "error")
    /\ currentPods' = Decrement(currentPods, 1)
    /\ misses' = [misses EXCEPT ![Head(up).pod] = 0]
    /\ UNCHANGED <<initReports, cooldown, buffered, work, callerVars, link, callback,
                   controlCh, down, runnerVars>>

(* handlePodError fails an initializing pod; a running one keeps its status *)
(* and only gets the error text.                                            *)
HandlePodError ==
    /\ Receiving("error")
    /\ IF status[Head(up).pod] = "initializing"
       THEN /\ UpdateByKey(Head(up).pod, "error")
            /\ currentPods' = Decrement(currentPods, 1)
       ELSE UNCHANGED rowVars
    /\ UNCHANGED <<memoryVars, work, callerVars, link, callback, controlCh, down,
                   runnerVars>>

(* Mutant: pods without a row are passed over.                              *)
NoneUnknown(reported) == {p \in reported : FALSE}

(* Mutant: only completed pods are terminated.                              *)
OnlyCompleted(reported) == {p \in reported : status[p] = "completed"}

(* Mutant: misses are not counted.                                          *)
MissIgnored(p) == misses[p]

(* reconcilePods, by reported pod.                                          *)
Unknown(reported)  == {p \in reported : status[p] = "none"}
Finished(reported) == {p \in reported : status[p] \in {"completed", "terminated"}}

(* incrementMissCount.                                                      *)
Missed(p) == misses[p] + 1

(* The pods reconcilePods sends a terminate for: finished ones, and unknown *)
(* ones after enough reports, unless one was sent lately.                   *)
ToTerminate(reported) ==
    (Finished(reported) \cup
        {p \in Unknown(reported) : Missed(p) >= OrphanMissThreshold}) \ cooldown

Initializing(reported) == {p \in reported : status[p] = "initializing"}

(* Mutant: recovery takes one report more than the threshold.               *)
RecoverLate(reported) ==
    {p \in reported : status[p] = "orphaned"} \cup
        {p \in Initializing(reported) : initReports[p] + 1 > InitRecoverThreshold}

(* Mutant: orphaned pods are not recovered.                                 *)
RecoverInitializing(reported) ==
    {p \in Initializing(reported) : initReports[p] + 1 >= InitRecoverThreshold}

(* The pods recoverPodStatus makes running again.                           *)
ToRecover(reported) ==
    {p \in reported : status[p] = "orphaned"} \cup
        {p \in Initializing(reported) : initReports[p] + 1 >= InitRecoverThreshold}

(* handleHeartbeat records the count and reconciles the reported pods; then *)
(* reconcileMissingPods reads the active pods.                              *)
HandleHeartbeat ==
    /\ Receiving("heartbeat")
    /\ LET reported == Head(up).pods
       IN  /\ buffered' = {Cardinality(reported)}
           /\ cooldown' = cooldown \cup ToTerminate(reported)
           /\ down' = Commands({Event("terminate", p) : p \in ToTerminate(reported)})
           /\ status' = [p \in Pods |-> IF p \in ToRecover(reported) THEN "running"
                                        ELSE status[p]]
           /\ initReports' = [p \in Pods |->
                IF p \notin Initializing(reported) THEN initReports[p]
                ELSE IF p \in ToRecover(reported) THEN 0 ELSE initReports[p] + 1]
           /\ misses' = [p \in Pods |->
                IF p \notin Unknown(reported) THEN misses[p]
                ELSE IF Missed(p) >= OrphanMissThreshold THEN 0 ELSE Missed(p)]
           /\ work' = [phase |-> "missing", reported |-> reported, count |-> 0,
                       active |-> {p \in Pods : status'[p] \in ActiveStatuses}]
    /\ UNCHANGED <<currentPods, callerVars, link, callback, controlCh, runnerVars>>

(* Mutant: running pods are not counted.                                    *)
CountInitializing(reported) ==
    Cardinality({p \in reported : status'[p] = "initializing"})

(* CountActiveByKeys, of the rows after reconcileMissingPods.               *)
CountActiveByKeys(reported) ==
    Cardinality({p \in reported : status'[p] \in {"running", "initializing"}})

(* reconcileMissingPods works on the list read before; MarkOrphaned writes  *)
(* by id.  syncPodCount then counts the reported pods that are active.      *)
ReconcileMissingPods ==
    LET gone == work.active \ work.reported
    IN  /\ work.phase = "missing"
        /\ misses' = [p \in Pods |->
             IF p \in gone /\ Missed(p) < OrphanMissThreshold THEN Missed(p)
             ELSE IF p \in work.active THEN 0 ELSE misses[p]]
        /\ status' = [p \in Pods |->
             IF p \in gone /\ Missed(p) >= OrphanMissThreshold THEN "orphaned"
             ELSE status[p]]
        /\ work' = [work EXCEPT !.phase = "count", !.active = {},
                        !.count = CountActiveByKeys(work.reported)]
        /\ UNCHANGED <<currentPods, initReports, cooldown, buffered, callerVars,
                       streamVars, runnerVars>>

SetPodCount ==
    /\ work.phase = "count"
    /\ currentPods' = work.count
    /\ work' = Idle
    /\ UNCHANGED <<status, memoryVars, callerVars, streamVars, runnerVars>>

(* HeartbeatBatcher.flush writes current_pods as well.                      *)
Flush ==
    /\ buffered # {}
    /\ currentPods' \in buffered
    /\ buffered' = {}
    /\ UNCHANGED <<status, misses, initReports, cooldown, work, callerVars, streamVars,
                   runnerVars>>

CooldownEnds(p) ==
    /\ p \in cooldown
    /\ cooldown' = cooldown \ {p}
    /\ UNCHANGED <<rowVars, misses, initReports, buffered, work, callerVars, streamVars,
                   runnerVars>>

-----------------------------------------------------------------------------
Create(p) ==
    BuildFails(p) \/ BuildDone(p) \/ StorePod(p) \/ StartTerminal(p) \/ StartFails(p)
        \/ SendPodCreated(p)

Receive ==
    \/ HandlePodCreated \/ HandlePodTerminated \/ HandlePodError \/ HandleHeartbeat
    \/ ReconcileMissingPods \/ SetPodCount

Next ==
    \/ \E p \in Pods :
        \/ InsertPod(p) \/ BuildCommandFails(p) \/ CreatePod(p)
        \/ MarkInitFailed(p)
        \/ RestCheck(p) \/ RestTerminate(p) \/ SendTerminate(p) \/ MarkCompleted(p)
        \/ MarkStale(p) \/ OnCreatePod(p) \/ Create(p) \/ OnTerminatePod(p)
        \/ PodExits(p) \/ CooldownEnds(p)
        \/ \E kind \in TeardownKinds : SendPodTerminated(p, kind)
    \/ SendHeartbeat \/ Receive \/ Flush
    \/ Break \/ RemoveConnection \/ Reconnect \/ HandleRunnerDisconnect
    \/ RunnerRestart \/ BackendRestart

Spec == Init /\ [][Next]_vars

(* Tickers tick, goroutines that can run do, and commands reach a runner    *)
(* whose stream stays up.  Nothing makes a pod end, a stream break, or      *)
(* anyone create or terminate a pod; a build may take forever.              *)
Fairness ==
    /\ WF_vars(SendHeartbeat) /\ WF_vars(Receive) /\ WF_vars(Flush)
    /\ WF_vars(RemoveConnection) /\ WF_vars(HandleRunnerDisconnect)
    /\ \A p \in Pods :
        /\ WF_vars(CreatePod(p)) /\ WF_vars(MarkInitFailed(p))
        /\ WF_vars(RestTerminate(p)) /\ WF_vars(MarkCompleted(p))
        /\ WF_vars(OnCreatePod(p)) /\ WF_vars(OnTerminatePod(p))
        /\ WF_vars(StorePod(p)) /\ WF_vars(StartTerminal(p) \/ StartFails(p))
        /\ WF_vars(SendPodCreated(p)) /\ WF_vars(CooldownEnds(p))
        /\ \A kind \in TeardownKinds : WF_vars(SendPodTerminated(p, kind))

FairSpec == Spec /\ Fairness

-----------------------------------------------------------------------------
Messages ==
    [kind : {"created", "error", "exited", "failed"}, pod : Pods]
        \cup [kind : {"heartbeat"}, pods : SUBSET Pods]

(* The type of every variable.                                              *)
TypeOK ==
    /\ status \in [Pods -> Statuses] /\ currentPods \in Nat
    /\ misses \in [Pods -> 0..(OrphanMissThreshold - 1)]
    /\ initReports \in [Pods -> 0..(InitRecoverThreshold - 1)]
    /\ cooldown \in SUBSET Pods /\ buffered \in SUBSET Nat
    /\ work \in [phase : {"idle", "missing", "count"}, reported : SUBSET Pods,
                 active : SUBSET Pods, count : Nat]
    /\ orchestrator \in [Pods -> {"idle", "inserted", "failed", "sent"}]
    /\ rest \in SUBSET Pods
    /\ coordinator \in [Pods -> {"idle", "sent", "done"}]
    /\ link \in {"up", "broken", "down"} /\ callback \in BOOLEAN
    /\ up \in Seq(Messages) /\ controlCh \in Seq(Messages)
    /\ down \in SUBSET [kind : {"create", "terminate"}, pod : Pods]
    /\ store \in SUBSET Pods /\ alive \in SUBSET Pods
    /\ creator \in [Pods -> {"none", "building", "built", "stored", "started", "ended"}]
    /\ teardown \in SUBSET [kind : TeardownKinds, pod : Pods]

(* A pod's process is in the runner's store, where heartbeats report it and *)
(* a terminate command finds it, or is being stopped, however creation,     *)
(* termination and restart interleave (OnCreatePod, OnTerminatePod, the     *)
(* exit handler).                                                           *)
ProcessIsTracked == alive \subseteq store \cup Stopping

(* A finished pod and one without a row disappear from a runner that stays  *)
(* connected: reconcilePods sends terminate commands until they do.         *)
FinishedPodDisappears ==
    \A p \in Pods :
        <>[](link = "up" /\ status[p] \in {"completed", "terminated", "none"})
            => <>[](p \notin store \cup alive)

(* A pod the runner does not have stops being active while the runner is    *)
(* connected: whatever event was lost, reconcileMissingPods notices.        *)
LostPodLeaves ==
    \A p \in Pods :
        <>[](link = "up" /\ p \notin store) => <>[](status[p] \notin ActiveStatuses)

(* A pod that runs on a connected runner does not stay initializing or      *)
(* orphaned: the heartbeats stand in for a lost PodCreated (recoverPodStatus). *)
LivePodRecovers ==
    \A p \in Pods :
        <>[](link = "up" /\ p \in alive)
            => <>[](status[p] \notin {"initializing", "orphaned"})

(* When the pods on a connected runner settle, current_pods becomes their   *)
(* number, whatever increments and decrements were lost or doubled.         *)
CountConverges ==
    \A S \in SUBSET Pods :
        <>[](link = "up" /\ store = S /\ \A p \in S : status[p] = "running")
            => <>[](currentPods = Cardinality(S))

(* pod.go counts terminated among the terminal states, which a pod does not *)
(* leave for an active one.                                                 *)
TerminatedIsTerminal ==
    [][\A p \in Pods : status[p] = "terminated" => status'[p] \notin ActiveStatuses]_vars
=============================================================================
