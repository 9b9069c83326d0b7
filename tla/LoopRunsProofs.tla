--------------------------- MODULE LoopRunsProofs ---------------------------
(***************************************************************************)
(* Proofs about LoopRuns for any number of runs, any cap, any retention    *)
(* and any scenarios: each finished run is counted once, and the           *)
(* concurrency cap holds.                                                  *)
(***************************************************************************)
EXTENDS LoopRuns, FiniteSetTheorems, TLAPS

Ends == EndStatuses \cup {"skipped"}
Steps == {"finish", "stats", "state", "trim", "kill"}
Tasks == [src : Sources, run : 1..created, status : Ends, step : Steps]

(* StartRun and an autopilot exist for rows only, and StartRun works on a   *)
(* run that has no pod key yet.                                             *)
StartsRows ==
    \A r \in Runs :
      /\ starter[r] # "none" => r \in (1..created) \ podKey
      /\ phase[r] = "active" => r \in 1..created

(* finished_at and the status are written together.                         *)
StatusIsFinal ==
    \A r \in Runs : IF r \in finished THEN status[r] \in Ends
                                      ELSE status[r] = "pending"

(* The completions that have finished a run and are about to count it.      *)
StatsTasks == {t \in work : t.step = "stats"}

(* One completion at most has still to count a run, with the status the     *)
(* row has, and none whose statistics were given up.                        *)
OneCounter ==
    /\ IsFiniteSet(StatsTasks)
    /\ uncounted \subseteq finished
    /\ \A t \in StatsTasks : /\ t.run \in finished \ uncounted
                             /\ status[t.run] = t.status
    /\ \A t, u \in StatsTasks : t.run = u.run => t = u

Inv == TypeOK /\ StartsRows /\ StatusIsFinal
IInv == Inv /\ OneCounter /\ StatsCountEachRunOnce


-----------------------------------------------------------------------------
(* Tasks and their fields.                                                  *)
LEMMA TaskType ==
  ASSUME NEW src \in Sources, NEW r \in 1..created, NEW s \in Ends,
         NEW step \in Steps
  PROVE  Task(src, r, s, step) \in Tasks /\ Task(src, r, s, step).step = step
BY DEF Task, Tasks

(* Moving a task on keeps the types.                                        *)
LEMMA AdvanceType ==
  ASSUME NEW t \in Tasks, NEW step \in Steps
  PROVE  /\ [t EXCEPT !.step = step] \in Tasks
         /\ [t EXCEPT !.step = step].step = step
         /\ [t EXCEPT !.step = step].run = t.run
         /\ [t EXCEPT !.step = step].status = t.status
BY DEF Tasks

(* What DeriveRunStatus makes of an ended pod or autopilot.                 *)
LEMMA DerivedStatus ==
  ASSUME NEW s, NEW p, s \in DonePod \/ p \in EndPhases
  PROVE  DeriveRunStatus(s, p) \in EndStatuses
<1>1. CASE p \in EndPhases
  BY <1>1 DEF DeriveRunStatus, EndPhases, EndStatuses
<1>2. CASE p \notin EndPhases
  BY <1>2 DEF DeriveRunStatus, EndPhases, EndStatuses, DonePod
<1> QED  BY <1>1, <1>2

-----------------------------------------------------------------------------
(* Types, and what they rest on, action by action.                          *)
LEMMA InitInv == Init => Inv
<1> SUFFICES ASSUME Init PROVE Inv
  OBVIOUS
<1>1. TypeOK
  <2>1. crashed \in BOOLEAN /\ deleting \in BOOLEAN
    BY DEF Init
  <2> QED  BY <2>1, LoopAssumption DEF Init, TypeOK, Runs
<1>2. StartsRows /\ StatusIsFinal
  BY DEF Init, StartsRows, StatusIsFinal
<1> QED  BY <1>1, <1>2 DEF Inv

(* A trigger.                                                               *)
LEMMA TriggerKeepsInv ==
  ASSUME Inv, TriggerRun
  PROVE  Inv'
<1> USE DEF Inv, TypeOK
<1> USE DEF loopVars, podVars, startVars, history
<1>1. created' = created + 1 /\ created' \in 1..MaxRuns /\ created' \in Runs
  BY LoopAssumption DEF TriggerRun, Runs
<1>2. /\ created' \notin finished /\ created' \notin podKey
      /\ created \in Nat /\ 1..created \subseteq 1..created'
  BY <1>1, LoopAssumption
<1>3. work \subseteq Tasks'
  BY <1>1 DEF Tasks, Ends, Steps
<1>4. CASE Cardinality(ActiveRuns) >= MaxConcurrentRuns
  <2>1. Task("skip", created', "skipped", "stats") \in Tasks'
    BY <1>1 DEF Task, Tasks, Sources, Steps, Ends
  <2>2. work' \subseteq Tasks'
    BY <1>3, <1>4, <2>1 DEF TriggerRun
  <2>3. created' \in 0..MaxRuns /\ deleted' \subseteq 1..created'
        /\ finished' \subseteq 1..created' /\ podKey' \subseteq 1..created'
        /\ uncounted' \subseteq 1..created'
    <3>1. /\ UNCHANGED <<deleted, podKey, uncounted>>
          /\ finished' \subseteq finished \cup {created'}
      BY <1>4 DEF TriggerRun
    <3>2. created' \in 0..MaxRuns /\ created' \in 1..created'
      BY <1>1, <1>2, LoopAssumption
    <3>3. deleted \subseteq 1..created /\ podKey \subseteq 1..created
          /\ uncounted \subseteq 1..created /\ finished \subseteq 1..created
      OBVIOUS
    <3>4. deleted \subseteq 1..created' /\ podKey \subseteq 1..created'
          /\ uncounted \subseteq 1..created' /\ finished \subseteq 1..created'
      BY <3>3, <1>2, Zenon
    <3> HIDE DEF TypeOK, Inv
    <3> QED  BY <3>1, <3>2, <3>4, Zenon
  <2>4. status' \in [Runs -> EndStatuses \cup {"pending", "skipped"}]
    BY <1>1, <1>4 DEF TriggerRun
  <2>5. TypeOK'
    <3>1. UNCHANGED <<scenario, loopStatus, deleting, lastPodKey, total,
                      successful, failed, pod, phase, killed, starter, source,
                      events, crashed, recovered, userKilled>>
      BY <1>4 DEF TriggerRun
    <3> QED  BY <2>2, <2>3, <2>4, <3>1 DEF Tasks, Ends, Steps
  <2>6. StartsRows'
    BY <1>1, <1>4 DEF TriggerRun, StartsRows
  <2>7. StatusIsFinal'
    BY <1>1, <1>2, <1>4 DEF TriggerRun, StatusIsFinal, Ends
  <2> QED  BY <2>5, <2>6, <2>7
<1>5. CASE ~(Cardinality(ActiveRuns) >= MaxConcurrentRuns)
  <2>1. created' \in 0..MaxRuns /\ deleted' \subseteq 1..created'
        /\ finished' \subseteq 1..created' /\ podKey' \subseteq 1..created'
        /\ uncounted' \subseteq 1..created'
    <3>1. /\ UNCHANGED <<deleted, podKey, uncounted>>
          /\ finished' \subseteq finished \cup {created'}
      BY <1>5 DEF TriggerRun
    <3>2. created' \in 0..MaxRuns /\ created' \in 1..created'
      BY <1>1, <1>2, LoopAssumption
    <3>3. deleted \subseteq 1..created /\ podKey \subseteq 1..created
          /\ uncounted \subseteq 1..created /\ finished \subseteq 1..created
      OBVIOUS
    <3>4. deleted \subseteq 1..created' /\ podKey \subseteq 1..created'
          /\ uncounted \subseteq 1..created' /\ finished \subseteq 1..created'
      BY <3>3, <1>2, Zenon
    <3> HIDE DEF TypeOK, Inv
    <3> QED  BY <3>1, <3>2, <3>4, Zenon
  <2>2. starter' = [starter EXCEPT ![created'] = "check"]
        /\ source' = [source EXCEPT ![created'] = lastPodKey]
        /\ UNCHANGED <<podKey, phase, work>>
    BY <1>5 DEF TriggerRun
  <2>3. starter' \in [Runs -> {"none", "check", "create", "fresh", "autopilot",
                              "attach"}]
        /\ source' \in [Runs -> Runs \cup {NoRun}]
    BY <2>2
  <2>4. TypeOK'
    <3>1. UNCHANGED <<scenario, loopStatus, deleting, lastPodKey, total,
                      successful, failed, status, pod, phase, killed, events,
                      work, crashed, recovered, userKilled>>
      BY <1>5 DEF TriggerRun
    <3> QED  BY <1>3, <2>1, <2>3, <3>1 DEF Tasks, Ends, Steps
  <2>5. StartsRows'
    <3>1. SUFFICES ASSUME NEW r \in Runs
                   PROVE  /\ starter'[r] # "none" => r \in (1..created') \ podKey'
                          /\ phase'[r] = "active" => r \in 1..created'
      BY DEF StartsRows
    <3>2. CASE r = created'
      BY <1>1, <1>2, <2>2, <3>2
    <3>3. CASE r # created'
      BY <1>1, <2>2, <3>3 DEF StartsRows
    <3> QED  BY <3>2, <3>3
  <2>6. StatusIsFinal'
    BY <1>5 DEF TriggerRun, StatusIsFinal
  <2> QED  BY <2>4, <2>5, <2>6
<1> QED  BY <1>4, <1>5

(* StartRun.                                                                *)
LEMMA StartKeepsInv ==
  ASSUME Inv, NEW r \in Runs, Starting(r)
  PROVE  Inv'
<1> USE DEF Inv, TypeOK
<1> USE DEF loopVars, rowVars, podVars, startVars, history
<1>0. work \subseteq Tasks
  BY DEF Tasks, Ends, Steps
<1>1. CASE StartCheck(r)
  <2>1. TypeOK'
    BY <1>1 DEF StartCheck
  <2>2. StartsRows'
    BY <1>1 DEF StartCheck, StartsRows
  <2>3. StatusIsFinal'
    BY <1>1 DEF StartCheck, StatusIsFinal
  <2> QED  BY <2>1, <2>2, <2>3
<1>2. CASE StartCreates(r)
  <2>1. TypeOK'
    BY <1>2 DEF StartCreates, ActivePod
  <2>2. StartsRows'
    BY <1>2 DEF StartCreates, StartsRows
  <2>3. StatusIsFinal'
    BY <1>2 DEF StartCreates, StatusIsFinal
  <2> QED  BY <2>1, <2>2, <2>3
<1>3. CASE StartFails(r)
  <2>1. work' \subseteq Tasks'
    <3>1. r \in 1..created
      BY <1>3 DEF StartFails, StartsRows
    <3>2. Task("start", r, "failed", "finish") \in Tasks
      BY <3>1, TaskType DEF Sources, Ends, EndStatuses, Steps
    <3> QED  BY <1>0, <1>3, <3>2 DEF StartFails, Begin, Tasks
  <2>2. TypeOK'
    BY <1>3, <2>1 DEF StartFails, Tasks, Ends, Steps
  <2>3. StartsRows'
    BY <1>3 DEF StartFails, StartsRows
  <2>4. StatusIsFinal'
    BY <1>3 DEF StartFails, StatusIsFinal
  <2> QED  BY <2>2, <2>3, <2>4
<1>4. CASE StartAutopilot(r)
  <2>1. TypeOK'
    BY <1>4 DEF StartAutopilot
  <2>2. StartsRows'
    BY <1>4 DEF StartAutopilot, StartsRows
  <2>3. StatusIsFinal'
    BY <1>4 DEF StartAutopilot, StatusIsFinal
  <2> QED  BY <2>1, <2>2, <2>3
<1>5. CASE StartAutopilotFails(r)
  <2>1. work' \subseteq Tasks'
    <3>1. r \in 1..created
      BY <1>5 DEF StartAutopilotFails, StartsRows
    <3>2. Task("start", r, "failed", "finish") \in Tasks
      BY <3>1, TaskType DEF Sources, Ends, EndStatuses, Steps
    <3> QED  BY <1>0, <1>5, <3>2 DEF StartAutopilotFails, Begin, Tasks
  <2>2. TypeOK'
    BY <1>5, <2>1 DEF StartAutopilotFails, TerminatePod, Tasks, Ends, Steps, DonePod
  <2>3. StartsRows'
    BY <1>5 DEF StartAutopilotFails, TerminatePod, StartsRows
  <2>4. StatusIsFinal'
    BY <1>5 DEF StartAutopilotFails, StatusIsFinal
  <2> QED  BY <2>2, <2>3, <2>4
<1>6. CASE SetRunPodKey(r)
  <2>1. TypeOK'
    BY <1>6 DEF SetRunPodKey, Rows
  <2>2. StartsRows'
    BY <1>6 DEF SetRunPodKey, StartsRows
  <2>3. StatusIsFinal'
    BY <1>6 DEF SetRunPodKey, StatusIsFinal
  <2> QED  BY <2>1, <2>2, <2>3
<1>7. CASE SetRunPodKeyFails(r)
  <2>1. TypeOK'
    BY <1>7 DEF SetRunPodKeyFails
  <2>2. StartsRows'
    BY <1>7 DEF SetRunPodKeyFails, StartsRows
  <2>3. StatusIsFinal'
    BY <1>7 DEF SetRunPodKeyFails, StatusIsFinal
  <2> QED  BY <2>1, <2>2, <2>3
<1> QED  BY <1>1, <1>2, <1>3, <1>4, <1>5, <1>6, <1>7 DEF Starting

(* Pods and their autopilots.                                               *)
LEMMA PodKeepsInv ==
  ASSUME Inv, NEW r \in Runs, PodMoves(r)
  PROVE  Inv'
<1> USE DEF Inv, TypeOK
<1> USE DEF loopVars, rowVars, podVars, startVars, history
<1>1. CASE PodOrphaned(r)
  <2>1. TypeOK'
    BY <1>1 DEF PodOrphaned
  <2> QED  BY <1>1, <2>1 DEF PodOrphaned, StartsRows, StatusIsFinal
<1>2. CASE PodRecovers(r)
  <2>1. TypeOK'
    BY <1>2 DEF PodRecovers, ActivePod
  <2> QED  BY <1>2, <2>1 DEF PodRecovers, StartsRows, StatusIsFinal
<1>3. ASSUME NEW s \in DonePod, PodEnds(r, s)
      PROVE  Inv'
  <2>1. TypeOK'
    BY <1>3 DEF PodEnds
  <2> QED  BY <1>3, <2>1 DEF PodEnds, StartsRows, StatusIsFinal
<1>4. ASSUME NEW p \in EndPhases, AutopilotEnds(r, p)
      PROVE  Inv'
  <2>1. TypeOK'
    BY <1>4 DEF AutopilotEnds
  <2>2. StartsRows'
    BY <1>4 DEF AutopilotEnds, StartsRows, EndPhases
  <2> QED  BY <1>4, <2>1, <2>2 DEF AutopilotEnds, StatusIsFinal
<1> QED  BY <1>1, <1>2, <1>3, <1>4 DEF PodMoves

(* A completion that begins on a row leaves everything else as it is.       *)
LEMMA BeginsKeepsInv ==
  ASSUME Inv, NEW X \in SUBSET Tasks, work' \subseteq work \cup X,
         events' \subseteq events,
         UNCHANGED <<loopVars, rowVars, pod, killed, startVars, history>>,
         \/ UNCHANGED phase
         \/ \E r \in Runs : phase' = [phase EXCEPT ![r] = "stopped"]
  PROVE  Inv'
<1> USE DEF Inv, TypeOK
<1> USE DEF loopVars, rowVars, startVars, history
<1>1. work' \subseteq Tasks'
  BY DEF Tasks, Ends, Steps
<1>2. phase' \in [Runs -> EndPhases \cup {"none", "active"}]
  BY DEF EndPhases
<1>3. TypeOK'
  BY <1>1, <1>2 DEF Tasks, Ends, Steps
<1>4. StartsRows'
  BY DEF StartsRows
<1>5. StatusIsFinal'
  BY DEF StatusIsFinal
<1> QED  BY <1>3, <1>4, <1>5

(* The handlers of events.                                                  *)
LEMMA HandlerKeepsInv ==
  ASSUME Inv, NEW r \in Runs, Handles(r)
  PROVE  Inv'
<1>1. \A q \in Rows : q \in 1..created
  BY DEF Rows
<1>2. ASSUME NEW s \in DonePod, HandlePodTerminated(r, s)
      PROVE  Inv'
  <2> DEFINE t == Task("pod", r, DeriveRunStatus(s, phase[r]), "finish")
  <2>1. CASE r \in (podKey \cap Rows) \ finished
    <3>1. t \in Tasks
      BY <1>1, <2>1, DerivedStatus, TaskType DEF Sources, Ends, Steps
    <3>2. work' = work \cup {t}
      BY <1>2, <2>1 DEF HandlePodTerminated
    <3>3. {t} \in SUBSET Tasks
      BY <3>1
    <3> HIDE DEF t
    <3> QED
      BY <1>2, <3>2, <3>3, BeginsKeepsInv DEF HandlePodTerminated, podVars
  <2>2. CASE r \notin (podKey \cap Rows) \ finished
    <3>1. work' \subseteq work \cup {} /\ {} \in SUBSET Tasks
      BY <1>2, <2>2 DEF HandlePodTerminated
    <3> QED
      BY <1>2, <3>1, BeginsKeepsInv DEF HandlePodTerminated, podVars
  <2> QED  BY <2>1, <2>2
<1>3. ASSUME NEW p \in EndPhases, HandleAutopilotTerminated(r, p)
      PROVE  Inv'
  <2> DEFINE t == Task("autopilot", r, DeriveRunStatus("none", p), "finish")
  <2>1. CASE r \in (podKey \cap Rows) \ finished /\ p # "max_iterations"
    <3>1. t \in Tasks
      BY <1>1, <2>1, DerivedStatus, TaskType DEF Sources, Ends, Steps
    <3>2. work' = work \cup {t}
      BY <1>3, <2>1 DEF HandleAutopilotTerminated
    <3>3. {t} \in SUBSET Tasks
      BY <3>1
    <3> HIDE DEF t
    <3> QED
      BY <1>3, <3>2, <3>3, BeginsKeepsInv DEF HandleAutopilotTerminated, podVars
  <2>2. CASE ~(r \in (podKey \cap Rows) \ finished /\ p # "max_iterations")
    <3>1. work' \subseteq work \cup {} /\ {} \in SUBSET Tasks
      BY <1>3, <2>2 DEF HandleAutopilotTerminated
    <3> QED
      BY <1>3, <3>1, BeginsKeepsInv DEF HandleAutopilotTerminated, podVars
  <2> QED  BY <2>1, <2>2
<1> QED  BY <1>2, <1>3 DEF Handles

(* The scheduler and the user's cancellation.                               *)
LEMMA ScheduleKeepsInv ==
  ASSUME Inv, NEW r \in Runs, Schedules(r) \/ CancelRun(r)
  PROVE  Inv'
<1> USE DEF podVars
<1>1. \A q \in Rows : q \in 1..created
  BY DEF Rows
<1>2. ASSUME NEW src \in Sources, NEW s \in EndStatuses, NEW step \in Steps,
             r \in 1..created
      PROVE  {Task(src, r, s, step)} \in SUBSET Tasks
  BY <1>2, TaskType DEF Ends
<1>3. CASE CheckTimeoutRuns(r)
  <2>1. {Task("timeout", r, "timeout", "finish")} \in SUBSET Tasks
    BY <1>1, <1>2, <1>3 DEF CheckTimeoutRuns, Sources, EndStatuses, Steps
  <2> QED  BY <1>3, <2>1, BeginsKeepsInv DEF CheckTimeoutRuns, Begin
<1>4. CASE CheckIdleLoopPods(r)
  <2>1. {Task("idle", r, "completed", "finish")} \in SUBSET Tasks
    BY <1>1, <1>2, <1>4 DEF CheckIdleLoopPods, Sources, EndStatuses, Steps
  <2> QED  BY <1>4, <2>1, BeginsKeepsInv DEF CheckIdleLoopPods, Begin
<1>5. CASE CheckApprovalTimeouts(r)
  <2>1. r \in 1..created
    BY <1>5 DEF CheckApprovalTimeouts, Inv, StartsRows
  <2>2. {Task("approval", r, "cancelled", "kill")} \in SUBSET Tasks
    BY <1>2, <2>1 DEF Sources, EndStatuses, Steps
  <2> QED  BY <1>5, <2>2, BeginsKeepsInv DEF CheckApprovalTimeouts, Begin
<1>6. CASE CleanupOrphanPendingRuns(r)
  <2>1. {Task("orphan", r, "failed", "finish")} \in SUBSET Tasks
    BY <1>1, <1>2, <1>6 DEF CleanupOrphanPendingRuns, Sources, EndStatuses, Steps
  <2> QED  BY <1>6, <2>1, BeginsKeepsInv DEF CleanupOrphanPendingRuns, Begin
<1>7. CASE CancelRun(r)
  <2> DEFINE step == IF r \in podKey THEN "kill" ELSE "finish"
  <2>1. {Task("cancel", r, "cancelled", step)} \in SUBSET Tasks
    BY <1>1, <1>2, <1>7 DEF CancelRun, Sources, EndStatuses, Steps
  <2>2. work' \subseteq work \cup {Task("cancel", r, "cancelled", step)}
    BY <1>7 DEF CancelRun, Begin
  <2> HIDE DEF step
  <2> QED  BY <1>7, <2>1, <2>2, BeginsKeepsInv DEF CancelRun
<1> QED  BY <1>3, <1>4, <1>5, <1>6, <1>7 DEF Schedules

(* The completions.                                                         *)
LEMMA CompletionKeepsInv ==
  ASSUME Inv, NEW t \in work, Completes(t)
  PROVE  Inv'
<1> USE DEF loopVars, rowVars, podVars, startVars, history
<1>1. t \in Tasks /\ work \subseteq Tasks
  BY DEF Inv, TypeOK, Tasks, Ends, Steps
<1>2. t.run \in Runs /\ t.run \in 1..created /\ t.status \in Ends
  BY <1>1, LoopAssumption DEF Tasks, Inv, TypeOK, Runs
<1>3. Done(t) \subseteq Tasks /\ \A s \in Steps : Advance(t, s) \subseteq Tasks
  BY <1>1, AdvanceType DEF Done, Advance
<1>4. AfterRun(t) \subseteq Tasks
  BY <1>3 DEF AfterRun, Steps
<1>5. CASE FinishRun(t)
  <2>1. work' \subseteq Tasks'
    BY <1>3, <1>4, <1>5 DEF FinishRun, Tasks, Steps
  <2>2. TypeOK'
    <3>1. finished' \subseteq 1..created
      <4>1. finished' \subseteq finished \cup {t.run}
        BY <1>5 DEF FinishRun
      <4>2. finished \subseteq 1..created
        BY DEF Inv, TypeOK
      <4> QED  BY <1>2, <4>1, <4>2
    <3>2. status' \in [Runs -> EndStatuses \cup {"pending", "skipped"}]
      BY <1>2, <1>5 DEF FinishRun, Inv, TypeOK, Ends
    <3>3. UNCHANGED <<loopVars, created, deleted, podKey, podVars, startVars,
                      events, history>>
      BY <1>5 DEF FinishRun
    <3> QED  BY <2>1, <3>1, <3>2, <3>3 DEF Inv, TypeOK, Tasks, Ends, Steps
  <2>3. StartsRows'
    BY <1>5 DEF FinishRun, Inv, StartsRows
  <2>4. StatusIsFinal'
    BY <1>2, <1>5 DEF FinishRun, Inv, TypeOK, StatusIsFinal
  <2> QED  BY <2>2, <2>3, <2>4 DEF Inv
<1>6. CASE UpdateRunStats(t)
  <2>1. work' \subseteq Tasks'
    BY <1>3, <1>6 DEF UpdateRunStats, Tasks, Steps
  <2>2. total' \in Nat /\ successful' \in Nat /\ failed' \in Nat
    BY <1>6 DEF UpdateRunStats, Inv, TypeOK
  <2>3. uncounted' \subseteq 1..created
    BY <1>2, <1>6 DEF UpdateRunStats, Inv, TypeOK
  <2>4. TypeOK'
    <3>1. UNCHANGED <<scenario, loopStatus, deleting, lastPodKey, rowVars,
                      podVars, startVars, events, crashed, recovered,
                      userKilled>>
      BY <1>6 DEF UpdateRunStats
    <3> QED  BY <2>1, <2>2, <2>3, <3>1 DEF Inv, TypeOK, Tasks, Ends, Steps
  <2>5. StartsRows' /\ StatusIsFinal'
    BY <1>6 DEF UpdateRunStats, Inv, StartsRows, StatusIsFinal
  <2> QED  BY <2>4, <2>5 DEF Inv
<1>7. CASE UpdateRuntimeState(t)
  <2>1. work' \subseteq Tasks'
    BY <1>3, <1>7 DEF UpdateRuntimeState, Tasks, Steps
  <2>2. lastPodKey' \in Runs \cup {NoRun}
    BY <1>2, <1>7 DEF UpdateRuntimeState, Inv, TypeOK
  <2>3. TypeOK'
    BY <1>7, <2>1, <2>2 DEF UpdateRuntimeState, Inv, TypeOK, Tasks, Ends, Steps
  <2>4. StartsRows' /\ StatusIsFinal'
    BY <1>7 DEF UpdateRuntimeState, Inv, StartsRows, StatusIsFinal
  <2> QED  BY <2>3, <2>4 DEF Inv
<1>8. CASE DeleteOldFinishedRuns(t)
  <2>1. work' \subseteq Tasks'
    BY <1>4, <1>8 DEF DeleteOldFinishedRuns, Tasks
  <2>2. deleted' \subseteq 1..created
    BY <1>8 DEF DeleteOldFinishedRuns, Inv, TypeOK, Rows
  <2>3. TypeOK'
    BY <1>8, <2>1, <2>2
    DEF DeleteOldFinishedRuns, Inv, TypeOK, Tasks, Ends, Steps
  <2>4. StartsRows' /\ StatusIsFinal'
    BY <1>8 DEF DeleteOldFinishedRuns, Inv, StartsRows, StatusIsFinal
  <2> QED  BY <2>3, <2>4 DEF Inv
<1>9. CASE KillPod(t)
  <2>1. work' \subseteq Tasks'
    BY <1>3, <1>9 DEF KillPod, Tasks
  <2>2. pod' \in [Runs -> ActivePod \cup DonePod \cup {"none", "orphaned"}]
    BY <1>9 DEF KillPod, TerminatePod, Inv, TypeOK, DonePod
  <2>3. killed' \subseteq Runs /\ userKilled' \subseteq Runs
    BY <1>2, <1>9 DEF KillPod, TerminatePod, Inv, TypeOK
  <2>4. TypeOK'
    BY <1>9, <2>1, <2>2, <2>3
    DEF KillPod, TerminatePod, Inv, TypeOK, Tasks, Ends, Steps
  <2>5. StartsRows' /\ StatusIsFinal'
    BY <1>9 DEF KillPod, TerminatePod, Inv, StartsRows, StatusIsFinal
  <2> QED  BY <2>4, <2>5 DEF Inv
<1> QED  BY <1>5, <1>6, <1>7, <1>8, <1>9 DEF Completes

(* The loop, and the server's end.                                          *)
LEMMA LoopKeepsInv ==
  ASSUME Inv, SetStatus \/ DeleteChecks \/ DeleteLoop \/ Crash
  PROVE  Inv'
<1> USE DEF Inv, loopVars, rowVars, podVars, startVars, history
<1>1. CASE SetStatus
  <2>1. TypeOK'
    BY <1>1 DEF SetStatus, TypeOK
  <2> QED  BY <1>1, <2>1 DEF SetStatus, StartsRows, StatusIsFinal
<1>2. CASE DeleteChecks
  <2>1. deleting' \in BOOLEAN
    BY <1>2 DEF DeleteChecks
  <2>2. TypeOK'
    BY <1>2, <2>1 DEF DeleteChecks, TypeOK
  <2> QED  BY <1>2, <2>2 DEF DeleteChecks, StartsRows, StatusIsFinal
<1>3. CASE DeleteLoop
  <2>1. deleting' \in BOOLEAN
    BY <1>3 DEF DeleteLoop
  <2>2. TypeOK'
    BY <1>3, <2>1 DEF DeleteLoop, TypeOK
  <2> QED  BY <1>3, <2>2 DEF DeleteLoop, StartsRows, StatusIsFinal
<1>4. CASE Crash
  <2>1. deleting' \in BOOLEAN /\ crashed' \in BOOLEAN
    BY <1>4 DEF Crash
  <2>2. TypeOK'
    BY <1>4, <2>1 DEF Crash, TypeOK
  <2> QED  BY <1>4, <2>2 DEF Crash, StartsRows, StatusIsFinal
<1> QED  BY <1>1, <1>2, <1>3, <1>4

(* The invariant is inductive.                                              *)
LEMMA InvStep == Inv /\ [Next]_vars => Inv'
<1>1. Inv /\ UNCHANGED vars => Inv'
  BY DEF vars, loopVars, rowVars, podVars, startVars, history, Inv, TypeOK,
         StartsRows, StatusIsFinal
<1>2. Inv /\ Next => Inv'
  BY TriggerKeepsInv, StartKeepsInv, PodKeepsInv, HandlerKeepsInv,
     ScheduleKeepsInv, CompletionKeepsInv, LoopKeepsInv DEF Next
<1> QED  BY <1>1, <1>2

(* The types of LoopRuns: a completion or a pod key is always one of a row, *)
(* whatever triggers, events, deletions and crashes come in between         *)
(* (loop_orchestrator_trigger.go, loop_orchestrator_completion.go).         *)
THEOREM TypeCorrect == Spec => []TypeOK
<1>1. Inv => TypeOK
  BY DEF Inv
<1> QED  BY <1>1, InitInv, InvStep, PTL DEF Spec

-----------------------------------------------------------------------------
(* The concurrency cap.                                                     *)

(* The runs the cap is about.                                               *)
Running == {r \in Rows \ (finished \cup recovered) :
              r \notin podKey \/ pod[r] \in ActivePod}

(* Only a trigger adds a run to Running: a pod becomes active before its    *)
(* run has a pod key, or is recovered.                                      *)
LEMMA OnlyTriggersRun ==
  ASSUME Inv, [Next]_vars, ~TriggerRun
  PROVE  Running' \subseteq Running
<1> USE DEF Inv, Running, Rows, ActivePod
<1> USE DEF loopVars, rowVars, podVars, startVars, history
<1>1. CASE UNCHANGED vars
  BY <1>1 DEF vars
<1>2. CASE SetStatus \/ DeleteChecks \/ DeleteLoop \/ Crash
  BY <1>2 DEF SetStatus, DeleteChecks, DeleteLoop, Crash
<1>3. ASSUME NEW r \in Runs, Starting(r)
      PROVE  Running' \subseteq Running
  <2>1. CASE StartCreates(r)
    <3>1. r \notin podKey
      BY <2>1 DEF StartCreates, StartsRows
    <3> QED  BY <2>1, <3>1 DEF StartCreates, TypeOK
  <2>2. CASE StartAutopilotFails(r)
    BY <2>2 DEF StartAutopilotFails, TerminatePod, TypeOK
  <2>3. CASE StartCheck(r) \/ StartFails(r) \/ StartAutopilot(r)
    BY <2>3 DEF StartCheck, StartFails, StartAutopilot
  <2>4. CASE SetRunPodKey(r) \/ SetRunPodKeyFails(r)
    BY <2>4 DEF SetRunPodKey, SetRunPodKeyFails
  <2> QED  BY <1>3, <2>1, <2>2, <2>3, <2>4 DEF Starting
<1>4. ASSUME NEW r \in Runs, PodMoves(r)
      PROVE  Running' \subseteq Running
  <2>1. CASE PodOrphaned(r)
    BY <2>1 DEF PodOrphaned, TypeOK
  <2>2. CASE PodRecovers(r)
    BY <2>2 DEF PodRecovers, TypeOK
  <2>3. ASSUME NEW s \in DonePod, PodEnds(r, s)
        PROVE  Running' \subseteq Running
    BY <2>3 DEF PodEnds, TypeOK, DonePod
  <2>4. ASSUME NEW p \in EndPhases, AutopilotEnds(r, p)
        PROVE  Running' \subseteq Running
    BY <2>4 DEF AutopilotEnds
  <2> QED  BY <1>4, <2>1, <2>2, <2>3, <2>4 DEF PodMoves
<1>5. ASSUME NEW r \in Runs, Handles(r) \/ Schedules(r) \/ CancelRun(r)
      PROVE  Running' \subseteq Running
  <2>1. UNCHANGED <<rowVars, pod, recovered>>
    BY <1>5
    DEF Handles, HandlePodTerminated, HandleAutopilotTerminated, Schedules,
        CheckTimeoutRuns, CheckIdleLoopPods, CheckApprovalTimeouts,
        CleanupOrphanPendingRuns, CancelRun
  <2> QED  BY <2>1
<1>6. ASSUME NEW t \in work, Completes(t)
      PROVE  Running' \subseteq Running
  <2>1. CASE FinishRun(t)
    BY <2>1 DEF FinishRun
  <2>2. CASE UpdateRunStats(t) \/ UpdateRuntimeState(t)
    BY <2>2 DEF UpdateRunStats, UpdateRuntimeState
  <2>3. CASE DeleteOldFinishedRuns(t)
    BY <2>3 DEF DeleteOldFinishedRuns
  <2>4. CASE KillPod(t)
    BY <2>4 DEF KillPod, TerminatePod, TypeOK
  <2> QED  BY <1>6, <2>1, <2>2, <2>3, <2>4 DEF Completes
<1> QED  BY <1>1, <1>2, <1>3, <1>4, <1>5, <1>6 DEF Next

(* A trigger adds one run at most, and only below the cap.                  *)
LEMMA TriggerRespectsCap ==
  ASSUME Inv, CapRespected, TriggerRun
  PROVE  CapRespected'
<1> USE DEF loopVars, podVars, startVars, history
<1>1. created' = created + 1 /\ created \in Nat
  BY LoopAssumption DEF TriggerRun, Inv, TypeOK
<1>2. IsFiniteSet(Rows) /\ IsFiniteSet(ActiveRuns) /\ IsFiniteSet(Running)
  <2>1. IsFiniteSet(1..created)
    BY <1>1, FS_Interval
  <2>2. Rows \in SUBSET (1..created) /\ ActiveRuns \in SUBSET (1..created)
        /\ Running \in SUBSET (1..created)
    BY DEF Rows, ActiveRuns, Running
  <2> QED  BY <2>1, <2>2, FS_Subset
<1>3. CASE Cardinality(ActiveRuns) >= MaxConcurrentRuns
  <2>1. Running' \subseteq Running
    BY <1>1, <1>3 DEF TriggerRun, Running, Rows
  <2>2. Cardinality(Running') <= Cardinality(Running)
    BY <1>2, <2>1, FS_Subset
  <2>3. Cardinality(Running) \in Nat /\ Cardinality(Running') \in Nat
    BY <1>2, <2>1, FS_Subset, FS_CardinalityType
  <2> QED  BY <2>2, <2>3, LoopAssumption DEF CapRespected, Running
<1>4. CASE ~(Cardinality(ActiveRuns) >= MaxConcurrentRuns)
  <2>1. Running \subseteq ActiveRuns
    <3>1. \A r \in Running : r \in Runs
      BY LoopAssumption DEF Running, Rows, Inv, TypeOK, Runs
    <3> QED  BY <3>1 DEF Running, ActiveRuns, Counted, Inv, StatusIsFinal
  <2>2. Running' \in SUBSET (ActiveRuns \cup {created'})
    BY <1>1, <1>4, <2>1 DEF TriggerRun, Running, Rows
  <2>3. /\ IsFiniteSet(ActiveRuns \cup {created'})
        /\ Cardinality(ActiveRuns \cup {created'}) <= Cardinality(ActiveRuns) + 1
    <3> DEFINE S == ActiveRuns
    <3> HIDE DEF S
    <3>1. /\ IsFiniteSet(S \cup {created'})
          /\ Cardinality(S \cup {created'}) =
               IF created' \in S THEN Cardinality(S) ELSE Cardinality(S) + 1
      BY <1>2, FS_AddElement DEF S
    <3>2. Cardinality(S) \in Nat
      BY <1>2, FS_CardinalityType DEF S
    <3>3. Cardinality(S \cup {created'}) <= Cardinality(S) + 1
      BY <3>1, <3>2
    <3> QED  BY <3>1, <3>3 DEF S
  <2>4. Cardinality(Running') <= Cardinality(ActiveRuns \cup {created'})
    BY <2>2, <2>3, FS_Subset
  <2>5. /\ Cardinality(ActiveRuns) \in Nat /\ Cardinality(Running') \in Nat
        /\ Cardinality(ActiveRuns \cup {created'}) \in Nat
    BY <1>2, <2>2, <2>3, FS_Subset, FS_CardinalityType
  <2>6. Cardinality(Running') <= MaxConcurrentRuns
    BY <1>4, <2>3, <2>4, <2>5, LoopAssumption
  <2> QED  BY <2>6 DEF CapRespected, Running
<1> QED  BY <1>3, <1>4

(* Every step keeps the cap.                                                *)
LEMMA CapStep == Inv /\ CapRespected /\ [Next]_vars => CapRespected'
<1> SUFFICES ASSUME Inv, CapRespected, [Next]_vars, ~TriggerRun
             PROVE  CapRespected'
  BY TriggerRespectsCap
<1>1. Running' \in SUBSET Running
  BY OnlyTriggersRun
<1>2. IsFiniteSet(Running)
  <2>1. created \in Nat /\ Running \in SUBSET (1..created)
    BY LoopAssumption DEF Inv, TypeOK, Running, Rows
  <2>2. IsFiniteSet(1..created)
    BY <2>1, FS_Interval
  <2> QED  BY <2>1, <2>2, FS_Subset
<1>3. /\ Cardinality(Running') <= Cardinality(Running)
      /\ Cardinality(Running) \in Nat /\ Cardinality(Running') \in Nat
  BY <1>1, <1>2, FS_Subset, FS_CardinalityType
<1> QED  BY <1>3, LoopAssumption DEF CapRespected, Running

(* The cap holds: the unfinished runs that run or are about to are never    *)
(* more than max_concurrent_runs, because TriggerRunAtomic counts every     *)
(* such run under the lock of the loop's row                                *)
(* (infra/loop_run_repo.go, TriggerRunAtomic).                              *)
THEOREM CapHolds == Spec => []CapRespected
<1>1. Init => CapRespected
  <2> SUFFICES ASSUME Init PROVE CapRespected
    OBVIOUS
  <2>1. Running = {}
    BY DEF Init, Running, Rows
  <2> QED  BY <2>1, FS_EmptySet, LoopAssumption DEF CapRespected, Running
<1> QED  BY <1>1, InitInv, InvStep, CapStep, PTL DEF Spec

-----------------------------------------------------------------------------
(* Counting.  A step leaves what the statistics are about as it is, or one  *)
(* completion finishes a run, or one counts its run, or the server stops.   *)
NothingCounted ==
    /\ StatsTasks' = StatsTasks
    /\ UNCHANGED <<finished, status, uncounted, total, successful, failed,
                   crashed>>

RunEnds(t) ==
    /\ t \in Tasks' /\ t \notin StatsTasks
    /\ StatsTasks' = StatsTasks \cup {t}
    /\ t.run \in Runs \ finished
    /\ finished' = finished \cup {t.run}
    /\ status' = [status EXCEPT ![t.run] = t.status]
    /\ UNCHANGED <<uncounted, total, successful, failed, crashed>>

RunCounted(t) ==
    /\ t \in StatsTasks
    /\ UpdateRunStats(t)
    /\ StatsTasks' = StatsTasks \ {t}

(* A step that adds tasks which are not about to count adds no StatsTasks.  *)
LEMMA OtherTasks ==
  ASSUME NEW x, x.step # "stats",
         work' = work \cup {x}
  PROVE  StatsTasks' = StatsTasks
BY DEF StatsTasks

(* A completion that begins counts nothing yet.                             *)
LEMMA BeginCountsNothing ==
  ASSUME NEW src, NEW r, NEW s, NEW step, step # "stats",
         Begin(Task(src, r, s, step)) \/ work' = work \cup {Task(src, r, s, step)}
  PROVE  StatsTasks' = StatsTasks
<1>1. Task(src, r, s, step).step # "stats"
  BY DEF Task
<1>2. work' = work \cup {Task(src, r, s, step)}
  BY DEF Begin
<1> QED  BY <1>1, <1>2, OtherTasks

(* StartRun counts nothing.                                                 *)
LEMMA StartCounts ==
  ASSUME Inv, NEW r \in Runs, Starting(r)
  PROVE  NothingCounted
<1> USE DEF NothingCounted, loopVars, rowVars, history
<1>1. CASE StartFails(r)
  BY <1>1, BeginCountsNothing DEF StartFails, StatsTasks
<1>2. CASE StartAutopilotFails(r)
  BY <1>2, BeginCountsNothing DEF StartAutopilotFails
<1>3. CASE StartCheck(r) \/ StartCreates(r) \/ StartAutopilot(r)
           \/ SetRunPodKey(r) \/ SetRunPodKeyFails(r)
  BY <1>3 DEF StartCheck, StartCreates, StartAutopilot, SetRunPodKey,
              SetRunPodKeyFails, StatsTasks
<1> QED  BY <1>1, <1>2, <1>3 DEF Starting

(* Nor does a step of a run or its pod.                                     *)
LEMMA RunCounts ==
  ASSUME Inv, NEW r \in Runs,
         PodMoves(r) \/ Handles(r) \/ Schedules(r) \/ CancelRun(r)
  PROVE  NothingCounted
<1> USE DEF NothingCounted, loopVars, rowVars, history
<1>1. CASE PodMoves(r)
  BY <1>1 DEF PodMoves, PodOrphaned, PodRecovers, PodEnds, AutopilotEnds, StatsTasks
<1>2. CASE Handles(r)
  <2>1. ASSUME NEW s \in DonePod, HandlePodTerminated(r, s)
        PROVE  NothingCounted
    BY <2>1, BeginCountsNothing DEF HandlePodTerminated, StatsTasks
  <2>2. ASSUME NEW p \in EndPhases, HandleAutopilotTerminated(r, p)
        PROVE  NothingCounted
    BY <2>2, BeginCountsNothing DEF HandleAutopilotTerminated, StatsTasks
  <2> QED  BY <1>2, <2>1, <2>2 DEF Handles
<1>3. CASE Schedules(r)
  BY <1>3, BeginCountsNothing
  DEF Schedules, CheckTimeoutRuns, CheckIdleLoopPods, CheckApprovalTimeouts,
      CleanupOrphanPendingRuns
<1>4. CASE CancelRun(r)
  BY <1>4, BeginCountsNothing DEF CancelRun
<1> QED  BY <1>1, <1>2, <1>3, <1>4

(* A trigger counts nothing, unless it skips the run.                       *)
LEMMA TriggerCounts ==
  ASSUME Inv, OneCounter, TriggerRun
  PROVE  NothingCounted \/ \E t : RunEnds(t)
<1> USE DEF loopVars, podVars, startVars, history
<1>1. /\ created' = created + 1 /\ created' \in Runs /\ created' \in 1..created'
      /\ created' \notin finished
  BY LoopAssumption DEF TriggerRun, Runs, Inv, TypeOK
<1>2. CASE Cardinality(ActiveRuns) >= MaxConcurrentRuns
  <2> DEFINE t == Task("skip", created', "skipped", "stats")
  <2>1. /\ t.run = created' /\ t.status = "skipped" /\ t.step = "stats"
        /\ t \in Tasks'
    BY <1>1 DEF Task, Tasks, Sources, Ends, Steps
  <2>2. t \notin StatsTasks
    BY <1>1, <2>1 DEF OneCounter
  <2>3. work' = work \cup {t}
    BY <1>2 DEF TriggerRun
  <2>4. StatsTasks' = StatsTasks \cup {t}
    <3> HIDE DEF t
    <3> QED  BY <2>1, <2>3 DEF StatsTasks
  <2>5. /\ finished' = finished \cup {created'}
        /\ status' = [status EXCEPT ![created'] = "skipped"]
        /\ UNCHANGED <<uncounted, total, successful, failed, crashed>>
    BY <1>2 DEF TriggerRun
  <2> HIDE DEF t
  <2>6. RunEnds(t)
    BY <1>1, <2>1, <2>2, <2>4, <2>5 DEF RunEnds
  <2> QED  BY <2>6
<1>3. CASE ~(Cardinality(ActiveRuns) >= MaxConcurrentRuns)
  BY <1>3 DEF TriggerRun, NothingCounted, StatsTasks
<1> QED  BY <1>2, <1>3

(* A completion ends a run, counts one, or counts nothing.                  *)
LEMMA CompletionCounts ==
  ASSUME Inv, OneCounter, NEW t \in work, Completes(t)
  PROVE  NothingCounted \/ \E u : RunEnds(u) \/ RunCounted(u)
<1> USE DEF loopVars, rowVars, podVars, startVars, history
<1>1. t \in Tasks /\ t.run \in Runs
  BY LoopAssumption DEF Inv, TypeOK, Tasks, Ends, Steps, Runs
<1>2. ASSUME NEW step \in Steps \ {"stats"}, t.step # "stats",
             work' = Advance(t, step) \/ work' = Done(t)
      PROVE  StatsTasks' = StatsTasks
  <2>1. CASE work' = Advance(t, step)
    <3> DEFINE u == [t EXCEPT !.step = step]
    <3>1. u.step = step
      BY <1>1, <1>2, AdvanceType
    <3>2. work' = (work \ {t}) \cup {u}
      BY <2>1 DEF Advance
    <3> HIDE DEF u
    <3> QED  BY <1>2, <3>1, <3>2 DEF StatsTasks
  <2>2. CASE work' = Done(t)
    BY <1>2, <2>2 DEF Done, StatsTasks
  <2> QED  BY <1>2, <2>1, <2>2
<1>3. ASSUME t.step # "stats", work' = AfterRun(t)
      PROVE  StatsTasks' = StatsTasks
  BY <1>2, <1>3 DEF AfterRun, Steps
<1>4. CASE FinishRun(t)
  <2>1. CASE t.run \in Rows \ finished
    <3> DEFINE u == [t EXCEPT !.step = "stats"]
    <3>1. u \in Tasks /\ u.step = "stats" /\ u.run = t.run /\ u.status = t.status
      BY <1>1, AdvanceType DEF Steps
    <3>2. u \in Tasks'
      BY <1>4, <3>1 DEF FinishRun, Tasks
    <3>3. u \notin StatsTasks
      BY <2>1, <3>1 DEF OneCounter
    <3>4. work' = (work \ {t}) \cup {u} /\ t.step # "stats"
      BY <1>4, <2>1 DEF FinishRun, Advance
    <3>5. /\ finished' = finished \cup {t.run}
          /\ status' = [status EXCEPT ![t.run] = t.status]
          /\ UNCHANGED <<uncounted, total, successful, failed, crashed>>
      BY <1>4, <2>1 DEF FinishRun
    <3> HIDE DEF u
    <3>6. StatsTasks' = StatsTasks \cup {u}
      BY <3>1, <3>4 DEF StatsTasks
    <3>7. RunEnds(u)
      BY <1>1, <2>1, <3>1, <3>2, <3>3, <3>5, <3>6 DEF RunEnds
    <3> QED  BY <3>7
  <2>2. CASE t.run \notin Rows \ finished
    BY <1>3, <1>4, <2>2 DEF FinishRun, NothingCounted
  <2> QED  BY <2>1, <2>2
<1>5. CASE UpdateRunStats(t)
  <2>1. t \in StatsTasks
    BY <1>5 DEF UpdateRunStats, StatsTasks
  <2>2. work' = Done(t) \/ work' = Advance(t, "state")
    BY <1>5 DEF UpdateRunStats
  <2>3. StatsTasks' = StatsTasks \ {t}
    BY <1>1, <2>2, AdvanceType DEF Done, Advance, StatsTasks, Steps
  <2> QED  BY <1>5, <2>1, <2>3 DEF RunCounted
<1>6. CASE UpdateRuntimeState(t)
  BY <1>2, <1>6 DEF UpdateRuntimeState, NothingCounted, Steps
<1>7. CASE DeleteOldFinishedRuns(t)
  BY <1>3, <1>7 DEF DeleteOldFinishedRuns, NothingCounted
<1>8. CASE KillPod(t)
  BY <1>2, <1>8 DEF KillPod, NothingCounted, Steps
<1> QED  BY <1>4, <1>5, <1>6, <1>7, <1>8 DEF Completes

(* And any other step counts nothing or loses all goroutines.               *)
LEMMA StepCounts ==
  ASSUME Inv, OneCounter, [Next]_vars
  PROVE  \/ NothingCounted \/ \E t : RunEnds(t) \/ RunCounted(t)
         \/ Crash
<1>1. CASE UNCHANGED vars
  BY <1>1 DEF vars, NothingCounted, StatsTasks, loopVars, rowVars, history
<1>2. CASE SetStatus \/ DeleteChecks \/ DeleteLoop
  BY <1>2 DEF SetStatus, DeleteChecks, DeleteLoop, NothingCounted, StatsTasks,
              loopVars, rowVars, history
<1> QED
  BY <1>1, <1>2, TriggerCounts, StartCounts, RunCounts, CompletionCounts DEF Next

(* No run gets a second completion that counts it.                          *)
LEMMA OneCounterStep ==
  ASSUME Inv, Inv', OneCounter, [Next]_vars
  PROVE  OneCounter'
<1>1. CASE NothingCounted
  BY <1>1 DEF NothingCounted, OneCounter
<1>2. ASSUME NEW t, RunEnds(t)
      PROVE  OneCounter'
  <2>1. IsFiniteSet(StatsTasks')
    BY <1>2, FS_AddElement DEF RunEnds, OneCounter
  <2>2. uncounted' \subseteq finished'
    BY <1>2 DEF RunEnds, OneCounter
  <2>3. t.run \notin uncounted /\ \A u \in StatsTasks : u.run # t.run
    BY <1>2 DEF RunEnds, OneCounter
  <2>4. status'[t.run] = t.status
        /\ \A r \in Runs \ {t.run} : status'[r] = status[r]
    BY <1>2 DEF RunEnds, Inv, TypeOK
  <2>5. \A u \in StatsTasks : u.run \in Runs
    <3>1. finished \subseteq Runs
      BY LoopAssumption DEF Inv, TypeOK, Runs
    <3> QED  BY <3>1 DEF OneCounter
  <2>6. \A u \in StatsTasks' : /\ u.run \in finished' \ uncounted'
                               /\ status'[u.run] = u.status
    BY <1>2, <2>3, <2>4, <2>5 DEF RunEnds, OneCounter
  <2>7. \A u, v \in StatsTasks' : u.run = v.run => u = v
    BY <1>2, <2>3 DEF RunEnds, OneCounter
  <2> QED  BY <2>1, <2>2, <2>6, <2>7 DEF OneCounter
<1>3. ASSUME NEW t, RunCounted(t)
      PROVE  OneCounter'
  <2>1. IsFiniteSet(StatsTasks')
    BY <1>3, FS_RemoveElement DEF RunCounted, OneCounter
  <2>2. /\ finished' = finished /\ status' = status
        /\ uncounted' \subseteq uncounted \cup {t.run}
    BY <1>3 DEF RunCounted, UpdateRunStats, rowVars
  <2>3. StatsTasks' = StatsTasks \ {t} /\ t \in StatsTasks
    BY <1>3 DEF RunCounted
  <2> QED  BY <2>1, <2>2, <2>3 DEF OneCounter
<1>4. CASE Crash
  <2>1. StatsTasks' = {} /\ UNCHANGED <<uncounted, finished>>
    BY <1>4 DEF Crash, StatsTasks, rowVars
  <2> QED  BY <2>1, FS_EmptySet DEF OneCounter
<1> QED  BY <1>1, <1>2, <1>3, <1>4, StepCounts

-----------------------------------------------------------------------------
(* The counters.  For a set S of statuses: the completions that owe a       *)
(* count, the runs whose count was given up and those that ended.           *)
Owing(S) == {t \in work : t.step = "stats" /\ t.status \in S}
Lost(S) == {r \in uncounted : status[r] \in S}
EndedIn(S) == {r \in finished : status[r] \in S}

(* All of them are finite.                                                  *)
LEMMA CountedSets ==
  ASSUME Inv, OneCounter, NEW S
  PROVE  /\ IsFiniteSet(Owing(S)) /\ Cardinality(Owing(S)) \in Nat
         /\ IsFiniteSet(Lost(S)) /\ Cardinality(Lost(S)) \in Nat
         /\ IsFiniteSet(EndedIn(S)) /\ Cardinality(EndedIn(S)) \in Nat
<1>1. IsFiniteSet(1..created)
  BY LoopAssumption, FS_Interval DEF Inv, TypeOK
<1>2. Lost(S) \in SUBSET (1..created) /\ EndedIn(S) \in SUBSET (1..created)
      /\ Owing(S) \in SUBSET StatsTasks
  BY DEF Lost, EndedIn, Owing, StatsTasks, Inv, TypeOK
<1>3. IsFiniteSet(StatsTasks)
  BY DEF OneCounter
<1>4. IsFiniteSet(Owing(S)) /\ IsFiniteSet(Lost(S)) /\ IsFiniteSet(EndedIn(S))
  BY <1>1, <1>2, <1>3, FS_Subset
<1> QED  BY <1>4, FS_CardinalityType

(* A run that ends is owed a count.                                         *)
LEMMA EndIsOwed ==
  ASSUME Inv, OneCounter, NEW S, NEW t, RunEnds(t)
  PROVE  LET n == IF t.status \in S THEN 1 ELSE 0
         IN  /\ Uncounted(S)' = Uncounted(S) + n
             /\ Ended(S)' = Ended(S) + n
<1> DEFINE n == IF t.status \in S THEN 1 ELSE 0
<1>2. status'[t.run] = t.status
      /\ \A r \in Runs \ {t.run} : status'[r] = status[r]
  BY DEF RunEnds, Inv, TypeOK
<1>3. finished \subseteq Runs /\ t.run \notin finished
  BY LoopAssumption DEF RunEnds, Inv, TypeOK, Runs
<1>4. Owing(S)' = IF t.status \in S THEN Owing(S) \cup {t} ELSE Owing(S)
  <2>1. Owing(S) = {u \in StatsTasks : u.status \in S}
    BY DEF Owing, StatsTasks
  <2>2. Owing(S)' = {u \in StatsTasks' : u.status \in S}
    BY DEF Owing, StatsTasks
  <2> QED  BY <2>1, <2>2 DEF RunEnds
<1>5. Lost(S)' = Lost(S)
  BY <1>2, <1>3 DEF RunEnds, Lost, OneCounter
<1>6. EndedIn(S)' = IF t.status \in S THEN EndedIn(S) \cup {t.run} ELSE EndedIn(S)
  BY <1>2, <1>3 DEF RunEnds, EndedIn
<1>7. t \notin Owing(S) /\ t.run \notin EndedIn(S)
  BY <1>3 DEF RunEnds, StatsTasks, Owing, EndedIn
<1>8. Cardinality(Owing(S)') = Cardinality(Owing(S)) + n
      /\ Cardinality(EndedIn(S)') = Cardinality(EndedIn(S)) + n
  <2>1. Cardinality(Owing(S) \cup {t}) = Cardinality(Owing(S)) + 1
    BY <1>7, CountedSets, FS_AddElement
  <2>2. Cardinality(EndedIn(S) \cup {t.run}) = Cardinality(EndedIn(S)) + 1
    BY <1>7, CountedSets, FS_AddElement
  <2>3. Cardinality(Owing(S)) \in Nat /\ Cardinality(EndedIn(S)) \in Nat
    BY CountedSets
  <2>4. CASE t.status \in S
    BY <1>4, <1>6, <2>1, <2>2, <2>4
  <2>5. CASE t.status \notin S
    BY <1>4, <1>6, <2>3, <2>5
  <2> QED  BY <2>4, <2>5
<1>9. /\ Uncounted(S)' = Cardinality(Owing(S)') + Cardinality(Lost(S)')
      /\ Uncounted(S) = Cardinality(Owing(S)) + Cardinality(Lost(S))
      /\ Ended(S)' = Cardinality(EndedIn(S)') /\ Ended(S) = Cardinality(EndedIn(S))
  BY DEF Uncounted, Ended, Owing, Lost, EndedIn
<1>10. n \in Nat
  OBVIOUS
<1> HIDE DEF n
<1>11. /\ Uncounted(S)' = Uncounted(S) + n /\ Ended(S)' = Ended(S) + n
       /\ Uncounted(S) \in Nat /\ Ended(S) \in Nat
  BY <1>5, <1>8, <1>9, <1>10, CountedSets
<1> QED  BY <1>11 DEF n

(* A count that is made is owed no longer; one that is given up is lost.    *)
LEMMA CountIsPaid ==
  ASSUME Inv, OneCounter, NEW S, NEW t, RunCounted(t)
  PROVE  LET n == IF t.status \in S /\ Counts(t) THEN 1 ELSE 0
         IN  /\ Uncounted(S)' + n = Uncounted(S)
             /\ Uncounted(S)' \in Int /\ Ended(S)' = Ended(S)
<1> DEFINE n == IF t.status \in S /\ Counts(t) THEN 1 ELSE 0
<1>1. UNCHANGED <<finished, status>>
  BY DEF RunCounted, UpdateRunStats, rowVars
<1>2. /\ t.step = "stats" /\ t \in work /\ t.run \notin uncounted
      /\ status[t.run] = t.status
  BY DEF RunCounted, StatsTasks, OneCounter
<1>3. Owing(S)' = Owing(S) \ {t}
  <2>1. Owing(S) = {u \in StatsTasks : u.status \in S}
    BY DEF Owing, StatsTasks
  <2>2. Owing(S)' = {u \in StatsTasks' : u.status \in S}
    BY DEF Owing, StatsTasks
  <2> QED  BY <2>1, <2>2 DEF RunCounted
<1>4. t \in Owing(S) <=> t.status \in S
  BY <1>2 DEF Owing
<1>5. uncounted' = IF Counts(t) THEN uncounted ELSE uncounted \cup {t.run}
  BY DEF RunCounted, UpdateRunStats
<1>6. Lost(S)' = IF t.status \in S /\ ~Counts(t) THEN Lost(S) \cup {t.run}
                                                ELSE Lost(S)
  BY <1>1, <1>2, <1>5 DEF Lost
<1>7. t.run \notin Lost(S)
  BY <1>2 DEF Lost
<1>8. Cardinality(Owing(S)') =
        IF t.status \in S THEN Cardinality(Owing(S)) - 1 ELSE Cardinality(Owing(S))
  BY <1>3, <1>4, CountedSets, FS_RemoveElement
<1>9. Cardinality(Lost(S)') =
        IF t.status \in S /\ ~Counts(t) THEN Cardinality(Lost(S)) + 1
                                       ELSE Cardinality(Lost(S))
  BY <1>6, <1>7, CountedSets, FS_AddElement
<1>10. Uncounted(S)' + n = Uncounted(S) /\ Uncounted(S)' \in Int
  <2> HIDE DEF n
  <2>1. Uncounted(S)' = Cardinality(Owing(S)') + Cardinality(Lost(S)')
        /\ Uncounted(S) = Cardinality(Owing(S)) + Cardinality(Lost(S))
    BY DEF Uncounted, Owing, Lost
  <2> QED  BY <1>8, <1>9, <2>1, CountedSets DEF n
<1> QED  BY <1>1, <1>10 DEF Ended

(* Every step keeps the counters equal to the rows.                         *)
LEMMA StatsStep ==
  ASSUME Inv, Inv', OneCounter, OneCounter', StatsCountEachRunOnce, [Next]_vars
  PROVE  StatsCountEachRunOnce'
<1>1. CASE Crash
  BY <1>1 DEF Crash, StatsCountEachRunOnce
<1>2. CASE NothingCounted
  <2>1. ASSUME NEW S PROVE Uncounted(S)' = Uncounted(S) /\ Ended(S)' = Ended(S)
    <3>1. {t \in work' : t.step = "stats" /\ t.status \in S}
            = {t \in work : t.step = "stats" /\ t.status \in S}
      BY <1>2 DEF NothingCounted, StatsTasks
    <3>2. UNCHANGED <<finished, status, uncounted>>
      BY <1>2 DEF NothingCounted
    <3> QED  BY <3>1, <3>2 DEF Uncounted, Ended
  <2>2. UNCHANGED <<finished, total, successful, failed, crashed>>
    BY <1>2 DEF NothingCounted
  <2> QED  BY <2>1, <2>2 DEF StatsCountEachRunOnce
<1>3. Cardinality(finished) = Ended(Ends) /\ Cardinality(finished') = Ended(Ends)'
  <2>1. finished \subseteq Runs /\ finished' \subseteq Runs
    <3>1. finished \subseteq 1..created /\ created \in 0..MaxRuns
      BY DEF Inv, TypeOK
    <3>2. finished' \subseteq 1..created' /\ created' \in 0..MaxRuns
      BY DEF Inv, TypeOK
    <3> QED  BY <3>1, <3>2, LoopAssumption DEF Runs
  <2>2. finished = {r \in finished : status[r] \in Ends}
    BY <2>1 DEF Inv, StatusIsFinal
  <2>3. finished' = {r \in finished' : status'[r] \in Ends}
    BY <2>1 DEF Inv, StatusIsFinal
  <2> QED  BY <2>2, <2>3 DEF Ended
<1>4. ASSUME NEW S PROVE Uncounted(S) \in Nat /\ Ended(S) \in Nat
  <2>1. /\ Uncounted(S) = Cardinality(Owing(S)) + Cardinality(Lost(S))
        /\ Ended(S) = Cardinality(EndedIn(S))
    BY DEF Uncounted, Ended, Owing, Lost, EndedIn
  <2> QED  BY <2>1, CountedSets
<1>5. total \in Nat /\ successful \in Nat /\ failed \in Nat
  BY DEF Inv, TypeOK
<1>6. ASSUME NEW t, RunEnds(t)
      PROVE  StatsCountEachRunOnce'
  <2>1. UNCHANGED <<total, successful, failed, crashed>>
    BY <1>6 DEF RunEnds
  <2>2. ASSUME NEW S, NEW c \in Nat, c + Uncounted(S) = Ended(S)
        PROVE  c + Uncounted(S)' = Ended(S)'
    <3> DEFINE n == IF t.status \in S THEN 1 ELSE 0
    <3>1. Uncounted(S)' = Uncounted(S) + n /\ Ended(S)' = Ended(S) + n
      BY <1>6, EndIsOwed
    <3>2. n \in Nat
      OBVIOUS
    <3> HIDE DEF n
    <3> QED  BY <1>4, <2>2, <3>1, <3>2
  <2>3. ~crashed =>
          /\ total + Uncounted(Ends)' = Ended(Ends)'
          /\ successful + Uncounted({"completed"})' = Ended({"completed"})'
          /\ failed + Uncounted(Failures)' = Ended(Failures)'
    BY <1>3, <1>5, <2>2 DEF StatsCountEachRunOnce, Ends
  <2> QED  BY <1>3, <2>1, <2>3 DEF StatsCountEachRunOnce, Ends
<1>7. ASSUME NEW t, RunCounted(t)
      PROVE  StatsCountEachRunOnce'
  <2> DEFINE n(S) == IF t.status \in S /\ Counts(t) THEN 1 ELSE 0
  <2>1. t.status \in Ends
    BY <1>7 DEF RunCounted, StatsTasks, Inv, TypeOK, Ends
  <2>2. /\ total' = total + n(Ends)
        /\ successful' = successful + n({"completed"})
        /\ failed' = failed + n(Failures)
        /\ crashed' = crashed
    BY <1>5, <1>7, <2>1 DEF RunCounted, UpdateRunStats
  <2>3. ASSUME NEW S, NEW c \in Nat, c + Uncounted(S) = Ended(S)
        PROVE  c + n(S) + Uncounted(S)' = Ended(S)'
    <3>1. /\ Uncounted(S)' + n(S) = Uncounted(S) /\ Ended(S)' = Ended(S)
          /\ Uncounted(S)' \in Int
      BY <1>7, CountIsPaid
    <3>2. n(S) \in Nat
      OBVIOUS
    <3> HIDE DEF n
    <3> QED  BY <1>4, <2>3, <3>1, <3>2
  <2> HIDE DEF n
  <2>4. ~crashed =>
          /\ total' + Uncounted(Ends)' = Ended(Ends)'
          /\ successful' + Uncounted({"completed"})' = Ended({"completed"})'
          /\ failed' + Uncounted(Failures)' = Ended(Failures)'
    BY <1>3, <1>5, <2>2, <2>3 DEF StatsCountEachRunOnce, Ends
  <2> QED  BY <1>3, <2>2, <2>4 DEF StatsCountEachRunOnce, Ends
<1> QED  BY <1>1, <1>2, <1>6, <1>7, StepCounts

(* Each finished run is counted once in the loop's statistics, however many *)
(* completions race for it: FinishRun lets one of them through              *)
(* ("finished_at IS NULL"), which alone goes on to UpdateRunStats.          *)
THEOREM RunsAreCountedOnce == Spec => []StatsCountEachRunOnce
<1>1. Init => OneCounter /\ StatsCountEachRunOnce
  <2> SUFFICES ASSUME Init PROVE OneCounter /\ StatsCountEachRunOnce
    OBVIOUS
  <2>1. StatsTasks = {} /\ finished = {} /\ uncounted = {} /\ work = {}
    BY DEF Init, StatsTasks
  <2>2. OneCounter
    BY <2>1, FS_EmptySet DEF OneCounter
  <2>3. \A S : Uncounted(S) = 0 /\ Ended(S) = 0
    <3>1. ASSUME NEW S
          PROVE  /\ {t \in work : t.step = "stats" /\ t.status \in S} = {}
                 /\ {r \in uncounted : status[r] \in S} = {}
                 /\ {r \in finished : status[r] \in S} = {}
      BY <2>1
    <3> QED  BY <3>1, FS_EmptySet DEF Uncounted, Ended
  <2>4. StatsCountEachRunOnce
    BY <2>1, <2>3, FS_EmptySet DEF Init, StatsCountEachRunOnce
  <2> QED  BY <2>2, <2>4
<1>2. IInv /\ [Next]_vars => IInv'
  BY InvStep, OneCounterStep, StatsStep DEF IInv
<1>3. Init => IInv
  BY <1>1, InitInv DEF IInv
<1>4. IInv => StatsCountEachRunOnce
  BY DEF IInv
<1> QED  BY <1>2, <1>3, <1>4, PTL DEF Spec
=============================================================================
