-------------------------- MODULE PodLifecycleProofs --------------------------
(***************************************************************************)
(* Proofs about PodLifecycle, for every set of pods and every threshold.   *)
(* The inductive invariant says that a pod key is created on the runner at *)
(* most once, whatever is lost, repeated or restarted, and that a pod has  *)
(* no process before OnCreatePod has started it.                           *)
(***************************************************************************)
EXTENDS PodLifecycle, SequenceTheorems, FiniteSetTheorems, TLAPS

(* The create command of a pod is sent at most once, after its row exists. *)
CreateSentOnce ==
    \A p \in Pods :
        /\ status[p] = "none" => orchestrator[p] = "idle"
        /\ p \in Strangers => orchestrator[p] = "idle"
        /\ orchestrator[p] \in {"idle", "inserted"} =>
            Event("create", p) \notin down /\ (p \notin Strangers => creator[p] = "none")
        /\ Event("create", p) \in down => creator[p] = "none"

(* Only OnCreatePod starts a process.                                       *)
NotStarted == {"none", "building", "built", "stored"}
StartedByCreator == \A p \in Pods : creator[p] \in NotStarted => p \notin alive

IInv == TypeOK /\ CreateSentOnce /\ StartedByCreator /\ ProcessIsTracked

-----------------------------------------------------------------------------
(* Queues of messages stay queues of messages.                              *)
LEMMA SendControlType ==
  ASSUME NEW msgs \in Seq(Messages), up \in Seq(Messages), controlCh \in Seq(Messages),
         SendControl(msgs)
  PROVE  up' \in Seq(Messages) /\ controlCh' \in Seq(Messages)
<1>1. \A s \in Seq(Messages) : s \o msgs \in Seq(Messages)
  BY ConcatProperties
<1> QED  BY <1>1 DEF SendControl

(* Events are messages, alone and in the pairs that are sent.               *)
LEMMA EventType ==
  ASSUME NEW p \in Pods, NEW k \in {"created", "error", "exited", "failed"}
  PROVE  /\ Event(k, p) \in Messages
         /\ <<Event(k, p)>> \in Seq(Messages)
         /\ <<Event("error", p), Event(k, p)>> \in Seq(Messages)
         /\ <<>> \o <<Event(k, p)>> \in Seq(Messages)
         /\ <<Event("error", p)>> \o <<Event(k, p)>> \in Seq(Messages)
<1>1. Event(k, p) \in Messages /\ Event("error", p) \in Messages
  BY DEF Event, Messages
<1>2. <<Event(k, p)>> \in Seq(Messages) /\ <<Event("error", p)>> \in Seq(Messages)
        /\ <<Event("error", p), Event(k, p)>> \in Seq(Messages)
        /\ <<>> \in Seq(Messages)
  BY <1>1
<1> QED  BY <1>1, <1>2, ConcatProperties

(* A part of a queue is a queue.                                            *)
LEMMA PrefixType ==
  ASSUME NEW q \in Seq(Messages), NEW i \in 0..Len(q), NEW j \in 0..Len(q)
  PROVE  SubSeq(q, i + 1, j) \in Seq(Messages)
<1>1. \A k \in (i + 1)..j : q[k] \in Messages
  BY ElementOfSeq, LenProperties
<1> QED  BY <1>1, SubSeqProperties, LenProperties

(* A received message has the fields of its kind.                           *)
LEMMA ReceivedType ==
  ASSUME TypeOK, NEW kind, Receiving(kind)
  PROVE  /\ up' \in Seq(Messages)
         /\ kind \in {"created", "error", "exited", "failed"} => Head(up).pod \in Pods
         /\ kind = "heartbeat" => Head(up).pods \in SUBSET Pods
<1>1. up' \in Seq(Messages) /\ Head(up) \in Messages /\ Head(up).kind = kind
  BY HeadTailProperties DEF TypeOK, Receiving
<1> QED  BY <1>1 DEF Messages

(* Sets of pods have a size.                                                *)
LEMMA CardinalityType ==
  ASSUME NEW S \in SUBSET Pods
  PROVE  Cardinality(S) \in Nat
BY PodsAssumption, FS_Subset, FS_CardinalityType

(* current_pods does not go below zero.                                     *)
LEMMA DecrementType ==
  ASSUME NEW n \in Nat, NEW k \in Nat
  PROVE  Decrement(n, k) \in Nat
BY DEF Decrement

(* UpdateByKey writes a status.                                             *)
LEMMA UpdateType ==
  ASSUME NEW p \in Pods, NEW s \in Statuses, status \in [Pods -> Statuses],
         UpdateByKey(p, s)
  PROVE  status' \in [Pods -> Statuses]
BY DEF UpdateByKey, Statuses

(* A threshold is positive, so a counter may be zero.                       *)
LEMMA ZeroIsBelow ==
  /\ 0 \in 0..(OrphanMissThreshold - 1)
  /\ 0 \in 0..(InitRecoverThreshold - 1)
BY ThresholdAssumption

-----------------------------------------------------------------------------
(* Every step keeps the types.                                              *)
LEMMA TypeStep == TypeOK /\ [Next]_vars => TypeOK'
<1> SUFFICES ASSUME TypeOK, [Next]_vars PROVE TypeOK'
  OBVIOUS
<1> USE ThresholdAssumption, PodsAssumption
        DEF rowVars, memoryVars, callerVars, streamVars, runnerVars, Statuses, ActiveStatuses
<1>1. ASSUME NEW p \in Pods, InsertPod(p) PROVE TypeOK'
  BY <1>1 DEF InsertPod, TypeOK
<1>1b. ASSUME NEW p \in Pods, BuildCommandFails(p) PROVE TypeOK'
  BY <1>1b DEF BuildCommandFails, TypeOK
<1>2. ASSUME NEW p \in Pods, CreatePod(p) PROVE TypeOK'
  <2>1. down' \in SUBSET [kind : {"create", "terminate"}, pod : Pods]
    BY <1>2 DEF CreatePod, TypeOK, Commands, Event
  <2>2. currentPods' \in Nat
    BY <1>2 DEF CreatePod, TypeOK
  <2>3. orchestrator' \in [Pods -> {"idle", "inserted", "failed", "sent"}]
    <3>1. CASE Connected
      BY <1>2, <3>1 DEF CreatePod, TypeOK
    <3>2. CASE ~Connected
      BY <1>2, <3>2 DEF CreatePod, TypeOK
    <3> QED  BY <3>1, <3>2
  <2> QED  BY <1>2, <2>1, <2>2, <2>3 DEF CreatePod, TypeOK
<1>3. ASSUME NEW p \in Pods, MarkInitFailed(p) PROVE TypeOK'
  BY <1>3 DEF MarkInitFailed, TypeOK
<1>4. ASSUME NEW p \in Pods, RestCheck(p) PROVE TypeOK'
  BY <1>4 DEF RestCheck, TypeOK
<1>5. ASSUME NEW p \in Pods, RestTerminate(p) PROVE TypeOK'
  BY <1>5, DecrementType DEF RestTerminate, TypeOK, UpdateByKey
<1>6. ASSUME NEW p \in Pods, SendTerminate(p) PROVE TypeOK'
  <2>1. down' \in SUBSET [kind : {"create", "terminate"}, pod : Pods]
    BY <1>6 DEF SendTerminate, TypeOK, Commands, Event
  <2>2. coordinator' \in [Pods -> {"idle", "sent", "done"}]
    BY <1>6 DEF SendTerminate, TypeOK
  <2> QED  BY <1>6, <2>1, <2>2 DEF SendTerminate, TypeOK
<1>7. ASSUME NEW p \in Pods, MarkCompleted(p) PROVE TypeOK'
  <2>1. status' \in [Pods -> Statuses]
    BY <1>7, UpdateType DEF MarkCompleted, TypeOK
  <2>2. misses' \in [Pods -> 0..(OrphanMissThreshold - 1)]
    BY <1>7, ZeroIsBelow DEF MarkCompleted, TypeOK
  <2>3. currentPods' \in Nat
    BY <1>7, DecrementType DEF MarkCompleted, TypeOK
  <2>4. coordinator' \in [Pods -> {"idle", "sent", "done"}]
    BY <1>7 DEF MarkCompleted, TypeOK
  <2> QED  BY <1>7, <2>1, <2>2, <2>3, <2>4 DEF MarkCompleted, TypeOK
<1>8. ASSUME NEW p \in Pods, MarkStale(p) PROVE TypeOK'
  BY <1>8 DEF MarkStale, TypeOK
<1>9. ASSUME NEW p \in Pods, OnCreatePod(p) PROVE TypeOK'
  BY <1>9 DEF OnCreatePod, TypeOK
<1>10. ASSUME NEW p \in Pods, FailCreation(p) PROVE TypeOK'
  <2>1. up' \in Seq(Messages) /\ controlCh' \in Seq(Messages)
    BY <1>10, EventType, SendControlType DEF FailCreation, TypeOK
  <2> QED  BY <1>10, <2>1 DEF FailCreation, TypeOK
<1>11. ASSUME NEW p \in Pods, BuildDone(p) PROVE TypeOK'
  <2>1. up' \in Seq(Messages) /\ controlCh' \in Seq(Messages)
    BY <1>11, EventType, SendControlType DEF BuildDone, TypeOK
  <2> QED  BY <1>11, <2>1 DEF BuildDone, TypeOK
<1>12. ASSUME NEW p \in Pods, StorePod(p) PROVE TypeOK'
  BY <1>12 DEF StorePod, TypeOK
<1>13. ASSUME NEW p \in Pods, StartTerminal(p) PROVE TypeOK'
  BY <1>13 DEF StartTerminal, TypeOK
<1>14. ASSUME NEW p \in Pods, SendPodCreated(p) PROVE TypeOK'
  <2>1. up' \in Seq(Messages) /\ controlCh' \in Seq(Messages)
    BY <1>14, EventType, SendControlType DEF SendPodCreated, TypeOK
  <2> QED  BY <1>14, <2>1 DEF SendPodCreated, TypeOK
<1>15. ASSUME NEW p \in Pods, OnTerminatePod(p) PROVE TypeOK'
  <2>1. teardown' \in SUBSET [kind : TeardownKinds, pod : Pods]
    BY <1>15 DEF OnTerminatePod, TypeOK, Event, TeardownKinds
  <2> QED  BY <1>15, <2>1 DEF OnTerminatePod, TypeOK
<1>16. ASSUME NEW p \in Pods, PodExits(p) PROVE TypeOK'
  <2>1. up' \in Seq(Messages) /\ controlCh' \in Seq(Messages)
    BY <1>16, EventType, SendControlType DEF PodExits, TypeOK
  <2>2. teardown' \in SUBSET [kind : TeardownKinds, pod : Pods]
    BY <1>16 DEF PodExits, TypeOK, Event, TeardownKinds
  <2> QED  BY <1>16, <2>1, <2>2 DEF PodExits, TypeOK
<1>33. ASSUME NEW p \in Pods, NEW kind \in TeardownKinds, SendPodTerminated(p, kind)
       PROVE  TypeOK'
  <2>1. up' \in Seq(Messages) /\ controlCh' \in Seq(Messages)
    BY <1>33, EventType, SendControlType DEF SendPodTerminated, TypeOK
  <2>2. alive' \in SUBSET Pods /\ teardown' \in SUBSET [kind : TeardownKinds, pod : Pods]
    BY <1>33 DEF SendPodTerminated, TypeOK
  <2> QED  BY <1>33, <2>1, <2>2 DEF SendPodTerminated, TypeOK
<1>17. ASSUME NEW p \in Pods, CooldownEnds(p) PROVE TypeOK'
  BY <1>17 DEF CooldownEnds, TypeOK
<1>18. CASE SendHeartbeat
  <2>1. [kind |-> "heartbeat", pods |-> store] \in Messages
    BY DEF Messages, TypeOK
  <2>2. up' \in Seq(Messages)
    BY <1>18, <2>1, AppendProperties DEF SendHeartbeat, TypeOK
  <2> QED  BY <1>18, <2>2 DEF SendHeartbeat, TypeOK
<1>19. CASE HandlePodCreated
  <2>1. Head(up).pod \in Pods /\ up' \in Seq(Messages)
    BY <1>19, ReceivedType DEF HandlePodCreated
  <2>2. status' \in [Pods -> Statuses]
    BY <1>19, <2>1, UpdateType DEF HandlePodCreated, TypeOK
  <2>3. initReports' \in [Pods -> 0..(InitRecoverThreshold - 1)]
    BY <1>19, <2>1, ZeroIsBelow DEF HandlePodCreated, TypeOK
  <2> QED  BY <1>19, <2>1, <2>2, <2>3 DEF HandlePodCreated, TypeOK
<1>20. CASE HandlePodTerminated
  <2>1. Head(up).pod \in Pods /\ up' \in Seq(Messages)
    BY <1>20, ReceivedType DEF HandlePodTerminated
  <2>2. status' \in [Pods -> Statuses]
    BY <1>20, <2>1, UpdateType DEF HandlePodTerminated, TypeOK
  <2>3. misses' \in [Pods -> 0..(OrphanMissThreshold - 1)]
    BY <1>20, <2>1, ZeroIsBelow DEF HandlePodTerminated, TypeOK
  <2>4. currentPods' \in Nat
    BY <1>20, DecrementType DEF HandlePodTerminated, TypeOK
  <2> QED  BY <1>20, <2>1, <2>2, <2>3, <2>4 DEF HandlePodTerminated, TypeOK
<1>21. CASE HandlePodError
  <2>1. Head(up).pod \in Pods /\ up' \in Seq(Messages)
    BY <1>21, ReceivedType DEF HandlePodError
  <2>2. status' \in [Pods -> Statuses]
    <3>1. CASE status[Head(up).pod] = "initializing"
      BY <1>21, <2>1, <3>1, UpdateType DEF HandlePodError, TypeOK
    <3>2. CASE status[Head(up).pod] # "initializing"
      BY <1>21, <3>2 DEF HandlePodError, TypeOK
    <3> QED  BY <3>1, <3>2
  <2>3. currentPods' \in Nat
    <3>1. Decrement(currentPods, 1) \in Nat
      BY DecrementType DEF TypeOK
    <3> QED  BY <1>21, <3>1 DEF HandlePodError, TypeOK
  <2> QED  BY <1>21, <2>1, <2>2, <2>3 DEF HandlePodError, TypeOK
<1>22. CASE HandleHeartbeat
  <2> DEFINE reported == Head(up).pods
  <2>1. reported \in SUBSET Pods /\ up' \in Seq(Messages)
    BY <1>22, ReceivedType DEF HandleHeartbeat
  <2>2. ToTerminate(reported) \in SUBSET Pods
    BY <2>1 DEF ToTerminate, Finished, Unknown
  <2>3. down' \in SUBSET [kind : {"create", "terminate"}, pod : Pods]
    BY <1>22, <2>2 DEF HandleHeartbeat, Commands, Event, TypeOK
  <2>4. status' \in [Pods -> Statuses]
    BY <1>22 DEF HandleHeartbeat, TypeOK
  <2>5. initReports' \in [Pods -> 0..(InitRecoverThreshold - 1)]
    BY <1>22, <2>1 DEF HandleHeartbeat, TypeOK, ToRecover, Initializing
  <2>6. misses' \in [Pods -> 0..(OrphanMissThreshold - 1)]
    BY <1>22, <2>1 DEF HandleHeartbeat, TypeOK, Missed
  <2>7. buffered' \in SUBSET Nat /\ cooldown' \in SUBSET Pods
    BY <1>22, <2>1, <2>2, CardinalityType DEF HandleHeartbeat, TypeOK
  <2>8. work' \in [phase : {"idle", "missing", "count"}, reported : SUBSET Pods,
                   active : SUBSET Pods, count : Nat]
    BY <1>22, <2>1 DEF HandleHeartbeat
  <2> QED
    BY <1>22, <2>1, <2>3, <2>4, <2>5, <2>6, <2>7, <2>8 DEF HandleHeartbeat, TypeOK
<1>23. CASE ReconcileMissingPods
  <2>1. misses' \in [Pods -> 0..(OrphanMissThreshold - 1)]
    BY <1>23 DEF ReconcileMissingPods, TypeOK, Missed
  <2>2. status' \in [Pods -> Statuses]
    BY <1>23 DEF ReconcileMissingPods, TypeOK
  <2> DEFINE counted == {p \in work.reported : status'[p] \in {"running", "initializing"}}
  <2>3. Cardinality(counted) \in Nat
    BY CardinalityType DEF TypeOK
  <2>4. work' \in [phase : {"idle", "missing", "count"}, reported : SUBSET Pods,
                   active : SUBSET Pods, count : Nat]
    BY <1>23, <2>3 DEF ReconcileMissingPods, CountActiveByKeys, TypeOK
  <2> QED
    BY <1>23, <2>1, <2>2, <2>4 DEF ReconcileMissingPods, TypeOK
<1>24. CASE SetPodCount
  BY <1>24 DEF SetPodCount, Idle, TypeOK
<1>25. CASE Flush
  BY <1>25 DEF Flush, TypeOK
<1>26. CASE Break
  <2>1. up' \in Seq(Messages) /\ controlCh' \in Seq(Messages)
    <3>1. PICK n \in 0..Len(up), k \in 0..Len(up) :
            up' = SubSeq(up, 1, n) /\ controlCh' = SubSeq(up, k + 1, Len(up))
      <4>1. PICK n \in 0..Len(up) : \E k \in n..Len(up) :
              up' = SubSeq(up, 1, n) /\ controlCh' = SubSeq(up, k + 1, Len(up))
        BY <1>26 DEF Break
      <4>2. PICK k \in n..Len(up) :
              up' = SubSeq(up, 1, n) /\ controlCh' = SubSeq(up, k + 1, Len(up))
        BY <4>1
      <4>3. k \in 0..Len(up)
        BY LenProperties DEF TypeOK
      <4> QED  BY <4>2, <4>3
    <3>2. Len(up) \in 0..Len(up) /\ 0 \in 0..Len(up) /\ 0 + 1 = 1
      BY LenProperties DEF TypeOK
    <3>3. SubSeq(up, 0 + 1, n) \in Seq(Messages) /\ SubSeq(up, k + 1, Len(up)) \in Seq(Messages)
      BY <3>1, <3>2, PrefixType DEF TypeOK
    <3> QED  BY <3>1, <3>2, <3>3
  <2> QED  BY <1>26, <2>1 DEF Break, TypeOK
<1>27. CASE RemoveConnection
  BY <1>27 DEF RemoveConnection, TypeOK
<1>28. CASE Reconnect
  <2>1. up' \in Seq(Messages) /\ controlCh' \in Seq(Messages)
    BY <1>28, ConcatProperties DEF Reconnect, TypeOK
  <2> QED  BY <1>28, <2>1 DEF Reconnect, TypeOK
<1>29. CASE HandleRunnerDisconnect
  <2>1. Cardinality({p \in Pods : status[p] = "initializing"}) \in Nat
    BY CardinalityType
  <2>2. currentPods' \in Nat
    BY <1>29, <2>1, DecrementType DEF HandleRunnerDisconnect, TypeOK
  <2>3. misses' \in [Pods -> 0..(OrphanMissThreshold - 1)]
    BY <1>29, ZeroIsBelow DEF HandleRunnerDisconnect
  <2>4. status' \in [Pods -> Statuses]
    BY <1>29 DEF HandleRunnerDisconnect, TypeOK
  <2> QED
    BY <1>29, <2>2, <2>3, <2>4 DEF HandleRunnerDisconnect, TypeOK
<1>30. CASE RunnerRestart
  <2>1. up' \in Seq(Messages)
    <3>1. PICK n \in 0..Len(up) : up' = SubSeq(up, 1, n)
      BY <1>30 DEF RunnerRestart
    <3>2. 0 \in 0..Len(up) /\ 0 + 1 = 1
      BY LenProperties DEF TypeOK
    <3>3. SubSeq(up, 0 + 1, n) \in Seq(Messages)
      BY <3>2, PrefixType DEF TypeOK
    <3> QED  BY <3>1, <3>2, <3>3
  <2> QED  BY <1>30, <2>1 DEF RunnerRestart, TypeOK
<1>31. CASE BackendRestart
  <2>1. controlCh' \in Seq(Messages)
    <3>1. PICK k \in 0..Len(up) : controlCh' = SubSeq(up, k + 1, Len(up))
      BY <1>31 DEF BackendRestart
    <3>2. Len(up) \in 0..Len(up)
      BY LenProperties DEF TypeOK
    <3> QED  BY <3>1, <3>2, PrefixType DEF TypeOK
  <2>2. misses' \in [Pods -> 0..(OrphanMissThreshold - 1)]
          /\ initReports' \in [Pods -> 0..(InitRecoverThreshold - 1)]
    BY <1>31, ZeroIsBelow DEF BackendRestart
  <2>3. /\ orchestrator' \in [Pods -> {"idle", "inserted", "failed", "sent"}]
        /\ coordinator' \in [Pods -> {"idle", "sent", "done"}]
    BY <1>31 DEF BackendRestart, TypeOK
  <2>4. work' \in [phase : {"idle", "missing", "count"}, reported : SUBSET Pods,
                   active : SUBSET Pods, count : Nat]
    BY <1>31 DEF BackendRestart, Idle
  <2>5. up' \in Seq(Messages) /\ down' \in SUBSET [kind : {"create", "terminate"}, pod : Pods]
    BY <1>31, EmptySeq DEF BackendRestart, TypeOK
  <2> QED  BY <1>31, <2>1, <2>2, <2>3, <2>4, <2>5 DEF BackendRestart, TypeOK
<1>32. CASE UNCHANGED vars
  BY <1>32 DEF vars, TypeOK
<1> QED
  BY <1>1, <1>1b, <1>2, <1>3, <1>4, <1>5, <1>6, <1>7, <1>8, <1>9, <1>10, <1>11, <1>12, <1>13,
     <1>14, <1>15, <1>16, <1>17, <1>18, <1>19, <1>20, <1>21, <1>22, <1>23, <1>24, <1>25,
     <1>26, <1>27, <1>28, <1>29, <1>30, <1>31, <1>32, <1>33
     DEF Next, Create, Receive, BuildFails, StartFails

(* The initial state has the types.                                         *)
LEMMA InitType == ASSUME Init PROVE TypeOK
<1>1. /\ misses \in [Pods -> 0..(OrphanMissThreshold - 1)]
      /\ initReports \in [Pods -> 0..(InitRecoverThreshold - 1)]
  BY ZeroIsBelow DEF Init
<1>2. work \in [phase : {"idle", "missing", "count"}, reported : SUBSET Pods,
                active : SUBSET Pods, count : Nat]
  BY DEF Init, Idle
<1>3. up \in Seq(Messages) /\ controlCh \in Seq(Messages)
  BY EmptySeq DEF Init
<1>4. creator \in [Pods -> {"none", "building", "built", "stored", "started", "ended"}]
  BY DEF Init
<1> QED
  BY <1>1, <1>2, <1>3, <1>4, PodsAssumption DEF Init, TypeOK, Statuses

(* The type invariant, with the counters of reconcilePods below their       *)
(* thresholds.                                                              *)
THEOREM TypeCorrect == Spec => []TypeOK
<1>1. Init => TypeOK
  BY InitType
<1> QED
  BY <1>1, TypeStep, PTL DEF Spec

-----------------------------------------------------------------------------
(* Every step keeps the inductive invariant.                                *)
LEMMA InvStep == IInv /\ [Next]_vars => IInv'
<1> SUFFICES ASSUME IInv, [Next]_vars PROVE IInv'
  OBVIOUS
<1>0. TypeOK /\ TypeOK'
  BY TypeStep DEF IInv
<1>t. /\ status \in [Pods -> Statuses]
      /\ orchestrator \in [Pods -> {"idle", "inserted", "failed", "sent"}]
      /\ creator \in [Pods -> {"none", "building", "built", "stored", "started", "ended"}]
  BY <1>0 DEF TypeOK
<1>a. \A p, q \in Pods : \A j, k \in {"create", "terminate"} :
        Event(j, p) = Event(k, q) <=> j = k /\ p = q
  BY DEF Event
<1> USE <1>0, <1>t, <1>a DEF rowVars, memoryVars, callerVars, streamVars, runnerVars,
        IInv, CreateSentOnce, StartedByCreator, NotStarted, ProcessIsTracked, Stopping
(* Actions that leave the runner, the commands and the callers alone.       *)
<1>b. ASSUME UNCHANGED <<orchestrator, down, store, alive, creator, teardown>>,
             \A p \in Pods : status'[p] = "none" => status[p] = "none"
      PROVE  IInv'
  BY <1>b
<1>c. ASSUME NEW p \in Pods, NEW s \in Statuses \ {"none"}, UpdateByKey(p, s)
      PROVE  \A q \in Pods : status'[q] = "none" => status[q] = "none"
  BY <1>c DEF UpdateByKey
<1>1. ASSUME NEW p \in Pods, InsertPod(p) PROVE IInv'
  BY <1>1 DEF InsertPod
<1>1b. ASSUME NEW p \in Pods, BuildCommandFails(p) PROVE IInv'
  BY <1>1b DEF BuildCommandFails
<1>2. ASSUME NEW p \in Pods, CreatePod(p) PROVE IInv'
  <2>1. orchestrator[p] = "inserted" /\ down' \subseteq down \cup {Event("create", p)}
    BY <1>2 DEF CreatePod, Commands
  <2>2. orchestrator'[p] \in {"sent", "failed"}
          /\ \A q \in Pods \ {p} : orchestrator'[q] = orchestrator[q]
    BY <1>2 DEF CreatePod
  <2>3. UNCHANGED <<status, creator, store, alive, teardown>>
    BY <1>2 DEF CreatePod
  <2> QED  BY <2>1, <2>2, <2>3
<1>3. ASSUME NEW p \in Pods, MarkInitFailed(p) PROVE IInv'
  BY <1>3 DEF MarkInitFailed
<1>4. ASSUME NEW p \in Pods, RestCheck(p) PROVE IInv'
  BY <1>4, <1>b DEF RestCheck
<1>5. ASSUME NEW p \in Pods, RestTerminate(p) PROVE IInv'
  BY <1>5, <1>b, <1>c DEF RestTerminate, Statuses
<1>6. ASSUME NEW p \in Pods, SendTerminate(p) PROVE IInv'
  BY <1>6 DEF SendTerminate, Commands
<1>7. ASSUME NEW p \in Pods, MarkCompleted(p) PROVE IInv'
  BY <1>7, <1>b, <1>c DEF MarkCompleted, Statuses
<1>8. ASSUME NEW p \in Pods, MarkStale(p) PROVE IInv'
  BY <1>8, <1>b DEF MarkStale
<1>9. ASSUME NEW p \in Pods, OnCreatePod(p) PROVE IInv'
  BY <1>9 DEF OnCreatePod
<1>10. ASSUME NEW p \in Pods, FailCreation(p), creator[p] \in {"building", "stored"}
       PROVE  IInv'
  BY <1>10 DEF FailCreation
<1>11. ASSUME NEW p \in Pods, BuildDone(p) PROVE IInv'
  BY <1>11 DEF BuildDone
<1>12. ASSUME NEW p \in Pods, StorePod(p) PROVE IInv'
  BY <1>12 DEF StorePod
<1>13. ASSUME NEW p \in Pods, StartTerminal(p) PROVE IInv'
  BY <1>13 DEF StartTerminal
<1>14. ASSUME NEW p \in Pods, SendPodCreated(p) PROVE IInv'
  BY <1>14 DEF SendPodCreated
<1>15. ASSUME NEW p \in Pods, OnTerminatePod(p) PROVE IInv'
  <2>1. CASE p \in store /\ creator[p] \in {"building", "built"}
    <3>1. p \notin alive
      BY <2>1
    <3> QED  BY <1>15, <3>1 DEF OnTerminatePod
  <2>2. CASE p \in store /\ creator[p] \notin {"building", "built"}
    BY <1>15, <2>2 DEF OnTerminatePod
  <2>3. CASE p \notin store
    BY <1>15, <2>3 DEF OnTerminatePod
  <2> QED  BY <2>1, <2>2, <2>3
<1>16. ASSUME NEW p \in Pods, PodExits(p) PROVE IInv'
  BY <1>16 DEF PodExits
<1>33. ASSUME NEW p \in Pods, NEW kind \in TeardownKinds, SendPodTerminated(p, kind)
       PROVE  IInv'
  <2>1. \A q \in Pods : Event("terminal", q) = Event(kind, p) <=> kind = "terminal" /\ q = p
    BY DEF Event
  <2>2. \A q \in Stopping : q \in Stopping' \/ (kind = "terminal" /\ q = p)
    BY <1>33, <2>1 DEF SendPodTerminated
  <2>3. alive' \subseteq store' \cup Stopping'
    BY <1>33, <2>2 DEF SendPodTerminated
  <2> QED  BY <1>33, <2>3 DEF SendPodTerminated
<1>17. ASSUME NEW p \in Pods, CooldownEnds(p) PROVE IInv'
  BY <1>17, <1>b DEF CooldownEnds
<1>18. CASE SendHeartbeat
  BY <1>18, <1>b DEF SendHeartbeat
<1>19. CASE HandlePodCreated
  BY <1>19, <1>b, <1>c, ReceivedType DEF HandlePodCreated, Statuses, ActiveStatuses
<1>20. CASE HandlePodTerminated
  BY <1>20, <1>b, <1>c, ReceivedType DEF HandlePodTerminated, Statuses
<1>21. CASE HandlePodError
  BY <1>21, <1>b, <1>c, ReceivedType DEF HandlePodError, Statuses
<1>22. CASE HandleHeartbeat
  <2> DEFINE sent == {Event("terminate", p) : p \in ToTerminate(Head(up).pods)}
  <2>1. ToTerminate(Head(up).pods) \subseteq Pods
    BY <1>22, ReceivedType DEF HandleHeartbeat, ToTerminate, Finished, Unknown
  <2>2. down' \subseteq down \cup sent
    BY <1>22 DEF HandleHeartbeat, Commands
  <2>3. \A p \in Pods : Event("create", p) \notin sent
    BY <2>1
  <2>4. \A p \in Pods : status'[p] = "none" => status[p] = "none"
    BY <1>22 DEF HandleHeartbeat
  <2>5. UNCHANGED <<orchestrator, creator, store, alive, teardown>>
    BY <1>22 DEF HandleHeartbeat
  <2> QED  BY <2>2, <2>3, <2>4, <2>5
<1>23. CASE ReconcileMissingPods
  BY <1>23, <1>b DEF ReconcileMissingPods
<1>24. CASE SetPodCount
  BY <1>24, <1>b DEF SetPodCount
<1>25. CASE Flush
  BY <1>25, <1>b DEF Flush
<1>26. CASE Break
  BY <1>26 DEF Break
<1>27. CASE RemoveConnection
  BY <1>27, <1>b DEF RemoveConnection
<1>28. CASE Reconnect
  BY <1>28, <1>b DEF Reconnect
<1>29. CASE HandleRunnerDisconnect
  BY <1>29, <1>b DEF HandleRunnerDisconnect
<1>30. CASE RunnerRestart
  BY <1>30 DEF RunnerRestart
<1>31. CASE BackendRestart
  BY <1>31 DEF BackendRestart
<1>32. CASE UNCHANGED vars
  BY <1>32, <1>b DEF vars
<1> QED
  BY <1>1, <1>1b, <1>2, <1>3, <1>4, <1>5, <1>6, <1>7, <1>8, <1>9, <1>10, <1>11, <1>12, <1>13,
     <1>14, <1>15, <1>16, <1>17, <1>18, <1>19, <1>20, <1>21, <1>22, <1>23, <1>24, <1>25,
     <1>26, <1>27, <1>28, <1>29, <1>30, <1>31, <1>32, <1>33
     DEF Next, Create, Receive, BuildFails, StartFails

(* The inductive invariant holds in every behaviour.                        *)
THEOREM Invariance == Spec => []IInv
<1>1. ASSUME Init PROVE TypeOK
  BY <1>1, InitType
<1>2. Init => CreateSentOnce /\ StartedByCreator /\ ProcessIsTracked
  BY PodsAssumption DEF Init, CreateSentOnce, StartedByCreator, NotStarted,
     ProcessIsTracked
<1> QED
  BY <1>1, <1>2, InvStep, PTL DEF Spec, IInv

(* Every live agent process is in the pod store, where heartbeats report it *)
(* and OnTerminatePod finds it, or is being stopped by OnTerminatePod.      *)
THEOREM ProcessesAreTracked == Spec => []ProcessIsTracked
BY Invariance, PTL DEF IInv
=============================================================================
