--------------------------- MODULE SessionsProofs ----------------------------
(***************************************************************************)
(* Proofs about what goes on around a pod that runs.  The autopilot that   *)
(* drives it, for any number of triggers and any limits: Stop waits for    *)
(* every decision, and the iteration limit holds.  Its relay               *)
(* subscriptions, for any number of subscriptions and disconnections: no   *)
(* relay client is left behind.  The upgrade of its runner, for any number *)
(* of commands and pods: one upgrade at a time.  And the four modules      *)
(* together, the browsers included: each behaves as its specification.     *)
(***************************************************************************)
EXTENDS MCSessions, RelaySubscribersProofs, FiniteSetTheorems, TLAPS

-----------------------------------------------------------------------------
(****************************** The autopilot ******************************)

(* From StopMarks on the flag under wgMu is set.                            *)
StopIsMarked == stop \in {"marked", "waiting", "done", "timeout"} => stopped

(* Iterations that were counted and whose decision has yet to start.        *)
OwedDecisions == {t \in Triggers : trigger[t] = "counted"}
InitialOwed == IF start = "prompting" THEN 1 ELSE 0

(* Each decision was paid for by an iteration; the initial prompt sets the  *)
(* counter to 1 and forgets what triggers had counted until then.           *)
Paid ==
    /\ decisions + Cardinality(OwedDecisions) + InitialOwed <= iter + early
    /\ iter <= maxIter /\ 1 <= maxIter
    /\ start = "detecting" => early = 0

StopInv == TypeOK /\ StopIsMarked /\ StopEndsDecisions
AutopilotInv == StopInv /\ Paid

-----------------------------------------------------------------------------
(* Every step keeps the types and what Stop relies on.                      *)
LEMMA StopInvStep ==
  ASSUME StopInv, [Next]_vars
  PROVE  StopInv'
<1> USE DEF StopInv, TypeOK, StopIsMarked, StopEndsDecisions, control, history,
            lifetime
<1>1. CASE UNCHANGED vars
  BY <1>1 DEF vars
<1>2. CASE SendInitialPrompt \/ PodIsExecuting \/ StartReturns
  <2>1. CASE SendInitialPrompt
    <3>1. gap' \in BOOLEAN
      BY <2>1 DEF SendInitialPrompt
    <3> QED  BY <2>1, <3>1 DEF SendInitialPrompt
  <2>2. CASE PodIsExecuting \/ StartReturns
    BY <2>2 DEF PodIsExecuting, StartReturns, Phases
  <2> QED  BY <1>2, <2>1, <2>2
<1>3. CASE InitialDecision
  BY <1>3 DEF InitialDecision, StartDecision
<1>4. CASE GapElapses
  <2>1. gap' \in BOOLEAN
    BY <1>4 DEF GapElapses
  <2> QED  BY <1>4, <2>1 DEF GapElapses
<1>5. ASSUME NEW t \in Triggers, CheckTriggerDedup(t) \/ CheckTakeover(t)
                                 \/ CheckPhase(t)
      PROVE  StopInv'
  <2>1. gap' \in BOOLEAN
    BY <1>5 DEF CheckTriggerDedup, CheckTakeover, CheckPhase
  <2> QED  BY <1>5, <2>1 DEF CheckTriggerDedup, CheckTakeover, CheckPhase
<1>6. ASSUME NEW t \in Triggers, ReachedMax(t) \/ NotReachedMax(t)
                                 \/ IncrementIteration(t)
      PROVE  StopInv'
  BY <1>6 DEF ReachedMax, NotReachedMax, IncrementIteration, Phases, Terminal
<1>7. ASSUME NEW t \in Triggers, TriggerDecides(t)
      PROVE  StopInv'
  BY <1>7 DEF TriggerDecides, StartDecision
<1>8. CASE DecisionSucceeds
  BY <1>8 DEF DecisionSucceeds, Phases, Terminal
<1>9. CASE DecisionFails
  BY <1>9 DEF DecisionFails, Phases, Terminal
<1>10. CASE DecisionCancelled
  BY <1>10 DEF DecisionCancelled
<1>11. CASE Pause \/ Resume \/ Takeover \/ Handback
  <2>1. takeover' \in BOOLEAN
    BY <1>11 DEF Pause, Resume, Takeover, Handback
  <2> QED
    BY <1>11, <2>1 DEF Pause, Resume, Takeover, Handback, Command, Phases
<1>12. CASE Approve
  BY <1>12, LimitsAssumption DEF Approve, Command, Phases, Terminal
<1>13. CASE StopPhase \/ StopMarks \/ StopCancels
  <2>1. stopped' \in BOOLEAN /\ cancelled' \in BOOLEAN
    BY <1>13 DEF StopPhase, StopMarks, StopCancels
  <2> QED
    BY <1>13, <2>1 DEF StopPhase, StopMarks, StopCancels, Phases, Terminal
<1>14. CASE StopWaits \/ StopTimesOut
  BY <1>14 DEF StopWaits, StopTimesOut
<1> QED
  BY <1>1, <1>2, <1>3, <1>4, <1>5, <1>6, <1>7, <1>8, <1>9, <1>10, <1>11, <1>12,
     <1>13, <1>14
  DEF Next, StartStep, TriggerStep, UserStep, DecisionStep, StopStep

-----------------------------------------------------------------------------
(* OwedDecisions is finite, so its cardinality is a number.                          *)
LEMMA OwedType == IsFiniteSet(OwedDecisions) /\ Cardinality(OwedDecisions) \in Nat
<1>1. OwedDecisions \in SUBSET Triggers
  BY DEF OwedDecisions
<1>2. IsFiniteSet(OwedDecisions)
  BY <1>1, FS_Subset, LimitsAssumption
<1> QED  BY <1>2, FS_CardinalityType

(* A step of one trigger that leaves "counted" out at both ends.            *)
LEMMA OwedUnchanged ==
  ASSUME TypeOK, NEW t \in Triggers, NEW s, s # "counted", trigger[t] # "counted",
         trigger' = [trigger EXCEPT ![t] = s]
  PROVE  OwedDecisions' = OwedDecisions
  BY DEF OwedDecisions, TypeOK

(* Every step keeps the account.                                            *)
LEMMA PaidStep ==
  ASSUME TypeOK, TypeOK', Paid, [Next]_vars
  PROVE  Paid'
<1> USE DEF control, history, lifetime
<1>0. Cardinality(OwedDecisions) \in Nat /\ InitialOwed \in Nat
  BY OwedType DEF InitialOwed
<1>n. /\ iter \in Nat /\ maxIter \in Nat /\ decisions \in Nat /\ early \in Nat
      /\ iter' \in Nat /\ maxIter' \in Nat /\ decisions' \in Nat /\ early' \in Nat
  BY DEF TypeOK
<1>1. CASE UNCHANGED <<iter, maxIter, decisions, early, start, trigger>>
  <2>1. OwedDecisions' = OwedDecisions /\ InitialOwed' = InitialOwed
    BY <1>1 DEF OwedDecisions, InitialOwed
  <2> QED  BY <1>1, <2>1 DEF Paid
<1>2. CASE SendInitialPrompt
  <2>1. OwedDecisions' = OwedDecisions /\ InitialOwed = 0 /\ InitialOwed' = 1
    BY <1>2 DEF SendInitialPrompt, OwedDecisions, InitialOwed
  <2>2. iter' = 1 /\ early' = iter /\ decisions' = decisions /\ maxIter' = maxIter
    BY <1>2 DEF SendInitialPrompt
  <2>3. early = 0 /\ start' = "prompting" /\ 1 <= maxIter
    BY <1>2 DEF SendInitialPrompt, Paid
  <2> QED  BY <1>0, <1>n, <2>1, <2>2, <2>3 DEF Paid
<1>3. CASE InitialDecision
  <2>1. OwedDecisions' = OwedDecisions /\ InitialOwed = 1 /\ InitialOwed' = 0
    BY <1>3 DEF InitialDecision, OwedDecisions, InitialOwed
  <2>2. decisions' <= decisions + 1
    BY <1>3, <1>n DEF InitialDecision, StartDecision
  <2> QED  BY <1>0, <1>n, <1>3, <2>1, <2>2 DEF InitialDecision, StartDecision, Paid
<1>4. CASE PodIsExecuting \/ StartReturns
  <2>1. OwedDecisions' = OwedDecisions /\ InitialOwed' = 0 /\ InitialOwed = 0
    BY <1>4 DEF PodIsExecuting, StartReturns, OwedDecisions, InitialOwed
  <2> QED  BY <1>4, <1>n, <2>1 DEF PodIsExecuting, StartReturns, Paid
<1>5. ASSUME NEW t \in Triggers,
             \/ CheckTriggerDedup(t) \/ CheckTakeover(t) \/ CheckPhase(t)
             \/ ReachedMax(t) \/ NotReachedMax(t)
      PROVE  Paid'
  <2>1. /\ trigger[t] # "counted"
        /\ \E s : s # "counted" /\ trigger' = [trigger EXCEPT ![t] = s]
    BY <1>5 DEF CheckTriggerDedup, CheckTakeover, CheckPhase, ReachedMax,
                NotReachedMax
  <2>2. OwedDecisions' = OwedDecisions
    BY <2>1, OwedUnchanged
  <2>3. UNCHANGED <<iter, maxIter, decisions, early, start>>
    BY <1>5 DEF CheckTriggerDedup, CheckTakeover, CheckPhase, ReachedMax,
                NotReachedMax
  <2> QED  BY <2>2, <2>3 DEF Paid, InitialOwed
<1>6. ASSUME NEW t \in Triggers, IncrementIteration(t)
      PROVE  Paid'
  <2>1. OwedDecisions' = OwedDecisions \cup {t} /\ t \notin OwedDecisions
    BY <1>6 DEF IncrementIteration, OwedDecisions, TypeOK
  <2>2. Cardinality(OwedDecisions') = Cardinality(OwedDecisions) + 1
    BY <2>1, OwedType, FS_AddElement
  <2>3. /\ iter' = iter + 1 /\ iter < maxIter
        /\ UNCHANGED <<maxIter, decisions, early, start>>
    BY <1>6 DEF IncrementIteration
  <2>4. InitialOwed' = InitialOwed
    BY <2>3 DEF InitialOwed
  <2> QED  BY <1>0, <1>n, <2>2, <2>3, <2>4 DEF Paid
<1>7. ASSUME NEW t \in Triggers, TriggerDecides(t)
      PROVE  Paid'
  <2>1. OwedDecisions' = OwedDecisions \ {t} /\ t \in OwedDecisions
    BY <1>7 DEF TriggerDecides, OwedDecisions, TypeOK
  <2>2. Cardinality(OwedDecisions') = Cardinality(OwedDecisions) - 1
    BY <2>1, OwedType, FS_RemoveElement
  <2>3. decisions' <= decisions + 1 /\ UNCHANGED <<iter, maxIter, early, start>>
    BY <1>7, <1>n DEF TriggerDecides, StartDecision
  <2>4. InitialOwed' = InitialOwed
    BY <2>3 DEF InitialOwed
  <2> QED  BY <1>0, <1>n, <2>2, <2>3, <2>4 DEF Paid
<1>8. CASE Approve
  <2>1. maxIter' >= maxIter
    BY <1>8, <1>n, LimitsAssumption DEF Approve
  <2>2. UNCHANGED <<iter, decisions, early, start, trigger>>
    BY <1>8 DEF Approve, Command
  <2>3. OwedDecisions' = OwedDecisions /\ InitialOwed' = InitialOwed
    BY <2>2 DEF OwedDecisions, InitialOwed
  <2> QED  BY <1>0, <1>n, <2>1, <2>2, <2>3 DEF Paid
<1>9. CASE GapElapses \/ DecisionStep \/ StopStep
  BY <1>1, <1>9 DEF GapElapses, DecisionStep, DecisionSucceeds, DecisionFails,
     DecisionCancelled, StopStep, StopPhase, StopMarks, StopCancels, StopWaits,
     StopTimesOut
<1>10. CASE Pause \/ Resume \/ Takeover \/ Handback
  BY <1>1, <1>10 DEF Pause, Resume, Takeover, Handback, Command
<1>11. CASE UNCHANGED vars
  BY <1>1, <1>11 DEF vars
<1> QED
  BY <1>2, <1>3, <1>4, <1>5, <1>6, <1>7, <1>8, <1>9, <1>10, <1>11
  DEF Next, StartStep, TriggerStep, UserStep

-----------------------------------------------------------------------------
(* The first state.                                                         *)
LEMMA AutopilotInitInv == Init => AutopilotInv
<1> SUFFICES ASSUME Init PROVE AutopilotInv
  OBVIOUS
<1>1. TypeOK
  BY LimitsAssumption DEF Init, TypeOK, Phases
<1>2. StopIsMarked /\ StopEndsDecisions
  BY DEF Init, StopIsMarked, StopEndsDecisions
<1>3. OwedDecisions = {} /\ InitialOwed = 0
  BY DEF Init, OwedDecisions, InitialOwed
<1>4. Paid
  BY <1>3, FS_EmptySet, LimitsAssumption DEF Init, Paid
<1> QED  BY <1>1, <1>2, <1>4 DEF AutopilotInv, StopInv

(* The invariant is inductive.                                              *)
LEMMA AutopilotStepInv == AutopilotInv /\ [Next]_vars => AutopilotInv'
<1> SUFFICES ASSUME AutopilotInv, [Next]_vars PROVE AutopilotInv'
  OBVIOUS
<1>1. StopInv'
  BY StopInvStep DEF AutopilotInv
<1>2. Paid'
  BY <1>1, PaidStep DEF AutopilotInv, StopInv
<1> QED  BY <1>1, <1>2 DEF AutopilotInv

(* So it holds throughout.                                                  *)
LEMMA AutopilotInvariance == Spec => []AutopilotInv
  BY AutopilotStepInv, AutopilotInitInv, PTL DEF Spec

(* Type correctness.                                                        *)
THEOREM AutopilotTypeCorrect == Spec => []TypeOK
<1>1. AutopilotInv => TypeOK
  BY DEF AutopilotInv, StopInv
<1> QED  BY <1>1, AutopilotInvariance, PTL

(* Once Stop has waited no decision runs: a callback that was past every    *)
(* check meets stopped under wgMu (autopilot_lifecycle.go:51-70).           *)
THEOREM StopIsComplete == Spec => []StopEndsDecisions
<1>1. AutopilotInv => StopEndsDecisions
  BY DEF AutopilotInv, StopInv
<1> QED  BY <1>1, AutopilotInvariance, PTL

(* The iteration limit holds for any number of concurrent triggers          *)
(* (iteration_controller.go:141-161).                                       *)
THEOREM BudgetIsKept == Spec => []BudgetHolds
<1>1. ASSUME AutopilotInv PROVE BudgetHolds
  <2>1. Cardinality(OwedDecisions) \in Nat /\ InitialOwed \in Nat
    BY OwedType DEF InitialOwed
  <2> QED  BY <1>1, <2>1 DEF AutopilotInv, StopInv, TypeOK, Paid, BudgetHolds
<1> QED  BY <1>1, AutopilotInvariance, PTL

-----------------------------------------------------------------------------
(************************* The relay subscriptions *************************)

(* A goroutine that is about to take the pod's client holds none.           *)
HandsAreFree ==
    /\ \A s \in Subs : sub[s] # "stopOld" => held[s] = NoClient
    /\ \A d \in Closers : closer[d] # "stop" => held[d] = NoClient

PodInv == PodTypeOK /\ HandsAreFree /\ NoStrayClient

-----------------------------------------------------------------------------
(* The client is accounted for: the body of NoStrayClient.                  *)
Kept(c) ==
    \/ relayClient = c
    \/ sub[c] \in {"connected", "discard"}
    \/ \E g \in Subs \cup Closers : held[g] = c

(* Every step keeps the types.                                              *)
LEMMA PodTypeStep ==
  ASSUME PodTypeOK, [PodNext]_podVars
  PROVE  PodTypeOK'
<1> USE DEF PodTypeOK, clientVars
<1>1. CASE UNCHANGED podVars
  BY <1>1 DEF podVars
<1>2. ASSUME NEW s \in Subs, Lookup(s) \/ CheckExisting(s)
      PROVE  PodTypeOK'
  BY <1>2 DEF Lookup, CheckExisting
<1>3. ASSUME NEW s \in Subs, StopOld(s) \/ Connect(s) \/ DiscardOwn(s)
      PROVE  PodTypeOK'
  BY <1>3 DEF StopOld, Connect, DiscardOwn, StopClient
<1>4. ASSUME NEW s \in Subs, Install(s) \/ RouteOutput(s)
      PROVE  PodTypeOK'
  BY <1>4 DEF Install, RouteOutput
<1>5. ASSUME NEW s \in Subs, Drop(s) \/ Reconnect(s) \/ OnClose(s) \/ ClearRouted(s)
      PROVE  PodTypeOK'
  BY <1>5 DEF Drop, Reconnect, OnClose, ClearRouted
<1>6. ASSUME NEW s \in Subs, ClearPod(s)
      PROVE  PodTypeOK'
  <2>1. clobbered' \in BOOLEAN
    BY <1>6 DEF ClearPod
  <2> QED  BY <1>6, <2>1 DEF ClearPod
<1>7. ASSUME NEW d \in Closers, RemovePod(d) \/ Unsubscribe(d) \/ TakeClient(d)
                                \/ ClearRouter(d)
      PROVE  PodTypeOK'
  <2>1. CASE RemovePod(d)
    <3>1. inStore' \in BOOLEAN
      BY <2>1 DEF RemovePod
    <3> QED  BY <2>1, <3>1 DEF RemovePod
  <2>2. CASE Unsubscribe(d) \/ TakeClient(d) \/ ClearRouter(d)
    BY <2>2 DEF Unsubscribe, TakeClient, ClearRouter
  <2> QED  BY <1>7, <2>1, <2>2
<1>8. ASSUME NEW d \in Closers, StopTaken(d)
      PROVE  PodTypeOK'
  BY <1>8 DEF StopTaken, StopClient
<1> QED  BY <1>1, <1>2, <1>3, <1>4, <1>5, <1>6, <1>7, <1>8 DEF PodNext

(* Every step keeps HandsAreFree.                                           *)
LEMMA HandsStep ==
  ASSUME PodTypeOK, HandsAreFree, [PodNext]_podVars
  PROVE  HandsAreFree'
<1> USE ClientsAssumption DEF PodTypeOK, HandsAreFree, clientVars
<1>1. CASE UNCHANGED podVars
  BY <1>1 DEF podVars
<1>2. ASSUME NEW s \in Subs, Lookup(s) \/ CheckExisting(s) \/ StopOld(s)
                             \/ Connect(s)
      PROVE  HandsAreFree'
  BY <1>2 DEF Lookup, CheckExisting, StopOld, Connect
<1>3. ASSUME NEW s \in Subs, Install(s) \/ RouteOutput(s) \/ DiscardOwn(s)
      PROVE  HandsAreFree'
  BY <1>3 DEF Install, RouteOutput, DiscardOwn
<1>4. ASSUME NEW s \in Subs, Drop(s) \/ Reconnect(s) \/ OnClose(s) \/ ClearPod(s)
                             \/ ClearRouted(s)
      PROVE  HandsAreFree'
  BY <1>4 DEF Drop, Reconnect, OnClose, ClearPod, ClearRouted
<1>5. ASSUME NEW d \in Closers, RemovePod(d) \/ Unsubscribe(d) \/ TakeClient(d)
                                \/ ClearRouter(d) \/ StopTaken(d)
      PROVE  HandsAreFree'
  BY <1>5 DEF RemovePod, Unsubscribe, TakeClient, ClearRouter, StopTaken
<1> QED  BY <1>1, <1>2, <1>3, <1>4, <1>5 DEF PodNext

(* A subscription keeps every client that is alive accounted for.           *)
LEMMA SubscribeKeeps ==
  ASSUME PodTypeOK, HandsAreFree, NoStrayClient, NEW s \in Subs,
         \/ Lookup(s) \/ CheckExisting(s) \/ StopOld(s) \/ Connect(s)
         \/ Install(s) \/ DiscardOwn(s) \/ RouteOutput(s)
  PROVE  NoStrayClient'
<1> SUFFICES ASSUME NEW c \in Subs, Alive(c)', ~clobbered'
             PROVE  Kept(c)'
  BY DEF NoStrayClient, Kept
<1> USE DEF PodTypeOK, clientVars
<1>1. ~clobbered
  BY DEF Lookup, CheckExisting, StopOld, Connect, Install, DiscardOwn, RouteOutput
<1>2. Alive(c) => Kept(c)
  BY <1>1 DEF NoStrayClient, Kept
<1>3. CASE Lookup(s) \/ RouteOutput(s)
  BY <1>2, <1>3 DEF Lookup, RouteOutput, Alive, Kept
<1>4. CASE CheckExisting(s)
  <2>1. Kept(c) /\ held[s] = NoClient
    BY <1>2, <1>4 DEF CheckExisting, Alive, HandsAreFree
  <2>2. CASE Reusable(s)
    BY <1>4, <2>1, <2>2 DEF CheckExisting, Kept
  <2>3. CASE ~Reusable(s)
    <3>1. CASE relayClient = c
      <4>1. held'[s] = c
        BY <1>4, <2>3, <3>1 DEF CheckExisting
      <4> QED  BY <4>1 DEF Kept
    <3>2. CASE sub[c] \in {"connected", "discard"}
      BY <1>4, <3>2 DEF CheckExisting, Kept
    <3>3. ASSUME NEW g \in Subs \cup Closers, held[g] = c
          PROVE  Kept(c)'
      <4>1. held'[g] = c
        BY <1>4, <2>1, <3>3, ClientsAssumption DEF CheckExisting
      <4> QED  BY <4>1 DEF Kept
    <3> QED  BY <2>1, <3>1, <3>2, <3>3 DEF Kept
  <2> QED  BY <2>2, <2>3
<1>5. CASE StopOld(s)
  <2>1. c # held[s] /\ Alive(c)
    BY <1>5 DEF StopOld, StopClient, Alive
  <2>2. ASSUME NEW g \in Subs \cup Closers, held[g] = c
        PROVE  held'[g] = c
    BY <1>5, <2>1, <2>2 DEF StopOld
  <2> QED  BY <1>2, <1>5, <2>1, <2>2 DEF StopOld, Kept
<1>6. CASE Connect(s)
  BY <1>2, <1>6 DEF Connect, Alive, Kept
<1>7. CASE Install(s)
  BY <1>2, <1>7, ClientsAssumption DEF Install, Alive, Kept
<1>8. CASE DiscardOwn(s)
  <2>1. c # s /\ Alive(c)
    BY <1>8 DEF DiscardOwn, StopClient, Alive
  <2> QED  BY <1>2, <1>8, <2>1 DEF DiscardOwn, Kept
<1> QED  BY <1>3, <1>4, <1>5, <1>6, <1>7, <1>8

(* So does a disconnection.                                                 *)
LEMMA DisconnectKeeps ==
  ASSUME PodTypeOK, HandsAreFree, NoStrayClient, NEW d \in Closers,
         \/ RemovePod(d) \/ Unsubscribe(d) \/ TakeClient(d) \/ StopTaken(d)
         \/ ClearRouter(d)
  PROVE  NoStrayClient'
<1> SUFFICES ASSUME NEW c \in Subs, Alive(c)', ~clobbered'
             PROVE  Kept(c)'
  BY DEF NoStrayClient, Kept
<1> USE DEF PodTypeOK, clientVars
<1>1. ~clobbered
  BY DEF RemovePod, Unsubscribe, TakeClient, StopTaken, ClearRouter
<1>2. Alive(c) => Kept(c)
  BY <1>1 DEF NoStrayClient, Kept
<1>3. CASE RemovePod(d) \/ Unsubscribe(d) \/ ClearRouter(d)
  BY <1>2, <1>3 DEF RemovePod, Unsubscribe, ClearRouter, Alive, Kept
<1>4. CASE TakeClient(d)
  <2>1. Kept(c) /\ held[d] = NoClient
    BY <1>2, <1>4 DEF TakeClient, Alive, HandsAreFree
  <2>2. CASE relayClient = c
    <3>1. held'[d] = c
      BY <1>4, <2>2 DEF TakeClient
    <3> QED  BY <3>1 DEF Kept
  <2>3. CASE sub[c] \in {"connected", "discard"}
    BY <1>4, <2>3 DEF TakeClient, Kept
  <2>4. ASSUME NEW g \in Subs \cup Closers, held[g] = c
        PROVE  Kept(c)'
    <3>1. held'[g] = c
      BY <1>4, <2>1, <2>4, ClientsAssumption DEF TakeClient
    <3> QED  BY <3>1 DEF Kept
  <2> QED  BY <2>1, <2>2, <2>3, <2>4 DEF Kept
<1>5. CASE StopTaken(d)
  <2>1. c # held[d] /\ Alive(c)
    BY <1>5 DEF StopTaken, StopClient, Alive
  <2>2. ASSUME NEW g \in Subs \cup Closers, held[g] = c
        PROVE  held'[g] = c
    BY <1>5, <2>1, <2>2 DEF StopTaken
  <2> QED  BY <1>2, <1>5, <2>1, <2>2 DEF StopTaken, Kept
<1> QED  BY <1>3, <1>4, <1>5

(* So does a client, unless its close handler clears another one's          *)
(* reference.                                                               *)
LEMMA ClientKeeps ==
  ASSUME PodTypeOK, HandsAreFree, NoStrayClient, NEW s \in Subs,
         Drop(s) \/ Reconnect(s) \/ OnClose(s) \/ ClearPod(s) \/ ClearRouted(s)
  PROVE  NoStrayClient'
<1> SUFFICES ASSUME NEW c \in Subs, Alive(c)', ~clobbered'
             PROVE  Kept(c)'
  BY DEF NoStrayClient, Kept
<1> USE DEF PodTypeOK, clientVars
<1>1. ~clobbered
  BY DEF Drop, Reconnect, OnClose, ClearPod, ClearRouted
<1>2. Alive(c) => Kept(c)
  BY <1>1 DEF NoStrayClient, Kept
<1>3. CASE Drop(s) \/ Reconnect(s) \/ OnClose(s) \/ ClearRouted(s)
  BY <1>2, <1>3 DEF Drop, Reconnect, OnClose, ClearRouted, Alive, Kept
<1>4. CASE ClearPod(s)
  <2>1. Alive(c) /\ c # s
    BY <1>4 DEF ClearPod, Alive
  <2>2. relayClient # c
    BY <1>4, <2>1, ClientsAssumption DEF ClearPod
  <2> QED  BY <1>2, <1>4, <2>1, <2>2 DEF ClearPod, Kept
<1> QED  BY <1>3, <1>4

(* The invariant is inductive.                                              *)
LEMMA PodStepInv == PodInv /\ [PodNext]_podVars => PodInv'
<1> SUFFICES ASSUME PodInv, [PodNext]_podVars PROVE PodInv'
  OBVIOUS
<1>1. PodTypeOK' /\ HandsAreFree'
  BY PodTypeStep, HandsStep DEF PodInv
<1>2. CASE UNCHANGED podVars
  BY <1>1, <1>2 DEF podVars, PodInv, NoStrayClient, Alive
<1>3. CASE PodNext
  BY <1>1, <1>3, SubscribeKeeps, DisconnectKeeps, ClientKeeps DEF PodNext, PodInv
<1> QED  BY <1>2, <1>3

(* The first state.                                                         *)
LEMMA PodInitInv == PodInit => PodInv
<1> SUFFICES ASSUME PodInit PROVE PodInv
  OBVIOUS
<1>1. PodTypeOK
  BY DEF PodInit, PodTypeOK
<1>2. HandsAreFree
  BY DEF PodInit, HandsAreFree
<1>3. NoStrayClient
  BY DEF PodInit, NoStrayClient, Alive
<1> QED  BY <1>1, <1>2, <1>3 DEF PodInv

(* However subscriptions, terminations, reconnections and close handlers of *)
(* one pod overlap, a relay client that is alive is the pod's or about to   *)
(* be stopped (OnSubscribeTerminal, DisconnectRelay).                       *)
THEOREM ClientsAreKept == PodSpec => []NoStrayClient
<1>1. PodInv => NoStrayClient
  BY DEF PodInv
<1> QED  BY <1>1, PodInitInv, PodStepInv, PTL DEF PodSpec

(* Type correctness.                                                        *)
THEOREM PodTypeCorrect == PodSpec => []PodTypeOK
<1>1. ASSUME PodInit PROVE PodTypeOK
  BY <1>1 DEF PodInit, PodTypeOK
<1>2. PodTypeOK /\ [PodNext]_podVars => PodTypeOK'
  BY PodTypeStep
<1> QED  BY <1>1, <1>2, PTL DEF PodSpec

-----------------------------------------------------------------------------
(******************************* The upgrade *******************************)

(* A command whose turn it is decides alone: while c is active no other     *)
(* command is, so after its step the flags depend on c alone, and on those  *)
(* that handed the restart over.                                            *)
LEMMA OthersRest ==
  ASSUME UpgradeTypeOK, OneUpgrade, NEW c \in Cmds, cmd[c] \in Active
  PROVE  upgrading /\ \A d \in Cmds \ {c} : cmd[d] \notin Active
  BY DEF OneUpgrade

HandedBut(c) == \E d \in Cmds \ {c} : cmd[d] = "handed"

(* A step of the one active command that gives it another state and leaves  *)
(* the flags as that state demands keeps OneUpgrade.                        *)
LEMMA ActiveStep ==
  ASSUME UpgradeTypeOK, OneUpgrade, NEW c \in Cmds, cmd[c] \in Active,
         NEW s, cmd' = [cmd EXCEPT ![c] = s],
         (upgrading' <=> s \in Active), (s \in Working => draining'),
         (draining' => s \in Working \cup {"handed"} \/ HandedBut(c))
  PROVE  OneUpgrade'
<1>1. \A d \in Cmds : cmd'[d] = IF d = c THEN s ELSE cmd[d]
  BY DEF UpgradeTypeOK
<1>2. \A d \in Cmds : cmd'[d] \in Active => d = c /\ s \in Active
  BY <1>1, OthersRest
<1>3. \A d \in Cmds : cmd'[d] \in Working => d = c /\ s \in Working
  BY <1>1, <1>2 DEF Active, Working
<1>4. cmd'[c] = s
  BY <1>1
<1>5. upgrading' <=> \E d \in Cmds : cmd'[d] \in Active
  BY <1>2, <1>4
<1>6. (\E d \in Cmds : cmd'[d] \in Working) => draining'
  BY <1>3
<1>7. draining' => \E d \in Cmds : cmd'[d] \in Working \cup {"handed"}
  BY <1>1, <1>4 DEF HandedBut
<1> QED  BY <1>2, <1>5, <1>6, <1>7 DEF OneUpgrade

(* While a command is active the flags are what its state says, but for     *)
(* draining mode that an earlier one has left on.                           *)
LEMMA UpgradeFlags ==
  ASSUME UpgradeTypeOK, OneUpgrade, NEW c \in Cmds, cmd[c] \in Active
  PROVE  /\ upgrading /\ (cmd[c] \in Working => draining)
         /\ draining => cmd[c] \in Working \/ HandedBut(c)
<1>1. upgrading /\ (cmd[c] \in Working => draining)
  BY DEF OneUpgrade
<1>2. ASSUME draining PROVE cmd[c] \in Working \/ HandedBut(c)
  <2>1. PICK d \in Cmds : cmd[d] \in Working \cup {"handed"}
    BY <1>2 DEF OneUpgrade
  <2>2. CASE d = c
    BY <2>1, <2>2 DEF Active
  <2>3. CASE d # c
    BY <2>1, <2>3, OthersRest DEF Active, Working, HandedBut
  <2> QED  BY <2>2, <2>3
<1> QED  BY <1>1, <1>2

(* In the new process no command is under way and both flags are clear.     *)
LEMMA NewProcessStep ==
  ASSUME UpgradeTypeOK, NewProcess
  PROVE  OneUpgrade'
<1>1. \A d \in Cmds : cmd'[d] \notin Active
  BY DEF NewProcess, Active
<1>2. \A d \in Cmds : cmd'[d] \notin Working
  BY <1>1 DEF Active, Working
<1>3. upgrading' = FALSE /\ draining' = FALSE
  BY DEF NewProcess
<1> QED  BY <1>1, <1>2, <1>3 DEF OneUpgrade

(* Every step keeps the types.                                              *)
LEMMA UpgradeTypeStep == UpgradeTypeOK /\ [UpgradeNext]_upgradeVars => UpgradeTypeOK'
<1> SUFFICES ASSUME UpgradeTypeOK, [UpgradeNext]_upgradeVars PROVE UpgradeTypeOK'
  OBVIOUS
<1> USE DEF UpgradeTypeOK
<1>1. CASE UNCHANGED upgradeVars
  BY <1>1 DEF upgradeVars
<1>2. ASSUME NEW p \in Pods, CreatePod(p) \/ PodStarts(p) \/ PodGone(p)
      PROVE  UpgradeTypeOK'
  BY <1>2 DEF CreatePod, PodStarts, PodGone
<1>3. ASSUME NEW c \in Cmds, TryStartUpgrade(c) \/ CheckPodCount(c) \/ EnterDraining(c)
      PROVE  UpgradeTypeOK'
  BY <1>3 DEF TryStartUpgrade, CheckPodCount, EnterDraining, Active
<1>4. ASSUME NEW c \in Cmds, Update(c) \/ RestartFails(c) \/ RestartReturns(c)
                             \/ RestoreDraining(c) \/ FinishUpgrade(c)
      PROVE  UpgradeTypeOK'
  BY <1>4 DEF Update, RestartFails, RestartReturns, RestoreDraining, FinishUpgrade, Active
<1>5. ASSUME NEW c \in Cmds, Exec(c) \/ ServiceRestart(c)
      PROVE  UpgradeTypeOK'
  <2>1. NewProcess
    BY <1>5 DEF Exec, ServiceRestart
  <2> QED  BY <2>1 DEF NewProcess, Active
<1> QED  BY <1>1, <1>2, <1>3, <1>4, <1>5 DEF UpgradeNext

(* Every step keeps OneUpgrade.                                             *)
LEMMA UpgradeStep == UpgradeTypeOK /\ OneUpgrade /\ [UpgradeNext]_upgradeVars => OneUpgrade'
<1> SUFFICES ASSUME UpgradeTypeOK, OneUpgrade, [UpgradeNext]_upgradeVars PROVE OneUpgrade'
  OBVIOUS
<1>1. CASE UNCHANGED upgradeVars
  BY <1>1 DEF upgradeVars, OneUpgrade
<1>2. ASSUME NEW p \in Pods, CreatePod(p) \/ PodStarts(p) \/ PodGone(p)
      PROVE  OneUpgrade'
  BY <1>2 DEF CreatePod, PodStarts, PodGone, OneUpgrade
<1>3. ASSUME NEW c \in Cmds, TryStartUpgrade(c)
      PROVE  OneUpgrade'
  <2>1. \A d \in Cmds \ {c} : cmd'[d] = cmd[d]
    BY <1>3 DEF TryStartUpgrade, UpgradeTypeOK
  <2>2. cmd[c] = "none" /\ cmd'[c] \in {"discarded", "admitted"}
    BY <1>3 DEF TryStartUpgrade, UpgradeTypeOK
  <2>3. \A d \in Cmds : /\ cmd'[d] \in Working <=> cmd[d] \in Working
                        /\ cmd'[d] = "handed" <=> cmd[d] = "handed"
    BY <2>1, <2>2 DEF Working
  <2>4. draining' = draining /\ upgrading' = TRUE
    BY <1>3 DEF TryStartUpgrade
  <2>5. CASE upgrading
    <3>1. \A d \in Cmds : cmd'[d] \in Active <=> cmd[d] \in Active
      BY <1>3, <2>5 DEF TryStartUpgrade, UpgradeTypeOK, Active
    <3> QED  BY <2>3, <2>4, <2>5, <3>1 DEF OneUpgrade
  <2>6. CASE ~upgrading
    <3>1. \A d \in Cmds : cmd[d] \notin Active
      BY <2>6 DEF OneUpgrade
    <3>2. \A d \in Cmds : cmd'[d] \in Active <=> d = c
      BY <1>3, <2>6, <3>1 DEF TryStartUpgrade, UpgradeTypeOK, Active
    <3> QED  BY <2>3, <2>4, <3>2 DEF OneUpgrade
  <2> QED  BY <2>5, <2>6
<1>4. ASSUME NEW c \in Cmds, \/ CheckPodCount(c) \/ EnterDraining(c) \/ Update(c)
                             \/ RestartFails(c) \/ RestartReturns(c)
                             \/ RestoreDraining(c) \/ FinishUpgrade(c)
      PROVE  OneUpgrade'
  <2> DEFINE Step(s) ==
        /\ cmd' = [cmd EXCEPT ![c] = s]
        /\ (upgrading' <=> s \in Active) /\ (s \in Working => draining')
        /\ draining' => s \in Working \cup {"handed"} \/ HandedBut(c)
  <2>1. cmd[c] \in Active
    BY <1>4 DEF CheckPodCount, EnterDraining, Update, RestartFails, RestartReturns,
                RestoreDraining, FinishUpgrade, Active
  <2>2. /\ upgrading /\ (cmd[c] \in Working => draining)
        /\ draining => cmd[c] \in Working \/ HandedBut(c)
    BY <2>1, UpgradeFlags
  <2>3. CASE CheckPodCount(c)
    BY <2>1, <2>2, <2>3, ActiveStep DEF CheckPodCount, Active, Working
  <2>4. CASE EnterDraining(c)
    BY <2>1, <2>2, <2>4, ActiveStep DEF EnterDraining, Active, Working
  <2>5. CASE Update(c)
    BY <2>1, <2>2, <2>5, ActiveStep DEF Update, Active, Working
  <2>6. CASE RestartFails(c)
    BY <2>1, <2>2, <2>6, ActiveStep DEF RestartFails, Active, Working
  <2>7. CASE RestartReturns(c)
    BY <2>1, <2>2, <2>7, ActiveStep DEF RestartReturns, Active, Working
  <2>8. CASE RestoreDraining(c)
    <3>1. Step("leaving")
      BY <2>2, <2>8 DEF RestoreDraining, Active, Working
    <3> QED  BY <2>1, <3>1, ActiveStep
  <2>9. CASE FinishUpgrade(c)
    <3>1. CASE cmd[c] = "leaving"
      <4>1. Step("done")
        BY <2>2, <2>9, <3>1 DEF FinishUpgrade, Active, Working
      <4> QED  BY <2>1, <4>1, ActiveStep
    <3>2. CASE cmd[c] = "restarting"
      <4>1. Step("handed")
        BY <2>2, <2>9, <3>2 DEF FinishUpgrade, Active, Working
      <4> QED  BY <2>1, <4>1, ActiveStep
    <3> QED  BY <2>9, <3>1, <3>2 DEF FinishUpgrade
  <2> QED  BY <1>4, <2>3, <2>4, <2>5, <2>6, <2>7, <2>8, <2>9
<1>5. ASSUME NEW c \in Cmds, Exec(c) \/ ServiceRestart(c)
      PROVE  OneUpgrade'
  BY <1>5, NewProcessStep DEF Exec, ServiceRestart
<1> QED  BY <1>1, <1>2, <1>3, <1>4, <1>5 DEF UpgradeNext

(* Type correctness, for any sets of commands and pods.                     *)
THEOREM UpgradeTypeCorrect == UpgradeSpec => []UpgradeTypeOK
<1>1. UpgradeInit => UpgradeTypeOK
  BY DEF UpgradeInit, UpgradeTypeOK
<1> QED  BY <1>1, UpgradeTypeStep, PTL DEF UpgradeSpec

(* Two upgrades never overlap, the upgrading flag is set exactly while one  *)
(* is under way, draining mode is kept while a command works, and a command *)
(* that has ended leaves it on only if it handed the restart to the service *)
(* manager (TryStartUpgrade, FinishUpgrade, runUpgrade's deferred function). *)
THEOREM UpgradesExclude == UpgradeSpec => []OneUpgrade
<1>1. UpgradeInit => OneUpgrade
  BY DEF UpgradeInit, OneUpgrade, Active, Working
<1> QED  BY <1>1, UpgradeTypeCorrect, UpgradeStep, PTL DEF UpgradeSpec

-----------------------------------------------------------------------------
(****************************** All together *******************************)

(* The parts share no variable, so in a behaviour of all four each behaves  *)
(* as its own specification says.                                           *)
THEOREM PartsBehave == SessionsSpec => WatchSpec /\ PodSpec /\ Spec /\ UpgradeSpec
<1>1. SessionsInit => WatchInit /\ PodInit /\ Init /\ UpgradeInit
  BY DEF SessionsInit
<1>2. [SessionsNext]_<<part, sbVars, podVars, vars, upgradeVars>>
        => /\ [WatchNext]_sbVars /\ [PodNext]_podVars
           /\ [Next]_vars /\ [UpgradeNext]_upgradeVars
  BY DEF SessionsNext
<1> QED  BY <1>1, <1>2, PTL DEF SessionsSpec, WatchSpec, PodSpec, Spec, UpgradeSpec

(* So every variable of the four modules keeps its type.                    *)
THEOREM SessionsTypeCorrect == SessionsSpec => []SessionTypes
<1>1. WatchTypeOK /\ PodTypeOK /\ TypeOK /\ UpgradeTypeOK => SessionTypes
  BY DEF SessionTypes
<1> QED
  BY <1>1, PartsBehave, WatchTypeCorrect, PodTypeCorrect, AutopilotTypeCorrect,
     UpgradeTypeCorrect, PTL

(* And what is proved of each part holds of all four together: no gap for   *)
(* a browser, a keep-alive timer that is right, no stray relay client, no   *)
(* decision after Stop, the iteration limit and one upgrade at a time.      *)
THEOREM SessionsAreSafe ==
  SessionsSpec => [](/\ JoinLeavesNoGap /\ KeepAliveMatchesSubscribers
                     /\ NoStrayClient /\ StopEndsDecisions /\ BudgetHolds
                     /\ OneUpgrade)
  BY PartsBehave, JoiningLeavesNoGap, KeepAliveIsRight, ClientsAreKept,
     StopIsComplete, BudgetIsKept, UpgradesExclude, PTL
=============================================================================
