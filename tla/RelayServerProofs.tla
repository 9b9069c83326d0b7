-------------------------- MODULE RelayServerProofs --------------------------
(***************************************************************************)
(* Proofs about the relay server: its channels, for any number of          *)
(* publishers, subscribers and channels, and its registration.             *)
(***************************************************************************)
EXTENDS MCRelay, RelayClientProofs, FiniteSetTheorems

(* Who is where: a publisher has a channel once it is set on one, and       *)
(* forwards only when SetPublisher has returned; what the manager holds is  *)
(* still waiting.                                                           *)
PublishersArePlaced ==
    \A p \in Pubs :
        /\ pubPc[p] \in {"new", "pending"} => pubChan[p] = None
        /\ pubPc[p] \in {"set", "replace", "wait"} => pubChan[p] # None
        /\ fwd[p] # "none" => pubPc[p] = "done" /\ pubChan[p] # None
        /\ pubChan[p] # None => pubChan[p] \in created

WaitingIsPending ==
    /\ pendingPub # None => pubPc[pendingPub] = "pending"
    /\ pendingSub # None => subPc[pendingSub] = "pending"
    /\ \A s \in Subs : subPc[s] \in {"add", "member"} => subChan[s] # None
    /\ \A c \in Chans : \A s \in members[c] : subPc[s] = "member" /\ subChan[s] = c

(* A channel that has not been made has no past.                            *)
UnmadeIsUntouched ==
    /\ channel # None => channel \in created
    /\ \A c \in Chans \ created : closing[c] = "no" /\ ~timer[c] /\ fired[c] = 0

(* publisherReplaceMu is held by who replaces the publisher or closes the   *)
(* channel, and nobody replaces the publisher of a closed channel.          *)
ReplaceMuIsHeld ==
    /\ \A p \in Pubs : pubPc[p] \in {"replace", "wait"} =>
        replaceMu[pubChan[p]] = p /\ closing[pubChan[p]] = "no"
    /\ \A c \in Chans : closing[c] \in {"publisher", "wait", "notify"} =>
        replaceMu[c] \in {"timer", "manager"}
    /\ \A c \in Chans : closed[c] <=> closing[c] # "no"

(* The body of OneForwarder.                                                *)
ForwardersAgree ==
    \A p, q \in Pubs :
        fwd[p] # "none" /\ fwd[q] # "none" /\ pubChan[p] = pubChan[q] => p = q

(* A connection that is set on a channel and open is the channel's          *)
(* publisher or about to be closed by the one that replaced it.             *)
OpenIsPublisher ==
    \A p \in Pubs : pubPc[p] \in {"replace", "wait", "done"} /\ pubChan[p] # None
                        /\ pubConn[p] = "open" =>
        \/ publisher[pubChan[p]] = p
        \/ \E q \in Pubs : pubPc[q] = "replace" /\ pubChan[q] = pubChan[p] /\ old[q] = p

(* What closeInternal has done so far.                                      *)
ClosingLetsGo ==
    \A c \in Chans :
        /\ closing[c] \in {"wait", "notify", "done"} => publisher[c] = None
        /\ closing[c] \in {"notify", "done"} =>
            /\ members[c] = {}
            /\ \A p \in Pubs : pubChan[p] = c => fwd[p] = "none"

(* A channel that waits for its publisher has none, and the timer closes    *)
(* only such a channel.                                                     *)
WaitingHasNone ==
    \A c \in Chans : disconnected[c] \/ replaceMu[c] = "timer" => publisher[c] = None

ChannelInv ==
    /\ ChannelTypeOK /\ PublishersArePlaced /\ WaitingIsPending
    /\ UnmadeIsUntouched /\ ReplaceMuIsHeld /\ ForwardersAgree
    /\ OpenIsPublisher /\ ClosingLetsGo /\ OpenIsRegistered /\ WaitingHasNone

-----------------------------------------------------------------------------
(* The channel of a publisher that has one, and a step on it.               *)
LEMMA PlacedOnChannel ==
  ASSUME ChannelTypeOK, PublishersArePlaced, NEW p \in Pubs,
         pubPc[p] \in {"set", "replace", "wait"} \/ fwd[p] # "none"
  PROVE  pubChan[p] \in Chans
  BY DEF ChannelTypeOK, PublishersArePlaced

(* The parts of the type invariant.                                         *)
ManagerTypes ==
    /\ channel \in Chans \cup {None}
    /\ pendingPub \in Pubs \cup {None} /\ pendingSub \in Subs \cup {None}
    /\ created \in SUBSET Chans /\ managerOpen \in BOOLEAN
StateTypes ==
    /\ closed \in [Chans -> BOOLEAN]
    /\ publisher \in [Chans -> Pubs \cup {None}]
    /\ epoch \in [Chans -> Nat]
    /\ disconnected \in [Chans -> BOOLEAN] /\ timer \in [Chans -> BOOLEAN]
    /\ fired \in [Chans -> Nat]
    /\ replaceMu \in [Chans -> Pubs \cup {None, "timer", "manager"}]
    /\ closing \in [Chans -> {"no", "publisher", "wait", "notify", "done"}]
PublisherTypes ==
    /\ pubPc \in [Pubs -> {"new", "pending", "set", "replace", "wait", "done"}]
    /\ pubChan \in [Pubs -> Chans \cup {None}]
    /\ pubConn \in [Pubs -> {"open", "broken", "closed"}]
    /\ old \in [Pubs -> Pubs \cup {None}]
    /\ fwd \in [Pubs -> Forwarding \cup {"none"}]
    /\ fwdEpoch \in [Pubs -> Nat]
SubscriberTypes ==
    /\ members \in [Chans -> SUBSET Subs]
    /\ subPc \in [Subs -> {"new", "pending", "add", "member", "gone"}]
    /\ subChan \in [Subs -> Chans \cup {None}]
    /\ after \in [Subs -> Pubs \cup {None}]

(* Together they are the type invariant.                                    *)
LEMMA TypesSplit ==
  ChannelTypeOK <=> ManagerTypes /\ StateTypes /\ PublisherTypes /\ SubscriberTypes
  BY DEF ChannelTypeOK, ManagerTypes, StateTypes, PublisherTypes, SubscriberTypes

(* A step keeps the types of what it leaves alone.                          *)
LEMMA TypesFrame ==
  ASSUME ChannelTypeOK
  PROVE  /\ UNCHANGED managerVars => ManagerTypes'
         /\ UNCHANGED chanVars => StateTypes'
         /\ UNCHANGED pubVars => PublisherTypes'
         /\ UNCHANGED subVars => SubscriberTypes'
<1> USE TypesSplit
<1>1. UNCHANGED managerVars => ManagerTypes'
  BY DEF managerVars, ManagerTypes
<1>2. UNCHANGED chanVars => StateTypes'
  BY DEF chanVars, StateTypes
<1>3. UNCHANGED pubVars => PublisherTypes'
  BY DEF pubVars, PublisherTypes
<1>4. UNCHANGED subVars => SubscriberTypes'
  BY DEF subVars, SubscriberTypes
<1> QED  BY <1>1, <1>2, <1>3, <1>4

(* Every step keeps the types.                                              *)
LEMMA ManagerTypeStep ==
  ASSUME ChannelTypeOK, [ChannelNext]_chVars
  PROVE  ManagerTypes'
<1> USE TypesSplit
<1>1. ASSUME NEW p \in Pubs, PublisherConnects(p)
      PROVE  ManagerTypes'
  <2>1. managerOpen' \in BOOLEAN
    BY <1>1 DEF PublisherConnects, ManagerTypes
  <2> QED  BY <1>1, <2>1 DEF PublisherConnects, ManagerTypes
<1>2. ASSUME NEW s \in Subs, SubscriberConnects(s)
      PROVE  ManagerTypes'
  <2>1. managerOpen' \in BOOLEAN
    BY <1>2 DEF SubscriberConnects, ManagerTypes
  <2> QED  BY <1>2, <2>1 DEF SubscriberConnects, ManagerTypes
<1>3. CASE CleanupPending
  BY <1>3 DEF CleanupPending, ManagerTypes
<1>4. CASE Shutdown
  <2>1. managerOpen' \in BOOLEAN
    BY <1>4 DEF Shutdown
  <2> QED  BY <1>4, <2>1 DEF Shutdown, ManagerTypes
<1>5. ASSUME NEW c \in Chans, OnChannelClosed(c)
      PROVE  ManagerTypes'
  BY <1>5 DEF OnChannelClosed, ManagerTypes
<1>6. ASSUME NEW p \in Pubs, SetterStep(p) \/ ForwarderStep(p) \/ PublisherBreaks(p)
      PROVE  UNCHANGED managerVars
  BY <1>6 DEF SetterStep, SetPublisher, CloseOld, StartForwarding, ForwarderStep,
              ForwardBegins, ForwardFails, HandleDisconnect, ForwardReturns,
              Forward, PublisherBreaks
<1>7. ASSUME NEW c \in Chans, ClosingStep(c), ~OnChannelClosed(c)
      PROVE  UNCHANGED managerVars
  BY <1>7 DEF ClosingStep, TimerFires, ReconnectTimeout, ManagerCloses,
              ClosePublisher, CloseSubscribers
<1>8. ASSUME NEW s \in Subs, AddSubscriber(s) \/ RemoveSubscriber(s)
      PROVE  UNCHANGED managerVars
  BY <1>8 DEF AddSubscriber, RemoveSubscriber
<1>9. CASE UNCHANGED chVars
  BY <1>9, TypesFrame DEF chVars
<1> QED  BY <1>1, <1>2, <1>3, <1>4, <1>5, <1>6, <1>7, <1>8, <1>9, TypesFrame
            DEF ChannelNext

(* The state of the channels, which SetPublisher, the timers and            *)
(* closeInternal change.                                                    *)
LEMMA StateTypeStep ==
  ASSUME ChannelTypeOK, PublishersArePlaced, [ChannelNext]_chVars
  PROVE  StateTypes'
<1> USE TypesSplit
<1>1. ASSUME NEW p \in Pubs, SetPublisher(p)
      PROVE  StateTypes'
  <2>1. pubChan[p] \in Chans
    BY <1>1, PlacedOnChannel DEF SetPublisher
  <2>2. CASE closed[pubChan[p]]
    <3>1. UNCHANGED <<publisher, epoch, disconnected, timer, replaceMu>>
      BY <1>1, <2>2 DEF SetPublisher
    <3>2. UNCHANGED <<closed, fired, closing>>
      BY <1>1 DEF SetPublisher
    <3> QED  BY <3>1, <3>2 DEF StateTypes
  <2>3. CASE ~closed[pubChan[p]]
    <3>1. disconnected' \in [Chans -> BOOLEAN] /\ timer' \in [Chans -> BOOLEAN]
      BY <1>1, <2>3 DEF SetPublisher, StateTypes
    <3>2. publisher' \in [Chans -> Pubs \cup {None}] /\ epoch' \in [Chans -> Nat]
      BY <1>1, <2>1, <2>3 DEF SetPublisher, StateTypes
    <3>3. replaceMu' \in [Chans -> Pubs \cup {None, "timer", "manager"}]
      BY <1>1, <2>3 DEF SetPublisher, StateTypes
    <3>4. UNCHANGED <<closed, fired, closing>>
      BY <1>1 DEF SetPublisher
    <3> QED  BY <3>1, <3>2, <3>3, <3>4 DEF StateTypes
  <2> QED  BY <2>2, <2>3
<1>2. ASSUME NEW p \in Pubs, StartForwarding(p)
      PROVE  StateTypes'
  BY <1>2 DEF StartForwarding, StateTypes
<1>3. ASSUME NEW p \in Pubs, HandleDisconnect(p)
      PROVE  StateTypes'
  <2>1. pubChan[p] \in Chans
    BY <1>3, PlacedOnChannel DEF HandleDisconnect, Forward
  <2>2. IsCurrent(p) \in BOOLEAN
    BY DEF IsCurrent
  <2>3. disconnected' \in [Chans -> BOOLEAN]
    BY <1>3, <2>1, <2>2 DEF HandleDisconnect, StateTypes
  <2>4. timer' \in [Chans -> BOOLEAN]
    BY <1>3, <2>1, <2>2 DEF HandleDisconnect, StateTypes
  <2>5. publisher' \in [Chans -> Pubs \cup {None}]
    BY <1>3, <2>1 DEF HandleDisconnect, StateTypes
  <2> QED  BY <1>3, <2>3, <2>4, <2>5 DEF HandleDisconnect, StateTypes
<1>4. ASSUME NEW c \in Chans, TimerFires(c) \/ ClosePublisher(c)
      PROVE  StateTypes'
  <2>1. timer' \in [Chans -> BOOLEAN]
    BY <1>4 DEF TimerFires, ClosePublisher, StateTypes
  <2>2. fired' \in [Chans -> Nat]
    BY <1>4 DEF TimerFires, ClosePublisher, StateTypes
  <2> QED  BY <1>4, <2>1, <2>2 DEF TimerFires, ClosePublisher, StateTypes
<1>5. ASSUME NEW c \in Chans, CloseSubscribers(c) \/ OnChannelClosed(c)
      PROVE  StateTypes'
  BY <1>5 DEF CloseSubscribers, OnChannelClosed, StateTypes
<1>6. ASSUME NEW c \in Chans, NEW who \in {"timer", "manager"}, BeginClose(c, who)
      PROVE  /\ closed' \in [Chans -> BOOLEAN]
             /\ replaceMu' \in [Chans -> Pubs \cup {None, "timer", "manager"}]
             /\ closing' \in [Chans -> {"no", "publisher", "wait", "notify", "done"}]
  BY <1>6 DEF BeginClose, StateTypes
<1>7. ASSUME NEW c \in Chans, ReconnectTimeout(c)
      PROVE  StateTypes'
  <2>1. fired' \in [Chans -> Nat]
    BY <1>7 DEF ReconnectTimeout, StateTypes
  <2>2. BeginClose(c, "timer") \/ UNCHANGED <<closed, closing, replaceMu>>
    BY <1>7 DEF ReconnectTimeout
  <2>3. UNCHANGED <<publisher, epoch, disconnected, timer>>
    BY <1>7 DEF ReconnectTimeout
  <2> QED  BY <1>6, <2>1, <2>2, <2>3 DEF StateTypes
<1>8. ASSUME NEW c \in Chans, ManagerCloses(c)
      PROVE  StateTypes'
  <2>1. BeginClose(c, "manager") /\ UNCHANGED <<publisher, epoch, disconnected, timer, fired>>
    BY <1>8 DEF ManagerCloses
  <2> QED  BY <1>6, <2>1 DEF StateTypes
<1>9. ASSUME NEW p \in Pubs,
             \/ PublisherConnects(p) \/ CloseOld(p) \/ ForwardBegins(p)
             \/ ForwardFails(p) \/ ForwardReturns(p) \/ PublisherBreaks(p)
      PROVE  UNCHANGED chanVars
  BY <1>9 DEF PublisherConnects, CloseOld, ForwardBegins, ForwardFails,
              ForwardReturns, PublisherBreaks
<1>10. ASSUME NEW s \in Subs, SubscriberConnects(s) \/ AddSubscriber(s) \/ RemoveSubscriber(s)
       PROVE  UNCHANGED chanVars
  BY <1>10 DEF SubscriberConnects, AddSubscriber, RemoveSubscriber
<1>11. CASE CleanupPending \/ Shutdown \/ UNCHANGED chVars
  <2>1. UNCHANGED chanVars
    BY <1>11 DEF CleanupPending, Shutdown, chVars
  <2> QED  BY <2>1, TypesFrame
<1> QED  BY <1>1, <1>2, <1>3, <1>4, <1>5, <1>7, <1>8, <1>9, <1>10, <1>11, TypesFrame
            DEF ChannelNext, SetterStep, ForwarderStep, ClosingStep

(* The publishers and their forwarding goroutines.                          *)
LEMMA PublisherTypeStep ==
  ASSUME ChannelTypeOK, PublishersArePlaced, [ChannelNext]_chVars
  PROVE  PublisherTypes'
<1> USE TypesSplit
<1>1. ASSUME NEW p \in Pubs, PublisherConnects(p)
      PROVE  PublisherTypes'
  BY <1>1 DEF PublisherConnects, PublisherTypes, ManagerTypes
<1>2. ASSUME NEW s \in Subs, SubscriberConnects(s)
      PROVE  PublisherTypes'
  BY <1>2 DEF SubscriberConnects, PublisherTypes
<1>3. CASE CleanupPending \/ Shutdown
  BY <1>3 DEF CleanupPending, Shutdown, PublisherTypes
<1>4. ASSUME NEW p \in Pubs, SetPublisher(p)
      PROVE  PublisherTypes'
  <2>1. pubChan[p] \in Chans
    BY <1>4, PlacedOnChannel DEF SetPublisher
  <2>2. epoch[pubChan[p]] + 1 \in Nat /\ publisher[pubChan[p]] \in Pubs \cup {None}
    BY <2>1 DEF StateTypes
  <2> QED  BY <1>4, <2>2 DEF SetPublisher, PublisherTypes
<1>5. ASSUME NEW p \in Pubs, CloseOld(p) \/ StartForwarding(p) \/ PublisherBreaks(p)
      PROVE  PublisherTypes'
  BY <1>5 DEF CloseOld, StartForwarding, PublisherBreaks, PublisherTypes, Forwarding
<1>6. ASSUME NEW p \in Pubs, ForwarderStep(p)
      PROVE  PublisherTypes'
  BY <1>6 DEF ForwarderStep, ForwardBegins, ForwardFails, HandleDisconnect,
              ForwardReturns, Forward, PublisherTypes, Forwarding
<1>7. ASSUME NEW c \in Chans, ClosePublisher(c)
      PROVE  PublisherTypes'
  BY <1>7 DEF ClosePublisher, PublisherTypes
<1>8. ASSUME NEW c \in Chans, ClosingStep(c), ~ClosePublisher(c)
      PROVE  UNCHANGED pubVars
  BY <1>8 DEF ClosingStep, TimerFires, ReconnectTimeout, ManagerCloses,
              CloseSubscribers, OnChannelClosed
<1>9. ASSUME NEW s \in Subs, AddSubscriber(s) \/ RemoveSubscriber(s)
      PROVE  UNCHANGED pubVars
  BY <1>9 DEF AddSubscriber, RemoveSubscriber
<1>10. CASE UNCHANGED chVars
  BY <1>10, TypesFrame DEF chVars
<1> QED  BY <1>1, <1>2, <1>3, <1>4, <1>5, <1>6, <1>7, <1>8, <1>9, <1>10, TypesFrame
            DEF ChannelNext, SetterStep

(* The subscribers.                                                         *)
LEMMA SubscriberTypeStep ==
  ASSUME ChannelTypeOK, [ChannelNext]_chVars
  PROVE  SubscriberTypes'
<1> USE TypesSplit
<1>1. ASSUME NEW p \in Pubs, PublisherConnects(p)
      PROVE  SubscriberTypes'
  BY <1>1 DEF PublisherConnects, SubscriberTypes
<1>2. ASSUME NEW s \in Subs, SubscriberConnects(s)
      PROVE  SubscriberTypes'
  BY <1>2 DEF SubscriberConnects, SubscriberTypes, ManagerTypes
<1>3. CASE CleanupPending \/ Shutdown
  BY <1>3 DEF CleanupPending, Shutdown, SubscriberTypes
<1>4. ASSUME NEW c \in Chans, CloseSubscribers(c)
      PROVE  SubscriberTypes'
  BY <1>4 DEF CloseSubscribers, SubscriberTypes
<1>5. ASSUME NEW s \in Subs, AddSubscriber(s) \/ RemoveSubscriber(s)
      PROVE  SubscriberTypes'
  BY <1>5 DEF AddSubscriber, RemoveSubscriber, SubscriberTypes
<1>6. ASSUME NEW c \in Chans, ClosingStep(c), ~CloseSubscribers(c)
      PROVE  UNCHANGED subVars
  BY <1>6 DEF ClosingStep, TimerFires, ReconnectTimeout, ManagerCloses,
              ClosePublisher, OnChannelClosed
<1>7. ASSUME NEW p \in Pubs, SetterStep(p) \/ ForwarderStep(p) \/ PublisherBreaks(p)
      PROVE  UNCHANGED subVars
  BY <1>7 DEF SetterStep, SetPublisher, CloseOld, StartForwarding, ForwarderStep,
              ForwardBegins, ForwardFails, HandleDisconnect, ForwardReturns,
              Forward, PublisherBreaks
<1>8. CASE UNCHANGED chVars
  BY <1>8, TypesFrame DEF chVars
<1> QED  BY <1>1, <1>2, <1>3, <1>4, <1>5, <1>6, <1>7, <1>8, TypesFrame
            DEF ChannelNext

(* So all of the types.                                                     *)
LEMMA ChannelTypeStep ==
  ASSUME ChannelTypeOK, PublishersArePlaced, [ChannelNext]_chVars
  PROVE  ChannelTypeOK'
<1>1. ManagerTypes' /\ StateTypes' /\ PublisherTypes' /\ SubscriberTypes'
  BY ManagerTypeStep, StateTypeStep, PublisherTypeStep, SubscriberTypeStep
<1> QED  BY <1>1 DEF ChannelTypeOK, ManagerTypes, StateTypes, PublisherTypes,
                     SubscriberTypes

-----------------------------------------------------------------------------
(* Every step keeps the rest of the invariant, one conjunct after the other. *)
LEMMA PlacedStep ==
  ASSUME ChannelTypeOK, PublishersArePlaced, WaitingIsPending, UnmadeIsUntouched,
         [ChannelNext]_chVars
  PROVE  PublishersArePlaced'
<1> USE NamesAssumption, TypesSplit DEF PublishersArePlaced, PublisherTypes, ManagerTypes
<1>1. ASSUME NEW p \in Pubs, PublisherConnects(p)
      PROVE  PublishersArePlaced'
  BY <1>1 DEF PublisherConnects, WaitingIsPending, UnmadeIsUntouched
<1>2. ASSUME NEW s \in Subs, SubscriberConnects(s)
      PROVE  PublishersArePlaced'
  BY <1>2 DEF SubscriberConnects, WaitingIsPending
<1>3. CASE CleanupPending \/ Shutdown
  BY <1>3 DEF CleanupPending, Shutdown, WaitingIsPending
<1>4. ASSUME NEW p \in Pubs, SetPublisher(p)
      PROVE  PublishersArePlaced'
  BY <1>4 DEF SetPublisher, managerVars
<1>5. ASSUME NEW p \in Pubs, CloseOld(p) \/ StartForwarding(p) \/ PublisherBreaks(p)
      PROVE  PublishersArePlaced'
  BY <1>5 DEF CloseOld, StartForwarding, PublisherBreaks, managerVars
<1>6. ASSUME NEW p \in Pubs, ForwarderStep(p)
      PROVE  PublishersArePlaced'
  BY <1>6 DEF ForwarderStep, ForwardBegins, ForwardFails, HandleDisconnect,
              ForwardReturns, Forward, managerVars
<1>7. ASSUME NEW c \in Chans, ClosingStep(c)
      PROVE  PublishersArePlaced'
  BY <1>7 DEF ClosingStep, TimerFires, ReconnectTimeout, ManagerCloses, pubVars,
              ClosePublisher, CloseSubscribers, OnChannelClosed, managerVars
<1>8. ASSUME NEW s \in Subs, AddSubscriber(s) \/ RemoveSubscriber(s)
      PROVE  PublishersArePlaced'
  BY <1>8 DEF AddSubscriber, RemoveSubscriber, pubVars, managerVars
<1>9. CASE UNCHANGED chVars
  BY <1>9 DEF chVars, pubVars, managerVars
<1> QED  BY <1>1, <1>2, <1>3, <1>4, <1>5, <1>6, <1>7, <1>8, <1>9
            DEF ChannelNext, SetterStep

(* What the manager holds is still waiting, and members are members of      *)
(* their channel.                                                           *)
LEMMA PendingStep ==
  ASSUME ChannelTypeOK, PublishersArePlaced, WaitingIsPending, [ChannelNext]_chVars
  PROVE  WaitingIsPending'
<1> USE NamesAssumption, TypesSplit DEF WaitingIsPending, ManagerTypes, SubscriberTypes,
        PublisherTypes
<1>1. ASSUME NEW p \in Pubs, PublisherConnects(p)
      PROVE  WaitingIsPending'
  BY <1>1 DEF PublisherConnects
<1>2. ASSUME NEW s \in Subs, SubscriberConnects(s)
      PROVE  WaitingIsPending'
  BY <1>2 DEF SubscriberConnects
<1>3. CASE CleanupPending \/ Shutdown
  BY <1>3 DEF CleanupPending, Shutdown
<1>4. ASSUME NEW p \in Pubs, SetPublisher(p)
      PROVE  WaitingIsPending'
  BY <1>4 DEF SetPublisher, managerVars, subVars
<1>5. ASSUME NEW p \in Pubs, CloseOld(p) \/ StartForwarding(p) \/ PublisherBreaks(p)
      PROVE  WaitingIsPending'
  BY <1>5 DEF CloseOld, StartForwarding, PublisherBreaks, managerVars, subVars
<1>6. ASSUME NEW p \in Pubs, ForwarderStep(p)
      PROVE  WaitingIsPending'
  BY <1>6 DEF ForwarderStep, ForwardBegins, ForwardFails, HandleDisconnect,
              ForwardReturns, Forward, managerVars, subVars
<1>7. ASSUME NEW c \in Chans, ClosingStep(c)
      PROVE  WaitingIsPending'
  <2>1. CASE CloseSubscribers(c)
    BY <2>1 DEF CloseSubscribers, pubVars, managerVars
  <2>2. CASE ~CloseSubscribers(c)
    BY <1>7, <2>2 DEF ClosingStep, TimerFires, ReconnectTimeout, ManagerCloses, pubVars,
              ClosePublisher, OnChannelClosed, managerVars, subVars
  <2> QED  BY <2>1, <2>2
<1>8. ASSUME NEW s \in Subs, AddSubscriber(s)
      PROVE  WaitingIsPending'
  BY <1>8 DEF AddSubscriber, pubVars, managerVars
<1>9. ASSUME NEW s \in Subs, RemoveSubscriber(s)
      PROVE  WaitingIsPending'
  BY <1>9 DEF RemoveSubscriber, pubVars, managerVars
<1>10. CASE UNCHANGED chVars
  BY <1>10 DEF chVars, pubVars, managerVars, subVars
<1> QED  BY <1>1, <1>2, <1>3, <1>4, <1>5, <1>6, <1>7, <1>8, <1>9, <1>10
            DEF ChannelNext, SetterStep

(* Nothing happens to a channel before it is made.                          *)
LEMMA UnmadeStep ==
  ASSUME ChannelTypeOK, PublishersArePlaced, UnmadeIsUntouched, [ChannelNext]_chVars
  PROVE  UnmadeIsUntouched'
<1> USE NamesAssumption, TypesSplit DEF UnmadeIsUntouched, ManagerTypes, StateTypes
<1>1. ASSUME NEW p \in Pubs, PublisherConnects(p)
      PROVE  UnmadeIsUntouched'
  BY <1>1 DEF PublisherConnects, chanVars
<1>2. ASSUME NEW s \in Subs, SubscriberConnects(s)
      PROVE  UnmadeIsUntouched'
  BY <1>2 DEF SubscriberConnects, chanVars
<1>3. CASE CleanupPending \/ Shutdown
  BY <1>3 DEF CleanupPending, Shutdown, chanVars
<1>4. ASSUME NEW p \in Pubs, SetPublisher(p)
      PROVE  UnmadeIsUntouched'
  BY <1>4, PlacedOnChannel DEF SetPublisher, managerVars
<1>5. ASSUME NEW p \in Pubs, CloseOld(p) \/ StartForwarding(p) \/ PublisherBreaks(p)
      PROVE  UnmadeIsUntouched'
  BY <1>5 DEF CloseOld, StartForwarding, PublisherBreaks, managerVars, chanVars
<1>6. ASSUME NEW p \in Pubs, ForwarderStep(p)
      PROVE  UnmadeIsUntouched'
  <2>1. CASE HandleDisconnect(p)
    <3>1. pubChan[p] \in created
      BY <2>1 DEF HandleDisconnect, Forward, PublishersArePlaced
    <3> QED  BY <2>1, <3>1 DEF HandleDisconnect, Forward, managerVars
  <2>2. CASE ForwardBegins(p) \/ ForwardFails(p) \/ ForwardReturns(p)
    BY <2>2 DEF ForwardBegins, ForwardFails, ForwardReturns, Forward, managerVars, chanVars
  <2> QED  BY <1>6, <2>1, <2>2 DEF ForwarderStep
<1>7. ASSUME NEW c \in Chans, ClosingStep(c)
      PROVE  UnmadeIsUntouched'
  <2>1. c \in created
    BY <1>7 DEF ClosingStep, TimerFires, ReconnectTimeout, ManagerCloses,
                ClosePublisher, CloseSubscribers, OnChannelClosed
  <2>2. CASE TimerFires(c) \/ ClosePublisher(c)
    BY <2>1, <2>2 DEF TimerFires, ClosePublisher, managerVars
  <2>3. CASE ReconnectTimeout(c) \/ ManagerCloses(c)
    BY <2>1, <2>3 DEF ReconnectTimeout, ManagerCloses, BeginClose, managerVars
  <2>4. CASE CloseSubscribers(c) \/ OnChannelClosed(c)
    BY <2>1, <2>4 DEF CloseSubscribers, OnChannelClosed, managerVars
  <2> QED  BY <1>7, <2>2, <2>3, <2>4 DEF ClosingStep
<1>8. ASSUME NEW s \in Subs, AddSubscriber(s) \/ RemoveSubscriber(s)
      PROVE  UnmadeIsUntouched'
  BY <1>8 DEF AddSubscriber, RemoveSubscriber, chanVars, managerVars
<1>9. CASE UNCHANGED chVars
  BY <1>9 DEF chVars, chanVars, managerVars
<1> QED  BY <1>1, <1>2, <1>3, <1>4, <1>5, <1>6, <1>7, <1>8, <1>9
            DEF ChannelNext, SetterStep

(* publisherReplaceMu passes from holder to holder.                         *)
LEMMA ReplaceMuStep ==
  ASSUME ChannelTypeOK, PublishersArePlaced, WaitingIsPending, ReplaceMuIsHeld,
         [ChannelNext]_chVars
  PROVE  ReplaceMuIsHeld'
<1> USE NamesAssumption, TypesSplit DEF ReplaceMuIsHeld, StateTypes, PublisherTypes
<1>1. ASSUME NEW p \in Pubs, PublisherConnects(p)
      PROVE  ReplaceMuIsHeld'
  BY <1>1 DEF PublisherConnects, chanVars, ManagerTypes
<1>2. ASSUME NEW s \in Subs, SubscriberConnects(s)
      PROVE  ReplaceMuIsHeld'
  BY <1>2 DEF SubscriberConnects, chanVars, ManagerTypes, WaitingIsPending
<1>3. CASE CleanupPending \/ Shutdown
  BY <1>3 DEF CleanupPending, Shutdown, chanVars, ManagerTypes
<1>4. ASSUME NEW p \in Pubs, SetPublisher(p)
      PROVE  ReplaceMuIsHeld'
  <2>1. pubChan[p] \in Chans /\ \A q \in Pubs : pubPc[q] \in {"replace", "wait"} => pubChan[q] \in Chans
    BY <1>4, PlacedOnChannel DEF SetPublisher
  <2> QED  BY <1>4, <2>1 DEF SetPublisher
<1>5. ASSUME NEW p \in Pubs, CloseOld(p) \/ PublisherBreaks(p)
      PROVE  ReplaceMuIsHeld'
  BY <1>5 DEF CloseOld, PublisherBreaks, chanVars
<1>6. ASSUME NEW p \in Pubs, StartForwarding(p)
      PROVE  ReplaceMuIsHeld'
  <2>1. pubChan[p] \in Chans /\ \A q \in Pubs : pubPc[q] \in {"replace", "wait"} => pubChan[q] \in Chans
    BY <1>6, PlacedOnChannel DEF StartForwarding
  <2> QED  BY <1>6, <2>1 DEF StartForwarding
<1>7. ASSUME NEW p \in Pubs, ForwarderStep(p)
      PROVE  ReplaceMuIsHeld'
  BY <1>7 DEF ForwarderStep, ForwardBegins, ForwardFails, HandleDisconnect,
              ForwardReturns, Forward, chanVars
<1>8. ASSUME NEW c \in Chans, ClosingStep(c)
      PROVE  ReplaceMuIsHeld'
  <2>0. \A q \in Pubs : pubPc[q] \in {"replace", "wait"} => pubChan[q] \in Chans
    BY PlacedOnChannel
  <2>1. CASE TimerFires(c)
    BY <2>1 DEF TimerFires, pubVars
  <2>2. CASE ReconnectTimeout(c)
    BY <2>0, <2>2 DEF ReconnectTimeout, BeginClose, pubVars
  <2>3. CASE ManagerCloses(c)
    BY <2>0, <2>3 DEF ManagerCloses, BeginClose, pubVars
  <2>4. CASE ClosePublisher(c) \/ CloseSubscribers(c)
    BY <2>0, <2>4 DEF ClosePublisher, CloseSubscribers, pubVars
  <2>5. CASE OnChannelClosed(c)
    BY <2>0, <2>5 DEF OnChannelClosed, pubVars
  <2> QED  BY <1>8, <2>1, <2>2, <2>3, <2>4, <2>5 DEF ClosingStep
<1>9. ASSUME NEW s \in Subs, AddSubscriber(s) \/ RemoveSubscriber(s)
      PROVE  ReplaceMuIsHeld'
  BY <1>9 DEF AddSubscriber, RemoveSubscriber, chanVars, pubVars
<1>10. CASE UNCHANGED chVars
  BY <1>10 DEF chVars, chanVars, pubVars
<1> QED  BY <1>1, <1>2, <1>3, <1>4, <1>5, <1>6, <1>7, <1>8, <1>9, <1>10
            DEF ChannelNext, SetterStep

(* A forwarding goroutine starts only when the one before has ended.        *)
LEMMA ForwardersStep ==
  ASSUME ChannelTypeOK, PublishersArePlaced, WaitingIsPending, ForwardersAgree,
         [ChannelNext]_chVars
  PROVE  ForwardersAgree'
<1> USE NamesAssumption, TypesSplit DEF ForwardersAgree, PublisherTypes
<1>1. ASSUME NEW p \in Pubs, PublisherConnects(p)
      PROVE  ForwardersAgree'
  BY <1>1 DEF PublisherConnects, PublishersArePlaced
<1>2. ASSUME NEW s \in Subs, SubscriberConnects(s)
      PROVE  ForwardersAgree'
  BY <1>2 DEF SubscriberConnects, PublishersArePlaced, WaitingIsPending, ManagerTypes
<1>3. CASE CleanupPending \/ Shutdown
  BY <1>3 DEF CleanupPending, Shutdown
<1>4. ASSUME NEW p \in Pubs, SetPublisher(p) \/ CloseOld(p) \/ PublisherBreaks(p)
      PROVE  ForwardersAgree'
  BY <1>4 DEF SetPublisher, CloseOld, PublisherBreaks
<1>5. ASSUME NEW p \in Pubs, StartForwarding(p)
      PROVE  ForwardersAgree'
  <2>1. \A q \in Pubs : pubChan[q] = pubChan[p] => fwd[q] = "none"
    BY <1>5 DEF StartForwarding, Forwarders
  <2> QED  BY <1>5, <2>1 DEF StartForwarding
<1>6. ASSUME NEW p \in Pubs, ForwarderStep(p)
      PROVE  ForwardersAgree'
  BY <1>6 DEF ForwarderStep, ForwardBegins, ForwardFails, HandleDisconnect,
              ForwardReturns, Forward
<1>7. ASSUME NEW c \in Chans, ClosingStep(c)
      PROVE  ForwardersAgree'
  BY <1>7 DEF ClosingStep, TimerFires, ReconnectTimeout, ManagerCloses, pubVars,
              ClosePublisher, CloseSubscribers, OnChannelClosed
<1>8. ASSUME NEW s \in Subs, AddSubscriber(s) \/ RemoveSubscriber(s)
      PROVE  ForwardersAgree'
  BY <1>8 DEF AddSubscriber, RemoveSubscriber, pubVars
<1>9. CASE UNCHANGED chVars
  BY <1>9 DEF chVars, pubVars
<1> QED  BY <1>1, <1>2, <1>3, <1>4, <1>5, <1>6, <1>7, <1>8, <1>9
            DEF ChannelNext, SetterStep

(* A connection that is replaced is closed by the one that replaces it.     *)
LEMMA OpenIsPublisherStep ==
  ASSUME ChannelTypeOK, PublishersArePlaced, WaitingIsPending, ReplaceMuIsHeld,
         OpenIsPublisher, [ChannelNext]_chVars
  PROVE  OpenIsPublisher'
<1> USE NamesAssumption, TypesSplit DEF OpenIsPublisher, PublisherTypes, StateTypes
<1>1. ASSUME NEW p \in Pubs, PublisherConnects(p)
      PROVE  OpenIsPublisher'
  BY <1>1 DEF PublisherConnects, PublishersArePlaced, WaitingIsPending, ManagerTypes,
              chanVars
<1>2. ASSUME NEW s \in Subs, SubscriberConnects(s)
      PROVE  OpenIsPublisher'
  BY <1>2 DEF SubscriberConnects, PublishersArePlaced, WaitingIsPending, ManagerTypes,
              chanVars
<1>3. CASE CleanupPending \/ Shutdown
  BY <1>3 DEF CleanupPending, Shutdown, chanVars, WaitingIsPending, PublishersArePlaced
<1>4. ASSUME NEW p \in Pubs, SetPublisher(p)
      PROVE  OpenIsPublisher'
  <2>1. pubChan[p] \in Chans
    BY <1>4, PlacedOnChannel DEF SetPublisher
  <2>2. \A q \in Pubs : pubChan[q] = pubChan[p] => pubPc[q] # "replace"
    BY <1>4 DEF SetPublisher, ReplaceMuIsHeld
  <2> QED  BY <1>4, <2>1, <2>2 DEF SetPublisher
<1>5. ASSUME NEW p \in Pubs, CloseOld(p)
      PROVE  OpenIsPublisher'
  BY <1>5 DEF CloseOld, chanVars
<1>6. ASSUME NEW p \in Pubs, StartForwarding(p) \/ PublisherBreaks(p)
      PROVE  OpenIsPublisher'
  BY <1>6 DEF StartForwarding, PublisherBreaks, chanVars
<1>7. ASSUME NEW p \in Pubs, ForwarderStep(p)
      PROVE  OpenIsPublisher'
  <2>1. CASE HandleDisconnect(p)
    <3>1. pubChan[p] \in Chans
      BY <2>1, PlacedOnChannel DEF HandleDisconnect, Forward
    <3> QED  BY <2>1, <3>1 DEF HandleDisconnect, Forward, IsCurrent
  <2>2. CASE ForwardBegins(p) \/ ForwardFails(p) \/ ForwardReturns(p)
    BY <2>2 DEF ForwardBegins, ForwardFails, ForwardReturns, Forward, chanVars
  <2> QED  BY <1>7, <2>1, <2>2 DEF ForwarderStep
<1>8. ASSUME NEW c \in Chans, ClosePublisher(c)
      PROVE  OpenIsPublisher'
  BY <1>8 DEF ClosePublisher
<1>9. ASSUME NEW c \in Chans, ClosingStep(c), ~ClosePublisher(c)
      PROVE  OpenIsPublisher'
  BY <1>9 DEF ClosingStep, TimerFires, ReconnectTimeout, ManagerCloses, pubVars,
              CloseSubscribers, OnChannelClosed
<1>10. ASSUME NEW s \in Subs, AddSubscriber(s) \/ RemoveSubscriber(s)
      PROVE  OpenIsPublisher'
  BY <1>10 DEF AddSubscriber, RemoveSubscriber, pubVars, chanVars
<1>11. CASE UNCHANGED chVars
  BY <1>11 DEF chVars, pubVars, chanVars
<1> QED  BY <1>1, <1>2, <1>3, <1>4, <1>5, <1>6, <1>7, <1>8, <1>9, <1>10, <1>11
            DEF ChannelNext, SetterStep

(* closeInternal lets go of all, and a closed channel takes on nothing.     *)
LEMMA LetsGoStep ==
  ASSUME ChannelTypeOK, PublishersArePlaced, WaitingIsPending, ReplaceMuIsHeld,
         ClosingLetsGo, [ChannelNext]_chVars
  PROVE  ClosingLetsGo'
<1> USE NamesAssumption, TypesSplit DEF ClosingLetsGo, PublisherTypes, StateTypes
<1>1. ASSUME NEW p \in Pubs, PublisherConnects(p)
      PROVE  ClosingLetsGo'
  BY <1>1 DEF PublisherConnects, PublishersArePlaced, chanVars
<1>2. ASSUME NEW s \in Subs, SubscriberConnects(s)
      PROVE  ClosingLetsGo'
  BY <1>2 DEF SubscriberConnects, PublishersArePlaced, WaitingIsPending, ManagerTypes,
              chanVars
<1>3. CASE CleanupPending \/ Shutdown
  BY <1>3 DEF CleanupPending, Shutdown, chanVars
<1>4. ASSUME NEW p \in Pubs, SetPublisher(p)
      PROVE  ClosingLetsGo'
  <2>1. pubChan[p] \in Chans
    BY <1>4, PlacedOnChannel DEF SetPublisher
  <2> QED  BY <1>4, <2>1 DEF SetPublisher, ReplaceMuIsHeld, subVars
<1>5. ASSUME NEW p \in Pubs, StartForwarding(p)
      PROVE  ClosingLetsGo'
  <2>1. pubChan[p] \in Chans /\ closing[pubChan[p]] = "no"
    BY <1>5, PlacedOnChannel DEF StartForwarding, ReplaceMuIsHeld
  <2> QED  BY <1>5, <2>1 DEF StartForwarding, subVars
<1>6. ASSUME NEW p \in Pubs, CloseOld(p) \/ PublisherBreaks(p)
      PROVE  ClosingLetsGo'
  BY <1>6 DEF CloseOld, PublisherBreaks, chanVars, subVars
<1>7. ASSUME NEW p \in Pubs, ForwarderStep(p)
      PROVE  ClosingLetsGo'
  <2>1. CASE HandleDisconnect(p)
    BY <2>1 DEF HandleDisconnect, Forward, IsCurrent, subVars
  <2>2. CASE ForwardBegins(p) \/ ForwardFails(p) \/ ForwardReturns(p)
    BY <2>2 DEF ForwardBegins, ForwardFails, ForwardReturns, Forward, chanVars, subVars
  <2> QED  BY <1>7, <2>1, <2>2 DEF ForwarderStep
<1>8. ASSUME NEW c \in Chans, ClosingStep(c)
      PROVE  ClosingLetsGo'
  <2>1. CASE TimerFires(c) \/ ClosePublisher(c)
    BY <2>1 DEF TimerFires, ClosePublisher, pubVars, subVars
  <2>2. CASE ReconnectTimeout(c) \/ ManagerCloses(c)
    BY <2>2 DEF ReconnectTimeout, ManagerCloses, BeginClose, pubVars, subVars
  <2>3. CASE CloseSubscribers(c)
    <3>1. \A p \in Pubs : pubChan[p] = c => fwd[p] = "none"
      BY <2>3 DEF CloseSubscribers, Forwarders
    <3> QED  BY <2>3, <3>1 DEF CloseSubscribers, pubVars, SubscriberTypes
  <2>4. CASE OnChannelClosed(c)
    BY <2>4 DEF OnChannelClosed, pubVars, subVars
  <2> QED  BY <1>8, <2>1, <2>2, <2>3, <2>4 DEF ClosingStep
<1>9. ASSUME NEW s \in Subs, AddSubscriber(s) \/ RemoveSubscriber(s)
      PROVE  ClosingLetsGo'
  <2>1. CASE AddSubscriber(s)
    BY <2>1 DEF AddSubscriber, ReplaceMuIsHeld, pubVars, chanVars, SubscriberTypes
  <2>2. CASE RemoveSubscriber(s)
    BY <2>2 DEF RemoveSubscriber, pubVars, chanVars, SubscriberTypes
  <2> QED  BY <1>9, <2>1, <2>2
<1>10. CASE UNCHANGED chVars
  BY <1>10 DEF chVars, pubVars, chanVars, subVars
<1> QED  BY <1>1, <1>2, <1>3, <1>4, <1>5, <1>6, <1>7, <1>8, <1>9, <1>10
            DEF ChannelNext, SetterStep

(* The manager forgets a channel only when it is closed.                    *)
LEMMA RegisteredStep ==
  ASSUME ChannelTypeOK, UnmadeIsUntouched, ReplaceMuIsHeld, OpenIsRegistered,
         [ChannelNext]_chVars
  PROVE  OpenIsRegistered'
<1> USE NamesAssumption, TypesSplit DEF OpenIsRegistered, ManagerTypes, StateTypes
<1>1. ASSUME NEW p \in Pubs, PublisherConnects(p)
      PROVE  OpenIsRegistered'
  BY <1>1 DEF PublisherConnects, UnmadeIsUntouched, chanVars
<1>2. ASSUME NEW s \in Subs, SubscriberConnects(s)
      PROVE  OpenIsRegistered'
  BY <1>2 DEF SubscriberConnects, UnmadeIsUntouched, chanVars
<1>3. CASE CleanupPending \/ Shutdown
  BY <1>3 DEF CleanupPending, Shutdown, chanVars
<1>4. ASSUME NEW p \in Pubs, SetterStep(p) \/ PublisherBreaks(p)
      PROVE  OpenIsRegistered'
  BY <1>4 DEF SetterStep, SetPublisher, CloseOld, StartForwarding, PublisherBreaks,
              managerVars, chanVars
<1>5. ASSUME NEW p \in Pubs, ForwarderStep(p)
      PROVE  OpenIsRegistered'
  BY <1>5 DEF ForwarderStep, ForwardBegins, ForwardFails, HandleDisconnect,
              ForwardReturns, Forward, managerVars, chanVars
<1>6. ASSUME NEW c \in Chans, ClosingStep(c)
      PROVE  OpenIsRegistered'
  <2>1. CASE TimerFires(c)
    BY <2>1 DEF TimerFires, managerVars
  <2>2. CASE ReconnectTimeout(c) \/ ManagerCloses(c)
    <3>1. closing' = closing \/ (~closed[c] /\ closing' = [closing EXCEPT ![c] = "publisher"])
      BY <2>2 DEF ReconnectTimeout, ManagerCloses, BeginClose
    <3>2. ~closed[c] => closing[c] # "done"
      BY DEF ReplaceMuIsHeld
    <3>3. UNCHANGED managerVars
      BY <2>2 DEF ReconnectTimeout, ManagerCloses
    <3> QED  BY <3>1, <3>2, <3>3 DEF managerVars
  <2>3. CASE ClosePublisher(c) \/ CloseSubscribers(c)
    BY <2>3 DEF ClosePublisher, CloseSubscribers, managerVars
  <2>4. CASE OnChannelClosed(c)
    BY <2>4 DEF OnChannelClosed, UnmadeIsUntouched
  <2> QED  BY <1>6, <2>1, <2>2, <2>3, <2>4 DEF ClosingStep
<1>7. ASSUME NEW s \in Subs, AddSubscriber(s) \/ RemoveSubscriber(s)
      PROVE  OpenIsRegistered'
  BY <1>7 DEF AddSubscriber, RemoveSubscriber, managerVars, chanVars
<1>8. CASE UNCHANGED chVars
  BY <1>8 DEF chVars, managerVars, chanVars
<1> QED  BY <1>1, <1>2, <1>3, <1>4, <1>5, <1>6, <1>7, <1>8 DEF ChannelNext

(* A publisher that is set ends the wait, and the timer holds               *)
(* publisherReplaceMu until the channel is closed.                          *)
LEMMA WaitingHasNoneStep ==
  ASSUME ChannelTypeOK, PublishersArePlaced, WaitingHasNone, [ChannelNext]_chVars
  PROVE  WaitingHasNone'
<1> USE NamesAssumption, TypesSplit DEF WaitingHasNone, StateTypes
<1>1. ASSUME UNCHANGED <<publisher, disconnected, replaceMu>>
      PROVE  WaitingHasNone'
  BY <1>1
<1>2. ASSUME NEW p \in Pubs, SetPublisher(p)
      PROVE  WaitingHasNone'
  <2>1. pubChan[p] \in Chans
    BY <1>2, PlacedOnChannel DEF SetPublisher
  <2> QED  BY <1>2, <2>1 DEF SetPublisher
<1>3. ASSUME NEW p \in Pubs, StartForwarding(p)
      PROVE  WaitingHasNone'
  <2>1. pubChan[p] \in Chans
    BY <1>3, PlacedOnChannel DEF StartForwarding
  <2> QED  BY <1>3, <2>1 DEF StartForwarding
<1>4. ASSUME NEW p \in Pubs, HandleDisconnect(p)
      PROVE  WaitingHasNone'
  <2>1. pubChan[p] \in Chans
    BY <1>4, PlacedOnChannel DEF HandleDisconnect, Forward
  <2>2. CASE IsCurrent(p)
    BY <1>4, <2>1, <2>2 DEF HandleDisconnect
  <2>3. CASE ~IsCurrent(p)
    BY <1>4, <2>1, <2>3 DEF HandleDisconnect
  <2> QED  BY <2>2, <2>3
<1>5. ASSUME NEW p \in Pubs,
             \/ PublisherConnects(p) \/ CloseOld(p) \/ ForwardBegins(p)
             \/ ForwardFails(p) \/ ForwardReturns(p) \/ PublisherBreaks(p)
      PROVE  WaitingHasNone'
  BY <1>1, <1>5 DEF PublisherConnects, CloseOld, ForwardBegins, ForwardFails,
                    ForwardReturns, PublisherBreaks, chanVars
<1>6. ASSUME NEW c \in Chans, ClosingStep(c)
      PROVE  WaitingHasNone'
  <2>1. CASE TimerFires(c) \/ CloseSubscribers(c)
    BY <1>1, <2>1 DEF TimerFires, CloseSubscribers
  <2>2. CASE ReconnectTimeout(c)
    BY <2>2 DEF ReconnectTimeout, BeginClose
  <2>3. CASE ManagerCloses(c)
    BY <2>3 DEF ManagerCloses, BeginClose
  <2>4. CASE ClosePublisher(c) \/ OnChannelClosed(c)
    BY <2>4 DEF ClosePublisher, OnChannelClosed
  <2> QED  BY <1>6, <2>1, <2>2, <2>3, <2>4 DEF ClosingStep
<1>7. CASE \/ CleanupPending \/ Shutdown \/ UNCHANGED chVars
           \/ \E s \in Subs :
                SubscriberConnects(s) \/ AddSubscriber(s) \/ RemoveSubscriber(s)
  BY <1>1, <1>7 DEF CleanupPending, Shutdown, SubscriberConnects, AddSubscriber,
                    RemoveSubscriber, chVars, chanVars
<1> QED  BY <1>2, <1>3, <1>4, <1>5, <1>6, <1>7
            DEF ChannelNext, SetterStep, ForwarderStep

-----------------------------------------------------------------------------
(* The first state.                                                         *)
LEMMA ChannelInitInv == ChannelInit => ChannelInv
<1> SUFFICES ASSUME ChannelInit PROVE ChannelInv
  OBVIOUS
<1> USE NamesAssumption DEF ChannelInit
<1>1. ChannelTypeOK
  BY DEF ChannelTypeOK
<1>2. PublishersArePlaced /\ WaitingIsPending /\ UnmadeIsUntouched
  BY DEF PublishersArePlaced, WaitingIsPending, UnmadeIsUntouched
<1>3. ReplaceMuIsHeld /\ ForwardersAgree /\ OpenIsPublisher
  BY DEF ReplaceMuIsHeld, ForwardersAgree, OpenIsPublisher
<1>4. ClosingLetsGo /\ OpenIsRegistered /\ WaitingHasNone
  BY DEF ClosingLetsGo, OpenIsRegistered, WaitingHasNone
<1> QED  BY <1>1, <1>2, <1>3, <1>4 DEF ChannelInv

(* The invariant is inductive.                                              *)
LEMMA ChannelStepInv == ChannelInv /\ [ChannelNext]_chVars => ChannelInv'
<1> SUFFICES ASSUME ChannelInv, [ChannelNext]_chVars PROVE ChannelInv'
  OBVIOUS
<1> USE DEF ChannelInv
<1>1. ChannelTypeOK' /\ PublishersArePlaced' /\ WaitingIsPending' /\ UnmadeIsUntouched'
  BY ChannelTypeStep, PlacedStep, PendingStep, UnmadeStep
<1>2. ReplaceMuIsHeld' /\ ForwardersAgree' /\ OpenIsPublisher'
  BY ReplaceMuStep, ForwardersStep, OpenIsPublisherStep
<1>3. ClosingLetsGo' /\ OpenIsRegistered' /\ WaitingHasNone'
  BY LetsGoStep, RegisteredStep, WaitingHasNoneStep
<1> QED  BY <1>1, <1>2, <1>3

(* The invariant holds of every channel.                                    *)
LEMMA ChannelInvariance == ChannelSpec => []ChannelInv
  BY ChannelInitInv, ChannelStepInv, PTL DEF ChannelSpec

(* Type correctness of the channel.                                         *)
THEOREM ChannelTypeCorrect == ChannelSpec => []ChannelTypeOK
<1>1. ChannelInv => ChannelTypeOK
  BY DEF ChannelInv
<1> QED  BY <1>1, ChannelInvariance, PTL

(* However publishers replace one another, break, time out or are closed, a *)
(* channel has at most one forwarding goroutine (SetPublisher and           *)
(* closeInternal wait for publisherWg).                                     *)
THEOREM ForwardersExclude == ChannelSpec => []OneForwarder
<1>1. ASSUME ChannelInv PROVE OneForwarder
  <2> SUFFICES ASSUME NEW c \in Chans
               PROVE  Cardinality(Forwarders(c)) <= 1
    BY DEF OneForwarder
  <2>1. CASE Forwarders(c) = {}
    BY <2>1, FS_EmptySet
  <2>2. CASE Forwarders(c) # {}
    <3>1. PICK p \in Forwarders(c) : TRUE
      BY <2>2
    <3>2. Forwarders(c) = {p}
      BY <1>1, <3>1 DEF Forwarders, Forwarding, ChannelInv, ForwardersAgree
    <3> QED  BY <3>2, FS_Singleton
  <2> QED  BY <2>1, <2>2
<1> QED  BY <1>1, ChannelInvariance, PTL

(* A closed channel holds no connection, whatever was under way when it was *)
(* closed.                                                                  *)
THEOREM ClosingIsComplete == ChannelSpec => []ClosedHoldsNothing
<1>1. ASSUME ChannelInv PROVE ClosedHoldsNothing
  <2> SUFFICES ASSUME NEW c \in Chans, closing[c] \in {"notify", "done"}
               PROVE  /\ members[c] = {} /\ publisher[c] = None /\ Forwarders(c) = {}
                      /\ \A p \in Pubs :
                          pubChan[p] = c /\ pubPc[p] # "set" => pubConn[p] # "open"
    BY DEF ClosedHoldsNothing
  <2>1. members[c] = {} /\ publisher[c] = None
    BY <1>1 DEF ChannelInv, ClosingLetsGo
  <2>2. Forwarders(c) = {}
    BY <1>1 DEF ChannelInv, ClosingLetsGo, Forwarders, Forwarding
  <2>3. ASSUME NEW p \in Pubs, pubChan[p] = c, pubPc[p] # "set", pubConn[p] = "open"
        PROVE  FALSE
    <3>1. pubPc[p] \in {"replace", "wait", "done"} /\ pubChan[p] # None
      BY <1>1, <2>3, NamesAssumption
         DEF ChannelInv, ChannelTypeOK, PublishersArePlaced
    <3>2. publisher[c] # p
      BY <2>1, NamesAssumption
    <3>3. \A q \in Pubs : pubChan[q] = c => pubPc[q] # "replace"
      BY <1>1 DEF ChannelInv, ReplaceMuIsHeld
    <3> QED  BY <1>1, <2>3, <3>1, <3>2, <3>3 DEF ChannelInv, OpenIsPublisher
  <2> QED  BY <2>1, <2>2, <2>3
<1> QED  BY <1>1, ChannelInvariance, PTL

(* Until it is closed the manager reaches every open channel and no closed  *)
(* one, although onChannelClosed deletes by pod key.                        *)
THEOREM ManagerReachesOpen == ChannelSpec => []OpenIsRegistered
<1>1. ChannelInv => OpenIsRegistered
  BY DEF ChannelInv
<1> QED  BY <1>1, ChannelInvariance, PTL

(* The reconnect timer never closes a channel under a publisher that is     *)
(* back, however many timers have fired (handlePublisherDisconnect's        *)
(* callback holds publisherReplaceMu from its check to the end).            *)
THEOREM TimerIsHarmless == ChannelSpec => []TimerSparesPublisher
<1>1. ASSUME ChannelInv PROVE TimerSparesPublisher
  <2> SUFFICES ASSUME NEW c \in Chans, replaceMu[c] = "timer"
               PROVE  /\ publisher[c] = None
                      /\ \A p \in Pubs :
                          pubChan[p] = c /\ pubPc[p] # "set" => pubConn[p] # "open"
    BY DEF TimerSparesPublisher
  <2>1. publisher[c] = None
    BY <1>1 DEF ChannelInv, WaitingHasNone
  <2>2. ASSUME NEW p \in Pubs, pubChan[p] = c, pubPc[p] # "set", pubConn[p] = "open"
        PROVE  FALSE
    <3>1. pubPc[p] \in {"replace", "wait", "done"} /\ pubChan[p] # None
      BY <1>1, <2>2, NamesAssumption
         DEF ChannelInv, ChannelTypeOK, PublishersArePlaced
    <3>2. publisher[c] # p
      BY <2>1, NamesAssumption
    <3>3. \A q \in Pubs : pubChan[q] = c => pubPc[q] # "replace"
      BY <1>1, NamesAssumption DEF ChannelInv, ReplaceMuIsHeld
    <3> QED  BY <1>1, <2>2, <3>1, <3>2, <3>3 DEF ChannelInv, OpenIsPublisher
  <2> QED  BY <2>1, <2>2
<1> QED  BY <1>1, ChannelInvariance, PTL

-----------------------------------------------------------------------------
(* The types of the registration, apart and together.                       *)
RegistryFlags ==
    registered \in BOOLEAN /\ healthy \in BOOLEAN /\ info \in BOOLEAN /\ alive \in BOOLEAN
RegistryStates ==
    /\ relay \in {"up", "leaving", "gone"}
    /\ request \in {"none", "register", "saved", "heartbeat", "sync"}
    /\ memory \in Registry!Ages \cup {"none"}
    /\ check \in {"none", "found", "deleting"} /\ deleting \in Nat
    /\ faults \in 0..MaxFaults

(* Every step of the registration keeps them.                               *)
LEMMA RegistryFlagsStep ==
  ASSUME Registry!TypeOK, Registry!Next
  PROVE  RegistryFlags'
<1> USE FaultsAssumption DEF Registry!TypeOK, RegistryFlags
<1>1. CASE Registry!Age \/ Registry!KeyExpires \/ Registry!Tick \/ Registry!Shutdown
  BY <1>1 DEF Registry!Age, Registry!KeyExpires, Registry!Tick,
              Registry!Shutdown
<1>2. CASE Registry!RegisterSaves \/ Registry!Registered \/ Registry!RegisterUnanswered
  BY <1>2 DEF Registry!RegisterSaves, Registry!Registered,
              Registry!EnterInMemory, Registry!RegisterUnanswered
<1>3. CASE Registry!Heartbeat \/ Registry!SyncHeartbeat
  BY <1>3 DEF Registry!Heartbeat, Registry!SyncHeartbeat
<1>4. CASE Registry!HealthCheck
  BY <1>4 DEF Registry!HealthCheck, Registry!MarkUnhealthy,
              Registry!CollectStale, Registry!RemoveStaleRelay
<1>5. CASE Registry!DeleteFromStore \/ Registry!DeleteFails
  BY <1>5 DEF Registry!DeleteFromStore, Registry!DeleteFails,
              Registry!DeleteCall
<1>6. CASE Registry!GracefulUnregister \/ Registry!ForceUnregister
  BY <1>6 DEF Registry!GracefulUnregister, Registry!ForceUnregister,
              Registry!RemoveEntry
<1>7. CASE Registry!Crash \/ Registry!RequestFails
  BY <1>7 DEF Registry!Crash, Registry!RequestFails
<1>8. CASE Registry!SyncFails
  BY <1>8 DEF Registry!SyncFails
<1>9. CASE Registry!Restart
  BY <1>9 DEF Registry!Restart, Registry!Load
<1> QED  BY <1>1, <1>2, <1>3, <1>4, <1>5, <1>6, <1>7, <1>8, <1>9
            DEF Registry!Next, Registry!Handler

(* Every step keeps the other types of the registration.                    *)
LEMMA RegistryStatesStep ==
  ASSUME Registry!TypeOK, Registry!Next
  PROVE  RegistryStates'
<1> USE FaultsAssumption DEF Registry!TypeOK, Registry!Ages, Registry!Fault, RegistryStates
<1>1. CASE Registry!Age \/ Registry!KeyExpires \/ Registry!Tick \/ Registry!Shutdown
  BY <1>1 DEF Registry!Age, Registry!KeyExpires, Registry!Tick,
              Registry!Shutdown
<1>2. CASE Registry!RegisterSaves \/ Registry!Registered \/ Registry!RegisterUnanswered
  BY <1>2 DEF Registry!RegisterSaves, Registry!Registered,
              Registry!EnterInMemory, Registry!RegisterUnanswered
<1>3. CASE Registry!Heartbeat \/ Registry!SyncHeartbeat
  BY <1>3 DEF Registry!Heartbeat, Registry!SyncHeartbeat
<1>4. CASE Registry!HealthCheck
  BY <1>4 DEF Registry!HealthCheck, Registry!MarkUnhealthy,
              Registry!CollectStale, Registry!RemoveStaleRelay
<1>5. CASE Registry!DeleteFromStore \/ Registry!DeleteFails
  BY <1>5 DEF Registry!DeleteFromStore, Registry!DeleteFails,
              Registry!DeleteCall
<1>6. CASE Registry!GracefulUnregister \/ Registry!ForceUnregister
  BY <1>6 DEF Registry!GracefulUnregister, Registry!ForceUnregister,
              Registry!RemoveEntry
<1>7. CASE Registry!Crash \/ Registry!RequestFails
  BY <1>7 DEF Registry!Crash, Registry!RequestFails
<1>8. CASE Registry!SyncFails
  BY <1>8 DEF Registry!SyncFails
<1>9. CASE Registry!Restart
  BY <1>9 DEF Registry!Restart, Registry!Load
<1> QED  BY <1>1, <1>2, <1>3, <1>4, <1>5, <1>6, <1>7, <1>8, <1>9
            DEF Registry!Next, Registry!Handler

(* So all of them.                                                          *)
LEMMA RegistryTypeStep ==
  ASSUME Registry!TypeOK, Registry!Next
  PROVE  Registry!TypeOK'
  BY RegistryFlagsStep, RegistryStatesStep
     DEF RegistryFlags, RegistryStates, Registry!TypeOK

(* The three parts next to each other: the types of all of them hold while  *)
(* one of them moves.                                                       *)
THEOREM RelayTypeCorrect == RelaySpec => []RelayTypes
<1> DEFINE AllInv == IInv /\ ChannelInv /\ Registry!TypeOK
<1>1. RelayInit => AllInv
  <2>1. RelayInit => Registry!TypeOK
    <3>1. RelayInit => RegistryFlags
      BY DEF RelayInit, RegistryIdle, Registry!Init, RegistryFlags
    <3>2. RelayInit => RegistryStates
      BY FaultsAssumption DEF RelayInit, RegistryIdle, Registry!Init, RegistryStates
    <3> QED  BY <3>1, <3>2 DEF RegistryFlags, RegistryStates, Registry!TypeOK
  <2> QED  BY <2>1, InitIInv, ChannelInitInv DEF RelayInit
<1>2. AllInv /\ [RelayNext]_<<part, vars, chVars, registryVars>> => AllInv'
  <2> SUFFICES ASSUME AllInv, [RelayNext]_<<part, vars, chVars, registryVars>>
               PROVE  AllInv'
    OBVIOUS
  <2>1. [Next]_vars /\ [ChannelNext]_chVars
    BY DEF RelayNext
  <2>2. Registry!Next \/ UNCHANGED registryVars
    BY DEF RelayNext
  <2>3. UNCHANGED registryVars => Registry!TypeOK'
    BY DEF registryVars, Registry!TypeOK, Registry!Ages
  <2> QED  BY <2>1, <2>2, <2>3, NextKeepsIInv, ChannelStepInv, RegistryTypeStep
<1>3. AllInv => RelayTypes
  BY DEF IInv, ChannelInv, RelayTypes
<1> QED  BY <1>1, <1>2, <1>3, PTL DEF RelaySpec

(* What is proved of the relay client and of the channel holds when they    *)
(* are next to each other.                                                  *)
THEOREM RelayIsSafe ==
  RelaySpec => /\ [](/\ OneWriter /\ OneForwarder /\ ClosedHoldsNothing
                     /\ OpenIsRegistered /\ TimerSparesPublisher)
               /\ ImplementsContract
<1>1. RelayInit => Init /\ ChannelInit
  BY DEF RelayInit
<1>2. [RelayNext]_<<part, vars, chVars, registryVars>>
        => [Next]_vars /\ [ChannelNext]_chVars
  BY DEF RelayNext
<1>3. RelaySpec => Spec /\ ChannelSpec
  BY <1>1, <1>2, PTL DEF RelaySpec, Spec, ChannelSpec
<1> QED
  BY <1>3, WritersExclude, ForwardersExclude, ClosingIsComplete,
     ManagerReachesOpen, TimerIsHarmless, ContractHolds, PTL
=============================================================================
