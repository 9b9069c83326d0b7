---------------------------- MODULE RelayChannel ----------------------------
(***************************************************************************)
(* The relay server's channel of one pod: ChannelManager, which pairs the  *)
(* runner's connection (publisher) with the browsers' (subscribers), and   *)
(* the life of a TerminalChannel: replacement of the publisher, the        *)
(* forwarding goroutine, the reconnect timer and closing                   *)
(* (relay/internal/channel).  What the channel carries is in               *)
(* RelaySubscribers.                                                       *)
(*                                                                         *)
(* A member of Pubs or Subs is one connection with the goroutine of its    *)
(* handler; a member of Chans is a TerminalChannel object.                 *)
(***************************************************************************)
EXTENDS Integers, FiniteSets

CONSTANTS
    Pubs, Subs, Chans,
    MaxSubscribers,     \* MaxSubscribersPerPod
    None                \* nil

ASSUME NamesAssumption ==
    /\ None \notin Pubs \cup Subs \cup Chans \cup {"timer", "manager"}
    /\ {"timer", "manager"} \cap Pubs = {}

VARIABLES
    channel,            \* the manager's channel of the pod
    pendingPub,         \* pendingPublishers
    pendingSub,         \* pendingSubscribers
    created,            \* channels made so far
    managerOpen,        \* ChannelManager.Close has not run
    closed,             \* TerminalChannel.closed
    publisher,          \* TerminalChannel.publisher
    epoch,              \* TerminalChannel.publisherEpoch
    disconnected,       \* TerminalChannel.publisherDisconnected
    timer,              \* the reconnect timer runs
    fired,              \* callbacks of reconnect timers that wait for replaceMu
    replaceMu,          \* the goroutine that holds publisherReplaceMu
    closing,            \* progress of closeInternal
    members,            \* TerminalChannel.subscribers
    pubPc, pubChan, pubConn, old,   \* a publisher's SetPublisher and socket
    fwd, fwdEpoch,                  \* its forwarding goroutine
    subPc, subChan, after           \* a subscriber; the SetPublisher before it

managerVars == <<channel, pendingPub, pendingSub, created, managerOpen>>
chanVars == <<closed, publisher, epoch, disconnected, timer, fired, replaceMu,
              closing>>
pubVars == <<pubPc, pubChan, pubConn, old, fwd, fwdEpoch>>
subVars == <<members, subPc, subChan, after>>
chVars == <<managerVars, chanVars, pubVars, subVars>>

ChannelInit ==
    /\ channel = None /\ pendingPub = None /\ pendingSub = None
    /\ created = {} /\ managerOpen = TRUE
    /\ closed = [c \in Chans |-> FALSE]
    /\ publisher = [c \in Chans |-> None]
    /\ epoch = [c \in Chans |-> 0]
    /\ disconnected = [c \in Chans |-> FALSE]
    /\ timer = [c \in Chans |-> FALSE]
    /\ fired = [c \in Chans |-> 0]
    /\ replaceMu = [c \in Chans |-> None]
    /\ closing = [c \in Chans |-> "no"]
    /\ members = [c \in Chans |-> {}]
    /\ pubPc = [p \in Pubs |-> "new"]
    /\ pubChan = [p \in Pubs |-> None]
    /\ pubConn = [p \in Pubs |-> "open"]
    /\ old = [p \in Pubs |-> None]
    /\ fwd = [p \in Pubs |-> "none"]
    /\ fwdEpoch = [p \in Pubs |-> 0]
    /\ subPc = [s \in Subs |-> "new"]
    /\ subChan = [s \in Subs |-> None]
    /\ after = [s \in Subs |-> None]

-----------------------------------------------------------------------------
(* HandlePublisherConnect, under the manager's lock: the publisher joins    *)
(* the pod's channel, makes one with a waiting subscriber, or waits, in     *)
(* which case a publisher that waited before it is closed.                  *)
PublisherConnects(p) ==
    /\ managerOpen /\ pubPc[p] = "new"
    /\ \/ /\ channel # None
          /\ pubPc' = [pubPc EXCEPT ![p] = "set"]
          /\ pubChan' = [pubChan EXCEPT ![p] = channel]
          /\ UNCHANGED <<channel, pendingPub, pendingSub, created, pubConn,
                         subPc, subChan, after>>
       \/ /\ channel = None /\ pendingSub # None
          /\ \E c \in Chans \ created :
                /\ created' = created \cup {c}
                /\ channel' = c
                /\ pubPc' = [pubPc EXCEPT ![p] = "set"]
                /\ pubChan' = [pubChan EXCEPT ![p] = c]
                /\ subPc' = [subPc EXCEPT ![pendingSub] = "add"]
                /\ subChan' = [subChan EXCEPT ![pendingSub] = c]
                /\ after' = [after EXCEPT ![pendingSub] = p]
          /\ pendingSub' = None
          /\ UNCHANGED <<pendingPub, pubConn>>
       \/ /\ channel = None /\ pendingSub = None
          /\ pendingPub' = p
          /\ pubPc' = [q \in Pubs |-> IF q = p THEN "pending"
                                      ELSE IF q = pendingPub THEN "done" ELSE pubPc[q]]
          /\ pubConn' = [q \in Pubs |-> IF q = pendingPub THEN "closed" ELSE pubConn[q]]
          /\ UNCHANGED <<channel, pendingSub, created, pubChan, subPc, subChan,
                         after>>
    /\ UNCHANGED <<managerOpen, chanVars, old, fwd, fwdEpoch, members>>

(* HandleSubscriberConnect.  Where it makes the channel, SetPublisher runs  *)
(* first and AddSubscriber after it, without a limit.                       *)
SubscriberConnects(s) ==
    /\ managerOpen /\ subPc[s] = "new"
    /\ \/ /\ channel # None
          /\ subPc' = [subPc EXCEPT ![s] = "add"]
          /\ subChan' = [subChan EXCEPT ![s] = channel]
          /\ UNCHANGED <<channel, pendingPub, pendingSub, created, pubPc,
                         pubChan, after>>
       \/ /\ channel = None /\ pendingPub # None
          /\ \E c \in Chans \ created :
                /\ created' = created \cup {c}
                /\ channel' = c
                /\ pubPc' = [pubPc EXCEPT ![pendingPub] = "set"]
                /\ pubChan' = [pubChan EXCEPT ![pendingPub] = c]
                /\ subPc' = [subPc EXCEPT ![s] = "add"]
                /\ subChan' = [subChan EXCEPT ![s] = c]
                /\ after' = [after EXCEPT ![s] = pendingPub]
          /\ pendingPub' = None
          /\ UNCHANGED pendingSub
       \/ /\ channel = None /\ pendingPub = None
          /\ pendingSub' = s
          /\ subPc' = [t \in Subs |-> IF t = s THEN "pending"
                                      ELSE IF t = pendingSub THEN "gone" ELSE subPc[t]]
          /\ UNCHANGED <<channel, pendingPub, created, pubPc, pubChan, subChan,
                         after>>
    /\ UNCHANGED <<managerOpen, chanVars, pubConn, old, fwd, fwdEpoch, members>>

(* cleanupPendingConnections closes connections that waited too long.       *)
CleanupPending ==
    /\ \/ /\ pendingPub # None
          /\ pubPc' = [pubPc EXCEPT ![pendingPub] = "done"]
          /\ pubConn' = [pubConn EXCEPT ![pendingPub] = "closed"]
          /\ pendingPub' = None
          /\ UNCHANGED <<pendingSub, subPc>>
       \/ /\ pendingSub # None
          /\ subPc' = [subPc EXCEPT ![pendingSub] = "gone"]
          /\ pendingSub' = None
          /\ UNCHANGED <<pendingPub, pubPc, pubConn>>
    /\ UNCHANGED <<channel, created, managerOpen, chanVars, pubChan, old, fwd,
                   fwdEpoch, members, subChan, after>>

-----------------------------------------------------------------------------
(* Mutant: closed is not checked.                                           *)
SetPublisherUnchecked(p) ==
    LET c == pubChan[p]
    IN  /\ pubPc[p] = "set"
        /\ replaceMu[c] = None
        /\ publisher' = [publisher EXCEPT ![c] = p]
        /\ old' = [old EXCEPT ![p] = publisher[c]]
        /\ epoch' = [epoch EXCEPT ![c] = @ + 1]
        /\ fwdEpoch' = [fwdEpoch EXCEPT ![p] = epoch[c] + 1]
        /\ disconnected' = [disconnected EXCEPT ![c] = FALSE]
        /\ timer' = [timer EXCEPT ![c] = FALSE]
        /\ replaceMu' = [replaceMu EXCEPT ![c] = p]
        /\ pubPc' = [pubPc EXCEPT ![p] = "replace"]
        /\ UNCHANGED <<managerVars, closed, fired, closing, pubChan, pubConn,
                       fwd, subVars>>

(* SetPublisher, with publisherReplaceMu: a closed channel closes the new   *)
(* connection; else publisher and epoch change under publisherMu and the    *)
(* reconnect timer is stopped.                                              *)
SetPublisher(p) ==
    LET c == pubChan[p]
    IN  /\ pubPc[p] = "set"
        /\ replaceMu[c] = None
        /\ \/ /\ closed[c]
              /\ pubConn' = [pubConn EXCEPT ![p] = "closed"]
              /\ pubPc' = [pubPc EXCEPT ![p] = "done"]
              /\ UNCHANGED <<publisher, epoch, disconnected, timer, replaceMu,
                             old, fwdEpoch>>
           \/ /\ ~closed[c]
              /\ publisher' = [publisher EXCEPT ![c] = p]
              /\ old' = [old EXCEPT ![p] = publisher[c]]
              /\ epoch' = [epoch EXCEPT ![c] = @ + 1]
              /\ fwdEpoch' = [fwdEpoch EXCEPT ![p] = epoch[c] + 1]
              /\ disconnected' = [disconnected EXCEPT ![c] = FALSE]
              /\ timer' = [timer EXCEPT ![c] = FALSE]
              /\ replaceMu' = [replaceMu EXCEPT ![c] = p]
              /\ pubPc' = [pubPc EXCEPT ![p] = "replace"]
              /\ UNCHANGED pubConn
        /\ UNCHANGED <<managerVars, closed, fired, closing, pubChan, fwd,
                       subVars>>

(* Mutant: the old connection is left open.                                 *)
KeepOld(p) ==
    /\ pubPc[p] = "replace"
    /\ pubPc' = [pubPc EXCEPT ![p] = "wait"]
    /\ UNCHANGED <<managerVars, chanVars, pubChan, pubConn, old, fwd,
                   fwdEpoch, subVars>>

CloseOld(p) ==
    /\ pubPc[p] = "replace"
    /\ pubConn' = [q \in Pubs |-> IF q = old[p] THEN "closed" ELSE pubConn[q]]
    /\ pubPc' = [pubPc EXCEPT ![p] = "wait"]
    /\ UNCHANGED <<managerVars, chanVars, pubChan, old, fwd, fwdEpoch, subVars>>

Forwarding == {"starting", "reading", "failed", "leaving"}
Forwarders(c) == {p \in Pubs : pubChan[p] = c /\ fwd[p] \in Forwarding}

(* Mutant: the old forwarding goroutine is not awaited.                     *)
StartWithoutWait(p) ==
    LET c == pubChan[p]
    IN  /\ pubPc[p] = "wait"
        /\ fwd' = [fwd EXCEPT ![p] = "starting"]
        /\ replaceMu' = [replaceMu EXCEPT ![c] = None]
        /\ pubPc' = [pubPc EXCEPT ![p] = "done"]
        /\ UNCHANGED <<managerVars, closed, publisher, epoch, disconnected,
                       timer, fired, closing, pubChan, pubConn, old, fwdEpoch,
                       subVars>>

(* publisherWg.Wait returns; the new forwarding goroutine is started.       *)
StartForwarding(p) ==
    LET c == pubChan[p]
    IN  /\ pubPc[p] = "wait"
        /\ Forwarders(c) = {}
        /\ fwd' = [fwd EXCEPT ![p] = "starting"]
        /\ replaceMu' = [replaceMu EXCEPT ![c] = None]
        /\ pubPc' = [pubPc EXCEPT ![p] = "done"]
        /\ UNCHANGED <<managerVars, closed, publisher, epoch, disconnected,
                       timer, fired, closing, pubChan, pubConn, old, fwdEpoch,
                       subVars>>

-----------------------------------------------------------------------------
(* forwardPublisherToSubscribers: a goroutine that is stale when it starts  *)
(* returns at once.                                                         *)
IsCurrent(p) ==
    publisher[pubChan[p]] = p /\ epoch[pubChan[p]] = fwdEpoch[p]

Forward(p, from, to) ==
    /\ fwd[p] = from
    /\ fwd' = [fwd EXCEPT ![p] = to]
    /\ UNCHANGED <<managerVars, pubPc, pubChan, old, fwdEpoch, subVars>>

ForwardBegins(p) ==
    /\ Forward(p, "starting", IF IsCurrent(p) THEN "reading" ELSE "none")
    /\ UNCHANGED <<chanVars, pubConn>>

ForwardFails(p) ==
    /\ Forward(p, "reading", "failed")
    /\ pubConn[p] # "open"
    /\ UNCHANGED <<chanVars, pubConn>>

(* Mutant: no reconnect timer is started.                                   *)
DisconnectWithoutTimer(p) ==
    LET c == pubChan[p]
    IN  /\ Forward(p, "failed", "leaving")
        /\ publisher' = [publisher EXCEPT ![c] = IF IsCurrent(p) THEN None ELSE @]
        /\ disconnected' = [disconnected EXCEPT ![c] = @ \/ IsCurrent(p)]
        /\ pubConn' = [pubConn EXCEPT ![p] = IF IsCurrent(p) THEN "closed" ELSE @]
        /\ UNCHANGED <<timer, closed, epoch, fired, replaceMu, closing>>

(* handlePublisherDisconnect under publisherMu: nothing happens if the      *)
(* publisher has been replaced, else the channel is without one and the     *)
(* reconnect timer starts.  The broadcast that follows precedes wg.Done.    *)
HandleDisconnect(p) ==
    LET c == pubChan[p]
    IN  /\ Forward(p, "failed", "leaving")
        /\ publisher' = [publisher EXCEPT ![c] = IF IsCurrent(p) THEN None ELSE @]
        /\ disconnected' = [disconnected EXCEPT ![c] = @ \/ IsCurrent(p)]
        /\ timer' = [timer EXCEPT ![c] = @ \/ IsCurrent(p)]
        /\ pubConn' = [pubConn EXCEPT ![p] = IF IsCurrent(p) THEN "closed" ELSE @]
        /\ UNCHANGED <<closed, epoch, fired, replaceMu, closing>>

ForwardReturns(p) ==
    /\ Forward(p, "leaving", "none")
    /\ UNCHANGED <<chanVars, pubConn>>

PublisherBreaks(p) ==
    /\ pubConn[p] = "open"
    /\ pubConn' = [pubConn EXCEPT ![p] = "broken"]
    /\ UNCHANGED <<managerVars, chanVars, pubPc, pubChan, old, fwd, fwdEpoch,
                   subVars>>

-----------------------------------------------------------------------------
(* The reconnect timer fires; from here on Stop cannot hold it back.        *)
TimerFires(c) ==
    /\ timer[c]
    /\ timer' = [timer EXCEPT ![c] = FALSE]
    /\ fired' = [fired EXCEPT ![c] = @ + 1]
    /\ UNCHANGED <<managerVars, closed, publisher, epoch, disconnected,
                   replaceMu, closing, pubVars, subVars>>

(* closeInternal starts, for the goroutine that takes publisherReplaceMu.   *)
BeginClose(c, who) ==
    /\ closed' = [closed EXCEPT ![c] = TRUE]
    /\ closing' = [closing EXCEPT ![c] = "publisher"]
    /\ replaceMu' = [replaceMu EXCEPT ![c] = who]

(* Mutant: the callback does not look whether the publisher is back.        *)
ReconnectUnchecked(c) ==
    /\ fired[c] > 0
    /\ replaceMu[c] = None
    /\ fired' = [fired EXCEPT ![c] = @ - 1]
    /\ IF ~closed[c] THEN BeginClose(c, "timer")
       ELSE UNCHANGED <<closed, closing, replaceMu>>
    /\ UNCHANGED <<managerVars, publisher, epoch, disconnected, timer,
                   pubVars, subVars>>

(* Its callback, with publisherReplaceMu: the channel is closed if the      *)
(* publisher is still away.                                                 *)
ReconnectTimeout(c) ==
    /\ fired[c] > 0
    /\ replaceMu[c] = None
    /\ fired' = [fired EXCEPT ![c] = @ - 1]
    /\ IF disconnected[c] /\ ~closed[c] THEN BeginClose(c, "timer")
       ELSE UNCHANGED <<closed, closing, replaceMu>>
    /\ UNCHANGED <<managerVars, publisher, epoch, disconnected, timer,
                   pubVars, subVars>>

(* ChannelManager.Close at the end of gracefulShutdown: the waiting         *)
(* connections are closed and the channel is taken out of the map, then     *)
(* closed.  acceptingConnections is cleared long before; a handler that     *)
(* has found it set by then still connects in the meantime, so the flag     *)
(* keeps no step back and needs no variable.                                *)
Shutdown ==
    /\ managerOpen
    /\ managerOpen' = FALSE
    /\ pubPc' = [p \in Pubs |-> IF p = pendingPub THEN "done" ELSE pubPc[p]]
    /\ pubConn' = [p \in Pubs |-> IF p = pendingPub THEN "closed" ELSE pubConn[p]]
    /\ subPc' = [s \in Subs |-> IF s = pendingSub THEN "gone" ELSE subPc[s]]
    /\ pendingPub' = None /\ pendingSub' = None
    /\ channel' = None
    /\ UNCHANGED <<created, chanVars, pubChan, old, fwd, fwdEpoch, members,
                   subChan, after>>

ManagerCloses(c) ==
    /\ ~managerOpen
    /\ c \in created /\ ~closed[c]
    /\ replaceMu[c] = None
    /\ BeginClose(c, "manager")
    /\ UNCHANGED <<managerVars, publisher, epoch, disconnected, timer, fired,
                   pubVars, subVars>>

(* The timer is stopped and the publisher closed, under publisherMu.        *)
ClosePublisher(c) ==
    /\ closing[c] = "publisher"
    /\ timer' = [timer EXCEPT ![c] = FALSE]
    /\ pubConn' = [p \in Pubs |-> IF p = publisher[c] THEN "closed" ELSE pubConn[p]]
    /\ publisher' = [publisher EXCEPT ![c] = None]
    /\ closing' = [closing EXCEPT ![c] = "wait"]
    /\ UNCHANGED <<managerVars, closed, epoch, disconnected, fired, replaceMu,
                   pubPc, pubChan, old, fwd, fwdEpoch, subVars>>

(* The forwarding goroutine has returned: the subscribers are closed.       *)
CloseSubscribers(c) ==
    /\ closing[c] = "wait"
    /\ Forwarders(c) = {}
    /\ subPc' = [s \in Subs |-> IF s \in members[c] THEN "gone" ELSE subPc[s]]
    /\ members' = [members EXCEPT ![c] = {}]
    /\ closing' = [closing EXCEPT ![c] = "notify"]
    /\ UNCHANGED <<managerVars, closed, publisher, epoch, disconnected, timer,
                   fired, replaceMu, pubVars, subChan, after>>

(* Mutant: the map entry stays.                                             *)
CloseKeepsEntry(c) ==
    /\ closing[c] = "notify"
    /\ closing' = [closing EXCEPT ![c] = "done"]
    /\ replaceMu' = [replaceMu EXCEPT ![c] = None]
    /\ UNCHANGED <<managerVars, closed, publisher, epoch, disconnected, timer,
                   fired, pubVars, subVars>>

(* onChannelClosed deletes the pod's entry, whichever channel it names.     *)
OnChannelClosed(c) ==
    /\ closing[c] = "notify"
    /\ channel' = None
    /\ closing' = [closing EXCEPT ![c] = "done"]
    /\ replaceMu' = [replaceMu EXCEPT ![c] = None]
    /\ UNCHANGED <<pendingPub, pendingSub, created, managerOpen, closed,
                   publisher, epoch, disconnected, timer, fired, pubVars,
                   subVars>>

-----------------------------------------------------------------------------
(* addSubscriberInternal under subscribersMu.  A subscriber that is not     *)
(* admitted is closed.                                                      *)
AddSubscriber(s) ==
    LET c == subChan[s]
        full == after[s] = None /\ Cardinality(members[c]) >= MaxSubscribers
    IN  /\ subPc[s] = "add"
        /\ after[s] # None => pubPc[after[s]] = "done"
        /\ \/ /\ closed[c] \/ full
              /\ subPc' = [subPc EXCEPT ![s] = "gone"]
              /\ UNCHANGED members
           \/ /\ ~(closed[c] \/ full)
              /\ subPc' = [subPc EXCEPT ![s] = "member"]
              /\ members' = [members EXCEPT ![c] = @ \cup {s}]
        /\ UNCHANGED <<managerVars, chanVars, pubVars, subChan, after>>

RemoveSubscriber(s) ==
    /\ subPc[s] = "member"
    /\ subPc' = [subPc EXCEPT ![s] = "gone"]
    /\ members' = [members EXCEPT ![subChan[s]] = @ \ {s}]
    /\ UNCHANGED <<managerVars, chanVars, pubVars, subChan, after>>

-----------------------------------------------------------------------------
SetterStep(p) == SetPublisher(p) \/ CloseOld(p) \/ StartForwarding(p)
ForwarderStep(p) ==
    ForwardBegins(p) \/ ForwardFails(p) \/ HandleDisconnect(p) \/ ForwardReturns(p)
ClosingStep(c) ==
    \/ TimerFires(c) \/ ReconnectTimeout(c) \/ ManagerCloses(c)
    \/ ClosePublisher(c) \/ CloseSubscribers(c) \/ OnChannelClosed(c)

ChannelNext ==
    \/ \E p \in Pubs :
        PublisherConnects(p) \/ SetterStep(p) \/ ForwarderStep(p) \/ PublisherBreaks(p)
    \/ \E s \in Subs :
        SubscriberConnects(s) \/ AddSubscriber(s) \/ RemoveSubscriber(s)
    \/ \E c \in Chans : ClosingStep(c)
    \/ CleanupPending \/ Shutdown

ChannelSpec == ChannelInit /\ [][ChannelNext]_chVars

(* Goroutines that can run do run, and timers fire.                         *)
ChannelFairness ==
    /\ \A p \in Pubs : WF_chVars(SetterStep(p)) /\ WF_chVars(ForwarderStep(p))
    /\ \A s \in Subs : WF_chVars(AddSubscriber(s))
    /\ \A c \in Chans : WF_chVars(ClosingStep(c))

-----------------------------------------------------------------------------
(* The type of every variable.                                              *)
ChannelTypeOK ==
    /\ channel \in Chans \cup {None}
    /\ pendingPub \in Pubs \cup {None} /\ pendingSub \in Subs \cup {None}
    /\ created \in SUBSET Chans /\ managerOpen \in BOOLEAN
    /\ closed \in [Chans -> BOOLEAN]
    /\ publisher \in [Chans -> Pubs \cup {None}]
    /\ epoch \in [Chans -> Nat]
    /\ disconnected \in [Chans -> BOOLEAN] /\ timer \in [Chans -> BOOLEAN]
    /\ fired \in [Chans -> Nat]
    /\ replaceMu \in [Chans -> Pubs \cup {None, "timer", "manager"}]
    /\ closing \in [Chans -> {"no", "publisher", "wait", "notify", "done"}]
    /\ members \in [Chans -> SUBSET Subs]
    /\ pubPc \in [Pubs -> {"new", "pending", "set", "replace", "wait", "done"}]
    /\ pubChan \in [Pubs -> Chans \cup {None}]
    /\ pubConn \in [Pubs -> {"open", "broken", "closed"}]
    /\ old \in [Pubs -> Pubs \cup {None}]
    /\ fwd \in [Pubs -> Forwarding \cup {"none"}]
    /\ fwdEpoch \in [Pubs -> Nat]
    /\ subPc \in [Subs -> {"new", "pending", "add", "member", "gone"}]
    /\ subChan \in [Subs -> Chans \cup {None}]
    /\ after \in [Subs -> Pubs \cup {None}]

(* A channel never has two forwarding goroutines (two would interleave the  *)
(* pod's output): SetPublisher and closeInternal wait for the old one.      *)
OneForwarder == \A c \in Chans : Cardinality(Forwarders(c)) <= 1

(* Whatever order publishers, subscribers, timeouts and closing come in, a  *)
(* channel that has been closed holds no connection: its subscribers are    *)
(* gone and the publishers set on it are closed (the checks of closed       *)
(* inside publisherMu and subscribersMu).                                   *)
ClosedHoldsNothing ==
    \A c \in Chans : closing[c] \in {"notify", "done"} =>
        /\ members[c] = {} /\ publisher[c] = None /\ Forwarders(c) = {}
        /\ \A p \in Pubs :
            pubChan[p] = c /\ pubPc[p] # "set" => pubConn[p] # "open"

(* Until it is closed the manager can reach every open channel of the pod:  *)
(* none is shadowed by another or dropped by the callback of an older one,  *)
(* which deletes by pod key; and a closed one is still in the map only      *)
(* while it is being closed, so new connections do not end on it for good.  *)
OpenIsRegistered ==
    managerOpen => \A c \in created :
        IF closing[c] = "done" THEN channel # c ELSE channel = c

(* The reconnect timer closes no channel under a publisher that is back:    *)
(* while it closes one, no connection that is set on it is open, although   *)
(* Stop does not hold back a timer that has fired and several may have      *)
(* (handlePublisherDisconnect's callback against SetPublisher).             *)
TimerSparesPublisher ==
    \A c \in Chans : replaceMu[c] = "timer" =>
        /\ publisher[c] = None
        /\ \A p \in Pubs :
            pubChan[p] = c /\ pubPc[p] # "set" => pubConn[p] # "open"

(* Everyone who takes publisherReplaceMu lets it go: no wait for a          *)
(* forwarding goroutine lasts for ever (SetPublisher, closeInternal).       *)
ReplaceMuIsReleased ==
    \A c \in Chans : replaceMu[c] # None ~> replaceMu[c] = None

(* A channel that lost its publisher gets another or is closed, and then    *)
(* forgotten (handlePublisherDisconnect's timer).                           *)
AbandonedChannelCloses ==
    \A c \in Chans : disconnected[c] ~> ~disconnected[c] \/ closing[c] = "done"
=============================================================================
