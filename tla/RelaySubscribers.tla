-------------------------- MODULE RelaySubscribers --------------------------
(***************************************************************************)
(* What an open TerminalChannel of the relay does with its subscribers: a  *)
(* browser joins and is sent the buffered output while the forwarding      *)
(* goroutine buffers and broadcasts, either of two goroutines removes a    *)
(* browser whose connection failed, browsers take and release input        *)
(* control, and a keep-alive timer runs while nobody watches               *)
(* (relay/internal/channel/terminal_channel.go).                           *)
(***************************************************************************)
EXTENDS Integers, Sequences, SequencesExt

CONSTANTS
    Browsers,       \* browser connections
    MaxMessages,    \* messages the runner sends (bounds the model)
    BufferCount,    \* OutputBufferCount
    Askers,         \* browsers that ask for input control
    Nobody          \* the empty controllerID

ASSUME BufferAssumption == BufferCount \in Nat \ {0} /\ MaxMessages \in Nat
ASSUME NamesAssumption ==
    /\ {Nobody, "timer", "broadcaster"} \cap Browsers = {}
    /\ Nobody # "timer"

VARIABLES
    subscribers,    \* TerminalChannel.subscribers
    outputBuffer,   \* TerminalChannel.outputBuffer, as message numbers
    controllerID,   \* TerminalChannel.controllerID
    keepAlive,      \* the keep-alive timer runs
    gone,           \* a timeout found no subscribers, and none has joined since
    browser,        \* the goroutine of a browser's connection
    socket,           \* its socket
    replay,         \* buffered messages it has still to be sent
    received,       \* the messages written to it
    missed,         \* messages broadcast before it was inserted
    forwarder,      \* the forwarding goroutine
    sent,           \* messages received from the runner
    targets,        \* Broadcast's copy of subscribers, not yet written to
    failedIDs,      \* Broadcast's failedIDs
    removing,       \* what a remover has still to do in RemoveSubscriber
    last            \* whether it removed the last subscriber (count == 0)

Broadcaster == "broadcaster"
Removers == Browsers \cup {Broadcaster}

joinVars == <<replay, received, missed>>
forwardVars == <<forwarder, sent, targets, failedIDs>>
removeVars == <<removing, last>>
sbVars == <<subscribers, outputBuffer, controllerID, keepAlive, gone, browser,
            socket, joinVars, forwardVars, removeVars>>

WatchInit ==
    /\ subscribers = {} /\ outputBuffer = <<>>
    /\ controllerID = Nobody
    /\ keepAlive = FALSE /\ gone = FALSE
    /\ browser = [b \in Browsers |-> "new"]
    /\ socket = [b \in Browsers |-> "open"]
    /\ replay = [b \in Browsers |-> <<>>]
    /\ received = [b \in Browsers |-> {}]
    /\ missed = [b \in Browsers |-> 0]
    /\ forwarder = "reading" /\ sent = 0 /\ targets = {} /\ failedIDs = {}
    /\ removing = [a \in Removers |-> Nobody]
    /\ last = [a \in Removers |-> FALSE]

-----------------------------------------------------------------------------
(* addSubscriberInternal: the browser is inserted and the keep-alive timer  *)
(* stopped, then the buffer is copied, then the copy is written.            *)
Broadcasted == IF forwarder \in {"cleared", "buffered"} THEN sent - 1 ELSE sent

Insert(b) ==
    /\ browser[b] = "new"
    /\ subscribers' = subscribers \cup {b}
    /\ keepAlive' = FALSE
    /\ gone' = FALSE
    /\ missed' = [missed EXCEPT ![b] = Broadcasted]
    /\ browser' = [browser EXCEPT ![b] = "inserted"]
    /\ UNCHANGED <<outputBuffer, controllerID, socket, replay, received,
                   forwardVars, removeVars>>

CopyBuffer(b) ==
    /\ browser[b] = "inserted"
    /\ replay' = [replay EXCEPT ![b] = outputBuffer]
    /\ browser' = [browser EXCEPT ![b] = "replaying"]
    /\ UNCHANGED <<subscribers, outputBuffer, controllerID, keepAlive, gone,
                   socket, received, missed, forwardVars, removeVars>>

Replay(b) ==
    /\ browser[b] = "replaying"
    /\ \/ /\ replay[b] # <<>> /\ socket[b] = "open"
          /\ received' = [received EXCEPT ![b] = @ \cup {Head(replay[b])}]
          /\ replay' = [replay EXCEPT ![b] = Tail(@)]
          /\ UNCHANGED browser
       \/ /\ replay[b] = <<>> \/ socket[b] # "open"
          /\ browser' = [browser EXCEPT
                ![b] = IF b \in subscribers THEN "reading" ELSE "done"]
          /\ replay' = [replay EXCEPT ![b] = <<>>]
          /\ UNCHANGED received
    /\ UNCHANGED <<subscribers, outputBuffer, controllerID, keepAlive, gone,
                   socket, missed, forwardVars, removeVars>>

-----------------------------------------------------------------------------
(* Mutant: one message more than the limit is kept.                         *)
BufferOneMore(m) ==
    \/ \E n \in 1..Len(outputBuffer) + 1 :
        /\ Len(outputBuffer) - n < BufferCount
        /\ outputBuffer' = Append(SubSeq(outputBuffer, n, Len(outputBuffer)), m)
    \/ outputBuffer' = <<>>

(* The forwarding goroutine: output is buffered, evicting the oldest        *)
(* messages, as many as the limits on count and size demand; a message that *)
(* is larger than the buffer evicts all and is not kept.  A snapshot first  *)
(* clears the buffer, in a critical section of its own.                     *)
BufferOutput(m) ==
    \/ \E n \in 1..Len(outputBuffer) + 1 :
        /\ Len(outputBuffer) - n + 1 < BufferCount
        /\ outputBuffer' = Append(SubSeq(outputBuffer, n, Len(outputBuffer)), m)
    \/ outputBuffer' = <<>>

ReceiveOutput ==
    /\ forwarder = "reading" /\ sent < MaxMessages
    /\ sent' = sent + 1
    /\ BufferOutput(sent + 1)
    /\ forwarder' = "buffered"
    /\ UNCHANGED <<subscribers, controllerID, keepAlive, gone, browser, socket,
                   joinVars, targets, failedIDs, removeVars>>

ReceiveSnapshot ==
    /\ forwarder = "reading" /\ sent < MaxMessages
    /\ sent' = sent + 1
    /\ outputBuffer' = <<>>
    /\ forwarder' = "cleared"
    /\ UNCHANGED <<subscribers, controllerID, keepAlive, gone, browser, socket,
                   joinVars, targets, failedIDs, removeVars>>

BufferSnapshot ==
    /\ forwarder = "cleared"
    /\ BufferOutput(sent)
    /\ forwarder' = "buffered"
    /\ UNCHANGED <<subscribers, controllerID, keepAlive, gone, browser, socket,
                   joinVars, sent, targets, failedIDs, removeVars>>

(* Broadcast: subscribers are copied under the lock, written to outside it, *)
(* and those that failed are removed.                                       *)
BroadcastBegins ==
    /\ forwarder = "buffered"
    /\ targets' = subscribers
    /\ forwarder' = "writing"
    /\ UNCHANGED <<subscribers, outputBuffer, controllerID, keepAlive, gone,
                   browser, socket, joinVars, sent, failedIDs, removeVars>>

(* Mutant: a browser that is still being sent the buffer is skipped.        *)
BroadcastSkips(b) ==
    /\ forwarder = "writing" /\ b \in targets
    /\ targets' = targets \ {b}
    /\ \/ /\ socket[b] = "open"
          /\ received' = [received EXCEPT
                ![b] = IF browser[b] = "replaying" THEN @ ELSE @ \cup {sent}]
          /\ UNCHANGED failedIDs
       \/ /\ socket[b] # "open"
          /\ failedIDs' = failedIDs \cup {b}
          /\ UNCHANGED received
    /\ UNCHANGED <<subscribers, outputBuffer, controllerID, keepAlive, gone,
                   browser, socket, replay, missed, forwarder, sent, removeVars>>

BroadcastTo(b) ==
    /\ forwarder = "writing" /\ b \in targets
    /\ targets' = targets \ {b}
    /\ \/ /\ socket[b] = "open"
          /\ received' = [received EXCEPT ![b] = @ \cup {sent}]
          /\ UNCHANGED failedIDs
       \/ /\ socket[b] # "open"
          /\ failedIDs' = failedIDs \cup {b}
          /\ UNCHANGED received
    /\ UNCHANGED <<subscribers, outputBuffer, controllerID, keepAlive, gone,
                   browser, socket, replay, missed, forwarder, sent, removeVars>>

BroadcastEnds ==
    /\ forwarder = "writing" /\ targets = {} /\ failedIDs = {}
    /\ removing[Broadcaster] = Nobody
    /\ forwarder' = "reading"
    /\ UNCHANGED <<subscribers, outputBuffer, controllerID, keepAlive, gone,
                   browser, socket, joinVars, sent, targets, failedIDs,
                   removeVars>>

-----------------------------------------------------------------------------
(* RemoveSubscriber, first critical section; nothing for a browser that is  *)
(* no longer there.                                                         *)
Delete(a, b) ==
    /\ removing[a] = Nobody
    /\ subscribers' = subscribers \ {b}
    /\ socket' = [socket EXCEPT ![b] = IF b \in subscribers THEN "closed" ELSE @]
    /\ removing' = [removing EXCEPT ![a] = IF b \in subscribers THEN b ELSE Nobody]
    /\ last' = [last EXCEPT ![a] = subscribers = {b}]

ReaderRemoves(b) ==
    /\ browser[b] = "reading" /\ socket[b] # "open"
    /\ Delete(b, b)
    /\ browser' = [browser EXCEPT ![b] = "done"]
    /\ UNCHANGED <<outputBuffer, controllerID, keepAlive, gone, joinVars,
                   forwardVars>>

BroadcastRemoves(b) ==
    /\ forwarder = "writing" /\ targets = {} /\ b \in failedIDs
    /\ Delete(Broadcaster, b)
    /\ failedIDs' = failedIDs \ {b}
    /\ UNCHANGED <<outputBuffer, controllerID, keepAlive, gone, browser,
                   joinVars, forwarder, sent, targets>>

(* Then control is released, and the last one to leave starts the           *)
(* keep-alive timer unless somebody has joined.                             *)
Release(a) ==
    /\ removing[a] \notin {Nobody, "timer"}
    /\ controllerID' = IF controllerID = removing[a] THEN Nobody ELSE controllerID
    /\ removing' = [removing EXCEPT ![a] = IF last[a] THEN "timer" ELSE Nobody]
    /\ UNCHANGED <<subscribers, outputBuffer, keepAlive, gone, browser, socket,
                   joinVars, forwardVars, last>>

(* Mutant: the timer starts although somebody has joined.                   *)
StartTimerAlways(a) ==
    /\ removing[a] = "timer"
    /\ keepAlive' = TRUE
    /\ removing' = [removing EXCEPT ![a] = Nobody]
    /\ UNCHANGED <<subscribers, outputBuffer, controllerID, gone, browser,
                   socket, joinVars, forwardVars, last>>

StartTimer(a) ==
    /\ removing[a] = "timer"
    /\ keepAlive' = (keepAlive \/ subscribers = {})
    /\ removing' = [removing EXCEPT ![a] = Nobody]
    /\ UNCHANGED <<subscribers, outputBuffer, controllerID, gone, browser,
                   socket, joinVars, forwardVars, last>>

(* The timer's callback tells the backend if there is still nobody.         *)
KeepAliveTimeout ==
    /\ keepAlive
    /\ keepAlive' = FALSE
    /\ gone' = (gone \/ subscribers = {})
    /\ UNCHANGED <<subscribers, outputBuffer, controllerID, browser, socket,
                   joinVars, forwardVars, removeVars>>

-----------------------------------------------------------------------------
(* forwardSubscriberToPublisher: a control message is read, then handled,   *)
(* by subscriber id, whether or not the subscriber is still there.          *)
ReadControl(b, action) ==
    /\ b \in Askers
    /\ browser[b] = "reading" /\ socket[b] = "open"
    /\ browser' = [browser EXCEPT ![b] = action]
    /\ UNCHANGED <<subscribers, outputBuffer, controllerID, keepAlive, gone,
                   socket, joinVars, forwardVars, removeVars>>

RequestControl(b) ==
    /\ browser[b] = "request"
    /\ controllerID' = IF controllerID = Nobody THEN b ELSE controllerID
    /\ browser' = [browser EXCEPT ![b] = "reading"]
    /\ UNCHANGED <<subscribers, outputBuffer, keepAlive, gone, socket, joinVars,
                   forwardVars, removeVars>>

ReleaseControl(b) ==
    /\ browser[b] = "release"
    /\ controllerID' = IF controllerID = b THEN Nobody ELSE controllerID
    /\ browser' = [browser EXCEPT ![b] = "reading"]
    /\ UNCHANGED <<subscribers, outputBuffer, keepAlive, gone, socket, joinVars,
                   forwardVars, removeVars>>

Break(b) ==
    /\ socket[b] = "open" /\ browser[b] # "new"
    /\ socket' = [socket EXCEPT ![b] = "broken"]
    /\ UNCHANGED <<subscribers, outputBuffer, controllerID, keepAlive, gone,
                   browser, joinVars, forwardVars, removeVars>>

-----------------------------------------------------------------------------
BrowserStep(b) ==
    \/ CopyBuffer(b) \/ Replay(b) \/ ReaderRemoves(b) \/ RequestControl(b)
    \/ ReleaseControl(b)
ForwarderStep ==
    \/ BufferSnapshot \/ BroadcastBegins \/ BroadcastEnds
    \/ \E b \in Browsers : BroadcastTo(b) \/ BroadcastRemoves(b)
RemoverStep(a) == Release(a) \/ StartTimer(a)

WatchNext ==
    \/ \E b \in Browsers :
        \/ Insert(b) \/ BrowserStep(b) \/ Break(b)
        \/ ReadControl(b, "request") \/ ReadControl(b, "release")
    \/ ReceiveOutput \/ ReceiveSnapshot \/ ForwarderStep
    \/ \E a \in Removers : RemoverStep(a)
    \/ KeepAliveTimeout

WatchSpec == WatchInit /\ [][WatchNext]_sbVars

-----------------------------------------------------------------------------
(* The type of every variable.                                              *)
WatchTypeOK ==
    /\ subscribers \in SUBSET Browsers
    /\ outputBuffer \in Seq(1..MaxMessages) /\ Len(outputBuffer) <= BufferCount
    /\ controllerID \in Browsers \cup {Nobody}
    /\ keepAlive \in BOOLEAN /\ gone \in BOOLEAN
    /\ browser \in [Browsers -> {"new", "inserted", "replaying", "reading",
                                 "request", "release", "done"}]
    /\ socket \in [Browsers -> {"open", "broken", "closed"}]
    /\ replay \in [Browsers -> Seq(1..MaxMessages)]
    /\ received \in [Browsers -> SUBSET (1..MaxMessages)]
    /\ missed \in [Browsers -> 0..MaxMessages]
    /\ forwarder \in {"reading", "cleared", "buffered", "writing"}
    /\ sent \in 0..MaxMessages
    /\ targets \in SUBSET Browsers /\ failedIDs \in SUBSET Browsers
    /\ removing \in [Removers -> Browsers \cup {Nobody, "timer"}]
    /\ last \in [Removers -> BOOLEAN]

(* Joining leaves no gap: a browser that has been sent the buffer and whose *)
(* connection works has, whenever the forwarding goroutine is between two   *)
(* messages, everything the buffer holds and everything broadcast since it  *)
(* was inserted, although the buffer is copied, evicted and replaced by a   *)
(* snapshot meanwhile (addSubscriberInternal against bufferOutput,          *)
(* clearOutputBuffer and Broadcast).                                        *)
JoinLeavesNoGap ==
    \A b \in subscribers :
        browser[b] \in {"reading", "request", "release"} /\ socket[b] = "open"
            /\ forwarder = "reading" =>
                ToSet(outputBuffer) \cup (missed[b] + 1)..sent \subseteq received[b]

(* The keep-alive timer runs only while nobody watches, and when the last   *)
(* browser has been removed it runs or has run out.                         *)
KeepAliveMatchesSubscribers ==
    /\ keepAlive => subscribers = {}
    /\ (subscribers = {} /\ \A a \in Removers : removing[a] = Nobody)
        => keepAlive \/ gone \/ \A b \in Browsers : browser[b] = "new"
=============================================================================
