----------------------- MODULE RelaySubscribersProofs ------------------------
(***************************************************************************)
(* Proofs about RelaySubscribers, for any number of browsers and messages  *)
(* and any buffer: a browser that joins misses nothing, and the keep-alive *)
(* timer runs exactly when nobody watches.                                 *)
(***************************************************************************)
EXTENDS RelaySubscribers, SequenceTheorems, TLAPS

(* A browser is inserted once; a message that is forwarded was received.    *)
SubscribersAreInserted ==
    /\ \A b \in subscribers : browser[b] # "new"
    /\ forwarder # "reading" => sent > 0

(* The message under way has yet to be written to a browser that is there.  *)
Pending(b) ==
    \/ forwarder \in {"cleared", "buffered"}
    \/ forwarder = "writing" /\ b \in targets

(* What a browser that is there has, or is still to be sent.                *)
Owed(b) ==
    received[b] \cup ToSet(replay[b]) \cup (IF Pending(b) THEN {sent} ELSE {})

(* It has all that was broadcast since it was inserted, but for the message *)
(* under way, and once it has copied the buffer it is owed what the buffer  *)
(* holds.                                                                   *)
Has(b) ==
    /\ (missed[b] + 1)..Broadcasted
        \subseteq received[b] \cup (IF Pending(b) THEN {sent} ELSE {})
    /\ browser[b] # "inserted" => ToSet(outputBuffer) \subseteq Owed(b)

(* The invariant behind JoinLeavesNoGap.                                    *)
NothingIsLost == \A b \in subscribers : socket[b] = "open" => Has(b)

(* Only a browser that is being sent the buffer has some of it left.        *)
ReplayEnds ==
    \A b \in Browsers : browser[b] # "replaying" => replay[b] = <<>>

(* A remover that took the last browser out has still to start the timer.   *)
TimerIsDue(a) == removing[a] = "timer" \/ (removing[a] # Nobody /\ last[a])

LeavingStartsTimer ==
    /\ keepAlive => subscribers = {}
    /\ subscribers = {} =>
        \/ keepAlive \/ gone \/ \A b \in Browsers : browser[b] = "new"
        \/ \E a \in Removers : TimerIsDue(a)

WatchInv ==
    /\ WatchTypeOK /\ SubscribersAreInserted /\ ReplayEnds /\ NothingIsLost
    /\ LeavingStartsTimer

-----------------------------------------------------------------------------
(* The elements of sequences.                                               *)
LEMMA IsElement ==
  ASSUME NEW S, NEW q \in Seq(S), NEW i \in 1..Len(q)
  PROVE  q[i] \in ToSet(q)
  BY DEF ToSet

(* Evicting the oldest and appending one adds nothing else.                 *)
LEMMA ElementsOfAppend ==
  ASSUME NEW S, NEW q \in Seq(S), NEW m \in S, NEW n \in 1..Len(q) + 1
  PROVE  /\ Append(SubSeq(q, n, Len(q)), m) \in Seq(S)
         /\ Len(Append(SubSeq(q, n, Len(q)), m)) = Len(q) - n + 2
         /\ ToSet(Append(SubSeq(q, n, Len(q)), m)) \subseteq ToSet(q) \cup {m}
<1> DEFINE r == SubSeq(q, n, Len(q))
<1>1. r \in Seq(S) /\ Len(r) = Len(q) - n + 1
      /\ \A i \in 1..Len(r) : r[i] = q[n + i - 1]
  OBVIOUS
<1>2. ToSet(r) \subseteq ToSet(q)
  <2> SUFFICES ASSUME NEW i \in 1..Len(r) PROVE r[i] \in ToSet(q)
    BY <1>1 DEF ToSet
  <2> QED  BY <1>1 DEF ToSet
<1>3. Append(r, m) \in Seq(S) /\ Len(Append(r, m)) = Len(r) + 1
      /\ \A i \in 1..Len(r) + 1 : Append(r, m)[i] = IF i <= Len(r) THEN r[i] ELSE m
  BY <1>1
<1>4. ToSet(Append(r, m)) \subseteq ToSet(r) \cup {m}
  <2> SUFFICES ASSUME NEW i \in 1..Len(r) + 1 PROVE Append(r, m)[i] \in ToSet(r) \cup {m}
    BY <1>3 DEF ToSet
  <2>1. CASE i <= Len(r)
    <3>1. i \in 1..Len(r)
      BY <1>1, <2>1
    <3> QED  BY <1>1, <1>3, <3>1, IsElement
  <2>2. CASE ~(i <= Len(r))
    BY <1>3, <2>2
  <2> QED  BY <2>1, <2>2
<1> QED  BY <1>1, <1>2, <1>3, <1>4

(* Taking the head off loses nothing else.                                  *)
LEMMA ElementsOfTail ==
  ASSUME NEW S, NEW q \in Seq(S), q # <<>>
  PROVE  /\ Head(q) \in S /\ Tail(q) \in Seq(S)
         /\ ToSet(q) \subseteq {Head(q)} \cup ToSet(Tail(q))
<1>1. Tail(q) \in Seq(S) /\ Len(Tail(q)) = Len(q) - 1 /\ Len(q) \in Nat \ {0}
      /\ \A i \in 1..Len(q) - 1 : Tail(q)[i] = q[i + 1]
  BY EmptySeq
<1>2. ASSUME NEW i \in 1..Len(q) PROVE q[i] \in {Head(q)} \cup ToSet(Tail(q))
  <2>1. CASE i = 1
    BY <2>1
  <2>2. CASE i # 1
    <3>1. i - 1 \in 1..Len(Tail(q)) /\ q[i] = Tail(q)[i - 1]
      BY <1>1, <2>2
    <3> QED  BY <1>1, <3>1, IsElement
  <2> QED  BY <2>1, <2>2
<1> QED  BY <1>1, <1>2 DEF ToSet

(* The empty sequence has none.                                             *)
LEMMA NoElements == ToSet(<<>>) = {}
  BY DEF ToSet

(* What bufferOutput leaves in the buffer.                                  *)
LEMMA BufferKeepsSome ==
  ASSUME WatchTypeOK, NEW m \in 1..MaxMessages, BufferOutput(m)
  PROVE  /\ outputBuffer' \in Seq(1..MaxMessages) /\ Len(outputBuffer') <= BufferCount
         /\ ToSet(outputBuffer') \subseteq ToSet(outputBuffer) \cup {m}
<1>1. CASE outputBuffer' = <<>>
  BY <1>1, NoElements, BufferAssumption
<1>2. ASSUME NEW n \in 1..Len(outputBuffer) + 1,
             Len(outputBuffer) - n + 1 < BufferCount,
             outputBuffer' = Append(SubSeq(outputBuffer, n, Len(outputBuffer)), m)
      PROVE  /\ outputBuffer' \in Seq(1..MaxMessages) /\ Len(outputBuffer') <= BufferCount
             /\ ToSet(outputBuffer') \subseteq ToSet(outputBuffer) \cup {m}
  <2>1. outputBuffer \in Seq(1..MaxMessages)
    BY DEF WatchTypeOK
  <2> DEFINE q == outputBuffer
  <2>2. q \in Seq(1..MaxMessages) /\ m \in 1..MaxMessages /\ n \in 1..Len(q) + 1
    BY <2>1
  <2>3. outputBuffer' = Append(SubSeq(q, n, Len(q)), m) /\ Len(q) - n + 1 < BufferCount
    BY <1>2
  <2>4. Len(q) \in Nat
    BY <2>1
  <2> HIDE DEF q
  <2>5. /\ Append(SubSeq(q, n, Len(q)), m) \in Seq(1..MaxMessages)
        /\ Len(Append(SubSeq(q, n, Len(q)), m)) = Len(q) - n + 2
        /\ ToSet(Append(SubSeq(q, n, Len(q)), m)) \subseteq ToSet(q) \cup {m}
    BY <2>2, ElementsOfAppend, Zenon
  <2>6. Len(outputBuffer') <= BufferCount
    BY <2>2, <2>3, <2>4, <2>5, BufferAssumption
  <2> QED  BY <2>3, <2>5, <2>6 DEF q
<1> QED  BY <1>1, <1>2 DEF BufferOutput

-----------------------------------------------------------------------------
(* The parts of the type invariant.                                         *)
FlagTypes ==
    keepAlive \in BOOLEAN /\ gone \in BOOLEAN /\ last \in [Removers -> BOOLEAN]
BrowserTypes ==
    /\ subscribers \in SUBSET Browsers
    /\ controllerID \in Browsers \cup {Nobody}
    /\ browser \in [Browsers -> {"new", "inserted", "replaying", "reading",
                                 "request", "release", "done"}]
    /\ socket \in [Browsers -> {"open", "broken", "closed"}]
    /\ removing \in [Removers -> Browsers \cup {Nobody, "timer"}]
MessageTypes ==
    /\ outputBuffer \in Seq(1..MaxMessages) /\ Len(outputBuffer) <= BufferCount
    /\ replay \in [Browsers -> Seq(1..MaxMessages)]
    /\ received \in [Browsers -> SUBSET (1..MaxMessages)]
    /\ missed \in [Browsers -> 0..MaxMessages]
    /\ forwarder \in {"reading", "cleared", "buffered", "writing"}
    /\ sent \in 0..MaxMessages
    /\ targets \in SUBSET Browsers /\ failedIDs \in SUBSET Browsers

(* Together they are the type invariant.                                    *)
LEMMA TypesSplit == WatchTypeOK <=> FlagTypes /\ BrowserTypes /\ MessageTypes
  BY DEF WatchTypeOK, FlagTypes, BrowserTypes, MessageTypes

(* Every step keeps the types of the flags.                                 *)
LEMMA FlagTypeStep ==
  ASSUME WatchTypeOK, [WatchNext]_sbVars
  PROVE  FlagTypes'
<1> USE TypesSplit DEF FlagTypes
<1>1. ASSUME NEW b \in Browsers, Insert(b)
      PROVE  FlagTypes'
  BY <1>1 DEF Insert, removeVars
<1>2. ASSUME NEW a \in Removers, NEW b \in Browsers, Delete(a, b),
             UNCHANGED <<keepAlive, gone>>
      PROVE  FlagTypes'
  <2>1. (subscribers = {b}) \in BOOLEAN
    OBVIOUS
  <2> QED  BY <1>2, <2>1 DEF Delete
<1>3. ASSUME NEW b \in Browsers, ReaderRemoves(b) \/ BroadcastRemoves(b)
      PROVE  FlagTypes'
  BY <1>2, <1>3 DEF ReaderRemoves, BroadcastRemoves, Removers
<1>4. ASSUME NEW a \in Removers, StartTimer(a)
      PROVE  FlagTypes'
  <2>1. keepAlive' \in BOOLEAN
    BY <1>4 DEF StartTimer
  <2> QED  BY <1>4, <2>1 DEF StartTimer
<1>5. CASE KeepAliveTimeout
  <2>1. keepAlive' \in BOOLEAN /\ gone' \in BOOLEAN
    BY <1>5 DEF KeepAliveTimeout
  <2> QED  BY <1>5, <2>1 DEF KeepAliveTimeout, removeVars
<1>6. ASSUME NEW b \in Browsers,
             \/ CopyBuffer(b) \/ Replay(b) \/ RequestControl(b) \/ ReleaseControl(b)
             \/ Break(b) \/ ReadControl(b, "request") \/ ReadControl(b, "release")
             \/ BroadcastTo(b)
      PROVE  UNCHANGED <<keepAlive, gone, last>>
  BY <1>6 DEF CopyBuffer, Replay, RequestControl, ReleaseControl, Break,
              ReadControl, BroadcastTo, removeVars
<1>7. CASE \/ ReceiveOutput \/ ReceiveSnapshot \/ BufferSnapshot \/ BroadcastBegins
           \/ BroadcastEnds \/ (\E a \in Removers : Release(a)) \/ UNCHANGED sbVars
  <2>1. UNCHANGED <<keepAlive, gone, last>>
    BY <1>7 DEF ReceiveOutput, ReceiveSnapshot, BufferSnapshot, BroadcastBegins,
                BroadcastEnds, Release, removeVars, sbVars
  <2> QED  BY <2>1
<1> QED  BY <1>1, <1>3, <1>4, <1>5, <1>6, <1>7
            DEF WatchNext, BrowserStep, ForwarderStep, RemoverStep

(* Every step keeps the types of the browsers.                              *)
LEMMA BrowserTypeStep ==
  ASSUME WatchTypeOK, [WatchNext]_sbVars
  PROVE  BrowserTypes'
<1> USE TypesSplit DEF BrowserTypes
<1>1. ASSUME NEW b \in Browsers, Insert(b) \/ CopyBuffer(b) \/ Replay(b)
      PROVE  BrowserTypes'
  BY <1>1 DEF Insert, CopyBuffer, Replay, removeVars
<1>2. ASSUME NEW a \in Removers, NEW b \in Browsers, Delete(a, b)
      PROVE  /\ subscribers' \in SUBSET Browsers
             /\ socket' \in [Browsers -> {"open", "broken", "closed"}]
             /\ removing' \in [Removers -> Browsers \cup {Nobody, "timer"}]
  BY <1>2 DEF Delete
<1>3. ASSUME NEW b \in Browsers, ReaderRemoves(b) \/ BroadcastRemoves(b)
      PROVE  BrowserTypes'
  BY <1>2, <1>3 DEF ReaderRemoves, BroadcastRemoves, Removers
<1>4. ASSUME NEW a \in Removers, Release(a) \/ StartTimer(a)
      PROVE  BrowserTypes'
  BY <1>4 DEF Release, StartTimer
<1>5. ASSUME NEW b \in Browsers,
             \/ RequestControl(b) \/ ReleaseControl(b) \/ Break(b)
             \/ ReadControl(b, "request") \/ ReadControl(b, "release")
      PROVE  BrowserTypes'
  BY <1>5 DEF RequestControl, ReleaseControl, Break, ReadControl, removeVars
<1>6. CASE \/ ReceiveOutput \/ ReceiveSnapshot \/ BufferSnapshot \/ BroadcastBegins
           \/ BroadcastEnds \/ (\E b \in Browsers : BroadcastTo(b))
           \/ KeepAliveTimeout \/ UNCHANGED sbVars
  BY <1>6 DEF ReceiveOutput, ReceiveSnapshot, BufferSnapshot, BroadcastBegins,
              BroadcastEnds, BroadcastTo, KeepAliveTimeout, removeVars, sbVars
<1> QED  BY <1>1, <1>3, <1>4, <1>5, <1>6
            DEF WatchNext, BrowserStep, ForwarderStep, RemoverStep

(* Every step keeps the types of the messages.                              *)
LEMMA MessageTypeStep ==
  ASSUME WatchTypeOK, SubscribersAreInserted, [WatchNext]_sbVars
  PROVE  MessageTypes'
<1> USE TypesSplit, BufferAssumption DEF MessageTypes, joinVars, forwardVars
<1>0. <<>> \in Seq(1..MaxMessages) /\ Len(<<>>) <= BufferCount
  OBVIOUS
<1>1. ASSUME NEW b \in Browsers, Insert(b)
      PROVE  MessageTypes'
  <2>1. Broadcasted \in 0..MaxMessages
    BY DEF Broadcasted, SubscribersAreInserted
  <2> QED  BY <1>1, <2>1 DEF Insert
<1>2. ASSUME NEW b \in Browsers, CopyBuffer(b)
      PROVE  MessageTypes'
  BY <1>2 DEF CopyBuffer
<1>3. ASSUME NEW b \in Browsers, Replay(b)
      PROVE  MessageTypes'
  <2>1. CASE replay[b] # <<>> /\ socket[b] = "open"
    <3>1. Head(replay[b]) \in 1..MaxMessages /\ Tail(replay[b]) \in Seq(1..MaxMessages)
      BY <2>1, ElementsOfTail
    <3>2. replay' = [replay EXCEPT ![b] = Tail(replay[b])]
      BY <1>3, <2>1 DEF Replay
    <3>3. replay' \in [Browsers -> Seq(1..MaxMessages)]
      BY <3>1, <3>2
    <3>4. received' = [received EXCEPT ![b] = received[b] \cup {Head(replay[b])}]
      BY <1>3, <2>1 DEF Replay
    <3>5. received' \in [Browsers -> SUBSET (1..MaxMessages)]
      BY <3>1, <3>4
    <3> QED  BY <1>3, <3>3, <3>5 DEF Replay
  <2>2. CASE replay[b] = <<>> \/ socket[b] # "open"
    <3>1. replay' = [replay EXCEPT ![b] = <<>>]
      BY <1>3, <2>2 DEF Replay
    <3>2. replay' \in [Browsers -> Seq(1..MaxMessages)]
      BY <1>0, <3>1
    <3>3. received' = received
      BY <1>3, <2>2 DEF Replay
    <3> QED  BY <1>3, <3>2, <3>3 DEF Replay
  <2> QED  BY <2>1, <2>2
<1>4. CASE ReceiveOutput \/ BufferSnapshot
  <2>1. /\ outputBuffer' \in Seq(1..MaxMessages) /\ Len(outputBuffer') <= BufferCount
        /\ sent' \in 0..MaxMessages
    BY <1>4, BufferKeepsSome DEF ReceiveOutput, BufferSnapshot, SubscribersAreInserted
  <2> QED  BY <1>4, <2>1 DEF ReceiveOutput, BufferSnapshot
<1>5. CASE ReceiveSnapshot \/ BroadcastBegins \/ BroadcastEnds
  <2>1. CASE ReceiveSnapshot
    BY <1>0, <2>1 DEF ReceiveSnapshot
  <2>2. CASE BroadcastBegins \/ BroadcastEnds
    BY <2>2 DEF BroadcastBegins, BroadcastEnds, BrowserTypes
  <2> QED  BY <1>5, <2>1, <2>2
<1>6. ASSUME NEW b \in Browsers, BroadcastTo(b)
      PROVE  MessageTypes'
  <2>1. sent \in 1..MaxMessages
    BY <1>6 DEF BroadcastTo, SubscribersAreInserted
  <2> QED  BY <1>6, <2>1 DEF BroadcastTo
<1>7. ASSUME NEW b \in Browsers, BroadcastRemoves(b) \/ ReaderRemoves(b)
      PROVE  MessageTypes'
  BY <1>7 DEF BroadcastRemoves, ReaderRemoves
<1>8. ASSUME NEW b \in Browsers,
             \/ RequestControl(b) \/ ReleaseControl(b) \/ Break(b)
             \/ ReadControl(b, "request") \/ ReadControl(b, "release")
      PROVE  MessageTypes'
  BY <1>8 DEF RequestControl, ReleaseControl, Break, ReadControl
<1>9. CASE \/ (\E a \in Removers : Release(a) \/ StartTimer(a))
           \/ KeepAliveTimeout \/ UNCHANGED sbVars
  BY <1>9 DEF Release, StartTimer, KeepAliveTimeout, sbVars
<1> QED  BY <1>1, <1>2, <1>3, <1>4, <1>5, <1>6, <1>7, <1>8, <1>9
            DEF WatchNext, BrowserStep, ForwarderStep, RemoverStep

-----------------------------------------------------------------------------
(* A browser that is there was inserted, and a message that is forwarded    *)
(* was received.                                                            *)
LEMMA InsertedStep ==
  ASSUME WatchTypeOK, SubscribersAreInserted, [WatchNext]_sbVars
  PROVE  SubscribersAreInserted'
<1> USE TypesSplit DEF SubscribersAreInserted, BrowserTypes, MessageTypes,
                       joinVars, forwardVars
<1>1. ASSUME NEW b \in Browsers,
             \/ Insert(b) \/ CopyBuffer(b) \/ RequestControl(b) \/ ReleaseControl(b)
             \/ Break(b) \/ ReadControl(b, "request") \/ ReadControl(b, "release")
      PROVE  SubscribersAreInserted'
  BY <1>1 DEF Insert, CopyBuffer, RequestControl, ReleaseControl, Break, ReadControl
<1>2. ASSUME NEW b \in Browsers, Replay(b)
      PROVE  SubscribersAreInserted'
  BY <1>2 DEF Replay
<1>3. ASSUME NEW b \in Browsers, ReaderRemoves(b) \/ BroadcastRemoves(b)
      PROVE  SubscribersAreInserted'
  BY <1>3 DEF ReaderRemoves, BroadcastRemoves, Delete
<1>4. CASE ReceiveOutput \/ ReceiveSnapshot
  BY <1>4 DEF ReceiveOutput, ReceiveSnapshot
<1>5. CASE \/ BufferSnapshot \/ BroadcastBegins \/ BroadcastEnds
           \/ \E b \in Browsers : BroadcastTo(b)
  BY <1>5 DEF BufferSnapshot, BroadcastBegins, BroadcastEnds, BroadcastTo
<1>6. CASE \/ (\E a \in Removers : Release(a) \/ StartTimer(a))
           \/ KeepAliveTimeout \/ UNCHANGED sbVars
  BY <1>6 DEF Release, StartTimer, KeepAliveTimeout, sbVars
<1> QED  BY <1>1, <1>2, <1>3, <1>4, <1>5, <1>6
            DEF WatchNext, BrowserStep, ForwarderStep, RemoverStep

(* Nothing is left to be sent when a browser starts to read.                *)
LEMMA ReplayStep ==
  ASSUME WatchTypeOK, ReplayEnds, [WatchNext]_sbVars
  PROVE  ReplayEnds'
<1> USE TypesSplit DEF ReplayEnds, BrowserTypes, MessageTypes, joinVars
<1>1. ASSUME NEW b \in Browsers, Insert(b) \/ CopyBuffer(b)
      PROVE  ReplayEnds'
  BY <1>1 DEF Insert, CopyBuffer
<1>2. ASSUME NEW b \in Browsers, Replay(b)
      PROVE  ReplayEnds'
  <2>1. CASE replay' = [replay EXCEPT ![b] = Tail(@)] /\ UNCHANGED browser
    BY <1>2, <2>1 DEF Replay
  <2>2. CASE replay' = [replay EXCEPT ![b] = <<>>]
             /\ \A c \in Browsers : c # b => browser'[c] = browser[c]
    BY <2>2
  <2> QED  BY <1>2, <2>1, <2>2 DEF Replay
<1>3. ASSUME NEW b \in Browsers, ReaderRemoves(b)
      PROVE  ReplayEnds'
  BY <1>3 DEF ReaderRemoves
<1>4. ASSUME NEW b \in Browsers,
             \/ RequestControl(b) \/ ReleaseControl(b) \/ Break(b)
             \/ ReadControl(b, "request") \/ ReadControl(b, "release")
      PROVE  ReplayEnds'
  BY <1>4 DEF RequestControl, ReleaseControl, Break, ReadControl
<1>5. CASE \/ ReceiveOutput \/ ReceiveSnapshot \/ BufferSnapshot \/ BroadcastBegins
           \/ BroadcastEnds \/ (\E b \in Browsers : BroadcastTo(b) \/ BroadcastRemoves(b))
           \/ (\E a \in Removers : Release(a) \/ StartTimer(a))
           \/ KeepAliveTimeout \/ UNCHANGED sbVars
  <2>1. UNCHANGED <<browser, replay>>
    BY <1>5 DEF ReceiveOutput, ReceiveSnapshot, BufferSnapshot, BroadcastBegins,
                BroadcastEnds, BroadcastTo, BroadcastRemoves, Release, StartTimer,
                KeepAliveTimeout, sbVars
  <2> QED  BY <2>1
<1> QED  BY <1>1, <1>2, <1>3, <1>4, <1>5
            DEF WatchNext, BrowserStep, ForwarderStep, RemoverStep

(* While a message is neither received nor written, what a browser was sent *)
(* is not lost: it may leave, and its socket may break.                     *)
LEMMA NothingLostFrame ==
  ASSUME NothingIsLost, WatchTypeOK,
         UNCHANGED <<outputBuffer, joinVars, forwarder, sent, targets>>,
         subscribers' \subseteq subscribers,
         \A b \in Browsers : socket'[b] = "open" => socket[b] = "open",
         \A b \in Browsers : browser'[b] # "inserted" => browser[b] # "inserted"
  PROVE  NothingIsLost'
<1> SUFFICES ASSUME NEW b \in subscribers', socket'[b] = "open"
             PROVE  Has(b)'
  BY DEF NothingIsLost
<1> USE DEF Has
<1>1. b \in Browsers /\ b \in subscribers /\ socket[b] = "open"
  BY DEF WatchTypeOK
<1>2. Has(b)
  BY <1>1 DEF NothingIsLost
<1>3. Broadcasted' = Broadcasted /\ Pending(b)' = Pending(b) /\ Owed(b)' = Owed(b)
  BY DEF Broadcasted, Pending, Owed, joinVars
<1> QED  BY <1>1, <1>2, <1>3 DEF joinVars

(* A browser joins: what was broadcast before, it does not miss.            *)
LEMMA JoiningLosesNothing ==
  ASSUME WatchInv, NEW c \in Browsers, Insert(c) \/ CopyBuffer(c) \/ Replay(c)
  PROVE  NothingIsLost'
<1> SUFFICES ASSUME NEW b \in subscribers', socket'[b] = "open"
             PROVE  Has(b)'
  BY DEF NothingIsLost
<1> USE DEF Has
<1>0. /\ b \in Browsers /\ socket[b] = "open"
      /\ b \in subscribers \/ (Insert(c) /\ b = c)
      /\ UNCHANGED <<outputBuffer, socket, forwardVars>>
  BY DEF Insert, CopyBuffer, Replay, WatchInv, WatchTypeOK
<1>1. Broadcasted' = Broadcasted /\ Pending(b)' = Pending(b)
      /\ Broadcasted \in Int
  BY <1>0 DEF Broadcasted, Pending, forwardVars, WatchInv, WatchTypeOK
<1>2. b \in subscribers => Has(b)
  BY <1>0 DEF WatchInv, NothingIsLost
<1>3. CASE Insert(c)
  <2>1. CASE b = c
    <3>1. missed'[b] = Broadcasted /\ browser'[b] = "inserted"
      BY <1>3, <2>1 DEF Insert, WatchInv, WatchTypeOK
    <3> QED  BY <1>1, <3>1
  <2>2. CASE b # c
    <3>1. UNCHANGED <<missed[b], received[b], replay[b], browser[b]>>
      BY <1>0, <1>3, <2>2 DEF Insert, WatchInv, WatchTypeOK
    <3>2. Owed(b)' = Owed(b)
      BY <1>0, <1>1, <3>1 DEF Owed, forwardVars
    <3> QED  BY <1>0, <1>1, <1>2, <2>2, <3>1, <3>2 DEF forwardVars
  <2> QED  BY <2>1, <2>2
<1>4. CASE CopyBuffer(c)
  <2>1. UNCHANGED <<missed[b], received[b]>>
    BY <1>4 DEF CopyBuffer
  <2>2. CASE b = c
    <3>1. replay'[b] = outputBuffer
      BY <1>4, <2>2 DEF CopyBuffer, WatchInv, WatchTypeOK
    <3>2. ToSet(outputBuffer) \subseteq Owed(b)'
      BY <3>1 DEF Owed
    <3> QED  BY <1>0, <1>1, <1>2, <1>4, <2>1, <3>2 DEF forwardVars, CopyBuffer, Insert
  <2>3. CASE b # c
    <3>1. UNCHANGED <<replay[b], browser[b]>>
      BY <1>0, <1>4, <2>3 DEF CopyBuffer, WatchInv, WatchTypeOK
    <3>2. Owed(b)' = Owed(b)
      BY <1>0, <1>1, <2>1, <3>1 DEF Owed, forwardVars
    <3> QED  BY <1>0, <1>1, <1>2, <2>1, <2>3, <3>1, <3>2 DEF forwardVars
  <2> QED  BY <2>2, <2>3
<1>5. CASE Replay(c)
  <2>0. missed' = missed /\ b \in subscribers /\ UNCHANGED sent
    BY <1>0, <1>5 DEF Replay, forwardVars
  <2>1. CASE b # c
    <3>1. UNCHANGED <<received[b], replay[b], browser[b]>>
      BY <1>0, <1>5, <2>1 DEF Replay, WatchInv, WatchTypeOK
    <3>2. Owed(b)' = Owed(b)
      BY <1>0, <1>1, <2>0, <3>1 DEF Owed
    <3> QED  BY <1>0, <1>1, <1>2, <2>0, <3>1, <3>2
  <2>2. CASE b = c
    <3>1. received[b] \subseteq received'[b]
          /\ ToSet(replay[b]) \subseteq received'[b] \cup ToSet(replay'[b])
      <4>1. CASE replay[b] # <<>>
        <5>1. received'[b] = received[b] \cup {Head(replay[b])}
              /\ replay'[b] = Tail(replay[b])
          BY <1>0, <1>5, <2>2, <4>1 DEF Replay, WatchInv, WatchTypeOK
        <5>2. ToSet(replay[b]) \subseteq {Head(replay[b])} \cup ToSet(Tail(replay[b]))
          BY <1>0, <4>1, ElementsOfTail DEF WatchInv, WatchTypeOK
        <5> QED  BY <5>1, <5>2
      <4>2. CASE replay[b] = <<>>
        BY <1>0, <1>5, <2>2, <4>2, NoElements DEF Replay, WatchInv, WatchTypeOK
      <4> QED  BY <4>1, <4>2
    <3>2. Owed(b) \subseteq Owed(b)'
      BY <1>0, <1>1, <2>0, <3>1 DEF Owed
    <3>3. browser[b] # "inserted"
      BY <1>5, <2>2 DEF Replay
    <3> QED  BY <1>0, <1>1, <1>2, <2>0, <3>1, <3>2, <3>3
  <2> QED  BY <2>1, <2>2
<1> QED  BY <1>3, <1>4, <1>5

(* A message is received, buffered and written.                             *)
LEMMA ForwardingLosesNothing ==
  ASSUME WatchInv,
         \/ ReceiveOutput \/ ReceiveSnapshot \/ BufferSnapshot \/ BroadcastBegins
         \/ BroadcastEnds \/ \E c \in Browsers : BroadcastTo(c)
  PROVE  NothingIsLost'
<1> SUFFICES ASSUME NEW b \in subscribers', socket'[b] = "open"
             PROVE  Has(b)'
  BY DEF NothingIsLost
<1> USE DEF Has
<1>0. /\ b \in Browsers /\ b \in subscribers /\ socket[b] = "open"
      /\ UNCHANGED <<socket, subscribers, browser, replay, missed>>
  BY DEF ReceiveOutput, ReceiveSnapshot, BufferSnapshot, BroadcastBegins,
         BroadcastEnds, BroadcastTo, WatchInv, WatchTypeOK, joinVars
<1>1. Has(b)
  BY <1>0 DEF WatchInv, NothingIsLost
<1>2. sent \in 0..MaxMessages /\ missed[b] \in 0..MaxMessages
      /\ (forwarder # "reading" => sent \in 1..MaxMessages)
  BY <1>0, BufferAssumption DEF WatchInv, WatchTypeOK, SubscribersAreInserted
<1>3. CASE ReceiveOutput \/ ReceiveSnapshot
  <2>1. /\ ~Pending(b) /\ Pending(b)' /\ received' = received
        /\ sent' = sent + 1 /\ Broadcasted = sent /\ Broadcasted' = sent
    BY <1>2, <1>3 DEF ReceiveOutput, ReceiveSnapshot, Pending, Broadcasted, joinVars
  <2>2. ToSet(outputBuffer') \subseteq ToSet(outputBuffer) \cup {sent'}
    <3>1. CASE ReceiveOutput
      <4>1. sent + 1 \in 1..MaxMessages /\ BufferOutput(sent + 1)
        BY <1>2, <3>1, BufferAssumption DEF ReceiveOutput
      <4> QED  BY <2>1, <4>1, BufferKeepsSome DEF WatchInv
    <3>2. CASE ReceiveSnapshot
      BY <3>2, NoElements DEF ReceiveSnapshot
    <3> QED  BY <1>3, <3>1, <3>2
  <2>3. Owed(b) \cup {sent'} \subseteq Owed(b)'
    BY <1>0, <2>1 DEF Owed
  <2> QED  BY <1>0, <1>1, <2>1, <2>2, <2>3
<1>4. CASE BufferSnapshot
  <2>1. /\ Pending(b) /\ Pending(b)' /\ received' = received
        /\ sent' = sent /\ Broadcasted' = Broadcasted
    BY <1>4 DEF BufferSnapshot, Pending, Broadcasted, joinVars
  <2>2. ToSet(outputBuffer') \subseteq ToSet(outputBuffer) \cup {sent}
    BY <1>2, <1>4, BufferKeepsSome DEF BufferSnapshot, WatchInv
  <2>3. Owed(b) \cup {sent} \subseteq Owed(b)'
    BY <1>0, <2>1 DEF Owed
  <2> QED  BY <1>0, <1>1, <2>1, <2>2, <2>3
<1>5. CASE BroadcastBegins
  <2>1. /\ Pending(b) /\ Pending(b)' /\ received' = received /\ sent' = sent
        /\ outputBuffer' = outputBuffer
        /\ Broadcasted = sent - 1 /\ Broadcasted' = sent
    BY <1>0, <1>5 DEF BroadcastBegins, Pending, Broadcasted, joinVars
  <2>2. Owed(b)' = Owed(b)
    BY <1>0, <2>1 DEF Owed
  <2>3. (missed[b] + 1)..sent \subseteq (missed[b] + 1)..(sent - 1) \cup {sent}
    BY <1>2
  <2> QED  BY <1>0, <1>1, <2>1, <2>2, <2>3
<1>6. CASE BroadcastEnds
  <2>1. /\ ~Pending(b) /\ ~Pending(b)' /\ received' = received /\ sent' = sent
        /\ outputBuffer' = outputBuffer /\ Broadcasted' = Broadcasted
    BY <1>6 DEF BroadcastEnds, Pending, Broadcasted, joinVars
  <2>2. Owed(b)' = Owed(b)
    BY <1>0, <2>1 DEF Owed
  <2> QED  BY <1>0, <1>1, <2>1, <2>2
<1>7. ASSUME NEW c \in Browsers, BroadcastTo(c)
      PROVE  Has(b)'
  <2>1. outputBuffer' = outputBuffer /\ sent' = sent /\ Broadcasted' = Broadcasted
    BY <1>7 DEF BroadcastTo, Broadcasted
  <2>2. CASE b = c
    <3>1. Pending(b) /\ ~Pending(b)' /\ received'[b] = received[b] \cup {sent}
      BY <1>0, <1>7, <2>2 DEF BroadcastTo, Pending, WatchInv, WatchTypeOK
    <3>2. Owed(b)' = Owed(b)
      BY <1>0, <2>1, <3>1 DEF Owed
    <3> QED  BY <1>0, <1>1, <2>1, <3>1, <3>2
  <2>3. CASE b # c
    <3>1. Pending(b)' = Pending(b) /\ received'[b] = received[b]
      BY <1>0, <1>7, <2>3 DEF BroadcastTo, Pending, WatchInv, WatchTypeOK
    <3>2. Owed(b)' = Owed(b)
      BY <1>0, <2>1, <3>1 DEF Owed
    <3> QED  BY <1>0, <1>1, <2>1, <3>1, <3>2
  <2> QED  BY <2>2, <2>3
<1> QED  BY <1>3, <1>4, <1>5, <1>6, <1>7

(* Nothing is lost by any step.                                             *)
LEMMA NothingLostStep ==
  ASSUME WatchInv, [WatchNext]_sbVars
  PROVE  NothingIsLost'
<1>1. ASSUME NEW b \in Browsers, Insert(b) \/ CopyBuffer(b) \/ Replay(b)
      PROVE  NothingIsLost'
  BY <1>1, JoiningLosesNothing
<1>2. CASE \/ ReceiveOutput \/ ReceiveSnapshot \/ BufferSnapshot \/ BroadcastBegins
           \/ BroadcastEnds \/ \E c \in Browsers : BroadcastTo(c)
  BY <1>2, ForwardingLosesNothing
<1>3. ASSUME NEW b \in Browsers,
             \/ ReaderRemoves(b) \/ BroadcastRemoves(b) \/ RequestControl(b)
             \/ ReleaseControl(b) \/ Break(b)
             \/ ReadControl(b, "request") \/ ReadControl(b, "release")
      PROVE  NothingIsLost'
  <2>1. /\ UNCHANGED <<outputBuffer, joinVars, forwarder, sent, targets>>
        /\ subscribers' \subseteq subscribers
    BY <1>3 DEF ReaderRemoves, BroadcastRemoves, RequestControl, ReleaseControl,
                Break, ReadControl, Delete, forwardVars
  <2>2. \A c \in Browsers : socket'[c] = "open" => socket[c] = "open"
    BY <1>3 DEF ReaderRemoves, BroadcastRemoves, RequestControl, ReleaseControl,
                Break, ReadControl, Delete, WatchInv, WatchTypeOK
  <2>3. \A c \in Browsers : browser'[c] # "inserted" => browser[c] # "inserted"
    BY <1>3 DEF ReaderRemoves, BroadcastRemoves, RequestControl, ReleaseControl,
                Break, ReadControl, WatchInv, WatchTypeOK
  <2> QED  BY <2>1, <2>2, <2>3, NothingLostFrame DEF WatchInv
<1>4. CASE \/ (\E a \in Removers : Release(a) \/ StartTimer(a))
           \/ KeepAliveTimeout \/ UNCHANGED sbVars
  <2>1. UNCHANGED <<outputBuffer, joinVars, forwarder, sent, targets, subscribers,
                    socket, browser>>
    BY <1>4 DEF Release, StartTimer, KeepAliveTimeout, sbVars, forwardVars
  <2> QED  BY <2>1, NothingLostFrame DEF WatchInv
<1> QED  BY <1>1, <1>2, <1>3, <1>4
            DEF WatchNext, BrowserStep, ForwarderStep, RemoverStep

(* The timer is due, runs or has run out whenever nobody watches.           *)
LEMMA TimerStep ==
  ASSUME WatchInv, [WatchNext]_sbVars
  PROVE  LeavingStartsTimer'
<1> USE NamesAssumption DEF LeavingStartsTimer, TimerIsDue
<1>0. WatchTypeOK /\ LeavingStartsTimer
  BY DEF WatchInv
<1>1. ASSUME NEW b \in Browsers, Insert(b)
      PROVE  LeavingStartsTimer'
  BY <1>1 DEF Insert
<1>2. ASSUME NEW a \in Removers, NEW b \in Browsers, Delete(a, b),
             UNCHANGED <<keepAlive, gone>>,
             \A c \in Browsers : browser[c] = "new" => browser'[c] = "new"
      PROVE  LeavingStartsTimer'
  <2>1. CASE b \in subscribers
    <3>1. b # Nobody /\ b # "timer" /\ ~keepAlive
      BY <1>0, <2>1
    <3>2. subscribers' = {} => subscribers = {b}
      BY <1>2, <2>1 DEF Delete
    <3>3. removing'[a] = b
      BY <1>0, <1>2, <2>1 DEF Delete, WatchTypeOK
    <3>4. last'[a] = (subscribers = {b})
      BY <1>0, <1>2 DEF Delete, WatchTypeOK
    <3> QED  BY <1>2, <3>1, <3>2, <3>3, <3>4
  <2>2. CASE b \notin subscribers
    <3>1. subscribers' = subscribers /\ removing[a] = Nobody
      BY <1>2, <2>2 DEF Delete
    <3>2. ~TimerIsDue(a)
      BY <3>1
    <3>3. \A c \in Removers : c # a => UNCHANGED <<removing[c], last[c]>>
      BY <1>0, <1>2 DEF Delete, WatchTypeOK
    <3>4. \A c \in Removers : TimerIsDue(c) => TimerIsDue(c)'
      BY <3>2, <3>3
    <3> QED  BY <1>0, <1>2, <3>1, <3>4
  <2> QED  BY <2>1, <2>2
<1>3. ASSUME NEW b \in Browsers, ReaderRemoves(b) \/ BroadcastRemoves(b)
      PROVE  LeavingStartsTimer'
  <2>1. UNCHANGED <<keepAlive, gone>>
        /\ \A c \in Browsers : browser[c] = "new" => browser'[c] = "new"
    BY <1>0, <1>3 DEF ReaderRemoves, BroadcastRemoves, WatchTypeOK
  <2> QED  BY <1>2, <1>3, <2>1 DEF ReaderRemoves, BroadcastRemoves, Removers
<1>4. ASSUME NEW a \in Removers, Release(a)
      PROVE  LeavingStartsTimer'
  <2>1. \A c \in Removers : TimerIsDue(c) => TimerIsDue(c)'
    BY <1>0, <1>4 DEF Release, WatchTypeOK
  <2> QED  BY <1>0, <1>4, <2>1 DEF Release
<1>5. ASSUME NEW a \in Removers, StartTimer(a)
      PROVE  LeavingStartsTimer'
  BY <1>0, <1>5 DEF StartTimer
<1>6. CASE KeepAliveTimeout
  BY <1>0, <1>6 DEF KeepAliveTimeout
<1>7. ASSUME UNCHANGED <<subscribers, keepAlive, gone, removeVars>>,
             \A c \in Browsers : browser[c] = "new" => browser'[c] = "new"
      PROVE  LeavingStartsTimer'
  BY <1>0, <1>7 DEF removeVars
<1>8. ASSUME NEW b \in Browsers,
             \/ CopyBuffer(b) \/ Replay(b) \/ RequestControl(b) \/ ReleaseControl(b)
             \/ Break(b) \/ ReadControl(b, "request") \/ ReadControl(b, "release")
      PROVE  LeavingStartsTimer'
  <2>1. \A c \in Browsers : browser[c] = "new" => browser'[c] = "new"
    BY <1>0, <1>8 DEF CopyBuffer, Replay, RequestControl, ReleaseControl, Break,
                      ReadControl, WatchTypeOK
  <2>2. UNCHANGED <<subscribers, keepAlive, gone, removeVars>>
    BY <1>8 DEF CopyBuffer, Replay, RequestControl, ReleaseControl, Break, ReadControl
  <2> QED  BY <1>7, <2>1, <2>2
<1>9. CASE \/ ReceiveOutput \/ ReceiveSnapshot \/ BufferSnapshot \/ BroadcastBegins
           \/ BroadcastEnds \/ (\E b \in Browsers : BroadcastTo(b))
           \/ UNCHANGED sbVars
  <2>1. UNCHANGED <<subscribers, keepAlive, gone, removeVars, browser>>
    BY <1>9 DEF ReceiveOutput, ReceiveSnapshot, BufferSnapshot, BroadcastBegins,
                BroadcastEnds, BroadcastTo, sbVars
  <2> QED  BY <1>7, <2>1
<1> QED  BY <1>1, <1>3, <1>4, <1>5, <1>6, <1>8, <1>9
            DEF WatchNext, BrowserStep, ForwarderStep, RemoverStep

-----------------------------------------------------------------------------
(* The invariant is inductive.                                              *)
LEMMA WatchInitInv == WatchInit => WatchInv
<1> SUFFICES ASSUME WatchInit PROVE WatchInv
  OBVIOUS
<1>1. WatchTypeOK
  <2>1. <<>> \in Seq(1..MaxMessages) /\ Len(<<>>) <= BufferCount
    BY BufferAssumption
  <2>2. FlagTypes
    BY DEF WatchInit, FlagTypes
  <2>3. BrowserTypes
    BY DEF WatchInit, BrowserTypes
  <2>4. MessageTypes
    BY <2>1, BufferAssumption DEF WatchInit, MessageTypes
  <2> QED  BY <2>2, <2>3, <2>4, TypesSplit
<1>2. SubscribersAreInserted /\ NothingIsLost
  BY DEF WatchInit, SubscribersAreInserted, NothingIsLost
<1>3. ReplayEnds
  BY DEF WatchInit, ReplayEnds
<1>4. LeavingStartsTimer
  BY DEF WatchInit, LeavingStartsTimer
<1> QED  BY <1>1, <1>2, <1>3, <1>4 DEF WatchInv

(* Every step keeps it.                                                     *)
LEMMA WatchStepInv ==
  ASSUME WatchInv, [WatchNext]_sbVars
  PROVE  WatchInv'
<1>1. WatchTypeOK'
  <2>1. FlagTypes' /\ BrowserTypes' /\ MessageTypes'
    BY FlagTypeStep, BrowserTypeStep, MessageTypeStep DEF WatchInv
  <2> QED  BY <2>1 DEF WatchTypeOK, FlagTypes, BrowserTypes, MessageTypes
<1>2. SubscribersAreInserted' /\ ReplayEnds'
  BY InsertedStep, ReplayStep DEF WatchInv
<1>3. NothingIsLost' /\ LeavingStartsTimer'
  BY NothingLostStep, TimerStep
<1> QED  BY <1>1, <1>2, <1>3 DEF WatchInv

(* So it holds throughout.                                                  *)
LEMMA WatchInvariance == WatchSpec => []WatchInv
  BY WatchInitInv, WatchStepInv, PTL DEF WatchSpec

(* Between two messages nothing is pending, and a browser that reads has    *)
(* nothing left of the buffer, so what it is owed it has.                   *)
LEMMA WatchInvGivesNoGap == WatchInv => JoinLeavesNoGap
<1> SUFFICES ASSUME WatchInv, NEW b \in subscribers,
                    browser[b] \in {"reading", "request", "release"},
                    socket[b] = "open", forwarder = "reading"
             PROVE  ToSet(outputBuffer) \cup (missed[b] + 1)..sent \subseteq received[b]
  BY DEF JoinLeavesNoGap
<1>1. ~Pending(b) /\ Broadcasted = sent /\ replay[b] = <<>>
  BY DEF Pending, Broadcasted, WatchInv, ReplayEnds, WatchTypeOK
<1>2. Owed(b) = received[b]
  BY <1>1, NoElements DEF Owed
<1>3. Has(b) /\ browser[b] # "inserted"
  BY DEF WatchInv, NothingIsLost
<1> QED  BY <1>1, <1>2, <1>3 DEF Has

(* When no remover is under way the timer is not due.                       *)
LEMMA WatchInvGivesTimer == WatchInv => KeepAliveMatchesSubscribers
  BY NamesAssumption DEF WatchInv, LeavingStartsTimer, TimerIsDue,
                         KeepAliveMatchesSubscribers

(* Every variable of an open channel's subscribers has its type, and the    *)
(* buffer never holds more than OutputBufferCount messages.                 *)
THEOREM WatchTypeCorrect == WatchSpec => []WatchTypeOK
<1>1. WatchInv => WatchTypeOK
  BY DEF WatchInv
<1> QED  BY <1>1, WatchInvariance, PTL

(* Whatever the buffer's limits and however joining interleaves with the    *)
(* forwarding goroutine, a browser that reads has all that the buffer holds *)
(* and all that was broadcast since it was inserted (addSubscriberInternal  *)
(* against bufferOutput, clearOutputBuffer and Broadcast).                  *)
THEOREM JoiningLeavesNoGap == WatchSpec => []JoinLeavesNoGap
  BY WatchInvGivesNoGap, WatchInvariance, PTL

(* The keep-alive timer runs only while nobody watches, and nobody leaves   *)
(* last without starting it, whichever goroutines remove the browsers       *)
(* (RemoveSubscriber against addSubscriberInternal and the timer).          *)
THEOREM KeepAliveIsRight == WatchSpec => []KeepAliveMatchesSubscribers
  BY WatchInvGivesTimer, WatchInvariance, PTL
=============================================================================
