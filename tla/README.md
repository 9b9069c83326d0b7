# AgentsMesh: a TLA+ model of the fleet's control plane

AgentsMesh runs coding agents in *pods* on *runners*, machines that keep one
gRPC stream each to a *backend*. The backend decides, keeps the rows of pods
and runners in a database, and learns what really runs from events and from a
heartbeat every runner sends. A *relay* carries terminal bytes between runners
and browsers. This directory specifies the part on which the rest depends: who
is connected, what runs where, how the database is brought back to the truth
when a stream breaks, a message is lost or a process restarts, how terminals
reach browsers, and how the automation on top (autopilot, loops, upgrades)
keeps its books.

Paths below are relative to `src/`; `service/runner` is short for
`backend/internal/service/runner`, `client` for `runner/internal/client`.

## 1. Inventory

| Component | State | Operations | Talks to |
|---|---|---|---|
| Connection manager (`service/runner/connection*.go`) | 256 shards of runner -> connection, a counter, a generation counter; per connection `closed`, `initialized`, a buffered Send channel | AddConnection, RemoveConnection, SendMessage, Close, checkInitTimeouts, HandleInitialized | the adapter's handlers; the coordinator, by callbacks |
| gRPC adapter (`backend/internal/api/grpc`) | one handler goroutine per stream, with send, receive and ping loops | Connect, handleProtoMessage | runners; the connection manager |
| Runner client (`client`) | connection state, `controlCh`, missed acks, reconnect signal | connectionLoop, runConnection, performInitialization, heartbeatLoop, readLoop | the adapter; the message handler |
| Heartbeat batcher (`service/runner/heartbeat*.go`) | the last heartbeat per runner | RecordHeartbeat, flush | the runners table |
| Pod coordinator (`service/runner/pod_*.go`) | miss counts, report counts, cooldowns, ack tracker | CreatePod, TerminatePod, the event handlers, reconcilePods, handleRunnerDisconnect | the pods and runners tables; SendCreatePod, SendTerminatePod |
| Pod service, orchestrator (`backend/internal/service/agentpod`) | the pods table | CreatePod, TerminatePod, MarkInitFailed | the coordinator |
| Message handler, pod store, terminal (`runner/internal/runner`, `terminal`) | pods on the runner and their processes | OnCreatePod, OnTerminatePod, exit handler, recovery | the runner client |
| Relay server (`relay/internal/channel`) | channels by pod key, pending publishers and subscribers, timers, an output buffer, who controls input | HandlePublisherConnect, HandleSubscriberConnect, SetPublisher, Broadcast, RemoveSubscriber, Close | runner relay client, browsers |
| Runner relay client (`runner/internal/relay`) | one WebSocket per pod, loops, flags | Connect, Stop, reconnectLoop | the relay; the pod, by the close handler |
| Pod relay subscriptions (`runner/internal/runner/message_handler_relay.go`, `pod.go`) | the pod's client and its output router | OnSubscribeTerminal, OnUnsubscribeTerminal, DisconnectRelay | the relay clients |
| Relay registry (`backend/internal/service/relay`, `relay/internal/backend`) | relays in memory, their record and heartbeat key in Redis | Register, Heartbeat, Unregister, doHealthCheck, loadFromStore | relays |
| Autopilot (`runner/internal/autopilot`) | phase, iteration, errors, takeover | Start, OnPodWaiting, runSingleDecision, Pause, Takeover, Approve, Stop | control process, backend |
| Loops (`backend/internal/service/loop`) | loops, runs, statistics | TriggerRun, StartRun, HandleRunCompleted, the scheduler's checks, CancelRun, Delete | orchestrator, coordinator, pod events |
| Runner upgrade (`runner/internal/runner/upgrade_coordinator.go`) | two flags | OnUpgradeRunner, runUpgrade | the updater, the pod store |
| Pod daemon (`runner/internal/poddaemon`) | a detached process and a state file per pod | create, attach, recover | the runner |
| Bindings, event bus, tickets, channels, billing, REST, web | rows; subscriptions | CRUD, publish | browsers |

What is hard here: every stream has up to five goroutines on each side, and
streams of one runner overlap when it reconnects; a disconnect callback can run
after the reconnection; commands are fire and forget; events are lost, or kept
and delivered on a later stream; the status row of a runner has three writers
and the pod count four; the reconciliation reads rows, acts, and writes rows
that others wrote in between. The relay replaces publishers while timers fire
and browsers join; its client is stopped while it dials. A loop's run is
finished by whichever of six goroutines comes first. `PROJECT.json` lists these
hazards by line.

What makes the components correct:

* connection manager: the map, the counter and the callbacks agree; a stale
  removal harms nobody; nobody sends on a closed channel; nothing deadlocks;
* stream: a stream that cannot carry commands is noticed and replaced, and the
  status row follows;
* pods: no process escapes the store; what the database says is over ends on
  the runner; what runs is shown as running; what is gone stops being active;
  the count converges;
* relay: one forwarding goroutine per channel, the manager reaches exactly the
  open channel, a closed one holds nothing, a channel without publisher is
  closed in the end, a browser that joins sees everything the buffer holds and
  everything since;
* relay client: one writer; stopped or reported closed is for good; otherwise
  it reconnects; a pod has no client nobody will stop;
* registry: a live relay is entered again and again, a dead one is forgotten;
* autopilot: the iteration limit holds, and Stop leaves no decision running;
* loops: a run finishes once and is counted once, the concurrency cap holds,
  every run ends;
* upgrade: one at a time; a command that ends frees the `upgrading` flag, and
  `draining` too unless a restart is on its way.

## 2. Plan

1. `ConnectionContract`, `ConnectionManager` - the registry as single steps on a
   map, and the goroutine-level model that implements it. *Done, proved.*
2. `RunnerLink` - one runner, one backend, the network between them, with the
   connection manager's operations as single steps. *Done, safety proved.*
3. `PodLifecycle` - rows, coordinator, runner and messages over the stream of
   `RunnerLink` reduced to three states. *Done, safety proved.*
4. `RelayChannel`, `RelaySubscribers` - the relay server. *Done, proved.*
5. `RelayContract`, `RelayClient` - what a pod may expect of a relay client, and
   the client that implements it; `PodRelay` uses the contract. *Done, proved.*
6. `RelayRegistry`. *Done.* `LoopRuns`, `Autopilot`, `RunnerUpgrade`. *Done,
   proved.*
7. Theorems still worth having: contracts for the relay's channel and for a loop's
   runs, in the manner of `RelayContract`.
8. Worth modelling after that: the pod daemon's recovery, and bindings.

## 3. Modules

### ConnectionContract and ConnectionManager

`ConnectionContract` is the abstract specification: a map from runners to
streams on which every operation is one step. `Register` puts a stream in that was
never there before, in the place of what was there; `Leave`, once it has ended, and
`Expire`, once it has missed its handshake, take it out, which makes its callback
due; `Tell` runs it; `Clear` is shutdown. It is what `RunnerLink` assumes of the
manager.

In `ConnectionManager`, a member of `Conns` is one execution of the `Connect` handler with the
`GRPCConnection` it registers. `pc` is where the handler is: `idle`, `adding`
(generation drawn), `locked` (inside AddConnection), `serving`, `removing` (the
deferred RemoveConnection is due), `closing` (entry deleted, Close and callback
due), `done`. Every critical section is one action; the calls made while a lock
is held (`existing.Close()` under the shard lock) are waits of the holder.
`closeState` distinguishes `closed` being set from the channels being closed,
and `sender` the read section of SendMessage. The timeout checker collects under read
locks and removes afterwards. A shard is modelled per runner: two runners of one
shard only exclude each other more. Left out: fullness of the Send channel (the
caller gets an error), and the online event flag. `Contract` maps a stream to the
moment AddConnection overwrites the map entry (until then it is `Fresh`), the
checker's list to `overdue`, and the time between the deletion of its entry and the end of the callback, by the
handler or by the checker, to `Pending`.

### RunnerLink

The runner is `loop` (`dialing`, `handshake`, `ready`, `initFailed`, `gone`),
the stream it works on, unacknowledged heartbeats and the buffered reconnect
signal; the network is, per stream, up or down, a set of silently dead
directions, and two queues; the backend is the handler per stream, the
manager's entry, the connection flags, the timeout checker, the batcher and the
status row. The checker works as in the code: it collects an entry whose handshake is not complete,
removes it later if it is still the one collected (`checker`, `target`), closes
the connection after the lock is released, and last reports the runner offline.
Slots for streams are reused once both ends and the checker let go, so
reconnection is unbounded. A rejected stream ends with a retryable or a fatal error (`refused`), after which
the runner stops. `Explore` selects the faults of a run.

Bounds: at most one ping on its way; `MaxMissedAcks` 2 in the runs (3 in the
code: with 3 the acknowledgements on their way can grow without bound, as they
can in the code); `PongPeriods` caps the count of pings, which is compared with
nothing else. In the safety run at most one of the streams in use has been pinged, and
none while a reconnect signal is pending (`FewPings`). The liveness run leaves out
breaks and reconnect signals: both make the runner leave a stream as the heartbeat
monitor does, which may fire at any time. Left out: the periodic certificate check, which cancels only the
context that nobody watches; what a heartbeat says besides being one; the
`onInitFailed` callback, which production code does not set.

### PodLifecycle

One runner and the pods created on it. Rows are `status` and `currentPods`; the
backend's memory is `misses`, `initReports`, `cooldown`, `buffered`; its
goroutines are the orchestrator per pod, the REST handler between its read and
its write, `PodCoordinator.TerminatePod` between its command and its write, and
the receive loop, whose reconciliation is three steps (the reported pods; the
missing ones, from the list read before; the count). `link` is the stream: `up`, `broken`
(registered and dead: commands are accepted and lost) or `down`. `controlCh`
holds what the runner queued for the next stream. On the runner, `creator` is
the progress of OnCreatePod (`building`, `built`, `stored`, `started`), `store`
the keys in the pod store, `alive` the processes, `teardown` the pods that are
out of the store while their terminal is stopped or their end is to be
reported. `Strangers` are pods recovered from daemons that have no row. An
orchestrator whose command cannot be built (`BuildCommandFails`) sends nothing
and leaves the row `initializing`.

Bounds: one heartbeat on its way; one CreatePod and one
`PodCoordinator.TerminatePod` per pod; one disconnect callback pending; streams
of one runner do not overlap here (they do in `RunnerLink`). A row update and
the counter update next to it are one step, as is the read and guarded write of
one reported pod. Left out: the acknowledgement tracker (written, never read),
the `paused` status (never written), `MarkDisconnected`, `MarkReconnected` and
`CleanupStale` of the pod service and `MarkOfflineRunners` (no callers), and
processes that survive a kill. `MarkStale` belongs to the task manager, which the
server does not start today; it is modelled because the reconciliation recovers
rows it would write.

### RelayContract and RelayClient

`RelayContract` is the abstract specification: `connected`, `stopped`,
`notified`, and four steps (Drop, Reconnect, Stop, Notify). A stopped client or
one whose close handler has run never reconnects.

`RelayClient` begins where Connect and Start have succeeded. `reader`, `writers`
and `loop` are the goroutines, `conn` the socket `Client.conn` refers to, and
the flags are the code's atomics. The read loop's deferred function is two
steps: the connection is marked down and the write loop told; then the decision
whether to reconnect. Stop is four: `stopped` under `wgMu`, the signals, the
close, the end of the wait. `Explore` admits a break during the reconnect
callback (`flap`), an expired token and Stop. `Contract` instantiates
`RelayContract` with `stopped <- Down`: what counts for the pod is the moment
Stop has marked the client disconnected. Left out: frames and the send queue;
`DeliverNewToken`, which nothing calls, so that waiting for a token only delays.

### PodRelay

One pod. A member of `Subs` is an execution of OnSubscribeTerminal and the
client it creates; a member of `Closers` an execution of DisconnectRelay, by
OnTerminatePod or OnUnsubscribeTerminal. The four phases of a subscription are
separate because `relayMu` is not held while it stops and dials. `life` moves as
`RelayContract` allows. `clobbered` records that a close handler found itself
current and then cleared the reference to a newer client.

### RelayChannel and RelaySubscribers

`RelayChannel` is the manager and the channels of one pod key: pending
publishers and subscribers, `SetPublisher` with `publisherReplaceMu` held from
the swap over the close of the old connection to the start of the new
forwarder, disconnects with the identity check by pointer and epoch, the
reconnect timer, `closeInternal` in its steps, and `Close` of the manager
(`managerOpen`). The server stops accepting connections before that, but handlers
past the check still connect, so that this flag holds no step of the model back
and is no variable of it. `CloseChannel` has no callers.
`RelaySubscribers` is one open channel: a browser is inserted, the buffer copied
and replayed, while the forwarding goroutine buffers and broadcasts, a snapshot
clears the buffer, sockets break and the two removers (reader and broadcaster)
race; `received`, `missed` and `sent` are history. They are apart because
neither reads what the other writes, except that a closed channel has no
browsers, which `ClosedHoldsNothing` is about.

Bounds: 2 publishers, 2 browsers, 2 generations of the channel; 2 browsers, a few
messages and a buffer smaller than them, so that eviction happens. Like
bufferOutput, `BufferOutput` evicts from the front as many messages as the limits
on their count and on their total size demand.

### RelayRegistry

One relay and one backend: the relay's request under way and its handler, the
entry and its age, the record and the key in Redis, the health check between its
read and its write lock, deletions that go on after the unlock. Faults (backend
restarts, lost requests and answers, failed store calls, forced
unregistration, a crash) are bounded by `MaxFaults`. Left out: load, latency,
geography and the choice of a relay; the TLS and DNS set-up of Register.

### Autopilot

`trigger` are the goroutines that run OnPodWaiting, one step per lock: the
deduplication, takeover, phase, limit, count, decision. `deciding` counts the
decision goroutines; `decisions` and `early` are history. User commands come
one at a time, as the stream delivers them. Left out: the state detector (it
may trigger at any time), the control process (it succeeds or fails), reports.

### RunnerUpgrade

Commands and pods of one runner. `restartFn` is what the build installs: `exec`,
where a successful restart does not return (`Exec`), or, on Windows, a request to
the service manager, or to the user of an interactive process (`service`). The
second returns while the old process runs on (`RestartReturns`): the command ends
in `handed`, with `draining` set and `upgrading` cleared, and the restart comes
later (`ServiceRestart`), perhaps in the middle of the next upgrade, or never.
Either way the new process has no flags and no handlers, and keeps the pods with a
daemon. Download and verification are one step.

### LoopRuns

One loop with its rows, their pods reduced to a status and an autopilot phase,
and every goroutine that may finish a run as a *task* with its source and step
(finish, statistics, runtime state, retention, kill). `finished` and `deleted`
keep the history of rows; `uncounted` are runs whose row or loop was gone when
their statistics were due. Events are delivered in any order or lost in a crash.
A pod that is `running` stands for one that is `initializing` too, which the
cap and the timeouts treat alike; the other two active statuses, `paused` and `disconnected`,
are written by nothing that runs in production. `Scenarios` selects the number of runs, the mode and the user's and the
environment's moves of a behaviour, all in one run. Left out: cron
arithmetic, prompts, webhooks, tickets.

### The MC modules

`MCRelay` and `MCSessions` put modules without common state next to each other:
a behaviour picks one part and moves it alone, so that the run explores the
sum, not the product, of their states. `MCSessions` extends its four parts, and
`MCRelay` the client and the channel (the registry, which shares names with them,
is an `INSTANCE`). This is why specifications have names of their own: `PodSpec`,
`UpgradeSpec`, `WatchSpec`, `ChannelSpec`.

## 4. Runs

| Run | Instance | Checks |
|---|---|---|
| `ConnectionManager` | 1 runner, 2 streams, 1 sender, shutdown, fair | types; the contract (stale removals take out nobody, one callback at most); a callback once all handlers are gone; the count; no send on a closed channel; handlers finish |
| `RunnerLink` | 2 streams; breaks, slow and rejected handshakes, reconnect signals, pings | types; an open connection is the registered one, or is being closed by the timeout checker |
| `RunnerLinkLive` | 2 streams; dead directions, crashes, fair | the monitor heals; a served runner is online |
| `PodLifecycle` | 1 pod; both restarts, build failures, PTY errors, coordinator termination; thresholds 1 and 2; fair | types; processes are tracked; live pods recover |
| `PodFinished` | 1 pod; breaks, commands that cannot be built, REST termination, stale cleanup; orphan threshold 2; fair | finished pods disappear; lost pods stop being active |
| `PodCount` | 1 created pod and 1 stranger; build failures, early output; fair | the count converges; the stranger is terminated |
| `Relay` | client with Stop and an expiring token; 2 publishers, 2 browsers, 2 channels; 1 relay and 3 faults; fair | types; one writer; the contract; reconnection; one forwarder; closed holds nothing; open is registered; the reconnect timer spares a publisher that is back; the replace mutex is released; abandoned channels close; live relays are registered, gone ones forgotten |
| `Sessions` | 2 browsers, 2 messages and a buffer of 1; 2 subscriptions, 1 disconnection, 2 relays; 1 iteration (1 more on approval), 2 triggers; 3 upgrade commands (1 forced), 2 pods | types; joining leaves no gap; keep-alive; no stray client; Stop ends decisions; the budget; one upgrade |
| `LoopRuns` | 2 runs, cap 1, 1 row retained, six scenarios, and 1 autopilot run under four moves; fair | types; each run is counted once; the cap; every run ends |

Two streams are what replacement and stale removal need; the safety of any
number is proved. One pod shows every race between a pod's own messages, because
no handler reads another pod's row; the count and the treatment of unknown pods
need two. Threshold 2 tells "after the first report" from "after enough"; the
properties hold for larger thresholds by the same steps repeated. Two runs and a
cap of one are the smallest loop in which a trigger meets a run that is being
finished. Deadlock is checked for the fleet (`RunnerLink` and `PodLifecycle`
runs), which never stops; the other instances are used up: connections,
messages, faults and runs are finite.

Three runs end in a violation, each of a sentence in the repository:

* `RelayClientFlap`: "Unexpected disconnect - attempt reconnection"
  (`runner/internal/relay/client_loops.go:54`). A connection that breaks while
  the previous reconnect loop still runs its callback finds the flag set; no
  loop is started, the close handler is not called, and the pod keeps a client
  that is down. The `Relay` run shows that without this the client reconnects.
* `LoopCancel`: a terminated pod means the run was cancelled
  (`backend/internal/domain/loop/loop_run.go:172`). Cancelling a run with an
  active pod goes through `PodCoordinator.TerminatePod`, which writes
  `completed`; the run is counted as a success.
* `PodTerminated`: `terminated` is terminal (`domain/agentpod/pod.go:165`). A
  PodCreated that arrives later makes the pod running.

Seen while modelling and not made into a run:

* streams and pods: `receiveLoop` does not watch the cancelled context
  (`runner_adapter.go:233` says it exits), so a closed connection is served until
  its RPC ends; a heartbeat buffered before a disconnect is flushed after it and
  shows a runner that is gone as online; placeholders count as reports, so a build
  longer than two heartbeats is recovered to running
  (`pod_reconcile_handler.go:74`); a disconnect fails a pod whose process runs
  when its PodCreated was lost (`pod_disconnect_handler.go:31`); `initialized` is
  set on the connection the map holds, not on the one the message came from
  (`connection_manager_handlers.go:72`); the miss count survives REST
  termination; a create command that cannot be built leaves its row `initializing`
  until missed heartbeats orphan it (`pod_orchestrator.go:255`); the check for a placeholder (`message_handler.go:188`) and the
  second Put (212) leave a window in which a terminate takes the placeholder only;
* relay client: Stop may forget a socket stored between its close and its
  forget; the close handler compares and clears in two steps; DisconnectRelay may
  clear the router of a newer client; a subscription that was under way may
  install a client on a terminated pod;
* relay: input control can be kept by a browser removed while its request is
  handled (`terminal_channel.go:323`); a reconnect timer of an earlier disconnect
  may close the channel early after a second one; replay and broadcast may repeat
  or reorder output for a browser that joins;
* registry: a record deleted after a new registration is healed only by the next
  restart's 404; the backend has no route for the relay's session-closed call;
* autopilot: terminal phases are not final (Handback), Resume starts no
  iteration, and the initial prompt resets the counter;
* upgrade: `draining` is never consulted when pods are created, so a restart
  loses pods that are being built; in an interactive process on Windows
  `RestartForUpdate` returns nil and restarts nothing, so the runner stays in
  draining mode although `message_handler_upgrade.go:121` expects it to exit;
* loops: `max_iterations` is missing from the subscription's phases; a pod key
  that could not be written is only logged; Delete does not lock the loop's row;
  orphaned pods neither time out nor count towards the cap; a run whose row is
  trimmed before its statistics is never counted.

## 5. Fairness

Weak fairness stands for "a goroutine that can run does" and "a ticker
ticks": handlers, loops, flushes, heartbeats, cooldowns, timers, the scheduler's
checks, commands in the hands of a runner goroutine. Strong fairness is assumed
three times: for `Close`, which waits
for the write lock of a Go `RWMutex`, and a waiting writer blocks new readers;
for the runner's read loop, whose messages keep arriving while it is
scheduled between ends of streams; and for a dial of the relay client, whose
attempts go on without limit against a relay that accepts its token. Nothing else is
assumed of the environment: no runner connects, no stream ends or stays up, no pod exits,
no build finishes, no user acts, no publisher returns. Time passes for a relay that is
gone. The liveness properties therefore begin with what has to stay true ("while the
stream stays up ...").

## 6. Proofs

`ConnectionManagerProofs` proves, for any sets of runners, streams and senders:
`TypeCorrect`, `CountIsExact`, `SendIsSafe`, `NoEntryLeaks`, `OneCallback`,
`DeparturesAreReported`, the action property `GenerationCheckWorks` and the refinement
`ManagerIsAtomic`. None of the invariants is inductive alone.
The strengthening `IInv` says in addition that generations in use are distinct
and below the counter (so equal generations mean the same connection), that a
lock is held exactly by a handler inside AddConnection, that an entry's handler
is serving or about to remove it, that a callback has run only for a connection that left
the map and is not about to be reported again by its handler or by the checker,
and that closed channels have no sender inside. `DeleteCounts` is the
arithmetic of a removal, from the cardinality theorems of the library. For
`DeparturesAreReported`, `RegisteredOrTold` says that a runner once registered has an
entry, or somebody has told or is about to tell of its departure. For
`ManagerIsAtomic`, `MatchesIsOwn` (the generation check recognises the caller's own
connection) makes every deletion one of the contract's, and the exclusive ways out of
the map make every callback the only one of its stream. `OneCallback` and
`GenerationCheckWorks` are its two best-known consequences, proved directly.

`RunnerLinkProofs` proves `TypeCorrect` and `OpenIsRegistered`. The
strengthening is that the registered stream is one whose handler is serving or
about to remove it: without it, a removal or a reused slot could leave an open
connection unregistered. The one exception the property names, a connection whose
entry the timeout checker has deleted and which it has yet to close, exists in the
code: RemoveConnection unlocks before it calls Close.

`PodLifecycleProofs` proves `TypeCorrect`, with the bounds on the miss and
report counts, and `ProcessesAreTracked`. The strengthening says that the
create command of a pod is sent at most once and only after its row exists, and
that there is no process before OnCreatePod starts one; otherwise a second creation
could replace the store entry of a running process.

`RelayClientProofs` proves `TypeCorrect`, `WritersExclude` and the refinement
`ContractHolds`, whatever `Explore` admits. The strengthening: the
reconnect loop is alone from the wait for the old loops to the start of the new
ones; a connected client has a read loop; Stop sets `stopped` before everything
else; and a client whose close handler ran is stopped or has neither reader nor
loop. Each step then is a step of the contract or changes nothing the pod sees.

`RelayServerProofs` proves about `RelayChannel`, for any number of publishers,
browsers and channels: `ChannelTypeCorrect`, `ForwardersExclude` (`OneForwarder`),
`ClosingIsComplete` (`ClosedHoldsNothing`), `ManagerReachesOpen`
(`OpenIsRegistered`) and `TimerIsHarmless` (`TimerSparesPublisher`). The invariant
`ChannelInv` says where each goroutine may be while `publisherReplaceMu` is held and
by whom; that an open connection set on a channel is its publisher or is about to be
closed by the one that replaced it (without this, a forwarder could survive that
nobody waits for); what `closeInternal` has let go of after each of its steps; and
that a channel that waits for its publisher has none. `RelayTypeCorrect` and
`RelayIsSafe` say the same of the composition `RelaySpec`, together with `OneWriter`
and the contract of the client.

`RelaySubscribersProofs` proves `WatchTypeCorrect`, `JoiningLeavesNoGap` and
`KeepAliveIsRight`, for any browsers, messages and buffer limits. For the first,
`NothingIsLost` keeps an account per browser: it has all that was broadcast since it
was inserted except the message under way, and once it has copied the buffer it has, or
is still owed by replay or broadcast, all the buffer holds; a snapshot may empty
the buffer and the limits may evict from it between any two of these steps. The
elements a sequence keeps under `Append`, `Tail` and `SubSeq` are lemmas. For the
second, `LeavingStartsTimer` says that when nobody watches the timer runs, or the
remover that took the last browser out has yet to start it.

`SessionsProofs` proves the other parts of `MCSessions` and their composition:

* `AutopilotTypeCorrect`, `StopIsComplete` and `BudgetIsKept`, for any number of
  triggers. The budget's strengthening is an account: decisions, plus iterations
  counted whose decision has yet to start, are at most the counter plus what the
  initial prompt made it forget;
* `PodTypeCorrect` and `ClientsAreKept`. A goroutine about to take the pod's client
  must hold none (`HandsAreFree`), or the one it held would be forgotten;
* `UpgradeTypeCorrect` and `UpgradesExclude`, for any number of commands and pods;
  `OneUpgrade` is inductive together with the types. It says of `draining` that it
  holds while a command works and that only a restart handed to the service manager
  keeps it set afterwards;
* `PartsBehave`: a behaviour of `SessionsSpec` is one of each part's specification,
  which stutters when another part was picked. `SessionsTypeCorrect` and
  `SessionsAreSafe` follow, so that what the `Sessions` run checks is what is proved.

`LoopRunsProofs` proves `TypeCorrect`, `CapHolds` and `RunsAreCountedOnce`, for any
number of runs, cap, retention and scenarios. `StartsRows` (StartRun works on a row
without a pod key) and `StatusIsFinal` (an unfinished row is pending) make
every run the cap is about one that `TriggerRunAtomic` counts; `OnlyTriggersRun` shows
that nothing but a trigger adds one. For the counters, `OneCounter` says that a finished
run has at most one completion that still has to count it, which carries the row's
status, and none once its count was given up. Each step then ends a run, counts one,
loses all goroutines, or does not touch what the counters are about (`StepCounts`), and
the two sides of each equation move together (`EndIsOwed`, `CountIsPaid`).

All assume only what the modules' `ASSUME`s or the theorems' own hypotheses state:
positive thresholds and limits, finite sets where something is counted, and that the
"none" values are none.

Only model-checked: everything under fairness (`HandlersFinish`,
`HeartbeatMonitorHeals`, `ServedRunnerIsOnline`, `LivePodRecovers`,
`FinishedPodDisappears`, `LostPodLeaves`, `CountConverges`, `Reconnects`,
`ReplaceMuIsReleased`, `AbandonedChannelCloses`, `LiveRelayIsRegistered`,
`GoneRelayIsForgotten`, `RunsComeToAnEnd`): liveness needs the fairness conditions and
with them ENABLED, which TLAPS does not reach. Every invariant and action property
that a passing run checks is also proved.

## 7. Not modelled

The repository has some 135,000 lines of implementation, most of them a web front
end, REST handlers, CRUD services, generated protocol code and infrastructure set-up.
The modules here are about the part with state that several goroutines, processes or
messages share. The rest is left out for these reasons:

* the event bus and WebSocket hub are best effort and nothing reads their state back;
* the terminal emulator and output aggregator are about bytes;
* the load balancer is arithmetic on measured loads;
* bindings read a row, check it and save it whole: two operations at once may
  overwrite each other, which needs no model to see;
* the pod daemon is represented by its result, an arbitrary set of recovered pods;
* `GracefulUpdater` and `BackgroundChecker` of the updater have no production callers;
* the extension and skill importers, tickets, channels, billing, organizations, REST,
  web, mobile and command line are sequential updates of single rows, file handling and
  presentation; generated code (`proto/gen`) has no logic of its own.
