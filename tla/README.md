# Vector Clock Lab: TLA+ specifications and proofs

This directory specifies the Vector Clock Lab: the simulated processes with their
logical clocks and causal delivery, the transport between them, the Chandy-Lamport
snapshot coordinator, the multi-version key-value store, the event bus with the
causal graph and the WebSocket clients it feeds, and the life cycle of the gateway.
TLC checks the modules on small instances; TLAPS proves the main properties of
processes, gateway life cycle, rate limiter, certificate reload and version vectors
for all instances.

## The system

| Part | State | Operations | Interacts with |
|---|---|---|---|
| `internal/clock/{lamport,vector,matrix}` | one clock value | Tick, Send, Receive, Compare, MinKnowledge, CanGC | processes |
| `internal/clock/{version,dvv}` | version vectors, dotted version vectors, sibling sets | Update, Sync, Dominates | KV store |
| `internal/process` | clocks, delivery mode, inbound queue, hold-back queue | InternalEvent, Send, Broadcast, SetDeliveryMode, Deliver, handleMessage | transport, bus, coordinator |
| `internal/simulation/transport.go` | channels, delays, drops, reorder buffers, partition | Send, forward, Inject*, SetPartition, ClearFaults, Close | processes |
| `internal/simulation/simulation.go` | the set of processes | SpawnProcess, KillProcess, SendMessage, TriggerSnapshot, ... | everything |
| `internal/snapshot` | per-process snapshot state and peers, global snapshots | InitiateSnapshot, OnMarkerReceived, RecordMessage, checkFinalized, Register/DeregisterProcess, Verify | processes, transport |
| `internal/conflict`, `internal/process/kvstore.go` | sibling versions per key | Write, Read, Resolve, Sync | bus |
| `internal/causality` | event graph | AddEvent, AddEdge, HappenedBefore, TopologicalSort, cuts | bus |
| `internal/events` | publish buffer, ring history, subscribers | Publish, Subscribe, Unsubscribe, History, Stop | everybody |
| `gateway` | current simulation, WebSocket clients, token buckets, certificate | setSim, hub start/stop/reconnect, rate limiting, TLS reload, REST | simulation, bus |
| `frontend`, `cmd`, `internal/telemetry`, `gateway/auth` | rendering, wiring, stateless checks | | |

What is hard about it: API calls of many HTTP requests run concurrently with one
run goroutine per process and one forwarder goroutine per channel; locks are
released between the stamping of a message and its hand-over, and between a
decision and its application; the transport loses, delays, reorders and
duplicates; processes join and leave during snapshots; the coordinator calls back
into other packages with locks held.

## Modules

| Module | Models |
|---|---|
| `VectorClock`, `LamportClock`, `MatrixClock` | the clock packages, as operators; `canDeliver` of `holdback.go` |
| `Process` | `internal/process`: API callers, run goroutines, hold-back queue, an abstract transport |
| `MCProcess` | values for the constants of `Process` |
| `ProcessTyping` | proof of the type invariant of `Process` |
| `ProcessSteps` | the inductive invariant of `Process`; its parts about clocks, proved |
| `ProcessCausality` | its parts about messages under way, proved |
| `ProcessTheorems` | the theorems on clocks and causal delivery |
| `ProcessOrder` | the theorems on `vector.Compare` and on Lamport clocks |
| `Snapshot` | `internal/snapshot` with the marker path of `process.go`, the forwarder callback, SpawnProcess and KillProcess |
| `Network` | abstract: what a user of the transport may assume of it |
| `Transport` | `internal/simulation/transport.go`, and the fault handlers of `rest.go` |
| `ConflictStore` | `internal/conflict`, `internal/process/kvstore.go`, the `/kv` handlers of `rest.go` |
| `CausalGraph` | `internal/causality` and `vector.ConcurrentSet`, as operators on a graph value |
| `EventFeed` | the way of an event: process, bus (`internal/events`), causal graph, hub, client |
| `Gateway` | which simulation is served and which goroutines run: `server.go`, hub start/stop/reconnect, reset, scenario, Shutdown |
| `GatewayTheorems` | proofs about `Gateway` |
| `RateLimiter`, `TLSReload` | `gateway/ratelimit.go`, `gateway/tlsconfig` |
| `ServingTheorems` | proofs about `RateLimiter` and `TLSReload` |
| `VersionVectors` | `vector.Diff`/`Apply`, `internal/clock/version`, `internal/clock/dvv`, as operators |
| `VersionTheorems` | proofs about `VersionVectors` |
| `MCSnapshot`, `MCTransport`, `MCConflictStore`, `MCEventFeed`, `MCGateway` | values for the constants |

### Process

State: the three clocks of each process (only the one of its `ClockType` moves),
its delivery mode, `inbound`, the hold-back queue `hbq`, and `cur`, what its run
goroutine has taken from the queue together with the mode and the clock it copied
before it released `p.mu`.  `flushing` is the set of processes inside `TryDeliver`,
which keeps `p.mu`.  `sending` holds, per API caller, a message stamped under `p.mu`
and not yet handed to the transport.  `chan` and `late` are the transport.

One action per critical section: `InternalEvent`; `Stamp` (the locked part of
`Send`), then one of `XportSend`, `XportFail`, `XportDrop`, `XportDelay`;
`Broadcast` as one Send per peer that stops at the first error; `Forward`;
`handleMessage`, then `deliverImmediate`, `deliverCausal` or `Enqueue`; `TryDeliver`
per iteration of its loop, `TryDeliverReturn` when a scan finds nothing.

History variables (`ticks`, `past`, `log`, `sent`, `delivered`, `receipts`,
`alwaysCausal`) define happened-before independently of any clock: `past[p]` is the
set of events in the causal past of `p`, carried by messages.

### Snapshot

A process is the number of its events and the messages it received.  `perSnap`,
`peers` and `snapshots` are the coordinator's maps.  `run[p]` is where `p`'s run
goroutine is inside the marker path (it then holds `p.mu`), `call[s]` where the API
call that initiates `s` is, `fwd` what a forwarder has in hand, `updating` the
RegisterProcess and DeregisterProcess calls under way.  `PsFree`, `PFree` and
`SimFree` say that `ps.mu`, `p.mu` and `s.mu` can be taken.  Each lock region is an
action, in the order of the code: capture, lock, markers one by one;
`HandleMarker`, `OnMarkerReceived`, `ForwardMarker` per peer, `StillRegistered`,
`CheckFinalized`, `Report`, `Complete`.  A killed id is not spawned again, messages
are delivered immediately and no fault is injected.

### Transport and Network

`Send` copies the fault state of its channel under `t.mu` (`Send`), unlocks, and then
works on the copy; each later access to shared state is a step: `Drop` (the reset of
`dropNext`), `Swap` (emptying the reorder buffer), `Peek` (the look at the map without
the lock) and `Arm`, `Put`, `PutFirst`, `PutSecond` and `PutFails` (the non-blocking
channel operations).  `MapRace` is the Go runtime ending the program when the unlocked
look meets a writer.  `forward` and `deliverFn` are the forwarder, `sendDelayed` one
goroutine per delayed message, `Inject` the fault handlers.  `before`, `accepted`,
`handed`, `overlapped`, `disturbed` and `lossy` are history.

`Network` is what the rest of the program relies on: bounded queues that grow at the
end and are handed over from the front, and a set of messages held back that may be
lost or join a queue more than once.  `ImplementsNetwork` is the refinement: a call of
`Send` holds its message as `offered` until it is in the channel, buffered or lost;
`late` is the delayed messages, the buffered ones and those a caller has copied.
`Process` uses a network of its own, which doubles a message only when it is sent.

### ConflictStore

A detector's methods hold its mutex throughout, so `Read`, `Write`, `Resolve` and
`Sync` are one action each; `WriteRefused` is the cap on keys.  What is not atomic is
the client, which writes with the clock of an earlier read (`ctx`), and anti-entropy,
which applies an earlier snapshot (`remote`) late, repeatedly, or to several detectors.
Versions carry the writes their author had observed (`saw`), so that "unseen" is
defined without clocks.  `pruned` remembers, per detector and key, that versions were
trimmed, resolved or synced away.

### EventFeed and CausalGraph

`emit` numbers an event under `p.mu` (`NextSeq`), `Publish` puts it into the bus later,
and only then does a message leave (`unlock`).  The bus loop stores into the ring and
fans out (`store`, `fanout`).  `record` is the causal graph's subscriber, `hubTake` and
`hubFanOut` the hub's goroutine.  Of a client, the handler (`upgrade`, `register`,
`cleanup`), the replay goroutine (`replayRead`, `replaySend`) and the write pump are
separate; `leave` is the browser, which closes or vanishes (`mute`).

The queries of the graph are evaluated whenever the subscriber has caught up, against
the order of the vector stamps.  `HappenedBefore`, `CausalHistory` and
`TopologicalSort` are evaluated on the recorded events with the edges that
`causality_test.go` adds, since as wired the program adds no edge between event ids
(see below); the cut functions use the recorded events as they are.

### Gateway

Simulation `i` owns bus `i`; reset `r` creates simulation `r + 1`.  A reset is
`resetBegin`, `swapSim`, `stopRead`, `stopClose`, `resubscribe`, `start`,
`subscribeCausalGraph`, `stopOldSim`, each a critical section of `simMu` or `h.mu`;
`runStep` is the hub's goroutine, numbered by its pair of channels
`runCancel`/`runDone`; `Shutdown` goes through http, hub, simulation, graph and the
wait for `wg`.  `overlapped` is history: two resets, or a reset and Shutdown's stop of
the hub, overlapped.

### RateLimiter, TLSReload, VersionVectors

The token bucket is `allow` (lazy refill, cap, admission) and `gc` (eviction after an
hour), with token counts as whole multiples of a unit instead of float64.  The
certificate is two files that an operator replaces one after the other while `Reload`
reads certificate, key and file stamp in three steps.  The version-vector functions
are pure.  These have no TLC run; their properties are theorems.

## Runs

Passing runs:

| Run | Bounds | Shows |
|---|---|---|
| `process_causal` | 3 processes (one starts in immediate mode and may switch), 2 callers, 3 sends from P1 to P2 and P3 and from P3 to P2, drop, delay, duplicate | clocks are causal pasts, Compare decides happened-before, causal order, no double delivery, no stale verdict, nothing deliverable left behind |
| `process_matrix` | 3 processes spawned one after the other, 4 sends (also to oneself), internal events, drops | a matrix never overestimates what another process knows; CanGC is safe for a process that has every row |
| `process_live` | 1 sender, 1 receiver, 4 sends, delays | everything sent is delivered |
| `snapshot_cut` | 3 processes, 1 snapshot, 1 message along P1-P2-P3 | participants' cuts, recorded messages, final reports |
| `snapshot_members` | 2 processes, one spawned, one killed | completion under membership changes |
| `snapshot_live` | 2 processes, 2 concurrent snapshots, 1 message | no deadlock among the locks, every snapshot completes |
| `transport` | 1 channel of capacity 2, 2 callers, 3 sends, 2 fault injections of any kind | FIFO where undisturbed, what `Send` accepts is not lost, doubling and extra drops only by overlapping calls, refinement of `Network`, accepted messages are handed over |
| `kv_store` | 3 clients (2 on one replica, 1 on the other), 2 keys, 1 key at most, 2 siblings at most, 4 writes, 1 snapshot | no unseen overwrite, no false conflict, no version born obsolete, caps, newest retained, Sync idempotent, single versions converge |
| `event_feed` | 2 processes; graph with 4 process events, hub with 4 narrations and Stop, both with 1 and 1; buffers and history of 2, client buffer of 1 | causes before effects in the feed, ring history, counted drops, no gap between replay and live events, fan-out survives leaving clients, graph and cut queries agree with the clocks, clients are reaped and catch up |
| `gateway` | 2 resets, a scenario, a Shutdown with a grace period that may expire | served simulation is live, one subscription, one fan-out, consistency between resets, resets and Shutdown complete, nothing is left |

Three sends let a message overtake two others and let a flush release two held
ones; two callers are enough for the one race of `Send` (stamp, stamp, hand over,
hand over).  With three processes a marker has an indirect and a direct way.  Every
race of the transport is between two callers of one channel; the third send meets what
they left, and with capacity 2 it can find the channel full.  Four writes by three
authors give two siblings, a write over them, and one with an older context; the caps
are set so that both are reached.  A bus never waits for a subscriber, so what happens
to one subscriber does not depend on another, and `event_feed` may explore graph and
hub mostly apart: `load`, chosen initially, says which.  Four events overflow every
buffer and wrap the ring twice.  Two resets are enough to overlap; the
theorems cover any number.
Deadlock is not an error in these runs: the program is idle when no API call is
made.

Runs that show a disagreement between the code and what the repository says:

| Run | The repository | The code |
|---|---|---|
| `process_reply_held` | a held message is flushed when its cause arrives | what a process sends after a receipt is never deliverable in causal mode |
| `snapshot_orphan` | no receipt without its send | the initiator may send between capture and markers |

A consequence of `process_reply_held`: for a process that never left the causal modes
`CausalOrder` amounts to the order of each sender's messages, since messages with a
longer causal chain are not delivered at all.

### Conditions and observations

Where a property carries a condition, the code does not do more.  What follows comes
from reading the code while modelling it, and from counterexamples TLC gave to
unconditional forms; none is a run of its own.

Clocks and processes.  The second copy of a broadcast is held for the reason shown by
`process_reply_held`.  With matrix or Lamport clocks a causal-mode process receives
zero vector stamps and delivers nothing (lemma `NothingDeliverable` for Lamport).
`CanGC` looks at the rows present, which for the first process spawned is its own only.
`dvv.Dominates` folds the dot into the vector, so two concurrent writes through one
server with an empty context are ordered and the first is lost.  Diff, the version
vectors and the DVVs have no caller outside tests.

Snapshots.  A message stamped before the sender's cut may enter the channel behind the
marker (`Send` unlocks first); nothing looks again for completion after a killed process
is deregistered; a lone process's snapshot never completes.  `SpawnProcess` gives a
killed id a zero clock again (`simulation.go:187`).

Transport.  One `InjectDrop` can drop the messages of two overlapping calls, and
overlapping swaps can double or lose the buffered message.  Reordering, once injected,
never disarms, whereas the comment at `transport.go:225` speaks of the next two
messages.  When the second half of a swap fails, `Send` reports an error although its
message was sent, and the buffered one is lost.  `ClearFaults` and `InjectReorder`
discard the buffer.  `InjectReorder` has no caller outside tests.

Key-value store. `ConflictIffUnseen` and `NewestNotDominated` hold for clients that
read a key again before they write it again: without that an author reuses a clock and
a concurrent write can be lost (`docs/conflict.md:44` acknowledges it). They are also
limited to keys from which nothing was pruned: once Resolve, a trim or Sync drops a
version, its author's counter can be reused. Siblings are not pairwise concurrent,
because a new version's clock absorbs those of its siblings (compare
`detector.go:35`). In `Sync` the test `dominatesAll` is always true where it is
reached, so a concurrent remote version replaces all local ones and `Conflict` is
never reported; `Sync` ignores the cap on keys. Last-writer-wins compares `Written`
times.

Gateway.  Overlapping resets may close `runCancel` twice; the panic is answered with
500, the graph is not subscribed again and the old simulation is never stopped.
`start()` waits in a loop where its comment says "Force-proceed" (`websocket.go:109`),
so an overlapping reset can hang, and the hub may end on the older of two buses.  The
hub's goroutine and those of its clients are not counted by `wg`.  After a reset the
conflict store still publishes to the first bus (`server.go:222`), and the causal graph
is not cleared.

Event feed.  As wired, edges lead from `<message>-send` to a receive event's id and
no edge joins the events of a process, so `HappenedBefore` between two events of the
program is always false (`todo.md:21` describes this as fixed).  Live events may reach
a client before older, replayed ones, and twice.  Bus order need not be `GlobalSeq`
order across processes.  All clients share `h.writeMu`, and a write deadline is set
before the lock is obtained, so a stalled client can fail a healthy one's write.  What a
full subscriber channel drops is not counted.  `CutBefore` takes `LocalSeq` for the own
clock component, which held messages and markers, not in this model, break.

Serving.  The rate bound needs a rate that fills a bucket within the hour after which
idle ones are evicted; `Retry-After: 1` is honest from one request per second on.  A
certificate replaced between load and stat stays unloaded until the next change
(`StaleOnlyByRace`); a change of the key file alone is not noticed; the client CA pool
is not reloaded.  `NeverOlder` is about the one reload loop the server starts.

### Fairness

Each `FairSpec` gives weak fairness to the goroutines that have work: forwarders, run
goroutines, a call that has begun, the bus loop, the hub, a client's goroutines, a
reset or Shutdown under way, and the timers of delayed messages and read deadlines.
The Go scheduler runs every runnable goroutine, and a mutex in starvation mode is
granted in order.  No API call is ever forced to begin, no browser to act and no grace
period to expire; the run goroutine of a stopped process, and the loops of a bus that
is done, may stop between two messages (their `select` may pick the other branch) but
not inside a handler; a program the runtime has ended (`aborted`) owes nothing.

## Proofs

### Processes

For every set of processes and callers, every assignment of clock types, links, faults
and bounds allowed by `ConstantsAssumption`; the theorems on vector clocks assume that
all processes use them (`AllVector`), the one on Lamport clocks `AllLamport`.

* `Typing`: `Spec => []TypeOK`.
* `ClocksAreCausalPasts`, `CompareDecidesCausality`, `CausalDelivery`,
  `NoDuplicateDelivery`, `NoStaleVerdict`, `HeldMessagesAreBlocked`: the invariants of
  `process_causal`.
* `LamportConsistent`: an event in the causal past of another has the smaller Lamport
  time (`LamportClockCondition`, which no run checks).

The inductive invariant `CausalInv` says: messages anywhere in transit were sent and
are at the right process (`Transit`); a stamp is the clock of its event, which is the
sender's and is unique, and nobody counts more events of a process than it has had
(`Stamps`); the clock a run goroutine copied differs from the current one at most in
the own component (`Copied`); what was delivered is covered by the receiver's clock
(`Received`); and a process that was never in immediate mode has delivered every
message addressed to it that its clock counts (`Prefix`).  The invariants alone are
not inductive: `Copied` is what makes the verdict on a stale copy right (between copy
and use only ticks of the own component happen), and `Prefix` is what turns the
numbers `canDeliver` compares into a statement about messages.  Every step is shown
to be a tick, a receipt or neutral for the clocks (`StepKinds`), so that most parts are
proved for these three cases instead of for every action.  `CompareIsHappenedBefore`
needs `LogInv`: every timestamp, stamp and clock covers the events it counts.
`LamportInv` says that a process's time, and a message's, is at least that of every
event in its past, and that each such event is in the log.

### Gateway life cycle

For every number of resets (`MaxResets`), overlapping in every way, and a Shutdown at
any time: `TypeCorrect`, `NoStoppedSimServed` (`CurrentSimLive`), `SingleSubscription`
(the hub has one subscription, to the bus it listens to), `SingleFanOut` (`OneFanOut`).  The inductive invariant `IInv` adds
to them `Channels` (only the goroutine that `runDone` belongs to may be alive, and a
reset's goroutine has not run before that reset starts it) and `Simulations` (a reset
that has not swapped keeps its own simulation alive, and none owes the current one a
stop).  `QuietIsConsistent` and the liveness properties are model-checked only.

### Rate limiter, certificate, version vectors

* `RateLimited`: in any window a client is admitted at most burst plus rate times its
  length; the bucket's tokens plus what was admitted never exceed that, and eviction
  gives back no more than the hour would have.  `RetryHonoured`: who waits as told is
  admitted.  Both for every set of clients, rate and burst that satisfy `Configured`.
* `ServedCertificate` and `NoOlderCertificate`, for every sequence of replacements, from
  `ReloadInv`: what a Reload has read is between the served and the installed pair.
* `DiffDelivers` (a delta is as good as the clock, for a receiver that has the previous
  one), `SyncIsCompare`, `UpdateDominates`, `WriteSupersedes`, `SyncKeepsSiblings` (nothing
  is discarded that a kept version does not dominate), `SyncCommutes` (two versions may
  arrive in either order, given that distinct ones have distinct vectors).

### Only model-checked

Liveness (fairness is outside what TLAPS proves here), the matrix properties, snapshots,
the transport and its refinement of `Network`, the key-value store, and the event feed
with the graph queries, whose searches are recursive.

## Not modelled

* A process spawned again under the id of a killed one: it needs clocks and membership in
  one model, the product of `Process` and `Snapshot`, which is too large for TLC.
* Subscribing to and unsubscribing from a bus while events flow through it: `EventFeed`
  has fixed subscribers, `Gateway` no events.
* The scripts of `scenarios.go`: fixed sequences of calls that the modules allow in any
  order.  REST handlers that translate JSON to a modelled call or only read;
  middleware for headers, metrics, origins and body size; authentication, whose token
  list does not change after start-up: no state to interleave.
* Telemetry, the server command and certificate generation: set-up of libraries and I/O.
* The frontend: rendering and a proxy.  Of the browser, `EventFeed` has what the server
  can observe.
