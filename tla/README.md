# A TLA+ model of OmniBinder

OmniBinder is an RPC and publish/subscribe middleware in C++. A central
*ServiceManager* process keeps the registry of services, topics and watches.
Every application process holds a *runtime* with one control connection to the
ServiceManager and direct data connections (TCP or shared memory) to its peers.

This directory holds TLA+ models of the parts whose correctness depends on the
order of events, the TLC configurations that check them on small instances, and
TLAPS proofs. `PROJECT.json` lists components, runs, mutants (a plausible bug
for each checked property, which the property must detect), the source lines of
every definition, findings and hazards.

## The system and its parts

| Part | State | Operations | What makes it hard | Module |
|---|---|---|---|---|
| Service registry | entries by identity, fd index, handle counter | add (with take-over), remove by name, identity, fd | take-over by another connection, counter wrap | `ServiceRegistry` |
| Topic manager | publisher slots, subscriptions, fd indices, counters | publish, unpublish, subscribe, unsubscribe, removal by fd or service | quotas, indices that must shrink exactly | `TopicManager` |
| Watch notifier | watch groups, two indices | subscribe, unsubscribe, remove, match | removal during a notification loop | `ServiceWatchNotifier` |
| ServiceManager | clients, sessions, deadlines, the three above, diagnostic watches | one handler per message, accept, disconnect, deadline | a failed send closes a client in the middle of any handler | `ServiceManager` |
| Shared-memory ring | two cursors, cells, an eventfd | send, drain | two processes, weak memory, wake-ups on empty only | `ShmRing`, `FrameQueue` |
| Owner thread | posting queue, eventfd, stop flags | start, stop, API calls, poll | threads racing with start and stop | `OwnerLoop`, `SerialCalls` |
| Waits and control session | stack of waits, reply slots, connection flags | invoke, request, reconnect, restore, heartbeat | all of it happens inside the polls of other waits | `RuntimeSession` |
| Data connections, local services, topic runtime, timers, handshake, message reader | | | | planned, see the last section |
| Serialization, platform layer, C API, logging, IDL compiler, command-line tool | | | no shared state or pure I/O | not modelled |

`StdMap` has the `std::map` and `std::vector` idioms the ServiceManager's
tables use.

## How the modules correspond to the code

**ServiceRegistry, TopicManager, ServiceWatchNotifier.** Each object is a
record. Each method is an operator that returns the new record and the result.
`ServiceRegistry` and `TopicManager` are also specifications of their own, with
one action per method. Names, endpoints and topics are model values. `BadName`
stands for a name that validation refuses. The 32-bit handle counter counts
modulo `HandleMod`. The IDL hashes of topic slots are left out.

**ServiceManager** instantiates the three. One thread runs every handler to its
end, but any send may fail, a failed send calls `closeClient` on the spot, and
`closeClient` sends notifications itself. The variable `stack` is the call
stack: a handler runs to its first send and pushes the rest of itself as
frames. A new event is taken only when the stack is empty. Each send succeeds
or fails by choice. `told` and `heard` are history variables for what watchers
and subscribers were sent, and `dangling` records reads of a deleted
connection. What clients ask for is a *workload* (`load`), chosen in the
initial state and fixed for the behaviour: one run covers several. In a steady
workload a connection that says hello twice repeats its identity, as the
runtime in `src/src/core` does; the diagnostic workload is not steady.

**ShmRing** models one ring, its producer and its consumer, each load, copy and
cursor store a step. A cell is identified by the byte it holds. With `delayed`
TRUE a cursor store may become visible after a later load of the same thread,
which release/acquire ordering permits. `role` chooses between the
drain loops of the server and of the client. `FrameQueue` is the abstract FIFO.

**OwnerLoop** has one step per access to shared state by the owner, by each
caller and by each stopping thread. `SerialCalls` is its abstraction: calls run
one at a time, once each, or are refused.

**RuntimeSession** models the owner thread of a runtime as a stack of
activities (waits, reconnections, restores, heartbeats). Time is relative:
`left` is the shared deadline minus now. The ServiceManager, the peers and the
network are the environment, and each misbehaviour uses up one of `MaxFaults`.
The requests of `restoreControlPlaneState` are abstracted to `RestoreSteps`
requests, the hello first. Any of them may fail to be sent or answered and end
the restore; a refusal ends it only for the first `Refusable` ones (the hello and
the registrations), because the code ignores a refused watch, publication or
subscription. Diagnostic watches are left out.

## Runs

Every run takes well under five minutes with two workers.

| Run | What it shows | Distinct states |
|---|---|---|
| `registry` | Index by fd exact, handles valid, other services untouched by any call. 2 names, 2 instances, 3 fds, a handle counter that wraps at 3. | 51,483 |
| `topics` | Indices, counters and quotas hold; a close takes all of its own and only that. Each quota is below what the instance can ask for. | 91,369 |
| `sm_watch` | Three workloads: restarting runtimes that watch on three connections, watches with wildcards and groups of filters over two instances, diagnostics of pids that are shared and change. No table mentions a closed connection, sessions, pids and diagnostic maps are exact, and the last news of every watcher is right (exceptions below). | 1,811,992 |
| `sm_session` | Exact deadlines, every cascade of closes ends, no connection without hello stays. | 102,284 |
| `sm_topic` | Two workloads: two runtimes on one topic, one runtime with two instances. Publisher slots belong to the owner of the instance; no subscriber misses a publisher. | 1,912,214 |
| `shm_ring` | Both memory orders: FIFO of whole frames. Program order: every frame is delivered, so no wake-up is lost. | 150,566 |
| `owner_loop` | Calls are serial and return, none is dropped by a stop, stop ends start. | 86,624 |
| `runtime_session` | Slots belong to waits, each wait has its own deadline, the restore guard is exact, a reply that has arrived is returned, every call returns, the session recovers once the environment stops failing. | 358,882 |

`WatchersKnowOnline` and `WatchersKnowOffline` name their exceptions in their
definitions: a runtime that replaces its own session in the same incarnation is
closed without news, by design, and the finding `RemovalsAnnounced`.

### Why the bounds are enough

Three connections allow one to act, one to be taken over and one to watch. With
two instances of a name a lookup by name can pick the wrong one. The ring of 7
cells with prefixes of 2 lets prefix and payload wrap separately, a frame of 4
fills it exactly and one of 5 never fits. `MaxPolls` = 1 is what separates a
wait that consumes a wake-up from one that does not. Two nested calls and two
faults let a session be lost again during its own restore. These are reasons,
not proofs: except for the registry, nothing is established beyond the
instances.

### Fairness

* `ServiceManager`: a handler goes on (weak), and the hello deadline of a
  connection is served in spite of other events (strong): nothing re-arms it.
* `ShmRing`: the consumer's loop runs, a started send goes on, stores become
  visible. Nobody has to send.
* `OwnerLoop`: threads inside a call are scheduled, a reply wait ends by its
  deadline however often the loop is woken, and a poll returns at the latest
  with the repeating heartbeat timer that `start()` adds. Nobody has to call
  `start()` or `stop()`.
* `RuntimeSession`: the owner goes on, time passes, the heartbeat timer
  repeats, its acknowledgement timer fires, and a reply or acknowledgement that
  is neither lost nor late by a counted fault is delivered. Since faults are finite, the liveness properties speak of an
  environment that eventually behaves.

Deadlock checking is off where the system may stop: the registry and topic
tables (no call is owed), the ring after its last frame, the loop after stop.

### Runs that find a disagreement

Four runs show the code doing other than a comment or document says. Details and
quotations are in `PROJECT.json`.

| Run | Disagreement |
|---|---|
| `sm_watch_stale` | A registration whose reply fails is announced offline, then online. |
| `sm_use_after_delete` | `conn->fd` is read after a failed send deleted `conn`. |
| `shm_ring_lost_wakeup` | With delayed stores a frame can stay unread without a notification. |
| `runtime_session_unhurt` | A control reconnection fails direct RPCs in flight. |

### Stated, and violated, outside the runs

Six more properties are stated in the modules and do not hold. They have no run
of their own; adding the property as an INVARIANT to the configuration named
here, in place of its properties, shows the counterexample.

| Property | Configuration | What happens |
|---|---|---|
| `FdNameUnique` (`ServiceRegistry`) | `MCServiceRegistry.cfg` | One connection holds two instances of a name, which the note at `service_registry.h:150` rules out. |
| `DiagTargetsLive` (`ServiceManager`) | `SMWatch.cfg` | The only connection of a watched pid says hello again with another pid; the watch of the old pid stays. |
| `NeverBlocksOnBacklog` (`OwnerLoop`) | `OwnerLoop.cfg` | The loop blocks with a functor queued, until the next timer. |
| `NoUseAfterDelete` (`OwnerLoop`) | `OwnerLoop.cfg` | The loop is deleted while `stop()` or `post()` uses it. |
| `WaitsKeepSlots` (`RuntimeSession`) | `RuntimeSession.cfg` | A reply that arrived before a reconnection is lost and its wait times out. |
| `ReadyMeansConnected` (`RuntimeSession`) | `RuntimeSession.cfg` | The runtime is ready without a connection. |

## Proofs

`ServiceRegistry_proofs` proves, for all constants that satisfy
`RegistryAssumption`,

    THEOREM RegistryCorrect == Spec => [](TypeOK /\ FdIndexExact /\ HandleNeverInvalid)

`FdIndexExact` compares a map of vectors with a map of entries and is not
inductive by itself: erasing the first occurrence from a vector removes an
element only if the vector has no repetitions, and a step needs the types of the
entries. The inductive invariant `RegistryInv` says that the vectors are
non-empty and without repetition and that the set of identities listed for an fd
(`Listed`) is the set of entries it controls (`Controlled`). There is one lemma
for each of adding, removing one entry and removing by fd, on top of lemmas
about erasing from and appending to a vector.

Everything else is model-checked only. Liveness stays with TLC in any case,
because the prover does not handle fairness.

## Not modelled, and what comes next

The modules so far stand for about 4,000 lines of the roughly 21,000 of the
library and the ServiceManager (headers counted, tools apart). The largest gap is
the data plane of a runtime.

* Planned modules: the timers of the event loop with their batches of collected
  callbacks; data connections with session negotiation, heartbeat and
  reconnection; local services with pending registrations, client sessions and
  dispatch; the topic runtime; the shared-memory handshake; the send backlog of
  the ServiceManager; the message reader as a refinement of a frame queue;
  transport selection as an operator.
* Planned compositions: a runtime's restore against the ServiceManager's
  sessions.
* Planned proofs: the cursor arithmetic and bounds of `ShmRing`, `OthersUntouched`
  of the registry, the indices of the topic manager, `NoCallDropped` and the
  refinement of `SerialCalls`, `RestoringExact` and `DeadlineIsOwn`.
* Left out: encoding of messages, system calls, logging, the C API, the IDL
  compiler, the command-line tool, and the start-up and shutdown of the
  ServiceManager.
