# PizzaPi: TLA+ models, model checking and proofs

PizzaPi is a self-hosted relay and web UI for the `pi` coding agent. Workers (TUI
sessions of the CLI) and runners (daemons that spawn workers) connect over
Socket.IO to a relay server; browsers connect to the same relay to watch and steer
the sessions. The relay may run as several processes (nodes) that share one Redis.
This directory holds TLA+ models of the parts of that system whose correctness
depends on interleavings, failures and timing, the TLC runs that check them, and
TLAPS proofs. Paths below are relative to `src/packages/` of the repository.

`tlasany M.tla` parses a module, `tlc -config X.cfg M` runs a configuration,
`tlapm M_proofs.tla` checks the proofs. `PROJECT.json` lists components, runs,
mutants (one per property: a plausible bug the property detects), the map from
definitions to source lines, findings, hazards and theorems.

## 1. Inventory

| Component | State it keeps | Operations | Hard behaviours | What makes it correct | Module |
|---|---|---|---|---|---|
| **Session ownership** `server/src/ws/sio-registry/sessions.ts`, `ws/sio-state.ts`, `ws/namespaces/relay/session-lifecycle.ts`, `relay-state.ts` | Redis hash per session (token, user, `lastState`, heartbeat), Redis lock per session, `localTuiSockets`, per-session job queues, `socket.data` | `register`, `event`, `session_end`, `disconnect`, expiry and orphan sweeps | two sockets claim one id; a disconnect is processed after the reconnect; lease expiry; a handler waits for jobs that wait for its lock; relay crash | one critical section at a time; the snapshot belongs to the owner; an id never changes user; no live owner is torn down; registrations settle | `SessionOwner`, `SessionOwnership` |
| **Event pipeline** `relay/event-pipeline.ts` | queue of accepted events, chunk assembly | check, queue, lock, re-check, apply, publish | token checked before a wait and used after it | events of a superseded socket have no effect; every event is numbered, cached and sent in one order | `SessionOwnership`, `SnapshotStream`, `ViewerSync` |
| **Snapshot sender and assembly** CLI `extensions/remote/{chunked-delivery,chunk-helpers}.ts`, server `relay/relay-state.ts` | `lastEmittedMessageState`, the running stream; `pendingChunkedStates`, `pendingRecoveries` | emit, send a chunk, supersede, finalise, recover | a stream is superseded or its connection replaced half way; events are lost; a recovery asks for what the relay does not have | what is stored is one whole transcript, and in the end the newest | `SnapshotStore`, `SnapshotStream` |
| **Viewer synchronisation** `ws/namespaces/{viewer,snapshot-provider}.ts`, `sessions/redis.ts`, UI `App.tsx`, `lib/session-seq.ts`, `lib/session-lifecycle.ts` | `seq`, event cache; per viewer: activation, signal flags; per tab: cursor, hydration flags, retries | join, replay, resync, recover, watchdog | live events during the replay; a cache that rolled over; a cursor that runs ahead of the content | a viewer is hydrated and has no hole it does not know of | `ViewerSync` |
| **Parent and child links** `relay/child-lifecycle.ts`, `stale-parent-link.ts`, link code of `sessions.ts` and `sio-state.ts`, CLI `extensions/remote/{delink-management,connection,lifecycle-handlers}.ts` | children set and pending-delink set per parent, delink marker per child, `parentSessionId` and `linkedParentId` of the hash, the CLI's retry flags | `delink_children`, `delink_own_parent`, link on `register`, `cleanup_child_session` | a child (re)registers while its parent delinks it; lost acks and retries; parent offline | a delinked child loses its authority for good; a child spawned afterwards keeps its own | `ChildLinks` |
| **Triggers** `relay/messaging.ts`, CLI `extensions/remote/{followup-grace,connection}.ts`, `extensions/triggers/extension.ts` | child: completion, retry timer, question it waits on; parent: received and delivered triggers, batch, cancellations | session_complete, ask, respond, cancel, follow up, acknowledge | lost acks against retries; a batch against a `/new`; an answer against a broken connection | a completion is seen, once; a question does not outlive its conversation | `TriggerDelivery` |
| **Terminals** `sio-registry/terminals.ts`, `namespaces/{terminal,runner}.ts`, CLI `runner/{terminal,services/terminal-service}.ts` | Redis entry, viewers, buffer and GC timer of a node, map of runner sockets | open, attach, resize (spawns), kill, exit, collect | timer against attach; handlers awaiting Redis; the runner's connection replaced under its disconnect handler | one PTY per terminal; its end is seen; what exited is collected | `TerminalLifecycle` |
| **Runner daemon** CLI `runner/{daemon,session-spawner,worker,supervisor}.ts`, `extensions/remote-exec-handler.ts`, server `namespaces/runner.ts` | `runningSessions`, `restartingSessions`, `killedSessions`, attachment directories | spawn, adopt, kill, restart in place, end, sweep | kill while spawning; daemon restart with live workers; session_ended of a connection blip | one tracked worker per session; killed is killed; attachments live with the session | `SessionSpawner` |
| **Runner registry** `sio-registry/{runners,context}.ts`, `runner-control.ts` | runner hash and secret, pending control requests | register, disconnect, command with reply | get-then-set of the secret; reply against timeout | a runner id stays with its secret; a request settles once | parts in `TerminalLifecycle`, `SessionSpawner` |
| **Persisted rows** `sessions/store.ts` | SQLite `relay_session` (user, end time, generation) | start, touch, end, prune | late end of an old generation after a new start | a stale end never ends the new generation; the owner column is written once | parts in `SessionOwnership`, `SnapshotStore` |
| **Server lifecycle** `index.ts`, `health.ts` | `isServerShuttingDown`, sweep timers | start, sweep, drain | shutdown while sockets disconnect; crash | a shutdown keeps the records reconnects need | part in `SessionOwnership` |
| **CLI relay connection** CLI `extensions/remote/*` | `rctx` (relay, parent, pending flags) | connect, register, retry, follow-up grace | ack after disconnect; `registered` never arrives | deferred work is eventually sent, and sent once | parts in `ChildLinks`, `TriggerDelivery` |
| **Push, enrollment, routes, tunnels, agent extensions, the rest of the web UI, type packages** | see `PROJECT.json` | mostly I/O, rendering or configuration | tunnel multiplexing, one-shot claims | | out of scope, with the reason in `PROJECT.json` |

**Interactions.** Workers `register` with the ownership component, which holds the
session lock, evicts the previous record, drains the event pipeline of the node
and writes the new record; its registration also resolves the parent link and makes
the CLI send its transcript again. The pipeline takes the same lock for every event
and checks the shared token, then assembles and stores the snapshot, numbers and
caches the event and sends it to the viewers in the session's room. A viewer that
joins is answered from that cache or has the runner asked for a recovery snapshot.
`disconnect` and `session_end` run as jobs of the same queue. Sweeps call the same
teardown with no owner token. Parents drive children through `delink_children`,
`cleanup_child_session` and triggers, all authorized by the link state. The relay
tells the runner's daemon of session ends, kills, wakes and new terminals over the
runner's connection; the daemon owns the processes.

Each module takes its neighbours at the promise they make: SnapshotStream and
ViewerSync process one event of a session at a time because SessionOwnership shows
that critical sections exclude each other; ViewerSync publishes whole snapshots
because SnapshotStream shows that nothing else is stored; TriggerDelivery takes the
link as severed or not, which is what ChildLinks decides.

`PROJECT.json` "hazards" lists what can go wrong in this code that a test would
hardly reach, each at its line, with the properties that watch it.

## 2. Plan

Done, each model-checked and with proofs: **SessionOwner / SessionOwnership**,
**ChildLinks**, **SnapshotStore / SnapshotStream**, **ViewerSync**,
**TriggerDelivery**, **TerminalLifecycle**, **SessionSpawner**.

Left, in this order:

1. **RunnerRegistry**: the claim of a runner id by its secret, control requests with
   reply and timeout. **SessionRow**: the generation guard of start and end writes.
2. ChildLinks with TriggerDelivery: a delink between a link's write and the room
   join, against a child that waits for its parent.

## 3. SessionOwnership

The life of **one session id** across the relay's nodes. `SessionOwner` is the
abstract promise (one owner, a snapshot of that owner, one user for ever);
`SessionOwnership` is what the code does.

| Variable | In the code |
|---|---|
| `record`, `state`, `age` | the Redis session hash: `token`, `lastState`, heartbeat and `expiresAt` |
| `rowUser` | `relay_session.userId` in SQLite |
| `lock` | `sessionOwnershipLockKey`, `SET NX PX`, released by compare-and-delete |
| `local`, `room`, `bound`, `conn` | `localTuiSockets`, Socket.IO room membership, `socket.data.sessionId`, the connection |
| `queue`, `job` | `sessionEventQueues` of each node and the progress of the job at its head |
| `reg`, `sweep`, `asking` | progress of each `register` handler, of each node's sweep, of handlers that await the owner token |
| `pend` | `pendingChunkedStates`: whose half-assembled snapshot a node holds |
| `closing` | `isServerShuttingDown` |

| Actions | Code |
|---|---|
| `Connect`, `RegAcquire` .. `RegBind`, `RegThrow`, `RegReleaseFails` | `registerTuiSession` and the handler around it: lock, guards on user and row, eviction (clear, delete), reset of queue and chunks, `setSession`, socket map and room, release, reply |
| `EventArrive`, `EndRequest`, `Disconnect`, `TokenAnswer`, `TokenFails` | the three handlers up to the point where a job is queued |
| `JobAcquire` .. `JobRelease`, `ResetJob`, `EventApply` | queued jobs: lock, re-check of the token, effect, release |
| `SweepExpired`, `SweepScan`, `SweepCount`, `SweepRecheck`, `CleanupChild`, `SweepAcquire` .. `SweepRelease`, `Tick` | the two sweeps, the teardown of `cleanup_child_session`, the passing of time |
| `LockExpire`, `Shutdown`, `Crash` | lease expiry, graceful shutdown, loss of a process |

**Abstractions.** A registration draws a fresh random token, so the token is the
socket that drew it; a socket registers once. One action is the code between two
awaits; awaits that only read what nothing else in the model changes are merged.
The TTL of the hash itself is left out (it is refreshed by activity; expiry by the
sweeps is modelled). The row is only its user column, and `recordRelaySessionStart`
happens with the join. `Tick` assumes that a registration takes less than the two
minutes of `HEARTBEAT_STALE_MS`. Deadlock is not checked: the system may stop once
every client is done.

## 4. ChildLinks

The link between **one parent and the sessions it spawned**. Time is counted in
conversations: the parent's k-th `/new` has epoch k, and a `startedAt` drawn after k
of them is k, so the code's `startedAt > epoch` reads `started >= epoch`.

| Variable | In the code |
|---|---|
| `members`, `marker`, `retrySet` | Redis: the parent's children set, `delinkMarkerKey` of each child, the parent's pending-delink set |
| `hash`, `prec` | `parentSessionId`, `linkedParentId`, `startedAt` of each child's hash; does the parent's hash exist |
| `dl` | `delink_children` handlers in the relay (epoch, children left to notify, acks, is the caller still there) |
| `reg`, `own`, `joined` | each child's `register` and `delink_own_parent` handler; its room membership |
| `pconn`, `conv`, `pend`, `timer` | the parent's CLI: connection, number of `/new`, `pendingDelinkEpoch`, retry timer |
| `cconn`, `cpar`, `pendOwn`, `mail` | the child's CLI: connection, `rctx.parentSessionId`, `pendingDelinkOwnParent`, `parent_delinked` events on their way |
| `rehyd` | children that an `isChildOfParent` call is about to re-add |
| `first`, `severed`, `free` | history: first registration; children delinked while nobody was linking them; children whose own `/new` fully succeeded |

| Actions | Code |
|---|---|
| `ParentConnect`, `ParentRegistered`, `ParentDrop`, `ParentTeardown`, `ParentNew`, `ParentAck`, `ParentRetry` | the parent's CLI and its record: `/new`, deferred and retried `delink_children`, evaluation of the ack |
| `DelinkSnapshot` .. `DelinkEnd`, `DelinkThrow` | `delink_children`: epoch filter, markers, retry set, removal, notification of every child with its ack or timeout |
| `ChildConnect`, `RegRead` .. `RegReply` | registration of a child: read, marker check, write, link, room, reply, flush |
| `ChildDrop`, `ChildRestart`, `ChildTeardown`, `ChildEnd`, `ChildDelinked` | the child's connection, restart in place, end, `parent_delinked` |
| `ChildNew`, `OwnRead` .. `OwnAck`, `OwnThrow` | the child's own `/new`: `delink_own_parent` and its retry |
| `Cleanup`, `SetExpires`, `Recheck`, `Rehydrate` | other code that touches the set: `cleanup_child_session`, the TTL, the self-healing `isChildOfParent` |

**Abstractions.** One parent and one user; a child's registrations exclude each
other (that is what SessionOwnership shows). The parallel reads of the snapshot are
one step, as are the marker read and the MULTI of `addChildSession`, and presence and
marker in `RegResolve`. A record without `sessionId` counts as absent, as
`parseSession` has it. Events sent to a socket arrive in order, `registered`
included. The three-second retry of the child's request follows the nack at once.
`Traffic` switches on messages (which re-hydrate), cleanups and TTLs. `OwnThrow` is a
failed Redis call of `delink_own_parent`: each of its writes has a `catch` that answers,
but the first read has none (`child-lifecycle.ts:407`). A request whose read fails is
"lost": nothing answers, the client has no timeout, and only the next connection sends it
again. `OwnDelinkSettles` excepts a request while it is lost, and `Links_lost` shows that
it may stay so for ever. An error that is not a transient one of Redis shuts the relay
down instead, which breaks the connection and is a drop here. Deadlock is not checked:
the bounds, and clients that are done, stop the system.

## 5. SnapshotStream

How the transcript of **one session** gets from the CLI to the relay's record, cache
and SQLite row. `SnapshotStore` is the abstract promise: a working copy and a
persisted copy that only move from one whole transcript to a newer one.

| Variable | In the code |
|---|---|
| `leaf`, `emitted`, `inFlight`, `sender` | CLI: `getLeafId`, `lastEmittedMessageState`, `inFlightMessageLeafId`, the `sendChunkedMessages` run that is not superseded |
| `up`, `wire`, `signals` | the registered connection; events not yet processed; `connected` signals with their recovery nonce |
| `live`, `lastState`, `cached`, `row` | the record, its transcript, the newest cached snapshot, the transcript in SQLite |
| `pending`, `recovery` | `pendingChunkedStates`, `pendingRecoveries` |

| Actions | Code |
|---|---|
| `NewLeaf`, `EmitNow`, `Heartbeat`, `Connected`, `SendChunk` | a new message; `emitSessionActive` from handlers, from the heartbeat when something changed, for a recovery; one `setImmediate` round of a stream |
| `Register`, `Teardown`, `Cut`, `Crash` | registration and the transcript it sends; the disconnect job; a connection that breaks with a prefix of the wire delivered; a relay that dies |
| `WholeArrives`, `HeadArrives`, `ChunkArrives`, `EventDropped` | `session_active`, its chunked form, `session_messages_chunk` with `applyChunkToPendingState` and `finalizeChunkedSnapshot`; a handler that times out on the lock or throws |
| `MarkRecovery`, `RecoveryLapse` | `markPendingRecovery` and its TTL |

Where a transcript is cut is computed by the code's rule (`Sizes`, `ChunkEnd`,
`Boundaries`: truncation of oversized messages, byte limit, count limit) from the
sizes of its messages. A message has two sizes, its own and what `left` of it when
`capOversizedMessagesInternal` has replaced `content` and large `details`, `toolResult`
and `metadata`; nothing says that the second is smaller, since the bulk may be in another
field. Such a message goes into a chunk of its own that is over `CHUNK_BYTE_LIMIT`
(`chunked-delivery.ts:187-190`): `StreamTypeOK` says that no other chunk is, and
`FramesFit`, without that exception, is violated. What a server does with a frame above
its own limit (100 MB) is not modelled. Sizes are positive: a message in JSON is never
empty. **Abstractions.** A transcript is a version; message *i* of it
is the pair of both, so that a mixture would show. The pipeline's handler of an event
holds the ownership lock and is one action. The throttle of the SQLite write is a
free choice. Failed processing is an action with a bound; `CleanMeansCovered` and
`CatchesUp` except runs in which it happened, since the CLI is not told and does not
send again until something changes (a finding quotes the comment that says otherwise).

## 6. ViewerSync

One browser tab that follows **one live session** with small transcripts.

| Variable | In the code |
|---|---|
| `leaf`, `emitted`, `asked` | the runner: messages, those in its last snapshot, recoveries it has been asked for |
| `pub`, `seq`, `cache`, `lastState` | the event being published; Redis: counter, event cache, snapshot of the record |
| `joined`, `act`, `flags` | the viewer's socket at the relay: room, current `activateSession`, signal flags |
| `conn`, `down`, `up` | its connection and the frames on it |
| `gen`, `cursor`, `awaiting`, `hydrated`, `shown`, `retries` | the tab: switch generation, `lastSeqRef`, hydration flags, messages, `hydrationRetriesRef` |
| `passed` | observed only: the cursor moved past content that was not given |

| Actions | Code |
|---|---|
| `Message`, `HeartbeatSnapshot`, `RecoverySnapshot`, `Heartbeat`, `PublishNumber`, `PublishCache`, `PublishEmit` | what the runner sends; `publishSessionEvent` between its awaits: INCR, cache, emit |
| `Activate`, `ActivateConnected`, `ActivateHydrate`, `Echo`, `Resync` | the handlers of `viewer.ts`, split where they await Redis, with the choice among cache, snapshot and recovery signal |
| `Connect`, `Cut`, `Reopen`, `Watchdog`, `SeeConnected`, `SeeEvent` | the tab: (re)connection, a lost one, an impatient click, the hydration watchdog, `connected` and event handlers with their staleness and gap tests |

**Abstractions.** An event without transcript is one that the relay caches (a
heartbeat) or one that it does not (a metadata update). Chunk frames and their gate,
offline sessions and the persisted fallback, switches to other sessions, streaming
partials, truncated tails and swallowed cache errors are left out. The code lets a
cursor move past content in three ways, all findings: the number of `connected`, a gap,
and the last heartbeat, which the relay repeats under the current number when it has
nothing else to give. The observed `passed` records them, and `NoSilentHole` and `Converges` speak of viewers to whom it has not happened.

## 7. TriggerDelivery

**One linked child and its parent**: the completion a child owes at the end of a turn
and the question it asks in the middle of one.

| Variable | In the code |
|---|---|
| `child` | turn, payload of the completion, `sessionCompleteFired`, retry timer and calls that wait for an ack, follow-up grace, queued input, the question it waits on, is it a child, shutdown |
| `net`, `out`, `toChild` | the child's connection at the relay; triggers it sent; frames to it |
| `parent`, `requests`, `toParent` | conversation, tracked, delivered and handled triggers, batch, groups being injected, replies that wait, `staleChildIds`, cancellations and their refusals; its requests; frames to it |
| `linked` | does the relay hold the child for a child of the parent? |
| `lost` | observed only: completions dropped on one of the three ways at `CompletionReaches` |

| Actions | Code |
|---|---|
| `EndTurn`, `AbortTurn`, `StartTurn`, `NoTurn`, `WebInput`, `AskParent`, `Shutdown` | the child's agent and its user |
| `RetryTimer`, `CallTimeout`, `AskTimeout`, `Exit`, `ChildSee` | `fireSessionComplete` with its generations and retries; waits; frames |
| `RelayTrigger`, `RelayAnswer`, `RelayFollowUp`, `RelayCleanup`, `RelayDelink` | the relay's handlers |
| `ParentSee`, `FlushTriggerBatch`, `Injected`, `InjectionFailed`, `Respond`, `ReplyTimeout`, `NewConversation`, `RetryCancellations`, `CancellationTimeout` | the parent: duplicates, the 80 ms batch, injection, answers, `/new`, cancellations and their retries |
| `ChildCut`, `Teardown`, `ChildRegister`, `ParentCut`, `ParentRegister` | connections |

**Abstractions.** A handler of the relay is one step. An acknowledgement arrives with
that step or, for whoever waits, never: one that comes after its wait timed out changes
nothing. Plan reviews, escalations and errors use the paths of these two triggers.
`OnceEach` is about one `/new`: a second one clears `staleChildIds`, and a trigger sent
again is then taken for a new one.

## 8. TerminalLifecycle

**One web terminal on one relay node.** The node talks to Redis over one connection
that answers in order; `ops` is the queue of unanswered commands, each with the handler
that awaits it, and answering one runs the handler up to its next await. That is what
makes the interleavings of this module those of the code.

| Variable | In the code |
|---|---|
| `entry`, `ops` | the terminal's hash in Redis; commands not answered |
| `viewers`, `buffer`, `timer` | `localTerminalViewerSockets`, `localTerminalBuffers`, `localTerminalGcTimers` |
| `sock`, `handlers`, `sizes`, `screen` | browsers: socket, installed handlers, sizes sent, what they were shown |
| `local`, `authed`, `rup`, `closing` | `localRunnerSockets`, registered connections, the runner's connection, lost ones the relay has not noticed |
| `verified`, `check`, `held` | `runnerTerminalIds`, `pendingTerminalChecks` and the frames that await it |
| `pty`, `written`, `toRunner`, `toRelay` | the runner's process and the frames on its connection |
| `spawns` | observed only: how often the runner has been asked for the PTY |

`Connect`, `Leave`, `Resize`, `KillClick` are the browser; `Answered` is any handler going
on (`Lookup`, `Attach`, `Left`, `Size`, `Claim`, `Kill`, `Unspawned`, `Remove`, `Mark`,
`Delete`, `RegisterOwner`, `RegisterRow`, `RegisterSeed`, `RunnerTerminals`, `Forget`,
`ReadyChecked`, `Failed`, `Late`); `TimerFires` is the collection; `RunnerDrop`,
`RunnerConnect`, `RunnerClosed` the runner's connection and its disconnect handler;
`RelaySee` and `RunnerSee` the frames; `PtyStarts`, `PtyWrites`, `PtyExits` the process.

**Abstractions.** Keyboard input, resizes of a running PTY, the hour's TTL, the runner's
index of terminals and its secret are left out. `HalfOpen` FALSE assumes that the relay
notices a lost connection before the runner is back; with it, a `new_terminal` can go
into the old connection. Met while modelling and visible in the module: a viewer that
attaches and leaves before the spawn disarms the timer of unspawned terminals for good;
the exit of a PTY that was killed before it was ready is dropped by the relay.

## 9. SessionSpawner

**One session of one runner**: daemon, workers, supervisor and what the relay knows.

| Variable | In the code |
|---|---|
| `daemon`, `adopting`, `ready` | is it up; `runner_registered` handlers that wait for plugin discovery |
| `starting`, `sweeps` | `new_session` handlers that wait for `findSessionPathById`; attachment sweeps that are running with a list of sessions that lacks this one |
| `entry`, `restarting`, `killed`, `files` | `runningSessions` (with a child handle, or adopted without), `restartingSessions`, `killedSessions`, the attachment directory |
| `child`, `ipc`, `proc`, `asked`, `online` | workers with an IPC channel and what is on it; processes; restarts accepted; what they believe of their connection |
| `rec`, `conn`, `waking`, `link`, `toDaemon`, `toRelay` | the relay: record and its link to the runner, registered worker, trigger deliveries that found no worker, the runner's connection and its frames |
| `doomed`, `astray` | observed only: workers killed, until the kill is lifted; workers that ran when the daemon lost track of them |

`AskRestart`, `ExitRestart`, `Exit`, `WorkerDrop`, `Register`, `SaveFiles` are the worker;
`RelayClosed`, `Sweep`, `FindOffline`, `Wake`, `KillSession`, `RelaySee`, `Cut` the relay;
`LinkDrop`, `LinkUp`, `DaemonSee` (`New`, `Kill`, `SessionEnded`, `Adopt`),
`TranscriptFound`, `PluginsReady`, `SweepFiles`, `ChildEvent` (`Respawn`, `ExitCleanup`)
the daemon; `DaemonStop` and `DaemonStart` its exit with code 42 or another, and the
supervisor.

**What the relay and the daemon do not check.** The relay wakes a session when it finds no
*socket* of a worker (`FindOffline`), and sends `new_session` several awaits later, whatever
has happened since (`Wake`): a worker may live between two connections, its exit may still
be on its IPC channel, a kill or another start may be on its way. It reports a session as
orphaned after the heartbeat's age alone (`Sweep`; the age is a free choice). A
`new_session` whose transcript is not linked waits for a search of the disk, in which a
kill finds no entry and is ignored (`TranscriptFound`). A registration starts a sweep with
a copy of the table (`Adopt`), and the sweep reaches the directory later (`SweepFiles`). Its
listing, `stat` and `rm` are one step: a directory that is made after the listing is not
touched, as if the step came at the listing, and one that is there is removed, as if it came
at the `rm`.

**Exceptions of the properties.** With all that, two workers may run, and files may go.
The properties therefore name the workers that the daemon has *lost track of*
(`astray`): those that ran when it stopped, removed their entry on the word of the relay
(an expiry, an orphan sweep, a parent's cleanup, the blip of an adopted session), killed an
adopted session, or took the exit of another worker, whose handler deletes entry and files
by the session's id (`session-spawner.ts:368, 411`). `OneWorker` speaks of the others.
`FilesKept` says that their files stay, unless the sweep that deletes them took its list
before the worker was started, or the session was adopted since. `KilledStaysDead` speaks of
workers whose kill stands: a start for `new_session`, an adoption and another worker's exit
lift it. `NeverTwice` and `FilesNeverLost` are the same without exceptions, and
`Spawner_twice` shows that the code does not keep them.

**Abstractions.** Handlers of the relay are one step but for the wake (SessionOwnership
has theirs). `rm` of a directory by the daemon's other handlers is part of the handler's
step, so an `rm` still running when the next worker saves its first file is not seen.
A wake that joins one already pending (`pendingSessionWakes`) is not counted again.
`Unstartable` FALSE says that a worker can start; `Spawner_unstartable` shows what
follows when it cannot. Background process groups, acknowledgements of spawns,
registration's awaits and directory checks are left out. Read off the code but not
modelled: the process groups of a killed adopted session are never reaped.

## 10. The runs

| Run | Instance | Shows | States, time |
|---|---|---|---|
| takeover | 3 sockets (two users), 1 node, sweeps, 1 fault | `TypeOK`; an id never changes user; a registration evicts only its own user's record | 1.23 M, 16 s |
| sweeps | 2 sockets on 2 nodes, sweeps, 1 crash | one critical section in the cluster; the snapshot is the owner's; a connected owner stays reachable; the inductive invariant; refinement of `SessionOwner` | 1.34 M, 27 s |
| lapse | the same, leases lapse under live holders, 1 fault, no sweeps | a queued teardown deletes only the record it was queued for, even without mutual exclusion | 0.73 M, 7 s |
| live | 2 sockets, 1 node, sweeps, 1 crash, fair | registrations settle although they wait under the lock for jobs that wait for the lock; the lock is freed; the record of a dead owner goes | 0.12 M, 34 s |
| severed | 1 child, 2 delink handlers, 2 `/new`, traffic, 1 lost connection | a delinked child stays delinked; the inductive invariant | 5.6 M, 62 s |
| settle | 1 child, 1 handler, 1 `/new`, 2 drops, 1 fault, fair | every `/new` is confirmed in the end, a lost request of the child excepted; a confirmed child is nobody's child | 0.51 M, 47 s |
| assembly | 3 versions of a transcript, 1 extra emit, 1 recovery, 1 lost connection or crash, 1 failed event, fair | what the relay stores is one whole transcript; "nothing changed" means the relay has it or is being sent it; refinement of `SnapshotStore`; the newest arrives in the end | 0.84 M, 57 s |
| resume | 1 message, 1 beat, 1 lost connection or click, a cache of 1 event, 1 retry, fair | no hole the viewer does not know of; it is hydrated; it shows everything in the end | 0.93 M, 80 s |
| deliver | 2 turns, 1 question, 1 `/new`, 2 mishaps, fair | a completion is shown to the parent's agent, and once; the child stops retrying only when it is the parent's; waits end with the conversation | 0.40 M, 88 s |
| life | 1 viewer, 2 sizes, 1 kill, 1 piece of output, 1 lost connection, fair | the PTY is asked for once (in `TerminalTypeOK`); an exited terminal is collected; a watcher learns of the end | 1.10 M, 78 s |
| one | 3 workers, 1 each of restart, kill, wake, daemon exit, drop and relay restart, fair | one tracked worker at a time; no killed worker comes back; attachments live with the session and go with it | 2.4 M, 150 s |
| replaced | 1 viewer, 1 lost connection | **counterexample**: the disconnect handler of the runner's old connection, awaiting Redis, removes the new one from the map of runners (`runner.ts:1453`) | violated |

**Other configurations**, kept beside the runs to reproduce what section 11 and the
findings of `PROJECT.json` say, one question each. Violated:

| Configuration | Property | What the code does |
|---|---|---|
| `Ownership_sweepKills` | `SweepSparesLive` | the orphan sweep verifies, waits for the lock, and deletes the record of an owner that connected meanwhile |
| `Ownership_chunkLeak` | `NoChunkLeak` | half-assembled chunks survive into the next registration |
| `Ownership_deadEntry` | `DeadOwnerCollected` | a socket that disconnects while it registers stays in `localTuiSockets` and hides its record from the sweeps |
| `Links_relink` | `NoRelink` | a registration that looked for the marker first links the child again and deletes the marker |
| `Links_epoch` | `EpochFilters` | a disconnect deletes `startedAt`, so a deferred delink spares a child of the old conversation |
| `Links_lost` | `OwnDelinkAnswered` | a `delink_own_parent` whose first read fails is neither answered nor retried |
| `Stream_recovery` | `RecoveryIsRedundant` | a recovery snapshot may be newer than the row, and is not written to it |
| `Stream_recovery`, with the invariant in its place | `FramesFit` | a message that truncation leaves oversized is a chunk over the limit |
| `Viewer_cursor` | `ResumeIsComplete` | `connected` moves an empty cursor past content |
| `Triggers_answers` | `AnsweredIsAnswered` | an answer to a child between two connections is acknowledged and lost |
| `Triggers_arrives` | `CompletionArrives` | a trigger acknowledged by the relay is dropped with the parent's batch |
| `Triggers_leak` | `NoTriggerLeak` | a batch of the old conversation is flushed into the new one |
| `Terminal_void` | `NotIntoTheVoid` | a browser that leaves before its handlers are installed stays a viewer |
| `Spawner_endedDead` | `EndedIsDead` | a blip of an adopted worker deletes its entry and attachments |
| `Spawner_survivors` | `SurvivorsAdopted` | a worker between two connections is adopted by nobody |
| `Spawner_restart` | `RestartHeard` | "restart" of an adopted session ends it |
| `Spawner_twice` | `NeverTwice`; in its place `FilesNeverLost` | a wake starts a second worker beside one that lives; a sweep, or the exit of an old worker, deletes the files of the next |
| `Spawner_unstartable` | `FilesGo` | a respawn that fails leaves the attachments |

Passing: `Links_siblings` (two children: one that does not answer in time does not leave
the `/new` unconfirmed) and `Terminal_tabs` (two viewers: `OutputInOrder`, every viewer
is sent the output in order and nothing twice). Passing too are the invariants of section
12 on small instances, run on the modules of the proofs: `Spawner_inductive` (2.5 M
states, with `Unstartable`), `Triggers_inductive` (0.43 M, two `/new`), `Terminal_inductive` (0.14 M,
`HalfOpen`), `Viewer_inductive` (0.93 M, `ViewerInv` and `HoleInv`) and `Stream_inductive` (0.84 M, on
`MCSnapshotStream_proofs`); `OwnershipInv` and `LinksInv` are in the runs.

**Bounds.** `Max...` constants bound how often clients and the environment act;
handlers, sweeps, acks, retries and timers are not bounded.
*Ownership*: two sockets are the old and the new owner; the third, of another user,
covers an id that changes hands; two nodes cover what one node's memory cannot see.
*Links*: children of one parent meet only in the set of one delink request, hence
`Links_siblings`. Two handlers are a retry or a second `/new` overtaking an earlier
request. Two drops let both sides reconnect in one delink.
*Stream*: the limits are those of the code in megabytes but for the count (2 messages
for 200); the three versions are one cut by count, a small one after compaction, and one
cut by bytes with a message that truncation makes small and one that it leaves oversized,
so that every kind of snapshot supersedes every other. *Viewer*: a cache of one event makes it roll over at once; one message
and one beat are enough for an event that is numbered but not cached, cached but not
emitted, stale or a gap. With two faults, two messages and a cache of one (4.8 M states)
or one message and a cache of two (5.6 M) `NoSilentHole` holds too.
*Triggers*: two turns let an ack of the first arrive in the second; two refusals of a
cancellation stand for ten. *Terminal*: two viewers with one drop (5.5 M) and `HalfOpen`
(4.1 M) were checked too. *Spawner*: three workers are the first, a
restarted one and a woken one, in any order; every event has one occurrence, and the
properties are about two of them crossing. `TranscriptFound` and `SweepFiles` are not
bounded.

**Scope of some properties.** `OwnerReachable` is checked in runs without failing Redis
calls: a registration whose release fails reports an error to a socket that is in the
map. `FreeStays` is checked with `Traffic` off: with it, an `isChildOfParent` that read
the hash before the delink re-adds the child after it. `FilesGo` excepts sessions ended
by a kill, dead ones that stay adopted, whose attachments wait for the sweep of a later
registration, and those for which a worker was started after the daemon had lost track of
another: the flag of a restart may swallow the report of the other one's end. Exceptions of the other modules are named in their sections.

**Fairness.** Weak fairness of handlers: Node's event loop runs every continuation,
Redis answers, and waits end by a timeout. Timers fire. Sockets that stay up deliver,
and clients reconnect (Socket.IO retries for ever). `SweepExpired` is strongly fair
because every pass of the sweep begins with it, so that it cannot be passed over for
ever by passes whose record was momentarily live. The runner's heartbeat is an interval
timer (`Heartbeat` in SnapshotStream, `HeartbeatSnapshot` in ViewerSync). The supervisor
starts a daemon again, and a worker that was told to stop is killed after 8 seconds. The
run `one` needs less (`DaemonFairSpec`): the daemon's event loop, its connection, the
supervisor, and that the relay notices lost connections; its steps are fair together, since
each kind of them happens only so often. A
browser sends the size of its terminal once. Users, agents, crashes, drops and faults
owe nothing, and are bounded. Deadlock is not checked in any run: the bounds, and
clients that are done, stop the system.

## 11. Findings

`PROJECT.json` "findings" quotes each with its lines. They are the configurations of
section 10 that are violated (`Spawner_unstartable` excepted, which shows what an
assumption is for), and six that were met while
modelling and are read off the code: a failed `clearParentSessionId` re-links the
child; a stream kept for chunks that are never sent again; a gap that moves the cursor
past the replay it asked for; a repeated heartbeat that moves it to a number whose
event was not sent yet; the events replayed behind a cached snapshot, which the
tab drops; an input that clears the retry timer of a completion. Hazards that only
such a configuration shows carry a note instead of a property.

## 12. The proofs

TLAPS checks these for every set of sockets, nodes, children, handlers and browsers,
every transcript and every bound. Each module's theorems rest on an inductive
invariant; `PROJECT.json` "theorems" lists them with the property each one states.
What the theorems assume beyond the named assumptions of the modules is in the
third column, and is in every case an assumption without which TLC, or the code,
violates the property.

| Module | Theorems | Beyond the module's assumption |
|---|---|---|
| `SessionOwnership_proofs` | `TypeCorrect`, `TeardownOfOwner` (`NoStaleTeardown`) | none |
| | `OwnershipInvariant`, `MutualExclusion` (`OneInSection`), `SnapshotOfOwner` (`OwnerState`), `OneUser` (`OneUserPerId`), `EvictsOwnUser` (`SameUserEviction`), `Refinement` (`ImplementsOwner`) | no lease lapses under a live holder (`~LeaseMayLapse`) |
| | `OwnerIsReachable` (`OwnerReachable`) | the same, and states without a failed Redis call (`faults = 0`) |
| `ChildLinks_proofs` | `LinksTypeCorrect`, `LinksInvariant`, `DelinkIsForGood` (`SeveredStays`) | none |
| | `OwnDelinkIsForGood` (`FreeStays`) | `~Traffic` |
| `SnapshotStream_proofs` | `StreamInvariant`, `StreamTypeCorrect`, `SnapshotsAreWhole` (`WholeSnapshots`), `CleanIsCovered` (`CleanMeansCovered`), `StreamImplementsStore` (`ImplementsStore`) | none |
| `ViewerSync_proofs` | `ViewerTypeCorrect`, `NoHoleIsSilent` (`NoSilentHole`) | none |
| `TriggerDelivery_proofs` | `TriggerTypeCorrect`, `FiredReachesParent` (`FiredIsRelayed`), `OnceForTwoConversations` (`OnceEach` until the second `/new`) | none |
| | `NoTriggerTwice` (`OnceEach`) | at most one `/new` |
| `TerminalLifecycle_proofs` | `TerminalTypeCorrect` | none |
| `SessionSpawner_proofs` | `SpawnerTypeCorrect`, `OneWorkerRuns` (`OneWorker`), `KilledStayDead` (`KilledStaysDead`), `FilesAreKept` (`FilesKept`) | none |

**SessionOwnership.** That an event writes only the owner's snapshot depends on the
token check made steps earlier, which holds only because nobody else could write in
between. `OwnershipInv` says so: code in a critical section holds the lock
(`HolderHasLock`), and what a registration (`RegKnows`) or a job (`JobKnows`) has
established about record and row still holds. Mutual exclusion follows from
`HolderHasLock`; eviction and refinement are read off single steps. `OwnerReachable`
needs `ReachInv` besides: the owner is in its node's socket map, or the teardown that took
it out is about to delete the record. A Redis call that fails between those two leaves an
owner that nobody reaches, hence the hypothesis. `NoStaleTeardown` needs no
lock at all: `TeardownInv` says that a queued disconnect is for a socket that is gone for
good, and sockets do not connect twice.

**ChildLinks.** `SeveredStays` alone would be broken by a registration that passed its
check; `Undisturbed` adds that no such registration, and no re-hydration, is under way
for a severed child. Additions to the set come only from those two, each of which looked
for the marker first, and only a registration that is linking deletes a marker.
`FreeStays` follows a child's own `/new` through its three writes (`OwnProgress`) and needs
that a child does not register while it waits for the answer (`OwnConnected`) and then
registers without a parent (`FreeRegisters`, `CliForgets`). With `Traffic` it is false.

**SnapshotStream.** The chunk boundaries are recursive functions of the sizes. Induction
is out of the prover's reach, but not a least counterexample: `Extrema` takes from the
well-foundedness of the naturals that a non-empty set of them has a least element, and
each fact about cutting (`BoundariesChain`, `SliceBytesBound`, `AssembledIsWhole`, ..)
is proved by looking at the least number for which it fails. `StreamInv` then says: there
is one version for each stream id, and frames, pending chunks and the running stream with
that id are slices of it (`StreamsOK`), so that a complete set of chunks is the whole
transcript and never a mixture; versions only grow from what is stored over the wire to
the sender (`OrderOK`), which is why the copies of the relay never go back and why
`SnapshotStore` is implemented; and while the connection is up and no event has failed,
no chunk is missing in front of another (`Chained`) and what "nothing changed" compares
with is stored or on its way (`Sent`).

**TriggerDelivery.** `OnceInv`: what the agent has seen is tracked or handled, so a
second copy is a duplicate, in the first conversation (`FirstConversation`). After a
`/new` the tracked triggers are forgotten, and a copy is dropped because its sender is
stale, until the acknowledgement of the delink, behind which nothing comes from the
old children (`SecondConversation`, `DelinkIsLast`). The second `/new` breaks that, and
TLC shows it with `MaxNews` = 2: the confirmed cancellations leave `cancels` empty and the
second `/new` clears `staleChildIds` (`lifecycle-handlers.ts:133`), so that a completion
resent after a lost acknowledgement is taken for a new one. `RelayedInv` is the
invariant of `FiredIsRelayed`: the completion of a turn that has fired is on its way to
the parent, tracked or handled there, in `lost`, or of a conversation the parent has left.

**SessionSpawner.** Nothing is assumed of what the relay sends or when. `SpawnerInv` is
`TypeInv`, `OneWorker` and three facts about the daemon's table. `Tracked`: a worker that
runs and is not astray has an entry, and is the latest one if the entry has a child, so
that a `new_session` is refused while it runs; an entry goes only with a step that puts the
workers astray that run. `KillHolds`: while a kill stands, the session is in
`killedSessions` and out of the table; what changes either lifts it. `SweepsOlder`: a sweep
that would take the files began before the worker of the entry was started. `FilesKept` goes
over the steps that delete files: the daemon's handlers remove the entry with them, and of
sweeps `SweepsOlder` speaks.

**TerminalLifecycle.** `TerminalInv`: the handlers that wait for Redis, in the order of
its answers, with the mark that the claim sets (`AskedIsMarked`), so that no interleaving
asks the runner for a PTY twice.

**ViewerSync.** `ViewerInv`: the cache is in the order of the numbers, the row that is
still to be cached is newer than all of it, and no frame, cursor or activation has a number
that the counter has not reached. `NoSilentHole` speaks of what a tab shows, while the code
keeps of past events only what fits in the cache. `HoleInv` therefore says that there is a
*history*, a function from every number given out to the messages its event carried, for
which the rest holds (a history variable of the proof, not of the model):

- `Claim(h, S, c)`: a message that is not in the transcript `S` is in no snapshot yet, so
  that the next heartbeat sends one, or an event after number `c` carries it. Events with a
  snapshot are honest about it (`Honest`), in the cache (`CacheOK`), on the wire (`FramesOK`)
  and in what an activation read from the record (`ActOK`).
- `FramesOK`: behind a broadcast come all later ones, and a replayed event does not overtake
  what was broadcast before it; `Full`: a viewer that has all up to number `k` is brought
  everything after it (`Follows`), with nothing skipped in front of a replayed event
  (`NoSkip`); `StoredOK`: a snapshot without a number is followed by what it lacks, or is
  older than what the viewer has, and then `passed` is not 0 once it is shown.
- `ViewerOK`: there is a `k`, not behind the cursor, for which `Claim(h, shown, k)` holds, and
  the viewer is disconnected, or `Full`, or `Resuming`: its switch is on its way, activated,
  greeted, or the runner has been or will be asked for a snapshot.

Each action has a lemma that constructs the next history and the next `k`. Once all is
settled nothing is on its way and nobody resumes, so that only messages in no snapshot are
missing, and the runner has none of those. The hard cases are the ones the code's comments
worry about: an activation whose cache answers "nothing after your cursor" (the counter it
compares with was read after the join), a replay behind broadcasts that came in between, a
stale broadcast of a snapshot during hydration, and a miss whose runner signal waits for the
viewer's echo.

**Only model-checked.** The liveness properties: fairness and ENABLED are beyond the
prover. Every invariant, action property and refinement that a passing run checks is
stated by a theorem.

## 13. Not modelled

Everything listed in `PROJECT.json` as `not_modelled`, each with its reason, and what
the sections above name as left out. Most of the repository's 174 000 lines are outside
what a state model says anything about: React components and their state for layout
and dialogs, HTTP routes that read and write one row, git, file and usage services that
call external programs, prompts and tool definitions of agent extensions, generated
service workers, type packages. The lines in `map` are therefore a small share of the
whole; they are most of the code in which processes, connections and timers meet.

Of the modelled components: hub broadcasts, push notifications, metadata patches,
usage, trigger subscriptions and history, links that move to another parent or cross
users, runner warnings and service announcements, tunnels. The lost record of a client
that never registers again after a registration timeout belongs to the CLI connection;
one session's lock timeout makes `sweepExpiredSessions` throw and skip the sessions
behind it (`sessions.ts:1143`), which SessionOwnership, with one id, cannot show;
several check-then-write pairs on hashes in `sio-state.ts` (570, 1021, 1244) can write
a field of a record that is deleted in between.
