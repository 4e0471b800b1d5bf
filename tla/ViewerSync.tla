----------------------------- MODULE ViewerSync -----------------------------
(***************************************************************************)
(* A viewer (a browser tab) following ONE live session: the numbering,     *)
(* caching and broadcasting of events by the relay (sessions.ts,           *)
(* sessions/redis.ts), the hydration of a viewer by viewer.ts and          *)
(* snapshot-provider.ts, and the cursor, the hydration gate and the        *)
(* watchdog of the UI (App.tsx, session-seq.ts, session-lifecycle.ts).     *)
(*                                                                         *)
(* The transcript is the set of its messages, 1..leaf.  An event is a      *)
(* finished message ("msg"), a whole transcript ("snap"), an event without *)
(* transcript that is cached ("tick", a heartbeat) or that is not ("meta", *)
(* a metadata update).  Small transcripts only: SnapshotStream has chunks. *)
(***************************************************************************)
EXTENDS Integers, Sequences, SequencesExt, FiniteSets, FiniteSetsExt

CONSTANTS
  EVENT_BUFFER,           \* events kept in the relay's cache
  HYDRATION_MAX_RETRIES,
  MaxMsg,                 \* bound: messages
  MaxTicks,               \* bound: events without transcript
  MaxFaults               \* bound: lost viewer connections and impatient clicks
                          \* (see Fault)

ASSUME ViewerAssumption ==
  /\ EVENT_BUFFER \in Nat \ {0}
  /\ {HYDRATION_MAX_RETRIES, MaxMsg, MaxTicks, MaxFaults} \subseteq Nat

None == -1        \* null or undefined

VARIABLES
  leaf,      \* runner: messages of the transcript
  emitted,   \* runner: messages in its last snapshot, None before the first
  asked,     \* "connected" (recovery) signals on their way to the runner
  pub,       \* the event being published and how far it is
  seq,       \* Redis: the session's sequence counter
  cache,     \* Redis: the relay event cache
  lastState, \* Redis: messages of the snapshot in the record, or None
  joined,    \* is the viewer's socket in the session's room?
  act,       \* the current activateSession of that socket
  flags,     \* its suppressRunnerSignal, viewerReadyForRunnerSignal, pendingConnectedSignal
  conn,      \* is the viewer's socket connected?
  down, up,  \* frames on their way to the viewer and to the relay
  gen,       \* UI: switch generation
  cursor,    \* UI: lastSeqRef
  awaiting, hydrated,   \* UI: the hydration flags
  shown,     \* UI: the messages on the screen
  retries,   \* UI: hydrationRetriesRef, or None once it has given up
  passed,    \* observed only, see SeeConnected and SeeEvent
  ticks, faults \* how much of each bound is used

runner == <<leaf, emitted, asked>>
redis == <<seq, cache, lastState>>
socket == <<joined, act, flags>>
ui == <<gen, cursor, awaiting, hydrated, shown, retries, passed>>
used == <<ticks, faults>>
vars == <<runner, pub, redis, socket, conn, down, up, ui, used>>

NoPub == [at |-> "idle", kind |-> "tick", item |-> 0, seq |-> None]
NoAct == [at |-> "idle", gen |-> 0, last |-> None, fresh |-> 0, state |-> None]
NoFlags == [suppress |-> FALSE, ready |-> FALSE, pending |-> FALSE]

\* A session that has sent its first snapshot, or whose runner resumed a
\* transcript and has sent nothing but heartbeats yet.
Init ==
  /\ asked = 0 /\ pub = NoPub
  /\ \/ /\ leaf = 0 /\ emitted = 0 /\ lastState = 0
        /\ seq = 1 /\ cache = <<[seq |-> 1, kind |-> "snap", item |-> 0]>>
        /\ ticks = 0
     \/ /\ leaf = MaxMsg /\ emitted = None /\ lastState = None
        /\ seq = MaxTicks /\ ticks = MaxTicks
        /\ \E n \in {Min({MaxTicks, EVENT_BUFFER})} :
             cache = [i \in 1 .. n |->
                        [seq |-> MaxTicks - n + i, kind |-> "tick", item |-> 0]]
  /\ joined = FALSE /\ act = NoAct /\ flags = NoFlags
  /\ conn = FALSE /\ down = <<>> /\ up = <<>>
  /\ gen = 1 /\ cursor = None /\ awaiting = TRUE /\ hydrated = FALSE
  /\ shown = {} /\ retries = 0 /\ passed = 0
  /\ faults = 0

-----------------------------------------------------------------------------
(* The runner, and the relay publishing its events one at a time.          *)

Publish(kind, item) ==
  /\ pub.at = "idle"
  /\ pub' = [at |-> "number", kind |-> kind, item |-> item, seq |-> None]

\* Mutant: only the first snapshot is sent by a heartbeat.
Changed_Once == emitted = None

Changed == leaf # emitted

Message ==
  /\ leaf < MaxMsg /\ leaf' = leaf + 1
  /\ Publish("msg", leaf + 1)
  /\ UNCHANGED <<emitted, asked, redis, socket, conn, down, up, ui, used>>

\* session_active: the record takes it before it is published.
Snapshot ==
  /\ Publish("snap", leaf)
  /\ emitted' = leaf /\ lastState' = leaf
  /\ UNCHANGED <<leaf, seq, cache, socket, conn, down, up, ui, used>>

\* The heartbeat finds the transcript changed since the last snapshot.
HeartbeatSnapshot == Changed /\ Snapshot /\ UNCHANGED asked

\* The answer to a recovery signal.
RecoverySnapshot == asked > 0 /\ asked' = asked - 1 /\ Snapshot

\* The heartbeat event, and the metadata update when nothing has changed.
Heartbeat ==
  /\ ticks < MaxTicks /\ ticks' = ticks + 1
  /\ Publish("tick", 0) \/ (~Changed /\ Publish("meta", 0))
  /\ UNCHANGED <<runner, redis, socket, conn, down, up, ui, faults>>

\* incrementSeq
PublishNumber ==
  /\ pub.at = "number"
  /\ seq' = seq + 1
  /\ pub' = [pub EXCEPT !.at = IF pub.kind = "meta" THEN "emit" ELSE "cache",
                        !.seq = seq + 1]
  /\ UNCHANGED <<runner, cache, lastState, socket, conn, down, up, ui, used>>

\* Mutant: the list is not trimmed.
PublishCache_Untrimmed ==
  /\ pub.at = "cache"
  /\ cache' = Append(cache, [seq |-> pub.seq, kind |-> pub.kind, item |-> pub.item])
  /\ pub' = [pub EXCEPT !.at = "emit"]
  /\ UNCHANGED <<runner, seq, lastState, socket, conn, down, up, ui, used>>

\* appendRelayEventToCache
PublishCache ==
  /\ pub.at = "cache"
  /\ LET all == Append(cache, [seq |-> pub.seq, kind |-> pub.kind, item |-> pub.item])
     IN  cache' = SubSeq(all, Max({1, Len(all) - EVENT_BUFFER + 1}), Len(all))
  /\ pub' = [pub EXCEPT !.at = "emit"]
  /\ UNCHANGED <<runner, seq, lastState, socket, conn, down, up, ui, used>>

\* "at" is the number a frame without one stands for, and only observed.
Frame(kind, item, s, at, delta, g) ==
  [kind |-> kind, item |-> item, seq |-> s, at |-> at, delta |-> delta, gen |-> g]
Event(kind, item, s, delta, g) == Frame(kind, item, s, s, delta, g)

\* The broadcast to the room, which carries no generation.
PublishEmit ==
  /\ pub.at = "emit"
  /\ down' = IF joined THEN Append(down, Event(pub.kind, pub.item, pub.seq, FALSE, None))
             ELSE down
  /\ pub' = NoPub
  /\ UNCHANGED <<runner, redis, socket, conn, up, ui, used>>

-----------------------------------------------------------------------------
(* What the relay can send a viewer from its cache.                        *)

\* getCachedRelayEventsAfterSeq: the rows behind the last one that is not newer,
\* and nothing unless they are without a hole.
After(last) ==
  LET old == {i \in DOMAIN cache : cache[i].seq <= last}
      rows == SubSeq(cache, Max({0} \cup old) + 1, Len(cache))
  IN  IF \A i \in DOMAIN rows : rows[i].seq = last + i THEN rows ELSE <<>>

SnapshotAt == {i \in DOMAIN cache : cache[i].kind = "snap"}
Latest == Max(SnapshotAt)
Trailing == SubSeq(cache, Latest + 1, Len(cache))

\* snapshotCoverageSeq >= last
Covers(last) ==
  /\ SnapshotAt # {}
  /\ \A i \in DOMAIN Trailing : Trailing[i].seq = cache[Latest].seq + i
  /\ cache[Latest].seq + Len(Trailing) >= last

Replay(rows, g) ==
  [i \in DOMAIN rows |-> Event(rows[i].kind, rows[i].item, rows[i].seq, TRUE, g)]
SnapshotEvent(item, at, g) == <<Frame("snap", item, None, at, FALSE, g)>>
FromCache(g) ==
  SnapshotEvent(cache[Latest].item, cache[Latest].seq, g) \o Replay(Trailing, g)

-----------------------------------------------------------------------------
(* viewer.ts: activateSession in three steps, the echo and the resync.     *)

From(kind) == up # <<>> /\ Head(up).kind = kind /\ up' = Tail(up)

\* switch_session supersedes any older activation and joins the room.
Activate ==
  /\ From("switch")
  /\ act' = [NoAct EXCEPT !.at = "seq", !.gen = Head(up).gen, !.last = Head(up).last]
  /\ joined' = TRUE /\ flags' = NoFlags
  /\ UNCHANGED <<runner, pub, redis, conn, down, ui, used>>

\* The counter and the record are read after joining; "connected" goes out.
ActivateConnected ==
  /\ act.at = "seq"
  /\ act' = [act EXCEPT !.at = "cache", !.fresh = seq, !.state = lastState]
  /\ down' = Append(down, [kind |-> "connected", seq |-> seq, gen |-> act.gen])
  /\ UNCHANGED <<runner, pub, redis, joined, flags, conn, up, ui, used>>

\* getBestSnapshot for a live session: what to send, as a set that is empty
\* when no source may be used.
Best ==
  LET g == act.gen IN
  IF act.last # None
    THEN IF After(act.last) # <<>> THEN {Replay(After(act.last), g)}
         ELSE IF act.fresh = act.last THEN {<<>>}
         ELSE IF Covers(act.last) THEN {FromCache(g)} ELSE {}
    ELSE IF SnapshotAt # {} THEN {FromCache(g)}
         ELSE IF act.state # None THEN {SnapshotEvent(act.state, act.fresh, g)} ELSE {}

\* A hit silences the runner signal; a miss lets it through, and repeats the
\* last heartbeat under the number read before, though it is not the event of
\* that number.
ActivateHydrate ==
  /\ act.at = "cache" /\ act' = NoAct
  /\ \/ \E frames \in Best :
          /\ down' = down \o frames
          /\ flags' = [flags EXCEPT !.suppress = TRUE]
          /\ UNCHANGED asked
     \/ /\ Best = {}
        /\ flags' = [flags EXCEPT !.ready = TRUE, !.pending = FALSE]
        /\ asked' = IF flags.pending THEN asked + 1 ELSE asked
        /\ down' = IF ticks > 0 THEN Append(down, Frame("tick", 0, act.fresh, None, FALSE, act.gen))
                   ELSE down
  /\ UNCHANGED <<leaf, emitted, pub, redis, joined, conn, up, ui, used>>

\* The viewer's "connected" echo lets the runner signal pass, unless the
\* cache has answered, or as soon as it is known not to.
Echo ==
  /\ From("connected")
  /\ IF flags.suppress THEN UNCHANGED <<flags, asked>>
     ELSE IF flags.ready THEN asked' = asked + 1 /\ UNCHANGED flags
     ELSE flags' = [flags EXCEPT !.pending = TRUE] /\ UNCHANGED asked
  /\ UNCHANGED <<leaf, emitted, pub, redis, joined, act, conn, down, ui, used>>

\* resync with a cursor: hydrateViewerFromCache, else the runner.
Resync ==
  /\ From("resync")
  /\ LET last == Head(up).last IN
       \/ After(last) # <<>> /\ down' = down \o Replay(After(last), Head(up).gen)
          /\ UNCHANGED asked
       \/ After(last) = <<>> /\ Covers(last) /\ down' = down \o FromCache(Head(up).gen)
          /\ UNCHANGED asked
       \/ After(last) = <<>> /\ ~Covers(last) /\ UNCHANGED down
          /\ asked' = IF last >= seq THEN asked ELSE asked + 1
  /\ UNCHANGED <<leaf, emitted, pub, redis, socket, conn, ui, used>>

-----------------------------------------------------------------------------
(* The UI.                                                                 *)

Switch(g, last) == [kind |-> "switch", gen |-> g, last |-> last]

\* The socket connects, for the first time or again.
Connect ==
  /\ ~conn /\ conn' = TRUE
  /\ up' = <<Switch(gen, cursor)>>
  /\ retries' = 0
  /\ UNCHANGED <<runner, pub, redis, socket, down, gen, cursor, awaiting, hydrated,
                 shown, passed, used>>

\* Bound: what goes wrong does so before the watchdog's first retry.
Fault == faults < MaxFaults /\ faults' = faults + 1 /\ retries = 0

\* The connection is lost with what is on its way; the server forgets the socket.
Cut ==
  /\ conn /\ Fault
  /\ conn' = FALSE /\ down' = <<>> /\ up' = <<>>
  /\ joined' = FALSE /\ act' = NoAct /\ flags' = NoFlags
  /\ UNCHANGED <<runner, pub, redis, ui, ticks>>

\* The user clicks the session again because it never loaded.
Reopen ==
  /\ conn /\ ~hydrated /\ Fault
  /\ gen' = gen + 1 /\ cursor' = None /\ awaiting' = TRUE /\ shown' = {}
  /\ retries' = 0 /\ passed' = 0
  /\ up' = Append(up, Switch(gen + 1, None))
  /\ UNCHANGED <<runner, pub, redis, socket, conn, down, hydrated, ticks>>

\* Mutant: the retry goes out with the cursor.
Watchdog_Cursor ==
  /\ conn /\ awaiting /\ retries # None
  /\ IF retries < HYDRATION_MAX_RETRIES
       THEN /\ retries' = retries + 1
            /\ up' = Append(up, Switch(gen, cursor))
       ELSE retries' = None /\ UNCHANGED up
  /\ UNCHANGED <<runner, pub, redis, socket, conn, down, gen, cursor, awaiting, hydrated,
                 shown, passed, used>>

\* The hydration watchdog: retry without a cursor, then show an error.
Watchdog ==
  /\ conn /\ awaiting /\ retries # None
  /\ IF retries < HYDRATION_MAX_RETRIES
       THEN /\ retries' = retries + 1 /\ cursor' = None
            /\ up' = Append(up, Switch(gen, None))
       ELSE retries' = None /\ UNCHANGED <<cursor, up>>
  /\ UNCHANGED <<runner, pub, redis, socket, conn, down, gen, awaiting, hydrated,
                 shown, passed, used>>

To(kinds) == down # <<>> /\ Head(down).kind \in kinds /\ down' = Tail(down)

\* Mutant: "connected" moves the cursor forward.
MergeSeq_Max(s) == IF cursor = None THEN s ELSE Max({cursor, s})

\* mergeConnectedSeq
MergeSeq(s) == IF cursor = None THEN s ELSE Min({cursor, s})

\* "connected" of the current generation re-arms the gate unless hydrated.
\* passed observes the cursor being moved past content that did not come with
\* it: here from null, across a gap, by a repeated heartbeat, or by showing an
\* older snapshot.
SeeConnected ==
  /\ To({"connected"})
  /\ IF Head(down).gen = gen
       THEN /\ awaiting' = ~hydrated
            /\ cursor' = MergeSeq(Head(down).seq)
            /\ passed' = IF cursor = None THEN Head(down).seq ELSE passed
            /\ up' = Append(up, [kind |-> "connected"])
       ELSE UNCHANGED <<awaiting, cursor, passed, up>>
  /\ UNCHANGED <<runner, pub, redis, socket, conn, gen, hydrated, shown, retries,
                 used>>

\* matchesHydrationGeneration
Matches(f) == IF f.gen # None THEN f.gen = gen ELSE awaiting => f.kind = "snap"

\* analyzeReplaySeq and analyzeIncomingSeq: is the event dropped?
Stale(f) ==
  /\ f.seq # None /\ cursor # None
  /\ IF f.delta THEN f.seq <= cursor
     ELSE f.seq < cursor /\ ~(awaiting /\ f.kind = "snap")

Gap(f) == f.seq # None /\ cursor # None /\ ~f.delta /\ f.seq > cursor + 1

\* Where the cursor goes: a late snapshot during hydration leaves it.
Advance(f) == cursor' = IF f.seq = None THEN cursor ELSE Max({cursor, f.seq})

\* A snapshot replaces what is shown and ends hydration; messages are left
\* out while it is awaited.
Apply(f) ==
  IF f.kind = "snap"
    THEN shown' = 1 .. f.item /\ awaiting' = FALSE /\ hydrated' = TRUE
    ELSE /\ shown' = IF f.kind = "msg" /\ ~awaiting THEN shown \cup {f.item} ELSE shown
         /\ UNCHANGED <<awaiting, hydrated>>

SeeEvent ==
  /\ To({"msg", "snap", "tick", "meta"})
  /\ LET f == Head(down) IN
       IF Matches(f) /\ ~Stale(f)
         THEN /\ Advance(f) /\ Apply(f)
              /\ passed' = IF f.kind = "snap" THEN (IF f.at >= cursor THEN 0 ELSE cursor)
                           ELSE IF cursor = None \/ Gap(f) \/ (f.at = None /\ f.seq > cursor)
                             THEN f.seq ELSE passed
              /\ up' = IF Gap(f) THEN Append(up, [kind |-> "resync", last |-> cursor, gen |-> gen])
                       ELSE up
         ELSE UNCHANGED <<cursor, awaiting, hydrated, shown, passed, up>>
  /\ UNCHANGED <<runner, pub, redis, socket, conn, gen, retries, used>>

Next ==
  \/ Message \/ HeartbeatSnapshot \/ RecoverySnapshot \/ Heartbeat
  \/ PublishNumber \/ PublishCache \/ PublishEmit
  \/ Activate \/ ActivateConnected \/ ActivateHydrate \/ Echo \/ Resync
  \/ Connect \/ Cut \/ Reopen \/ Watchdog \/ SeeConnected \/ SeeEvent

Spec == Init /\ [][Next]_vars

\* Everything goes on but new messages, beats, lost connections and clicks: the
\* frames are delivered, the relay and the runner answer, the socket reconnects,
\* the runner's next heartbeat finds what changed and the watchdog is a timer.
FairSpec ==
  /\ Spec
  /\ WF_vars(PublishNumber) /\ WF_vars(PublishCache) /\ WF_vars(PublishEmit)
  /\ WF_vars(HeartbeatSnapshot) /\ WF_vars(RecoverySnapshot)
  /\ WF_vars(Activate) /\ WF_vars(ActivateConnected) /\ WF_vars(ActivateHydrate)
  /\ WF_vars(Echo) /\ WF_vars(Resync)
  /\ WF_vars(Connect) /\ WF_vars(Watchdog) /\ WF_vars(SeeConnected) /\ WF_vars(SeeEvent)

-----------------------------------------------------------------------------
(* Properties.                                                             *)

Seqs == 0 .. seq
OrNone(S) == S \cup {None}
EventKinds == {"msg", "snap", "tick", "meta"}

\* Types, and what each copy of the numbering may say: the cache holds the
\* latest of the numbers in order, and no frame, cursor or resume position is
\* ahead of the counter it was taken from.
ViewerTypeOK ==
  /\ leaf \in 0 .. MaxMsg /\ emitted \in OrNone(0 .. leaf) /\ asked \in Nat
  /\ pub \in [at : {"idle", "number", "cache", "emit"}, kind : EventKinds,
              item : 0 .. MaxMsg, seq : OrNone(Seqs)]
  /\ Len(cache) <= EVENT_BUFFER
  /\ \A i \in DOMAIN cache :
       /\ cache[i] \in [seq : Seqs, kind : EventKinds \ {"meta"}, item : 0 .. leaf]
       /\ \A j \in 1 .. i - 1 : cache[j].seq < cache[i].seq
  /\ lastState \in OrNone(0 .. leaf)
  /\ joined \in BOOLEAN /\ conn \in BOOLEAN /\ (joined => conn)
  /\ flags \in [suppress : BOOLEAN, ready : BOOLEAN, pending : BOOLEAN]
  /\ \A i \in DOMAIN down : down[i].seq \in OrNone(Seqs)
  /\ gen \in 1 .. MaxFaults + 1 /\ cursor \in OrNone(Seqs)
  /\ awaiting \in BOOLEAN /\ hydrated \in BOOLEAN /\ passed \in Seqs
  /\ shown \subseteq 1 .. leaf
  /\ retries \in OrNone(0 .. HYDRATION_MAX_RETRIES)

\* A connected viewer shows a transcript, nothing is on its way, nobody has
\* anything left to answer and the runner has nothing new to send.
Settled ==
  /\ conn /\ joined /\ hydrated /\ ~Changed
  /\ down = <<>> /\ up = <<>>
  /\ act.at = "idle" /\ pub.at = "idle" /\ asked = 0

\* A viewer whose cursor was not moved past what it was given shows the whole
\* transcript once all is settled: no resume, replay, retry or "already current"
\* answer loses an event on its own.
NoSilentHole == Settled /\ passed = 0 => shown = 1 .. leaf

\* Every viewer gets a transcript in the end, also one whose resume was answered
\* "already current" before it had any, or whose runner signal was suppressed:
\* hydration never ends in a blank screen.
Hydrates == <>hydrated

\* ... and the whole of it, unless the cursor was moved past something.
Converges == <>[](passed # 0 \/ shown = 1 .. leaf)

\* What mergeConnectedSeq is for: "connected" never claims content that was not
\* sent, so that no resume is told that the viewer is current when it is not.
ResumeIsComplete == Settled => shown = 1 .. leaf
=============================================================================
