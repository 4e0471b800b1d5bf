--------------------------- MODULE SnapshotStream ---------------------------
(***************************************************************************)
(* How the transcript of ONE session reaches the relay: whole when it is   *)
(* small, else as a metadata-only session_active followed by chunks        *)
(* (chunked-delivery.ts), over a connection that breaks, into the relay's  *)
(* assembly buffer and from there into the Redis record, the event cache   *)
(* and SQLite (event-pipeline.ts, relay-state.ts, sessions.ts).            *)
(*                                                                         *)
(* A transcript is named by a version, the number of leaf changes so far;  *)
(* message i of it is <<version, i>>, so that a mix of two shows.  An event *)
(* of the pipeline holds the ownership lock throughout and is one action.  *)
(***************************************************************************)
EXTENDS Integers, Sequences, FiniteSets, SequencesExt, FiniteSetsExt

CONSTANTS
  Transcript,        \* for every version, its messages
  CHUNK_THRESHOLD, CHUNK_BYTE_LIMIT, CHUNK_SIZE, MAX_MESSAGE_SIZE,
  MaxEmits,          \* bound: snapshots emitted by command or event handlers
  MaxMarks,          \* bound: recoveries asked for by viewers
  MaxCuts,           \* bound: lost connections and relay crashes
  MaxDrops           \* bound: events the relay fails to process

Version == DOMAIN Transcript

\* The size of a message, and what capOversizedMessages leaves of it when it is
\* over the limit: with its content, and large details, toolResult and metadata,
\* cut.  What is in other fields stays, however much it is.
Message == [size : Nat \ {0}, left : Nat \ {0}]

ASSUME StreamAssumption ==
  /\ Transcript \in Seq(Seq(Message)) /\ Version # {}
  /\ \A v \in Version : Transcript[v] # <<>>
  /\ {CHUNK_THRESHOLD, CHUNK_BYTE_LIMIT, MAX_MESSAGE_SIZE} \subseteq Nat
  /\ CHUNK_SIZE \in Nat \ {0} /\ MAX_MESSAGE_SIZE <= CHUNK_BYTE_LIMIT
  /\ {MaxEmits, MaxMarks, MaxCuts, MaxDrops} \subseteq Nat

-----------------------------------------------------------------------------
(* Cutting a transcript into chunks.                                       *)

Bytes(sizes) == FoldSeq(+, 0, sizes)

\* estimateMessagesSize adds ten per cent for framing, rounded up.
NeedsChunks ==
  [v \in Version |->
     LET sizes == [i \in DOMAIN Transcript[v] |-> Transcript[v][i].size]
     IN  (11 * Bytes(sizes) + 9) \div 10 > CHUNK_THRESHOLD]

\* The sizes after capOversizedMessages.
Sizes(v) == [i \in DOMAIN Transcript[v] |->
               IF Transcript[v][i].size > MAX_MESSAGE_SIZE THEN Transcript[v][i].left
               ELSE Transcript[v][i].size]

\* Mutant: the byte limit is tested before the message is added.
ChunkEnd_Late(v, start) ==
  Max({start + 1} \cup
      {e \in start + 1 .. start + CHUNK_SIZE :
         e <= Len(Transcript[v]) /\ Bytes(SubSeq(Sizes(v), start + 1, e - 1)) <= CHUNK_BYTE_LIMIT})

\* The end of the chunk that begins after message start: as many messages as
\* the count and the byte limit allow, and at least one.
ChunkEnd(v, start) ==
  Max({start + 1} \cup
      {e \in start + 1 .. start + CHUNK_SIZE :
         e <= Len(Transcript[v]) /\ Bytes(SubSeq(Sizes(v), start + 1, e)) <= CHUNK_BYTE_LIMIT})

\* computeChunkBoundaries: where each chunk of a version ends.
Boundaries ==
  [v \in Version |->
     LET from[start \in 0 .. Len(Transcript[v])] ==
           IF start = Len(Transcript[v]) THEN <<>>
           ELSE <<ChunkEnd(v, start)>> \o from[ChunkEnd(v, start)]
     IN  from[0]]

Content == [v \in Version |-> [i \in DOMAIN Transcript[v] |-> <<v, i>>]]
Slice ==
  [v \in Version |->
     [k \in DOMAIN Boundaries[v] |->
        SubSeq(Content[v], (IF k = 1 THEN 0 ELSE Boundaries[v][k - 1]) + 1,
                           Boundaries[v][k])]]
SliceBytes(v, k) == LET s == Slice[v][k] IN Bytes([j \in DOMAIN s |-> Sizes(v)[s[j][2]]])

-----------------------------------------------------------------------------
VARIABLES
  leaf,      \* CLI: version of the transcript (getLeafId)
  emitted,   \* CLI: lastEmittedMessageState, 0 for null
  inFlight,  \* CLI: inFlightMessageLeafId, 0 for null
  sender,    \* CLI: the sendChunkedMessages run that is not superseded
  up,        \* is the session registered over a live connection?
  wire,      \* events sent by the CLI and not processed by the relay
  signals,   \* "connected" signals to the CLI: their recovery nonces
  live,      \* relay: does the session record exist?
  pending,   \* relay: the entry of pendingChunkedStates
  recovery,  \* relay: nonce in pendingRecoveries, 0 when there is none
  lastState, \* relay: transcript in the record, <<>> for null
  cached,    \* relay: newest snapshot of the event cache, <<>> for none
  row,       \* relay: transcript in SQLite, <<>> for none
  emits, ids, marks, cuts, drops   \* how much of each bound is used

cli == <<leaf, emitted, inFlight, sender>>
net == <<up, wire, signals>>
relay == <<live, pending, recovery, lastState, cached, row>>
used == <<emits, marks, cuts, drops>>
vars == <<cli, net, relay, used, ids>>

NoSender == [id |-> 0, ver |-> 0, next |-> 1]
NoStream == [id |-> 0, chunks |-> <<>>, total |-> 0, final |-> FALSE, nonce |-> 0]

Init ==
  /\ leaf = 1 /\ emitted = 0 /\ inFlight = 0 /\ sender = NoSender
  /\ up = FALSE /\ wire = <<>> /\ signals = <<>>
  /\ live = FALSE /\ pending = NoStream /\ recovery = 0
  /\ lastState = <<>> /\ cached = <<>> /\ row = <<>>
  /\ emits = 0 /\ ids = 0 /\ marks = 0 /\ cuts = 0 /\ drops = 0

-----------------------------------------------------------------------------
(* The CLI.                                                                *)

Whole(v, n) == [kind |-> "whole", ver |-> v, nonce |-> n]
HeadOf(v, n, id) == [kind |-> "head", ver |-> v, nonce |-> n, id |-> id]
Chunk(s) == [kind |-> "chunk", ver |-> s.ver, id |-> s.id, index |-> s.next,
             total |-> Len(Boundaries[s.ver]), final |-> s.next = Len(Boundaries[s.ver])]

\* forwardEvent: without a registered connection the event is dropped.
Forward(frame, online, sent) == wire' = IF online THEN Append(sent, frame) ELSE sent

\* emitSessionActive.  A number is drawn only for a snapshot id that is sent.
EmitActive(nonce, online, sent) ==
  /\ ids' = IF online THEN ids + 1 ELSE ids
  /\ IF NeedsChunks[leaf]
       THEN /\ sender' = [id |-> ids + 1, ver |-> leaf, next |-> 1]
            /\ inFlight' = leaf
            /\ Forward(HeadOf(leaf, nonce, ids + 1), online, sent)
            /\ UNCHANGED emitted
       ELSE /\ sender' = NoSender
            /\ inFlight' = 0
            /\ Forward(Whole(leaf, nonce), online, sent)
            /\ emitted' = leaf

\* messagesChangedSinceLastEmit
Changed == leaf # inFlight /\ leaf # emitted

\* The conversation moves on.
NewLeaf ==
  /\ leaf < Len(Transcript)
  /\ leaf' = leaf + 1
  /\ UNCHANGED <<emitted, inFlight, sender, net, relay, used, ids>>

\* A handler (model change, /new, compaction, a turn's end) emits a snapshot.
EmitNow ==
  /\ emits < MaxEmits /\ emits' = emits + 1
  /\ EmitActive(0, up, wire)
  /\ UNCHANGED <<leaf, up, signals, relay, marks, cuts, drops>>

\* The periodic heartbeat.  When nothing changed it sends a metadata update,
\* which leaves the transcript alone and is not modelled.
Heartbeat ==
  /\ Changed
  /\ EmitActive(0, up, wire)
  /\ UNCHANGED <<leaf, up, signals, relay, used>>

\* The relay's "connected" signal, answered with its nonce.
Connected ==
  /\ signals # <<>>
  /\ signals' = Tail(signals)
  /\ EmitActive(Head(signals), up, wire)
  /\ UNCHANGED <<leaf, up, relay, used>>

\* Mutant: the leaf of the moment is recorded instead of the snapshot's.
Finish_CurrentLeaf(v, delivered) ==
  /\ inFlight' = IF inFlight = v THEN 0 ELSE inFlight
  /\ emitted' = IF inFlight = v /\ delivered THEN leaf ELSE emitted

\* finishInFlightMessageState
Finish(v, delivered) ==
  /\ inFlight' = IF inFlight = v THEN 0 ELSE inFlight
  /\ emitted' = IF inFlight = v /\ delivered THEN v ELSE emitted

\* sendNextChunk: give up when offline, else send one chunk and yield.
SendChunk ==
  /\ sender.id # 0
  /\ IF up /\ ~Chunk(sender).final
       THEN sender' = [sender EXCEPT !.next = @ + 1] /\ UNCHANGED <<inFlight, emitted>>
       ELSE sender' = NoSender /\ Finish(sender.ver, up)
  /\ Forward(Chunk(sender), up, wire)
  /\ UNCHANGED <<leaf, up, signals, relay, used, ids>>

-----------------------------------------------------------------------------
(* The connection.                                                         *)

\* It breaks: the relay has received some of what was sent.
Cut ==
  /\ up /\ cuts < MaxCuts /\ cuts' = cuts + 1
  /\ up' = FALSE
  /\ \E k \in 0 .. Len(wire) : wire' = SubSeq(wire, 1, k)
  /\ signals' = <<>>
  /\ UNCHANGED <<cli, relay, emits, marks, drops, ids>>

\* The relay process dies with everything it holds in memory.
Crash ==
  /\ cuts < MaxCuts /\ cuts' = cuts + 1
  /\ up' = FALSE /\ wire' = <<>> /\ signals' = <<>>
  /\ pending' = NoStream /\ recovery' = 0
  /\ UNCHANGED <<cli, live, lastState, cached, row, emits, marks, drops, ids>>

\* endSharedSessionUnlocked persists the transcript before the record goes.
Flush == row' = IF lastState = <<>> THEN row ELSE lastState

\* The disconnect job, queued behind the events received before it.
Teardown ==
  /\ ~up /\ live /\ wire = <<>>
  /\ live' = FALSE /\ Flush
  /\ lastState' = <<>> /\ pending' = NoStream
  /\ UNCHANGED <<cli, net, recovery, cached, used, ids>>

\* Mutant: a reconnected CLI trusts its record of what it emitted.
Register_IfChanged ==
  /\ ~up /\ up' = TRUE
  /\ live' = TRUE /\ Flush /\ lastState' = <<>>
  /\ IF live THEN pending' = NoStream /\ cached' = <<>> ELSE UNCHANGED <<pending, cached>>
  /\ IF Changed THEN EmitActive(0, TRUE, <<>>)
     ELSE wire' = <<>> /\ UNCHANGED <<emitted, inFlight, sender, ids>>
  /\ UNCHANGED <<leaf, signals, recovery, used>>

\* register and registered: a record that is still there is ended first and
\* its stream and cache are dropped; events of the old connection carry a
\* token that is no longer the owner's; the CLI sends its transcript again.
Register ==
  /\ ~up /\ up' = TRUE
  /\ live' = TRUE /\ Flush /\ lastState' = <<>>
  /\ IF live THEN pending' = NoStream /\ cached' = <<>> ELSE UNCHANGED <<pending, cached>>
  /\ EmitActive(0, TRUE, <<>>)
  /\ UNCHANGED <<leaf, signals, recovery, used>>

-----------------------------------------------------------------------------
(* The relay.                                                              *)

\* markPendingRecovery, and the "connected" signal to the session's socket.
MarkRecovery ==
  /\ live /\ marks < MaxMarks
  /\ marks' = marks + 1 /\ recovery' = marks + 1
  /\ signals' = IF up THEN Append(signals, marks + 1) ELSE signals
  /\ UNCHANGED <<cli, up, wire, live, pending, lastState, cached, row, emits, cuts,
                 drops, ids>>

\* RECOVERY_FLAG_TTL_MS
RecoveryLapse ==
  /\ recovery # 0 /\ recovery' = 0
  /\ UNCHANGED <<cli, net, live, pending, lastState, cached, row, used, ids>>

\* consumePendingRecovery
Answers(nonce) == nonce # 0 /\ nonce = recovery
Consume(nonce) == recovery' = IF Answers(nonce) THEN 0 ELSE recovery

\* updateSessionState: SQLite is written at most every throttle interval, and
\* never for the answer to a recovery.
Update(messages, isRecovery) ==
  /\ lastState' = messages
  /\ row' \in IF isRecovery THEN {row} ELSE {row, messages}

\* The next event is taken from the queue; its token must be the record's.
NextEvent(kind) ==
  /\ wire # <<>> /\ Head(wire).kind = kind
  /\ wire' = Tail(wire)

\* The lock was not acquired in time, or the owner lookup failed.
EventDropped ==
  /\ live /\ wire # <<>> /\ wire' = Tail(wire)
  /\ drops < MaxDrops /\ drops' = drops + 1
  /\ UNCHANGED <<cli, up, signals, relay, emits, marks, cuts, ids>>

\* session_active with its messages: stored, then cached and published.
WholeArrives ==
  /\ live /\ NextEvent("whole")
  /\ LET f == Head(wire) IN
       /\ Consume(f.nonce) /\ pending' = NoStream
       /\ \/ Update(Content[f.ver], Answers(f.nonce)) /\ cached' = Content[f.ver]
             /\ UNCHANGED drops
          \/ drops < MaxDrops /\ drops' = drops + 1     \* updateSessionState throws
             /\ UNCHANGED <<lastState, row, cached>>
  /\ UNCHANGED <<cli, up, signals, live, emits, marks, cuts, ids>>

\* session_active with chunked: true starts a stream in place of any other.
HeadArrives ==
  /\ live /\ NextEvent("head")
  /\ pending' = [NoStream EXCEPT !.id = Head(wire).id, !.nonce = Head(wire).nonce]
  /\ UNCHANGED <<cli, up, signals, live, recovery, lastState, cached, row, used, ids>>

\* Mutant: chunks are not matched with the stream by their snapshot id.
Matches_Any(p, f) == p.id # 0

Matches(p, f) == p.id = f.id

\* applyChunkToPendingState
Applied(p, f) ==
  IF f.index \in DOMAIN p.chunks THEN [p EXCEPT !.final = @ \/ f.final]
  ELSE [p EXCEPT !.chunks = [k \in DOMAIN @ \cup {f.index} |->
                               IF k = f.index THEN Slice[f.ver][k] ELSE @[k]],
                 !.total = f.total, !.final = @ \/ f.final]

\* Mutant: the final chunk is enough.
CanFinalize_Final(p) == p.final

\* canFinalizeChunkedSnapshot
CanFinalize(p) == p.final /\ 1 .. p.total \subseteq DOMAIN p.chunks

\* pending.chunks.flat()
Assembled(p) ==
  FlattenSeq([k \in 1 .. p.total |-> IF k \in DOMAIN p.chunks THEN p.chunks[k] ELSE <<>>])

\* finalizeChunkedSnapshot.  When it throws, before the record is written or
\* after, the stream stays.
Finalize(p) ==
  /\ Consume(p.nonce)
  /\ \/ /\ Update(Assembled(p), Answers(p.nonce))
        /\ cached' = Assembled(p) /\ pending' = NoStream
        /\ UNCHANGED drops
     \/ /\ drops < MaxDrops /\ drops' = drops + 1
        /\ Update(Assembled(p), Answers(p.nonce)) \/ UNCHANGED <<lastState, row>>
        /\ pending' = p
        /\ UNCHANGED cached

ChunkArrives ==
  /\ live /\ NextEvent("chunk")
  /\ LET p == Applied(pending, Head(wire)) IN
       CASE ~Matches(pending, Head(wire)) ->
              UNCHANGED <<pending, recovery, lastState, cached, row, drops>>
         [] Matches(pending, Head(wire)) /\ CanFinalize(p) -> Finalize(p)
         [] OTHER -> pending' = p /\ UNCHANGED <<recovery, lastState, cached, row, drops>>
  /\ UNCHANGED <<cli, up, signals, live, emits, marks, cuts, ids>>

Process == WholeArrives \/ HeadArrives \/ ChunkArrives

Next ==
  \/ NewLeaf \/ EmitNow \/ Heartbeat \/ Connected \/ SendChunk
  \/ Cut \/ Crash \/ Teardown \/ Register
  \/ MarkRecovery \/ RecoveryLapse
  \/ Process \/ EventDropped

Spec == Init /\ [][Next]_vars

\* Timers fire, setImmediate runs, Socket.IO reconnects and delivers, and the
\* event queue of the session is worked off.
FairSpec ==
  Spec /\ WF_vars(Heartbeat) /\ WF_vars(SendChunk) /\ WF_vars(Connected)
       /\ WF_vars(Register) /\ WF_vars(Process)

-----------------------------------------------------------------------------
(* Properties.                                                             *)

States == {<<>>} \cup {Content[v] : v \in Version}

\* A chunk that is one message which was over the limit for messages.
LoneOversized(v, k) ==
  Len(Slice[v][k]) = 1 /\ Transcript[v][Slice[v][k][1][2]].size > MAX_MESSAGE_SIZE

\* Types; no chunk is empty, and none is over the byte limit except for a
\* message that is so by itself after truncation: it travels alone
\* (computeChunkBoundariesInternal, "a single message larger than the byte limit").
StreamTypeOK ==
  /\ leaf \in Version /\ {emitted, inFlight, sender.ver} \subseteq 0 .. leaf
  /\ live \in BOOLEAN /\ up \in BOOLEAN
  /\ \A i \in DOMAIN wire : wire[i].kind \in {"whole", "head", "chunk"} /\ wire[i].ver \in 1 .. leaf
  /\ \A i \in DOMAIN wire :
       wire[i].kind = "chunk" =>
         /\ SliceBytes(wire[i].ver, wire[i].index) \in Nat \ {0}
         /\ \/ SliceBytes(wire[i].ver, wire[i].index) <= CHUNK_BYTE_LIMIT
            \/ LoneOversized(wire[i].ver, wire[i].index)
  /\ sender.ver = inFlight /\ (sender.id # 0 => sender.next \in DOMAIN Boundaries[inFlight])
  /\ pending.id \in 0 .. ids /\ DOMAIN pending.chunks \subseteq 1 .. pending.total
  /\ recovery \in 0 .. marks /\ signals \in Seq(1 .. marks)

\* chunked-delivery.ts on MAX_MESSAGE_SIZE: messages "are truncated before chunking
\* so that no individual chunk frame can exceed the server's maxHttpBufferSize".
FramesFit ==
  \A i \in DOMAIN wire :
    wire[i].kind = "chunk" => SliceBytes(wire[i].ver, wire[i].index) <= CHUNK_BYTE_LIMIT

\* Nothing durable ever holds part of a transcript or a mixture of two,
\* whichever events of a stream are lost (event-pipeline.ts).
WholeSnapshots == {lastState, cached, row} \subseteq States

\* When the heartbeat would not send the transcript because "nothing
\* changed", the relay has it, or all that is missing of it is on its way.
\* Processing failures break this (drops = 0): see the README.
CleanMeansCovered ==
  up /\ ~Changed /\ drops = 0
    => \/ lastState = Content[leaf]
       \/ sender.ver = leaf
       \/ \E i \in DOMAIN wire : wire[i].ver = leaf

VersionOf(messages) ==
  IF messages = <<>> THEN 0
  ELSE IF messages \in States THEN messages[1][1] ELSE -1

Store == INSTANCE SnapshotStore
           WITH working <- VersionOf(lastState), persisted <- VersionOf(row)

\* The relay's copies move from one whole transcript to a newer one: chunks,
\* superseded streams, reconnects, recoveries and crashes are invisible.
ImplementsStore == Store!Spec

\* In the end the relay holds the transcript the CLI has, unless it failed to
\* process an event.
CatchesUp == <>[](drops > 0 \/ lastState = Content[leaf])

\* sessions.ts on skipping the SQLite write of a recovery: "Redis already has
\* the data and SQLite doesn't need another write for identical content".
RecoveryIsRedundant ==
  [][recovery # 0 /\ recovery' = 0 /\ wire' # wire /\ drops' = drops => lastState' = lastState]_vars
=============================================================================
