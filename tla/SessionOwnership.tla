-------------------------- MODULE SessionOwnership --------------------------
(***************************************************************************)
(* Ownership of ONE session id in the relay server: registration of TUI    *)
(* sockets, the per-session event queue of every relay node, session_end,  *)
(* disconnects, the sweeps, node crashes and graceful shutdown, all of     *)
(* them serialized (or meant to be) by a leased Redis lock.                *)
(*                                                                         *)
(* A socket registers once, and each registration draws a fresh random     *)
(* token, so the token of the Redis record is modelled by the socket that  *)
(* drew it.  One action is the code between two awaits; awaits that only   *)
(* read data no other part of the model can change are merged.             *)
(***************************************************************************)
EXTENDS Naturals, Sequences, FiniteSets

CONSTANTS
  Sock,          \* relay sockets (connections) that register the id
  Node,          \* relay server processes sharing one Redis
  NodeOf,        \* the node every socket is connected to
  UserOf,        \* the user every socket is authenticated as
  None,          \* no value
  Ephemeral,     \* isEphemeral of the session: does expiresAt apply?
  LeaseMayLapse, \* may the lock expire under a live holder (a stalled node)?
  SweepsOn,      \* do the maintenance sweeps and cleanup_child_session run?
  MaxEvents,     \* bound: events and session_end requests sent in all
  MaxCrashes,    \* bound: node crashes
  MaxFaults      \* bound: Redis calls that fail

Holder == ({"reg"} \X Sock) \cup ({"job"} \X Node) \cup ({"sweep"} \X Node)

ASSUME OwnershipAssumption ==
  /\ NodeOf \in [Sock -> Node]
  /\ None \notin Sock
  /\ None \notin Holder
  /\ \A s \in Sock : UserOf[s] # None
  /\ LeaseMayLapse \in BOOLEAN /\ Ephemeral \in BOOLEAN /\ SweepsOn \in BOOLEAN
  /\ {MaxEvents, MaxCrashes, MaxFaults} \subseteq Nat

VARIABLES
  record,   \* Redis session hash: the socket whose token it holds, or None
  state,    \* lastState of the hash: the socket that sent it, or None
  age,      \* "live"; "idle": no activity for HEARTBEAT_STALE_MS; "expired"
  rowUser,  \* SQLite relay_session.userId of the id, or None
  lock,     \* session-lock key: its holder, or None
  local,    \* localTuiSockets.get(id) on each node
  pend,     \* pendingChunkedStates.get(id) on each node: socket streaming it
  queue,    \* sessionEventQueues on each node: pending jobs, oldest first
  job,      \* progress of the job at the head of that queue
  reg,      \* progress of each socket's register handler
  conn,     \* sockets that are connected
  room,     \* sockets that joined the session's relay room
  bound,    \* sockets whose socket.data.sessionId is set
  asking,   \* session_end and disconnect handlers awaiting the owner token
  sweep,    \* progress of each node's sweep over this id
  closing,  \* nodes with isServerShuttingDown set
  sent, crashes, faults   \* how much of each bound is used

redis == <<record, state, age, lock>>
memory == <<local, pend, queue, job>>
sockets == <<conn, room, bound, asking>>
used == <<sent, crashes, faults>>
vars == <<redis, rowUser, memory, reg, sockets, sweep, closing, used>>

Kinds == {"event", "end", "disc", "reset"}
Job == [kind : Kinds, sock : Sock]
RegCritical == {"read", "clear", "delete", "reset", "draining", "write",
                "rewrite", "attach", "release", "leave"}
RegSettled == {"done", "failed", "elsewhere"}
SweepCritical == {"clear", "delete", "release"}

TypeOK ==
  /\ record \in Sock \cup {None}
  /\ state \in Sock \cup {None}
  /\ age \in {"live", "idle", "expired"}
  /\ rowUser \in {UserOf[s] : s \in Sock} \cup {None}
  /\ lock \in Holder \cup {None}
  /\ local \in [Node -> Sock \cup {None}]
  /\ pend \in [Node -> Sock \cup {None}]
  /\ queue \in [Node -> Seq(Job)]
  /\ job \in [Node -> {"idle", "locked", "checked", "delete", "release"}]
  /\ \A n \in Node : job[n] # "idle" => queue[n] # <<>>
  /\ reg \in [Sock -> {"idle", "waiting", "bind"} \cup RegCritical \cup RegSettled]
  /\ conn \subseteq Sock /\ room \subseteq Sock /\ bound \subseteq Sock
  /\ asking \subseteq ({"end", "disc"} \X Sock)
  /\ sweep \in [Node -> {"idle", "count", "recheck", "acquire"} \cup SweepCritical]
  /\ closing \subseteq Node
  /\ sent \in Nat /\ crashes \in Nat /\ faults \in Nat

Init ==
  /\ record = None /\ state = None /\ age = "live" /\ rowUser = None
  /\ lock = None
  /\ local = [n \in Node |-> None] /\ pend = [n \in Node |-> None]
  /\ queue = [n \in Node |-> <<>>] /\ job = [n \in Node |-> "idle"]
  /\ reg = [s \in Sock |-> "idle"]
  /\ conn = {} /\ room = {} /\ bound = {} /\ asking = {}
  /\ sweep = [n \in Node |-> "idle"] /\ closing = {}
  /\ sent = 0 /\ crashes = 0 /\ faults = 0

-----------------------------------------------------------------------------
(* The ownership lock: SET NX PX, released by compare-and-delete.          *)

\* Mutant: SET without NX.
Acquire_NoNX(h) == lock' = h

Acquire(h) == lock = None /\ lock' = h
Unlock(h) == lock' = IF lock = h THEN None ELSE lock

\* Is the code that took the lock as h still between acquire and release?
InSection(h) ==
  \/ h[1] = "reg" /\ reg[h[2]] \in RegCritical
  \/ h[1] = "job" /\ job[h[2]] # "idle"
  \/ h[1] = "sweep" /\ sweep[h[2]] \in SweepCritical

\* Mutant: SET without PX.
LockExpire_NoTTL == FALSE /\ UNCHANGED vars

\* The lease runs out: the holder crashed, its release failed, or (only with
\* LeaseMayLapse) a live holder could not renew it in time.
LockExpire ==
  /\ lock # None
  /\ LeaseMayLapse \/ ~InSection(lock)
  /\ lock' = None
  /\ UNCHANGED <<record, state, age, rowUser, memory, reg, sockets, sweep,
                 closing, used>>

\* The session hash and everything in it is deleted.
Forget == record' = None /\ state' = None /\ age' = "live"

RedisFault == faults < MaxFaults /\ faults' = faults + 1

-----------------------------------------------------------------------------
(* register: registerTuiSession and the handler around it.                 *)

\* A socket connects and emits register, which waits for the lock.
Connect(s) ==
  /\ reg[s] = "idle" /\ NodeOf[s] \notin closing
  /\ reg' = [reg EXCEPT ![s] = "waiting"]
  /\ conn' = conn \cup {s}
  /\ UNCHANGED <<redis, rowUser, memory, room, bound, asking, sweep, closing,
                 used>>

RegAcquire(s) ==
  /\ reg[s] = "waiting" /\ Acquire(<<"reg", s>>)
  /\ reg' = [reg EXCEPT ![s] = "read"]
  /\ UNCHANGED <<record, state, age, rowUser, memory, sockets, sweep, closing,
                 used>>

\* Mutant: a failed registration parked in a phase nothing handles.
RegTimeout_Parked(s) ==
  /\ reg[s] = "waiting" /\ lock # None
  /\ reg' = [reg EXCEPT ![s] = "retry"]
  /\ UNCHANGED <<redis, rowUser, memory, sockets, sweep, closing, used>>

\* Five seconds without the lock: the handler throws, the client is never told.
RegTimeout(s) ==
  /\ reg[s] = "waiting" /\ lock # None
  /\ reg' = [reg EXCEPT ![s] = "failed"]
  /\ UNCHANGED <<redis, rowUser, memory, sockets, sweep, closing, used>>

\* Mutants of RegRead: no look at the persisted row's owner; a record of any
\* user is evicted; the old record is overwritten without a teardown.
RegRead_NoRowGuard(s) ==
  /\ reg[s] = "read" /\ record = None
  /\ reg' = [reg EXCEPT ![s] = "write"]
  /\ UNCHANGED <<redis, rowUser, memory, sockets, sweep, closing, used>>
RegRead_AnyUser(s) ==
  /\ reg[s] = "read"
  /\ reg' = [reg EXCEPT ![s] = IF record = None THEN "write" ELSE "clear"]
  /\ UNCHANGED <<redis, rowUser, memory, sockets, sweep, closing, used>>
RegRead_NoEvict(s) ==
  /\ reg[s] = "read"
  /\ reg' = [reg EXCEPT ![s] = "write"]
  /\ UNCHANGED <<redis, rowUser, memory, sockets, sweep, closing, used>>

\* Read the record.  None of this user's: the ended session's row may still
\* belong to somebody else.  Another user's: go elsewhere under a fresh id.
\* The same user's: unbind the old socket of this node and evict it.
RegRead(s) ==
  /\ reg[s] = "read"
  /\ \/ /\ record = None
        /\ reg' = [reg EXCEPT ![s] =
                     IF rowUser \in {None, UserOf[s]} THEN "write" ELSE "leave"]
        /\ UNCHANGED bound
     \/ /\ record # None /\ UserOf[record] # UserOf[s]
        /\ reg' = [reg EXCEPT ![s] = "leave"]
        /\ UNCHANGED bound
     \/ /\ record # None /\ UserOf[record] = UserOf[s]
        /\ reg' = [reg EXCEPT ![s] = "clear"]
        /\ bound' = bound \ ({local[NodeOf[s]]} \ {s})
  /\ UNCHANGED <<redis, rowUser, memory, conn, room, asking, sweep, closing,
                 used>>

\* endSharedSessionUnlocked("Session reconnected"), up to its last await.
RegClear(s) ==
  /\ reg[s] = "clear"
  /\ IF record = None
       THEN reg' = [reg EXCEPT ![s] = "reset"] /\ UNCHANGED local
       ELSE /\ reg' = [reg EXCEPT ![s] = "delete"]
            /\ local' = [local EXCEPT ![NodeOf[s]] = None]
  /\ UNCHANGED <<redis, rowUser, pend, queue, job, sockets, sweep, closing,
                 used>>

\* ... and its unconditional deleteSession.
RegDelete(s) ==
  /\ reg[s] = "delete"
  /\ Forget
  /\ reg' = [reg EXCEPT ![s] = "reset"]
  /\ UNCHANGED <<lock, rowUser, memory, sockets, sweep, closing, used>>

\* resetPerSessionRelayState: queue a job behind everything this node still
\* has for the id, and hold the lock until that job has run.
RegReset(s) ==
  /\ reg[s] = "reset"
  /\ reg' = [reg EXCEPT ![s] = "draining"]
  /\ queue' = [queue EXCEPT ![NodeOf[s]] =
                 Append(@, [kind |-> "reset", sock |-> s])]
  /\ UNCHANGED <<redis, rowUser, local, pend, job, sockets, sweep, closing,
                 used>>

\* setSession with a fresh token.  A reconnect keeps startedAt and clears
\* lastHeartbeatAt, so its record may count as idle from the start.
RegWrite(s) ==
  /\ reg[s] \in {"write", "rewrite"}
  /\ record' = s /\ state' = None
  /\ age' \in IF reg[s] = "write" THEN {"live"} ELSE {"live", "idle"}
  /\ reg' = [reg EXCEPT ![s] = "attach"]
  /\ UNCHANGED <<lock, rowUser, memory, sockets, sweep, closing, used>>

\* localTuiSockets.set, socket.join (no effect once disconnected) and the
\* SQLite row, whose non-null owner is never overwritten.
RegAttach(s) ==
  /\ reg[s] = "attach"
  /\ local' = [local EXCEPT ![NodeOf[s]] = s]
  /\ room' = room \cup ({s} \cap conn)
  /\ rowUser' = IF rowUser = None THEN UserOf[s] ELSE rowUser
  /\ reg' = [reg EXCEPT ![s] = "release"]
  /\ UNCHANGED <<redis, pend, queue, job, conn, bound, asking, sweep, closing,
                 used>>

RegRelease(s) ==
  /\ reg[s] \in {"release", "leave"}
  /\ Unlock(<<"reg", s>>)
  /\ reg' = [reg EXCEPT ![s] = IF @ = "release" THEN "bind" ELSE "elsewhere"]
  /\ UNCHANGED <<record, state, age, rowUser, memory, sockets, sweep, closing,
                 used>>

\* Back in the handler: socket.data.sessionId and token, then "registered".
RegBind(s) ==
  /\ reg[s] = "bind"
  /\ reg' = [reg EXCEPT ![s] = "done"]
  /\ bound' = bound \cup {s}
  /\ UNCHANGED <<redis, rowUser, memory, conn, room, asking, sweep, closing,
                 used>>

\* A Redis call of the registration fails: the finally block releases the
\* lock, what was done stays done.
RegThrow(s) ==
  /\ reg[s] \in {"read", "clear", "delete", "write", "rewrite", "attach"}
  /\ RedisFault
  /\ Unlock(<<"reg", s>>)
  /\ reg' = [reg EXCEPT ![s] = "failed"]
  /\ UNCHANGED <<record, state, age, rowUser, memory, sockets, sweep, closing,
                 sent, crashes>>

\* The release itself fails: the handler throws and the lock waits for its
\* lease to run out.
RegReleaseFails(s) ==
  /\ reg[s] \in {"release", "leave"}
  /\ RedisFault
  /\ reg' = [reg EXCEPT ![s] = "failed"]
  /\ UNCHANGED <<redis, rowUser, memory, sockets, sweep, closing, sent, crashes>>

-----------------------------------------------------------------------------
(* Socket handlers: event, session_end, disconnect.                        *)

Enqueue(n, k, s) == queue' = [queue EXCEPT ![n] = Append(@, [kind |-> k, sock |-> s])]

\* An event passes the token check of its socket and is acked and queued.
EventArrive(s) ==
  /\ s \in conn \cap bound
  /\ sent < MaxEvents /\ sent' = sent + 1
  /\ Enqueue(NodeOf[s], "event", s)
  /\ UNCHANGED <<redis, rowUser, local, pend, job, reg, sockets, sweep, closing,
                 crashes, faults>>

\* session_end: the handler awaits the shared token.
EndRequest(s) ==
  /\ s \in conn \cap bound
  /\ sent < MaxEvents /\ sent' = sent + 1
  /\ asking' = asking \cup {<<"end", s>>}
  /\ UNCHANGED <<redis, rowUser, memory, reg, conn, room, bound, sweep, closing,
                 crashes, faults>>

\* disconnect: a socket without a session, or whose place in this node's map
\* was taken, is done; otherwise the handler awaits the shared token.
OnDisconnect(s) ==
  asking' = asking \cup
    IF s \in bound /\ local[NodeOf[s]] \in {None, s} THEN {<<"disc", s>>} ELSE {}

Disconnect(s) ==
  /\ s \in conn
  /\ conn' = conn \ {s} /\ room' = room \ {s}
  /\ OnDisconnect(s)
  /\ UNCHANGED <<redis, rowUser, memory, reg, bound, sweep, closing, used>>

\* The token arrives.  The present owner's teardown is queued behind its
\* events; a superseded socket is ignored; a disconnect during a graceful
\* shutdown preserves the record for the reconnect.
TokenAnswer(k, s) ==
  /\ <<k, s>> \in asking
  /\ asking' = asking \ {<<k, s>>}
  /\ IF record = s /\ (k = "disc" => NodeOf[s] \notin closing)
       THEN Enqueue(NodeOf[s], k, s)
       ELSE UNCHANGED queue
  /\ UNCHANGED <<redis, rowUser, local, pend, job, reg, conn, room, bound, sweep,
                 closing, used>>

\* The lookup throws: ownership is unknown, the teardown is skipped for good.
TokenFails(k, s) ==
  /\ <<k, s>> \in asking
  /\ asking' = asking \ {<<k, s>>}
  /\ RedisFault
  /\ UNCHANGED <<redis, rowUser, memory, reg, conn, room, bound, sweep, closing,
                 sent, crashes>>

-----------------------------------------------------------------------------
(* The job at the head of a node's queue.                                  *)

HeadIs(n, kinds) == queue[n] # <<>> /\ Head(queue[n]).kind \in kinds
Worker(n) == Head(queue[n]).sock
JobDone(n) == /\ queue' = [queue EXCEPT ![n] = Tail(@)]
              /\ job' = [job EXCEPT ![n] = "idle"]

\* The reset job of a reconnect: drop half-assembled chunks, resume the
\* registration that waits for it.
ResetJob(n) ==
  /\ job[n] = "idle" /\ HeadIs(n, {"reset"})
  /\ pend' = [pend EXCEPT ![n] = None]
  /\ reg' = [reg EXCEPT ![Worker(n)] = IF @ = "draining" THEN "rewrite" ELSE @]
  /\ JobDone(n)
  /\ UNCHANGED <<redis, rowUser, local, sockets, sweep, closing, used>>

JobAcquire(n) ==
  /\ job[n] = "idle" /\ HeadIs(n, {"event", "end", "disc"})
  /\ Acquire(<<"job", n>>)
  /\ job' = [job EXCEPT ![n] = "locked"]
  /\ UNCHANGED <<record, state, age, rowUser, local, pend, queue, reg, sockets,
                 sweep, closing, used>>

\* Mutant: a queued job polls for the lock for ever.
JobTimeout_Never(n) == FALSE /\ n \in Node /\ UNCHANGED vars

\* Five seconds without the lock: the event, or the whole teardown, is dropped.
JobTimeout(n) ==
  /\ job[n] = "idle" /\ HeadIs(n, {"event", "end", "disc"}) /\ lock # None
  /\ JobDone(n)
  /\ UNCHANGED <<redis, rowUser, local, pend, reg, sockets, sweep, closing, used>>

\* Mutant: the shared token is not compared again under the lock.
JobCheck_Trusting(n) ==
  /\ job[n] = "locked"
  /\ job' = [job EXCEPT ![n] = "checked"]
  /\ UNCHANGED <<redis, rowUser, local, pend, queue, reg, sockets, sweep, closing,
                 used>>

\* Compare the shared token with the token the job was queued under.
JobCheck(n) ==
  /\ job[n] = "locked"
  /\ job' = [job EXCEPT ![n] = IF record = Worker(n) THEN "checked" ELSE "release"]
  /\ UNCHANGED <<redis, rowUser, local, pend, queue, reg, sockets, sweep, closing,
                 used>>

\* Apply an accepted event: start a chunked snapshot, replace the snapshot (a
\* full one, or the last chunk), or record a heartbeat.  A record that is
\* gone is not written.
EventApply(n) ==
  /\ job[n] = "checked" /\ HeadIs(n, {"event"})
  /\ \/ /\ pend' = [pend EXCEPT ![n] = Worker(n)]
        /\ age' = IF age = "expired" THEN "idle" ELSE age
        /\ UNCHANGED state
     \/ /\ pend' = [pend EXCEPT ![n] = None]
        /\ state' = IF record = None THEN None ELSE Worker(n)
        /\ age' = IF age = "expired" THEN "idle" ELSE age
     \/ age' = "live" /\ UNCHANGED <<pend, state>>
  /\ job' = [job EXCEPT ![n] = "release"]
  /\ UNCHANGED <<record, lock, rowUser, local, queue, reg, sockets, sweep,
                 closing, used>>

\* session_end unbinds its socket once the session is gone.
Unbind(n) == bound' = IF HeadIs(n, {"end"}) THEN bound \ {Worker(n)} ELSE bound

\* Teardown with expectedOwnerToken: onOwnerConfirmed, then the local socket.
JobClear(n) ==
  /\ job[n] = "checked" /\ HeadIs(n, {"end", "disc"})
  /\ pend' = [pend EXCEPT ![n] = None]
  /\ IF record = None
       THEN job' = [job EXCEPT ![n] = "release"] /\ Unbind(n) /\ UNCHANGED local
       ELSE /\ job' = [job EXCEPT ![n] = "delete"]
            /\ local' = [local EXCEPT ![n] = None]
            /\ UNCHANGED bound
  /\ UNCHANGED <<redis, rowUser, queue, reg, conn, room, asking, sweep, closing,
                 used>>

\* Mutant: deleteSession where deleteSessionIfOwner is meant.
JobDelete_AnyOwner(n) ==
  /\ job[n] = "delete" /\ Forget
  /\ job' = [job EXCEPT ![n] = "release"]
  /\ UNCHANGED <<lock, rowUser, local, pend, queue, reg, sockets, sweep, closing,
                 used>>

\* deleteSessionIfOwner.
JobDelete(n) ==
  /\ job[n] = "delete"
  /\ IF record = Worker(n)
       THEN Forget /\ Unbind(n)
       ELSE UNCHANGED <<record, state, age, bound>>
  /\ job' = [job EXCEPT ![n] = "release"]
  /\ UNCHANGED <<lock, rowUser, local, pend, queue, reg, conn, room, asking,
                 sweep, closing, used>>

\* A Redis call of the job fails: the rest of the event or teardown is dropped
\* and the lock released; a release that fails leaves the lock to its lease.
JobThrow(n) ==
  /\ job[n] # "idle" /\ RedisFault
  /\ IF job[n] = "release"
       THEN JobDone(n)
       ELSE job' = [job EXCEPT ![n] = "release"] /\ UNCHANGED queue
  /\ UNCHANGED <<redis, rowUser, local, pend, reg, sockets, sweep, closing, sent,
                 crashes>>

JobRelease(n) ==
  /\ job[n] = "release"
  /\ Unlock(<<"job", n>>)
  /\ JobDone(n)
  /\ UNCHANGED <<record, state, age, rowUser, local, pend, reg, sockets, sweep,
                 closing, used>>

-----------------------------------------------------------------------------
(* Maintenance: the expiry and orphan sweeps, and cleanup_child_session.   *)

\* Time passes: two minutes without a heartbeat, then the ephemeral TTL.  The
\* few calls between setSession and socket.join do not last that long.
Tick ==
  /\ record # None /\ reg[record] # "attach"
  /\ \/ age = "live" /\ age' = "idle"
     \/ age = "idle" /\ Ephemeral /\ age' = "expired"
  /\ UNCHANGED <<record, state, lock, rowUser, memory, reg, sockets, sweep,
                 closing, used>>

\* Mutant: expired sessions with an entry in the local map are skipped too.
SweepExpired_SkipLocal(n) ==
  /\ SweepsOn /\ sweep[n] = "idle" /\ record # None /\ age = "expired"
  /\ local[n] = None
  /\ sweep' = [sweep EXCEPT ![n] = "acquire"]
  /\ UNCHANGED <<redis, rowUser, memory, reg, sockets, closing, used>>

\* An expired session: disconnect its local socket, then end it.
SweepExpired(n) ==
  /\ SweepsOn /\ sweep[n] = "idle" /\ record # None /\ age = "expired"
  /\ sweep' = [sweep EXCEPT ![n] = "acquire"]
  /\ IF local[n] \in conn
       THEN /\ conn' = conn \ {local[n]} /\ room' = room \ {local[n]}
            /\ OnDisconnect(local[n])
       ELSE UNCHANGED <<conn, room, asking>>
  /\ UNCHANGED <<redis, rowUser, memory, reg, bound, closing, used>>

\* An orphan candidate: idle, and no entry in this node's socket map.
SweepScan(n) ==
  /\ SweepsOn /\ sweep[n] = "idle" /\ record # None
  /\ local[n] = None /\ age # "live"
  /\ sweep' = [sweep EXCEPT ![n] = "count"]
  /\ UNCHANGED <<redis, rowUser, memory, reg, sockets, closing, used>>

\* Only a confirmed count of zero relay sockets in the cluster goes on.
SweepCount(n) ==
  /\ sweep[n] = "count"
  /\ sweep' = [sweep EXCEPT ![n] = IF room = {} THEN "recheck" ELSE "idle"]
  /\ UNCHANGED <<redis, rowUser, memory, reg, sockets, closing, used>>

\* "Verify locally right before teardown to catch fresh reconnections."
SweepRecheck(n) ==
  /\ sweep[n] = "recheck"
  /\ sweep' = [sweep EXCEPT ![n] = IF local[n] = None THEN "acquire" ELSE "idle"]
  /\ UNCHANGED <<redis, rowUser, memory, reg, sockets, closing, used>>

\* cleanup_child_session, on the parent's node: tear down on a count of zero.
CleanupChild(n) ==
  /\ SweepsOn /\ sweep[n] = "idle" /\ record # None /\ room = {}
  /\ sent < MaxEvents /\ sent' = sent + 1
  /\ sweep' = [sweep EXCEPT ![n] = "acquire"]
  /\ UNCHANGED <<redis, rowUser, memory, reg, sockets, closing, crashes, faults>>

\* Mutant: the sweep ends sessions without taking the lock.
SweepAcquire_NoLock(n) ==
  /\ sweep[n] = "acquire"
  /\ sweep' = [sweep EXCEPT ![n] = "clear"]
  /\ UNCHANGED <<redis, rowUser, memory, reg, sockets, closing, used>>

SweepAcquire(n) ==
  /\ sweep[n] = "acquire" /\ Acquire(<<"sweep", n>>)
  /\ sweep' = [sweep EXCEPT ![n] = "clear"]
  /\ UNCHANGED <<record, state, age, rowUser, memory, reg, sockets, closing, used>>

SweepTimeout(n) ==
  /\ sweep[n] = "acquire" /\ lock # None
  /\ sweep' = [sweep EXCEPT ![n] = "idle"]
  /\ UNCHANGED <<redis, rowUser, memory, reg, sockets, closing, used>>

\* endSharedSession without expectedOwnerToken: whoever owns the record now.
SweepClear(n) ==
  /\ sweep[n] = "clear"
  /\ IF record = None
       THEN sweep' = [sweep EXCEPT ![n] = "release"] /\ UNCHANGED local
       ELSE /\ sweep' = [sweep EXCEPT ![n] = "delete"]
            /\ local' = [local EXCEPT ![n] = None]
  /\ UNCHANGED <<redis, rowUser, pend, queue, job, reg, sockets, closing, used>>

SweepDelete(n) ==
  /\ sweep[n] = "delete"
  /\ Forget
  /\ sweep' = [sweep EXCEPT ![n] = "release"]
  /\ UNCHANGED <<lock, rowUser, memory, reg, sockets, closing, used>>

\* A Redis call of the sweep fails: nothing is known of the room (no teardown),
\* or the rest of the teardown is dropped.
SweepThrow(n) ==
  /\ sweep[n] # "idle" /\ RedisFault
  /\ sweep' = [sweep EXCEPT ![n] = IF @ \in {"clear", "delete"} THEN "release"
                                                              ELSE "idle"]
  /\ UNCHANGED <<redis, rowUser, memory, reg, sockets, closing, sent, crashes>>

SweepRelease(n) ==
  /\ sweep[n] = "release"
  /\ Unlock(<<"sweep", n>>)
  /\ sweep' = [sweep EXCEPT ![n] = "idle"]
  /\ UNCHANGED <<record, state, age, rowUser, memory, reg, sockets, closing, used>>

-----------------------------------------------------------------------------
(* Relay processes stop.                                                   *)

\* SIGTERM: from here on disconnects preserve the record.
Shutdown(n) ==
  /\ n \notin closing /\ crashes < MaxCrashes
  /\ closing' = closing \cup {n}
  /\ UNCHANGED <<redis, rowUser, memory, reg, sockets, sweep, used>>

\* The process ends (after a shutdown, or by a crash) and a new one starts:
\* its memory and sockets are gone, no handler runs, Redis keeps everything.
Crash(n) ==
  LET here == {s \in Sock : NodeOf[s] = n} IN
  /\ crashes < MaxCrashes /\ crashes' = crashes + 1
  /\ conn' = conn \ here /\ room' = room \ here /\ bound' = bound \ here
  /\ asking' = {a \in asking : a[2] \notin here}
  /\ reg' = [s \in Sock |-> IF s \in here /\ reg[s] \notin {"idle"} \cup RegSettled
                              THEN "failed" ELSE reg[s]]
  /\ local' = [local EXCEPT ![n] = None]
  /\ pend' = [pend EXCEPT ![n] = None]
  /\ queue' = [queue EXCEPT ![n] = <<>>]
  /\ job' = [job EXCEPT ![n] = "idle"]
  /\ sweep' = [sweep EXCEPT ![n] = "idle"]
  /\ closing' = closing \ {n}
  /\ UNCHANGED <<redis, rowUser, sent, faults>>

-----------------------------------------------------------------------------
RegStep(s) == \/ RegAcquire(s) \/ RegTimeout(s) \/ RegRead(s) \/ RegClear(s)
              \/ RegDelete(s) \/ RegReset(s) \/ RegWrite(s) \/ RegAttach(s)
              \/ RegRelease(s) \/ RegBind(s)

JobStep(n) == \/ ResetJob(n) \/ JobAcquire(n) \/ JobTimeout(n) \/ JobCheck(n)
              \/ EventApply(n) \/ JobClear(n) \/ JobDelete(n) \/ JobRelease(n)

SweepStep(n) == \/ SweepExpired(n) \/ SweepScan(n) \/ SweepCount(n)
                \/ SweepRecheck(n) \/ SweepAcquire(n) \/ SweepTimeout(n)
                \/ SweepClear(n) \/ SweepDelete(n) \/ SweepRelease(n)

SockStep(s) == \/ Connect(s) \/ RegStep(s) \/ RegThrow(s) \/ RegReleaseFails(s)
               \/ EventArrive(s) \/ EndRequest(s) \/ Disconnect(s)
               \/ \E k \in {"end", "disc"} : TokenAnswer(k, s) \/ TokenFails(k, s)

NodeStep(n) == \/ JobStep(n) \/ JobThrow(n)
               \/ SweepStep(n) \/ SweepThrow(n) \/ CleanupChild(n)
               \/ Shutdown(n) \/ Crash(n)

Next == \/ \E s \in Sock : SockStep(s)
        \/ \E n \in Node : NodeStep(n)
        \/ LockExpire
        \/ Tick

Spec == Init /\ [][Next]_vars

\* The event loop runs every continuation, the lock poll either succeeds or
\* times out, timers fire (every pass of the sweep begins with the expired
\* sessions), leases of dead holders run out.  Clients, faults, crashes and
\* shutdowns owe nothing.
Fairness ==
  /\ \A s \in Sock : /\ WF_vars(RegStep(s))
                     /\ \A k \in {"end", "disc"} : WF_vars(TokenAnswer(k, s))
  /\ \A n \in Node : /\ WF_vars(JobStep(n)) /\ WF_vars(SweepStep(n))
                     /\ SF_vars(SweepExpired(n))
  /\ WF_vars(LockExpire) /\ WF_vars(Tick)

FairSpec == Spec /\ Fairness
-----------------------------------------------------------------------------
(* Properties.                                                             *)

\* The critical sections of registration, queued jobs and sweeps exclude each
\* other, whichever node they run on (acquireSessionOwnershipLock).
OneInSection == \A g, h \in Holder : InSection(g) /\ InSection(h) => g = h

\* The snapshot kept for the session was sent by its present owner: an event
\* checked against the token cannot land after a replacement took over.
OwnerState == state \in {None, record}

\* The id never passes to another user: the live record and the persisted row
\* agree on whose it is, through evictions, ends and crashes.
OneUserPerId == record # None /\ rowUser # None => UserOf[record] = rowUser

\* A registered, connected owner stays reachable whenever nobody is in the
\* middle of changing that: its node maps the id to it and it is bound, so its
\* events are accepted and messages for the session reach it.
OwnerReachable ==
  \A s \in Sock : lock = None /\ record = s /\ s \in conn /\ reg[s] = "done"
                   => local[NodeOf[s]] = s /\ s \in bound

\* A queued teardown deletes the record of the socket it was queued for and of
\* no other, and of a socket still connected only on its own session_end.
NoStaleTeardown ==
  [][\A n \in Node :
       job[n] = "delete" /\ job'[n] # "delete" /\ record # None /\ record' = None
         => \/ record = Worker(n) /\ (record \in conn => HeadIs(n, {"end"}))
            \/ queue'[n] = <<>>]_vars

\* A registration evicts only a record of its own user.
SameUserEviction ==
  [][\A s \in Sock :
       reg[s] = "delete" /\ reg'[s] = "reset" /\ record # None
         => UserOf[record] = UserOf[s]]_vars

\* What the relay promises about the id, whatever happens inside.
Abstract == INSTANCE SessionOwner WITH owner <- record, user <- rowUser
ImplementsOwner == Abstract!Spec

\* Every register call comes to an end, although a registration holds the lock
\* while it waits for jobs that wait for the lock.
RegistrationSettles ==
  \A s \in Sock : reg[s] = "waiting" ~> reg[s] \in RegSettled

\* The lock never stays taken: a holder finishes, times out, or expires.
LockFreed == lock # None ~> lock = None

\* The record of a socket that is gone does not stay: its own teardown, a
\* replacement or one of the sweeps removes it.
DeadOwnerCollected ==
  \A s \in Sock : record = s /\ s \notin conn ~> record # s \/ s \in conn

\* sessions.ts on the orphan sweep: "Only a confirmed zero is proof that
\* teardown is safe."  A sweep deletes no record whose owner is connected.
SweepSparesLive ==
  [][\A n \in Node : sweep[n] = "delete" /\ sweep'[n] = "release"
       => record \notin room]_vars

\* relay-state.ts on the reset of a reconnect: "half-assembled chunk state
\* cannot leak into the new session generation".
NoChunkLeak ==
  \A s \in Sock : record = s /\ reg[s] = "done" => pend[NodeOf[s]] \in {None, s}
-----------------------------------------------------------------------------
(* Why the properties hold when no lease lapses under a live holder: code   *)
(* in a critical section holds the lock, and what it has established about *)
(* the record is undisturbed until it leaves.                              *)

HolderHasLock ==
  /\ \A s \in Sock : reg[s] \in RegCritical => lock = <<"reg", s>>
  /\ \A n \in Node : job[n] # "idle" => lock = <<"job", n>>
  /\ \A n \in Node : sweep[n] \in SweepCritical => lock = <<"sweep", n>>

RegKnows ==
  \A s \in Sock :
    /\ reg[s] \in {"clear", "delete"} => record # None /\ UserOf[record] = UserOf[s]
    /\ reg[s] \in {"reset", "draining", "write", "rewrite"}
         => record = None /\ rowUser \in {None, UserOf[s]}
    /\ reg[s] \in {"attach", "release"} => record = s

JobKnows == \A n \in Node : job[n] \in {"checked", "delete"} => record = Worker(n)

\* The inductive invariant behind the safety theorems (leases not lapsing): it
\* ties every handler's position in the code to the lock and to the record.
OwnershipInv == /\ HolderHasLock /\ RegKnows /\ JobKnows
                /\ OwnerState /\ OneUserPerId
=============================================================================
