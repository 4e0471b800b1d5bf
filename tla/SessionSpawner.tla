--------------------------- MODULE SessionSpawner ---------------------------
(***************************************************************************)
(* ONE session of one runner: the daemon's tables for it (runner/daemon.ts,*)
(* session-spawner.ts), its worker processes (runner/worker.ts,            *)
(* remote-exec-handler.ts), the supervisor that starts daemons, and what   *)
(* the relay knows: the record, the worker connected for it and the        *)
(* runner's connection (namespaces/runner.ts, sio-registry/).              *)
(*                                                                         *)
(* A worker outlives the daemon that restarts on purpose (exit code 42):   *)
(* the relay tells the next one which sessions are connected and it adopts *)
(* them, without a handle on their processes.  A worker that exits with    *)
(* code 43 wants to be started again.                                      *)
(*                                                                         *)
(* Handlers of the relay are one step, see SessionOwnership for theirs.    *)
(* The id's persisted row names the runner, so every registration of a     *)
(* worker finds its link again.                                            *)
(***************************************************************************)
EXTENDS Integers, Sequences, FiniteSets

CONSTANTS
  MaxWorkers,  \* bound: processes of the session
  MaxRestarts, \* bound: "restart" from a viewer
  MaxKills,    \* bound: kill_session
  MaxWakes,    \* bound: wakes of the session
  MaxStops,    \* bound: exits of the daemon
  MaxDrops,    \* bound: connections that break
  MaxCuts,     \* bound: restarts of the relay
  Unstartable  \* may a worker fail to start (its directory is gone)?

ASSUME SpawnerAssumption ==
  /\ {MaxRestarts, MaxKills, MaxWakes, MaxStops, MaxDrops, MaxCuts} \subseteq Nat
  /\ MaxWorkers \in Nat /\ MaxWorkers > MaxRestarts + MaxWakes
  /\ Unstartable \in BOOLEAN

Worker == 1 .. MaxWorkers

VARIABLES
  daemon,     \* is the daemon up?
  entry,      \* its runningSessions: "none", "child" or "adopted"
  restarting, killed,   \* restartingSessions, killedSessions
  adopting,   \* runner_registered handlers that await plugin discovery
  ready,      \* are the plugins discovered?
  starting,   \* new_session handlers that look for the transcript's file
  sweeps,     \* running attachment sweeps that would take the session's files,
              \* counted by its latest worker when the list of sessions was taken
  child,      \* workers with an IPC channel to this daemon
  ipc,        \* what each of them has sent on it
  proc,       \* every worker: "unborn", "up", "stopping" or "gone"
  asked,      \* workers that have accepted a restart
  online,     \* workers that believe in their relay connection
  files,      \* are there attachments of the session?
  rec,        \* relay: the record: "none", "free" or "linked" to the runner
  conn,       \* relay: the worker registered for it, 0 for none
  waking,     \* relay: deliveries that found no worker and will send new_session
  link,       \* relay: is the runner's connection up?
  toDaemon, toRelay,    \* frames on that connection
  doomed,     \* workers killed, until the kill is lifted; observed only
  astray,     \* workers that ran when the daemon lost track of them; observed only
  used        \* counters of the bounds

tables == <<entry, restarting, killed>>
start == <<daemon, adopting, ready, starting, sweeps>>
workers == <<child, ipc, proc, asked, online>>
relay == <<rec, conn, waking>>
runnerLink == <<link, toDaemon, toRelay>>
observed == <<doomed, astray>>
vars == <<tables, start, workers, files, relay, runnerLink, observed, used>>

\* One worker runs, is tracked by the daemon and registered at the relay.
Init ==
  /\ daemon = TRUE /\ entry = "child" /\ restarting = FALSE /\ killed = FALSE
  /\ adopting = <<>> /\ ready = TRUE /\ starting = 0 /\ sweeps = [w \in Worker |-> 0]
  /\ child = {1} /\ ipc = [w \in Worker |-> <<>>]
  /\ proc = [w \in Worker |-> IF w = 1 THEN "up" ELSE "unborn"]
  /\ asked = {} /\ online = {1} /\ files = FALSE
  /\ rec = "linked" /\ conn = 1 /\ waking = 0
  /\ link = TRUE /\ toDaemon = <<>> /\ toRelay = <<>>
  /\ doomed = {} /\ astray = {}
  /\ used = [restarts |-> 0, kills |-> 0, wakes |-> 0, stops |-> 0, drops |-> 0, cuts |-> 0]

Frame(kind, arg) == [kind |-> kind, arg |-> arg]
Use(counter, max) ==
  used[counter] < max /\ used' = [used EXCEPT ![counter] = @ + 1]

Alive(w) == proc[w] \in {"up", "stopping"}
Up == {w \in Worker : proc[w] = "up"}
Dead == \A w \in Worker : ~Alive(w)
Latest == CHOOSE w \in Worker :
            proc[w] # "unborn" /\ \A v \in Worker : v > w => proc[v] = "unborn"

\* emitToRunner and socket.emit of the daemon: lost without a connection (what
\* the client keeps is flushed before it has registered, and ignored).
ToDaemon(frames) == toDaemon' = IF link THEN toDaemon \o frames ELSE toDaemon
ToRelay(frames) == toRelay' = IF link THEN toRelay \o frames ELSE toRelay

-----------------------------------------------------------------------------
(* Worker processes.                                                       *)

\* A new worker, as spawnSession starts it.
Born(w) == w \in Worker /\ proc[w] = "unborn" /\ w = Latest + 1

\* SIGTERM, an end_session or the lost IPC channel: the worker shuts down.
Stop(ws) == proc' = [w \in Worker |-> IF w \in ws /\ proc[w] = "up" THEN "stopping"
                                      ELSE proc[w]]

\* What the daemon learns from the death of a worker of its own.
Die(w, events) ==
  /\ proc' = [proc EXCEPT ![w] = "gone"] /\ online' = online \ {w}
  /\ ipc' = IF w \in child THEN [ipc EXCEPT ![w] = @ \o events] ELSE ipc
  /\ UNCHANGED <<child, asked>>

\* A viewer's message brings attachments, which the worker saves.
SaveFiles ==
  /\ conn # 0 /\ conn \in online /\ proc[conn] = "up" /\ ~files /\ files' = TRUE
  /\ UNCHANGED <<tables, start, workers, relay, runnerLink, observed, used>>

\* exec "restart" of a viewer; the exit follows 100 ms later.
AskRestart ==
  /\ conn # 0 /\ conn \in online /\ proc[conn] = "up" /\ conn \notin asked
  /\ Use("restarts", MaxRestarts) /\ asked' = asked \cup {conn}
  /\ UNCHANGED <<tables, start, child, ipc, proc, online, files, relay, runnerLink, observed>>

ExitRestart(w) ==
  /\ w \in asked /\ Alive(w) /\ Die(w, <<"pre_restart", "exit 43">>)
  /\ UNCHANGED <<tables, start, files, relay, runnerLink, observed, used>>

\* It ends by itself, crashes, or its shutdown is done.
Exit(w) ==
  /\ Alive(w) /\ Die(w, <<"exit">>)
  /\ UNCHANGED <<tables, start, files, relay, runnerLink, observed, used>>

WorkerDrop(w) ==
  /\ w \in online /\ Use("drops", MaxDrops) /\ online' = online \ {w}
  /\ UNCHANGED <<tables, start, child, ipc, proc, asked, files, relay, runnerLink, observed>>

-----------------------------------------------------------------------------
(* The relay.                                                              *)

Teardown_KeepsSocket(reason, before) ==
  /\ rec' = "none" /\ UNCHANGED conn
  /\ ToDaemon(before \o IF rec = "linked" THEN <<Frame("ended", reason)>> ELSE <<>>)

\* endSharedSession; the runner is told when the record names it.
Teardown(reason, before) ==
  /\ rec' = "none" /\ conn' = 0
  /\ ToDaemon(before \o IF rec = "linked" THEN <<Frame("ended", reason)>> ELSE <<>>)

\* A worker (re)connects and registers; a record that is still there is torn
\* down first.
Register(w) ==
  /\ proc[w] = "up" /\ w \notin online /\ online' = online \cup {w}
  /\ ToDaemon(IF rec = "linked" THEN <<Frame("ended", "Session reconnected")>> ELSE <<>>)
  /\ rec' = "linked" /\ conn' = w
  /\ UNCHANGED <<tables, start, child, ipc, proc, asked, files, waking, link, toRelay,
                 observed, used>>

\* The relay notices that the registered worker's connection is lost.
RelayClosed ==
  /\ conn # 0 /\ conn \notin online /\ Teardown("Session ended", <<>>)
  /\ UNCHANGED <<tables, start, workers, files, waking, link, toRelay, observed, used>>

\* sweepOrphanedSessions: a record without a connection whose heartbeat is old.
\* Its worker may be dead, or only cut off for so long.
Sweep ==
  /\ rec # "none" /\ conn = 0 /\ Teardown("Session orphaned", <<>>)
  /\ UNCHANGED <<tables, start, workers, files, waking, link, toRelay, observed, used>>

\* A trigger that is to wake the session finds no socket of a worker ...
FindOffline ==
  /\ conn = 0 /\ Use("wakes", MaxWakes) /\ waking' = waking + 1
  /\ UNCHANGED <<tables, start, workers, files, rec, conn, runnerLink, observed>>

\* ... and, having asked the other nodes and Redis, wakeOfflineSession asks the
\* runner for one, whatever has happened since.
Wake ==
  /\ waking > 0 /\ waking' = waking - 1 /\ ToDaemon(<<Frame("new", "")>>)
  /\ UNCHANGED <<tables, start, workers, files, rec, conn, link, toRelay, observed, used>>

\* kill_session from an automatic spawn that failed, or with the end_session
\* of a parent's cleanup, which ends a session without a connection itself.
KillSession ==
  /\ rec = "linked" /\ link /\ Use("kills", MaxKills)
  /\ \/ ToDaemon(<<Frame("kill", "")>>) /\ UNCHANGED <<rec, conn, proc>>
     \/ conn # 0 /\ ToDaemon(<<Frame("kill", "")>>) /\ Stop({conn} \cap online)
        /\ UNCHANGED <<rec, conn>>
     \/ conn = 0 /\ Teardown("Parent acknowledged completion", <<Frame("kill", "")>>)
        /\ UNCHANGED proc
  /\ UNCHANGED <<tables, start, child, ipc, asked, online, files, waking, link, toRelay, observed>>

\* session_killed and disconnect_session of the runner.
RelaySee ==
  /\ toRelay # <<>> /\ toRelay' = Tail(toRelay)
  /\ \/ Head(toRelay) = "session_killed" /\ UNCHANGED proc
        /\ rec' = IF rec = "linked" THEN "free" ELSE rec
     \/ Head(toRelay) = "disconnect_session" /\ Stop({conn} \cap online) /\ UNCHANGED rec
  /\ UNCHANGED <<tables, start, child, ipc, asked, online, files, conn, waking, link, toDaemon,
                 observed, used>>

\* A restart of the relay keeps the record.
Cut ==
  /\ Use("cuts", MaxCuts)
  /\ conn' = 0 /\ waking' = 0 /\ online' = {} /\ link' = FALSE /\ toDaemon' = <<>> /\ toRelay' = <<>>
  /\ UNCHANGED <<tables, start, child, ipc, proc, asked, files, rec, observed>>

LinkDrop ==
  /\ link /\ Use("drops", MaxDrops)
  /\ link' = FALSE /\ toDaemon' = <<>> /\ toRelay' = <<>>
  /\ UNCHANGED <<tables, start, workers, files, relay, observed>>

\* The daemon registers and is told which of its sessions are connected.
LinkUp ==
  /\ daemon /\ ~link /\ link' = TRUE
  /\ toDaemon' = <<Frame("registered", IF conn # 0 /\ rec = "linked" THEN "listed" ELSE "")>>
  /\ UNCHANGED <<tables, start, workers, files, relay, toRelay, observed, used>>

-----------------------------------------------------------------------------
(* The daemon.                                                             *)

\* Observed: the daemon no longer knows of the workers that run now; a kill is
\* lifted by a step that starts a worker or takes the session up again.
LosesTrack == astray' = astray \cup Up
LiftedIf(condition) == doomed' = IF condition THEN {} ELSE doomed

\* spawnSession, for new_session or after a worker's exit, beside these children.
Spawn(others) ==
  /\ entry' = "child"
  /\ \E w \in Worker : Born(w) /\ proc' = [proc EXCEPT ![w] = "up"]
                       /\ child' = others \cup {w}

\* spawnSession for new_session: refused while the session is in the table.
New ==
  /\ \/ entry = "none" /\ Spawn(child)
     \/ (entry = "none" => Unstartable) /\ UNCHANGED <<entry, proc, child>>
  /\ UNCHANGED <<restarting, killed>>

\* kill_session: the process group of a child is signalled; the worker of an
\* adopted session is ended through the relay.
Kill ==
  /\ \/ /\ entry = "child" /\ killed' = TRUE
        /\ Stop({Latest}) /\ doomed' = doomed \cup {Latest}
        /\ ToRelay(<<"session_killed">>) /\ UNCHANGED astray
     \/ /\ entry = "adopted" /\ ToRelay(<<"disconnect_session", "session_killed">>)
        /\ LosesTrack /\ UNCHANGED <<killed, proc, doomed>>
     \/ /\ entry = "none" /\ UNCHANGED <<killed, proc, observed, toRelay>>
  /\ entry' = "none" /\ files' = (files /\ entry = "none")
  /\ UNCHANGED restarting

SessionEnded_AllGone(reason) ==
  /\ IF restarting THEN restarting' = FALSE /\ UNCHANGED <<entry, killed, files>>
     ELSE IF reason = "Session reconnected" THEN UNCHANGED <<tables, files>>
     ELSE /\ entry' = "none" /\ files' = FALSE
          /\ killed' = (killed /\ entry = "none") /\ UNCHANGED restarting

\* session_ended: ignored in a restart or reconnect and, when it is transient,
\* while the child is alive; else the session is forgotten and its files go.
SessionEnded(reason) ==
  /\ IF restarting THEN restarting' = FALSE /\ UNCHANGED <<entry, killed, files>>
     ELSE IF reason = "Session reconnected" \/ (reason = "Session ended" /\ entry = "child")
       THEN UNCHANGED <<tables, files>>
     ELSE /\ entry' = "none" /\ files' = FALSE
          /\ killed' = (killed /\ entry = "none") /\ UNCHANGED restarting

\* The verdict of a session_ended on an entry, whose worker may be up.
Forgotten(reason) ==
  /\ ~restarting /\ entry # "none" /\ reason # "Session reconnected"
  /\ entry = "adopted" \/ reason # "Session ended"

\* The table after runner_registered handlers that were told these lists.
AdoptedBy(lists) ==
  /\ entry' = IF entry = "none" /\ \E i \in DOMAIN lists : lists[i] = "listed"
              THEN "adopted" ELSE entry
  /\ LiftedIf(entry' = "adopted")
  /\ astray' = IF entry' # entry /\ (\A v, w \in Up : v = w) THEN {} ELSE astray

Adopt_NoSweep(lists) == AdoptedBy(lists) /\ UNCHANGED sweeps

\* The rest of runner_registered handlers that were told these lists: sessions
\* that are not in the table are adopted; then each starts a sweep of the
\* attachments of those that are not in the table after it.
Adopt(lists) ==
  /\ AdoptedBy(lists)
  /\ LET bare == {i \in DOMAIN lists : entry = "none" /\ \A j \in 1 .. i : lists[j] # "listed"}
     IN  sweeps' = [sweeps EXCEPT ![Latest] = @ + Cardinality(bare)]

\* sweepOrphanedAttachments comes to the session's directory.
SweepFiles(w) ==
  /\ sweeps[w] > 0 /\ sweeps' = [sweeps EXCEPT ![w] = @ - 1] /\ files' = FALSE
  /\ UNCHANGED <<tables, daemon, adopting, ready, starting, workers, relay, runnerLink,
                 observed, used>>

\* findSessionPathById answers a new_session handler.
TranscriptFound ==
  /\ starting > 0 /\ starting' = starting - 1
  /\ New /\ LiftedIf(entry' # entry)
  /\ UNCHANGED <<daemon, adopting, ready, sweeps, ipc, asked, online, files, relay, runnerLink,
                 astray, used>>

\* The daemon takes a frame.  A new_session whose transcript is not linked has
\* to look for it.
DaemonSee ==
  /\ daemon /\ toDaemon # <<>> /\ toDaemon' = Tail(toDaemon)
  /\ LET f == Head(toDaemon) IN
       \/ /\ f.kind = "new"
          /\ \/ New /\ LiftedIf(entry' # entry) /\ UNCHANGED starting
             \/ starting' = starting + 1 /\ UNCHANGED <<tables, child, proc, doomed>>
          /\ UNCHANGED <<files, adopting, sweeps, toRelay, astray>>
       \/ f.kind = "kill" /\ Kill /\ UNCHANGED <<child, adopting, starting, sweeps>>
       \/ /\ f.kind = "ended" /\ SessionEnded(f.arg)
          /\ IF Forgotten(f.arg) THEN LosesTrack ELSE UNCHANGED astray
          /\ UNCHANGED <<child, proc, adopting, starting, sweeps, toRelay, doomed>>
       \/ /\ f.kind = "registered"
          /\ IF ready THEN Adopt(<<f.arg>>) /\ UNCHANGED adopting
             ELSE adopting' = Append(adopting, f.arg) /\ UNCHANGED <<entry, sweeps, observed>>
          /\ UNCHANGED <<restarting, killed, child, proc, starting, files, toRelay>>
  /\ UNCHANGED <<daemon, ready, ipc, asked, online, relay, link, used>>

PluginsReady ==
  /\ daemon /\ ~ready /\ ready' = TRUE /\ adopting' = <<>> /\ Adopt(adopting)
  /\ UNCHANGED <<daemon, restarting, killed, starting, workers, files, relay, runnerLink, used>>

Respawn_Killed(code) == code = "exit 43"

\* Is the exit a restart in place?
Respawn(code) == code = "exit 43" /\ ~killed

\* The tables of a session whose worker is gone for good, and its files.
ExitCleanup(code) ==
  /\ killed' = (killed /\ Respawn(code))
  /\ files' = (files /\ Respawn(code))

\* A message or the exit of a child, which may be started again.
ChildEvent(w) ==
  /\ daemon /\ w \in child /\ ipc[w] # <<>> /\ ipc' = [ipc EXCEPT ![w] = Tail(@)]
  /\ LET e == Head(ipc[w]) IN
       \/ /\ e = "pre_restart" /\ restarting' = TRUE
          /\ UNCHANGED <<entry, killed, child, proc, files, observed>>
       \/ /\ e # "pre_restart" /\ ExitCleanup(e) /\ LosesTrack /\ LiftedIf(TRUE)
          /\ restarting' = (restarting \/ Respawn(e))
          /\ \/ Respawn(e) /\ Spawn(child \ {w})
             \/ (Respawn(e) => Unstartable) /\ entry' = "none" /\ child' = child \ {w} /\ UNCHANGED proc
  /\ UNCHANGED <<start, asked, online, relay, runnerLink, used>>

\* The daemon exits: after a restart request (42) the child in the table is
\* told to stay; every other one ends as its channel closes.
DaemonStop ==
  /\ daemon /\ Use("stops", MaxStops)
  /\ \E code \in {"restart", "crash"} :
       Stop(IF code = "restart" /\ entry = "child" THEN child \ {Latest} ELSE child)
  /\ daemon' = FALSE /\ entry' = "none" /\ restarting' = FALSE /\ killed' = FALSE
  /\ adopting' = <<>> /\ ready' = FALSE /\ starting' = 0 /\ sweeps' = [w \in Worker |-> 0]
  /\ child' = {} /\ ipc' = [w \in Worker |-> <<>>]
  /\ link' = FALSE /\ toDaemon' = <<>> /\ toRelay' = <<>>
  /\ LosesTrack /\ LiftedIf(TRUE)
  /\ UNCHANGED <<asked, online, files, relay>>

\* The supervisor starts the next one.
DaemonStart ==
  /\ ~daemon /\ daemon' = TRUE
  /\ UNCHANGED <<tables, adopting, ready, starting, sweeps, workers, files, relay, runnerLink,
                 observed, used>>

-----------------------------------------------------------------------------
WorkerNext(w) == ExitRestart(w) \/ Exit(w) \/ WorkerDrop(w) \/ Register(w)

\* A step of the daemon's event loop.
DaemonNext ==
  DaemonSee \/ TranscriptFound \/ PluginsReady \/ \E w \in Worker : ChildEvent(w) \/ SweepFiles(w)

Next ==
  \/ \E w \in Worker : WorkerNext(w)
  \/ SaveFiles \/ AskRestart \/ RelayClosed \/ Sweep \/ FindOffline \/ Wake
  \/ KillSession \/ RelaySee
  \/ Cut \/ LinkDrop \/ LinkUp
  \/ DaemonNext \/ DaemonStop \/ DaemonStart

Spec == Init /\ [][Next]_vars

\* The daemon takes frames and events, its reads of the disk get to an end, plugin
\* discovery ends or times out (each of them only so often that none has to wait for
\* ever), connections are lost with notice and made again, and the supervisor starts
\* a daemon.
DaemonFairSpec ==
  Spec /\ WF_vars(DaemonNext) /\ WF_vars(DaemonStart) /\ WF_vars(LinkUp) /\ WF_vars(RelayClosed)

\* So do the relay and the workers: one that stops or restarts is gone some time
\* (SIGKILL after 8 s, 10 s of its own).
FairSpec ==
  /\ DaemonFairSpec /\ WF_vars(RelaySee)
  /\ \A w \in Worker :
       WF_vars(Register(w)) /\ WF_vars(ExitRestart(w))
       /\ WF_vars(proc[w] = "stopping" /\ Exit(w))

-----------------------------------------------------------------------------
(* Properties.                                                             *)

Frames == [kind : {"new", "kill", "ended", "registered"},
           arg : {"", "listed", "Session ended", "Session reconnected", "Session orphaned",
                  "Parent acknowledged completion"}]

\* Types; an entry with a child has its latest worker's channel.
SpawnerTypeOK ==
  /\ daemon \in BOOLEAN /\ ready \in BOOLEAN
  /\ entry \in {"none", "child", "adopted"} /\ (entry = "child" => Latest \in child)
  /\ restarting \in BOOLEAN /\ killed \in BOOLEAN /\ files \in BOOLEAN
  /\ adopting \in Seq({"", "listed"}) /\ (ready => adopting = <<>>)
  /\ starting \in Nat /\ sweeps \in [Worker -> Nat] /\ waking \in Nat
  /\ (~daemon => starting = 0 /\ \A w \in Worker : sweeps[w] = 0)
  /\ child \subseteq Worker /\ asked \subseteq Worker
  /\ doomed \subseteq Worker /\ astray \subseteq Worker
  /\ ipc \in [Worker -> Seq({"pre_restart", "exit 43", "exit"})]
  /\ proc \in [Worker -> {"unborn", "up", "stopping", "gone"}]
  /\ online \subseteq {w \in Worker : Alive(w)}
  /\ rec \in {"none", "free", "linked"} /\ conn \in {0} \cup Worker
  /\ (conn # 0 => rec # "none") /\ link \in BOOLEAN
  /\ toDaemon \in Seq(Frames)
  /\ toRelay \in Seq({"session_killed", "disconnect_session"})
  /\ (~link => toDaemon = <<>> /\ toRelay = <<>>)

\* One conversation is run by one process: no wake, restart in place, reconnect or
\* delayed session_ended leaves two workers working (session-spawner.ts, "Session
\* already running"), those aside that ran when the daemon lost track of them: as
\* it stopped, honoured a sweep's or a parent's verdict on the session, dropped an
\* adopted one, or took the exit of another worker of the session.  A worker that
\* runs alone when the session is adopted is tracked again.
OneWorker == \A v, w \in Up \ astray : v = w

\* The same of all workers.  The code does not keep it, see the README.
NeverTwice == \A v, w \in Up : v = w

\* A worker that the daemon was told to kill is not started again, whatever code it
\* exits with (killedSessions), unless the kill was lifted: by a worker started for
\* new_session, by adoption, or by the exit of another worker of the session.
KilledStaysDead ==
  [][\A w \in doomed \cap (child \ child') :
       \A v \in Worker : proc[v] = "unborn" => proc'[v] = "unborn"]_vars

\* The attachments of a session are not deleted while a worker that the daemon has
\* started, and has not lost track of, is there to use them: not by a restart in
\* place, a reconnect, a late session_ended or a sweep, except for a sweep that took
\* its list of sessions before the worker was started, or the session adopted.
FilesKept ==
  [][files /\ ~files' =>
       \A w \in child' \ astray' : proc'[w] = "up" =>
         \E v \in Worker : sweeps'[v] < sweeps[v] /\ (v < w \/ entry = "adopted")]_vars

\* The same without the exceptions.  The code does not keep it, see the README.
FilesNeverLost ==
  [][files /\ ~files' => \A w \in child' : proc'[w] # "up"]_vars

\* The attachments of a session that ends, other than by a kill, are deleted,
\* unless it stays adopted though it is dead, or a worker was started for it after
\* the daemon had lost track of another.
FilesGo ==
  (files /\ Dead /\ used.kills = 0 /\ astray \subseteq {Latest})
    ~> (~files \/ ~Dead \/ entry = "adopted")

\* daemon.ts: a session_ended that finds no child alive means "the session is
\* legitimately dead and the worker should exit on its own".
EndedIsDead ==
  [][toDaemon # <<>> /\ Head(toDaemon) = Frame("ended", "Session ended")
       /\ entry # "none" /\ entry' = "none" /\ toDaemon' = Tail(toDaemon) /\ daemon'
       => \A w \in Worker : ~(proc[w] = "up" /\ proc'[w] = "up")]_vars

\* daemon.ts: workers are told to stay alive "so the next daemon re-adopts
\* them".
SurvivorsAdopted ==
  \A w \in Worker : (daemon /\ proc[w] = "up") ~> (proc[w] # "up" \/ ~daemon \/ entry # "none")

\* remote-exec-handler.ts: a worker tells the daemon before it exits with 43,
\* which starts the session again.
RestartHeard ==
  [][\A w \in asked : proc[w] = "up" /\ proc'[w] = "gone" /\ ExitRestart(w) => w \in child]_vars
=============================================================================
