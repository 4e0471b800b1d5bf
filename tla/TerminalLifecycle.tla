------------------------- MODULE TerminalLifecycle -------------------------
(***************************************************************************)
(* ONE web terminal on one relay node: its Redis entry, the viewers and    *)
(* the buffer the node keeps for it, the timers that collect it            *)
(* (sio-registry/terminals.ts, namespaces/terminal.ts), the connection of  *)
(* the runner it belongs to (namespaces/runner.ts) and the PTY there       *)
(* (runner/terminal.ts, terminal-service.ts).                              *)
(*                                                                         *)
(* The node talks to Redis over one connection, which answers in order:    *)
(* ops holds the commands that are not answered, each with the handler     *)
(* that awaits it.  Answering one runs that command and its handler up to  *)
(* the handler's next await.  Awaiting socket.join, which is local, and    *)
(* the ownership check of terminal_ready only reorder code within an       *)
(* answer; two commands of one update or delete count as one.              *)
(*                                                                         *)
(* The k-th connection of the runner is number k.                          *)
(***************************************************************************)
EXTENDS Naturals, Sequences, FiniteSets

CONSTANTS
  Viewer,                          \* browser sockets, used once each
  MAX_BUFFERED_TERMINAL_MESSAGES,
  MaxOut,                          \* bound: pieces of output of the PTY
  MaxSizes,                        \* bound: sizes one browser sends
  MaxKills,                        \* bound: clicks on "close"
  MaxDrops,                        \* bound: lost runner connections
  HalfOpen    \* may the runner be back before the relay notices the loss?

ASSUME TerminalAssumption ==
  /\ MAX_BUFFERED_TERMINAL_MESSAGES \in Nat \ {0}
  /\ {MaxOut, MaxSizes, MaxKills, MaxDrops} \subseteq Nat
  /\ HalfOpen \in BOOLEAN

VARIABLES
  entry,     \* Redis: the terminal's hash (and its place in the runner's index)
  ops,       \* commands to Redis and who awaits them, oldest first
  viewers,   \* localTerminalViewerSockets
  buffer,    \* localTerminalBuffers
  timer,     \* localTerminalGcTimers, when it has not fired
  sock,      \* every browser socket: "new", "up" or "gone"
  handlers,  \* sockets whose event handlers are installed
  sizes,     \* number of terminal_resize events of each socket
  screen,    \* what each socket was sent
  local,     \* localRunnerSockets: number of the connection, 0 for none
  authed,    \* connections with socket.data.runnerId
  verified,  \* is the terminal in runnerTerminalIds?
  check,     \* pendingTerminalChecks: its connection, 0 for none
  held,      \* frames that await the check
  rup,       \* is the runner's connection, the last one, up?
  closing,   \* lost connections the relay has not noticed
  pty,       \* runner: "none", "starting", "run" or "dead"
  written,   \* runner: pieces of output so far
  toRunner, toRelay,   \* frames on the runner's connection
  kills, drops, spawns \* counters; spawns is observed only

redis == <<entry, ops>>
node == <<viewers, buffer, timer>>
browser == <<sock, handlers, sizes, screen>>
registry == <<local, authed>>
guard == <<verified, check, held>>
link == <<rup, closing, drops>>
runner == <<pty, written, toRelay>>
used == <<kills, spawns>>
vars == <<redis, node, browser, registry, guard, link, runner, toRunner, used>>

NoEntry == [live |-> FALSE, spawned |-> FALSE, exited |-> FALSE]
NoBuffer == [on |-> FALSE, msgs |-> <<>>]
Current == drops + 1     \* number of the runner's connection, if it is up

Ready == [kind |-> "ready", n |-> 0]
Data(i) == [kind |-> "data", n |-> i]
Exit == [kind |-> "exit", n |-> 0]
Error == [kind |-> "error", n |-> 0]
Message == {Ready, Exit, Error} \cup {Data(i) : i \in 1 .. MaxOut}

\* registerTerminal has returned and the runner is registered.
Init ==
  /\ entry = [NoEntry EXCEPT !.live = TRUE] /\ ops = <<>>
  /\ viewers = {} /\ buffer = [on |-> TRUE, msgs |-> <<>>] /\ timer = "unspawned"
  /\ sock = [v \in Viewer |-> "new"] /\ handlers = {}
  /\ sizes = [v \in Viewer |-> 0]
  /\ screen = [v \in Viewer |-> <<>>]
  /\ local = 1 /\ authed = {1}
  /\ verified = FALSE /\ check = 0 /\ held = <<>>
  /\ rup = TRUE /\ closing = {} /\ drops = 0
  /\ pty = "none" /\ written = 0 /\ toRelay = <<>> /\ toRunner = <<>>
  /\ kills = 0 /\ spawns = 0

-----------------------------------------------------------------------------
(* Helpers.                                                                *)

Op(kind, who) == [kind |-> kind, who |-> who]
Ask(kind, who) == ops' = Append(ops, Op(kind, who))

\* The oldest command is answered and its handler goes on to await another,
\* or none.
Answer(kind) == ops # <<>> /\ Head(ops).kind = kind
Who == Head(ops).who
Then(kind, who) == ops' = Append(Tail(ops), Op(kind, who))
Stop == ops' = Tail(ops)

\* The buffer keeps the newest messages.
Capped(msgs) ==
  SubSeq(msgs, IF Len(msgs) > MAX_BUFFERED_TERMINAL_MESSAGES
               THEN Len(msgs) - MAX_BUFFERED_TERMINAL_MESSAGES + 1 ELSE 1, Len(msgs))

\* sendToTerminalViewer, once per message: to every viewer in the set, or to
\* the buffer when there is none.  A closed socket takes and loses it.
Send(msgs) ==
  IF viewers # {}
    THEN /\ screen' = [v \in Viewer |-> IF v \in viewers /\ sock[v] = "up"
                                        THEN screen[v] \o msgs ELSE screen[v]]
         /\ UNCHANGED buffer
    ELSE /\ buffer' = IF buffer.on THEN [buffer EXCEPT !.msgs = Capped(@ \o msgs)]
                      ELSE buffer
         /\ UNCHANGED screen

\* cleanupTerminal up to its deletion of the entry; after it the disconnect
\* handler of connection c, or nobody (0), goes on.
Cleanup(c) ==
  /\ timer' = "none" /\ viewers' = {} /\ buffer' = NoBuffer
  /\ Then("delete", c)

\* runnerSocket.emit on connection c.
EmitTo(c, frame) ==
  toRunner' = IF rup /\ c = Current THEN Append(toRunner, frame) ELSE toRunner

-----------------------------------------------------------------------------
(* Viewers (namespaces/terminal.ts).                                       *)

\* A browser connects; the handler looks the terminal up, then attaches.
Connect(v) ==
  /\ sock[v] = "new" /\ sock' = [sock EXCEPT ![v] = "up"]
  /\ Ask("lookup", v)
  /\ UNCHANGED <<entry, node, handlers, sizes, screen, registry, guard, link, runner,
                 toRunner, used>>

Lookup ==
  /\ Answer("lookup")
  /\ IF entry.live THEN Then("attach", Who) /\ UNCHANGED sock
     ELSE Stop /\ sock' = [sock EXCEPT ![Who] = "gone"]
  /\ UNCHANGED <<entry, node, handlers, sizes, screen, registry, guard, link, runner,
                 toRunner, used>>

\* setTerminalViewer joins, disarms the timer of an unspawned terminal, replays
\* the buffer and arms the timer of an exited one; terminal_connected follows
\* and the handlers of the socket are installed, though it may be closed.
Attach ==
  /\ Answer("attach") /\ Stop
  /\ IF entry.live
       THEN /\ viewers' = viewers \cup {Who} /\ handlers' = handlers \cup {Who}
            /\ screen' = IF sock[Who] = "up"
                         THEN [screen EXCEPT ![Who] = @ \o buffer.msgs] ELSE screen
            /\ buffer' = [buffer EXCEPT !.msgs = <<>>]
            /\ timer' = IF entry.exited THEN "exited"
                        ELSE IF entry.spawned THEN timer ELSE "none"
            /\ UNCHANGED sock
       ELSE sock' = [sock EXCEPT ![Who] = "gone"] /\ UNCHANGED <<node, handlers, screen>>
  /\ UNCHANGED <<entry, sizes, registry, guard, link, runner, toRunner, used>>

\* The browser is closed or loses its connection.
Leave(v) ==
  /\ sock[v] = "up" /\ sock' = [sock EXCEPT ![v] = "gone"]
  /\ IF v \in handlers THEN viewers' = viewers \ {v} /\ Ask("left", v)
     ELSE UNCHANGED <<viewers, ops>>
  /\ UNCHANGED <<entry, buffer, timer, handlers, sizes, screen, registry, guard, link,
                 runner, toRunner, used>>

\* removeTerminalViewer after its read of the entry.
Left ==
  /\ Answer("left")
  /\ IF entry.live /\ entry.exited THEN Cleanup(0) ELSE Stop /\ UNCHANGED node
  /\ UNCHANGED <<entry, browser, registry, guard, link, runner, toRunner, used>>

\* The browser answers terminal_connected with its size, and sends it again
\* when the window changes.
Resize(v) ==
  /\ sock[v] = "up" /\ v \in handlers
  /\ sizes[v] < MaxSizes /\ sizes' = [sizes EXCEPT ![v] = @ + 1] /\ Ask("size", v)
  /\ UNCHANGED <<entry, node, sock, handlers, screen, registry, guard, link, runner,
                 toRunner, used>>

\* The first size claims the spawn; later ones are only forwarded.
Size ==
  /\ Answer("size")
  /\ IF entry.live /\ local # 0 /\ ~entry.spawned THEN Then("claim", local) ELSE Stop
  /\ UNCHANGED <<entry, node, browser, registry, guard, link, runner, toRunner, used>>

Claim_Unchecked ==
  /\ Answer("claim") /\ Stop
  /\ IF entry.live
       THEN /\ entry' = [entry EXCEPT !.spawned = TRUE]
            /\ EmitTo(Who, "new") /\ spawns' = spawns + 1
       ELSE UNCHANGED <<entry, toRunner, spawns>>
  /\ UNCHANGED <<node, browser, registry, guard, link, runner, kills>>

\* claimTerminalSpawn: whoever claims it tells the runner, on the connection
\* that was current when the size arrived.
Claim ==
  /\ Answer("claim") /\ Stop
  /\ IF entry.live /\ ~entry.spawned
       THEN /\ entry' = [entry EXCEPT !.spawned = TRUE]
            /\ EmitTo(Who, "new") /\ spawns' = spawns + 1
       ELSE UNCHANGED <<entry, toRunner, spawns>>
  /\ UNCHANGED <<node, browser, registry, guard, link, runner, kills>>

KillClick(v) ==
  /\ sock[v] = "up" /\ v \in handlers
  /\ kills < MaxKills /\ kills' = kills + 1 /\ Ask("kill", v)
  /\ UNCHANGED <<entry, node, browser, registry, guard, link, runner, toRunner, spawns>>

Kill ==
  /\ Answer("kill") /\ Stop
  /\ IF entry.live /\ local # 0 THEN EmitTo(local, "kill") ELSE UNCHANGED toRunner
  /\ UNCHANGED <<entry, node, browser, registry, guard, link, runner, used>>

-----------------------------------------------------------------------------
(* Collection (sio-registry/terminals.ts).                                 *)

\* A timer fires: that of an unspawned terminal looks again first.
TimerFires ==
  /\ \/ timer = "unspawned" /\ timer' = "none" /\ Ask("unspawned", 0)
        /\ UNCHANGED <<viewers, buffer>>
     \/ timer = "exited" /\ timer' = "none" /\ viewers' = {} /\ buffer' = NoBuffer
        /\ Ask("delete", 0)
  /\ UNCHANGED <<entry, browser, registry, guard, link, runner, toRunner, used>>

Unspawned ==
  /\ Answer("unspawned")
  /\ IF entry.live /\ ~entry.spawned THEN Cleanup(0) ELSE Stop /\ UNCHANGED node
  /\ UNCHANGED <<entry, browser, registry, guard, link, runner, toRunner, used>>

\* removeTerminal, for the disconnect handler of a connection or for nobody.
Remove ==
  /\ Answer("remove")
  /\ IF entry.live THEN Then("mark", Who) /\ UNCHANGED node ELSE Cleanup(Who)
  /\ UNCHANGED <<entry, browser, registry, guard, link, runner, toRunner, used>>

GoOn == IF Who # 0 THEN Then("forget", Who) ELSE Stop

Mark_OnlyWatched ==
  /\ Answer("mark") /\ GoOn
  /\ entry' = IF entry.live THEN [entry EXCEPT !.exited = TRUE] ELSE entry
  /\ timer' = IF viewers # {} THEN "exited" ELSE "none"
  /\ UNCHANGED <<viewers, buffer, browser, registry, guard, link, runner, toRunner, used>>

\* The entry is marked exited and the timer armed anew, for 2 s with viewers
\* and for 30 s without.
Mark ==
  /\ Answer("mark") /\ GoOn
  /\ entry' = IF entry.live THEN [entry EXCEPT !.exited = TRUE] ELSE entry
  /\ timer' = "exited"
  /\ UNCHANGED <<viewers, buffer, browser, registry, guard, link, runner, toRunner, used>>

Delete ==
  /\ Answer("delete") /\ GoOn
  /\ entry' = NoEntry
  /\ UNCHANGED <<node, browser, registry, guard, link, runner, toRunner, used>>

-----------------------------------------------------------------------------
(* The runner's connection (namespaces/runner.ts).                         *)

RunnerDrop ==
  /\ rup /\ drops < MaxDrops
  /\ rup' = FALSE /\ drops' = drops + 1 /\ closing' = closing \cup {Current}
  /\ toRunner' = <<>> /\ toRelay' = <<>>
  /\ UNCHANGED <<redis, node, browser, registry, guard, pty, written, used>>

\* It connects again and registers; until that is done nothing it sends is
\* taken.
RunnerConnect ==
  /\ ~rup /\ rup' = TRUE
  /\ HalfOpen \/ closing = {}
  /\ Ask("owner", Current)
  /\ UNCHANGED <<entry, node, browser, registry, guard, closing, drops, runner, toRunner,
                 used>>

\* registerRunner: an old socket is dropped from the map, the row is written,
\* the new one entered; then the terminals of the runner are looked up.
RegisterOwner ==
  /\ Answer("owner") /\ Then("row", Who)
  /\ local' = 0
  /\ UNCHANGED <<entry, node, browser, authed, guard, link, runner, toRunner, used>>

RegisterRow ==
  /\ Answer("row") /\ Then("seed", Who)
  /\ local' = Who /\ authed' = authed \cup {Who}
  /\ UNCHANGED <<entry, node, browser, guard, link, runner, toRunner, used>>

RegisterSeed ==
  /\ Answer("seed") /\ Stop
  /\ verified' = (verified \/ entry.live)
  /\ UNCHANGED <<entry, node, browser, registry, check, held, link, runner, toRunner, used>>

\* The relay notices that connection c is lost.  A replaced connection is
\* ignored; else the runner's terminals are ended and it is removed.
RunnerClosed(c) ==
  /\ c \in closing /\ closing' = closing \ {c}
  /\ IF c \in authed /\ local = c
       THEN verified' = FALSE /\ check' = 0 /\ held' = <<>> /\ Ask("terminals", c)
       ELSE UNCHANGED <<guard, ops>>
  /\ UNCHANGED <<entry, node, browser, registry, rup, drops, runner, toRunner, used>>

RunnerTerminals_Silent ==
  /\ Answer("terminals")
  /\ IF entry.live THEN Then("remove", Who) ELSE Then("forget", Who)
  /\ UNCHANGED <<entry, node, browser, registry, guard, link, runner, toRunner, used>>

\* Every terminal found is told to the viewers as exited and removed.
RunnerTerminals ==
  /\ Answer("terminals")
  /\ IF entry.live THEN Send(<<Exit>>) /\ Then("remove", Who)
     ELSE Then("forget", Who) /\ UNCHANGED <<screen, buffer>>
  /\ UNCHANGED <<entry, viewers, timer, sock, handlers, sizes, registry, guard, link, runner,
                 toRunner, used>>

\* removeRunner, after its read of the row.
Forget ==
  /\ Answer("forget") /\ Stop
  /\ local' = 0
  /\ UNCHANGED <<entry, node, browser, authed, guard, link, runner, toRunner, used>>

-----------------------------------------------------------------------------
(* Frames from the runner (namespaces/runner.ts).                          *)

Last(kinds, msgs) == {i \in DOMAIN msgs : msgs[i].kind \in kinds}

\* The terminal's end: what is sent, and that no more will be taken.
Ended(msgs) == \E i \in DOMAIN msgs : msgs[i].kind \in {"exit", "error"}
UpToEnd(msgs) ==
  IF Ended(msgs)
    THEN SubSeq(msgs, 1, CHOOSE i \in Last({"exit", "error"}, msgs) :
                           \A j \in Last({"exit", "error"}, msgs) : i <= j)
    ELSE msgs

\* terminal_ready is checked against the entry; what follows it waits for the
\* check; a failure before it is checked on its own; all else needs the
\* terminal to be verified.
RelaySee ==
  /\ toRelay # <<>> /\ toRelay' = Tail(toRelay)
  /\ LET f == Head(toRelay) IN
       CASE Current \notin authed \/ (f.kind = "ready" /\ (check # 0 \/ verified)) ->
              UNCHANGED <<guard, ops, screen, buffer>>
         [] Current \in authed /\ f.kind = "ready" /\ check = 0 /\ ~verified ->
              check' = Current /\ Ask("ready", Current)
              /\ UNCHANGED <<verified, held, screen, buffer>>
         [] Current \in authed /\ f.kind # "ready" /\ check # 0 ->
              held' = Append(held, f) /\ UNCHANGED <<verified, check, ops, screen, buffer>>
         [] Current \in authed /\ f.kind # "ready" /\ check = 0 /\ verified ->
              /\ Send(<<f>>)
              /\ IF f.kind = "data" THEN UNCHANGED <<verified, ops>>
                 ELSE verified' = FALSE /\ Ask("remove", 0)
              /\ UNCHANGED <<check, held>>
         [] Current \in authed /\ f.kind # "ready" /\ check = 0 /\ ~verified ->
              /\ IF f.kind = "error" THEN Ask("failed", Current) ELSE UNCHANGED ops
              /\ UNCHANGED <<guard, screen, buffer>>
  /\ UNCHANGED <<entry, viewers, timer, sock, handlers, sizes, registry, link, pty, written,
                 toRunner, used>>

\* The check of terminal_ready ends: what waited for it is sent or dropped.
ReadyChecked ==
  /\ Answer("ready")
  /\ check' = 0 /\ held' = <<>>
  /\ LET msgs == <<Ready>> \o held IN
       IF entry.live /\ ((rup /\ Who = Current) \/ Who \in closing)
         THEN /\ Send(UpToEnd(msgs))
              /\ verified' = ~Ended(msgs)
              /\ IF Ended(msgs) THEN Then("remove", 0) ELSE Stop
         ELSE Stop /\ UNCHANGED <<verified, screen, buffer>>
  /\ UNCHANGED <<entry, viewers, timer, sock, handlers, sizes, registry, link, runner,
                 toRunner, used>>

\* terminal_error of a PTY that never became ready.
Failed ==
  /\ Answer("failed")
  /\ IF entry.live
       THEN Send(<<Error>>) /\ verified' = FALSE /\ Then("remove", 0)
       ELSE Stop /\ UNCHANGED <<verified, screen, buffer>>
  /\ UNCHANGED <<entry, viewers, timer, sock, handlers, sizes, registry, check, held, link,
                 runner, toRunner, used>>

-----------------------------------------------------------------------------
(* The runner (runner/terminal.ts, services/terminal-service.ts).          *)

\* What is sent without a connection is flushed before the next registration
\* and not taken there.
Emit(frame) == toRelay' = IF rup THEN Append(toRelay, frame) ELSE toRelay

\* What a killed worker had reported before it died is sent behind the exit.
Late ==
  IF pty = "starting" THEN {<<>>, <<Ready>>}
  ELSE {<<>>, <<Exit>>} \cup {<<Data(i)>> : i \in {written + 1} \cap 1 .. MaxOut}

RunnerSee ==
  /\ toRunner # <<>> /\ toRunner' = Tail(toRunner)
  /\ \/ /\ Head(toRunner) = "new" /\ pty \in {"none", "dead"}
        /\ pty' = "starting" /\ UNCHANGED <<toRelay, written>>
     \/ Head(toRunner) = "new" /\ Emit(Error) /\ UNCHANGED <<pty, written>>  \* refused, or running
     \/ /\ Head(toRunner) = "kill" /\ pty \in {"starting", "run"} /\ pty' = "dead"
        /\ \E late \in Late :
             /\ toRelay' = IF rup THEN toRelay \o <<Exit>> \o late ELSE toRelay
             /\ written' = written + Cardinality({i \in DOMAIN late : late[i].kind = "data"})
     \/ /\ Head(toRunner) = "kill" /\ pty \in {"none", "dead"} /\ Emit(Error)
        /\ UNCHANGED <<pty, written>>
  /\ UNCHANGED <<redis, node, browser, registry, guard, link, used>>

\* The worker process reports that its PTY runs, or that it failed.
PtyStarts ==
  /\ pty = "starting"
  /\ \/ pty' = "run" /\ Emit(Ready)
     \/ pty' = "dead" /\ Emit(Error)
  /\ UNCHANGED <<redis, node, browser, registry, guard, link, written, toRunner, used>>

PtyWrites ==
  /\ pty = "run" /\ written < MaxOut
  /\ written' = written + 1 /\ Emit(Data(written + 1))
  /\ UNCHANGED <<redis, node, browser, registry, guard, link, pty, toRunner, used>>

PtyExits ==
  /\ pty = "run" /\ pty' = "dead" /\ Emit(Exit)
  /\ UNCHANGED <<redis, node, browser, registry, guard, link, written, toRunner, used>>

-----------------------------------------------------------------------------
Answered ==
  \/ Lookup \/ Attach \/ Left \/ Size \/ Claim \/ Kill
  \/ Unspawned \/ Remove \/ Mark \/ Delete
  \/ RegisterOwner \/ RegisterRow \/ RegisterSeed \/ RunnerTerminals \/ Forget
  \/ ReadyChecked \/ Failed

Next ==
  \/ Answered
  \/ \E v \in Viewer : Connect(v) \/ Leave(v) \/ Resize(v) \/ KillClick(v)
  \/ TimerFires
  \/ RunnerDrop \/ RunnerConnect \/ \E c \in closing : RunnerClosed(c)
  \/ RelaySee \/ RunnerSee
  \/ PtyStarts \/ PtyWrites \/ PtyExits

Spec == Init /\ [][Next]_vars

\* Redis answers, frames arrive, timers fire, lost connections are noticed,
\* the runner reconnects, a worker process starts and browsers send a first size.
FairSpec ==
  /\ Spec
  /\ WF_vars(Answered) /\ WF_vars(TimerFires)
  /\ WF_vars(RunnerConnect) /\ WF_vars(\E c \in closing : RunnerClosed(c))
  /\ WF_vars(RelaySee) /\ WF_vars(RunnerSee) /\ WF_vars(PtyStarts)
  /\ \A v \in Viewer : WF_vars(sizes[v] = 0 /\ Resize(v))

-----------------------------------------------------------------------------
(* Properties.                                                             *)

\* Types; the buffer is capped (MAX_BUFFERED_TERMINAL_MESSAGES) and only
\* filled while nobody watches; what waits for a check is let go with it.  And
\* spawns: however many browsers send their sizes at once, whichever connection
\* of the runner they find, the PTY is asked for once (claimTerminalSpawn:
\* "Atomically claim the right to spawn a terminal exactly once").
TerminalTypeOK ==
  /\ entry \in [live : BOOLEAN, spawned : BOOLEAN, exited : BOOLEAN]
  /\ viewers \subseteq handlers /\ handlers \subseteq Viewer
  /\ sizes \in [Viewer -> 0 .. MaxSizes]
  /\ buffer.msgs \in Seq(Message) /\ Len(buffer.msgs) <= MAX_BUFFERED_TERMINAL_MESSAGES
  /\ (viewers # {} \/ ~buffer.on => buffer.msgs = <<>>)
  /\ timer \in {"none", "unspawned", "exited"}
  /\ sock \in [Viewer -> {"new", "up", "gone"}]
  /\ \A v \in Viewer : screen[v] \in Seq(Message)
  /\ authed \subseteq 1 .. Current /\ local \in {0} \cup authed
  /\ verified \in BOOLEAN /\ check \in {0} \cup authed /\ (check = 0 => held = <<>>)
  /\ spawns \in 0 .. 1 /\ kills \in 0 .. MaxKills
  /\ rup \in BOOLEAN /\ closing \subseteq 1 .. drops
  /\ pty \in {"none", "starting", "run", "dead"} /\ written \in 0 .. MaxOut
  /\ toRelay \in Seq(Message) /\ toRunner \in Seq({"new", "kill"})

Before(a, b) == a.kind = "data" /\ b.kind = "data" => a.n < b.n
InOrder(msgs) == \A i, j \in DOMAIN msgs : i < j => Before(msgs[i], msgs[j])

\* A viewer sees the output in order and nothing twice, though part of it
\* comes from the buffer and part live, and connections change in between.
OutputInOrder ==
  \A v \in Viewer : InOrder(screen[v] \o (IF v \in viewers THEN <<>> ELSE buffer.msgs))

\* An exited terminal is collected, entry and memory, whoever attaches, leaves
\* or lets a timer fire meanwhile.
ExitedCollected ==
  entry.exited ~> (~entry.live /\ ~buffer.on /\ timer = "none")

Told(v) == \E i \in DOMAIN screen[v] : screen[v][i].kind \in {"exit", "error"}

\* A viewer that watches a running PTY learns of its end, also when that end
\* falls into a lost connection of the runner.
EndIsSeen ==
  \A v \in Viewer :
    (v \in viewers /\ pty = "run") ~> (Told(v) \/ sock[v] = "gone" \/ [](pty = "run"))

\* runner.stale-disconnect.test.ts: the disconnect of an old socket must not
\* tear down the live replacement's entry in the socket map.
ReplacementKept ==
  rup /\ Current \in authed
    => local = Current \/ \E i \in DOMAIN ops : ops[i] = Op("owner", Current)

\* terminals.ts: "Buffers if no viewer attached": output is not handed to
\* closed sockets only.
NotIntoTheVoid == viewers # {} => \E v \in viewers : sock[v] = "up"
=============================================================================
