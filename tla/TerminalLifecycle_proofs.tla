---------------------- MODULE TerminalLifecycle_proofs ----------------------
(***************************************************************************)
(* Proofs about TerminalLifecycle, for every set of browsers, every size   *)
(* of the buffer and every bound, and whether or not the runner may be     *)
(* back before the relay notices its loss: type correctness with what it   *)
(* says of the buffer and of the pending check, and that a PTY is asked    *)
(* for once.                                                               *)
(***************************************************************************)
EXTENDS TerminalLifecycle, Extrema, SequenceTheorems, FiniteSetTheorems, TLAPS

-----------------------------------------------------------------------------
(* The inductive invariant.                                                *)

\* Commands asked for a browser, for a connection that registers, and others.
OfViewer == {"lookup", "attach", "left", "size", "kill"}
OfRegistration == {"owner", "row", "seed"}
OfNode == {"claim", "unspawned", "remove", "mark", "delete", "terminals", "forget",
           "ready", "failed"}

\* A command and who awaits it: only connections there have been register.
CommandUpTo(n) ==
  [kind : OfViewer, who : Viewer] \cup [kind : OfRegistration, who : 1 .. n]
    \cup [kind : OfNode, who : Nat]
Command == CommandUpTo(drops + 1)

\* The queue to Redis, the frames and the counters, beyond TerminalTypeOK.
QueuesOK ==
  /\ ops \in Seq(Command)
  /\ buffer \in [on : BOOLEAN, msgs : Seq(Message)]
  /\ screen \in [Viewer -> Seq(Message)]
  /\ held \in Seq(Message)
  /\ drops \in Nat

\* The runner was asked for the PTY only if the entry says so, or is gone for
\* good: no handler that waits for Redis can claim a second time.
AskedIsMarked == spawns = 1 => ~entry.live \/ entry.spawned

TerminalInv == TerminalTypeOK /\ QueuesOK /\ AskedIsMarked

-----------------------------------------------------------------------------
(* Lemmas about the operators.                                             *)

\* What the buffer keeps is a sequence of messages no longer than its size.
LEMMA CappedType ==
  ASSUME NEW msgs \in Seq(Message)
  PROVE  /\ Capped(msgs) \in Seq(Message)
         /\ Len(Capped(msgs)) <= MAX_BUFFERED_TERMINAL_MESSAGES
<1>. DEFINE n == Len(msgs)
            m == IF n > MAX_BUFFERED_TERMINAL_MESSAGES
                 THEN n - MAX_BUFFERED_TERMINAL_MESSAGES + 1 ELSE 1
<1>1. n \in Nat /\ MAX_BUFFERED_TERMINAL_MESSAGES \in Nat \ {0}
  BY LenProperties, TerminalAssumption
<1>2. m \in 1 .. n + 1 /\ (m <= n => n - m + 1 <= MAX_BUFFERED_TERMINAL_MESSAGES)
  BY <1>1
<1>3. \A i \in m .. n : msgs[i] \in Message
  BY <1>1, <1>2, ElementOfSeq
<1>4. Capped(msgs) = SubSeq(msgs, m, n)
  BY DEF Capped
<1>. HIDE DEF m, n
<1>5. /\ SubSeq(msgs, m, n) \in Seq(Message)
      /\ Len(SubSeq(msgs, m, n)) = IF m <= n THEN n - m + 1 ELSE 0
  BY <1>1, <1>2, <1>3, SubSeqProperties
<1>6. QED BY <1>1, <1>2, <1>4, <1>5

\* What is sent at the end of a check is a sequence of messages.
LEMMA UpToEndType ==
  ASSUME NEW msgs \in Seq(Message)
  PROVE  UpToEnd(msgs) \in Seq(Message)
<1>1. CASE ~Ended(msgs)
  BY <1>1 DEF UpToEnd
<1>2. CASE Ended(msgs)
  <2>. DEFINE S == Last({"exit", "error"}, msgs)
              n == CHOOSE i \in S : \A j \in S : i <= j
  <2>1. DOMAIN msgs = 1 .. Len(msgs) /\ Len(msgs) \in Nat
    BY LenProperties
  <2>2. S # {} /\ S \subseteq 1 .. Len(msgs)
    BY <1>2, <2>1 DEF Ended, Last
  <2>. HIDE DEF S
  <2>3. \E i \in S : \A j \in S : i <= j
    <3>1. S \in SUBSET Nat
      BY <2>1, <2>2
    <3>2. QED BY <2>2, <3>1, Least
  <2>4. n \in S
    BY <2>3
  <2>5. n \in 1 .. Len(msgs)
    BY <2>2, <2>4
  <2>6. UpToEnd(msgs) = SubSeq(msgs, 1, n)
    BY <1>2 DEF UpToEnd, S
  <2>. HIDE DEF n
  <2>7. \A i \in 1 .. n : msgs[i] \in Message
    BY <2>1, <2>5, ElementOfSeq
  <2>8. QED BY <2>1, <2>5, <2>6, <2>7, SubSeqProperties
<1>3. QED BY <1>1, <1>2

\* Sending keeps the screens and the buffer typed, and fills the buffer only
\* while nobody watches.
LEMMA SendType ==
  ASSUME TerminalInv, NEW msgs \in Seq(Message), Send(msgs)
  PROVE  /\ screen' \in [Viewer -> Seq(Message)]
         /\ buffer' \in [on : BOOLEAN, msgs : Seq(Message)]
         /\ Len(buffer'.msgs) <= MAX_BUFFERED_TERMINAL_MESSAGES
         /\ viewers # {} \/ ~buffer'.on => buffer'.msgs = <<>>
<1>1. CASE viewers # {}
  <2>1. \A v \in Viewer : screen[v] \o msgs \in Seq(Message)
    BY ConcatProperties DEF TerminalInv, QueuesOK
  <2>2. screen' \in [Viewer -> Seq(Message)]
    BY <1>1, <2>1 DEF Send, TerminalInv, QueuesOK
  <2>3. QED BY <1>1, <2>2 DEF Send, TerminalInv, QueuesOK, TerminalTypeOK
<1>2. CASE viewers = {} /\ buffer.on
  <2>1. buffer.msgs \o msgs \in Seq(Message)
    BY ConcatProperties DEF TerminalInv, QueuesOK
  <2>2. buffer' = [buffer EXCEPT !.msgs = Capped(buffer.msgs \o msgs)] /\ UNCHANGED screen
    BY <1>2 DEF Send
  <2>3. buffer \in [on : BOOLEAN, msgs : Seq(Message)]
    BY DEF TerminalInv, QueuesOK
  <2>4. buffer'.msgs = Capped(buffer.msgs \o msgs) /\ buffer'.on
    BY <1>2, <2>2, <2>3
  <2>5. buffer' \in [on : BOOLEAN, msgs : Seq(Message)]
    BY <2>1, <2>2, <2>3, CappedType
  <2>6. Len(buffer'.msgs) <= MAX_BUFFERED_TERMINAL_MESSAGES
    BY <2>1, <2>4, CappedType
  <2>7. QED BY <1>2, <2>2, <2>4, <2>5, <2>6 DEF TerminalInv, QueuesOK
<1>3. CASE viewers = {} /\ ~buffer.on
  BY <1>3 DEF Send, TerminalInv, QueuesOK, TerminalTypeOK
<1>4. QED BY <1>1, <1>2, <1>3

\* Who awaits the oldest command.
LEMMA WhoType ==
  ASSUME TerminalInv, NEW kind, Answer(kind)
  PROVE  /\ Tail(ops) \in Seq(Command)
         /\ kind \in OfViewer => Who \in Viewer
         /\ kind \in OfRegistration => Who \in 1 .. drops + 1
         /\ kind \in OfNode => Who \in Nat
<1>1. ops \in Seq(Command) /\ ops # <<>> /\ Head(ops).kind = kind
  BY DEF TerminalInv, QueuesOK, Answer
<1>2. Head(ops) \in Command /\ Tail(ops) \in Seq(Command)
  BY <1>1, HeadTailProperties
<1>3. QED BY <1>1, <1>2 DEF Command, CommandUpTo, Who, OfViewer, OfRegistration, OfNode

\* Asking for a command, whether or not one has been answered, keeps the queue.
LEMMA AskType ==
  ASSUME NEW q \in Seq(Command), NEW kind, NEW who,
         \/ kind \in OfViewer /\ who \in Viewer
         \/ kind \in OfRegistration /\ who \in 1 .. drops + 1
         \/ kind \in OfNode /\ who \in Nat
  PROVE  Append(q, Op(kind, who)) \in Seq(Command)
<1>1. Op(kind, who) \in Command
  BY DEF Op, Command, CommandUpTo
<1>2. QED BY <1>1, AppendProperties

\* Messages.
LEMMA MessageType ==
  /\ Ready \in Message /\ Exit \in Message /\ Error \in Message
  /\ \A i \in 1 .. MaxOut : Data(i) \in Message
BY DEF Message

\* A frame the runner sends is a message.
LEMMA EmitType ==
  ASSUME TerminalTypeOK, NEW f \in Message, Emit(f)
  PROVE  toRelay' \in Seq(Message)
<1>1. toRelay \in Seq(Message)
  BY DEF TerminalTypeOK
<1>2. QED BY <1>1, AppendProperties DEF Emit

\* A frame sent to the runner.
LEMMA EmitToType ==
  ASSUME TerminalTypeOK, NEW c, NEW f \in {"new", "kill"}, EmitTo(c, f)
  PROVE  toRunner' \in Seq({"new", "kill"})
<1>1. toRunner \in Seq({"new", "kill"})
  BY DEF TerminalTypeOK
<1>2. QED BY <1>1, AppendProperties DEF EmitTo

-----------------------------------------------------------------------------
(* Every step keeps the invariant.                                         *)

\* A connection number is only ever used again by those that have it.
LEMMA CommandGrows ==
  ASSUME NEW m \in Nat, NEW n \in Nat, m <= n, NEW q \in Seq(CommandUpTo(m))
  PROVE  q \in Seq(CommandUpTo(n))
<1>1. 1 .. m \subseteq 1 .. n
  OBVIOUS
<1>2. CommandUpTo(m) \subseteq CommandUpTo(n)
  BY <1>1 DEF CommandUpTo
<1>3. QED BY <1>2, SeqMonotonic

\* Memory that was let go is well typed.
LEMMA ClearedNode ==
  /\ NoBuffer \in [on : BOOLEAN, msgs : Seq(Message)]
  /\ NoBuffer.msgs = <<>> /\ Len(NoBuffer.msgs) <= MAX_BUFFERED_TERMINAL_MESSAGES
BY EmptySeq, TerminalAssumption DEF NoBuffer

\* Handlers for browsers.
LEMMA ViewerKeeps ==
  ASSUME TerminalInv,
         \/ \E v \in Viewer : Connect(v) \/ Leave(v) \/ Resize(v) \/ KillClick(v)
         \/ Lookup \/ Attach \/ Left \/ Size \/ Claim \/ Kill
  PROVE  TerminalInv'
<1>. USE DEF redis, node, browser, registry, guard, link, runner, used, Current,
             OfViewer, OfRegistration, OfNode
<1>1. ops \in Seq(Command) /\ UNCHANGED drops /\ Command' = Command
  BY DEF TerminalInv, QueuesOK, Connect, Leave, Resize, KillClick, Lookup, Attach, Left,
         Size, Claim, Kill, Command
<1>2. ASSUME NEW v \in Viewer, Connect(v) PROVE TerminalInv'
  <2>1. ops' \in Seq(Command)
    BY <1>1, <1>2, AskType DEF Connect, Ask
  <2>2. QED BY <1>1, <1>2, <2>1 DEF Connect, TerminalInv, TerminalTypeOK, QueuesOK, AskedIsMarked
<1>3. ASSUME NEW v \in Viewer, Leave(v) PROVE TerminalInv'
  <2>1. ops' \in Seq(Command)
    BY <1>1, <1>3, AskType DEF Leave, Ask
  <2>2. QED BY <1>1, <1>3, <2>1 DEF Leave, TerminalInv, TerminalTypeOK, QueuesOK, AskedIsMarked
<1>4. ASSUME NEW v \in Viewer, Resize(v) PROVE TerminalInv'
  <2>1. ops' \in Seq(Command)
    BY <1>1, <1>4, AskType DEF Resize, Ask
  <2>2. sizes' \in [Viewer -> 0 .. MaxSizes]
    BY <1>4, TerminalAssumption DEF Resize, TerminalInv, TerminalTypeOK
  <2>3. QED BY <1>1, <1>4, <2>1, <2>2
            DEF Resize, TerminalInv, TerminalTypeOK, QueuesOK, AskedIsMarked
<1>5. ASSUME NEW v \in Viewer, KillClick(v) PROVE TerminalInv'
  <2>1. ops' \in Seq(Command)
    BY <1>1, <1>5, AskType DEF KillClick, Ask
  <2>2. kills' \in 0 .. MaxKills
    BY <1>5, TerminalAssumption DEF KillClick, TerminalInv, TerminalTypeOK
  <2>3. QED BY SMTT(30), <1>1, <1>5, <2>1, <2>2
            DEF KillClick, TerminalInv, TerminalTypeOK, QueuesOK, AskedIsMarked
<1>6. CASE Lookup
  <2>1. Tail(ops) \in Seq(Command) /\ Who \in Viewer
    BY <1>6, WhoType DEF Lookup
  <2>2. ops' \in Seq(Command)
    BY <1>6, <2>1, AskType DEF Lookup, Then, Stop
  <2>3. sock' \in [Viewer -> {"new", "up", "gone"}]
    BY <1>6, <2>1 DEF Lookup, TerminalInv, TerminalTypeOK
  <2>4. QED BY <1>1, <1>6, <2>1, <2>2, <2>3
            DEF Lookup, TerminalInv, TerminalTypeOK, QueuesOK, AskedIsMarked
<1>7. CASE Attach
  <2>1. Tail(ops) \in Seq(Command) /\ Who \in Viewer
    BY <1>7, WhoType DEF Attach
  <2>2. ops' \in Seq(Command)
    BY <1>7, <2>1 DEF Attach, Stop
  <2>3. screen' \in [Viewer -> Seq(Message)]
    <3>1. screen[Who] \o buffer.msgs \in Seq(Message)
      BY <2>1, ConcatProperties DEF TerminalInv, QueuesOK
    <3>2. screen' = screen \/ screen' = [screen EXCEPT ![Who] = screen[Who] \o buffer.msgs]
      BY <1>7 DEF Attach
    <3>3. QED BY <3>1, <3>2 DEF TerminalInv, QueuesOK
  <2>4. buffer' \in [on : BOOLEAN, msgs : Seq(Message)]
    BY <1>7, EmptySeq DEF Attach, TerminalInv, QueuesOK
  <2>5. \/ UNCHANGED <<viewers, handlers, buffer>>
        \/ /\ buffer'.msgs = <<>> /\ viewers' = viewers \cup {Who}
           /\ handlers' = handlers \cup {Who}
    <3>1. buffer \in [on : BOOLEAN, msgs : Seq(Message)]
      BY DEF TerminalInv, QueuesOK
    <3>2. [buffer EXCEPT !.msgs = <<>>].msgs = <<>>
      BY <3>1
    <3>3. QED BY <1>7, <3>2 DEF Attach
  <2>6. Len(buffer'.msgs) <= MAX_BUFFERED_TERMINAL_MESSAGES
    BY <2>5, EmptySeq, TerminalAssumption DEF TerminalInv, TerminalTypeOK
  <2>7. timer' \in {"none", "unspawned", "exited"} /\ sock' \in [Viewer -> {"new", "up", "gone"}]
    BY <1>7, <2>1 DEF Attach, TerminalInv, TerminalTypeOK
  <2>8. UNCHANGED <<entry, sizes, registry, guard, link, runner, toRunner, used>>
    BY <1>7 DEF Attach
  <2>9. QED BY SMTT(30), <1>1, <2>1, <2>2, <2>3, <2>4, <2>5, <2>6, <2>7, <2>8
            DEF TerminalInv, TerminalTypeOK, QueuesOK, AskedIsMarked
<1>8. CASE Left
  <2>1. Tail(ops) \in Seq(Command)
    BY <1>8, WhoType DEF Left
  <2>2. ops' \in Seq(Command)
    BY <1>8, <2>1, AskType DEF Left, Cleanup, Then, Stop
  <2>3. UNCHANGED node \/ (timer' = "none" /\ viewers' = {} /\ buffer' = NoBuffer)
    BY <1>8 DEF Left, Cleanup
  <2>4. QED BY SMTT(30), <1>1, <1>8, <2>2, <2>3, ClearedNode
            DEF Left, TerminalInv, TerminalTypeOK, QueuesOK, AskedIsMarked
<1>9. CASE Size
  <2>1. Tail(ops) \in Seq(Command) /\ local \in Nat
    <3>1. Tail(ops) \in Seq(Command)
      BY <1>9, WhoType DEF Size
    <3>2. QED BY <3>1 DEF TerminalInv, TerminalTypeOK, QueuesOK
  <2>2. ops' \in Seq(Command)
    BY <1>9, <2>1, AskType DEF Size, Then, Stop
  <2>3. QED BY <1>1, <1>9, <2>2 DEF Size, TerminalInv, TerminalTypeOK, QueuesOK, AskedIsMarked
<1>10. CASE Claim
  <2>1. ops' \in Seq(Command)
    BY <1>10, WhoType DEF Claim, Stop
  <2>2. toRunner' \in Seq({"new", "kill"})
    BY <1>10, EmitToType DEF Claim, TerminalInv, TerminalTypeOK
  <2>3. /\ spawns' \in 0 .. 1 /\ AskedIsMarked'
        /\ entry' \in [live : BOOLEAN, spawned : BOOLEAN, exited : BOOLEAN]
    <3>1. /\ entry \in [live : BOOLEAN, spawned : BOOLEAN, exited : BOOLEAN]
          /\ spawns \in 0 .. 1 /\ (spawns = 1 => ~entry.live \/ entry.spawned)
      BY DEF TerminalInv, TerminalTypeOK, AskedIsMarked
    <3>2. CASE entry.live /\ ~entry.spawned
      <4>1. spawns = 0
        BY <3>1, <3>2
      <4>2. entry' = [entry EXCEPT !.spawned = TRUE] /\ spawns' = 1
        BY <1>10, <3>2, <4>1 DEF Claim
      <4>3. /\ entry'.spawned
            /\ entry' \in [live : BOOLEAN, spawned : BOOLEAN, exited : BOOLEAN]
        BY <3>1, <4>2
      <4>4. QED BY <4>2, <4>3 DEF AskedIsMarked
    <3>3. CASE ~(entry.live /\ ~entry.spawned)
      BY <1>10, <3>1, <3>3 DEF Claim, AskedIsMarked
    <3>4. QED BY <3>2, <3>3
  <2>4. QED BY <1>1, <1>10, <2>1, <2>2, <2>3
            DEF Claim, TerminalInv, TerminalTypeOK, QueuesOK, AskedIsMarked
<1>11. CASE Kill
  <2>1. ops' \in Seq(Command)
    BY <1>11, WhoType DEF Kill, Stop
  <2>2. toRunner' \in Seq({"new", "kill"})
    BY <1>11, EmitToType DEF Kill, TerminalInv, TerminalTypeOK
  <2>3. QED BY <1>1, <1>11, <2>1, <2>2
            DEF Kill, TerminalInv, TerminalTypeOK, QueuesOK, AskedIsMarked
<1>12. QED
  BY <1>2, <1>3, <1>4, <1>5, <1>6, <1>7, <1>8, <1>9, <1>10, <1>11

\* After an answer the handler of a lost connection goes on, or nobody.
LEMMA GoOnType ==
  ASSUME TerminalInv, NEW kind \in {"mark", "delete"}, Answer(kind), GoOn
  PROVE  ops' \in Seq(Command)
<1>1. Tail(ops) \in Seq(Command) /\ Who \in Nat
  BY WhoType DEF OfNode
<1>2. QED BY <1>1, AskType DEF GoOn, Then, Stop, OfNode

\* The timers and what they end.
LEMMA CollectKeeps ==
  ASSUME TerminalInv, TimerFires \/ Unspawned \/ Remove \/ Mark \/ Delete
  PROVE  TerminalInv'
<1>. USE DEF redis, node, browser, registry, guard, link, runner, used, Current, OfNode
<1>1. ops \in Seq(Command) /\ UNCHANGED drops /\ Command' = Command
  BY DEF TerminalInv, QueuesOK, TimerFires, Unspawned, Remove, Mark, Delete, Command
<1>2. CASE TimerFires
  <2>1. ops' \in Seq(Command)
    BY <1>1, <1>2, AskType DEF TimerFires, Ask
  <2>2. /\ UNCHANGED <<entry, browser, registry, guard, link, runner, toRunner, used>>
        /\ UNCHANGED <<viewers, buffer>> \/ (viewers' = {} /\ buffer' = NoBuffer)
        /\ timer' = "none"
    BY <1>2 DEF TimerFires
  <2>3. QED BY SMTT(30), <1>1, <2>1, <2>2, ClearedNode
            DEF TerminalInv, TerminalTypeOK, QueuesOK, AskedIsMarked
<1>3. CASE Unspawned
  <2>1. Tail(ops) \in Seq(Command)
    BY <1>3, WhoType DEF Unspawned
  <2>2. ops' \in Seq(Command)
    BY <1>3, <2>1, AskType DEF Unspawned, Cleanup, Then, Stop
  <2>3. /\ UNCHANGED <<entry, browser, registry, guard, link, runner, toRunner, used>>
        /\ UNCHANGED node \/ (timer' = "none" /\ viewers' = {} /\ buffer' = NoBuffer)
    BY <1>3 DEF Unspawned, Cleanup
  <2>4. QED BY <1>1, <2>2, <2>3, ClearedNode
            DEF TerminalInv, TerminalTypeOK, QueuesOK, AskedIsMarked
<1>4. CASE Remove
  <2>1. Tail(ops) \in Seq(Command) /\ Who \in Nat
    BY <1>4, WhoType DEF Remove
  <2>2. ops' \in Seq(Command)
    BY <1>4, <2>1, AskType DEF Remove, Cleanup, Then, Stop
  <2>3. /\ UNCHANGED <<entry, browser, registry, guard, link, runner, toRunner, used>>
        /\ UNCHANGED node \/ (timer' = "none" /\ viewers' = {} /\ buffer' = NoBuffer)
    BY <1>4 DEF Remove, Cleanup
  <2>4. QED BY <1>1, <2>2, <2>3, ClearedNode
            DEF TerminalInv, TerminalTypeOK, QueuesOK, AskedIsMarked
<1>5. CASE Mark
  <2>1. ops' \in Seq(Command)
    BY <1>5, GoOnType DEF Mark
  <2>2. /\ entry' \in [live : BOOLEAN, spawned : BOOLEAN, exited : BOOLEAN]
        /\ entry'.live = entry.live /\ entry'.spawned = entry.spawned
    BY <1>5 DEF Mark, TerminalInv, TerminalTypeOK
  <2>3. QED BY <1>1, <1>5, <2>1, <2>2
            DEF Mark, TerminalInv, TerminalTypeOK, QueuesOK, AskedIsMarked
<1>6. CASE Delete
  <2>1. ops' \in Seq(Command)
    BY <1>6, GoOnType DEF Delete
  <2>2. /\ entry' \in [live : BOOLEAN, spawned : BOOLEAN, exited : BOOLEAN]
        /\ ~entry'.live
    BY <1>6 DEF Delete, NoEntry
  <2>3. QED BY <1>1, <1>6, <2>1, <2>2
            DEF Delete, TerminalInv, TerminalTypeOK, QueuesOK, AskedIsMarked
<1>7. QED BY <1>2, <1>3, <1>4, <1>5, <1>6

\* The runner's connection.
LEMMA ConnectionKeeps ==
  ASSUME TerminalInv,
         \/ RunnerDrop \/ RunnerConnect \/ \E c \in closing : RunnerClosed(c)
         \/ RegisterOwner \/ RegisterRow \/ RegisterSeed \/ RunnerTerminals \/ Forget
  PROVE  TerminalInv'
<1>. USE DEF redis, node, browser, registry, guard, link, runner, used, Current, OfNode,
             OfRegistration
<1>1. CASE RunnerDrop
  <2>1. drops \in Nat /\ drops' = drops + 1
    BY <1>1 DEF RunnerDrop, TerminalInv, QueuesOK
  <2>2. ops' \in Seq(Command')
    <3>1. ops \in Seq(CommandUpTo(drops + 1))
      BY DEF TerminalInv, QueuesOK, Command
    <3>2. ops \in Seq(CommandUpTo(drops' + 1))
      BY <2>1, <3>1, CommandGrows
    <3>3. QED BY <1>1, <3>2 DEF RunnerDrop, Command
  <2>3. authed' \subseteq 1 .. drops' + 1 /\ closing' \subseteq 1 .. drops'
    BY <1>1, <2>1 DEF RunnerDrop, TerminalInv, TerminalTypeOK
  <2>4. toRelay' \in Seq(Message) /\ toRunner' \in Seq({"new", "kill"}) /\ rup' \in BOOLEAN
    BY <1>1, EmptySeq DEF RunnerDrop
  <2>5. UNCHANGED <<redis, node, browser, registry, guard, pty, written, used>>
    BY <1>1 DEF RunnerDrop
  <2>6. QED BY <2>1, <2>2, <2>3, <2>4, <2>5
            DEF TerminalInv, TerminalTypeOK, QueuesOK, AskedIsMarked
<1>2. CASE ~RunnerDrop
  <2>. DEFINE D == drops \in Nat /\ ops \in Seq(Command) /\ UNCHANGED drops
                   /\ Command' = Command
  <2>1. D
    BY <1>2 DEF TerminalInv, QueuesOK, RunnerConnect, RunnerClosed, RegisterOwner, RegisterRow,
         RegisterSeed, RunnerTerminals, Forget, Command
  <2>2. CASE RunnerConnect
    <3>1. ops' \in Seq(Command)
      BY <2>1, <2>2, AskType DEF RunnerConnect, Ask
    <3>2. QED BY <2>1, <2>2, <3>1
              DEF RunnerConnect, TerminalInv, TerminalTypeOK, QueuesOK, AskedIsMarked
  <2>3. ASSUME NEW c \in closing, RunnerClosed(c) PROVE TerminalInv'
    <3>1. c \in Nat
      BY <2>1 DEF TerminalInv, TerminalTypeOK
    <3>2. ops' \in Seq(Command)
      BY <2>1, <2>3, <3>1, AskType DEF RunnerClosed, Ask
    <3>3. /\ verified' \in BOOLEAN /\ held' \in Seq(Message)
          /\ check' \in {0} \cup authed /\ (check' = 0 => held' = <<>>)
      <4>1. \/ verified' = FALSE /\ check' = 0 /\ held' = <<>>
            \/ UNCHANGED guard
        BY <2>3 DEF RunnerClosed
      <4>2. QED BY ZenonT(40), <4>1, EmptySeq DEF TerminalInv, TerminalTypeOK, QueuesOK
    <3>4. /\ closing' = closing \ {c}
          /\ UNCHANGED <<entry, node, browser, registry, rup, drops, runner, toRunner, used>>
      BY <2>3 DEF RunnerClosed
    <3>5. QED BY <2>1, <3>2, <3>3, <3>4
              DEF TerminalInv, TerminalTypeOK, QueuesOK, AskedIsMarked
  <2>4. CASE RegisterOwner
    <3>1. Tail(ops) \in Seq(Command) /\ Who \in 1 .. drops + 1
      BY <2>4, WhoType DEF RegisterOwner
    <3>2. ops' \in Seq(Command)
      BY <2>4, <3>1, AskType DEF RegisterOwner, Then
    <3>3. QED BY <2>1, <2>4, <3>2
              DEF RegisterOwner, TerminalInv, TerminalTypeOK, QueuesOK, AskedIsMarked
  <2>5. CASE RegisterRow
    <3>1. Tail(ops) \in Seq(Command) /\ Who \in 1 .. drops + 1
      BY <2>5, WhoType DEF RegisterRow
    <3>2. ops' \in Seq(Command)
      BY <2>5, <3>1, AskType DEF RegisterRow, Then
    <3>3. authed' \subseteq 1 .. drops + 1 /\ local' \in authed'
          /\ check \in {0} \cup authed'
      BY <2>5, <3>1 DEF RegisterRow, TerminalInv, TerminalTypeOK
    <3>4. QED BY <2>1, <2>5, <3>2, <3>3
              DEF RegisterRow, TerminalInv, TerminalTypeOK, QueuesOK, AskedIsMarked
  <2>6. CASE RegisterSeed
    <3>1. ops' \in Seq(Command)
      BY <2>6, WhoType DEF RegisterSeed, Stop
    <3>2. QED BY <2>1, <2>6, <3>1
              DEF RegisterSeed, TerminalInv, TerminalTypeOK, QueuesOK, AskedIsMarked
  <2>7. CASE RunnerTerminals
    <3>1. Tail(ops) \in Seq(Command) /\ Who \in Nat
      BY <2>7, WhoType DEF RunnerTerminals
    <3>2. ops' \in Seq(Command)
      BY <2>7, <3>1, AskType DEF RunnerTerminals, Then
    <3>3. UNCHANGED <<screen, buffer>> \/ Send(<<Exit>>)
      BY <2>7 DEF RunnerTerminals
    <3>4. <<Exit>> \in Seq(Message)
      BY MessageType
    <3>5. /\ screen' \in [Viewer -> Seq(Message)]
          /\ buffer' \in [on : BOOLEAN, msgs : Seq(Message)]
          /\ Len(buffer'.msgs) <= MAX_BUFFERED_TERMINAL_MESSAGES
          /\ viewers # {} \/ ~buffer'.on => buffer'.msgs = <<>>
      <4>1. CASE UNCHANGED <<screen, buffer>>
        BY <4>1 DEF TerminalInv, TerminalTypeOK, QueuesOK
      <4>2. CASE Send(<<Exit>>)
        BY <4>2, <3>4, SendType
      <4>3. QED BY <3>3, <4>1, <4>2
    <3>6. UNCHANGED <<entry, viewers, timer, sock, handlers, sizes, registry, guard, link,
                      runner, toRunner, used>>
      BY <2>7 DEF RunnerTerminals
    <3>7. QED BY <2>1, <3>2, <3>5, <3>6
              DEF TerminalInv, TerminalTypeOK, QueuesOK, AskedIsMarked
  <2>8. CASE Forget
    <3>1. ops' \in Seq(Command)
      BY <2>8, WhoType DEF Forget, Stop
    <3>2. QED BY <2>1, <2>8, <3>1
              DEF Forget, TerminalInv, TerminalTypeOK, QueuesOK, AskedIsMarked
  <2>9. QED BY <1>2, <2>2, <2>3, <2>4, <2>5, <2>6, <2>7, <2>8
<1>3. QED BY <1>1, <1>2

\* Frames from the runner, and the answers they wait for.
LEMMA FrameKeeps ==
  ASSUME TerminalInv, RelaySee \/ ReadyChecked \/ Failed
  PROVE  TerminalInv'
<1>. USE DEF redis, node, browser, registry, guard, link, runner, used, Current, OfNode
<1>1. /\ ops \in Seq(Command) /\ UNCHANGED drops /\ Command' = Command /\ drops + 1 \in Nat
      /\ held \in Seq(Message)
  <2>1. ops \in Seq(Command) /\ drops \in Nat /\ held \in Seq(Message)
    BY DEF TerminalInv, QueuesOK
  <2>2. UNCHANGED drops
    BY DEF RelaySee, ReadyChecked, Failed
  <2>3. Command' = Command
    BY <2>2 DEF Command
  <2>4. QED BY <2>1, <2>2, <2>3
<1>2. ASSUME NEW msgs \in Seq(Message), Send(msgs) \/ UNCHANGED <<screen, buffer>>
      PROVE  /\ screen' \in [Viewer -> Seq(Message)]
             /\ buffer' \in [on : BOOLEAN, msgs : Seq(Message)]
             /\ Len(buffer'.msgs) <= MAX_BUFFERED_TERMINAL_MESSAGES
             /\ viewers # {} \/ ~buffer'.on => buffer'.msgs = <<>>
  <2>1. CASE UNCHANGED <<screen, buffer>>
    BY <2>1 DEF TerminalInv, TerminalTypeOK, QueuesOK
  <2>2. CASE Send(msgs)
    BY <2>2, SendType
  <2>3. QED BY <1>2, <2>1, <2>2
<1>3. CASE RelaySee
  <2>. DEFINE f == Head(toRelay)
  <2>1. f \in Message /\ toRelay' \in Seq(Message) /\ <<f>> \in Seq(Message)
    <3>1. toRelay \in Seq(Message) /\ toRelay # <<>> /\ toRelay' = Tail(toRelay)
      BY <1>3 DEF RelaySee, TerminalInv, TerminalTypeOK
    <3>2. f \in Message /\ toRelay' \in Seq(Message)
      BY <3>1, HeadTailProperties
    <3>3. QED BY <3>2
  <2>2. Send(<<f>>) \/ UNCHANGED <<screen, buffer>>
    BY <1>3 DEF RelaySee
  <2>3. /\ screen' \in [Viewer -> Seq(Message)]
        /\ buffer' \in [on : BOOLEAN, msgs : Seq(Message)]
        /\ Len(buffer'.msgs) <= MAX_BUFFERED_TERMINAL_MESSAGES
        /\ viewers # {} \/ ~buffer'.on => buffer'.msgs = <<>>
    BY <1>2, <2>1, <2>2
  <2>4. \/ UNCHANGED ops \/ Ask("ready", Current) \/ Ask("remove", 0) \/ Ask("failed", Current)
    BY <1>3 DEF RelaySee
  <2>5. ops' \in Seq(Command)
    BY <1>1, <2>4, AskType DEF Ask
  <2>6. \/ UNCHANGED guard
        \/ Current \in authed /\ check' = Current /\ check = 0 /\ UNCHANGED <<verified, held>>
        \/ check # 0 /\ held' = Append(held, f) /\ UNCHANGED <<verified, check>>
        \/ verified' = FALSE /\ UNCHANGED <<check, held>>
    BY <1>3 DEF RelaySee
  <2>7. Append(held, f) \in Seq(Message)
    BY <1>1, <2>1, AppendProperties
  <2>. HIDE DEF f
  <2>8. /\ verified' \in BOOLEAN /\ held' \in Seq(Message)
        /\ check' \in {0} \cup authed /\ (check' = 0 => held' = <<>>)
    BY <1>1, <2>6, <2>7 DEF TerminalInv, TerminalTypeOK
  <2>9. UNCHANGED <<entry, viewers, timer, sock, handlers, sizes, registry, link, pty,
                    written, toRunner, used>>
    BY <1>3 DEF RelaySee
  <2>10. QED BY SMTT(30), <1>1, <2>1, <2>3, <2>5, <2>8, <2>9
             DEF TerminalInv, TerminalTypeOK, QueuesOK, AskedIsMarked
<1>4. CASE ReadyChecked
  <2>. DEFINE msgs == <<Ready>> \o held
  <2>1. Tail(ops) \in Seq(Command)
    BY <1>4, WhoType DEF ReadyChecked
  <2>2. ops' \in Seq(Command)
    BY <1>4, <2>1, AskType DEF ReadyChecked, Then, Stop
  <2>3. UpToEnd(msgs) \in Seq(Message)
    <3>1. <<Ready>> \in Seq(Message)
      BY MessageType
    <3>2. msgs \in Seq(Message)
      BY <1>1, <3>1, ConcatProperties
    <3>3. QED BY <3>2, UpToEndType
  <2>4. Send(UpToEnd(msgs)) \/ UNCHANGED <<screen, buffer>>
    BY <1>4 DEF ReadyChecked
  <2>5. /\ screen' \in [Viewer -> Seq(Message)]
        /\ buffer' \in [on : BOOLEAN, msgs : Seq(Message)]
        /\ Len(buffer'.msgs) <= MAX_BUFFERED_TERMINAL_MESSAGES
        /\ viewers # {} \/ ~buffer'.on => buffer'.msgs = <<>>
    BY <1>2, <2>3, <2>4
  <2>6. verified' = verified \/ verified' = ~Ended(msgs)
    BY <1>4 DEF ReadyChecked
  <2>7. verified' \in BOOLEAN
    BY <2>6 DEF Ended, TerminalInv, TerminalTypeOK
  <2>8. /\ check' = 0 /\ held' = <<>> /\ held' \in Seq(Message)
        /\ UNCHANGED <<entry, viewers, timer, sock, handlers, sizes, registry, link, runner,
                       toRunner, used>>
    BY <1>4, EmptySeq DEF ReadyChecked
  <2>9. QED BY <1>1, <2>2, <2>5, <2>7, <2>8
            DEF TerminalInv, TerminalTypeOK, QueuesOK, AskedIsMarked
<1>5. CASE Failed
  <2>1. Tail(ops) \in Seq(Command)
    BY <1>5, WhoType DEF Failed
  <2>2. ops' \in Seq(Command)
    BY <1>5, <2>1, AskType DEF Failed, Then, Stop
  <2>3. <<Error>> \in Seq(Message)
    BY MessageType
  <2>4. Send(<<Error>>) \/ UNCHANGED <<screen, buffer>>
    BY <1>5 DEF Failed
  <2>5. /\ screen' \in [Viewer -> Seq(Message)]
        /\ buffer' \in [on : BOOLEAN, msgs : Seq(Message)]
        /\ Len(buffer'.msgs) <= MAX_BUFFERED_TERMINAL_MESSAGES
        /\ viewers # {} \/ ~buffer'.on => buffer'.msgs = <<>>
    BY <1>2, <2>3, <2>4
  <2>6. /\ verified' \in BOOLEAN
        /\ UNCHANGED <<entry, viewers, timer, sock, handlers, sizes, registry, check, held,
                       link, runner, toRunner, used>>
    BY <1>5 DEF Failed, TerminalInv, TerminalTypeOK
  <2>7. QED BY <1>1, <2>2, <2>5, <2>6
            DEF TerminalInv, TerminalTypeOK, QueuesOK, AskedIsMarked
<1>6. QED BY <1>3, <1>4, <1>5

\* The runner and its PTY.
LEMMA RunnerKeeps ==
  ASSUME TerminalInv, RunnerSee \/ PtyStarts \/ PtyWrites \/ PtyExits
  PROVE  TerminalInv'
<1>. USE DEF redis, node, browser, registry, guard, link, used
<1>1. /\ UNCHANGED <<redis, node, browser, registry, guard, link, used>>
      /\ Command' = Command
  BY DEF RunnerSee, PtyStarts, PtyWrites, PtyExits, Command
<1>2. /\ toRelay' \in Seq(Message) /\ toRunner' \in Seq({"new", "kill"})
      /\ written' \in 0 .. MaxOut /\ pty' \in {"none", "starting", "run", "dead"}
  <2>1. /\ toRelay \in Seq(Message) /\ toRunner \in Seq({"new", "kill"}) /\ TerminalTypeOK
        /\ written \in 0 .. MaxOut /\ MaxOut \in Nat /\ pty \in {"none", "starting", "run", "dead"}
    BY TerminalAssumption DEF TerminalInv, TerminalTypeOK
  <2>2. CASE RunnerSee
    <3>1. toRunner' \in Seq({"new", "kill"})
      BY <2>1, <2>2, HeadTailProperties DEF RunnerSee
    <3>2. CASE /\ pty' = "starting" /\ UNCHANGED <<toRelay, written>>
      BY <2>1, <3>1, <3>2
    <3>3. CASE Emit(Error) /\ UNCHANGED <<pty, written>>
      BY <2>1, <3>1, <3>3, EmitType, MessageType
    <3>4. ASSUME NEW late \in Late, pty' = "dead",
                 toRelay' = IF rup THEN toRelay \o <<Exit>> \o late ELSE toRelay,
                 written' = written + Cardinality({i \in DOMAIN late : late[i].kind = "data"})
          PROVE  /\ toRelay' \in Seq(Message) /\ written' \in 0 .. MaxOut
      <4>1. \/ late = <<>> \/ late = <<Ready>> \/ late = <<Exit>>
            \/ \E i \in {written + 1} \cap 1 .. MaxOut : late = <<Data(i)>>
        BY <3>4 DEF Late
      <4>2. late \in Seq(Message)
        <5>1. <<>> \in Seq(Message)
          BY EmptySeq
        <5>2. <<Ready>> \in Seq(Message) /\ <<Exit>> \in Seq(Message)
          BY MessageType
        <5>3. \A i \in 1 .. MaxOut : <<Data(i)>> \in Seq(Message)
          BY MessageType
        <5>4. QED BY <4>1, <5>1, <5>2, <5>3
      <4>3. toRelay' \in Seq(Message)
        <5>1. <<Exit>> \in Seq(Message)
          BY MessageType
        <5>2. toRelay \o <<Exit>> \in Seq(Message)
          BY <2>1, <5>1, ConcatProperties
        <5>3. toRelay \o <<Exit>> \o late \in Seq(Message)
          BY <4>2, <5>2, ConcatProperties
        <5>4. QED BY <2>1, <3>4, <5>3
      <4>4. CASE late = <<>> \/ late = <<Ready>> \/ late = <<Exit>>
        <5>1. {i \in DOMAIN late : late[i].kind = "data"} = {}
          BY <4>4 DEF Ready, Exit
        <5>2. Cardinality({i \in DOMAIN late : late[i].kind = "data"}) = 0
          BY <5>1, FS_EmptySet
        <5>3. QED BY <2>1, <3>4, <4>3, <5>2
      <4>5. ASSUME NEW n \in {written + 1} \cap 1 .. MaxOut, late = <<Data(n)>>
            PROVE  written' \in 0 .. MaxOut
        <5>1. {i \in DOMAIN late : late[i].kind = "data"} = {1}
          BY <4>5 DEF Data
        <5>2. Cardinality({i \in DOMAIN late : late[i].kind = "data"}) = 1
          BY <5>1, FS_Singleton
        <5>3. QED BY <2>1, <3>4, <4>5, <5>2
      <4>6. QED BY <4>1, <4>3, <4>4, <4>5
    <3>5. QED
      <4>1. CASE \E late \in Late :
                   /\ pty' = "dead"
                   /\ toRelay' = IF rup THEN toRelay \o <<Exit>> \o late ELSE toRelay
                   /\ written' = written
                                   + Cardinality({i \in DOMAIN late : late[i].kind = "data"})
        BY <3>1, <3>4, <4>1
      <4>2. QED BY <2>2, <3>2, <3>3, <4>1 DEF RunnerSee
  <2>3. CASE PtyStarts
    BY <2>1, <2>3, EmitType, MessageType DEF PtyStarts
  <2>4. CASE PtyWrites
    <3>1. written + 1 \in 1 .. MaxOut
      BY <2>1, <2>4 DEF PtyWrites
    <3>2. Data(written + 1) \in Message
      BY <3>1, MessageType
    <3>3. toRelay' \in Seq(Message)
      BY <2>1, <2>4, <3>2, EmitType DEF PtyWrites
    <3>4. QED BY <2>1, <2>4, <3>1, <3>3 DEF PtyWrites
  <2>5. CASE PtyExits
    BY <2>1, <2>5, EmitType, MessageType DEF PtyExits
  <2>6. QED BY <2>2, <2>3, <2>4, <2>5
<1>3. QED BY <1>1, <1>2 DEF TerminalInv, TerminalTypeOK, QueuesOK, AskedIsMarked, Current

-----------------------------------------------------------------------------
\* TerminalInv holds at the start, and with it what the module promises.
LEMMA TerminalInit == Init => TerminalInv
<1> SUFFICES ASSUME Init PROVE TerminalInv
  OBVIOUS
<1>1. AskedIsMarked /\ QueuesOK
  BY EmptySeq DEF Init, NoEntry, QueuesOK, AskedIsMarked
<1>2. TerminalTypeOK
  <2>1. /\ entry \in [live : BOOLEAN, spawned : BOOLEAN, exited : BOOLEAN]
        /\ buffer.msgs = <<>> /\ toRelay = <<>> /\ toRunner = <<>>
        /\ \A v \in Viewer : screen[v] = <<>>
    BY DEF Init, NoEntry
  <2>2. /\ buffer.msgs \in Seq(Message) /\ Len(buffer.msgs) <= MAX_BUFFERED_TERMINAL_MESSAGES
        /\ toRelay \in Seq(Message) /\ toRunner \in Seq({"new", "kill"})
        /\ \A v \in Viewer : screen[v] \in Seq(Message)
    <3>1. <<>> \in Seq(Message) /\ <<>> \in Seq({"new", "kill"})
      BY EmptySeq
    <3>2. Len(<<>>) = 0 /\ 0 <= MAX_BUFFERED_TERMINAL_MESSAGES
      BY EmptySeq, TerminalAssumption
    <3>3. QED BY <2>1, <3>1, <3>2
  <2>3. sizes \in [Viewer -> 0 .. MaxSizes] /\ kills \in 0 .. MaxKills /\ written \in 0 .. MaxOut
    BY TerminalAssumption DEF Init
  <2>4. /\ authed \subseteq 1 .. Current /\ local \in {0} \cup authed
        /\ closing \subseteq 1 .. drops /\ check \in {0} \cup authed
    BY DEF Init, Current
  <2>5. /\ viewers \subseteq handlers /\ handlers \subseteq Viewer
        /\ timer \in {"none", "unspawned", "exited"}
        /\ sock \in [Viewer -> {"new", "up", "gone"}]
        /\ verified \in BOOLEAN /\ held = <<>> /\ spawns \in 0 .. 1 /\ rup \in BOOLEAN
        /\ pty \in {"none", "starting", "run", "dead"}
    <3>1. /\ viewers = {} /\ handlers = {} /\ timer = "unspawned"
          /\ held = <<>> /\ spawns = 0 /\ pty = "none"
      BY DEF Init
    <3>2. sock \in [Viewer -> {"new", "up", "gone"}]
      BY DEF Init
    <3>3. verified \in BOOLEAN /\ rup \in BOOLEAN
      BY Zenon DEF Init
    <3>4. QED BY <3>1, <3>2, <3>3
  <2>6. QED BY <2>1, <2>2, <2>3, <2>4, <2>5 DEF TerminalTypeOK
<1>3. QED BY <1>1, <1>2 DEF TerminalInv

\* Every step keeps the invariant.
LEMMA TerminalStep == TerminalInv /\ [Next]_vars => TerminalInv'
<1> SUFFICES ASSUME TerminalInv, [Next]_vars PROVE TerminalInv'
  OBVIOUS
<1>1. CASE UNCHANGED vars
  BY <1>1 DEF vars, redis, node, browser, registry, guard, link, runner, used, TerminalInv,
       TerminalTypeOK, QueuesOK, AskedIsMarked, Command, Current
<1>2. CASE Next
  BY <1>2, ViewerKeeps, CollectKeeps, ConnectionKeeps, FrameKeeps, RunnerKeeps
     DEF Next, Answered
<1>3. QED BY <1>1, <1>2

\* Type correctness, with what is hard in it: the buffer of a terminal nobody
\* watches stays within its size and is empty as soon as somebody watches, what
\* waits for the check of terminal_ready is let go with the check, the relay
\* only works on connections that authenticated, and the runner is asked for
\* the PTY at most once, though every browser's first size may be on its way
\* while the runner's connection is replaced (claimTerminalSpawn).
THEOREM TerminalTypeCorrect == Spec => []TerminalTypeOK
<1>1. TerminalInv => TerminalTypeOK
  BY DEF TerminalInv
<1>2. QED BY TerminalInit, TerminalStep, <1>1, PTL DEF Spec
=============================================================================
