----------------------- MODULE TriggerDelivery_proofs -----------------------
(***************************************************************************)
(* Proofs about TriggerDelivery, for every bound: type correctness, that a *)
(* completion the child stops retrying is the parent's concern, and that   *)
(* no trigger goes before the parent's agent twice as long as the parent   *)
(* has started at most one new conversation.                               *)
(***************************************************************************)
EXTENDS TriggerDelivery, SequenceTheorems, TLAPS

-----------------------------------------------------------------------------
(* The inductive invariant.                                                *)

ChildFrames == [kind : {"answer", "input"}, id : Trigger]
                 \cup [kind : {"delinked"}, id : 1..(MaxNews + 1)]
ParentFrames == [kind : {"trigger"}, id : Trigger]
                  \cup [kind : {"delinkDone"}, id : 1..(MaxNews + 1)]

ChildRec ==
  [turn : 1..MaxTurns, busy : BOOLEAN, payload : 0..MaxTurns,
   fired : BOOLEAN, timer : BOOLEAN, calls : SUBSET (1..MaxTurns),
   grace : BOOLEAN, queued : BOOLEAN, asked : 0..MaxAsks,
   asking : 0..MaxAsks, wait : 0..MaxAsks, isChild : BOOLEAN,
   state : {"running", "ending", "ended"}]

ParentRec ==
  [up : BOOLEAN, conv : 1..(MaxNews + 1), tracked : SUBSET Trigger,
   delivered : SUBSET Trigger, handled : SUBSET Trigger,
   batch : SUBSET Trigger, injecting : SUBSET SUBSET Trigger,
   seen : SUBSET (Trigger \X (1..(MaxNews + 1))),
   replying : SUBSET Request, stale : BOOLEAN, delinking : BOOLEAN,
   cancels : SUBSET Trigger, resent : SUBSET Trigger,
   tries : [Trigger -> 0..MAX_CANCELLATION_RETRIES]]

\* An input waits only where a turn is left; the refusals of a cancellation
\* never reach the number at which it is given up.
ChildOK(c) == c \in ChildRec /\ (c.queued => c.turn < MaxTurns)
ParentOK(p) == /\ p \in ParentRec
               /\ \A t \in Trigger : p.tries[t] < MAX_CANCELLATION_RETRIES

TypeInv ==
  /\ ChildOK(child) /\ net \in {"up", "cut", "down"} /\ out \subseteq Trigger
  /\ toChild \in Seq(ChildFrames)
  /\ ParentOK(parent) /\ requests \subseteq Request /\ toParent \in Seq(ParentFrames)
  /\ linked \in BOOLEAN /\ upsets \in 0..MaxUpsets /\ lost \subseteq Trigger

\* What the parent's agent has seen, or is about to see.
Engaged == parent.batch \cup (UNION parent.injecting) \cup {t \in Trigger : Seen(t)}

\* It would be taken for a duplicate if it came again.
Covered == Engaged \subseteq parent.tracked \cup parent.handled

\* What a sequence of frames to the parent carries.
Carries(s, t) == \E i \in 1..Len(s) : s[i] = Frame("trigger", t)
NoTriggers(s) == \A i \in 1..Len(s) : s[i].kind # "trigger"
HasDelink(s) == \E i \in 1..Len(s) : s[i].kind = "delinkDone"
DelinkLast(s) ==
  \A i, j \in 1..Len(s) : i < j /\ s[i].kind = "delinkDone" => s[j].kind # "trigger"

\* Only /new leaves senders stale or triggers to cancel.
FirstConversation ==
  parent.conv = 1 => ~parent.stale /\ parent.cancels = {} /\ Covered

\* After /new, nothing new comes from the children of the conversation before:
\* it is dropped as stale until the delink is acknowledged, and behind the
\* acknowledgement there is nothing.
SecondConversation ==
  parent.conv = 2 => Covered \/ parent.stale \/ (~linked /\ NoTriggers(toParent))

\* The delink's acknowledgement comes after every trigger the relay has let
\* through.
DelinkIsLast == DelinkLast(toParent) /\ (HasDelink(toParent) => ~linked)

OnceInv ==
  /\ FirstConversation /\ SecondConversation /\ DelinkIsLast
  /\ parent.conv <= 2 => OnceEach

-----------------------------------------------------------------------------
(* The helpers keep the types.                                             *)

\* A trigger is the completion of a turn or a question.
LEMMA TriggerParts ==
  /\ \A n \in 1..MaxTurns : Done(n) \in Trigger
  /\ \A n \in 1..MaxAsks : Ask(n) \in Trigger
  /\ \A t \in Trigger : \/ t[1] = "done" /\ t[2] \in 1..MaxTurns /\ t = Done(t[2])
                        \/ t[1] = "ask" /\ t[2] \in 1..MaxAsks /\ t = Ask(t[2])
BY DEF Trigger, Done, Ask

\* A call of fireSessionComplete changes neither the turn nor what has fired.
LEMMA FireType ==
  ASSUME NEW c, ChildOK(c), NEW n
  PROVE  ChildOK(Fire(c, n)) /\ Fire(c, n).turn = c.turn /\ Fire(c, n).fired = c.fired
BY DEF Fire, ChildOK, ChildRec

\* What fireSessionComplete sends are triggers.
LEMMA FiredType ==
  ASSUME NEW c, ChildOK(c), NEW n, out \subseteq Trigger
  PROVE  Fired(c, n) \subseteq Trigger
BY TriggerParts DEF Fired, ChildOK, ChildRec

\* A completion is settled as delivered only if it is this turn's.
LEMMA SettleType ==
  ASSUME NEW c, ChildOK(c), NEW n, NEW ok \in BOOLEAN
  PROVE  /\ ChildOK(Settle(c, n, ok)) /\ Settle(c, n, ok).turn = c.turn
         /\ Settle(c, n, ok).fired => c.fired \/ (ok /\ n = c.turn)
<1> DEFINE d == [c EXCEPT !.calls = @ \ {n}]
<1>1. ChildOK(d) /\ d.turn = c.turn /\ d.fired = c.fired
  BY DEF ChildOK, ChildRec
<1>2. \A e : ChildOK(e) => /\ ChildOK([e EXCEPT !.fired = TRUE, !.timer = FALSE])
                          /\ [e EXCEPT !.fired = TRUE, !.timer = FALSE].turn = e.turn
  BY DEF ChildOK, ChildRec
<1>3. \A e : ChildOK(e) =>
        ChildOK(Retry(e)) /\ Retry(e).turn = e.turn /\ Retry(e).fired = e.fired
  BY DEF Retry, ChildOK, ChildRec
<1>4. Settle(c, n, ok) = IF n \notin c.calls THEN c
                         ELSE IF n # c.turn THEN d
                         ELSE IF ok THEN [d EXCEPT !.fired = TRUE, !.timer = FALSE]
                         ELSE Retry(d)
  BY DEF Settle
<1> HIDE DEF d
<1>5. QED BY <1>1, <1>2, <1>3, <1>4

\* The answer to a question touches only the wait of that question.
LEMMA AskedType ==
  ASSUME NEW c, ChildOK(c), NEW n, NEW ok \in BOOLEAN
  PROVE  /\ ChildOK(Asked(c, n, ok))
         /\ Asked(c, n, ok).turn = c.turn /\ Asked(c, n, ok).fired = c.fired
<1>1. c.asking \in 0..MaxAsks /\ 0 \in 0..MaxAsks
  BY TriggerAssumption DEF ChildOK, ChildRec
<1>2. ASSUME NEW w \in 0..MaxAsks, NEW d, d = [c EXCEPT !.asking = 0, !.wait = w]
      PROVE  ChildOK(d) /\ d.turn = c.turn /\ d.fired = c.fired
  BY <1>1, <1>2 DEF ChildOK, ChildRec
<1>3. CASE c.asking # n
  BY <1>3 DEF Asked
<1>4. CASE c.asking = n
  <2> DEFINE w == IF ok THEN n ELSE 0
  <2>1. w \in 0..MaxAsks
    BY <1>1, <1>4
  <2>2. Asked(c, n, ok) = [c EXCEPT !.asking = 0, !.wait = w]
    BY <1>4 DEF Asked
  <2> HIDE DEF w
  <2>3. QED BY <1>2, <2>1, <2>2
<1>5. QED BY <1>3, <1>4

\* An acknowledgement fires only this turn's completion, and only if it is good.
LEMMA AckedType ==
  ASSUME NEW c, ChildOK(c), NEW t \in Trigger, NEW ok \in BOOLEAN
  PROVE  /\ ChildOK(Acked(c, t, ok)) /\ Acked(c, t, ok).turn = c.turn
         /\ Acked(c, t, ok).fired => c.fired \/ (ok /\ t = Done(c.turn))
BY TriggerParts, SettleType, AskedType DEF Acked

\* Input leaves the turn and what has fired alone.
LEMMA InputType ==
  ASSUME NEW c, ChildOK(c)
  PROVE  /\ ChildOK(Input(c)) /\ Input(c).turn = c.turn /\ Input(c).fired = c.fired
BY TriggerAssumption DEF Input, ChildOK, ChildRec

\* What an input withdraws are triggers.
LEMMA MutedType ==
  ASSUME NEW c, ChildOK(c) PROVE Muted(c) \subseteq Trigger
BY TriggerParts DEF Muted, ChildOK, ChildRec

\* A severed child keeps its turn and what has fired.
LEMMA ParentGoneType ==
  ASSUME NEW c, ChildOK(c)
  PROVE  /\ ChildOK(ParentGone(c))
         /\ ParentGone(c).turn = c.turn /\ ParentGone(c).fired = c.fired
<1> DEFINE b  == c.timer /\ ~c.grace
           st == IF c.grace /\ c.state = "running" THEN "ending" ELSE c.state
           d  == [c EXCEPT !.isChild = FALSE, !.wait = 0, !.grace = FALSE, !.timer = b,
                           !.state = st]
<1>1. b \in BOOLEAN /\ st \in {"running", "ending", "ended"} /\ 0 \in 0..MaxAsks
  BY TriggerAssumption DEF ChildOK, ChildRec
<1>2. ParentGone(c) = IF c.isChild THEN d ELSE c
  BY DEF ParentGone
<1> HIDE DEF b, st
<1>3. ChildOK(d) /\ d.turn = c.turn /\ d.fired = c.fired
  BY <1>1 DEF ChildOK, ChildRec
<1>4. QED BY <1>2, <1>3

\* What the answers to its requests leave of the parent's state.
SameTalk(p, q) ==
  /\ q.conv = p.conv /\ q.batch = p.batch /\ q.injecting = p.injecting
  /\ q.seen = p.seen /\ q.stale = p.stale
  /\ p.tracked \cup p.handled \subseteq q.tracked \cup q.handled
  /\ q.cancels \subseteq p.cancels

\* A reply that comes back tracks and engages no new trigger.
LEMMA RepliedType ==
  ASSUME NEW p, ParentOK(p), NEW r \in Request, NEW res
  PROVE  ParentOK(Replied(p, r, res)) /\ SameTalk(p, Replied(p, r, res))
BY DEF Replied, Handle, ParentOK, ParentRec, SameTalk, Request

\* A cancellation that comes back tracks and engages no new trigger.
LEMMA ResentType ==
  ASSUME NEW p, ParentOK(p), NEW t \in Trigger, NEW res
  PROVE  ParentOK(Resent(p, t, res)) /\ SameTalk(p, Resent(p, t, res))
<1> DEFINE n == IF res = "offline" THEN p.tries[t] + 1 ELSE p.tries[t]
           q == [p EXCEPT !.resent = @ \ {t}, !.tries[t] = n]
           g == [p EXCEPT !.resent = @ \ {t}, !.cancels = @ \ {t}, !.tries[t] = 0]
<1>1. n \in Nat /\ 0 \in 0..MAX_CANCELLATION_RETRIES /\ 0 < MAX_CANCELLATION_RETRIES
  BY TriggerAssumption DEF ParentOK, ParentRec
<1>2. Resent(p, t, res) = IF t \notin p.resent THEN p
                          ELSE IF res # "offline" \/ q.tries[t] >= MAX_CANCELLATION_RETRIES
                               THEN [q EXCEPT !.cancels = @ \ {t}, !.tries[t] = 0] ELSE q
  <2>1. q = [p EXCEPT !.resent = @ \ {t},
                      !.tries[t] = IF res = "offline" THEN @ + 1 ELSE @]
    BY DEF ParentOK, ParentRec
  <2>2. QED BY <2>1 DEF Resent
<1> HIDE DEF n
<1>3. [q EXCEPT !.cancels = @ \ {t}, !.tries[t] = 0] = g /\ q.tries[t] = n
  BY DEF ParentOK, ParentRec
<1>4. g \in ParentRec /\ \A u \in Trigger : g.tries[u] < MAX_CANCELLATION_RETRIES
  BY <1>1 DEF ParentOK, ParentRec
<1>5. SameTalk(p, g) /\ SameTalk(p, p)
  BY DEF ParentOK, ParentRec, SameTalk
<1>6. ASSUME n < MAX_CANCELLATION_RETRIES PROVE ParentOK(q) /\ SameTalk(p, q)
  <2>1. n \in 0..MAX_CANCELLATION_RETRIES
    BY <1>1, <1>6, TriggerAssumption
  <2>2. q \in ParentRec
    BY <2>1 DEF ParentOK, ParentRec
  <2>3. \A u \in Trigger : q.tries[u] < MAX_CANCELLATION_RETRIES
    BY <1>6 DEF ParentOK, ParentRec
  <2>4. SameTalk(p, q)
    BY DEF ParentOK, ParentRec, SameTalk
  <2>5. QED BY <2>2, <2>3, <2>4 DEF ParentOK
<1>7. n < MAX_CANCELLATION_RETRIES \/ n >= MAX_CANCELLATION_RETRIES
  BY <1>1, TriggerAssumption
<1> HIDE DEF q, g
<1>8. QED BY <1>2, <1>3, <1>4, <1>5, <1>6, <1>7 DEF ParentOK

\* Whatever comes back for a request tracks and engages no new trigger.
LEMMA AnsweredType ==
  ASSUME NEW p, ParentOK(p), NEW r \in Request, NEW res
  PROVE  ParentOK(Answered(p, r, res)) /\ SameTalk(p, Answered(p, r, res))
<1>1. r.id \in Trigger
  BY DEF Request
<1>2. ParentOK([p EXCEPT !.cancels = @ \ {r.id}])
      /\ SameTalk(p, [p EXCEPT !.cancels = @ \ {r.id}]) /\ SameTalk(p, p)
  BY DEF ParentOK, ParentRec, SameTalk
<1>3. QED BY <1>1, <1>2, RepliedType, ResentType DEF Answered

\* A trigger that is received keeps the parent well typed.
LEMMA ReceiveType ==
  ASSUME NEW p, ParentOK(p), NEW t \in Trigger
  PROVE  ParentOK(Receive(p, t))
BY DEF Receive, ParentOK, ParentRec

\* The frames to the child.
LEMMA ChildFrameIs ==
  /\ \A t \in Trigger : Frame("answer", t) \in ChildFrames /\ Frame("input", t) \in ChildFrames
  /\ \A n \in 1..(MaxNews + 1) : Frame("delinked", n) \in ChildFrames
BY DEF Frame, ChildFrames

\* The frames to the parent.
LEMMA ParentFrameIs ==
  /\ \A t \in Trigger : Frame("trigger", t) \in ParentFrames
  /\ \A n \in 1..(MaxNews + 1) : Frame("delinkDone", n) \in ParentFrames
  /\ \A f \in ParentFrames : \/ f.kind = "trigger" /\ f.id \in Trigger
                             \/ f.kind = "delinkDone" /\ f.id \in 1..(MaxNews + 1)
BY DEF Frame, ParentFrames

-----------------------------------------------------------------------------
(* Type correctness.                                                       *)

\* What TypeInv adds to the types.
LEMMA TypeInvTypes == TypeInv <=> /\ TriggerTypeOK
                                  /\ toChild \in Seq(ChildFrames)
                                  /\ toParent \in Seq(ParentFrames)
                                  /\ child.queued => child.turn < MaxTurns
                                  /\ \A t \in Trigger :
                                       parent.tries[t] < MAX_CANCELLATION_RETRIES
BY DEF TypeInv, TriggerTypeOK, ChildOK, ParentOK, ChildRec, ParentRec

\* The first state.
LEMMA TriggerTypeInit == Init => TypeInv
<1> SUFFICES ASSUME Init PROVE TypeInv
  OBVIOUS
<1>1. child \in ChildRec /\ ~child.queued
  BY TriggerAssumption DEF Init, ChildRec
<1>2. parent \in ParentRec
  BY TriggerAssumption DEF Init, ParentRec
<1>3. \A t \in Trigger : parent.tries[t] < MAX_CANCELLATION_RETRIES
  BY TriggerAssumption DEF Init
<1>4. toChild \in Seq(ChildFrames) /\ toParent \in Seq(ParentFrames)
  BY DEF Init
<1>5. upsets \in 0..MaxUpsets
  BY TriggerAssumption DEF Init
<1>6. QED BY <1>1, <1>2, <1>3, <1>4, <1>5 DEF Init, TypeInv, ChildOK, ParentOK

\* Mishaps and prompts keep to their bound.
LEMMA UpsetType == ASSUME upsets \in 0..MaxUpsets, Upset \/ Prompt PROVE upsets' \in 0..MaxUpsets
BY TriggerAssumption DEF Upset, Prompt

\* A step of the child's side leaves the types, and makes nothing fired.
ChildSideOK ==
  /\ ChildOK(child') /\ net' \in {"up", "cut", "down"} /\ out' \subseteq Trigger
  /\ toChild' \in Seq(ChildFrames)
  /\ upsets' \in 0..MaxUpsets /\ lost' \subseteq Trigger /\ lost \subseteq lost'
  /\ child'.fired => child.fired /\ child'.turn = child.turn
  /\ UNCHANGED <<parent, requests, toParent, linked>>

\* Steps of the child's agent, of its CLI and of its connection.
LEMMA ChildSteps ==
  ASSUME TypeInv, AgentNext \/ ChildNext \/ ChildCut
  PROVE  ChildSideOK
<1>s. /\ ChildOK(child) /\ net \in {"up", "cut", "down"} /\ out \subseteq Trigger
      /\ toChild \in Seq(ChildFrames) /\ upsets \in 0..MaxUpsets /\ lost \subseteq Trigger
      /\ child \in ChildRec
  BY DEF TypeInv, ChildOK
<1>e. <<>> \in Seq(ChildFrames)
  BY EmptySeq
<1>1. ASSUME NEW n \in 1..MaxTurns, CallTimeout(n) PROVE ChildSideOK
  BY <1>s, <1>1, SettleType DEF CallTimeout, ChildSideOK, parentSide
<1>2. CASE RetryTimer
  <2> DEFINE c == [child EXCEPT !.timer = FALSE]
  <2>1. ChildOK(c) /\ c.turn = child.turn /\ c.fired = child.fired
    BY <1>s DEF ChildOK, ChildRec
  <2> HIDE DEF c
  <2>2. child' = Fire(c, net)
    BY <1>2 DEF RetryTimer, c
  <2>3. ChildOK(child') /\ child'.turn = child.turn /\ child'.fired = child.fired
    BY <2>1, <2>2, FireType
  <2>4. out' \subseteq Trigger
    BY <1>s, <1>2, FiredType DEF RetryTimer
  <2>5. QED BY <1>s, <1>2, <2>3, <2>4 DEF RetryTimer, ChildSideOK, parentSide
<1>3. CASE EndTurn
  <2> DEFINE c == [child EXCEPT !.busy = FALSE, !.payload = child.turn]
  <2>0. child.turn \in 0..MaxTurns
    BY <1>s, TriggerAssumption DEF ChildRec
  <2>1. ChildOK(c) /\ c.turn = child.turn /\ c.fired = child.fired
    BY <1>s, <2>0 DEF ChildOK, ChildRec
  <2> HIDE DEF c
  <2>2. /\ child' = IF c.isChild THEN [Fire(c, net) EXCEPT !.timer = FALSE, !.grace = TRUE]
                                 ELSE c
        /\ out' = Fired(c, net)
    BY <1>3 DEF EndTurn, c
  <2>3. ASSUME NEW d, ChildOK(d), NEW e, e = [d EXCEPT !.timer = FALSE, !.grace = TRUE]
        PROVE  ChildOK(e) /\ e.turn = d.turn /\ e.fired = d.fired
    BY <2>3 DEF ChildOK, ChildRec
  <2>4. ChildOK(child') /\ child'.turn = child.turn /\ child'.fired = child.fired
    <3>1. ChildOK(Fire(c, net)) /\ Fire(c, net).turn = c.turn /\ Fire(c, net).fired = c.fired
      BY <2>1, FireType
    <3>2. CASE c.isChild
      <4>1. child' = [Fire(c, net) EXCEPT !.timer = FALSE, !.grace = TRUE]
        BY <2>2, <3>2
      <4>2. QED BY <2>1, <2>3, <3>1, <4>1
    <3>3. CASE ~c.isChild
      BY <2>1, <2>2, <3>3
    <3>4. QED BY <3>2, <3>3
  <2>5. out' \subseteq Trigger
    BY <1>s, <2>1, <2>2, FiredType
  <2>6. QED BY <1>s, <1>3, <2>4, <2>5 DEF EndTurn, ChildSideOK, parentSide
<1>4. CASE AbortTurn
  <2>1. child' = [child EXCEPT !.busy = FALSE, !.wait = 0] /\ 0 \in 0..MaxAsks
    BY <1>4, TriggerAssumption DEF AbortTurn, Idle
  <2>2. ChildOK(child') /\ child'.turn = child.turn /\ child'.fired = child.fired
    BY <1>s, <2>1 DEF ChildOK, ChildRec
  <2>3. QED BY <1>s, <1>4, <2>2 DEF AbortTurn, ChildSideOK, parentSide
<1>5. CASE WebInput
  BY <1>s, <1>5, InputType, MutedType, UpsetType DEF WebInput, ChildSideOK, parentSide
<1>6. CASE StartTurn
  <2>1. /\ child' = [child EXCEPT !.queued = FALSE, !.turn = @ + 1, !.busy = TRUE,
                                  !.payload = 0, !.fired = FALSE, !.timer = FALSE,
                                  !.grace = FALSE]
        /\ child.turn + 1 \in 1..MaxTurns /\ 0 \in 0..MaxTurns
    BY <1>s, <1>6, TriggerAssumption DEF StartTurn, ChildOK, ChildRec
  <2>2. ChildOK(child') /\ ~child'.fired
    BY <1>s, <2>1 DEF ChildOK, ChildRec
  <2>3. QED BY <1>s, <1>6, <2>2 DEF StartTurn, ChildSideOK, parentSide
<1>7. CASE NoTurn
  <2>1. child' = [child EXCEPT !.queued = FALSE]
    BY <1>7 DEF NoTurn
  <2>2. ChildOK(child') /\ child'.turn = child.turn /\ child'.fired = child.fired
    BY <1>s, <2>1 DEF ChildOK, ChildRec
  <2>3. QED BY <1>s, <1>7, <2>2 DEF NoTurn, ChildSideOK, parentSide
<1>8. CASE AskParent
  <2>1. /\ child' = [child EXCEPT !.asked = @ + 1, !.asking = child.asked + 1]
        /\ child.asked + 1 \in 0..MaxAsks /\ child.asked + 1 \in 1..MaxAsks
    BY <1>s, <1>8, TriggerAssumption DEF AskParent, ChildOK, ChildRec
  <2>2. ChildOK(child') /\ child'.turn = child.turn /\ child'.fired = child.fired
    BY <1>s, <2>1 DEF ChildOK, ChildRec
  <2>3. out' \subseteq Trigger
    BY <1>s, <1>8, <2>1, TriggerParts DEF AskParent
  <2>4. QED BY <1>s, <1>8, <2>2, <2>3 DEF AskParent, ChildSideOK, parentSide
<1>9. CASE AskTimeout
  BY <1>s, <1>9, AskedType DEF AskTimeout, ChildSideOK, parentSide
<1>10. CASE Shutdown
  <2> DEFINE pl == IF child.payload = 0 THEN child.turn ELSE child.payload
             c == [child EXCEPT !.state = "ending", !.timer = FALSE, !.grace = FALSE,
                                !.payload = pl, !.busy = FALSE, !.queued = FALSE, !.wait = 0]
  <2>1. pl \in 0..MaxTurns /\ 0 \in 0..MaxAsks
    BY <1>s, TriggerAssumption DEF ChildOK, ChildRec
  <2>2. child' = Fire(c, net) /\ out' = Fired(c, net)
    BY <1>10 DEF Shutdown
  <2> HIDE DEF pl
  <2>3. ChildOK(c) /\ c.turn = child.turn /\ c.fired = child.fired
    BY <1>s, <2>1 DEF ChildOK, ChildRec
  <2> HIDE DEF c
  <2>4. ChildOK(child') /\ child'.turn = child.turn /\ child'.fired = child.fired
    BY <2>2, <2>3, FireType
  <2>5. out' \subseteq Trigger
    BY <1>s, <2>2, <2>3, FiredType
  <2>6. QED BY <1>s, <1>10, <2>4, <2>5, UpsetType DEF Shutdown, ChildSideOK, parentSide
<1>11. CASE Exit
  <2>1. /\ child' = [child EXCEPT !.state = "ended", !.calls = {}, !.asking = 0, !.wait = 0]
        /\ 0 \in 0..MaxAsks
    BY <1>11, TriggerAssumption DEF Exit
  <2>2. ChildOK(child') /\ child'.turn = child.turn /\ child'.fired = child.fired
    BY <1>s, <2>1 DEF ChildOK, ChildRec
  <2>3. QED BY <1>s, <1>e, <1>11, <2>2 DEF Exit, ChildSideOK, parentSide
<1>12. CASE ChildSee
  <2> DEFINE f == Head(toChild)
  <2>1. f \in ChildFrames /\ toChild' \in Seq(ChildFrames)
    BY <1>s, <1>12, HeadTailProperties DEF ChildSee
  <2>2. \/ (f.kind \in {"answer", "input"} /\ f.id \in Trigger) \/ f.kind = "delinked"
    BY <2>1 DEF ChildFrames
  <2>3. ASSUME NEW w \in 0..MaxAsks, NEW d, d = [child EXCEPT !.wait = w]
        PROVE  ChildOK(d) /\ d.turn = child.turn /\ d.fired = child.fired
    BY <1>s, <2>3 DEF ChildOK, ChildRec
  <2>4. CASE f.kind = "answer"
    <3> DEFINE w == IF Ask(child.wait) = f.id THEN 0 ELSE child.wait
    <3>1. w \in 0..MaxAsks
      BY <1>s, TriggerAssumption DEF ChildOK, ChildRec
    <3>2. child' = [child EXCEPT !.wait = w] /\ lost' = lost
      BY <1>12, <2>4 DEF ChildSee
    <3> HIDE DEF w, f
    <3>3. QED BY <1>s, <1>12, <2>1, <2>3, <3>1, <3>2 DEF ChildSee, ChildSideOK, parentSide
  <2>5. CASE f.kind = "input"
    <3>1. (child' = Input(child) \/ child' = child) /\ lost' = lost \cup Muted(child)
      BY <1>12, <2>5 DEF ChildSee
    <3> HIDE DEF f
    <3>2. QED BY <1>s, <1>12, <2>1, <3>1, InputType, MutedType
              DEF ChildSee, ChildSideOK, parentSide
  <2>6. CASE f.kind = "delinked"
    <3>1. child' = ParentGone(child) /\ lost' = lost
      BY <1>12, <2>6 DEF ChildSee
    <3> HIDE DEF f
    <3>2. QED BY <1>s, <1>12, <2>1, <3>1, ParentGoneType DEF ChildSee, ChildSideOK, parentSide
  <2>7. QED BY <2>2, <2>4, <2>5, <2>6
<1>13. CASE ChildCut
  <2>1. child' = [child EXCEPT !.calls = {}]
    BY <1>13 DEF ChildCut
  <2>2. ChildOK(child') /\ child'.turn = child.turn /\ child'.fired = child.fired
    BY <1>s, <2>1 DEF ChildOK, ChildRec
  <2>3. QED BY <1>s, <1>e, <1>13, <2>2, UpsetType DEF ChildCut, ChildSideOK, parentSide
<1>14. CASE Teardown
  BY <1>s, <1>14 DEF Teardown, ChildSideOK, parentSide
<1>15. CASE ChildRegister
  <2>1. \/ child' = ParentGone(child) /\ out' = out
        \/ child' = Fire(child, "up") /\ out' = Fired(child, "up")
        \/ UNCHANGED <<child, out>>
    BY <1>15 DEF ChildRegister
  <2>2. ChildOK(child') /\ child'.turn = child.turn /\ child'.fired = child.fired
    BY <1>s, <2>1, ParentGoneType, FireType
  <2>3. out' \subseteq Trigger
    BY <1>s, <2>1, FiredType
  <2>4. QED BY <1>s, <1>15, <2>2, <2>3 DEF ChildRegister, ChildSideOK, parentSide
<1>16. QED
  BY <1>1, <1>2, <1>3, <1>4, <1>5, <1>6, <1>7, <1>8, <1>9, <1>10, <1>11, <1>12, <1>13,
     <1>14, <1>15 DEF AgentNext, ChildNext

\* The relay's handlers.
LEMMA RelaySteps ==
  ASSUME TypeInv, RelayNext
  PROVE  TypeInv'
<1>s. /\ ChildOK(child) /\ net \in {"up", "cut", "down"} /\ out \subseteq Trigger
      /\ toChild \in Seq(ChildFrames) /\ upsets \in 0..MaxUpsets /\ lost \subseteq Trigger
      /\ ParentOK(parent) /\ requests \subseteq Request /\ toParent \in Seq(ParentFrames)
      /\ linked \in BOOLEAN
  BY DEF TypeInv
<1>1. ASSUME NEW t \in Trigger, RelayTrigger(t) PROVE TypeInv'
  <2> DEFINE ok == linked /\ parent.up
  <2>1. ok \in BOOLEAN
    OBVIOUS
  <2>2. child' = Acked(child, t, ok) \/ child' = child
    BY <1>1 DEF RelayTrigger
  <2> HIDE DEF ok
  <2>3. ChildOK(child')
    BY <1>s, <2>1, <2>2, AckedType
  <2>4. Append(toParent, Frame("trigger", t)) \in Seq(ParentFrames)
    BY <1>s, ParentFrameIs, AppendProperties
  <2>5. /\ toParent' \in Seq(ParentFrames) /\ out' \subseteq Trigger
        /\ upsets' \in 0..MaxUpsets
        /\ UNCHANGED <<net, toChild, requests, linked, lost, parent>>
    BY <1>s, <1>1, <2>4, UpsetType DEF RelayTrigger, Lapse
  <2>6. QED BY <1>s, <2>3, <2>5 DEF TypeInv
<1>2. ASSUME NEW r \in Request, RelayAnswer(r) PROVE TypeInv'
  <2>1. r.id \in Trigger
    BY DEF Request
  <2>2. (\E res : parent' = Answered(parent, r, res)) \/ parent' = parent
    BY <1>2 DEF RelayAnswer
  <2>3. ParentOK(parent')
    BY <1>s, <2>2, AnsweredType
  <2>4. Append(toChild, Frame("answer", r.id)) \in Seq(ChildFrames)
    BY <1>s, <2>1, ChildFrameIs, AppendProperties
  <2>5. /\ toChild' \in Seq(ChildFrames) /\ requests' \subseteq Request
        /\ upsets' \in 0..MaxUpsets
        /\ UNCHANGED <<child, net, out, toParent, linked, lost>>
    BY <1>s, <1>2, <2>4, UpsetType DEF RelayAnswer, Lapse
  <2>6. QED BY <1>s, <2>3, <2>5 DEF TypeInv
<1>3. ASSUME NEW r \in Request, RelayFollowUp(r) PROVE TypeInv'
  <2>1. r.id \in Trigger
    BY DEF Request
  <2>2. (\E res : parent' = Answered(parent, r, res)) \/ parent' = parent
    BY <1>3 DEF RelayFollowUp
  <2>3. ParentOK(parent')
    BY <1>s, <2>2, AnsweredType
  <2>4. Append(toChild, Frame("input", r.id)) \in Seq(ChildFrames)
    BY <1>s, <2>1, ChildFrameIs, AppendProperties
  <2>5. /\ toChild' \in Seq(ChildFrames) /\ requests' \subseteq Request
        /\ upsets' \in 0..MaxUpsets
        /\ UNCHANGED <<child, net, out, toParent, linked, lost>>
    BY <1>s, <1>3, <2>4, UpsetType DEF RelayFollowUp, Lapse
  <2>6. QED BY <1>s, <2>3, <2>5 DEF TypeInv
<1>4. ASSUME NEW r \in Request, RelayCleanup(r) PROVE TypeInv'
  <2>1. ParentOK(parent')
    BY <1>s, <1>4, AnsweredType DEF RelayCleanup
  <2>2. ASSUME NEW d,
               d = [child EXCEPT !.state = "ended", !.calls = {}, !.timer = FALSE,
                                 !.grace = FALSE, !.busy = FALSE, !.queued = FALSE,
                                 !.asking = 0, !.wait = 0]
        PROVE  ChildOK(d)
    <3>1. 0 \in 0..MaxAsks
      BY TriggerAssumption
    <3>2. QED BY <1>s, <2>2, <3>1 DEF ChildOK, ChildRec
  <2>3. ChildOK(child')
    BY <1>s, <1>4, <2>2 DEF RelayCleanup, childSide
  <2>4. /\ net' \in {"up", "cut", "down"} /\ out' \subseteq Trigger
        /\ toChild' \in Seq(ChildFrames) /\ requests' \subseteq Request
        /\ UNCHANGED <<toParent, linked, upsets, lost>>
    BY <1>s, <1>4, EmptySeq DEF RelayCleanup, childSide
  <2>5. QED BY <1>s, <2>1, <2>3, <2>4 DEF TypeInv
<1>5. CASE RelayDelink
  <2>1. parent.conv \in 1..(MaxNews + 1)
    BY <1>s DEF ParentOK, ParentRec
  <2>2. /\ Append(toParent, Frame("delinkDone", parent.conv)) \in Seq(ParentFrames)
        /\ Append(toChild, Frame("delinked", parent.conv)) \in Seq(ChildFrames)
    BY <1>s, <2>1, ParentFrameIs, ChildFrameIs, AppendProperties
  <2>3. /\ toParent' \in Seq(ParentFrames) /\ toChild' \in Seq(ChildFrames) /\ linked' = FALSE
        /\ UNCHANGED <<child, net, out, parent, requests, upsets, lost>>
    BY <1>s, <1>5, <2>2 DEF RelayDelink
  <2>4. QED BY <1>s, <2>3 DEF TypeInv
<1>6. QED BY <1>1, <1>2, <1>3, <1>4, <1>5 DEF RelayNext

\* Steps of the parent's CLI, of its user and of its connection.
LEMMA ParentSteps ==
  ASSUME TypeInv, ParentNext \/ UserNext \/ ParentCut
  PROVE  TypeInv'
<1>s. /\ ChildOK(child) /\ net \in {"up", "cut", "down"} /\ out \subseteq Trigger
      /\ toChild \in Seq(ChildFrames) /\ upsets \in 0..MaxUpsets /\ lost \subseteq Trigger
      /\ ParentOK(parent) /\ requests \subseteq Request /\ toParent \in Seq(ParentFrames)
      /\ linked \in BOOLEAN /\ parent \in ParentRec
  BY DEF TypeInv, ParentOK
<1>p. ASSUME ParentOK(parent'), requests' \subseteq Request, toParent' \in Seq(ParentFrames),
             upsets' \in 0..MaxUpsets, lost' \subseteq Trigger,
             UNCHANGED <<childSide, linked>>
      PROVE  TypeInv'
  BY <1>s, <1>p DEF TypeInv, childSide
<1>1. CASE ParentSee
  <2> DEFINE f == Head(toParent)
  <2>1. f \in ParentFrames /\ toParent' \in Seq(ParentFrames)
    BY <1>s, <1>1, HeadTailProperties DEF ParentSee
  <2>2. (f.kind = "trigger" /\ f.id \in Trigger) \/ f.kind = "delinkDone"
    BY <2>1, ParentFrameIs
  <2>3. \/ f.id \in Trigger /\ parent' = Receive(parent, f.id)
        \/ parent' = [parent EXCEPT !.delinking = FALSE, !.stale = FALSE]
        \/ parent' = parent
    BY <1>1, <2>2 DEF ParentSee
  <2> HIDE DEF f
  <2>4. ASSUME NEW p, p = [parent EXCEPT !.delinking = FALSE, !.stale = FALSE]
        PROVE  ParentOK(p)
    BY <1>s, <2>4 DEF ParentOK, ParentRec
  <2>5. ParentOK(parent')
    BY <1>s, <2>3, <2>4, ReceiveType
  <2>6. QED BY <1>s, <1>1, <1>p, <2>1, <2>5 DEF ParentSee
<1>2. CASE FlushTriggerBatch
  <2>1. parent' = [parent EXCEPT !.batch = {}, !.injecting = @ \cup {parent.batch}]
    BY <1>2 DEF FlushTriggerBatch
  <2>2. ParentOK(parent')
    BY <1>s, <2>1 DEF ParentOK, ParentRec
  <2>3. QED BY <1>s, <1>2, <1>p, <2>2 DEF FlushTriggerBatch
<1>3. ASSUME NEW g \in SUBSET Trigger, Injected(g) PROVE TypeInv'
  <2>1. parent' = [parent EXCEPT !.injecting = @ \ {g},
                                 !.seen = @ \cup (g \X {parent.conv}),
                                 !.delivered = @ \cup (g \cap parent.tracked)]
    BY <1>3 DEF Injected
  <2>2. ParentOK(parent')
    BY <1>s, <2>1 DEF ParentOK, ParentRec
  <2>3. QED BY <1>s, <1>3, <1>p, <2>2 DEF Injected
<1>4. ASSUME NEW g \in SUBSET Trigger, InjectionFailed(g) PROVE TypeInv'
  <2>1. parent' = [parent EXCEPT !.injecting = @ \ {g},
                                 !.tracked = @ \ (g \ parent.delivered)]
    BY <1>4 DEF InjectionFailed
  <2>2. ParentOK(parent')
    BY <1>s, <2>1 DEF ParentOK, ParentRec
  <2>3. QED BY <1>s, <1>4, <1>p, <2>2, UpsetType DEF InjectionFailed
<1>5. ASSUME NEW r \in Request, Respond(r) PROVE TypeInv'
  <2>1. parent' = [parent EXCEPT !.replying = @ \cup {r}]
    BY <1>5 DEF Respond
  <2>2. ParentOK(parent')
    BY <1>s, <2>1 DEF ParentOK, ParentRec
  <2>3. QED BY <1>s, <1>5, <1>p, <2>2 DEF Respond
<1>6. ASSUME NEW r \in Request, ReplyTimeout(r) PROVE TypeInv'
  BY <1>s, <1>6, <1>p, RepliedType DEF ReplyTimeout
<1>7. CASE NewConversation
  <2> DEFINE st == parent.tracked \cup parent.cancels # {}
  <2>1. parent' = [parent EXCEPT !.conv = @ + 1, !.tracked = {}, !.delivered = {},
                                 !.stale = st, !.cancels = @ \cup parent.tracked,
                                 !.delinking = TRUE]
    BY <1>7 DEF NewConversation
  <2>2. st \in BOOLEAN /\ parent.conv + 1 \in 1..(MaxNews + 1)
    BY <1>s, <1>7, TriggerAssumption DEF NewConversation, ParentRec
  <2> HIDE DEF st
  <2>3. ParentOK(parent')
    BY <1>s, <2>1, <2>2 DEF ParentOK, ParentRec
  <2>4. [kind : {"cancel"}, id : parent.tracked] \subseteq Request
    BY <1>s DEF ParentRec, Request
  <2>5. QED BY <1>s, <1>7, <1>p, <2>3, <2>4, UpsetType DEF NewConversation
<1>8. CASE RetryCancellations
  <2>1. parent' = [parent EXCEPT !.resent = parent.cancels]
    BY <1>8 DEF RetryCancellations
  <2>2. ParentOK(parent')
    BY <1>s, <2>1 DEF ParentOK, ParentRec
  <2>3. [kind : {"retry"}, id : parent.cancels] \subseteq Request
    BY <1>s DEF ParentRec, Request
  <2>4. QED BY <1>s, <1>8, <1>p, <2>2, <2>3 DEF RetryCancellations
<1>9. CASE CancellationTimeout
  <2>1. parent' = [parent EXCEPT !.resent = {}]
    BY <1>9 DEF CancellationTimeout
  <2>2. ParentOK(parent')
    BY <1>s, <2>1 DEF ParentOK, ParentRec
  <2>3. QED BY <1>s, <1>9, <1>p, <2>2 DEF CancellationTimeout
<1>10. CASE ParentCut
  <2>1. parent' = [parent EXCEPT !.up = FALSE, !.batch = {}, !.resent = {}]
    BY <1>10 DEF ParentCut
  <2>2. ParentOK(parent')
    BY <1>s, <2>1 DEF ParentOK, ParentRec
  <2>3. lost' \subseteq Trigger /\ requests' = {} /\ toParent' = <<>>
    BY <1>s, <1>10 DEF ParentCut, ParentRec
  <2>4. QED BY <1>s, <1>10, <1>p, <2>2, <2>3, EmptySeq, UpsetType DEF ParentCut
<1>11. CASE ParentRegister
  <2>1. parent' = [parent EXCEPT !.up = TRUE]
    BY <1>11 DEF ParentRegister
  <2>2. ParentOK(parent')
    BY <1>s, <2>1 DEF ParentOK, ParentRec
  <2>3. QED BY <1>s, <1>11, <1>p, <2>2 DEF ParentRegister
<1>12. QED BY <1>1, <1>2, <1>3, <1>4, <1>5, <1>6, <1>7, <1>8, <1>9, <1>10, <1>11
          DEF ParentNext, UserNext

\* Every step keeps the types.
LEMMA TriggerTypeStep == TypeInv /\ [Next]_vars => TypeInv'
<1> SUFFICES ASSUME TypeInv, [Next]_vars PROVE TypeInv'
  OBVIOUS
<1>1. CASE AgentNext \/ ChildNext \/ ChildCut
  <2>1. ChildSideOK
    BY <1>1, ChildSteps
  <2>2. QED BY <2>1 DEF ChildSideOK, TypeInv
<1>2. CASE UNCHANGED vars
  BY <1>2 DEF vars, TypeInv
<1>3. QED BY <1>1, <1>2, RelaySteps, ParentSteps DEF Next, FaultNext

\* The state of the child's and the parent's CLI, the triggers, requests and
\* frames between them keep to the values the code can store.
THEOREM TriggerTypeCorrect == Spec => []TriggerTypeOK
<1>1. TypeInv => TriggerTypeOK
  BY TypeInvTypes
<1>2. QED BY <1>1, TriggerTypeInit, TriggerTypeStep, PTL DEF Spec

-----------------------------------------------------------------------------
(* Frames to the parent.                                                   *)

\* What is left on the connection once its first frame is taken.
LEMMA HeadLeaves ==
  ASSUME NEW s \in Seq(ParentFrames), s # <<>>
  PROVE  /\ Head(s) \in ParentFrames /\ Tail(s) \in Seq(ParentFrames)
         /\ \A t : Carries(s, t) => Head(s) = Frame("trigger", t) \/ Carries(Tail(s), t)
         /\ NoTriggers(s) => NoTriggers(Tail(s)) /\ Head(s).kind # "trigger"
         /\ HasDelink(Tail(s)) => HasDelink(s)
         /\ Head(s).kind = "delinkDone" => HasDelink(s)
         /\ DelinkLast(s) => /\ DelinkLast(Tail(s))
                             /\ Head(s).kind = "delinkDone" => NoTriggers(Tail(s))
<1> DEFINE u == Tail(s)
<1>1. /\ u \in Seq(ParentFrames) /\ Len(s) \in Nat /\ Len(s) >= 1 /\ Len(u) = Len(s) - 1
      /\ Head(s) = s[1] /\ Head(s) \in ParentFrames
      /\ \A i \in 1..Len(u) : u[i] = s[i + 1]
  BY HeadTailProperties, EmptySeq
<1> HIDE DEF u
<1>2. /\ \A i \in 1..Len(u) : i + 1 \in 1..Len(s) /\ 1 < i + 1
      /\ 1 \in 1..Len(s)
  BY <1>1
<1>3. ASSUME NEW t, Carries(s, t) PROVE Head(s) = Frame("trigger", t) \/ Carries(u, t)
  <2>1. PICK i \in 1..Len(s) : s[i] = Frame("trigger", t)
    BY <1>3 DEF Carries
  <2>2. CASE i = 1
    BY <1>1, <2>1, <2>2
  <2>3. CASE i # 1
    <3>1. i - 1 \in 1..Len(u) /\ (i - 1) + 1 = i
      BY <1>1, <2>3
    <3>2. u[i - 1] = s[i]
      BY <1>1, <3>1
    <3>3. QED BY <2>1, <3>1, <3>2 DEF Carries
  <2>4. QED BY <2>2, <2>3
<1>4. NoTriggers(s) => NoTriggers(u) /\ Head(s).kind # "trigger"
  BY <1>1, <1>2 DEF NoTriggers
<1>5. /\ HasDelink(u) => HasDelink(s)
      /\ Head(s).kind = "delinkDone" => HasDelink(s)
  BY <1>1, <1>2 DEF HasDelink
<1>6. ASSUME DelinkLast(s)
      PROVE  DelinkLast(u) /\ (Head(s).kind = "delinkDone" => NoTriggers(u))
  <2>1. ASSUME NEW i \in 1..Len(u), NEW j \in 1..Len(u), i < j, u[i].kind = "delinkDone"
        PROVE  u[j].kind # "trigger"
    <3>1. i + 1 \in 1..Len(s) /\ j + 1 \in 1..Len(s) /\ i + 1 < j + 1
      BY <1>1, <2>1
    <3>2. u[i] = s[i + 1] /\ u[j] = s[j + 1]
      BY <1>1
    <3>3. QED BY <1>6, <2>1, <3>1, <3>2 DEF DelinkLast
  <2>2. Head(s).kind = "delinkDone" => NoTriggers(u)
    BY <1>1, <1>2, <1>6 DEF DelinkLast, NoTriggers
  <2>3. QED BY <2>1, <2>2 DEF DelinkLast
<1>7. QED BY <1>1, <1>3, <1>4, <1>5, <1>6 DEF u

\* What is on the connection once a frame is sent.
LEMMA FrameComes ==
  ASSUME NEW s \in Seq(ParentFrames), NEW f \in ParentFrames
  PROVE  /\ \A t : Carries(s, t) \/ f = Frame("trigger", t) => Carries(Append(s, f), t)
         /\ NoTriggers(s) /\ f.kind # "trigger" => NoTriggers(Append(s, f))
         /\ HasDelink(Append(s, f)) => HasDelink(s) \/ f.kind = "delinkDone"
         /\ DelinkLast(s) /\ (f.kind = "trigger" => ~HasDelink(s)) => DelinkLast(Append(s, f))
<1> DEFINE u == Append(s, f)
           n == Len(s) + 1
<1>1. /\ u \in Seq(ParentFrames) /\ Len(s) \in Nat /\ Len(u) = n
      /\ \A i \in 1..Len(s) : u[i] = s[i]
      /\ u[n] = f
  BY AppendProperties
<1>2. /\ \A i \in 1..Len(u) : i \in 1..Len(s) \/ i = n
      /\ \A i \in 1..Len(s) : i \in 1..Len(u)
      /\ n \in 1..Len(u)
      /\ \A i, j \in 1..Len(u) : i < j => i \in 1..Len(s)
  BY <1>1
<1> HIDE DEF u, n
<1>3. \A t : Carries(s, t) \/ f = Frame("trigger", t) => Carries(u, t)
  BY <1>1, <1>2 DEF Carries
<1>4. NoTriggers(s) /\ f.kind # "trigger" => NoTriggers(u)
  BY <1>1, <1>2 DEF NoTriggers
<1>5. HasDelink(u) => HasDelink(s) \/ f.kind = "delinkDone"
  BY <1>1, <1>2 DEF HasDelink
<1>6. ASSUME DelinkLast(s), f.kind = "trigger" => ~HasDelink(s) PROVE DelinkLast(u)
  <2> SUFFICES ASSUME NEW i \in 1..Len(u), NEW j \in 1..Len(u), i < j, u[i].kind = "delinkDone"
               PROVE  u[j].kind # "trigger"
    BY DEF DelinkLast
  <2>1. i \in 1..Len(s) /\ s[i].kind = "delinkDone"
    BY <1>1, <1>2
  <2>2. CASE j \in 1..Len(s)
    BY <1>1, <1>6, <2>1, <2>2 DEF DelinkLast
  <2>3. CASE j = n
    BY <1>1, <1>6, <2>1, <2>3 DEF HasDelink
  <2>4. QED BY <1>2, <2>2, <2>3
<1>7. QED BY <1>3, <1>4, <1>5, <1>6 DEF u

-----------------------------------------------------------------------------
(* A completion that is not sent again is the parent's concern.            *)

Relayed(t) == t \in parent.tracked \cup parent.handled \cup lost \/ Carries(toParent, t)

RelayedInv ==
  /\ parent.stale => parent.conv > 1
  /\ child.fired => Relayed(Done(child.turn)) \/ parent.conv > 1

\* Every step keeps a fired completion with the parent or on its way to it.
LEMMA RelayedStep == ASSUME TypeInv, TypeInv', RelayedInv, [Next]_vars PROVE RelayedInv'
<1>s. /\ child \in ChildRec /\ parent \in ParentRec /\ parent' \in ParentRec
      /\ toParent \in Seq(ParentFrames) /\ ParentOK(parent) /\ ChildOK(child)
  BY DEF TypeInv, ChildOK, ParentOK
<1>k. ASSUME parent'.stale => parent.stale \/ parent'.conv > 1, parent'.conv >= parent.conv,
             child'.fired => /\ child'.turn = child.turn
                             /\ child.fired \/ Relayed(Done(child.turn))',
             \A t : Relayed(t) => Relayed(t)' \/ parent'.conv > 1
      PROVE  RelayedInv'
  <2>1. parent.conv \in Nat /\ parent'.conv \in Nat
    BY <1>s, TriggerAssumption DEF ParentRec
  <2>2. parent.conv > 1 => parent'.conv > 1
    BY <1>k, <2>1
  <2>3. parent'.stale => parent'.conv > 1
    BY <1>k, <2>2 DEF RelayedInv
  <2>4. ASSUME child'.fired PROVE Relayed(Done(child.turn))' \/ parent'.conv > 1
    <3>1. CASE child.fired /\ Relayed(Done(child.turn))
      <4>1. Relayed(Done(child.turn)) => (\E t : t = Done(child.turn) /\ Relayed(t))
        OBVIOUS
      <4>2. PICK t : t = Done(child.turn) /\ Relayed(t)
        BY <3>1
      <4>3. Relayed(t)' \/ parent'.conv > 1
        BY <1>k, <4>2
      <4>4. t = Done(child'.turn)
        BY <1>k, <2>4, <4>2
      <4>5. QED BY <4>3, <4>4 DEF Relayed
    <3>2. QED BY <1>k, <2>2, <2>4, <3>1 DEF RelayedInv
  <2>5. QED BY <2>3, <2>4 DEF RelayedInv
<1>c. parent'.conv = parent.conv => parent'.conv >= parent.conv
  BY <1>s, TriggerAssumption DEF ParentRec
<1>q. ASSUME UNCHANGED <<child, toParent, lost>>, SameTalk(parent, parent')
      PROVE  RelayedInv'
  BY <1>c, <1>k, <1>q DEF SameTalk, RelayedInv, Relayed
<1>1. CASE AgentNext \/ ChildNext \/ ChildCut
  <2>1. ChildSideOK
    BY <1>1, ChildSteps
  <2>2. \A t : Relayed(t) => Relayed(t)'
    BY <2>1 DEF ChildSideOK, Relayed
  <2>3. QED BY <1>c, <1>k, <2>1, <2>2 DEF ChildSideOK
<1>2. ASSUME NEW t \in Trigger, RelayTrigger(t) PROVE RelayedInv'
  <2> DEFINE ok == linked /\ parent.up
             f == Frame("trigger", t)
  <2>1. /\ ok \in BOOLEAN /\ (child' = Acked(child, t, ok) \/ child' = child)
        /\ toParent' = IF ok THEN Append(toParent, f) ELSE toParent
        /\ UNCHANGED <<parent, lost>>
    BY <1>2 DEF RelayTrigger
  <2>2. f \in ParentFrames
    BY ParentFrameIs
  <2> HIDE DEF ok, f
  <2>3. child'.turn = child.turn /\ (child'.fired => child.fired \/ (ok /\ t = Done(child.turn)))
    BY <1>s, <2>1, AckedType
  <2>4. ok => Carries(toParent', t)
    BY <1>s, <2>1, <2>2, FrameComes DEF f
  <2>5. \A u : Carries(toParent, u) => Carries(toParent', u)
    BY <1>s, <2>1, <2>2, FrameComes
  <2>6. \A u : Relayed(u) => Relayed(u)'
    BY <2>1, <2>5 DEF Relayed
  <2>7. child'.fired => child.fired \/ Relayed(Done(child.turn))'
    BY <2>3, <2>4 DEF Relayed
  <2>8. QED BY <1>c, <1>k, <2>1, <2>3, <2>6, <2>7
<1>3. ASSUME NEW r \in Request, RelayAnswer(r) \/ RelayFollowUp(r) PROVE RelayedInv'
  <2>1. (\E res : parent' = Answered(parent, r, res)) \/ parent' = parent
    BY <1>3 DEF RelayAnswer, RelayFollowUp
  <2>2. SameTalk(parent, parent')
    BY <1>s, <2>1, AnsweredType DEF SameTalk
  <2>3. QED BY <1>3, <1>q, <2>2 DEF RelayAnswer, RelayFollowUp
<1>4. ASSUME NEW r \in Request, RelayCleanup(r) PROVE RelayedInv'
  <2>1. SameTalk(parent, parent')
    BY <1>s, <1>4, AnsweredType DEF RelayCleanup
  <2>2. ASSUME NEW d,
               d = [child EXCEPT !.state = "ended", !.calls = {}, !.timer = FALSE,
                                 !.grace = FALSE, !.busy = FALSE, !.queued = FALSE,
                                 !.asking = 0, !.wait = 0]
        PROVE  d.turn = child.turn /\ d.fired = child.fired
    BY <1>s, <2>2 DEF ChildRec
  <2>3. child'.turn = child.turn /\ child'.fired = child.fired
    BY <1>4, <2>2 DEF RelayCleanup, childSide
  <2>4. \A t : Relayed(t) => Relayed(t)'
    BY <1>4, <2>1 DEF RelayCleanup, SameTalk, Relayed
  <2>5. QED BY <1>c, <1>k, <2>1, <2>3, <2>4 DEF SameTalk
<1>5. CASE RelayDelink
  <2> DEFINE f == Frame("delinkDone", parent.conv)
  <2>1. f \in ParentFrames /\ toParent' = Append(toParent, f) /\ UNCHANGED <<child, parent, lost>>
    BY <1>s, <1>5, ParentFrameIs DEF RelayDelink, ParentRec
  <2> HIDE DEF f
  <2>2. \A t : Relayed(t) => Relayed(t)'
    BY <1>s, <2>1, FrameComes DEF Relayed
  <2>3. QED BY <1>c, <1>k, <2>1, <2>2
<1>6. CASE ParentSee
  <2> DEFINE f == Head(toParent)
  <2>1. /\ f \in ParentFrames /\ toParent' = Tail(toParent) /\ UNCHANGED <<child, lost>>
        /\ \A t : Carries(toParent, t) => f = Frame("trigger", t) \/ Carries(toParent', t)
    BY <1>s, <1>6, HeadLeaves DEF ParentSee, childSide
  <2>2. CASE f.kind = "trigger"
    <3>1. parent' = Receive(parent, f.id) /\ f.id \in Trigger
      BY <1>6, <2>1, <2>2, ParentFrameIs DEF ParentSee, ParentFrames
    <3> HIDE DEF f
    <3>2. /\ parent'.conv = parent.conv /\ parent'.stale = parent.stale
          /\ parent.tracked \cup parent.handled \subseteq parent'.tracked \cup parent'.handled
          /\ f.id \in parent'.tracked \cup parent'.handled \/ parent.stale
      BY <1>s, <3>1 DEF Receive, Fresh, ParentRec
    <3>3. \A t : f = Frame("trigger", t) => f.id = t
      BY DEF Frame
    <3>4. \A t : Relayed(t) => Relayed(t)' \/ parent'.conv > 1
      BY <2>1, <3>2, <3>3 DEF Relayed, RelayedInv
    <3>5. QED BY <1>c, <1>k, <2>1, <3>2, <3>4
  <2>3. CASE f.kind = "delinkDone"
    <3>1. parent' = [parent EXCEPT !.delinking = FALSE, !.stale = FALSE] \/ parent' = parent
      BY <1>6, <2>3 DEF ParentSee
    <3>2. \A t : f # Frame("trigger", t)
      BY <2>3 DEF Frame
    <3> HIDE DEF f
    <3>3. /\ parent'.conv = parent.conv /\ (parent'.stale => parent.stale)
          /\ parent'.tracked = parent.tracked /\ parent'.handled = parent.handled
      BY <1>s, <3>1 DEF ParentRec
    <3>4. \A t : Relayed(t) => Relayed(t)'
      BY <2>1, <3>2, <3>3 DEF Relayed
    <3>5. QED BY <1>c, <1>k, <2>1, <3>3, <3>4
  <2>4. QED BY <2>1, <2>2, <2>3, ParentFrameIs
<1>7. CASE FlushTriggerBatch \/ (\E g \in SUBSET Trigger : Injected(g))
  <2>1. /\ parent'.conv = parent.conv /\ parent'.stale = parent.stale
        /\ parent'.tracked = parent.tracked /\ parent'.handled = parent.handled
        /\ UNCHANGED <<child, toParent, lost>>
    BY <1>s, <1>7 DEF FlushTriggerBatch, Injected, ParentRec, childSide
  <2>2. \A t : Relayed(t) => Relayed(t)'
    BY <2>1 DEF Relayed
  <2>3. QED BY <1>c, <1>k, <2>1, <2>2
<1>8. ASSUME NEW g \in SUBSET Trigger, InjectionFailed(g) PROVE RelayedInv'
  <2>1. /\ parent' = [parent EXCEPT !.injecting = @ \ {g},
                                    !.tracked = @ \ (g \ parent.delivered)]
        /\ lost' = lost \cup g /\ UNCHANGED <<child, toParent>>
    BY <1>8 DEF InjectionFailed, childSide
  <2>2. /\ parent'.conv = parent.conv /\ parent'.stale = parent.stale
        /\ parent'.tracked = parent.tracked \ (g \ parent.delivered)
        /\ parent'.handled = parent.handled
    BY <1>s, <2>1 DEF ParentRec
  <2>3. \A t : Relayed(t) => Relayed(t)'
    BY <2>1, <2>2 DEF Relayed
  <2>4. QED BY <1>c, <1>k, <2>1, <2>2, <2>3
<1>9. ASSUME NEW r \in Request, Respond(r) \/ ReplyTimeout(r) PROVE RelayedInv'
  <2>1. CASE Respond(r)
    <3>1. SameTalk(parent, parent')
      BY <1>s, <2>1 DEF Respond, ParentRec, SameTalk
    <3>2. QED BY <1>q, <2>1, <3>1 DEF Respond, childSide
  <2>2. CASE ReplyTimeout(r)
    <3>1. SameTalk(parent, parent')
      BY <1>s, <2>2, RepliedType DEF ReplyTimeout
    <3>2. QED BY <1>q, <2>2, <3>1 DEF ReplyTimeout, childSide
  <2>3. QED BY <1>9, <2>1, <2>2
<1>10. CASE NewConversation
  <2>1. parent'.conv = parent.conv + 1 /\ UNCHANGED child
    BY <1>s, <1>10 DEF NewConversation, ParentRec, childSide
  <2>2. parent'.conv > 1
    BY <1>s, <2>1, TriggerAssumption DEF ParentRec
  <2>3. QED BY <2>2 DEF RelayedInv
<1>11. CASE RetryCancellations \/ CancellationTimeout \/ ParentRegister
  <2>1. SameTalk(parent, parent')
    BY <1>s, <1>11 DEF RetryCancellations, CancellationTimeout, ParentRegister, ParentRec, SameTalk
  <2>2. QED BY <1>q, <1>11, <2>1
            DEF RetryCancellations, CancellationTimeout, ParentRegister, childSide
<1>12. CASE ParentCut
  <2>1. parent' = [parent EXCEPT !.up = FALSE, !.batch = {}, !.resent = {}]
        /\ lost' = lost \cup parent.batch \cup {t \in Trigger : Carries(toParent, t)}
        /\ UNCHANGED child
    BY <1>12 DEF ParentCut, Carries, childSide
  <2>2. /\ parent'.conv = parent.conv /\ parent'.stale = parent.stale
        /\ parent'.tracked = parent.tracked /\ parent'.handled = parent.handled
    BY <1>s, <2>1 DEF ParentRec
  <2>3. \A t : Carries(toParent, t) => t \in Trigger
    <3> SUFFICES ASSUME NEW t, NEW i \in 1..Len(toParent), toParent[i] = Frame("trigger", t)
                 PROVE  t \in Trigger
      BY DEF Carries
    <3>1. toParent[i] \in ParentFrames
      BY <1>s
    <3>2. toParent[i].kind = "trigger" /\ toParent[i].id = t
      BY DEF Frame
    <3>3. QED BY <3>1, <3>2, ParentFrameIs
  <2>4. \A t : Relayed(t) => Relayed(t)'
    BY <2>1, <2>2, <2>3 DEF Relayed
  <2>5. QED BY <1>c, <1>k, <2>1, <2>2, <2>4
<1>13. CASE UNCHANGED vars
  BY <1>13 DEF vars, RelayedInv, Relayed
<1>14. QED
  BY <1>1, <1>2, <1>3, <1>4, <1>5, <1>6, <1>7, <1>8, <1>9, <1>10, <1>11, <1>12, <1>13
     DEF Next, RelayNext, ParentNext, UserNext, FaultNext

\* The child stops retrying the completion of a turn only when it is the
\* parent's concern: on its way, tracked, handled, counted as lost, or of a
\* conversation the parent has left.  No acknowledgement of an earlier turn,
\* however late, makes it stop.
THEOREM FiredReachesParent == Spec => []FiredIsRelayed
<1>1. Init => RelayedInv
  BY DEF Init, RelayedInv
<1>2. RelayedInv => FiredIsRelayed
  BY DEF RelayedInv, Relayed, Carries, FiredIsRelayed
<1>3. QED BY <1>1, <1>2, TriggerTypeInit, TriggerTypeStep, RelayedStep, PTL DEF Spec

-----------------------------------------------------------------------------
(* No trigger comes twice.                                                 *)

\* Nothing the parent has, or is told, changes but answers to its requests.
LEMMA OnceKept ==
  ASSUME OnceInv, SameTalk(parent, parent'), UNCHANGED <<toParent, linked>>
  PROVE  OnceInv'
<1>1. Engaged' = Engaged /\ (Covered => Covered') /\ (OnceEach => OnceEach')
  BY DEF SameTalk, Engaged, Covered, OnceEach, Seen
<1>2. FirstConversation'
  BY <1>1 DEF OnceInv, FirstConversation, SameTalk
<1>3. SecondConversation'
  BY <1>1 DEF OnceInv, SecondConversation, SameTalk
<1>4. DelinkIsLast'
  BY DEF OnceInv, DelinkIsLast
<1>5. QED BY <1>1, <1>2, <1>3, <1>4 DEF OnceInv, SameTalk

\* A step of the parent that starts no conversation and engages nothing new
\* but what it tracks.
LEMMA OnceHeld ==
  ASSUME OnceInv, UNCHANGED linked, parent'.conv = parent.conv,
         parent'.stale = parent.stale, parent'.cancels = parent.cancels,
         Covered => Covered', OnceEach /\ parent.conv <= 2 => OnceEach',
         NoTriggers(toParent) => NoTriggers(toParent'),
         DelinkLast(toParent) => DelinkLast(toParent'),
         HasDelink(toParent') => HasDelink(toParent)
  PROVE  OnceInv'
<1>1. FirstConversation'
  BY DEF OnceInv, FirstConversation
<1>2. SecondConversation'
  BY DEF OnceInv, SecondConversation
<1>3. DelinkIsLast'
  BY DEF OnceInv, DelinkIsLast
<1>4. QED BY <1>1, <1>2, <1>3 DEF OnceInv

\* Every step keeps the invariant behind OnceEach.
LEMMA OnceStep == ASSUME TypeInv, TypeInv', OnceInv, [Next]_vars PROVE OnceInv'
<1>s. /\ parent \in ParentRec /\ parent' \in ParentRec /\ ParentOK(parent)
      /\ toParent \in Seq(ParentFrames) /\ linked \in BOOLEAN
  BY DEF TypeInv, ParentOK
<1>c. /\ parent.conv \in Nat /\ parent.conv >= 1
      /\ parent.conv <= 2 => parent.conv = 1 \/ parent.conv = 2
  BY <1>s, TriggerAssumption DEF ParentRec
<1>t. SameTalk(parent, parent)
  BY DEF SameTalk
<1>1. CASE AgentNext \/ ChildNext \/ ChildCut
  <2>1. UNCHANGED <<parent, toParent, linked>>
    BY <1>1, ChildSteps DEF ChildSideOK
  <2>2. QED BY <1>t, <2>1, OnceKept
<1>2. ASSUME NEW t \in Trigger, RelayTrigger(t) PROVE OnceInv'
  <2> DEFINE f == Frame("trigger", t)
  <2>1. /\ (linked /\ toParent' = Append(toParent, f)) \/ UNCHANGED toParent
        /\ UNCHANGED <<parent, linked>>
    BY <1>2 DEF RelayTrigger
  <2>2. f \in ParentFrames /\ f.kind = "trigger"
    BY ParentFrameIs DEF Frame
  <2> HIDE DEF f
  <2>3. CASE UNCHANGED toParent
    BY <1>t, <2>1, <2>3, OnceKept
  <2>4. CASE linked /\ toParent' = Append(toParent, f)
    <3>1. ~HasDelink(toParent) /\ DelinkLast(toParent)
      BY <2>4 DEF OnceInv, DelinkIsLast
    <3>2. ~HasDelink(toParent') /\ DelinkLast(toParent')
      BY <1>s, <2>2, <2>4, <3>1, FrameComes
    <3>3. FirstConversation' /\ SecondConversation'
      BY <2>1, <2>4 DEF OnceInv, FirstConversation, SecondConversation, Covered, Engaged, Seen
    <3>4. OnceEach => OnceEach'
      BY <2>1 DEF OnceEach, Seen
    <3>5. QED BY <2>1, <3>2, <3>3, <3>4 DEF OnceInv, DelinkIsLast
  <2>5. QED BY <2>1, <2>3, <2>4
<1>3. ASSUME NEW r \in Request, RelayAnswer(r) \/ RelayFollowUp(r) \/ RelayCleanup(r)
      PROVE  OnceInv'
  <2>1. (\E res : parent' = Answered(parent, r, res)) \/ parent' = parent
    BY <1>3 DEF RelayAnswer, RelayFollowUp, RelayCleanup
  <2>2. SameTalk(parent, parent')
    BY <1>s, <1>t, <2>1, AnsweredType
  <2>3. QED BY <1>3, <2>2, OnceKept DEF RelayAnswer, RelayFollowUp, RelayCleanup
<1>4. CASE RelayDelink
  <2> DEFINE f == Frame("delinkDone", parent.conv)
  <2>1. /\ f \in ParentFrames /\ f.kind = "delinkDone"
        /\ toParent' = Append(toParent, f) /\ linked' = FALSE /\ UNCHANGED parent
    BY <1>s, <1>4, ParentFrameIs DEF RelayDelink, ParentRec, Frame
  <2> HIDE DEF f
  <2>2. /\ DelinkLast(toParent')
        /\ NoTriggers(toParent) => NoTriggers(toParent')
    BY <1>s, <2>1, FrameComes DEF OnceInv, DelinkIsLast
  <2>3. FirstConversation' /\ SecondConversation'
    BY <2>1, <2>2 DEF OnceInv, FirstConversation, SecondConversation, Covered, Engaged, Seen
  <2>4. OnceEach => OnceEach'
    BY <2>1 DEF OnceEach, Seen
  <2>5. QED BY <2>1, <2>2, <2>3, <2>4 DEF OnceInv, DelinkIsLast
<1>5. CASE ParentSee
  <2> DEFINE f == Head(toParent)
  <2>1. /\ f \in ParentFrames /\ toParent' = Tail(toParent) /\ UNCHANGED linked
        /\ NoTriggers(toParent) => NoTriggers(toParent') /\ f.kind # "trigger"
        /\ HasDelink(toParent') => HasDelink(toParent)
        /\ f.kind = "delinkDone" => HasDelink(toParent)
        /\ DelinkLast(toParent) => /\ DelinkLast(toParent')
                                   /\ f.kind = "delinkDone" => NoTriggers(toParent')
    BY <1>s, <1>5, HeadLeaves DEF ParentSee
  <2>2. CASE f.kind = "trigger"
    <3>1. parent' = Receive(parent, f.id) /\ f.id \in Trigger
      BY <1>5, <2>1, <2>2, ParentFrameIs DEF ParentSee, ParentFrames
    <3> HIDE DEF f
    <3>2. CASE ~Fresh(parent, f.id)
      <4>1. UNCHANGED parent
        BY <3>1, <3>2 DEF Receive
      <4>2. (Covered => Covered') /\ (OnceEach => OnceEach')
        BY <4>1 DEF Covered, Engaged, OnceEach, Seen
      <4>3. QED BY <2>1, <4>1, <4>2, OnceHeld
    <3>3. CASE Fresh(parent, f.id)
      <4>1. /\ parent'.tracked = parent.tracked \cup {f.id}
            /\ parent'.batch = parent.batch \cup {f.id}
            /\ parent'.conv = parent.conv /\ parent'.stale = parent.stale
            /\ parent'.cancels = parent.cancels /\ parent'.handled = parent.handled
            /\ parent'.injecting = parent.injecting /\ parent'.seen = parent.seen
        BY <1>s, <3>1, <3>3 DEF Receive, ParentRec
      <4>2. ~parent.stale /\ f.id \notin parent.tracked \cup parent.handled
        BY <3>3 DEF Fresh
      <4>3. parent.conv <= 2 => Covered
        BY <1>c, <2>1, <2>2, <4>2 DEF OnceInv, FirstConversation, SecondConversation
      <4>4. Covered => Covered'
        BY <4>1 DEF Covered, Engaged, Seen
      <4>5. ASSUME OnceEach, parent.conv <= 2 PROVE OnceEach'
        <5>1. f.id \notin Engaged
          BY <4>2, <4>3, <4>5 DEF Covered
        <5>2. ~Seen(f.id)
          BY <3>1, <5>1 DEF Engaged, Seen
        <5>3. ASSUME NEW g \in parent.injecting PROVE f.id \notin g
          BY <3>1, <5>1 DEF Engaged, Seen
        <5>4. QED BY <4>1, <4>5, <5>2, <5>3 DEF OnceEach, Seen
      <4>6. QED BY <2>1, <4>1, <4>4, <4>5, OnceHeld
    <3>4. QED BY <3>2, <3>3
  <2>3. CASE f.kind = "delinkDone"
    <3>1. \/ parent' = parent
          \/ parent' = [parent EXCEPT !.delinking = FALSE, !.stale = FALSE]
      BY <1>5, <2>3 DEF ParentSee
    <3> HIDE DEF f
    <3>2. /\ parent'.tracked = parent.tracked /\ parent'.batch = parent.batch
          /\ parent'.conv = parent.conv
          /\ parent'.cancels = parent.cancels /\ parent'.handled = parent.handled
          /\ parent'.injecting = parent.injecting /\ parent'.seen = parent.seen
      BY <1>s, <3>1 DEF ParentRec
    <3>3. parent'.stale \in {parent.stale, FALSE}
      BY <1>s, <3>1 DEF ParentRec
    <3>4. (Covered => Covered') /\ (OnceEach => OnceEach')
      BY <3>2 DEF Covered, Engaged, OnceEach, Seen
    <3>5. ~linked' /\ NoTriggers(toParent') /\ DelinkIsLast'
      BY <2>1, <2>3 DEF OnceInv, DelinkIsLast
    <3>6. FirstConversation'
      BY <3>2, <3>3, <3>4 DEF OnceInv, FirstConversation
    <3>7. SecondConversation'
      BY <3>5 DEF SecondConversation
    <3>8. QED BY <3>2, <3>4, <3>5, <3>6, <3>7 DEF OnceInv
  <2>4. QED BY <2>1, <2>2, <2>3, ParentFrameIs
<1>6. CASE FlushTriggerBatch
  <2>1. /\ parent'.tracked = parent.tracked /\ parent'.batch = {}
        /\ parent'.conv = parent.conv /\ parent'.stale = parent.stale
        /\ parent'.cancels = parent.cancels /\ parent'.handled = parent.handled
        /\ parent'.injecting = parent.injecting \cup {parent.batch}
        /\ parent'.seen = parent.seen /\ UNCHANGED <<toParent, linked>>
    BY <1>s, <1>6 DEF FlushTriggerBatch, ParentRec
  <2>2. Covered => Covered'
    BY <2>1 DEF Covered, Engaged, Seen
  <2>3. OnceEach => OnceEach'
    BY <2>1 DEF OnceEach, Seen
  <2>4. QED BY <2>1, <2>2, <2>3, OnceHeld
<1>7. ASSUME NEW g \in SUBSET Trigger, Injected(g) PROVE OnceInv'
  <2>1. /\ parent'.tracked = parent.tracked /\ parent'.batch = parent.batch
        /\ parent'.conv = parent.conv /\ parent'.stale = parent.stale
        /\ parent'.cancels = parent.cancels /\ parent'.handled = parent.handled
        /\ parent'.injecting = parent.injecting \ {g}
        /\ parent'.seen = parent.seen \cup (g \X {parent.conv})
        /\ g \in parent.injecting /\ UNCHANGED <<toParent, linked>>
    BY <1>s, <1>7 DEF Injected, ParentRec
  <2>2. \A t : Seen(t)' => Seen(t) \/ t \in g
    BY <2>1 DEF Seen
  <2>3. ASSUME Covered PROVE Covered'
    <3> SUFFICES ASSUME NEW t \in Engaged'
                 PROVE  t \in parent.tracked \cup parent.handled
      BY <2>1 DEF Covered
    <3>1. t \in parent.batch \/ t \in UNION parent'.injecting \/ (t \in Trigger /\ Seen(t)')
      BY <2>1 DEF Engaged, Seen
    <3>2. UNION parent'.injecting \subseteq UNION parent.injecting /\ g \subseteq UNION parent.injecting
      BY <2>1
    <3>3. t \in Engaged
      BY <2>2, <3>1, <3>2 DEF Engaged, Seen
    <3>4. QED BY <2>3, <3>3 DEF Covered
  <2>4. OnceEach => OnceEach'
    BY <2>1, <2>2 DEF OnceEach
  <2>5. QED BY <2>1, <2>3, <2>4, OnceHeld
<1>8. ASSUME NEW g \in SUBSET Trigger, InjectionFailed(g) PROVE OnceInv'
  <2>1. /\ parent'.tracked = parent.tracked \ (g \ parent.delivered)
        /\ parent'.batch = parent.batch
        /\ parent'.conv = parent.conv /\ parent'.stale = parent.stale
        /\ parent'.cancels = parent.cancels /\ parent'.handled = parent.handled
        /\ parent'.injecting = parent.injecting \ {g}
        /\ parent'.seen = parent.seen
        /\ g \in parent.injecting /\ UNCHANGED <<toParent, linked>>
    BY <1>s, <1>8 DEF InjectionFailed, ParentRec
  <2>2. OnceEach => OnceEach'
    BY <2>1 DEF OnceEach, Seen
  <2>3. ASSUME OnceEach, Covered PROVE Covered'
    <3> SUFFICES ASSUME NEW t \in Engaged'
                 PROVE  t \in parent'.tracked \cup parent'.handled
      BY DEF Covered
    <3>1. t \in parent.batch \/ t \in UNION parent'.injecting \/ (t \in Trigger /\ Seen(t))
      BY <2>1 DEF Engaged, Seen
    <3>2. UNION parent'.injecting \subseteq UNION parent.injecting
      BY <2>1
    <3>3. t \in parent.tracked \cup parent.handled
      BY <2>3, <3>1, <3>2 DEF Covered, Engaged, Seen
    <3>4. \A h \in parent'.injecting : h \in parent.injecting /\ h # g
      BY <2>1
    <3>5. t \notin g
      BY <2>1, <2>3, <3>1, <3>4 DEF OnceEach
    <3>6. QED BY <2>1, <3>3, <3>5
  <2>4. parent.conv <= 2 => OnceEach
    BY DEF OnceInv
  <2>5. FirstConversation' /\ SecondConversation'
    BY <1>c, <2>1, <2>3, <2>4 DEF OnceInv, FirstConversation, SecondConversation
  <2>6. QED BY <2>1, <2>2, <2>5 DEF OnceInv, DelinkIsLast
<1>9. ASSUME NEW r \in Request, Respond(r) \/ ReplyTimeout(r) PROVE OnceInv'
  <2>1. CASE Respond(r)
    <3>1. SameTalk(parent, parent')
      BY <1>s, <2>1 DEF Respond, ParentRec, SameTalk
    <3>2. QED BY <2>1, <3>1, OnceKept DEF Respond
  <2>2. CASE ReplyTimeout(r)
    <3>1. SameTalk(parent, parent')
      BY <1>s, <2>2, RepliedType DEF ReplyTimeout
    <3>2. QED BY <2>2, <3>1, OnceKept DEF ReplyTimeout
  <2>3. QED BY <1>9, <2>1, <2>2
<1>10. CASE NewConversation
  <2>1. /\ parent'.tracked = {} /\ parent'.batch = parent.batch
        /\ parent'.conv = parent.conv + 1
        /\ parent'.stale = (parent.tracked \cup parent.cancels # {})
        /\ parent'.handled = parent.handled
        /\ parent'.injecting = parent.injecting /\ parent'.seen = parent.seen
        /\ UNCHANGED <<toParent, linked>>
    BY <1>s, <1>10 DEF NewConversation, ParentRec
  <2>2. FirstConversation'
    BY <1>c, <2>1 DEF FirstConversation
  <2>3. SecondConversation'
    <3>1. CASE parent.conv = 1 /\ parent.tracked = {}
      BY <2>1, <3>1 DEF OnceInv, FirstConversation, SecondConversation, Covered, Engaged, Seen
    <3>2. CASE parent.conv = 1 /\ parent.tracked # {}
      BY <2>1, <3>2 DEF SecondConversation
    <3>3. QED BY <1>c, <2>1, <3>1, <3>2 DEF SecondConversation
  <2>4. OnceEach => OnceEach'
    BY <2>1 DEF OnceEach, Seen
  <2>5. QED BY <1>c, <2>1, <2>2, <2>3, <2>4 DEF OnceInv, DelinkIsLast
<1>11. CASE RetryCancellations \/ CancellationTimeout \/ ParentRegister
  <2>1. SameTalk(parent, parent')
    BY <1>s, <1>11 DEF RetryCancellations, CancellationTimeout, ParentRegister, ParentRec, SameTalk
  <2>2. QED BY <1>11, <2>1, OnceKept DEF RetryCancellations, CancellationTimeout, ParentRegister
<1>12. CASE ParentCut
  <2>1. /\ parent'.tracked = parent.tracked /\ parent'.batch = {}
        /\ parent'.conv = parent.conv /\ parent'.stale = parent.stale
        /\ parent'.cancels = parent.cancels /\ parent'.handled = parent.handled
        /\ parent'.injecting = parent.injecting /\ parent'.seen = parent.seen
        /\ toParent' = <<>> /\ UNCHANGED linked
    BY <1>s, <1>12 DEF ParentCut, ParentRec
  <2>2. (Covered => Covered') /\ (OnceEach => OnceEach')
    BY <2>1 DEF Covered, Engaged, OnceEach, Seen
  <2>3. 1..Len(toParent') = {}
    BY <2>1
  <2>4. NoTriggers(toParent') /\ DelinkLast(toParent') /\ ~HasDelink(toParent')
    BY <2>3 DEF NoTriggers, DelinkLast, HasDelink
  <2>5. QED BY <2>1, <2>2, <2>4, OnceHeld
<1>13. CASE UNCHANGED vars
  BY <1>13, <1>t, OnceKept DEF vars
<1>14. QED
  BY <1>1, <1>2, <1>3, <1>4, <1>5, <1>6, <1>7, <1>8, <1>9, <1>10, <1>11, <1>12, <1>13
     DEF Next, RelayNext, ParentNext, UserNext, FaultNext

\* The first state.
LEMMA OnceInit == Init => OnceInv
<1> SUFFICES ASSUME Init PROVE OnceInv
  OBVIOUS
<1>1. 1..Len(toParent) = {}
  BY DEF Init
<1>2. DelinkIsLast
  BY <1>1 DEF DelinkIsLast, DelinkLast, HasDelink
<1>3. FirstConversation /\ SecondConversation /\ OnceEach
  BY DEF Init, FirstConversation, SecondConversation, OnceEach, Covered, Engaged, Seen
<1>4. QED BY <1>2, <1>3 DEF OnceInv

\* Until the parent starts a second new conversation, whatever the child sends
\* again, and whatever a failed injection makes acceptable again, no trigger
\* waits for the parent's agent twice or after the agent has seen it.
THEOREM OnceForTwoConversations == Spec => [](parent.conv <= 2 => OnceEach)
<1>1. OnceInv => (parent.conv <= 2 => OnceEach)
  BY DEF OnceInv
<1>2. QED BY <1>1, OnceInit, OnceStep, TriggerTypeInit, TriggerTypeStep, PTL DEF Spec

\* A parent that starts at most one new conversation never sees one twice.
THEOREM NoTriggerTwice == ASSUME MaxNews <= 1 PROVE Spec => []OnceEach
<1>1. TypeInv => parent.conv <= 2
  BY TriggerAssumption DEF TypeInv, ParentOK, ParentRec
<1>2. QED BY <1>1, OnceForTwoConversations, TriggerTypeInit, TriggerTypeStep, PTL DEF Spec
=============================================================================
