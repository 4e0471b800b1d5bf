-------------------------- MODULE TriggerDelivery --------------------------
(***************************************************************************)
(* Triggers between one linked child session and its parent: the           *)
(* completion a child owes its parent at the end of a turn, and the        *)
(* question it asks in the middle of one.  The child keeps a completion    *)
(* until the relay accepts it (followup-grace.ts); the relay passes it on  *)
(* if the link still stands (relay/messaging.ts); the parent's CLI drops   *)
(* duplicates, collects what arrives together and injects it into its      *)
(* agent's conversation (remote/connection.ts, triggers/extension.ts).     *)
(*                                                                         *)
(* A trigger is <<"done", turn>> or <<"ask", number>>: a completion keeps  *)
(* one triggerId per turn, a question has its own.  The link itself is     *)
(* module ChildLinks; here the relay has severed it or not.  A handler of  *)
(* the relay is one step: its last look at the link and its emit are one   *)
(* Redis round trip apart, the delink's marker and its parent_delinked     *)
(* several, on the same connection.  An acknowledgement arrives with that   *)
(* step or, for whoever waits, not at all: one that comes after the wait    *)
(* timed out changes nothing.                                               *)
(***************************************************************************)
EXTENDS Naturals, Sequences, FiniteSets

CONSTANTS
  MaxTurns,     \* bound: turns of the child's agent
  MaxAsks,      \* bound: questions it asks
  MaxNews,      \* bound: /new commands of the parent
  MaxUpsets,    \* bound: lost connections, late answers, failed injections,
                \* a user's inputs, /new and exit commands, together
  MAX_CANCELLATION_RETRIES  \* refusals after which a cancellation is given up

ASSUME TriggerAssumption ==
  /\ MaxTurns \in Nat \ {0} /\ MaxAsks \in Nat
  /\ MaxNews \in Nat /\ MaxUpsets \in Nat
  /\ MAX_CANCELLATION_RETRIES \in Nat \ {0}

Done(n) == <<"done", n>>
Ask(n)  == <<"ask", n>>
Trigger == {Done(n) : n \in 1..MaxTurns} \cup {Ask(n) : n \in 1..MaxAsks}

VARIABLES
  child,     \* the child's CLI: agent, completion to deliver, question, link
  net,       \* child at the relay: "up", "cut" (record left), "down"
  out,       \* triggers the child sent that the relay has not handled
  toChild,   \* frames on the relay's connection to the child, in order
  parent,    \* the parent's CLI: agent, tracked triggers, batch, cancellations
  requests,  \* requests of the parent that the relay has not handled
  toParent,  \* frames on the relay's connection to the parent, in order
  linked,    \* the relay holds the child for a child of the parent
  upsets,    \* how many of those there were
  lost       \* observed only: completions dropped on one of the three ways
             \* named at CompletionReaches

vars == <<child, net, out, toChild, parent, requests, toParent, linked,
          upsets, lost>>

Frame(k, v) == [kind |-> k, id |-> v]

Request == [kind : {"answer", "cancel", "retry", "followUp", "cleanup"}, id : Trigger]

TriggerTypeOK ==
  /\ child \in [turn : 1..MaxTurns, busy : BOOLEAN, payload : 0..MaxTurns,
                fired : BOOLEAN, timer : BOOLEAN, calls : SUBSET (1..MaxTurns),
                grace : BOOLEAN, queued : BOOLEAN, asked : 0..MaxAsks,
                asking : 0..MaxAsks, wait : 0..MaxAsks, isChild : BOOLEAN,
                state : {"running", "ending", "ended"}]
  /\ net \in {"up", "cut", "down"}
  /\ out \subseteq Trigger
  /\ parent \in [up : BOOLEAN, conv : 1..(MaxNews + 1), tracked : SUBSET Trigger,
                 delivered : SUBSET Trigger, handled : SUBSET Trigger,
                 batch : SUBSET Trigger, injecting : SUBSET SUBSET Trigger,
                 seen : SUBSET (Trigger \X (1..(MaxNews + 1))),
                 replying : SUBSET Request, stale : BOOLEAN, delinking : BOOLEAN,
                 cancels : SUBSET Trigger, resent : SUBSET Trigger,
                 tries : [Trigger -> 0..MAX_CANCELLATION_RETRIES]]
  /\ requests \subseteq Request
  /\ linked \in BOOLEAN
  /\ upsets \in 0..MaxUpsets
  /\ lost \subseteq Trigger

\* A linked child works on its first turn; both are registered.
Init ==
  /\ child = [turn |-> 1, busy |-> TRUE, payload |-> 0, fired |-> FALSE,
              timer |-> FALSE, calls |-> {}, grace |-> FALSE, queued |-> FALSE,
              asked |-> 0, asking |-> 0, wait |-> 0, isChild |-> TRUE,
              state |-> "running"]
  /\ net = "up" /\ out = {} /\ toChild = <<>>
  /\ parent = [up |-> TRUE, conv |-> 1, tracked |-> {}, delivered |-> {},
               handled |-> {}, batch |-> {}, injecting |-> {}, seen |-> {},
               replying |-> {}, stale |-> FALSE, delinking |-> FALSE,
               cancels |-> {}, resent |-> {}, tries |-> [t \in Trigger |-> 0]]
  /\ requests = {} /\ toParent = <<>> /\ linked = TRUE
  /\ upsets = 0 /\ lost = {}

Upset == upsets < MaxUpsets /\ upsets' = upsets + 1

childSide  == <<child, net, out, toChild>>
parentSide == <<parent, requests, toParent>>

-----------------------------------------------------------------------------
(* The child's completion.                                                  *)

\* A completion is sent now: none was accepted for this turn, a parent is
\* linked and connected to, and no delivery of it is under way.
Sends(c, n) == ~c.fired /\ c.isChild /\ n = "up" /\ c.turn \notin c.calls

Fire(c, n) ==
  IF Sends(c, n) THEN [c EXCEPT !.calls = @ \cup {c.turn}] ELSE c

Fired(c, n) == IF Sends(c, n) THEN out \cup {Done(c.turn)} ELSE out

\* A delivery that failed is tried again in 3 s.
Retry(c) == [c EXCEPT !.timer = @ \/ (~c.fired /\ c.payload # 0)]

Settle_AnyTurn(c, n, ok) ==
  LET s == [c EXCEPT !.calls = @ \ {n}]
  IN IF n \notin c.calls THEN c
     ELSE IF ok THEN [s EXCEPT !.fired = TRUE, !.timer = FALSE] ELSE Retry(s)

\* The relay's answer, or its absence, to the completion of turn n.  A result
\* for an earlier turn is dropped.
Settle(c, n, ok) ==
  LET s == [c EXCEPT !.calls = @ \ {n}]
  IN IF n \notin c.calls THEN c
     ELSE IF n # c.turn THEN s
     ELSE IF ok THEN [s EXCEPT !.fired = TRUE, !.timer = FALSE] ELSE Retry(s)

\* The relay's answer is lost, or comes after the wait for it.
Lapse == Upset
Prompt == upsets' = upsets

\* No answer in 3 s, and none to come.
CallTimeout(n) ==
  /\ n \in child.calls /\ Done(n) \notin out
  /\ child' = Settle(child, n, FALSE)
  /\ UNCHANGED <<net, out, toChild, parentSide, linked, upsets, lost>>

RetryTimer ==
  /\ child.timer /\ child.state = "running"
  /\ child' = Fire([child EXCEPT !.timer = FALSE], net)
  /\ out' = Fired(child, net)
  /\ UNCHANGED <<net, toChild, parentSide, linked, upsets, lost>>

-----------------------------------------------------------------------------
(* The child's agent.                                                       *)

Idle(c) == [c EXCEPT !.busy = FALSE]

\* The agent settles: session_complete goes out, then the follow-up grace is
\* armed, which clears the retry timer.
EndTurn ==
  /\ child.busy /\ child.state = "running" /\ child.asking = 0 /\ child.wait = 0
  /\ LET c == [child EXCEPT !.busy = FALSE, !.payload = child.turn]
     IN /\ child' = IF c.isChild
                    THEN [Fire(c, net) EXCEPT !.timer = FALSE, !.grace = TRUE]
                    ELSE c
        /\ out' = Fired(c, net)
  /\ UNCHANGED <<net, toChild, parentSide, linked, upsets, lost>>

\* The user aborts the turn: no completion, and a question's wait is over.
AbortTurn ==
  /\ child.busy /\ child.state = "running" /\ child.asking = 0
  /\ child' = [Idle(child) EXCEPT !.wait = 0]
  /\ UNCHANGED <<net, out, toChild, parentSide, linked, upsets, lost>>

\* Input clears the grace and, with it, the retry timer, before it is known
\* whether a turn will follow.
Input(c) == [c EXCEPT !.timer = FALSE, !.grace = FALSE,
                      !.queued = ~c.busy /\ c.turn < MaxTurns]

Muted(c) == IF c.timer THEN {Done(c.turn)} ELSE {}

WebInput ==
  /\ net = "up" /\ child.state = "running" /\ ~child.queued /\ Upset
  /\ child' = Input(child)
  /\ lost' = lost \cup Muted(child)
  /\ UNCHANGED <<net, out, toChild, parentSide, linked>>

StartTurn ==
  /\ child.queued /\ child.state = "running"
  /\ child' = [child EXCEPT !.queued = FALSE, !.turn = @ + 1, !.busy = TRUE,
                            !.payload = 0, !.fired = FALSE, !.timer = FALSE,
                            !.grace = FALSE]
  /\ UNCHANGED <<net, out, toChild, parentSide, linked, upsets, lost>>

\* The input was a command, or could not be delivered: no turn.
NoTurn ==
  /\ child.queued
  /\ child' = [child EXCEPT !.queued = FALSE]
  /\ UNCHANGED <<net, out, toChild, parentSide, linked, upsets, lost>>

\* AskUserQuestion and plan_mode of a child ask the parent.
AskParent ==
  /\ child.busy /\ child.state = "running" /\ child.asking = 0 /\ child.wait = 0
  /\ child.asked < MaxAsks /\ child.isChild /\ net = "up"
  /\ child' = [child EXCEPT !.asked = @ + 1, !.asking = child.asked + 1]
  /\ out' = out \cup {Ask(child.asked + 1)}
  /\ UNCHANGED <<net, toChild, parentSide, linked, upsets, lost>>

\* Accepted: the tool waits for the answer, without a timeout.  Refused or
\* unanswered: the tool returns.
Asked(c, n, ok) ==
  IF c.asking = n THEN [c EXCEPT !.asking = 0, !.wait = IF ok THEN n ELSE 0] ELSE c

AskTimeout ==
  /\ child.asking # 0 /\ Ask(child.asking) \notin out
  /\ child' = Asked(child, child.asking, FALSE)
  /\ UNCHANGED <<net, out, toChild, parentSide, linked, upsets, lost>>

\* The session ends: its completion is sent, or sent again, and awaited.
Shutdown ==
  /\ child.state = "running" /\ Upset
  /\ LET c == [child EXCEPT !.state = "ending", !.timer = FALSE, !.grace = FALSE,
                            !.payload = IF @ = 0 THEN child.turn ELSE @,
                            !.busy = FALSE, !.queued = FALSE, !.wait = 0]
     IN child' = Fire(c, net) /\ out' = Fired(c, net)
  /\ UNCHANGED <<net, toChild, parentSide, linked, lost>>

Exit ==
  /\ child.state = "ending" /\ child.turn \notin child.calls
  /\ child' = [child EXCEPT !.state = "ended", !.calls = {}, !.asking = 0,
                            !.wait = 0]
  /\ net' = "down" /\ out' = {} /\ toChild' = <<>>
  /\ UNCHANGED <<parentSide, linked, upsets, lost>>

ParentGone_KeepsWait(c) ==
  IF c.isChild
  THEN [c EXCEPT !.isChild = FALSE, !.grace = FALSE, !.timer = @ /\ ~c.grace,
                 !.state = IF c.grace /\ c.state = "running" THEN "ending" ELSE @]
  ELSE c

\* The parent has delinked the child: every wait is cancelled, and a child
\* that had finished shuts down.
ParentGone(c) ==
  IF c.isChild
  THEN [c EXCEPT !.isChild = FALSE, !.wait = 0, !.grace = FALSE,
                 !.timer = @ /\ ~c.grace,
                 !.state = IF c.grace /\ c.state = "running" THEN "ending" ELSE @]
  ELSE c

-----------------------------------------------------------------------------
(* The child's connection.                                                  *)

ChildSee ==
  /\ toChild # <<>>
  /\ LET f == Head(toChild)
     IN /\ child' = CASE f.kind = "answer" ->
                           [child EXCEPT !.wait = IF Ask(@) = f.id THEN 0 ELSE @]
                      [] f.kind = "input"  ->
                           IF child.state = "running" THEN Input(child) ELSE child
                      [] f.kind = "delinked" -> ParentGone(child)
        /\ lost' = IF f.kind = "input" THEN lost \cup Muted(child) ELSE lost
  /\ toChild' = Tail(toChild)
  /\ UNCHANGED <<net, out, parentSide, linked, upsets>>

\* The connection is lost with all that is on it.  Deliveries of the old
\* connection no longer count; a question's wait goes on.
ChildCut ==
  /\ net = "up" /\ child.state # "ended" /\ Upset
  /\ net' = "cut" /\ out' = {} /\ toChild' = <<>>
  /\ child' = [child EXCEPT !.calls = {}]
  /\ UNCHANGED <<parentSide, linked, lost>>

\* The relay ends the session of a lost connection.
Teardown ==
  /\ net = "cut" /\ net' = "down"
  /\ UNCHANGED <<child, out, toChild, parentSide, linked, upsets, lost>>

ChildRegister_NoFlush ==
  /\ net # "up" /\ child.state = "running"
  /\ net' = "up"
  /\ child' = IF ~linked THEN ParentGone(child) ELSE child
  /\ UNCHANGED <<out, toChild, parentSide, linked, upsets, lost>>

\* Registered again: told of a delink, or else a buffered completion is sent.
ChildRegister ==
  /\ net # "up" /\ child.state = "running"
  /\ net' = "up"
  /\ IF ~linked /\ child.isChild
     THEN child' = ParentGone(child) /\ out' = out
     ELSE IF child.payload # 0
          THEN child' = Fire(child, "up") /\ out' = Fired(child, "up")
          ELSE UNCHANGED <<child, out>>
  /\ UNCHANGED <<toChild, parentSide, linked, upsets, lost>>

-----------------------------------------------------------------------------
(* What the parent makes of the relay's answers.                            *)

\* The answer to a response: handled, or still pending.
Handle(p, t) == [p EXCEPT !.handled = @ \cup {t}, !.tracked = @ \ {t},
                          !.delivered = @ \ {t}]

Replied(p, r, res) ==
  LET q == [p EXCEPT !.replying = @ \ {r}]
  IN IF r \in p.replying /\ res = "ok" THEN Handle(q, r.id) ELSE q

Resent_NoLimit(p, t, res) ==
  LET q == [p EXCEPT !.resent = @ \ {t}, !.tries[t] = IF res = "offline" THEN @ + 1 ELSE @]
  IN IF t \notin p.resent THEN p
     ELSE IF res # "offline" THEN [q EXCEPT !.cancels = @ \ {t}, !.tries[t] = 0] ELSE q

\* The answer to a resent cancellation: done, given up, or one try less.
Resent(p, t, res) ==
  LET q == [p EXCEPT !.resent = @ \ {t}, !.tries[t] = IF res = "offline" THEN @ + 1 ELSE @]
  IN IF t \notin p.resent THEN p
     ELSE IF res # "offline" \/ q.tries[t] >= MAX_CANCELLATION_RETRIES
          THEN [q EXCEPT !.cancels = @ \ {t}, !.tries[t] = 0] ELSE q

Answered(p, r, res) ==
  CASE r.kind = "cancel" -> IF res = "ok" THEN [p EXCEPT !.cancels = @ \ {r.id}] ELSE p
    [] r.kind = "retry"  -> Resent(p, r.id, res)
    [] OTHER             -> Replied(p, r, res)

-----------------------------------------------------------------------------
(* The relay.                                                               *)

Acked(c, t, ok) ==
  IF t[1] = "done" THEN Settle(c, t[2], ok) ELSE Asked(c, t[2], ok)

\* session_trigger, and what the child makes of the answer.
RelayTrigger(t) ==
  /\ t \in out
  /\ out' = out \ {t}
  /\ LET ok == linked /\ parent.up
     IN /\ toParent' = IF ok THEN Append(toParent, Frame("trigger", t)) ELSE toParent
        /\ \/ Prompt  /\ child' = Acked(child, t, ok)
           \/ Lapse   /\ child' = child
  /\ UNCHANGED <<net, toChild, requests, linked, lost>>
  /\ UNCHANGED parent

\* trigger_response: no record of the child, nothing to do; no longer its
\* parent, or no connection, refused.
RelayAnswer(r) ==
  /\ r \in requests /\ r.kind \in {"answer", "cancel", "retry"}
  /\ requests' = requests \ {r}
  /\ LET res == IF net = "down" THEN "ok"
                ELSE IF ~linked THEN "permanent"
                ELSE IF net = "cut" THEN "offline" ELSE "ok"
     IN /\ \/ Prompt  /\ parent' = Answered(parent, r, res)
           \/ Lapse   /\ parent' = parent
        /\ toChild' = IF res = "ok" /\ net = "up"
                      THEN Append(toChild, Frame("answer", r.id)) ELSE toChild
  /\ UNCHANGED <<child, net, out, toParent, linked, lost>>

\* session_message as input: silence is success.
RelayFollowUp(r) ==
  /\ r \in requests /\ r.kind = "followUp"
  /\ requests' = requests \ {r}
  /\ IF linked /\ net = "up"
     THEN toChild' = Append(toChild, Frame("input", r.id)) /\ Prompt  /\ parent' = parent
     ELSE /\ toChild' = toChild
          /\ \/ Prompt  /\ parent' = Answered(parent, r, "offline")
             \/ Lapse   /\ parent' = parent
  /\ UNCHANGED <<child, net, out, toParent, linked, lost>>

\* cleanup_child_session ends a child that is still linked.
RelayCleanup(r) ==
  /\ r \in requests /\ r.kind = "cleanup"
  /\ requests' = requests \ {r}
  /\ parent' = Answered(parent, r, IF linked THEN "ok" ELSE "permanent")
  /\ IF linked
     THEN /\ child' = [child EXCEPT !.state = "ended", !.calls = {}, !.timer = FALSE,
                                    !.grace = FALSE, !.busy = FALSE, !.queued = FALSE,
                                    !.asking = 0, !.wait = 0]
          /\ net' = "down" /\ out' = {} /\ toChild' = <<>>
     ELSE UNCHANGED childSide
  /\ UNCHANGED <<toParent, linked, upsets, lost>>

\* delink_children: marker, parent_delinked, acknowledgement.
RelayDelink ==
  LET done == Frame("delinkDone", parent.conv)
  IN /\ parent.delinking /\ parent.up
     /\ \A i \in 1..Len(toParent) : toParent[i] # done
     /\ linked' = FALSE
     /\ toParent' = Append(toParent, done)
     /\ toChild' = IF linked /\ net = "up"
                   THEN Append(toChild, Frame("delinked", parent.conv)) ELSE toChild
     /\ UNCHANGED <<child, net, out, parent, requests, upsets, lost>>

-----------------------------------------------------------------------------
(* The parent's CLI.                                                        *)

Fresh_Tracked(p, t) == ~p.stale /\ t \notin p.handled

\* Fresh: neither tracked nor handled, and its sender is not a child of the
\* conversation before.
Fresh(p, t) == ~p.stale /\ t \notin p.tracked \cup p.handled

Receive(p, t) ==
  IF Fresh(p, t)
  THEN [p EXCEPT !.tracked = @ \cup {t}, !.batch = @ \cup {t}]
  ELSE p

ParentSee ==
  /\ toParent # <<>>
  /\ toParent' = Tail(toParent)
  /\ LET f == Head(toParent)
     IN parent' = CASE f.kind = "trigger" -> Receive(parent, f.id)
                    [] f.kind = "delinkDone" ->
                         IF f.id = parent.conv
                         THEN [parent EXCEPT !.delinking = FALSE, !.stale = FALSE]
                         ELSE parent
  /\ UNCHANGED <<childSide, requests, linked, upsets, lost>>

\* 80 ms after the last trigger of a batch, it goes to the agent.
FlushTriggerBatch ==
  /\ parent.batch # {}
  /\ parent' = [parent EXCEPT !.batch = {}, !.injecting = @ \cup {parent.batch}]
  /\ UNCHANGED <<childSide, requests, toParent, linked, upsets, lost>>

Injected(g) ==
  /\ g \in parent.injecting
  /\ parent' = [parent EXCEPT !.injecting = @ \ {g},
                              !.seen = @ \cup (g \X {parent.conv}),
                              !.delivered = @ \cup (g \cap parent.tracked)]
  /\ UNCHANGED <<childSide, requests, toParent, linked, upsets, lost>>

\* sendUserMessage throws: the triggers are forgotten, so that a redelivery
\* would be accepted.
InjectionFailed(g) ==
  /\ g \in parent.injecting /\ Upset
  /\ parent' = [parent EXCEPT !.injecting = @ \ {g},
                              !.tracked = @ \ (g \ parent.delivered)]
  /\ lost' = lost \cup g
  /\ UNCHANGED <<childSide, requests, toParent, linked>>

\* The agent, or a viewer, responds to a trigger of this conversation.
Respond(r) ==
  /\ parent.up /\ r.id \in parent.tracked /\ <<r.id, parent.conv>> \in parent.seen
  /\ r.kind \in IF r.id[1] = "ask" THEN {"answer"} ELSE {"followUp", "cleanup"}
  /\ \A q \in parent.replying : q.id # r.id
  /\ parent' = [parent EXCEPT !.replying = @ \cup {r}]
  /\ requests' = requests \cup {r}
  /\ UNCHANGED <<childSide, toParent, linked, upsets, lost>>

\* No answer in 10 s: the trigger stays pending.  A follow-up without an
\* error in 3 s counts as sent.
ReplyTimeout(r) ==
  /\ r \in parent.replying /\ r \notin requests
  /\ parent' = Replied(parent, r, IF r.kind = "followUp" THEN "ok" ELSE "offline")
  /\ UNCHANGED <<childSide, requests, toParent, linked, upsets, lost>>

\* /new: what was tracked is cancelled, its senders are stale, the children
\* are delinked.
NewConversation ==
  /\ parent.conv <= MaxNews /\ Upset
  /\ parent' = [parent EXCEPT !.conv = @ + 1, !.tracked = {}, !.delivered = {},
                              !.stale = parent.tracked \cup parent.cancels # {},
                              !.cancels = @ \cup parent.tracked,
                              !.delinking = TRUE]
  /\ requests' = IF parent.up
                 THEN requests \cup [kind : {"cancel"}, id : parent.tracked]
                 ELSE requests
  /\ UNCHANGED <<childSide, toParent, linked, lost>>

\* Unconfirmed cancellations are sent again, one batch at a time, on a timer
\* the relay's answers do not outlast.
RetryCancellations ==
  /\ parent.up /\ parent.cancels # {} /\ parent.resent = {}
  /\ \A r \in requests : r.kind \notin {"cancel", "retry"}
  /\ parent' = [parent EXCEPT !.resent = parent.cancels]
  /\ requests' = requests \cup [kind : {"retry"}, id : parent.cancels]
  /\ UNCHANGED <<childSide, toParent, linked, upsets, lost>>

CancellationTimeout ==
  /\ parent.resent # {} /\ requests \cap [kind : {"retry"}, id : parent.resent] = {}
  /\ parent' = [parent EXCEPT !.resent = {}]
  /\ UNCHANGED <<childSide, requests, toParent, linked, upsets, lost>>

\* The parent's connection is lost with all that is on it, and the batch that
\* was waiting is discarded.
ParentCut ==
  /\ parent.up /\ Upset
  /\ parent' = [parent EXCEPT !.up = FALSE, !.batch = {}, !.resent = {}]
  /\ requests' = {} /\ toParent' = <<>>
  /\ lost' = lost \cup parent.batch
                  \cup {t \in Trigger : \E i \in 1..Len(toParent) :
                          toParent[i] = Frame("trigger", t)}
  /\ UNCHANGED <<childSide, linked>>

ParentRegister ==
  /\ ~parent.up
  /\ parent' = [parent EXCEPT !.up = TRUE]
  /\ UNCHANGED <<childSide, requests, toParent, linked, upsets, lost>>

-----------------------------------------------------------------------------
AgentNext == EndTurn \/ AbortTurn \/ WebInput \/ AskParent \/ Shutdown
ChildNext ==
  \/ \E n \in 1..MaxTurns : CallTimeout(n)
  \/ RetryTimer \/ StartTurn \/ NoTurn \/ AskTimeout \/ Exit
  \/ ChildSee \/ Teardown \/ ChildRegister
RelayNext ==
  \/ \E t \in Trigger : RelayTrigger(t)
  \/ \E r \in Request : RelayAnswer(r) \/ RelayFollowUp(r) \/ RelayCleanup(r)
  \/ RelayDelink
ParentNext ==
  \/ ParentSee \/ FlushTriggerBatch \/ RetryCancellations
  \/ CancellationTimeout \/ ParentRegister
  \/ \E g \in SUBSET Trigger : Injected(g) \/ InjectionFailed(g)
  \/ \E r \in Request : ReplyTimeout(r)
UserNext ==
  \/ NewConversation
  \/ \E r \in Request : Respond(r)
FaultNext == ChildCut \/ ParentCut

Next == AgentNext \/ ChildNext \/ RelayNext \/ ParentNext \/ UserNext \/ FaultNext

Spec == Init /\ [][Next]_vars

\* Timers fire, frames arrive, sockets reconnect, the relay and the event
\* loops run.  Nothing makes a user or an agent act.
Fairness ==
  /\ \A n \in 1..MaxTurns : WF_vars(CallTimeout(n))
  /\ WF_vars(RetryTimer) /\ WF_vars(StartTurn \/ NoTurn) /\ WF_vars(AskTimeout)
  /\ WF_vars(Exit) /\ WF_vars(ChildSee) /\ WF_vars(Teardown) /\ WF_vars(ChildRegister)
  /\ \A t \in Trigger : WF_vars(RelayTrigger(t))
  /\ \A r \in Request : WF_vars(RelayAnswer(r) \/ RelayFollowUp(r) \/ RelayCleanup(r))
  /\ WF_vars(RelayDelink) /\ WF_vars(ParentSee) /\ WF_vars(FlushTriggerBatch)
  /\ WF_vars(RetryCancellations) /\ WF_vars(CancellationTimeout)
  /\ WF_vars(ParentRegister)
  /\ WF_vars(\E g \in SUBSET Trigger : Injected(g) \/ InjectionFailed(g))
  /\ \A r \in Request : WF_vars(ReplyTimeout(r))

FairSpec == Spec /\ Fairness

-----------------------------------------------------------------------------
(* Properties.                                                              *)

Seen(t) == \E c \in 1..(MaxNews + 1) : <<t, c>> \in parent.seen

\* A trigger goes before the parent's agent once: whatever the child sends
\* again because an acknowledgement was lost, and whatever a failed injection
\* makes acceptable again, no trigger waits for the agent twice or after it
\* was seen (trackReceivedTrigger, markTriggerInjectionFailed).
OnceEach ==
  /\ \A g \in parent.injecting : \A t \in g : t \notin parent.batch /\ ~Seen(t)
  /\ \A g, h \in parent.injecting : g # h => g \cap h = {}
  /\ \A t \in parent.batch : ~Seen(t)

\* The child stops retrying a completion only when this turn's completion is
\* the parent's concern: on its way, tracked, handled, dropped there, or of a
\* conversation the parent has left.  An acknowledgement that belongs to an
\* earlier turn must not count (fireSessionComplete's generations).
FiredIsRelayed ==
  child.fired =>
    LET t == Done(child.turn)
    IN \/ t \in parent.tracked \cup parent.handled \cup lost
       \/ \E i \in 1..Len(toParent) : toParent[i] = Frame("trigger", t)
       \/ parent.conv > 1

\* The completion of a turn reaches the parent's agent, unless the turn is
\* superseded, the link ends or the child exits, or it is dropped on one of
\* three ways: the parent's connection breaks while the trigger is on it or
\* in the batch, the injection fails, or an input that starts no turn cleared
\* the child's retry timer.
Over(n) == \/ child.payload # n \/ ~child.isChild \/ child.state = "ended"
           \/ parent.conv > 1

CompletionReaches ==
  \A n \in 1..MaxTurns :
    (child.payload = n /\ child.isChild) ~> (Seen(Done(n)) \/ Done(n) \in lost \/ Over(n))

\* The same without those three ways.
CompletionArrives ==
  \A n \in 1..MaxTurns :
    (child.payload = n /\ child.isChild) ~> (Seen(Done(n)) \/ Over(n))

\* A question does not outlive the parent's conversation: after /new the
\* child's wait ends, by the cancellation, by parent_delinked or by the next
\* registration, whichever connection breaks in between (the wait itself has
\* no timeout).
WaitsEnd == (parent.delinking /\ child.wait # 0) ~> (child.wait = 0)

\* A question the parent counts as answered is answered, or the answer is on
\* its way.
AnsweredIsAnswered ==
  \A n \in 1..MaxAsks :
    Ask(n) \in parent.handled /\ child.wait = n =>
      \E i \in 1..Len(toChild) : toChild[i] = Frame("answer", Ask(n))

\* A trigger of the conversation before /new does not enter the next one.
NoTriggerLeak == \A x \in parent.seen : x[2] = 1
=============================================================================
