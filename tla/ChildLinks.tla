----------------------------- MODULE ChildLinks -----------------------------
(***************************************************************************)
(* The link between ONE parent session and the sessions it spawned: what   *)
(* the relay keeps in Redis (children set, delink markers, retry set, the  *)
(* two fields of the child's hash), the handlers that change it (register, *)
(* delink_children, delink_own_parent, session_end, the self-healing       *)
(* isChildOfParent), and the retry flags of the CLI on both sides.         *)
(*                                                                         *)
(* Time is counted in conversations: the parent's k-th /new has epoch k,   *)
(* and a startedAt drawn after k of them is k, so startedAt > epoch reads  *)
(* started >= epoch.  Each registration of a child runs alone (the lock of *)
(* SessionOwnership); everything else interleaves between its awaits.      *)
(***************************************************************************)
EXTENDS Naturals, FiniteSets

CONSTANTS
  Child,       \* sessions spawned with this parent's id in their environment
  Slot,        \* bound: delink_children handlers running at a time
  None,        \* no value
  Traffic,     \* do messages, cleanups and TTLs touch the children set?
  MaxNew,      \* bound: /new commands of the parent
  MaxDrops,    \* bound: lost connections, worker restarts and session ends
  MaxFaults    \* bound: ack timeouts and failed Redis writes

ASSUME LinksAssumption ==
  /\ None \notin Nat
  /\ Traffic \in BOOLEAN
  /\ {MaxNew, MaxDrops, MaxFaults} \subseteq Nat

VARIABLES
  members,   \* children set of the parent
  marker,    \* children with a delink marker (all written by this parent)
  retrySet,  \* pending-delink set of the parent
  hash,      \* session hash of each child: parent and linked fields, startedAt
  prec,      \* does the parent's session hash exist?
  dl,        \* delink_children handlers of the relay
  reg,       \* progress of each child's register handler
  own,       \* progress of each child's delink_own_parent request
  joined,    \* children whose socket is in their relay room
  pconn,     \* the parent's connection: "down", "reg", "up" (registered)
  conv,      \* number of /new commands of the parent so far
  pend,      \* pendingDelinkEpoch of the parent, or None
  timer,     \* is the parent's delink retry timer armed?
  cconn,     \* connection of each child; "ended" when the session is over
  cpar,      \* does the child's CLI still name the parent?
  pendOwn,   \* children with pendingDelinkOwnParent set
  mail,      \* parent_delinked events on their way to a child
  rehyd,     \* children an isChildOfParent call is about to re-add
  first,     \* history: conversation in which a child first registered
  severed,   \* history: children delinked with no link being written then
  free,      \* history: children whose delink_own_parent succeeded in full
  drops, faults

sets == <<members, marker, retrySet>>
parent == <<pconn, conv, pend, timer>>
child == <<cconn, cpar, pendOwn, mail>>
history == <<first, severed, free>>
vars == <<sets, hash, prec, dl, reg, own, joined, parent, child, rehyd, history,
          drops, faults>>

NoDelink == [pc |-> "idle", epoch |-> 0, live |-> FALSE, kids |-> {},
             todo |-> {}, wait |-> {}, got |-> {}, failed |-> FALSE]
NoReg == [pc |-> "idle", prev |-> FALSE, link |-> "none", started |-> 0]
NoOwn == [pc |-> "idle", live |-> FALSE]

Delink == [pc : {"idle", "sent", "mark", "pend", "remove", "notify"},
           epoch : Nat, live : BOOLEAN, kids : SUBSET Child,
           todo : SUBSET Child, wait : SUBSET Child, got : SUBSET Child,
           failed : BOOLEAN]
Registration == [pc : {"idle", "read", "resolve", "write", "add", "join", "reply"},
                 prev : BOOLEAN, link : {"none", "link", "offline", "severed"},
                 started : Nat]
Own == [pc : {"idle", "sent", "clear", "remove", "scrub", "wipe", "ok",
              "partial", "nack", "lost"},
        live : BOOLEAN]
Hash == [parent : BOOLEAN, linked : BOOLEAN, started : Nat]

LinksTypeOK ==
  /\ members \subseteq Child /\ marker \subseteq Child /\ retrySet \subseteq Child
  /\ hash \in [Child -> Hash \cup {None}] /\ prec \in BOOLEAN
  /\ dl \in [Slot -> Delink]
  /\ reg \in [Child -> Registration] /\ own \in [Child -> Own]
  /\ joined \subseteq Child
  /\ pconn \in {"down", "reg", "up"} /\ conv \in Nat
  /\ pend \in Nat \cup {None} /\ timer \in BOOLEAN
  /\ cconn \in [Child -> {"down", "reg", "up", "ended"}]
  /\ cpar \in [Child -> BOOLEAN] /\ pendOwn \subseteq Child
  /\ mail \subseteq Slot \X Child /\ rehyd \subseteq Child
  /\ first \in [Child -> Nat \cup {None}]
  /\ severed \subseteq Child /\ free \subseteq Child
  /\ drops \in Nat /\ faults \in Nat

\* The parent is registered: only then can it spawn children.
Init ==
  /\ members = {} /\ marker = {} /\ retrySet = {}
  /\ hash = [c \in Child |-> None] /\ prec = TRUE
  /\ dl = [i \in Slot |-> NoDelink]
  /\ reg = [c \in Child |-> NoReg] /\ own = [c \in Child |-> NoOwn]
  /\ joined = {}
  /\ pconn = "up" /\ conv = 0 /\ pend = None /\ timer = FALSE
  /\ cconn = [c \in Child |-> "down"] /\ cpar = [c \in Child |-> TRUE]
  /\ pendOwn = {} /\ mail = {} /\ rehyd = {}
  /\ first = [c \in Child |-> None] /\ severed = {} /\ free = {}
  /\ drops = 0 /\ faults = 0

-----------------------------------------------------------------------------
(* What a handler reads.                                                   *)

Linked(c) == hash[c] # None /\ (hash[c].parent \/ hash[c].linked)

\* isChildOfParent: the set, or (the set having expired) the child's hash.
IsChild(c) == c \in members \/ (c \notin marker /\ Linked(c))

\* A registration that has found no marker and has yet to act on that.
Linking(c) == \/ reg[c].pc = "write" /\ reg[c].link \in {"link", "offline"}
              \/ reg[c].pc = "add"

Drop == drops < MaxDrops /\ drops' = drops + 1
Fault == faults < MaxFaults /\ faults' = faults + 1

-----------------------------------------------------------------------------
(* The parent's CLI.                                                       *)

\* emitDelinkChildren: the request enters the relay.
Send(i, e) ==
  /\ dl[i].pc = "idle"
  /\ dl' = [dl EXCEPT ![i] = [NoDelink EXCEPT !.pc = "sent", !.epoch = e,
                                              !.live = TRUE]]

\* connect and register; the relay writes the parent's hash.
ParentConnect ==
  /\ pconn = "down"
  /\ pconn' = "reg" /\ prec' = TRUE
  /\ UNCHANGED <<sets, hash, dl, reg, own, joined, conv, pend, timer, child,
                 rehyd, history, drops, faults>>

\* registered: flushDeferredDelinks sends a /new that is still unconfirmed.
ParentRegistered ==
  /\ pconn = "reg" /\ pconn' = "up"
  /\ IF pend = None THEN UNCHANGED dl ELSE \E i \in Slot : Send(i, pend)
  /\ UNCHANGED <<sets, hash, prec, reg, own, joined, conv, pend, timer, child,
                 rehyd, history, drops, faults>>

\* The connection is lost, and with it requests and acks under way.
ParentDrop ==
  /\ pconn # "down" /\ Drop
  /\ pconn' = "down" /\ timer' = FALSE
  /\ \E lost \in SUBSET {i \in Slot : dl[i].pc = "sent"} :
       dl' = [i \in Slot |-> IF i \in lost THEN NoDelink
                             ELSE [dl[i] EXCEPT !.live = FALSE]]
  /\ UNCHANGED <<sets, hash, prec, reg, own, joined, conv, pend, child, rehyd,
                 history, faults>>

\* The relay processes the disconnect: the parent's hash is deleted.
ParentTeardown ==
  /\ pconn = "down" /\ prec
  /\ prec' = FALSE
  /\ UNCHANGED <<sets, hash, dl, reg, own, joined, parent, child, rehyd, history,
                 drops, faults>>

\* performSessionTransitionCleanup.
ParentNew ==
  /\ conv < MaxNew /\ conv' = conv + 1
  /\ pend' = conv' /\ timer' = FALSE
  /\ IF pconn = "up" THEN \E i \in Slot : Send(i, conv') ELSE UNCHANGED dl
  /\ UNCHANGED <<sets, hash, prec, reg, own, joined, pconn, child, rehyd, history,
                 drops, faults>>

\* Mutant: a nack is dropped with no retry.
ParentAck_NoRetry(i) ==
  /\ dl[i].pc = "notify" /\ dl[i].live
  /\ dl[i].failed \/ dl[i].todo \cup dl[i].wait \cup dl[i].got = {}
  /\ dl' = [dl EXCEPT ![i].live = FALSE]
  /\ pend' = IF dl[i].epoch = pend /\ ~dl[i].failed THEN None ELSE pend
  /\ UNCHANGED <<sets, hash, prec, reg, own, joined, pconn, conv, timer, child,
                 rehyd, history, drops, faults>>

\* evaluateDelinkChildrenAck: an ack of an older epoch is ignored, a nack arms
\* the retry timer, an ok ends the /new.
ParentAck(i) ==
  /\ dl[i].pc = "notify" /\ dl[i].live
  /\ dl[i].failed \/ dl[i].todo \cup dl[i].wait \cup dl[i].got = {}
  /\ dl' = [dl EXCEPT ![i].live = FALSE]
  /\ IF dl[i].epoch # pend
       THEN UNCHANGED <<pend, timer>>
       ELSE /\ pend' = IF dl[i].failed THEN pend ELSE None
            /\ timer' = dl[i].failed
  /\ UNCHANGED <<sets, hash, prec, reg, own, joined, pconn, conv, child, rehyd,
                 history, drops, faults>>

\* The retry timer fires.
ParentRetry ==
  /\ timer /\ timer' = FALSE
  /\ IF pend # None /\ pconn = "up" THEN \E i \in Slot : Send(i, pend)
                                   ELSE UNCHANGED dl
  /\ UNCHANGED <<sets, hash, prec, reg, own, joined, pconn, conv, pend, child,
                 rehyd, history, drops, faults>>

-----------------------------------------------------------------------------
(* delink_children in the relay.                                           *)

\* Snapshot, filtered by the epoch: children known to have started later are
\* spared, unless they carry a marker already.
DelinkSnapshot(i) ==
  /\ dl[i].pc = "sent"
  /\ LET stale(c) == \/ hash[c] = None
                     \/ hash[c].started < dl[i].epoch
                     \/ c \in marker
     IN dl' = [dl EXCEPT ![i].pc = "mark",
                         ![i].kids = {c \in members \cup retrySet : stale(c)}]
  /\ UNCHANGED <<sets, hash, prec, reg, own, joined, parent, child, rehyd, history,
                 drops, faults>>

\* The markers come first.
DelinkMark(i) ==
  /\ dl[i].pc = "mark"
  /\ marker' = marker \cup dl[i].kids
  /\ severed' = severed \cup {c \in dl[i].kids : ~Linking(c) /\ c \notin rehyd}
  /\ dl' = [dl EXCEPT ![i].pc = "pend"]
  /\ UNCHANGED <<members, retrySet, hash, prec, reg, own, joined, parent, child,
                 rehyd, first, free, drops, faults>>

DelinkPend(i) ==
  /\ dl[i].pc = "pend"
  /\ retrySet' = retrySet \cup dl[i].kids
  /\ dl' = [dl EXCEPT ![i].pc = "remove"]
  /\ UNCHANGED <<members, marker, hash, prec, reg, own, joined, parent, child,
                 rehyd, history, drops, faults>>

DelinkRemove(i) ==
  /\ dl[i].pc = "remove"
  /\ members' = members \ dl[i].kids
  /\ dl' = [dl EXCEPT ![i].pc = "notify", ![i].todo = dl[i].kids]
  /\ UNCHANGED <<marker, retrySet, hash, prec, reg, own, joined, parent, child,
                 rehyd, history, drops, faults>>

\* parent_delinked to a child in its room; a child that is not there is left to
\* its marker.
DelinkEmit(i, c) ==
  /\ c \in dl[i].todo
  /\ IF c \in joined
       THEN /\ mail' = mail \cup {<<i, c>>} /\ UNCHANGED retrySet
            /\ dl' = [dl EXCEPT ![i].todo = @ \ {c}, ![i].wait = @ \cup {c}]
       ELSE /\ retrySet' = retrySet \ {c} /\ UNCHANGED mail
            /\ dl' = [dl EXCEPT ![i].todo = @ \ {c}]
  /\ UNCHANGED <<members, marker, hash, prec, reg, own, joined, parent, cconn, cpar,
                 pendOwn, rehyd, history, drops, faults>>

\* The child's ack arrives.
DelinkConfirm(i, c) ==
  /\ c \in dl[i].got
  /\ retrySet' = retrySet \ {c}
  /\ dl' = [dl EXCEPT ![i].got = @ \ {c}]
  /\ UNCHANGED <<members, marker, hash, prec, reg, own, joined, parent, child,
                 rehyd, history, drops, faults>>

\* No ack within a second: the request will be nacked, the child stays in the
\* retry set.  A socket that went away cannot ack at all.
DelinkTimeout(i, c) ==
  /\ c \in dl[i].wait \cup dl[i].got
  /\ IF <<i, c>> \in mail \/ c \in dl[i].got THEN Fault ELSE UNCHANGED faults
  /\ dl' = [dl EXCEPT ![i].wait = @ \ {c}, ![i].got = @ \ {c}, ![i].failed = TRUE]
  /\ UNCHANGED <<sets, hash, prec, reg, own, joined, parent, child, rehyd, history,
                 drops>>

\* A Redis call of the handler fails (of the markers some may be written): the
\* request is nacked and those children are not delinked yet.
DelinkThrow(i) ==
  /\ dl[i].pc \in {"sent", "mark", "pend", "remove"} /\ Fault
  /\ \E some \in SUBSET IF dl[i].pc = "mark" THEN dl[i].kids ELSE {} :
       marker' = marker \cup some
  /\ severed' = severed \ (dl[i].kids \cap members)
  /\ dl' = [dl EXCEPT ![i].pc = "notify", ![i].failed = TRUE]
  /\ UNCHANGED <<members, retrySet, hash, prec, reg, own, joined, parent, child,
                 rehyd, first, free, drops>>

\* Everybody notified and the parent answered, or gone.
DelinkEnd(i) ==
  /\ dl[i].pc = "notify" /\ ~dl[i].live
  /\ dl[i].todo \cup dl[i].wait \cup dl[i].got = {}
  /\ ~\E c \in Child : <<i, c>> \in mail
  /\ dl' = [dl EXCEPT ![i] = NoDelink]
  /\ UNCHANGED <<sets, hash, prec, reg, own, joined, parent, child, rehyd, history,
                 drops, faults>>

-----------------------------------------------------------------------------
(* A child's registration.                                                 *)

\* connect (or reconnect): register goes out.
ChildConnect(c) ==
  /\ cconn[c] = "down" /\ reg[c].pc = "idle"
  /\ cconn' = [cconn EXCEPT ![c] = "reg"]
  /\ reg' = [reg EXCEPT ![c] = [NoReg EXCEPT !.pc = "read"]]
  /\ UNCHANGED <<sets, hash, prec, dl, own, joined, parent, cpar, pendOwn, mail,
                 rehyd, history, drops, faults>>

\* Read and evict the old record.  The parent is the one the CLI named or else
\* the one on record; startedAt survives only if there is a record.
RegRead(c) ==
  /\ reg[c].pc = "read"
  /\ LET was == hash[c] # None /\ hash[c].parent
     IN reg' = [reg EXCEPT ![c] =
          [pc |-> "resolve", prev |-> was,
           link |-> IF cpar[c] \/ was THEN "link" ELSE "none",
           started |-> IF hash[c] = None THEN conv ELSE hash[c].started]]
  /\ first' = [first EXCEPT ![c] = IF @ = None THEN conv ELSE @]
  /\ hash' = [hash EXCEPT ![c] = None]
  /\ UNCHANGED <<sets, prec, dl, own, joined, parent, child, rehyd, severed, free,
                 drops, faults>>

\* Mutant: the marker is looked for only when the parent is offline.
RegResolve_NoMarker(c) ==
  /\ reg[c].pc = "resolve"
  /\ reg' = [reg EXCEPT ![c].pc = "write",
                ![c].link = CASE @ = "none" -> "none"
                              [] @ # "none" /\ prec -> "link"
                              [] @ # "none" /\ ~prec /\ c \in marker -> "severed"
                              [] OTHER -> "offline"]
  /\ UNCHANGED <<sets, hash, prec, dl, own, joined, parent, child, rehyd, history,
                 drops, faults>>

\* Does the parent exist, was this child delinked?
RegResolve(c) ==
  /\ reg[c].pc = "resolve"
  /\ reg' = [reg EXCEPT ![c].pc = "write",
                ![c].link = CASE @ = "none" -> "none"
                              [] @ # "none" /\ c \in marker -> "severed"
                              [] @ # "none" /\ c \notin marker /\ prec -> "link"
                              [] OTHER -> "offline"]
  /\ UNCHANGED <<sets, hash, prec, dl, own, joined, parent, child, rehyd, history,
                 drops, faults>>

\* severStaleParentLink or addChildSessionMembership, then setSession.
RegWrite(c) ==
  /\ reg[c].pc = "write"
  /\ members' = CASE reg[c].link = "severed" -> members \ {c}
                  [] reg[c].link = "offline" -> members \cup {c}
                  [] OTHER -> members
  /\ hash' = [hash EXCEPT ![c] = [parent |-> reg[c].link = "link",
                                  linked |-> reg[c].link \in {"link", "offline"},
                                  started |-> reg[c].started]]
  /\ reg' = [reg EXCEPT ![c].pc = IF reg[c].link = "link" THEN "add" ELSE "join"]
  /\ UNCHANGED <<marker, retrySet, prec, dl, own, joined, parent, child, rehyd,
                 history, drops, faults>>

\* addChildSession: a new link supersedes any delink, marker and retry entry.
RegAdd(c) ==
  /\ reg[c].pc = "add"
  /\ members' = members \cup {c}
  /\ marker' = marker \ {c}
  /\ retrySet' = IF c \in marker \/ reg[c].prev THEN retrySet \ {c} ELSE retrySet
  /\ reg' = [reg EXCEPT ![c].pc = "join"]
  /\ UNCHANGED <<hash, prec, dl, own, joined, parent, child, rehyd, history, drops,
                 faults>>

\* A socket that is gone by now joins nothing.
RegJoin(c) ==
  /\ reg[c].pc = "join"
  /\ joined' = IF cconn[c] = "reg" THEN joined \cup {c} ELSE joined
  /\ reg' = [reg EXCEPT ![c].pc = "reply"]
  /\ UNCHANGED <<sets, hash, prec, dl, own, parent, child, rehyd, history, drops,
                 faults>>

\* registered (decideRegisteredParentState), behind events already sent to the
\* socket; then a pending delink_own_parent is flushed.
RegReply(c) ==
  /\ reg[c].pc = "reply"
  /\ reg' = [reg EXCEPT ![c] = NoReg]
  /\ IF cconn[c] # "reg"
       THEN UNCHANGED <<cconn, cpar, own>>
       ELSE /\ ~\E i \in Slot : <<i, c>> \in mail
            /\ cconn' = [cconn EXCEPT ![c] = "up"]
            /\ cpar' = [cpar EXCEPT ![c] =
                 CASE reg[c].link = "link" -> c \notin pendOwn
                   [] reg[c].link = "severed" -> FALSE
                   [] OTHER -> @]
            /\ IF c \in pendOwn
                 THEN own[c].pc = "idle"
                      /\ own' = [own EXCEPT ![c] = [pc |-> "sent", live |-> TRUE]]
                 ELSE UNCHANGED own
  /\ UNCHANGED <<sets, hash, prec, dl, joined, parent, pendOwn, mail, rehyd, history,
                 drops, faults>>

-----------------------------------------------------------------------------
(* A child's connection and its own /new.                                  *)

\* What is on its way between the relay and a socket that is gone is lost.
CutOff(c) ==
  /\ Drop
  /\ joined' = joined \ {c}
  /\ mail' = mail \ (Slot \X {c})
  /\ own' = [own EXCEPT ![c] = IF @.pc \in {"sent", "ok", "partial", "nack", "lost"}
                               THEN NoOwn
                               ELSE [@ EXCEPT !.live = FALSE]]

ChildDrop(c) ==
  /\ cconn[c] \in {"reg", "up"}
  /\ cconn' = [cconn EXCEPT ![c] = "down"]
  /\ CutOff(c)
  /\ UNCHANGED <<sets, hash, prec, dl, reg, parent, cpar, pendOwn, rehyd, history,
                 faults>>

\* The worker is restarted in place: its environment names the parent again.
ChildRestart(c) ==
  /\ cconn[c] \in {"reg", "up"}
  /\ cconn' = [cconn EXCEPT ![c] = "down"]
  /\ cpar' = [cpar EXCEPT ![c] = TRUE]
  /\ pendOwn' = pendOwn \ {c} /\ free' = free \ {c}
  /\ CutOff(c)
  /\ UNCHANGED <<sets, hash, prec, dl, reg, parent, rehyd, first, severed, faults>>

\* The relay processes the disconnect: the hash goes, the membership stays.
ChildTeardown(c) ==
  /\ cconn[c] = "down" /\ reg[c].pc = "idle" /\ hash[c] # None
  /\ hash' = [hash EXCEPT ![c] = None]
  /\ UNCHANGED <<sets, prec, dl, reg, own, joined, parent, child, rehyd, history,
                 drops, faults>>

\* session_end: a confirmed terminal end also leaves the children set.
ChildEnd(c) ==
  /\ cconn[c] = "up"
  /\ cconn' = [cconn EXCEPT ![c] = "ended"]
  /\ members' = IF Linked(c) THEN members \ {c} ELSE members
  /\ hash' = [hash EXCEPT ![c] = None]
  /\ CutOff(c)
  /\ UNCHANGED <<marker, retrySet, prec, dl, reg, parent, cpar, pendOwn, rehyd,
                 history, faults>>

\* parent_delinked arrives and is acked, whatever parent it names.
ChildDelinked(i, c) ==
  /\ <<i, c>> \in mail
  /\ mail' = mail \ {<<i, c>>}
  /\ cpar' = [cpar EXCEPT ![c] = FALSE]
  /\ dl' = IF c \in dl[i].wait
             THEN [dl EXCEPT ![i].wait = @ \ {c}, ![i].got = @ \cup {c}]
             ELSE dl
  /\ UNCHANGED <<sets, hash, prec, reg, own, joined, parent, cconn, pendOwn, rehyd,
                 history, drops, faults>>

\* performSessionTransitionCleanup in a child.
ChildNew(c) ==
  /\ cpar[c] /\ cconn[c] # "ended" /\ own[c].pc = "idle"
  /\ cpar' = [cpar EXCEPT ![c] = FALSE]
  /\ pendOwn' = pendOwn \cup {c}
  /\ own' = IF cconn[c] = "up" THEN [own EXCEPT ![c] = [pc |-> "sent", live |-> TRUE]]
                               ELSE own
  /\ UNCHANGED <<sets, hash, prec, dl, reg, joined, parent, cconn, mail, rehyd,
                 history, drops, faults>>

OwnGoto(c, p) == own' = [own EXCEPT ![c].pc = p]

\* Mutant: a request parked in a phase nothing handles.
OwnRead_Parked(c) ==
  /\ own[c].pc = "sent"
  /\ OwnGoto(c, IF hash[c] # None /\ hash[c].parent THEN "clear" ELSE "later")
  /\ UNCHANGED <<sets, hash, prec, dl, reg, joined, parent, child, rehyd, history,
                 drops, faults>>

\* delink_own_parent: the parent is on record, or only the CLI remembers it.
OwnRead(c) ==
  /\ own[c].pc = "sent"
  /\ OwnGoto(c, IF hash[c] # None /\ hash[c].parent THEN "clear" ELSE "scrub")
  /\ UNCHANGED <<sets, hash, prec, dl, reg, joined, parent, child, rehyd, history,
                 drops, faults>>

\* Mutant: without a parent on record there is nothing to scrub.
OwnRemove_Known(c) ==
  /\ own[c].pc \in {"remove", "scrub"}
  /\ members' = IF own[c].pc = "remove" THEN members \ {c} ELSE members
  /\ OwnGoto(c, IF own[c].pc = "remove" THEN "ok" ELSE "wipe")
  /\ UNCHANGED <<marker, retrySet, hash, prec, dl, reg, joined, parent, child, rehyd,
                 history, drops, faults>>

\* removeChildSession: after the fields were cleared, or before.
OwnRemove(c) ==
  /\ own[c].pc \in {"remove", "scrub"}
  /\ members' = members \ {c}
  /\ OwnGoto(c, IF own[c].pc = "remove" THEN "ok" ELSE "wipe")
  /\ UNCHANGED <<marker, retrySet, hash, prec, dl, reg, joined, parent, child, rehyd,
                 history, drops, faults>>

\* clearParentSessionId.
OwnClear(c) ==
  /\ own[c].pc \in {"clear", "wipe"}
  /\ hash' = [hash EXCEPT ![c] =
       IF @ = None THEN None ELSE [@ EXCEPT !.parent = FALSE, !.linked = FALSE]]
  /\ OwnGoto(c, IF own[c].pc = "clear" THEN "remove" ELSE "ok")
  /\ UNCHANGED <<sets, prec, dl, reg, joined, parent, child, rehyd, history, drops,
                 faults>>

\* A Redis call of the request fails: nack.  But the first read is outside any
\* try, so that no answer comes at all, and the client has no timeout; and a
\* failure to clear the fields of a child without a parent on record is only
\* logged: it may keep a linkedParentId.
OwnThrow(c) ==
  /\ own[c].pc \in {"sent", "clear", "remove", "scrub", "wipe"} /\ Fault
  /\ OwnGoto(c, CASE own[c].pc = "sent" -> "lost"
                  [] own[c].pc = "wipe" -> "partial"
                  [] OTHER -> "nack")
  /\ UNCHANGED <<sets, hash, prec, dl, reg, joined, parent, child, rehyd, history,
                 drops>>

\* Mutant: a nack is dropped with no retry.
OwnAck_NoRetry(c) ==
  /\ own[c].pc \in {"ok", "partial", "nack"}
  /\ pendOwn' = IF own[c].live /\ own[c].pc # "nack" THEN pendOwn \ {c} ELSE pendOwn
  /\ free' = IF own[c].live /\ own[c].pc = "ok" THEN free \cup {c} ELSE free
  /\ own' = [own EXCEPT ![c] = NoOwn]
  /\ UNCHANGED <<sets, hash, prec, dl, reg, joined, parent, cconn, cpar, mail, rehyd,
                 first, severed, drops, faults>>

\* The answer reaches the CLI (unless its socket is gone): done, or retry.
OwnAck(c) ==
  /\ own[c].pc \in {"ok", "partial", "nack"}
  /\ pendOwn' = IF own[c].live /\ own[c].pc # "nack" THEN pendOwn \ {c} ELSE pendOwn
  /\ free' = IF own[c].live /\ own[c].pc = "ok" THEN free \cup {c} ELSE free
  /\ own' = [own EXCEPT ![c] = IF @.live /\ @.pc = "nack"
                                 THEN [@ EXCEPT !.pc = "sent"] ELSE NoOwn]
  /\ UNCHANGED <<sets, hash, prec, dl, reg, joined, parent, cconn, cpar, mail, rehyd,
                 first, severed, drops, faults>>

-----------------------------------------------------------------------------
(* Other code that touches the children set.                               *)

\* cleanup_child_session of a child that lives on.
Cleanup(c) ==
  /\ Traffic /\ pconn = "up" /\ hash[c] # None
  /\ hash[c].parent \/ IsChild(c)
  /\ members' = members \ {c}
  /\ UNCHANGED <<marker, retrySet, hash, prec, dl, reg, own, joined, parent, child,
                 rehyd, history, drops, faults>>

\* The children set reaches its TTL.
SetExpires ==
  /\ Traffic /\ members # {}
  /\ members' = {}
  /\ UNCHANGED <<marker, retrySet, hash, prec, dl, reg, own, joined, parent, child,
                 rehyd, history, drops, faults>>

\* A message makes isChildOfParent fall back to the hash ...
Recheck(c) ==
  /\ Traffic /\ c \notin members /\ IsChild(c)
  /\ rehyd' = rehyd \cup {c}
  /\ UNCHANGED <<sets, hash, prec, dl, reg, own, joined, parent, child, history,
                 drops, faults>>

\* ... and put the child back into the set.
Rehydrate(c) ==
  /\ c \in rehyd
  /\ members' = members \cup {c} /\ rehyd' = rehyd \ {c}
  /\ UNCHANGED <<marker, retrySet, hash, prec, dl, reg, own, joined, parent, child,
                 history, drops, faults>>

-----------------------------------------------------------------------------
ParentStep == ParentConnect \/ ParentRegistered \/ ParentRetry

DelinkStep(i) == \/ ParentAck(i) \/ DelinkSnapshot(i) \/ DelinkMark(i)
                 \/ DelinkPend(i) \/ DelinkRemove(i) \/ DelinkEnd(i)
                 \/ \E c \in Child : \/ DelinkEmit(i, c) \/ DelinkConfirm(i, c)
                                     \/ DelinkTimeout(i, c)
                                     \/ ChildDelinked(i, c)

RegStep(c) == \/ RegRead(c) \/ RegResolve(c) \/ RegWrite(c) \/ RegAdd(c)
              \/ RegJoin(c) \/ RegReply(c)

OwnStep(c) == OwnRead(c) \/ OwnRemove(c) \/ OwnClear(c) \/ OwnAck(c)

ChildStep(c) == \/ ChildConnect(c) \/ RegStep(c) \/ OwnStep(c) \/ OwnThrow(c)
                \/ ChildDrop(c) \/ ChildRestart(c) \/ ChildTeardown(c)
                \/ ChildEnd(c) \/ ChildNew(c)
                \/ Cleanup(c) \/ Recheck(c) \/ Rehydrate(c)

Next == \/ ParentStep \/ ParentDrop \/ ParentTeardown \/ ParentNew
        \/ \E i \in Slot : DelinkStep(i) \/ DelinkThrow(i)
        \/ \E c \in Child : ChildStep(c)
        \/ SetExpires

Spec == Init /\ [][Next]_vars

\* Handlers run on, timers fire, the CLI reconnects, sockets deliver.
Fairness ==
  /\ WF_vars(ParentStep)
  /\ \A i \in Slot : WF_vars(DelinkStep(i))
  /\ \A c \in Child : /\ WF_vars(ChildConnect(c)) /\ WF_vars(RegStep(c))
                       /\ WF_vars(OwnStep(c)) /\ WF_vars(Rehydrate(c))

FairSpec == Spec /\ Fairness
-----------------------------------------------------------------------------
(* Properties.                                                             *)

\* A child that was delinked stays delinked, through reconnects of either side,
\* a relay that lost the hash, retries and self-healing checks: it keeps its
\* marker and is in the children set only while the delink is at work.  The
\* history set leaves out children for which a registration, or a re-hydration,
\* had passed its check before the marker was written (see NoRelink).
SeveredStays ==
  \A c \in severed :
    /\ c \in marker
    /\ c \in members => \E i \in Slot : /\ dl[i].pc \in {"pend", "remove"}
                                        /\ c \in dl[i].kids

\* A child whose own /new was confirmed is nobody's child, in the relay and in
\* its CLI, as long as its worker lives.
FreeStays == \A c \in free : ~IsChild(c) /\ ~cpar[c]

\* Every /new of the parent is confirmed in the end, whatever connections and
\* acks were lost: the stale-child guard of the CLI does not latch.
DelinkSettles == pend # None ~> pend = None

\* Likewise a child's own /new, whatever writes failed, and acks and connections
\* were lost; only a request whose first read failed stays unanswered, and then
\* until the connection it was sent on breaks.
OwnDelinkSettles ==
  \A c \in Child :
    c \in pendOwn ~> c \notin pendOwn \/ cconn[c] = "ended" \/ own[c].pc = "lost"

\* delink-management.ts: delink_own_parent is sent "with automatic retry if the
\* emit fails or the relay is temporarily unreachable", so a /new of a child is
\* confirmed in the end.
OwnDelinkAnswered ==
  \A c \in Child : c \in pendOwn ~> c \notin pendOwn \/ cconn[c] = "ended"

\* child-lifecycle.ts on writing markers first: a child that reconnects during
\* a delink "will already find the marker" and is not re-linked.
NoRelink == [][\A c \in Child : c \in marker => c \notin members' \ members]_vars

\* sessions.ts: "Preserve the original startedAt on reconnect so that
\* epoch-based delink filtering works correctly": the filter spares no child of
\* the set that had registered before the /new it serves.
EpochFilters ==
  [][\A i \in Slot : dl[i].pc = "sent" /\ dl'[i].pc = "mark" =>
       \A c \in members : first[c] # None /\ first[c] < dl[i].epoch
                            => c \in dl'[i].kids]_vars
-----------------------------------------------------------------------------
(* Why SeveredStays holds: nothing that could re-add a severed child is on *)
(* its way, and everything that starts later finds the marker.             *)

Undisturbed == \A c \in severed : ~Linking(c) /\ c \notin rehyd

LinksInv == SeveredStays /\ Undisturbed
=============================================================================
