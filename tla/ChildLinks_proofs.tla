------------------------- MODULE ChildLinks_proofs -------------------------
(***************************************************************************)
(* Proofs about ChildLinks, for every set of children, every number of     *)
(* concurrent delink handlers and every bound: type correctness, that a    *)
(* delinked child stays delinked, and that a child whose own /new was      *)
(* confirmed stays free.                                                   *)
(***************************************************************************)
EXTENDS ChildLinks, TLAPS

\* A request that enters the relay is a well-typed handler state.
LEMMA SendType ==
  ASSUME LinksTypeOK, NEW i \in Slot, NEW e \in Nat, Send(i, e)
  PROVE  dl' \in [Slot -> Delink]
<1>1. [NoDelink EXCEPT !.pc = "sent", !.epoch = e, !.live = TRUE] \in Delink
  BY DEF NoDelink, Delink
<1>2. QED BY <1>1 DEF LinksTypeOK, Send

\* What the handlers' states and the sets they read are made of.
LEMMA DelinkFun ==
  LinksTypeOK => dl \in [Slot -> Delink] /\ members \cup retrySet \subseteq Child
BY DEF LinksTypeOK

\* A lost connection keeps what it cuts off well typed.
LEMMA CutOffType ==
  ASSUME LinksTypeOK, NEW c \in Child, CutOff(c)
  PROVE  /\ joined' \subseteq Child /\ mail' \subseteq Slot \X Child
         /\ own' \in [Child -> Own] /\ drops' \in Nat
<1>1. own \in [Child -> Own]
  BY DEF LinksTypeOK
<1>2. NoOwn \in Own /\ [own[c] EXCEPT !.live = FALSE] \in Own
  BY <1>1 DEF NoOwn, Own
<1>3. own' \in [Child -> Own]
  BY <1>1, <1>2 DEF CutOff
<1>4. QED BY <1>3 DEF LinksTypeOK, CutOff, Drop

\* Every step keeps LinksTypeOK.
LEMMA LinksTypeStep == LinksTypeOK /\ [Next]_vars => LinksTypeOK'
<1>. USE DEF sets, parent, child, history, Drop, Fault
<1> SUFFICES ASSUME LinksTypeOK, [Next]_vars PROVE LinksTypeOK'
  OBVIOUS
<1>1. CASE ParentStep
  <2>1. CASE ParentConnect
    BY <2>1 DEF LinksTypeOK, ParentConnect
  <2>2. CASE ParentRegistered
    <3>1. dl' \in [Slot -> Delink]
      BY <2>2, SendType DEF LinksTypeOK, ParentRegistered
    <3>2. QED BY <2>2, <3>1 DEF LinksTypeOK, ParentRegistered
  <2>3. CASE ParentRetry
    <3>1. dl' \in [Slot -> Delink]
      BY <2>3, SendType DEF LinksTypeOK, ParentRetry
    <3>2. QED BY <2>3, <3>1 DEF LinksTypeOK, ParentRetry
  <2>4. QED
    BY <1>1, <2>1, <2>2, <2>3 DEF ParentStep
<1>2. CASE ParentDrop
  <2>1. NoDelink \in Delink
    BY DEF NoDelink, Delink
  <2>2. \A i \in Slot : [dl[i] EXCEPT !.live = FALSE] \in Delink
    BY DelinkFun DEF Delink
  <2>3. PICK lost \in SUBSET {i \in Slot : dl[i].pc = "sent"} :
          dl' = [i \in Slot |-> IF i \in lost THEN NoDelink
                                ELSE [dl[i] EXCEPT !.live = FALSE]]
    BY <1>2 DEF ParentDrop
  <2>4. dl' \in [Slot -> Delink]
    BY <2>1, <2>2, <2>3
  <2>5. /\ pconn' = "down" /\ timer' = FALSE /\ drops' = drops + 1
        /\ UNCHANGED <<sets, hash, prec, reg, own, joined, conv, pend, child, rehyd,
                       history, faults>>
    BY <1>2 DEF ParentDrop
  <2>6. drops' \in Nat
    <3>1. drops \in Nat
      BY DEF LinksTypeOK
    <3>2. QED BY <2>5, <3>1
  <2>7. timer' \in BOOLEAN /\ pconn' \in {"down", "reg", "up"}
    BY <2>5
  <2>8. QED BY <2>4, <2>5, <2>6, <2>7 DEF LinksTypeOK
<1>3. CASE ParentTeardown
  BY <1>3 DEF LinksTypeOK, ParentTeardown
<1>4. CASE ParentNew
  <2>1. dl' \in [Slot -> Delink]
    BY <1>4, SendType DEF LinksTypeOK, ParentNew
  <2>2. /\ conv' = conv + 1 /\ pend' = conv' /\ timer' = FALSE
        /\ UNCHANGED <<sets, hash, prec, reg, own, joined, pconn, child, rehyd,
                       history, drops, faults>>
    BY <1>4 DEF ParentNew
  <2>3. conv' \in Nat /\ pend' \in Nat
    <3>1. conv \in Nat
      BY DEF LinksTypeOK
    <3>2. QED BY <2>2, <3>1
  <2>4. timer' \in BOOLEAN
    BY <2>2
  <2>5. QED BY <2>1, <2>2, <2>3, <2>4 DEF LinksTypeOK
<1>5. ASSUME NEW i \in Slot, DelinkStep(i) \/ DelinkThrow(i) PROVE LinksTypeOK'
  <2>1. CASE ParentAck(i)
    <3>1. dl' \in [Slot -> Delink]
      BY ZenonT(40), <2>1, DelinkFun DEF ParentAck, Delink
    <3>2. dl[i].failed \in BOOLEAN
      BY DelinkFun DEF Delink
    <3>3. pend' \in {pend, None} /\ timer' \in BOOLEAN
      BY <2>1, <3>2 DEF ParentAck, LinksTypeOK
    <3>4. UNCHANGED <<sets, hash, prec, reg, own, joined, pconn, conv, child, rehyd,
                      history, drops, faults>>
      BY <2>1 DEF ParentAck
    <3>5. QED BY <3>1, <3>3, <3>4 DEF LinksTypeOK
  <2>2. CASE DelinkSnapshot(i)
    <3>1. dl' \in [Slot -> Delink]
      <4>1. PICK S \in SUBSET Child :
              dl' = [dl EXCEPT ![i].pc = "mark", ![i].kids = S]
        BY <2>2, DelinkFun DEF DelinkSnapshot
      <4>2. QED BY ZenonT(40), <4>1, DelinkFun DEF Delink
    <3>2. QED BY <2>2, <3>1 DEF LinksTypeOK, DelinkSnapshot
  <2>3. CASE DelinkMark(i)
    BY SMTT(30), <2>3 DEF LinksTypeOK, DelinkMark, Delink
  <2>4. CASE DelinkPend(i)
    BY SMTT(30), <2>4 DEF LinksTypeOK, DelinkPend, Delink
  <2>5. CASE DelinkRemove(i)
    <3>1. dl' \in [Slot -> Delink]
      BY ZenonT(40), <2>5, DelinkFun DEF DelinkRemove, Delink
    <3>2. QED BY <2>5, <3>1 DEF LinksTypeOK, DelinkRemove
  <2>6. CASE DelinkEnd(i)
    BY <2>6 DEF LinksTypeOK, DelinkEnd, Delink, NoDelink
  <2>7. ASSUME NEW c \in Child, DelinkEmit(i, c) PROVE LinksTypeOK'
    BY <2>7 DEF LinksTypeOK, DelinkEmit, Delink
  <2>8. ASSUME NEW c \in Child, DelinkConfirm(i, c) PROVE LinksTypeOK'
    BY SMTT(30), <2>8 DEF LinksTypeOK, DelinkConfirm, Delink
  <2>9. ASSUME NEW c \in Child, DelinkTimeout(i, c) PROVE LinksTypeOK'
    <3>1. dl' \in [Slot -> Delink]
      <4>1. [dl[i] EXCEPT !.wait = @ \ {c}, !.got = @ \ {c}, !.failed = TRUE]
              \in Delink
        BY DelinkFun DEF Delink
      <4>2. dl' = [dl EXCEPT ![i] = [dl[i] EXCEPT !.wait = @ \ {c}, !.got = @ \ {c},
                                                 !.failed = TRUE]]
        BY <2>9, DelinkFun DEF DelinkTimeout, Delink
      <4>3. QED BY <4>1, <4>2, DelinkFun
    <3>2. QED BY <2>9, <3>1 DEF LinksTypeOK, DelinkTimeout
  <2>10. ASSUME NEW c \in Child, ChildDelinked(i, c) PROVE LinksTypeOK'
    <3>1. dl' \in [Slot -> Delink]
      <4>1. [dl[i] EXCEPT !.wait = @ \ {c}, !.got = @ \cup {c}] \in Delink
        BY DelinkFun DEF Delink
      <4>2. \/ UNCHANGED dl
            \/ dl' = [dl EXCEPT ![i] = [dl[i] EXCEPT !.wait = @ \ {c},
                                                    !.got = @ \cup {c}]]
        BY <2>10, DelinkFun DEF ChildDelinked, Delink
      <4>3. QED BY <4>1, <4>2, DelinkFun
    <3>2. QED BY <2>10, <3>1 DEF LinksTypeOK, ChildDelinked
  <2>11. CASE DelinkThrow(i)
    <3>1. dl' \in [Slot -> Delink]
      <4>1. [dl[i] EXCEPT !.pc = "notify", !.failed = TRUE] \in Delink
        BY DelinkFun DEF Delink
      <4>2. dl' = [dl EXCEPT ![i] = [dl[i] EXCEPT !.pc = "notify", !.failed = TRUE]]
        BY <2>11, DelinkFun DEF DelinkThrow, Delink
      <4>3. QED BY <4>1, <4>2, DelinkFun
    <3>2. dl[i].kids \subseteq Child
      BY DelinkFun DEF Delink
    <3>3. marker' \subseteq Child
      BY <2>11, <3>2 DEF LinksTypeOK, DelinkThrow
    <3>4. /\ severed' \subseteq severed /\ faults' = faults + 1
          /\ UNCHANGED <<members, retrySet, hash, prec, reg, own, joined, parent,
                         child, rehyd, first, free, drops>>
      BY <2>11 DEF DelinkThrow
    <3>5. QED BY <3>1, <3>3, <3>4 DEF LinksTypeOK
  <2>12. QED
    BY <1>5, <2>1, <2>2, <2>3, <2>4, <2>5, <2>6, <2>7, <2>8, <2>9, <2>10,
      <2>11 DEF DelinkStep
<1>6. ASSUME NEW c \in Child, ChildStep(c) PROVE LinksTypeOK'
  <2>1. CASE ChildConnect(c)
    BY <2>1 DEF LinksTypeOK, ChildConnect, Registration, NoReg
  <2>2. CASE RegRead(c)
    BY <2>2 DEF LinksTypeOK, RegRead, Registration, Hash
  <2>3. CASE RegResolve(c)
    <3>1. \E l \in {"none", "severed", "link", "offline"} :
            reg' = [reg EXCEPT ![c].pc = "write", ![c].link = l]
      BY <2>3 DEF RegResolve, LinksTypeOK, Registration
    <3>2. reg' \in [Child -> Registration]
      <4>1. PICK l \in {"none", "severed", "link", "offline"} :
              reg' = [reg EXCEPT ![c].pc = "write", ![c].link = l]
        BY <3>1
      <4>2. [reg[c] EXCEPT !.pc = "write", !.link = l] \in Registration
        BY ZenonT(40) DEF LinksTypeOK, Registration
      <4>3. reg' = [reg EXCEPT ![c] = [reg[c] EXCEPT !.pc = "write", !.link = l]]
        BY <4>1 DEF LinksTypeOK, Registration
      <4>4. QED BY <4>2, <4>3 DEF LinksTypeOK
    <3>3. QED BY <2>3, <3>2 DEF LinksTypeOK, RegResolve
  <2>4. CASE RegWrite(c)
    BY <2>4 DEF LinksTypeOK, RegWrite, Registration, Hash
  <2>5. CASE RegAdd(c)
    BY <2>5 DEF LinksTypeOK, RegAdd, Registration
  <2>6. CASE RegJoin(c)
    BY <2>6 DEF LinksTypeOK, RegJoin, Registration
  <2>7. CASE RegReply(c)
    <3>1. reg' \in [Child -> Registration]
      BY <2>7 DEF LinksTypeOK, RegReply, NoReg, Registration
    <3>2. cpar' \in [Child -> BOOLEAN] /\ own' \in [Child -> Own]
      <4>1. own' \in [Child -> Own]
        <5>1. [pc |-> "sent", live |-> TRUE] \in Own
          BY DEF Own
        <5>2. \/ UNCHANGED own
              \/ own' = [own EXCEPT ![c] = [pc |-> "sent", live |-> TRUE]]
          BY <2>7 DEF RegReply
        <5>3. QED BY <5>1, <5>2 DEF LinksTypeOK
      <4>2. /\ (c \notin pendOwn) \in BOOLEAN /\ cpar[c] \in BOOLEAN
        BY DEF LinksTypeOK
      <4>3. \/ UNCHANGED cpar
            \/ \E b \in {c \notin pendOwn, FALSE, cpar[c]} :
                 cpar' = [cpar EXCEPT ![c] = b]
        BY <2>7 DEF RegReply
      <4>4. QED BY <4>1, <4>2, <4>3 DEF LinksTypeOK
    <3>3. cconn' \in [Child -> {"down", "reg", "up", "ended"}]
      BY <2>7 DEF LinksTypeOK, RegReply
    <3>4. UNCHANGED <<sets, hash, prec, dl, joined, parent, pendOwn, mail, rehyd,
                      history, drops, faults>>
      BY <2>7 DEF RegReply
    <3>5. QED BY <3>1, <3>2, <3>3, <3>4 DEF LinksTypeOK
  <2>8. CASE OwnRead(c)
    BY <2>8 DEF LinksTypeOK, OwnRead, OwnGoto, Own
  <2>9. CASE OwnRemove(c)
    BY <2>9 DEF LinksTypeOK, OwnRemove, OwnGoto, Own
  <2>10. CASE OwnClear(c)
    BY ZenonT(40), <2>10 DEF LinksTypeOK, OwnClear, OwnGoto, Own, Hash
  <2>11. CASE OwnAck(c)
    BY <2>11 DEF LinksTypeOK, OwnAck, Own, NoOwn
  <2>12. CASE OwnThrow(c)
    BY <2>12 DEF LinksTypeOK, OwnThrow, OwnGoto, Own
  <2>13. CASE ChildDrop(c)
    <3>1. /\ joined' \subseteq Child /\ mail' \subseteq Slot \X Child
          /\ own' \in [Child -> Own] /\ drops' \in Nat
      BY <2>13, CutOffType DEF ChildDrop
    <3>2. QED BY <2>13, <3>1 DEF LinksTypeOK, ChildDrop
  <2>14. CASE ChildRestart(c)
    <3>1. /\ joined' \subseteq Child /\ mail' \subseteq Slot \X Child
          /\ own' \in [Child -> Own] /\ drops' \in Nat
      BY <2>14, CutOffType DEF ChildRestart
    <3>2. QED BY <2>14, <3>1 DEF LinksTypeOK, ChildRestart
  <2>15. CASE ChildTeardown(c)
    BY <2>15 DEF LinksTypeOK, ChildTeardown
  <2>16. CASE ChildEnd(c)
    <3>1. /\ joined' \subseteq Child /\ mail' \subseteq Slot \X Child
          /\ own' \in [Child -> Own] /\ drops' \in Nat
      BY <2>16, CutOffType DEF ChildEnd
    <3>2. QED BY <2>16, <3>1 DEF LinksTypeOK, ChildEnd
  <2>17. CASE ChildNew(c)
    BY <2>17 DEF LinksTypeOK, ChildNew, Own
  <2>18. CASE Cleanup(c)
    BY <2>18 DEF LinksTypeOK, Cleanup
  <2>19. CASE Recheck(c)
    BY <2>19 DEF LinksTypeOK, Recheck, IsChild, Linked
  <2>20. CASE Rehydrate(c)
    BY <2>20 DEF LinksTypeOK, Rehydrate
  <2>21. QED
    BY <1>6, <2>1, <2>2, <2>3, <2>4, <2>5, <2>6, <2>7, <2>8, <2>9, <2>10,
      <2>11, <2>12, <2>13, <2>14, <2>15, <2>16, <2>17, <2>18, <2>19, <2>20 DEF
      ChildStep, RegStep, OwnStep
<1>7. CASE SetExpires
  BY <1>7 DEF LinksTypeOK, SetExpires
<1>8. CASE UNCHANGED vars
  BY <1>8 DEF LinksTypeOK, vars
<1>9. QED
  BY <1>1, <1>2, <1>3, <1>4, <1>5, <1>6, <1>7, <1>8 DEF Next

\* Every variable keeps to the values the code can store.
THEOREM LinksTypeCorrect == Spec => []LinksTypeOK
<1>1. Init => LinksTypeOK
  <2>1. NoDelink \in Delink /\ NoReg \in Registration /\ NoOwn \in Own
    BY DEF NoDelink, Delink, NoReg, Registration, NoOwn, Own
  <2>2. ASSUME Init
        PROVE  /\ dl \in [Slot -> Delink] /\ reg \in [Child -> Registration]
               /\ own \in [Child -> Own] /\ mail \subseteq Slot \X Child
    BY <2>1, <2>2 DEF Init
  <2>3. ASSUME Init
        PROVE  /\ hash \in [Child -> Hash \cup {None}]
               /\ first \in [Child -> Nat \cup {None}]
               /\ cconn \in [Child -> {"down", "reg", "up", "ended"}]
               /\ cpar \in [Child -> BOOLEAN] /\ pend \in Nat \cup {None}
    BY <2>3 DEF Init
  <2>4. ASSUME Init PROVE conv \in Nat /\ drops \in Nat /\ faults \in Nat
    BY <2>4 DEF Init
  <2>5. ASSUME Init
        PROVE  /\ prec \in BOOLEAN /\ timer \in BOOLEAN
               /\ pconn \in {"down", "reg", "up"}
               /\ {members, marker, retrySet, joined, pendOwn, rehyd, severed, free}
                    \subseteq SUBSET Child
    BY <2>5 DEF Init
  <2>6. QED BY <2>2, <2>3, <2>4, <2>5 DEF LinksTypeOK
<1>2. QED BY <1>1, LinksTypeStep, PTL DEF Spec

\* Every step keeps LinksInv: what re-adds a child to the set has looked for
\* its marker, and a delink marks a child as severed only when nobody is
\* about to re-add it.
LEMMA LinksStep == LinksTypeOK /\ LinksInv /\ [Next]_vars => LinksInv'
<1>. USE DEF sets, parent, child, history
<1> SUFFICES ASSUME LinksTypeOK, LinksInv, [Next]_vars PROVE LinksInv'
  OBVIOUS
<1>. USE DEF LinksTypeOK
<1>1. CASE ParentStep
  <2>1. CASE ParentConnect
    BY <2>1 DEF LinksInv, SeveredStays, Undisturbed, Linking, ParentConnect
  <2>2. CASE ParentRegistered
    BY <2>2 DEF LinksInv, SeveredStays, Undisturbed, Linking, ParentRegistered, Send
  <2>3. CASE ParentRetry
    BY <2>3 DEF LinksInv, SeveredStays, Undisturbed, Linking, ParentRetry, Send
  <2>4. QED
    BY <1>1, <2>1, <2>2, <2>3 DEF ParentStep
<1>2. CASE ParentDrop
  BY <1>2 DEF LinksInv, SeveredStays, Undisturbed, Linking, ParentDrop
<1>3. CASE ParentTeardown
  BY <1>3 DEF LinksInv, SeveredStays, Undisturbed, Linking, ParentTeardown
<1>4. CASE ParentNew
  BY <1>4 DEF LinksInv, SeveredStays, Undisturbed, Linking, ParentNew, Send
<1>5. ASSUME NEW i \in Slot, DelinkStep(i) \/ DelinkThrow(i) PROVE LinksInv'
  <2>1. CASE ParentAck(i)
    BY <2>1 DEF LinksInv, SeveredStays, Undisturbed, Linking, ParentAck
  <2>2. CASE DelinkSnapshot(i)
    BY <2>2 DEF LinksInv, SeveredStays, Undisturbed, Linking, DelinkSnapshot
  <2>3. CASE DelinkMark(i)
    BY <2>3 DEF LinksInv, SeveredStays, Undisturbed, Linking, DelinkMark
  <2>4. CASE DelinkPend(i)
    BY <2>4 DEF LinksInv, SeveredStays, Undisturbed, Linking, DelinkPend
  <2>5. CASE DelinkRemove(i)
    BY <2>5 DEF LinksInv, SeveredStays, Undisturbed, Linking, DelinkRemove
  <2>6. CASE DelinkEnd(i)
    BY <2>6 DEF LinksInv, SeveredStays, Undisturbed, Linking, DelinkEnd
  <2>7. ASSUME NEW c \in Child, DelinkEmit(i, c) PROVE LinksInv'
    BY <2>7 DEF LinksInv, SeveredStays, Undisturbed, Linking, DelinkEmit, Delink
  <2>8. ASSUME NEW c \in Child, DelinkConfirm(i, c) PROVE LinksInv'
    BY <2>8 DEF LinksInv, SeveredStays, Undisturbed, Linking, DelinkConfirm
  <2>9. ASSUME NEW c \in Child, DelinkTimeout(i, c) PROVE LinksInv'
    BY <2>9 DEF LinksInv, SeveredStays, Undisturbed, Linking, DelinkTimeout
  <2>10. ASSUME NEW c \in Child, ChildDelinked(i, c) PROVE LinksInv'
    BY <2>10 DEF LinksInv, SeveredStays, Undisturbed, Linking, ChildDelinked
  <2>11. CASE DelinkThrow(i)
    BY <2>11 DEF LinksInv, SeveredStays, Undisturbed, Linking, DelinkThrow
  <2>12. QED
    BY <1>5, <2>1, <2>2, <2>3, <2>4, <2>5, <2>6, <2>7, <2>8, <2>9, <2>10,
      <2>11 DEF DelinkStep
<1>6. ASSUME NEW c \in Child, ChildStep(c) PROVE LinksInv'
  <2>1. CASE ChildConnect(c)
    BY <2>1 DEF LinksInv, SeveredStays, Undisturbed, Linking, ChildConnect
  <2>2. CASE RegRead(c)
    BY <2>2 DEF LinksInv, SeveredStays, Undisturbed, Linking, RegRead
  <2>3. CASE RegResolve(c)
    BY <2>3 DEF LinksInv, SeveredStays, Undisturbed, Linking, RegResolve
  <2>4. CASE RegWrite(c)
    BY <2>4 DEF LinksInv, SeveredStays, Undisturbed, Linking, RegWrite
  <2>5. CASE RegAdd(c)
    BY <2>5 DEF LinksInv, SeveredStays, Undisturbed, Linking, RegAdd
  <2>6. CASE RegJoin(c)
    BY <2>6 DEF LinksInv, SeveredStays, Undisturbed, Linking, RegJoin
  <2>7. CASE RegReply(c)
    BY <2>7 DEF LinksInv, SeveredStays, Undisturbed, Linking, RegReply, NoReg
  <2>8. CASE OwnRead(c)
    BY <2>8 DEF LinksInv, SeveredStays, Undisturbed, Linking, OwnRead, OwnGoto
  <2>9. CASE OwnRemove(c)
    BY <2>9 DEF LinksInv, SeveredStays, Undisturbed, Linking, OwnRemove, OwnGoto
  <2>10. CASE OwnClear(c)
    BY <2>10 DEF LinksInv, SeveredStays, Undisturbed, Linking, OwnClear, OwnGoto
  <2>11. CASE OwnAck(c)
    BY <2>11 DEF LinksInv, SeveredStays, Undisturbed, Linking, OwnAck
  <2>12. CASE OwnThrow(c)
    BY <2>12 DEF LinksInv, SeveredStays, Undisturbed, Linking, OwnThrow, OwnGoto
  <2>13. CASE ChildDrop(c)
    BY <2>13 DEF LinksInv, SeveredStays, Undisturbed, Linking, ChildDrop, CutOff
  <2>14. CASE ChildRestart(c)
    BY <2>14 DEF LinksInv, SeveredStays, Undisturbed, Linking, ChildRestart, CutOff
  <2>15. CASE ChildTeardown(c)
    BY <2>15 DEF LinksInv, SeveredStays, Undisturbed, Linking, ChildTeardown
  <2>16. CASE ChildEnd(c)
    BY <2>16 DEF LinksInv, SeveredStays, Undisturbed, Linking, ChildEnd, CutOff
  <2>17. CASE ChildNew(c)
    BY <2>17 DEF LinksInv, SeveredStays, Undisturbed, Linking, ChildNew
  <2>18. CASE Cleanup(c)
    BY <2>18 DEF LinksInv, SeveredStays, Undisturbed, Linking, Cleanup
  <2>19. CASE Recheck(c)
    BY <2>19 DEF LinksInv, SeveredStays, Undisturbed, Linking, Recheck, IsChild, Linked
  <2>20. CASE Rehydrate(c)
    BY <2>20 DEF LinksInv, SeveredStays, Undisturbed, Linking, Rehydrate
  <2>21. QED
    BY <1>6, <2>1, <2>2, <2>3, <2>4, <2>5, <2>6, <2>7, <2>8, <2>9, <2>10,
      <2>11, <2>12, <2>13, <2>14, <2>15, <2>16, <2>17, <2>18, <2>19, <2>20 DEF
      ChildStep, RegStep, OwnStep
<1>7. CASE SetExpires
  BY <1>7 DEF LinksInv, SeveredStays, Undisturbed, Linking, SetExpires
<1>8. CASE UNCHANGED vars
  BY <1>8 DEF LinksInv, SeveredStays, Undisturbed, Linking, vars
<1>9. QED
  BY <1>1, <1>2, <1>3, <1>4, <1>5, <1>6, <1>7, <1>8 DEF Next

\* A delinked child stays delinked, and nothing on its way could change that.
THEOREM LinksInvariant == Spec => []LinksInv
<1>1. Init => LinksInv
  BY DEF Init, LinksInv, SeveredStays, Undisturbed
<1>2. QED BY <1>1, LinksStep, LinksTypeCorrect, PTL DEF Spec

\* The property itself.
THEOREM DelinkIsForGood == Spec => []SeveredStays
<1>1. LinksInv => SeveredStays
  BY DEF LinksInv
<1>2. QED BY <1>1, LinksInvariant, PTL

-----------------------------------------------------------------------------
(* A child's own /new, once confirmed, is for good.                         *)

\* A request whose answer the child still waits for runs on the connection it
\* came on; no registration of the child is under way.
OwnConnected ==
  \A c \in Child : /\ own[c].live => cconn[c] = "up" /\ c \in pendOwn
                   /\ cconn[c] = "up" => reg[c].pc = "idle"

\* What such a request has done already.
OwnProgress ==
  \A c \in Child : own[c].live =>
    /\ own[c].pc \in {"remove", "ok"} => ~Linked(c)
    /\ own[c].pc \in {"wipe", "ok"} => c \notin members

\* A child without a parent registers without one.
FreeRegisters ==
  \A c \in free : /\ c \notin members /\ ~Linked(c)
                  /\ reg[c].link = "none" /\ reg[c].pc # "add"

CliForgets == \A c \in pendOwn \cup free : ~cpar[c]

FreeInv ==
  /\ rehyd = {} /\ \A c \in Child : reg[c].pc = "idle" => reg[c].link = "none"
  /\ OwnConnected /\ OwnProgress /\ FreeRegisters /\ CliForgets

\* Every step keeps a child that freed itself free, without Traffic.
LEMMA FreeStep ==
  ASSUME ~Traffic, LinksTypeOK, FreeInv, [Next]_vars PROVE FreeInv'
<1>. USE DEF sets, parent, child, history
<1>1. /\ own \in [Child -> Own] /\ reg \in [Child -> Registration]
      /\ hash \in [Child -> Hash \cup {None}] /\ cpar \in [Child -> BOOLEAN]
      /\ cconn \in [Child -> {"down", "reg", "up", "ended"}]
      /\ free \subseteq Child /\ pendOwn \subseteq Child /\ members \subseteq Child
  BY DEF LinksTypeOK
<1>k. ASSUME UNCHANGED <<hash, reg, own, free, cconn, pendOwn, rehyd>>, members' \subseteq members,
             \A c \in Child : cpar'[c] = cpar[c] \/ ~cpar'[c]
      PROVE  FreeInv'
  BY <1>1, <1>k DEF FreeInv, OwnConnected, OwnProgress, FreeRegisters, CliForgets, Linked
<1>2. CASE ParentStep \/ ParentDrop \/ ParentTeardown \/ ParentNew \/ SetExpires
  BY <1>k, <1>2 DEF ParentStep, ParentConnect, ParentRegistered, ParentRetry, ParentDrop,
         ParentTeardown, ParentNew, SetExpires
<1>3. ASSUME NEW i \in Slot, DelinkStep(i) \/ DelinkThrow(i) PROVE FreeInv'
  <2>1. CASE \/ ParentAck(i) \/ DelinkSnapshot(i) \/ DelinkMark(i) \/ DelinkPend(i)
             \/ DelinkRemove(i) \/ DelinkEnd(i) \/ DelinkThrow(i)
    BY <1>k, <2>1 DEF ParentAck, DelinkSnapshot, DelinkMark, DelinkPend, DelinkRemove,
           DelinkEnd, DelinkThrow
  <2>2. ASSUME NEW c \in Child,
               DelinkEmit(i, c) \/ DelinkConfirm(i, c) \/ DelinkTimeout(i, c)
        PROVE  FreeInv'
    BY <1>k, <2>2 DEF DelinkEmit, DelinkConfirm, DelinkTimeout
  <2>3. ASSUME NEW c \in Child, ChildDelinked(i, c) PROVE FreeInv'
    BY <1>1, <1>k, <2>3 DEF ChildDelinked
  <2>4. QED BY <1>3, <2>1, <2>2, <2>3 DEF DelinkStep
<1>4. ASSUME NEW c \in Child, ChildStep(c) PROVE FreeInv'
  <2>1. CASE ChildConnect(c)
    BY <1>1, <2>1 DEF ChildConnect, FreeInv, OwnConnected, OwnProgress, FreeRegisters,
        CliForgets, Linked, Own, NoOwn, Registration, NoReg, Hash
  <2>2. CASE RegRead(c)
    BY <1>1, <2>2 DEF RegRead, FreeInv, OwnConnected, OwnProgress, FreeRegisters,
        CliForgets, Linked, Own, NoOwn, Registration, NoReg, Hash
  <2>3. CASE RegResolve(c)
    BY <1>1, <2>3 DEF RegResolve, FreeInv, OwnConnected, OwnProgress, FreeRegisters,
        CliForgets, Linked, Own, NoOwn, Registration, NoReg, Hash
  <2>4. CASE RegWrite(c)
    BY <1>1, <2>4 DEF RegWrite, FreeInv, OwnConnected, OwnProgress, FreeRegisters,
        CliForgets, Linked, Own, NoOwn, Registration, NoReg, Hash
  <2>5. CASE RegAdd(c)
    BY <1>1, <2>5 DEF RegAdd, FreeInv, OwnConnected, OwnProgress, FreeRegisters,
        CliForgets, Linked, Own, NoOwn, Registration, NoReg, Hash
  <2>6. CASE RegJoin(c)
    BY <1>1, <2>6 DEF RegJoin, FreeInv, OwnConnected, OwnProgress, FreeRegisters,
        CliForgets, Linked, Own, NoOwn, Registration, NoReg, Hash
  <2>7. CASE RegReply(c)
    <3>1. /\ reg' = [reg EXCEPT ![c] = NoReg] /\ reg[c].pc # "idle"
          /\ UNCHANGED <<hash, free, members, pendOwn, rehyd>>
      BY <2>7 DEF RegReply
    <3>2. NoReg.pc = "idle" /\ NoReg.link = "none"
      BY DEF NoReg
    <3>3. CASE cconn[c] # "reg"
      <4>1. UNCHANGED <<cconn, cpar, own>>
        BY <2>7, <3>3 DEF RegReply
      <4>2. QED BY <1>1, <3>1, <3>2, <4>1 DEF FreeInv, OwnConnected, OwnProgress, FreeRegisters,
          CliForgets, Linked
    <3>4. CASE cconn[c] = "reg"
      <4>1. cconn' = [cconn EXCEPT ![c] = "up"]
        BY <2>7, <3>4 DEF RegReply
      <4>2. \/ c \notin pendOwn /\ UNCHANGED own
            \/ c \in pendOwn /\ own' = [own EXCEPT ![c] = [pc |-> "sent", live |-> TRUE]]
        BY <2>7, <3>4 DEF RegReply
      <4>3. cpar' = [cpar EXCEPT ![c] =
              CASE reg[c].link = "link" -> c \notin pendOwn
                [] reg[c].link = "severed" -> FALSE
                [] OTHER -> @]
        BY <2>7, <3>4 DEF RegReply
      <4>4. c \in pendOwn \cup free => ~cpar'[c]
        BY <1>1, <4>3 DEF FreeInv, FreeRegisters, CliForgets
      <4>5. \A d \in Child : d # c => cpar'[d] = cpar[d]
        BY <1>1, <4>3
      <4>6. CliForgets'
        BY <1>1, <3>1, <4>4, <4>5 DEF FreeInv, CliForgets
      <4>7. OwnConnected' /\ OwnProgress'
        BY <1>1, <3>1, <3>2, <4>1, <4>2 DEF FreeInv, OwnConnected, OwnProgress, Linked
      <4>8. QED BY <1>1, <3>1, <3>2, <4>6, <4>7 DEF FreeInv, FreeRegisters, Linked
    <3>5. QED BY <3>3, <3>4
  <2>8. CASE OwnRead(c)
    BY <1>1, <2>8 DEF OwnRead, OwnGoto, FreeInv, OwnConnected, OwnProgress, FreeRegisters,
        CliForgets, Linked, Own, NoOwn, Registration, NoReg, Hash
  <2>9. CASE OwnRemove(c)
    BY <1>1, <2>9 DEF OwnRemove, OwnGoto, FreeInv, OwnConnected, OwnProgress, FreeRegisters,
        CliForgets, Linked, Own, NoOwn, Registration, NoReg, Hash
  <2>10. CASE OwnClear(c)
    BY <1>1, <2>10 DEF OwnClear, OwnGoto, FreeInv, OwnConnected, OwnProgress, FreeRegisters,
        CliForgets, Linked, Own, NoOwn, Registration, NoReg, Hash
  <2>11. CASE OwnAck(c)
    BY <1>1, <2>11 DEF OwnAck, FreeInv, OwnConnected, OwnProgress, FreeRegisters,
        CliForgets, Linked, Own, NoOwn, Registration, NoReg, Hash
  <2>12. CASE OwnThrow(c)
    BY <1>1, <2>12 DEF OwnThrow, OwnGoto, FreeInv, OwnConnected, OwnProgress, FreeRegisters,
        CliForgets, Linked, Own, NoOwn, Registration, NoReg, Hash
  <2>13. CASE ChildDrop(c)
    BY <1>1, <2>13 DEF ChildDrop, CutOff, FreeInv, OwnConnected, OwnProgress, FreeRegisters,
        CliForgets, Linked, Own, NoOwn, Registration, NoReg, Hash
  <2>14. CASE ChildRestart(c)
    BY <1>1, <2>14 DEF ChildRestart, CutOff, FreeInv, OwnConnected, OwnProgress, FreeRegisters,
        CliForgets, Linked, Own, NoOwn, Registration, NoReg, Hash
  <2>15. CASE ChildTeardown(c)
    BY <1>1, <2>15 DEF ChildTeardown, FreeInv, OwnConnected, OwnProgress, FreeRegisters,
        CliForgets, Linked, Own, NoOwn, Registration, NoReg, Hash
  <2>16. CASE ChildEnd(c)
    BY <1>1, <2>16 DEF ChildEnd, CutOff, FreeInv, OwnConnected, OwnProgress, FreeRegisters,
        CliForgets, Linked, Own, NoOwn, Registration, NoReg, Hash
  <2>17. CASE ChildNew(c)
    BY <1>1, <2>17 DEF ChildNew, FreeInv, OwnConnected, OwnProgress, FreeRegisters,
        CliForgets, Linked, Own, NoOwn, Registration, NoReg, Hash
  <2>18. CASE Cleanup(c)
    BY <1>1, <2>18 DEF Cleanup, FreeInv, OwnConnected, OwnProgress, FreeRegisters,
        CliForgets, Linked, Own, NoOwn, Registration, NoReg, Hash
  <2>19. CASE Recheck(c)
    BY <1>1, <2>19 DEF Recheck, FreeInv, OwnConnected, OwnProgress, FreeRegisters,
        CliForgets, Linked, Own, NoOwn, Registration, NoReg, Hash
  <2>20. CASE Rehydrate(c)
    BY <1>1, <2>20 DEF Rehydrate, FreeInv, OwnConnected, OwnProgress, FreeRegisters,
        CliForgets, Linked, Own, NoOwn, Registration, NoReg, Hash
  <2>21. QED
    BY <1>4, <2>1, <2>2, <2>3, <2>4, <2>5, <2>6, <2>7, <2>8, <2>9, <2>10, <2>11, <2>12, <2>13, <2>14, <2>15, <2>16, <2>17, <2>18, <2>19, <2>20
       DEF ChildStep, RegStep, OwnStep
<1>5. CASE UNCHANGED vars
  BY <1>k, <1>5 DEF vars
<1>6. QED BY <1>2, <1>3, <1>4, <1>5 DEF Next

\* A child whose own /new was confirmed is nobody's child, in the relay and in
\* its CLI, whatever connections break and whoever restarts the relay's record
\* of it, as long as no membership check of a message is under way (without
\* Traffic): one that has found the child linked re-adds it after the delink.
THEOREM OwnDelinkIsForGood ==
  ASSUME ~Traffic
  PROVE  Spec => []FreeStays
<1>1. Init => FreeInv
  BY DEF Init, FreeInv, OwnConnected, OwnProgress, FreeRegisters, CliForgets, NoReg, NoOwn
<1>2. FreeInv => FreeStays
  BY DEF FreeInv, FreeRegisters, CliForgets, FreeStays, IsChild
<1>3. QED BY <1>1, <1>2, FreeStep, LinksTypeCorrect, PTL DEF Spec
=============================================================================
