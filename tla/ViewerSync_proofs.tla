-------------------------- MODULE ViewerSync_proofs --------------------------
(***************************************************************************)
(* Proofs about ViewerSync, for every size of the cache, every number of   *)
(* retries and every bound: type correctness, with the order of the cache  *)
(* and that nothing claims a number the counter has not reached; and that  *)
(* no hole in a transcript is silent (the second part, from HoleInv on).   *)
(***************************************************************************)
EXTENDS ViewerSync, Extrema, SequenceTheorems, TLAPS

-----------------------------------------------------------------------------
(* The inductive invariant.                                                *)

\* Rows of the cache and frames, when the transcript has l messages and the
\* counter stands at s.  A finished message has a number; so has every event
\* that is sent but a snapshot, which stands for one.
Row(l, s) ==
  {r \in [seq : 0 .. s, kind : EventKinds \ {"meta"}, item : 0 .. l] :
     r.kind = "msg" => r.item # 0}
EventFrame(l, s) ==
  {f \in [kind : EventKinds, item : 0 .. l, seq : OrNone(0 .. s), at : OrNone(0 .. s),
          delta : BOOLEAN, gen : Int] :
     IF f.kind = "snap" THEN f.at # None
     ELSE f.seq # None /\ (f.kind = "msg" => f.item # 0)}
DownFrame(l, s) == [kind : {"connected"}, seq : 0 .. s, gen : Int] \cup EventFrame(l, s)
UpFrame ==
  [kind : {"connected"}] \cup [kind : {"switch", "resync"}, last : Int, gen : Int]

\* The copies of the numbering are made from the counter: the row that is still
\* to be cached has the counter's number and is newer than every row.
RelayOK ==
  /\ seq \in Nat
  /\ cache \in Seq(Row(leaf, seq))
  /\ pub.item \in 0 .. leaf /\ (pub.kind = "msg" => pub.item # 0)
  /\ pub.at \in {"cache", "emit"} => pub.seq = seq
  /\ pub.at = "cache" => pub.kind # "meta" /\ \A i \in DOMAIN cache : cache[i].seq < seq
  /\ act \in [at : {"idle", "seq", "cache"}, gen : Int, last : Int,
              fresh : 0 .. seq, state : OrNone(0 .. leaf)]

\* Frames; without a connection there are none, and the relay serves nobody.
WireOK ==
  /\ down \in Seq(DownFrame(leaf, seq)) /\ up \in Seq(UpFrame)
  /\ ~conn => down = <<>> /\ up = <<>> /\ act.at = "idle"
  /\ gen <= faults + 1 /\ faults \in 0 .. MaxFaults

ViewerInv == ViewerTypeOK /\ RelayOK /\ WireOK

-----------------------------------------------------------------------------
(* Lemmas about the operators.                                             *)

\* What was typed stays typed when the transcript and the counter grow.
LEMMA FramesGrow ==
  ASSUME NEW l \in Nat, NEW s \in Nat, NEW l2 \in Nat, NEW s2 \in Nat, l <= l2, s <= s2
  PROVE  /\ \A q \in Seq(Row(l, s)) : q \in Seq(Row(l2, s2))
         /\ \A q \in Seq(DownFrame(l, s)) : q \in Seq(DownFrame(l2, s2))
<1>1. 0 .. l \subseteq 0 .. l2 /\ 0 .. s \subseteq 0 .. s2
  OBVIOUS
<1>2. Row(l, s) \subseteq Row(l2, s2)
  BY <1>1 DEF Row
<1>3. EventFrame(l, s) \subseteq EventFrame(l2, s2)
  BY <1>1 DEF EventFrame, OrNone
<1>4. DownFrame(l, s) \subseteq DownFrame(l2, s2)
  BY <1>1, <1>3 DEF DownFrame
<1>5. QED BY <1>2, <1>4, SeqMonotonic

\* A function on 1 .. n is a sequence.
LEMMA IsSequence ==
  ASSUME NEW S, NEW n \in Nat, NEW f \in [1 .. n -> S]
  PROVE  f \in Seq(S)
BY SeqDef

\* A single frame is a sequence of frames.
LEMMA IsSingleton ==
  ASSUME NEW S, NEW e \in S
  PROVE  <<e>> \in Seq(S)
OBVIOUS

\* Rows that are replayed become frames.
LEMMA ReplayType ==
  ASSUME NEW l \in Nat, NEW s \in Nat, NEW rows \in Seq(Row(l, s)), NEW g \in Int
  PROVE  Replay(rows, g) \in Seq(DownFrame(l, s))
<1>1. Len(rows) \in Nat /\ DOMAIN rows = 1 .. Len(rows)
  BY LenProperties
<1>2. ASSUME NEW i \in 1 .. Len(rows)
      PROVE  Event(rows[i].kind, rows[i].item, rows[i].seq, TRUE, g) \in DownFrame(l, s)
  <2>1. rows[i] \in Row(l, s)
    BY <1>1, <1>2, ElementOfSeq
  <2>2. Event(rows[i].kind, rows[i].item, rows[i].seq, TRUE, g) \in EventFrame(l, s)
    BY <2>1 DEF Row, Event, Frame, EventFrame, OrNone, EventKinds, None
  <2>3. QED BY <2>2 DEF DownFrame
<1>3. Replay(rows, g) \in [1 .. Len(rows) -> DownFrame(l, s)]
  BY <1>1, <1>2 DEF Replay
<1>4. QED BY <1>1, <1>3, IsSequence

\* The rows behind a number are rows of the cache.
LEMMA AfterType ==
  ASSUME RelayOK, NEW last
  PROVE  After(last) \in Seq(Row(leaf, seq))
<1>. DEFINE old == {i \in DOMAIN cache : cache[i].seq <= last}
            m == Max({0} \cup old)
            rows == SubSeq(cache, m + 1, Len(cache))
<1>1. cache \in Seq(Row(leaf, seq)) /\ Len(cache) \in Nat /\ DOMAIN cache = 1 .. Len(cache)
  BY LenProperties DEF RelayOK
<1>2. m \in 0 .. Len(cache)
  <2>1. {0} \cup old \in SUBSET (0 .. Len(cache)) /\ {0} \cup old # {}
    BY <1>1
  <2>. HIDE DEF old
  <2>2. QED BY <1>1, <2>1, Greatest
<1>. HIDE DEF m
<1>3. \A i \in m + 1 .. Len(cache) : cache[i] \in Row(leaf, seq)
  BY <1>1, <1>2, ElementOfSeq
<1>4. rows \in Seq(Row(leaf, seq))
  BY <1>1, <1>2, <1>3, SubSeqProperties
<1>5. After(last) \in {rows, <<>>}
  BY DEF After, m
<1>6. QED BY <1>4, <1>5, EmptySeq

\* So are the newest snapshot and what follows it.
LEMMA FromCacheType ==
  ASSUME RelayOK, leaf \in Nat, SnapshotAt # {}, NEW g \in Int
  PROVE  FromCache(g) \in Seq(DownFrame(leaf, seq))
<1>1. cache \in Seq(Row(leaf, seq)) /\ Len(cache) \in Nat /\ DOMAIN cache = 1 .. Len(cache)
      /\ seq \in Nat
  BY LenProperties DEF RelayOK
<1>2. Latest \in 1 .. Len(cache) /\ cache[Latest].kind = "snap"
  <2>1. SnapshotAt \in SUBSET (0 .. Len(cache))
    BY <1>1 DEF SnapshotAt
  <2>2. Latest \in SnapshotAt
    BY <1>1, <2>1, Greatest DEF Latest
  <2>3. QED BY <1>1, <2>2 DEF SnapshotAt
<1>3. cache[Latest] \in Row(leaf, seq)
  BY <1>1, <1>2, ElementOfSeq
<1>4. \A i \in Latest + 1 .. Len(cache) : cache[i] \in Row(leaf, seq)
  BY <1>1, <1>2, ElementOfSeq
<1>5. Trailing \in Seq(Row(leaf, seq))
  BY <1>1, <1>2, <1>4, SubSeqProperties DEF Trailing
<1>6. Replay(Trailing, g) \in Seq(DownFrame(leaf, seq))
  BY <1>1, <1>5, ReplayType
<1>7. SnapshotEvent(cache[Latest].item, cache[Latest].seq, g) \in Seq(DownFrame(leaf, seq))
  <2>1. Frame("snap", cache[Latest].item, None, cache[Latest].seq, FALSE, g)
          \in EventFrame(leaf, seq)
    BY <1>1, <1>3 DEF Row, Frame, EventFrame, OrNone, EventKinds, None
  <2>2. Frame("snap", cache[Latest].item, None, cache[Latest].seq, FALSE, g)
          \in DownFrame(leaf, seq)
    BY <2>1 DEF DownFrame
  <2>3. QED BY <2>2, IsSingleton DEF SnapshotEvent
<1>8. QED BY <1>6, <1>7, ConcatProperties DEF FromCache

\* Whatever source hydration uses, it sends frames.
LEMMA BestType ==
  ASSUME RelayOK, leaf \in Nat
  PROVE  Best \subseteq Seq(DownFrame(leaf, seq))
<1>1. seq \in Nat /\ act.gen \in Int /\ act.fresh \in 0 .. seq
      /\ act.state \in OrNone(0 .. leaf)
  BY DEF RelayOK
<1>2. Replay(After(act.last), act.gen) \in Seq(DownFrame(leaf, seq))
  BY <1>1, AfterType, ReplayType
<1>3. SnapshotAt # {} => FromCache(act.gen) \in Seq(DownFrame(leaf, seq))
  BY <1>1, FromCacheType
<1>4. act.state # None
        => SnapshotEvent(act.state, act.fresh, act.gen) \in Seq(DownFrame(leaf, seq))
  <2>1. SUFFICES ASSUME act.state # None
                 PROVE  SnapshotEvent(act.state, act.fresh, act.gen)
                          \in Seq(DownFrame(leaf, seq))
    OBVIOUS
  <2>2. Frame("snap", act.state, None, act.fresh, FALSE, act.gen) \in EventFrame(leaf, seq)
    BY <1>1, <2>1 DEF Frame, EventFrame, OrNone, EventKinds, None
  <2>3. Frame("snap", act.state, None, act.fresh, FALSE, act.gen) \in DownFrame(leaf, seq)
    BY <2>2 DEF DownFrame
  <2>4. QED BY <2>3, IsSingleton DEF SnapshotEvent
<1>5. <<>> \in Seq(DownFrame(leaf, seq))
  BY EmptySeq
<1>6. Covers(act.last) => SnapshotAt # {}
  BY DEF Covers
<1>7. QED BY <1>2, <1>3, <1>4, <1>5, <1>6 DEF Best

\* What ViewerTypeOK says of the rows and frames.
LEMMA RowsAndFrames ==
  ASSUME NEW l \in Nat, NEW s \in Nat,
         NEW c \in Seq(Row(l, s)), NEW d \in Seq(DownFrame(l, s))
  PROVE  /\ \A i \in DOMAIN c :
              c[i] \in [seq : 0 .. s, kind : EventKinds \ {"meta"}, item : 0 .. l]
         /\ \A i \in DOMAIN d : d[i].seq \in OrNone(0 .. s)
<1>1. \A i \in DOMAIN c : c[i] \in Row(l, s)
  BY ElementOfSeq, LenProperties
<1>2. \A i \in DOMAIN d : d[i] \in DownFrame(l, s)
  BY ElementOfSeq, LenProperties
<1>3. \A f \in DownFrame(l, s) : f.seq \in OrNone(0 .. s)
  BY DEF DownFrame, EventFrame, OrNone
<1>4. QED BY <1>1, <1>2, <1>3 DEF Row

-----------------------------------------------------------------------------
(* The steps keep the invariant.                                           *)

\* The first state.
LEMMA ViewerInit == Init => ViewerInv
<1>. SUFFICES ASSUME Init PROVE ViewerInv
  OBVIOUS
<1>. USE ViewerAssumption DEF None
<1>1. leaf \in 0 .. MaxMsg /\ seq \in Nat /\ emitted \in OrNone(0 .. leaf)
      /\ lastState \in OrNone(0 .. leaf) /\ ticks \in Nat
  BY DEF Init, OrNone
<1>2. cache \in Seq(Row(leaf, seq)) /\ Len(cache) <= EVENT_BUFFER
      /\ \A i \in DOMAIN cache : \A j \in 1 .. i - 1 : cache[j].seq < cache[i].seq
  <2>1. CASE leaf = 0 /\ seq = 1 /\ cache = <<[seq |-> 1, kind |-> "snap", item |-> 0]>>
    <3>1. [seq |-> 1, kind |-> "snap", item |-> 0] \in Row(leaf, seq)
      BY <2>1 DEF Row, EventKinds
    <3>2. Len(cache) = 1 /\ DOMAIN cache = {1}
      BY <2>1
    <3>3. QED BY <2>1, <3>1, <3>2, IsSingleton
  <2>2. ASSUME seq = MaxTicks,
               NEW n \in {Min({MaxTicks, EVENT_BUFFER})},
               cache = [i \in 1 .. n |->
                          [seq |-> MaxTicks - n + i, kind |-> "tick", item |-> 0]]
        PROVE  cache \in Seq(Row(leaf, seq)) /\ Len(cache) <= EVENT_BUFFER
               /\ \A i \in DOMAIN cache : \A j \in 1 .. i - 1 : cache[j].seq < cache[i].seq
    <3>1. n \in Nat /\ n <= MaxTicks /\ n <= EVENT_BUFFER
      BY <2>2, MinOfTwo
    <3>2. ASSUME NEW i \in 1 .. n
          PROVE  [seq |-> MaxTicks - n + i, kind |-> "tick", item |-> 0] \in Row(leaf, seq)
      BY <1>1, <2>2, <3>1 DEF Row, EventKinds
    <3>3. cache \in [1 .. n -> Row(leaf, seq)]
      BY <2>2, <3>2
    <3>4. cache \in Seq(Row(leaf, seq))
      BY <3>1, <3>3, IsSequence
    <3>5. Len(cache) = n /\ DOMAIN cache = 1 .. n
      BY <3>1, <3>3, <3>4, LenProperties
    <3>6. \A i \in 1 .. n : cache[i].seq = MaxTicks - n + i
      BY <2>2
    <3>7. ASSUME NEW i \in 1 .. n, NEW j \in 1 .. i - 1
          PROVE  cache[j].seq < cache[i].seq
      <4>1. j \in 1 .. n /\ i \in Int /\ j \in Int /\ j < i
        BY <3>1
      <4>2. QED BY <3>1, <3>6, <4>1
    <3>8. QED BY <3>1, <3>4, <3>5, <3>7
  <2>3. QED BY <2>1, <2>2 DEF Init
<1>3. down = <<>> /\ down \in Seq(DownFrame(leaf, seq)) /\ up = <<>> /\ up \in Seq(UpFrame)
  BY EmptySeq DEF Init
<1>4. RelayOK
  BY <1>1, <1>2 DEF Init, RelayOK, NoPub, NoAct, OrNone
<1>5. WireOK
  BY <1>3 DEF Init, WireOK, NoAct
<1>6. ViewerTypeOK
  <2>1. pub \in [at : {"idle", "number", "cache", "emit"}, kind : EventKinds,
                 item : 0 .. MaxMsg, seq : OrNone(Seqs)]
    BY DEF Init, NoPub, EventKinds, OrNone
  <2>2. /\ flags \in [suppress : BOOLEAN, ready : BOOLEAN, pending : BOOLEAN]
        /\ joined \in BOOLEAN /\ conn \in BOOLEAN /\ (joined => conn)
    BY DEF Init, NoFlags
  <2>3. /\ gen \in 1 .. MaxFaults + 1 /\ cursor \in OrNone(Seqs) /\ asked \in Nat
        /\ passed \in Seqs /\ retries \in OrNone(0 .. HYDRATION_MAX_RETRIES)
    BY <1>1 DEF Init, OrNone, Seqs
  <2>4. awaiting \in BOOLEAN /\ hydrated \in BOOLEAN /\ shown \subseteq 1 .. leaf
    BY DEF Init
  <2>5. /\ \A i \in DOMAIN cache :
             cache[i] \in [seq : Seqs, kind : EventKinds \ {"meta"}, item : 0 .. leaf]
        /\ \A i \in DOMAIN down : down[i].seq \in OrNone(Seqs)
    <3>1. leaf \in Nat
      BY <1>1
    <3>2. QED BY <3>1, <1>1, <1>2, <1>3, RowsAndFrames DEF Seqs
  <2>6. \A i \in DOMAIN cache :
          /\ cache[i] \in [seq : Seqs, kind : EventKinds \ {"meta"}, item : 0 .. leaf]
          /\ \A j \in 1 .. i - 1 : cache[j].seq < cache[i].seq
    BY <1>2, <2>5
  <2>7. Len(cache) <= EVENT_BUFFER
    BY <1>2
  <2>8. QED BY <1>1, <2>1, <2>2, <2>3, <2>4, <2>5, <2>6, <2>7, Zenon DEF ViewerTypeOK
<1>7. QED BY <1>4, <1>5, <1>6 DEF ViewerInv

\* The transcript grows, or the counter: what was copied stays within it.
LEMMA MessageKeeps ==
  ASSUME ViewerInv, Message
  PROVE  ViewerInv'
<1>. USE ViewerAssumption
<1>1. leaf \in Nat /\ leaf' = leaf + 1 /\ leaf' \in 0 .. MaxMsg /\ seq \in Nat /\ seq' = seq
      /\ 0 .. leaf \subseteq 0 .. leaf' /\ 1 .. leaf \subseteq 1 .. leaf'
  BY DEF ViewerInv, ViewerTypeOK, RelayOK, Message, redis
<1>2. cache' = cache /\ down' = down /\ up' = up /\ act' = act /\ conn' = conn
      /\ lastState' = lastState /\ emitted' = emitted /\ asked' = asked
      /\ joined' = joined /\ flags' = flags
  BY DEF Message, redis, socket
<1>3. gen' = gen /\ cursor' = cursor /\ awaiting' = awaiting /\ hydrated' = hydrated
      /\ shown' = shown /\ retries' = retries /\ passed' = passed /\ faults' = faults
  BY DEF Message, ui, used
<1>4. cache' \in Seq(Row(leaf', seq')) /\ down' \in Seq(DownFrame(leaf', seq'))
  BY <1>1, <1>2, FramesGrow DEF ViewerInv, RelayOK, WireOK
<1>5. pub' = [at |-> "number", kind |-> "msg", item |-> leaf', seq |-> None]
  BY <1>1 DEF Message, Publish
<1>6. RelayOK'
  <2>1. act' \in [at : {"idle", "seq", "cache"}, gen : Int, last : Int,
                  fresh : 0 .. seq', state : OrNone(0 .. leaf')]
    BY <1>1, <1>2 DEF ViewerInv, RelayOK, OrNone
  <2>2. QED BY <1>1, <1>4, <1>5, <2>1 DEF RelayOK
<1>7. WireOK'
  BY <1>2, <1>3, <1>4 DEF ViewerInv, WireOK
<1>8. ViewerTypeOK'
  <2>1. pub' \in [at : {"idle", "number", "cache", "emit"}, kind : EventKinds,
                  item : 0 .. MaxMsg, seq : OrNone(Seqs')]
    BY <1>1, <1>5 DEF EventKinds, OrNone
  <2>2. emitted' \in OrNone(0 .. leaf') /\ lastState' \in OrNone(0 .. leaf')
        /\ shown' \subseteq 1 .. leaf'
    BY <1>1, <1>2, <1>3 DEF ViewerInv, ViewerTypeOK, OrNone
  <2>3. QED BY <1>1, <1>2, <1>3, <1>4, <2>1, <2>2, RowsAndFrames
            DEF ViewerInv, ViewerTypeOK, Seqs
<1>9. QED BY <1>6, <1>7, <1>8 DEF ViewerInv

\* An event is given the number after the last one.
LEMMA PublishNumberKeeps ==
  ASSUME ViewerInv, PublishNumber
  PROVE  ViewerInv'
<1>. USE ViewerAssumption
<1>1. seq \in Nat /\ seq' = seq + 1 /\ leaf \in Nat /\ leaf' = leaf
      /\ 0 .. seq \subseteq 0 .. seq'
  BY DEF ViewerInv, ViewerTypeOK, RelayOK, PublishNumber, runner
<1>2. cache' = cache /\ down' = down /\ up' = up /\ act' = act /\ conn' = conn
      /\ lastState' = lastState /\ emitted' = emitted /\ asked' = asked
      /\ joined' = joined /\ flags' = flags
  BY DEF PublishNumber, runner, socket
<1>3. gen' = gen /\ cursor' = cursor /\ awaiting' = awaiting /\ hydrated' = hydrated
      /\ shown' = shown /\ retries' = retries /\ passed' = passed /\ faults' = faults
  BY DEF PublishNumber, ui, used
<1>4. cache' \in Seq(Row(leaf', seq')) /\ down' \in Seq(DownFrame(leaf', seq'))
  BY SMTT(30), <1>1, <1>2, FramesGrow DEF ViewerInv, RelayOK, WireOK
<1>5. /\ pub'.at \in {"cache", "emit"} /\ (pub'.at = "cache" => pub.kind # "meta")
      /\ pub'.kind = pub.kind /\ pub'.item = pub.item /\ pub'.seq = seq'
      /\ pub' \in [at : {"idle", "number", "cache", "emit"}, kind : EventKinds,
                   item : 0 .. MaxMsg, seq : OrNone(Seqs')]
  <2>. DEFINE at == IF pub.kind = "meta" THEN "emit" ELSE "cache"
  <2>1. at \in {"cache", "emit"} /\ (at = "cache" => pub.kind # "meta")
    OBVIOUS
  <2>2. pub \in [at : {"idle", "number", "cache", "emit"}, kind : EventKinds,
                 item : 0 .. MaxMsg, seq : OrNone(Seqs)]
    BY DEF ViewerInv, ViewerTypeOK
  <2>3. pub' = [pub EXCEPT !.at = at, !.seq = seq']
    BY <1>1 DEF PublishNumber
  <2>4. seq' \in OrNone(Seqs')
    BY <1>1 DEF OrNone, Seqs
  <2>. HIDE DEF at
  <2>5. QED BY <2>1, <2>2, <2>3, <2>4
<1>6. RelayOK'
  <2>1. act' \in [at : {"idle", "seq", "cache"}, gen : Int, last : Int,
                  fresh : 0 .. seq', state : OrNone(0 .. leaf')]
    BY <1>1, <1>2 DEF ViewerInv, RelayOK
  <2>2. \A i \in DOMAIN cache' : cache'[i].seq < seq'
    BY <1>1, <1>2 DEF ViewerInv, ViewerTypeOK, Seqs
  <2>3. pub'.item \in 0 .. leaf' /\ (pub'.kind = "msg" => pub'.item # 0)
    BY <1>1, <1>5 DEF ViewerInv, RelayOK
  <2>4. QED BY <1>1, <1>4, <1>5, <2>1, <2>2, <2>3 DEF RelayOK
<1>7. WireOK'
  BY <1>2, <1>3, <1>4 DEF ViewerInv, WireOK
<1>8. ViewerTypeOK'
  <2>1. cursor' \in OrNone(Seqs') /\ passed' \in Seqs'
    BY <1>1, <1>3 DEF ViewerInv, ViewerTypeOK, OrNone, Seqs
  <2>2. QED BY <1>1, <1>2, <1>3, <1>4, <1>5, <2>1, RowsAndFrames
            DEF ViewerInv, ViewerTypeOK, Seqs
<1>9. QED BY <1>6, <1>7, <1>8 DEF ViewerInv

\* A snapshot or a heartbeat is handed to the publisher.
LEMMA RunnerKeeps ==
  ASSUME ViewerInv, HeartbeatSnapshot \/ RecoverySnapshot \/ Heartbeat
  PROVE  ViewerInv'
<1>. USE ViewerAssumption
<1>1. leaf' = leaf /\ seq' = seq /\ cache' = cache /\ down' = down /\ up' = up /\ act' = act
      /\ conn' = conn /\ joined' = joined /\ flags' = flags
  BY DEF HeartbeatSnapshot, RecoverySnapshot, Snapshot, Heartbeat, runner, redis, socket
<1>2. gen' = gen /\ cursor' = cursor /\ awaiting' = awaiting /\ hydrated' = hydrated
      /\ shown' = shown /\ retries' = retries /\ passed' = passed /\ faults' = faults
  BY DEF HeartbeatSnapshot, RecoverySnapshot, Snapshot, Heartbeat, ui, used
<1>3. leaf \in Nat /\ leaf \in 0 .. MaxMsg /\ seq \in Nat
  BY DEF ViewerInv, ViewerTypeOK, RelayOK
<1>4. /\ emitted' \in OrNone(0 .. leaf) /\ lastState' \in OrNone(0 .. leaf)
      /\ asked' \in Nat
  BY SMTT(30), <1>3 DEF ViewerInv, ViewerTypeOK, HeartbeatSnapshot, RecoverySnapshot, Snapshot,
              Heartbeat, runner, redis, OrNone
<1>5. \E kind \in EventKinds \ {"msg"}, item \in {0, leaf} :
        pub' = [at |-> "number", kind |-> kind, item |-> item, seq |-> None]
  BY DEF HeartbeatSnapshot, RecoverySnapshot, Snapshot, Heartbeat, Publish, EventKinds
<1>6. /\ pub' \in [at : {"idle", "number", "cache", "emit"}, kind : EventKinds,
                   item : 0 .. MaxMsg, seq : OrNone(Seqs)]
      /\ pub'.at = "number" /\ pub'.kind # "msg" /\ pub'.item \in 0 .. leaf
  BY <1>3, <1>5 DEF OrNone
<1>7. RelayOK'
  BY <1>1, <1>6 DEF ViewerInv, RelayOK
<1>8. WireOK'
  BY <1>1, <1>2 DEF ViewerInv, WireOK
<1>9. ViewerTypeOK'
  BY <1>1, <1>2, <1>4, <1>6 DEF ViewerInv, ViewerTypeOK, Seqs
<1>10. QED BY <1>7, <1>8, <1>9 DEF ViewerInv

\* The row that is cached is newer than all others; the oldest goes.
LEMMA PublishCacheKeeps ==
  ASSUME ViewerInv, PublishCache
  PROVE  ViewerInv'
<1>. USE ViewerAssumption
<1>. DEFINE row == [seq |-> pub.seq, kind |-> pub.kind, item |-> pub.item]
            all == Append(cache, row)
            first == Max({1, Len(all) - EVENT_BUFFER + 1})
<1>1. leaf' = leaf /\ seq' = seq /\ down' = down /\ up' = up /\ act' = act
      /\ conn' = conn /\ joined' = joined /\ flags' = flags
      /\ emitted' = emitted /\ asked' = asked /\ lastState' = lastState
  BY DEF PublishCache, runner, socket
<1>2. gen' = gen /\ cursor' = cursor /\ awaiting' = awaiting /\ hydrated' = hydrated
      /\ shown' = shown /\ retries' = retries /\ passed' = passed /\ faults' = faults
  BY DEF PublishCache, ui, used
<1>3. leaf \in Nat /\ seq \in Nat /\ cache \in Seq(Row(leaf, seq)) /\ Len(cache) \in Nat
      /\ DOMAIN cache = 1 .. Len(cache)
  BY LenProperties DEF ViewerInv, ViewerTypeOK, RelayOK
<1>4. row \in Row(leaf, seq) /\ row.seq = seq
      /\ \A i \in DOMAIN cache : cache[i].seq < seq
  BY <1>3 DEF ViewerInv, ViewerTypeOK, RelayOK, PublishCache, Row
<1>. HIDE DEF row
<1>5. all \in Seq(Row(leaf, seq)) /\ Len(all) = Len(cache) + 1
      /\ all[Len(cache) + 1] = row /\ \A i \in 1 .. Len(cache) : all[i] = cache[i]
  BY <1>3, <1>4, AppendProperties
<1>6. ASSUME NEW i \in 1 .. Len(all), NEW j \in 1 .. i - 1
      PROVE  all[j].seq < all[i].seq
  <2>1. j \in 1 .. Len(cache) /\ all[j] = cache[j] /\ i \in Int /\ j < i
    BY <1>3, <1>5
  <2>2. CASE i = Len(cache) + 1
    BY <1>3, <1>4, <1>5, <2>1, <2>2
  <2>3. CASE i # Len(cache) + 1
    <3>1. i \in 1 .. Len(cache) /\ all[i] = cache[i]
      BY <1>3, <1>5, <2>3
    <3>2. QED BY <1>3, <2>1, <3>1 DEF ViewerInv, ViewerTypeOK
  <2>4. QED BY <2>2, <2>3
<1>. HIDE DEF all
<1>7. first \in 1 .. Len(all) /\ Len(all) - first + 1 <= EVENT_BUFFER /\ Len(all) \in Nat
  BY <1>3, <1>5, MaxOfTwo
<1>. HIDE DEF first
<1>8. \A i \in first .. Len(all) : all[i] \in Row(leaf, seq)
  BY <1>5, <1>7, ElementOfSeq
<1>9. cache' = SubSeq(all, first, Len(all))
  BY DEF PublishCache, all, row, first
<1>10. cache' \in Seq(Row(leaf, seq)) /\ Len(cache') = Len(all) - first + 1
       /\ \A i \in 1 .. Len(cache') : cache'[i] = all[first + i - 1]
  BY <1>5, <1>7, <1>8, <1>9, SubSeqProperties
<1>11. Len(cache') \in Nat /\ DOMAIN cache' = 1 .. Len(cache')
  BY <1>10, LenProperties
<1>12. ASSUME NEW i \in 1 .. Len(cache'), NEW j \in 1 .. i - 1
       PROVE  cache'[j].seq < cache'[i].seq
  <2>1. j \in 1 .. Len(cache') /\ first + i - 1 \in 1 .. Len(all)
        /\ first + j - 1 \in 1 .. (first + i - 1) - 1
    BY <1>7, <1>10, <1>11
  <2>2. QED BY <1>6, <1>10, <2>1
<1>13. pub' = [pub EXCEPT !.at = "emit"] /\ pub.seq = seq
  BY DEF PublishCache, ViewerInv, RelayOK
<1>14. /\ pub' \in [at : {"idle", "number", "cache", "emit"}, kind : EventKinds,
                    item : 0 .. MaxMsg, seq : OrNone(Seqs)]
       /\ pub'.at = "emit" /\ pub'.seq = seq /\ pub'.kind = pub.kind /\ pub'.item = pub.item
  BY <1>13 DEF ViewerInv, ViewerTypeOK
<1>15. RelayOK'
  BY <1>1, <1>10, <1>14 DEF ViewerInv, RelayOK
<1>16. WireOK'
  BY <1>1, <1>2 DEF ViewerInv, WireOK
<1>17. ViewerTypeOK'
  <2>1. \A i \in DOMAIN cache' :
          cache'[i] \in [seq : Seqs, kind : EventKinds \ {"meta"}, item : 0 .. leaf]
    <3>1. <<>> \in Seq(DownFrame(leaf, seq))
      BY EmptySeq
    <3>2. QED BY <1>3, <1>10, <3>1, RowsAndFrames DEF Seqs
  <2>2. \A i \in DOMAIN cache' :
          /\ cache'[i] \in [seq : Seqs, kind : EventKinds \ {"meta"}, item : 0 .. leaf]
          /\ \A j \in 1 .. i - 1 : cache'[j].seq < cache'[i].seq
    BY <1>11, <1>12, <2>1
  <2>3. Len(cache') <= EVENT_BUFFER
    BY <1>7, <1>10
  <2>4. QED BY <1>1, <1>2, <1>14, <2>2, <2>3 DEF ViewerInv, ViewerTypeOK, Seqs
<1>18. QED BY <1>15, <1>16, <1>17 DEF ViewerInv

\* The broadcast reaches a joined, hence connected socket.
LEMMA PublishEmitKeeps ==
  ASSUME ViewerInv, PublishEmit
  PROVE  ViewerInv'
<1>. USE ViewerAssumption
<1>1. leaf' = leaf /\ seq' = seq /\ cache' = cache /\ up' = up /\ act' = act
      /\ conn' = conn /\ joined' = joined /\ flags' = flags
      /\ emitted' = emitted /\ asked' = asked /\ lastState' = lastState
  BY DEF PublishEmit, runner, redis, socket
<1>2. gen' = gen /\ cursor' = cursor /\ awaiting' = awaiting /\ hydrated' = hydrated
      /\ shown' = shown /\ retries' = retries /\ passed' = passed /\ faults' = faults
  BY DEF PublishEmit, ui, used
<1>3. leaf \in Nat /\ seq \in Nat /\ pub' = NoPub
  BY DEF ViewerInv, ViewerTypeOK, RelayOK, PublishEmit
<1>4. Event(pub.kind, pub.item, pub.seq, FALSE, None) \in DownFrame(leaf, seq)
  <2>1. pub.kind \in EventKinds /\ pub.item \in 0 .. leaf /\ pub.seq \in 0 .. seq
        /\ (pub.kind = "msg" => pub.item # 0)
    BY <1>3 DEF ViewerInv, ViewerTypeOK, RelayOK, PublishEmit
  <2>2. Event(pub.kind, pub.item, pub.seq, FALSE, None) \in EventFrame(leaf, seq)
    BY <1>3, <2>1 DEF Event, Frame, EventFrame, OrNone, None
  <2>3. QED BY <2>2 DEF DownFrame
<1>5. down' \in Seq(DownFrame(leaf, seq)) /\ (~conn => down' = down)
  BY <1>4, AppendProperties DEF ViewerInv, ViewerTypeOK, WireOK, PublishEmit
<1>6. RelayOK'
  BY <1>1, <1>3 DEF ViewerInv, RelayOK, NoPub
<1>7. WireOK'
  BY <1>1, <1>2, <1>5 DEF ViewerInv, WireOK
<1>8. ViewerTypeOK'
  <2>1. pub' \in [at : {"idle", "number", "cache", "emit"}, kind : EventKinds,
                  item : 0 .. MaxMsg, seq : OrNone(Seqs)]
    BY <1>3 DEF NoPub, EventKinds, OrNone
  <2>2. \A i \in DOMAIN down' : down'[i].seq \in OrNone(Seqs)
    <3>1. <<>> \in Seq(Row(leaf, seq))
      BY EmptySeq
    <3>2. QED BY <1>3, <1>5, <3>1, RowsAndFrames DEF Seqs
  <2>3. QED BY <1>1, <1>2, <2>1, <2>2 DEF ViewerInv, ViewerTypeOK, Seqs
<1>9. QED BY <1>6, <1>7, <1>8 DEF ViewerInv

\* viewer.ts takes a request, or a step of an activation: what it sends are
\* frames, and it does so only for a connected socket.
LEMMA RelayStepKeeps ==
  ASSUME ViewerInv,
         Activate \/ ActivateConnected \/ ActivateHydrate \/ Echo \/ Resync
  PROVE  ViewerInv'
<1>. USE ViewerAssumption
<1>1. leaf' = leaf /\ seq' = seq /\ cache' = cache /\ conn' = conn
      /\ emitted' = emitted /\ lastState' = lastState /\ pub' = pub
  BY DEF Activate, ActivateConnected, ActivateHydrate, Echo, Resync, runner, redis
<1>2. gen' = gen /\ cursor' = cursor /\ awaiting' = awaiting /\ hydrated' = hydrated
      /\ shown' = shown /\ retries' = retries /\ passed' = passed /\ faults' = faults
  BY DEF Activate, ActivateConnected, ActivateHydrate, Echo, Resync, ui, used
<1>3. leaf \in Nat /\ seq \in Nat /\ RelayOK /\ lastState \in OrNone(0 .. leaf)
  BY DEF ViewerInv, ViewerTypeOK, RelayOK
<1>4. conn
  BY DEF Activate, ActivateConnected, ActivateHydrate, Echo, Resync, From, ViewerInv, WireOK
<1>5. up' \in Seq(UpFrame)
  <2>1. up \in Seq(UpFrame)
    BY DEF ViewerInv, WireOK
  <2>2. CASE up' = up
    BY <2>1, <2>2
  <2>3. CASE up # <<>> /\ up' = Tail(up)
    BY <2>1, <2>3, HeadTailProperties
  <2>4. QED BY <2>2, <2>3 DEF Activate, ActivateConnected, ActivateHydrate, Echo, Resync, From
<1>6. /\ act' \in [at : {"idle", "seq", "cache"}, gen : Int, last : Int,
                   fresh : 0 .. seq, state : OrNone(0 .. leaf)]
  <2>0. act \in [at : {"idle", "seq", "cache"}, gen : Int, last : Int,
                 fresh : 0 .. seq, state : OrNone(0 .. leaf)]
    BY <1>3 DEF RelayOK
  <2>1. CASE Activate
    <3>1. Head(up) \in UpFrame /\ Head(up).kind = "switch"
      BY <2>1, HeadTailProperties DEF Activate, From, ViewerInv, WireOK
    <3>2. Head(up).gen \in Int /\ Head(up).last \in Int
      BY <3>1 DEF UpFrame
    <3>3. act' = [at |-> "seq", gen |-> Head(up).gen, last |-> Head(up).last,
                  fresh |-> 0, state |-> None]
      BY <2>1 DEF Activate, NoAct
    <3>4. QED BY <1>3, <3>2, <3>3 DEF OrNone
  <2>2. CASE ActivateConnected
    <3>1. act' = [act EXCEPT !.at = "cache", !.fresh = seq, !.state = lastState]
      BY <2>2 DEF ActivateConnected
    <3>2. seq \in 0 .. seq
      BY <1>3
    <3>3. QED BY <1>3, <2>0, <3>1, <3>2
  <2>3. CASE ActivateHydrate
    BY <1>3, <2>3 DEF ActivateHydrate, NoAct, OrNone, None
  <2>4. CASE Echo \/ Resync
    BY <2>0, <2>4 DEF Echo, Resync, socket
  <2>5. QED BY <2>1, <2>2, <2>3, <2>4
<1>7. down' \in Seq(DownFrame(leaf, seq))
  <2>0. down \in Seq(DownFrame(leaf, seq)) /\ act.gen \in Int /\ act.fresh \in 0 .. seq
    BY <1>3 DEF ViewerInv, WireOK, RelayOK
  <2>1. CASE Activate \/ Echo
    BY <2>0, <2>1 DEF Activate, Echo
  <2>2. CASE ActivateConnected
    <3>1. [kind |-> "connected", seq |-> seq, gen |-> act.gen] \in DownFrame(leaf, seq)
      BY <1>3, <2>0 DEF DownFrame
    <3>2. QED BY <2>0, <2>2, <3>1, AppendProperties DEF ActivateConnected
  <2>3. CASE ActivateHydrate
    <3>1. CASE \E frames \in Best : down' = down \o frames
      BY <1>3, <2>0, <3>1, BestType, ConcatProperties
    <3>2. Frame("tick", 0, act.fresh, None, FALSE, act.gen) \in DownFrame(leaf, seq)
      <4>1. Frame("tick", 0, act.fresh, None, FALSE, act.gen) \in EventFrame(leaf, seq)
        BY <1>3, <2>0 DEF Frame, EventFrame, OrNone, EventKinds, None
      <4>2. QED BY <4>1 DEF DownFrame
    <3>3. CASE down' = Append(down, Frame("tick", 0, act.fresh, None, FALSE, act.gen))
      BY <2>0, <3>2, <3>3, AppendProperties
    <3>4. QED BY <2>0, <2>3, <3>1, <3>3 DEF ActivateHydrate
  <2>4. CASE Resync
    <3>1. Head(up) \in UpFrame /\ Head(up).kind = "resync"
      BY <2>4, HeadTailProperties DEF Resync, From, ViewerInv, WireOK
    <3>2. Head(up).gen \in Int
      BY <3>1 DEF UpFrame
    <3>3. CASE down' = down \o Replay(After(Head(up).last), Head(up).gen)
      BY <1>3, <2>0, <3>2, <3>3, AfterType, ReplayType, ConcatProperties
    <3>4. CASE Covers(Head(up).last) /\ down' = down \o FromCache(Head(up).gen)
      <4>1. SnapshotAt # {}
        BY <3>4 DEF Covers
      <4>2. QED BY <1>3, <2>0, <3>2, <3>4, <4>1, FromCacheType, ConcatProperties
    <3>5. QED BY <2>0, <2>4, <3>3, <3>4 DEF Resync
  <2>5. QED BY <2>1, <2>2, <2>3, <2>4
<1>8. asked' \in Nat
  <2>1. asked \in Nat /\ (asked' = asked \/ asked' = asked + 1)
    BY DEF ViewerInv, ViewerTypeOK, Activate, ActivateConnected, ActivateHydrate, Echo, Resync,
           runner
  <2>2. QED BY <2>1
<1>9. flags' \in [suppress : BOOLEAN, ready : BOOLEAN, pending : BOOLEAN]
  <2>0. flags \in [suppress : BOOLEAN, ready : BOOLEAN, pending : BOOLEAN]
    BY DEF ViewerInv, ViewerTypeOK
  <2>1. CASE Activate
    BY <2>1 DEF Activate, NoFlags
  <2>2. CASE ActivateHydrate
    BY <2>0, <2>2 DEF ActivateHydrate
  <2>3. CASE Echo
    BY <2>0, <2>3 DEF Echo
  <2>4. CASE ActivateConnected \/ Resync
    BY <2>0, <2>4 DEF ActivateConnected, Resync, socket
  <2>5. QED BY <2>1, <2>2, <2>3, <2>4
<1>10. joined' \in BOOLEAN
  BY DEF ViewerInv, ViewerTypeOK, Activate, ActivateConnected, ActivateHydrate, Echo, Resync,
         socket
<1>11. RelayOK'
  BY <1>1, <1>3, <1>6 DEF RelayOK
<1>12. WireOK'
  BY <1>1, <1>2, <1>4, <1>5, <1>7 DEF ViewerInv, WireOK
<1>13. ViewerTypeOK'
  <2>1. \A i \in DOMAIN down' : down'[i].seq \in OrNone(Seqs)
    <3>1. <<>> \in Seq(Row(leaf, seq))
      BY EmptySeq
    <3>2. QED BY <1>3, <1>7, <3>1, RowsAndFrames DEF Seqs
  <2>2. QED BY <1>1, <1>2, <1>4, <1>8, <1>9, <1>10, <2>1 DEF ViewerInv, ViewerTypeOK, Seqs
<1>14. QED BY <1>11, <1>12, <1>13 DEF ViewerInv

\* The tab connects, breaks off, is clicked again or retries.
LEMMA TabKeeps ==
  ASSUME ViewerInv, Connect \/ Cut \/ Reopen \/ Watchdog
  PROVE  ViewerInv'
<1>. USE ViewerAssumption
<1>1. leaf' = leaf /\ seq' = seq /\ cache' = cache /\ lastState' = lastState
      /\ emitted' = emitted /\ asked' = asked /\ pub' = pub
  BY DEF Connect, Cut, Reopen, Watchdog, runner, redis
<1>2. leaf \in Nat /\ seq \in Nat /\ gen \in Int /\ cursor \in OrNone(Seqs) /\ cursor \in Int
      /\ retries \in OrNone(0 .. HYDRATION_MAX_RETRIES)
  BY DEF ViewerInv, ViewerTypeOK, RelayOK, OrNone, Seqs, None
<1>3. \A g \in Int : \A last \in Int : Switch(g, last) \in UpFrame
  BY DEF Switch, UpFrame
<1>4. up' \in Seq(UpFrame)
  <2>1. CASE Connect
    BY <1>2, <1>3, <2>1, IsSingleton DEF Connect
  <2>2. CASE Cut
    BY <2>2, EmptySeq DEF Cut
  <2>3. CASE Reopen
    <3>1. Switch(gen + 1, None) \in UpFrame
      BY <1>2, <1>3 DEF None
    <3>2. QED BY <2>3, <3>1, AppendProperties DEF Reopen, ViewerInv, WireOK
  <2>4. CASE Watchdog
    <3>1. Switch(gen, None) \in UpFrame
      BY <1>2, <1>3 DEF None
    <3>2. QED BY <2>4, <3>1, AppendProperties DEF Watchdog, ViewerInv, WireOK
  <2>5. QED BY <2>1, <2>2, <2>3, <2>4
<1>5. /\ down' \in Seq(DownFrame(leaf, seq))
      /\ act' \in [at : {"idle", "seq", "cache"}, gen : Int, last : Int,
                   fresh : 0 .. seq, state : OrNone(0 .. leaf)]
      /\ ~conn' => down' = <<>> /\ up' = <<>> /\ act'.at = "idle"
  <2>1. CASE Cut
    BY <1>2, <2>1, EmptySeq DEF Cut, NoAct, OrNone, None
  <2>2. CASE Connect \/ Reopen \/ Watchdog
    <3>1. down' = down /\ act' = act /\ conn'
      BY <2>2 DEF Connect, Reopen, Watchdog, socket
    <3>2. QED BY <3>1 DEF ViewerInv, WireOK, RelayOK
  <2>3. QED BY <2>1, <2>2
<1>6. /\ flags' \in [suppress : BOOLEAN, ready : BOOLEAN, pending : BOOLEAN]
      /\ joined' \in BOOLEAN /\ conn' \in BOOLEAN /\ (joined' => conn')
  <2>1. CASE Cut
    BY <2>1 DEF Cut, NoFlags
  <2>2. CASE Connect \/ Reopen \/ Watchdog
    BY <2>2 DEF Connect, Reopen, Watchdog, socket, ViewerInv, ViewerTypeOK
  <2>3. QED BY <2>1, <2>2
<1>7. gen' \in 1 .. MaxFaults + 1 /\ gen' <= faults' + 1 /\ faults' \in 0 .. MaxFaults
  <2>0. gen \in 1 .. MaxFaults + 1 /\ gen <= faults + 1 /\ faults \in 0 .. MaxFaults
        /\ MaxFaults \in Nat
    BY DEF ViewerInv, ViewerTypeOK, WireOK
  <2>1. CASE Cut \/ Reopen
    <3>1. faults < MaxFaults /\ faults' = faults + 1 /\ gen' \in {gen, gen + 1}
      BY <2>1 DEF Cut, Reopen, Fault, ui
    <3>2. QED BY <2>0, <3>1
  <2>2. CASE Connect \/ Watchdog
    BY <2>0, <2>2 DEF Connect, Watchdog, used
  <2>3. QED BY <2>1, <2>2
<1>8. cursor' \in OrNone(Seqs) /\ passed' \in Seqs
  BY SMTT(30), <1>2 DEF Connect, Cut, Reopen, Watchdog, ui, ViewerInv, ViewerTypeOK, OrNone, Seqs
<1>9. awaiting' \in BOOLEAN /\ hydrated' \in BOOLEAN /\ shown' \subseteq 1 .. leaf
  <2>1. CASE Reopen
    BY <2>1 DEF Reopen, ViewerInv, ViewerTypeOK
  <2>2. CASE Connect \/ Cut \/ Watchdog
    BY <2>2 DEF Connect, Cut, Watchdog, ui, ViewerInv, ViewerTypeOK
  <2>3. QED BY <2>1, <2>2
<1>10. retries' \in OrNone(0 .. HYDRATION_MAX_RETRIES)
  <2>1. CASE Watchdog
    BY <1>2, <2>1 DEF Watchdog, OrNone, None
  <2>2. CASE Connect \/ Cut \/ Reopen
    BY <1>2, <2>2 DEF Connect, Cut, Reopen, ui, OrNone
  <2>3. QED BY <2>1, <2>2
<1>11. RelayOK'
  BY <1>1, <1>5 DEF ViewerInv, RelayOK
<1>12. WireOK'
  BY <1>1, <1>4, <1>5, <1>7 DEF WireOK
<1>13. ViewerTypeOK'
  <2>1. \A i \in DOMAIN down' : down'[i].seq \in OrNone(Seqs)
    <3>1. <<>> \in Seq(Row(leaf, seq))
      BY EmptySeq
    <3>2. QED BY <1>2, <1>5, <3>1, RowsAndFrames DEF Seqs
  <2>2. QED BY <1>1, <1>6, <1>7, <1>8, <1>9, <1>10, <2>1 DEF ViewerInv, ViewerTypeOK, Seqs
<1>14. QED BY <1>11, <1>12, <1>13 DEF ViewerInv

\* The tab takes a frame.
LEMMA SeeKeeps ==
  ASSUME ViewerInv, SeeConnected \/ SeeEvent
  PROVE  ViewerInv'
<1>. USE ViewerAssumption
<1>. DEFINE f == Head(down)
<1>1. leaf' = leaf /\ seq' = seq /\ cache' = cache /\ lastState' = lastState
      /\ emitted' = emitted /\ asked' = asked /\ pub' = pub /\ act' = act
      /\ flags' = flags /\ joined' = joined /\ conn' = conn
  BY DEF SeeConnected, SeeEvent, runner, redis, socket
<1>2. gen' = gen /\ retries' = retries /\ faults' = faults
  BY DEF SeeConnected, SeeEvent, used
<1>3. leaf \in Nat /\ seq \in Nat /\ gen \in Int /\ cursor \in OrNone(Seqs) /\ cursor \in Int
      /\ passed \in Seqs /\ shown \subseteq 1 .. leaf
      /\ awaiting \in BOOLEAN /\ hydrated \in BOOLEAN
  BY DEF ViewerInv, ViewerTypeOK, RelayOK, OrNone, Seqs, None
<1>4. conn
  BY DEF SeeConnected, SeeEvent, To, ViewerInv, WireOK
<1>5. down' \in Seq(DownFrame(leaf, seq)) /\ f \in DownFrame(leaf, seq)
  BY HeadTailProperties DEF SeeConnected, SeeEvent, To, ViewerInv, WireOK
<1>. HIDE DEF f
<1>6. SeeConnected => f.seq \in 0 .. seq /\ f.kind = "connected"
  BY <1>5 DEF SeeConnected, To, f, DownFrame, EventFrame, EventKinds
<1>7. SeeEvent => f \in EventFrame(leaf, seq)
  BY <1>5 DEF SeeEvent, To, f, DownFrame
<1>8. up' \in Seq(UpFrame)
  <2>1. up \in Seq(UpFrame)
    BY DEF ViewerInv, WireOK
  <2>2. [kind |-> "connected"] \in UpFrame
    BY DEF UpFrame
  <2>3. [kind |-> "resync", last |-> cursor, gen |-> gen] \in UpFrame
    BY <1>3 DEF UpFrame
  <2>4. \/ up' = up
        \/ up' = Append(up, [kind |-> "connected"])
        \/ up' = Append(up, [kind |-> "resync", last |-> cursor, gen |-> gen])
    BY DEF SeeConnected, SeeEvent
  <2>5. \A u \in UpFrame : Append(up, u) \in Seq(UpFrame)
    BY <2>1, AppendProperties
  <2>6. QED BY <2>1, <2>2, <2>3, <2>4, <2>5
<1>9. cursor' \in OrNone(Seqs)
  <2>1. CASE SeeConnected
    <3>1. CASE cursor' = cursor
      BY <1>3, <3>1
    <3>2. CASE cursor' = MergeSeq(f.seq)
      <4>1. CASE cursor = None
        BY <1>3, <1>6, <2>1, <3>2, <4>1 DEF MergeSeq, OrNone, Seqs
      <4>2. CASE cursor # None
        <5>1. cursor' = Min({cursor, f.seq}) /\ f.seq \in 0 .. seq /\ cursor \in 0 .. seq
          BY <1>3, <1>6, <2>1, <3>2, <4>2 DEF MergeSeq, OrNone, Seqs
        <5>2. cursor' \in {cursor, f.seq}
          BY <1>3, <5>1, MinOfTwo
        <5>3. QED BY <5>1, <5>2 DEF OrNone, Seqs
      <4>3. QED BY <4>1, <4>2
    <3>3. QED BY <2>1, <3>1, <3>2 DEF SeeConnected, f
  <2>2. CASE SeeEvent
    <3>1. CASE cursor' = cursor
      BY <1>3, <3>1
    <3>2. CASE f.seq # None /\ cursor' = Max({cursor, f.seq})
      <4>1. f.seq \in 0 .. seq
        BY <1>7, <2>2, <3>2 DEF EventFrame, OrNone
      <4>2. f.seq \in Int /\ f.seq \in OrNone(Seqs)
        BY <1>3, <4>1 DEF OrNone, Seqs
      <4>3. Max({cursor, f.seq}) \in {cursor, f.seq}
        BY <1>3, <4>2, MaxOfTwo
      <4>4. QED BY <1>3, <3>2, <4>2, <4>3
    <3>3. QED BY <2>2, <3>1, <3>2 DEF SeeEvent, Advance, f
  <2>3. QED BY <2>1, <2>2
<1>10. passed' \in Seqs
  <2>1. CASE SeeConnected
    BY <1>3, <1>6, <2>1 DEF SeeConnected, f, Seqs
  <2>2. CASE SeeEvent
    <3>1. CASE passed' = passed
      BY <1>3, <3>1
    <3>2. CASE f.kind = "snap" /\ passed' = (IF f.at >= cursor THEN 0 ELSE cursor)
      <4>1. f.at \in 0 .. seq
        BY <1>7, <2>2, <3>2 DEF EventFrame, OrNone
      <4>2. QED BY <1>3, <3>2, <4>1 DEF OrNone, Seqs, None
    <3>3. CASE f.kind # "snap" /\ passed' = f.seq
      BY <1>7, <2>2, <3>3 DEF EventFrame, OrNone, Seqs
    <3>4. QED BY <2>2, <3>1, <3>2, <3>3 DEF SeeEvent, f
  <2>3. QED BY <2>1, <2>2
<1>11. awaiting' \in BOOLEAN /\ hydrated' \in BOOLEAN
  <2>1. CASE SeeConnected
    BY <1>3, <2>1 DEF SeeConnected
  <2>2. CASE SeeEvent
    BY <1>3, <2>2 DEF SeeEvent, Apply
  <2>3. QED BY <2>1, <2>2
<1>12. shown' \subseteq 1 .. leaf
  <2>1. CASE shown' = shown
    BY <1>3, <2>1
  <2>2. CASE SeeEvent /\ shown' = 1 .. f.item
    <3>1. f.item \in 0 .. leaf
      BY <1>7, <2>2 DEF EventFrame
    <3>2. QED BY <1>3, <2>2, <3>1
  <2>3. CASE SeeEvent /\ f.kind = "msg" /\ shown' = shown \cup {f.item}
    <3>1. f.item \in 1 .. leaf
      BY <1>3, <1>7, <2>3 DEF EventFrame
    <3>2. QED BY <1>3, <2>3, <3>1
  <2>4. QED BY <2>1, <2>2, <2>3 DEF SeeConnected, SeeEvent, Apply, f
<1>13. RelayOK'
  BY <1>1 DEF ViewerInv, RelayOK
<1>14. WireOK'
  BY <1>1, <1>2, <1>4, <1>5, <1>8 DEF ViewerInv, WireOK
<1>15. ViewerTypeOK'
  <2>1. \A i \in DOMAIN down' : down'[i].seq \in OrNone(Seqs)
    <3>1. <<>> \in Seq(Row(leaf, seq))
      BY EmptySeq
    <3>2. QED BY <1>3, <1>5, <3>1, RowsAndFrames DEF Seqs
  <2>2. QED BY <1>1, <1>2, <1>9, <1>10, <1>11, <1>12, <2>1 DEF ViewerInv, ViewerTypeOK, Seqs
<1>16. QED BY <1>13, <1>14, <1>15 DEF ViewerInv

\* The invariant is kept.
LEMMA ViewerNext == ViewerInv /\ [Next]_vars => ViewerInv'
<1>. SUFFICES ASSUME ViewerInv, [Next]_vars PROVE ViewerInv'
  OBVIOUS
<1>1. CASE Message
  BY <1>1, MessageKeeps
<1>2. CASE HeartbeatSnapshot \/ RecoverySnapshot \/ Heartbeat
  BY <1>2, RunnerKeeps
<1>3. CASE PublishNumber
  BY <1>3, PublishNumberKeeps
<1>4. CASE PublishCache
  BY <1>4, PublishCacheKeeps
<1>5. CASE PublishEmit
  BY <1>5, PublishEmitKeeps
<1>6. CASE Activate \/ ActivateConnected \/ ActivateHydrate \/ Echo \/ Resync
  BY <1>6, RelayStepKeeps
<1>7. CASE Connect \/ Cut \/ Reopen \/ Watchdog
  BY <1>7, TabKeeps
<1>8. CASE SeeConnected \/ SeeEvent
  BY <1>8, SeeKeeps
<1>9. CASE UNCHANGED vars
  BY <1>9 DEF vars, runner, redis, socket, ui, used, ViewerInv, ViewerTypeOK, RelayOK, WireOK,
              Seqs
<1>10. QED BY <1>1, <1>2, <1>3, <1>4, <1>5, <1>6, <1>7, <1>8, <1>9 DEF Next

-----------------------------------------------------------------------------
(* The first theorem.                                                      *)

\* Every variable keeps its type; the cache holds the latest numbers in order,
\* and no frame, cursor or resume position is ahead of the counter, whatever
\* is cut, clicked, retried or published in between.
THEOREM ViewerTypeCorrect == Spec => []ViewerTypeOK
<1>1. ViewerInv => ViewerTypeOK
  BY DEF ViewerInv
<1>2. QED BY ViewerInit, ViewerNext, <1>1, PTL DEF Spec

-----------------------------------------------------------------------------
(* No hole is silent: the inductive invariant.                             *)

\* The messages an event carries: a snapshot all up to its own, a finished
\* message itself, the others none.
Carries(e) ==
  IF e.kind = "snap" THEN 1 .. e.item ELSE IF e.kind = "msg" THEN {e.item} ELSE {}

\* The numbers given out, counting the one that is about to be; broadcast; and
\* no longer waiting to be cached.
Total == IF pub.at = "number" THEN seq + 1 ELSE seq
Sent == IF pub.at = "idle" THEN seq ELSE Total - 1
Cached == IF pub.at = "cache" THEN seq - 1 ELSE seq

\* A history of the session: says[n] is what the event of number n carries.
History(D) ==
  [says |-> D, leaf |-> leaf, emitted |-> emitted, top |-> seq, total |-> Total, sent |-> Sent]
Histories == {History(D) : D \in [1 .. Total -> SUBSET (1 .. leaf)]}

\* Every message is in S, or not yet in any snapshot (the next heartbeat will
\* find it), or carried by an event after number c.
Claim(h, S, c) ==
  \A m \in 1 .. h.leaf :
    m \in S \/ h.emitted < m \/ \E n \in c + 1 .. h.total : m \in h.says[n]

\* e is the event of number n; what a snapshot lacks comes after it.
Honest(h, e, n) == h.says[n] = Carries(e) /\ (e.kind = "snap" => Claim(h, Carries(e), n))

\* The event being published is the last one; a snapshot is complete.
PubOK(h) ==
  pub.at # "idle" => /\ 1 <= Total /\ h.says[Total] = Carries(pub)
                     /\ pub.kind = "snap" => pub.item = leaf

\* The cache tells the truth, and only its oldest end is missing.
CacheOK(h) ==
  /\ \A i \in 1 .. Len(cache) : cache[i].seq \in 1 .. Cached /\ Honest(h, cache[i], cache[i].seq)
  /\ \A n \in 1 .. Cached : h.says[n] # {} =>
       \/ \E i \in 1 .. Len(cache) : cache[i].seq = n
       \/ cache # <<>> /\ n < cache[1].seq

\* The record has the runner's last snapshot; the tab waits until it is
\* hydrated; only a socket in the room is served, which it is unless its first
\* switch is on its way; no activation has answered before it ends; generations
\* only grow; without a cursor nothing was passed.
SocketOK ==
  /\ lastState = emitted /\ awaiting = ~hydrated
  /\ down # <<>> \/ act.at # "idle" => joined
  /\ conn /\ ~joined => up # <<>> /\ up[1].kind = "switch"
  /\ act.at # "idle" => ~flags.suppress /\ ~flags.ready
  /\ act.gen \in 0 .. gen
  /\ \A i \in 1 .. Len(up) : up[i].kind # "connected" => up[i].gen \in 0 .. gen
  /\ \A i \in 1 .. Len(down) : down[i].gen <= gen
  /\ hydrated /\ cursor = None => passed = 0

\* The four kinds of event frames: broadcast, replayed from the cache, a
\* snapshot without a number, a repeated heartbeat.
Live(f) == f.kind # "connected" /\ f.gen = None
Replayed(f) == f.kind # "connected" /\ f.gen # None /\ f.delta
Restored(f) == f.kind = "snap" /\ f.gen # None /\ ~f.delta
Repeated(f) == f.kind = "tick" /\ f.gen # None /\ ~f.delta

\* A frame says what the event it stands for carries.
FrameOK(h, f) ==
  \/ f.kind = "connected" /\ f.gen # None
  \/ Live(f) /\ ~f.delta /\ f.at = f.seq /\ f.seq \in 1 .. h.sent /\ Honest(h, f, f.seq)
  \/ Replayed(f) /\ f.at = f.seq /\ f.seq \in 1 .. h.top /\ h.says[f.seq] = Carries(f)
  \/ Restored(f) /\ f.seq = None
  \/ Repeated(f) /\ f.at = None

\* Event n is broadcast in the queue q at one of the positions in P.
Broadcast(q, P, n) == \E j \in P : Live(q[j]) /\ q[j].seq = n

\* The frames tell the truth; behind a broadcast come all that were broadcast
\* after it, and a replayed event does not overtake them.
FramesOK(h, q) ==
  /\ \A i \in 1 .. Len(q) : FrameOK(h, q[i])
  /\ \A i \in 1 .. Len(q) : Live(q[i]) =>
       \A n \in q[i].seq + 1 .. h.sent : Broadcast(q, i + 1 .. Len(q), n)
  /\ \A j \in 1 .. Len(q) : Replayed(q[j]) => \A i \in 1 .. j - 1 : Live(q[i]) =>
       \A n \in q[i].seq + 1 .. q[j].seq - 1 : h.says[n] # {} => Broadcast(q, i + 1 .. j - 1, n)

\* "connected" is never behind the cursor or behind a frame before it.
GreetingsOK(q, c) ==
  \A i \in 1 .. Len(q) : q[i].kind = "connected" =>
    c <= q[i].seq /\ \A j \in 1 .. i - 1 : q[j].seq <= q[i].seq

\* A frame that brings a viewer of generation g what event n carries.
Brings(f, g, n) ==
  /\ f.kind # "connected" /\ f.gen \in {None, g}
  /\ f.at = n \/ (f.kind = "snap" /\ n <= f.at)

\* What the numbers in N carry comes behind position i of q.
Follows(h, q, g, N, i) ==
  \A n \in N : h.says[n] # {} => \E j \in i + 1 .. Len(q) : Brings(q[j], g, n)

\* What comes between number k and a replayed event comes before that event.
NoSkip(h, q, g, k, i) ==
  \A j \in i + 1 .. Len(q) : Replayed(q[j]) /\ q[j].gen = g =>
    \A n \in k + 1 .. q[j].seq - 1 : h.says[n] # {} =>
      \E x \in i + 1 .. j - 1 : Brings(q[x], g, n)

\* Behind position i a viewer that has all up to number k is brought the rest.
Full(h, q, g, k, i) == Follows(h, q, g, k + 1 .. h.sent, i) /\ NoSkip(h, q, g, k, i)

\* Behind a snapshot from cache or record comes all that it lacks, unless what
\* a viewer has reached, or a broadcast snapshot before it, is newer.
StoredOK(h, q, g, reached) ==
  \A i \in 1 .. Len(q) : q[i].kind = "snap" /\ q[i].gen = g =>
    \/ q[i].at < reached
    \/ \E j \in 1 .. i - 1 : Live(q[j]) /\ q[j].kind = "snap" /\ q[i].at < q[j].at
    \/ \E k \in q[i].at .. h.top : Claim(h, Carries(q[i]), k) /\ Full(h, q, g, k, i)

\* The cursor of a viewer that has a transcript.
Reached == IF hydrated THEN cursor ELSE None

\* A snapshot is being published.
Upcoming == pub.at # "idle" /\ pub.kind = "snap"

\* The same of the snapshot that an activation has read from the record: what it
\* lacks is in no snapshot yet, or in the one being published.
ActOK ==
  act.at = "cache" /\ act.state # None =>
    \/ act.fresh < Reached
    \/ \E j \in 1 .. Len(down) :
         Live(down[j]) /\ down[j].kind = "snap" /\ act.fresh < down[j].at
    \/ \A m \in act.state + 1 .. leaf : emitted < m \/ (Upcoming /\ act.fresh < Total)

\* A viewer that has all up to number k and resumes: its switch is on its way,
\* activated, greeted, or the runner has been or will be asked for a snapshot.
Greeted ==
  \/ \E i \in 1 .. Len(down) : down[i].kind = "connected" /\ down[i].gen = gen
  \/ up # <<>>
Resuming(h, k) ==
  \/ ~joined /\ up = <<Switch(gen, cursor)>>
  \/ /\ joined /\ \A i \in 1 .. Len(up) : up[i].kind = "connected"
     /\ \A i \in 1 .. Len(down) : Live(down[i]) \/ Repeated(down[i]) \/ down[i].kind = "connected"
     /\ \/ act.at = "seq" /\ act.gen = gen /\ act.last <= cursor
        \/ /\ act.at = "cache" /\ act.gen = gen /\ act.last <= cursor
           /\ Follows(h, down, gen, (k + 1 .. Sent) \ (1 .. act.fresh), 0)
           /\ ~flags.suppress /\ ~flags.ready /\ (Greeted \/ flags.pending)
        \/ /\ act.at = "idle" /\ ~flags.suppress /\ flags.ready
           /\ \/ Greeted \/ asked > 0 \/ Upcoming
              \/ \E i \in 1 .. Len(down) : Live(down[i]) /\ down[i].kind = "snap"

\* A hydrated viewer whose cursor was not moved past anything shows all that
\* was sent up to some number, not behind its cursor; the rest is on its way, or
\* it resumes, or it is not connected.
ViewerOK(h) ==
  hydrated /\ passed = 0 => \E k \in 0 .. seq :
    /\ cursor <= k /\ Claim(h, shown, k)
    /\ ~conn \/ (joined /\ Full(h, down, gen, k, 0)) \/ Resuming(h, k)

\* The parts that speak of what the numbers carry, of one history.
HistoryOK(h) ==
  /\ PubOK(h) /\ CacheOK(h) /\ FramesOK(h, down)
  /\ StoredOK(h, down, gen, Reached) /\ ViewerOK(h)
\* The inductive invariant: there is a history for which all of it holds.
HoleInv ==
  /\ ViewerInv /\ SocketOK /\ GreetingsOK(down, cursor) /\ ActOK
  /\ \E h \in Histories : HistoryOK(h)

-----------------------------------------------------------------------------
(* Queues: what follows, or is not skipped, when frames are added behind   *)
(* or the first is taken.                                                  *)

\* r is q with s behind it.
Joins(r, q, s) ==
  /\ Len(q) \in Nat /\ Len(s) \in Nat /\ Len(r) = Len(q) + Len(s)
  /\ \A i \in 1 .. Len(q) : r[i] = q[i]
  /\ \A j \in 1 .. Len(s) : r[Len(q) + j] = s[j]

\* r is q without its first frame.
Drops(r, q) ==
  Len(q) \in Nat \ {0} /\ Len(r) = Len(q) - 1 /\ \A i \in 1 .. Len(r) : r[i] = q[i + 1]

\* Concatenation does so,
LEMMA ConcatJoins ==
  ASSUME NEW S, NEW q \in Seq(S), NEW s \in Seq(S)
  PROVE  Joins(q \o s, q, s)
<1>. DEFINE r == q \o s
<1>1. Len(q) \in Nat /\ Len(s) \in Nat /\ Len(r) = Len(q) + Len(s)
      /\ \A i \in 1 .. Len(q) + Len(s) : r[i] = IF i <= Len(q) THEN q[i] ELSE s[i - Len(q)]
  BY LenProperties, ConcatProperties
<1>. HIDE DEF r
<1>2. \A i \in 1 .. Len(q) : r[i] = q[i]
  BY <1>1
<1>3. ASSUME NEW j \in 1 .. Len(s) PROVE r[Len(q) + j] = s[j]
  <2>1. Len(q) + j \in 1 .. Len(q) + Len(s) /\ ~(Len(q) + j <= Len(q)) /\ Len(q) + j - Len(q) = j
    BY <1>1
  <2>2. QED BY <1>1, <2>1
<1>4. QED BY <1>1, <1>2, <1>3 DEF Joins, r

\* ... and so does appending.
LEMMA AppendJoins ==
  ASSUME NEW S, NEW q \in Seq(S), NEW f \in S
  PROVE  Joins(Append(q, f), q, <<f>>)
BY AppendIsConcat, ConcatJoins, IsSingleton

\* Tail drops.
LEMMA TailDrops ==
  ASSUME NEW S, NEW q \in Seq(S), q # <<>>
  PROVE  Drops(Tail(q), q)
BY HeadTailProperties, LenProperties, EmptySeq DEF Drops

\* A position of r is one of q or one of s.
LEMMA JoinedAt ==
  ASSUME NEW r, NEW q, NEW s, Joins(r, q, s), NEW i \in 1 .. Len(r)
  PROVE  \/ i \in 1 .. Len(q) /\ r[i] = q[i]
         \/ \E j \in 1 .. Len(s) : i = Len(q) + j /\ r[i] = s[j]
<1>1. CASE i <= Len(q)
  BY <1>1 DEF Joins
<1>2. CASE ~(i <= Len(q))
  <2>1. i - Len(q) \in 1 .. Len(s) /\ i = Len(q) + (i - Len(q))
    BY <1>2 DEF Joins
  <2>2. QED BY <2>1 DEF Joins
<1>3. QED BY <1>1, <1>2

\* Behind position i of q with s behind it comes what comes there in q, or in s.
LEMMA FollowsJoins ==
  ASSUME NEW h, NEW q, NEW s, NEW r, Joins(r, q, s), NEW g, NEW i \in 0 .. Len(q),
         NEW N,
         \A n \in N : h.says[n] # {} =>
           \/ \E j \in i + 1 .. Len(q) : Brings(q[j], g, n)
           \/ \E j \in 1 .. Len(s) : Brings(s[j], g, n)
  PROVE  Follows(h, r, g, N, i)
<1>1. SUFFICES ASSUME NEW n \in N, h.says[n] # {}
               PROVE  \E j \in i + 1 .. Len(r) : Brings(r[j], g, n)
  BY DEF Follows
<1>2. CASE \E j \in i + 1 .. Len(q) : Brings(q[j], g, n)
  <2>1. PICK j \in i + 1 .. Len(q) : Brings(q[j], g, n)
    BY <1>2
  <2>2. j \in 1 .. Len(q) /\ j \in i + 1 .. Len(r) /\ r[j] = q[j]
    BY <2>1 DEF Joins
  <2>3. QED BY <2>1, <2>2
<1>3. CASE \E j \in 1 .. Len(s) : Brings(s[j], g, n)
  <2>1. PICK j \in 1 .. Len(s) : Brings(s[j], g, n)
    BY <1>3
  <2>2. Len(q) + j \in i + 1 .. Len(r) /\ r[Len(q) + j] = s[j]
    BY <2>1 DEF Joins
  <2>3. QED BY <2>1, <2>2
<1>4. QED BY <1>1, <1>2, <1>3

\* The replayed events of s skip nothing when they come behind q.
InOrder(h, q, s, g, k, i) ==
  \A j \in 1 .. Len(s) : Replayed(s[j]) /\ s[j].gen = g =>
    \A n \in k + 1 .. s[j].seq - 1 : h.says[n] # {} =>
      \/ \E x \in i + 1 .. Len(q) : Brings(q[x], g, n)
      \/ \E x \in 1 .. j - 1 : Brings(s[x], g, n)

\* If s is in order behind q, a replayed event skips nothing in the two together.
LEMMA NoSkipJoins ==
  ASSUME NEW h, NEW q, NEW s, NEW r, Joins(r, q, s), NEW g, NEW i \in 0 .. Len(q),
         NEW k \in Int, NoSkip(h, q, g, k, i), InOrder(h, q, s, g, k, i)
  PROVE  NoSkip(h, r, g, k, i)
<1>1. SUFFICES ASSUME NEW j \in i + 1 .. Len(r), Replayed(r[j]), r[j].gen = g,
                      NEW n \in k + 1 .. r[j].seq - 1, h.says[n] # {}
               PROVE  \E x \in i + 1 .. j - 1 : Brings(r[x], g, n)
  BY DEF NoSkip
<1>2. j \in 1 .. Len(r) /\ Len(q) \in Nat /\ Len(s) \in Nat
  BY DEF Joins
<1>3. CASE j \in 1 .. Len(q) /\ r[j] = q[j]
  <2>1. j \in i + 1 .. Len(q)
    BY <1>3
  <2>2. PICK x \in i + 1 .. j - 1 : Brings(q[x], g, n)
    BY <1>1, <1>3, <2>1 DEF NoSkip
  <2>3. r[x] = q[x]
    BY <1>2, <1>3 DEF Joins
  <2>4. QED BY <2>2, <2>3
<1>4. ASSUME NEW y \in 1 .. Len(s), j = Len(q) + y, r[j] = s[y]
      PROVE  \E x \in i + 1 .. j - 1 : Brings(r[x], g, n)
  <2>1. \/ \E x \in i + 1 .. Len(q) : Brings(q[x], g, n)
        \/ \E x \in 1 .. y - 1 : Brings(s[x], g, n)
    BY <1>1, <1>4 DEF InOrder
  <2>2. CASE \E x \in i + 1 .. Len(q) : Brings(q[x], g, n)
    <3>1. PICK x \in i + 1 .. Len(q) : Brings(q[x], g, n)
      BY <2>2
    <3>2. x \in 1 .. Len(q) /\ x \in i + 1 .. j - 1 /\ r[x] = q[x]
      BY <1>2, <1>4 DEF Joins
    <3>3. QED BY <3>1, <3>2
  <2>3. CASE \E x \in 1 .. y - 1 : Brings(s[x], g, n)
    <3>1. PICK x \in 1 .. y - 1 : Brings(s[x], g, n)
      BY <2>3
    <3>2. x \in 1 .. Len(s) /\ Len(q) + x \in i + 1 .. j - 1 /\ r[Len(q) + x] = s[x]
      BY <1>2, <1>4 DEF Joins
    <3>3. QED BY <3>1, <3>2
  <2>4. QED BY <2>1, <2>2, <2>3
<1>5. CASE j <= Len(q)
  BY <1>2, <1>3, <1>5 DEF Joins
<1>6. CASE ~(j <= Len(q))
  <2>1. j - Len(q) \in 1 .. Len(s) /\ j = Len(q) + (j - Len(q))
    BY <1>2, <1>6 DEF Joins
  <2>2. r[j] = s[j - Len(q)]
    BY <2>1 DEF Joins
  <2>3. QED BY <1>4, <2>1, <2>2
<1>7. QED BY <1>5, <1>6

\* What follows position i + 1 follows position i when the first frame is taken,
LEMMA FollowsDrops ==
  ASSUME NEW h, NEW q, NEW r, Drops(r, q), NEW g, NEW i \in Nat, NEW N,
         Follows(h, q, g, N, i + 1)
  PROVE  Follows(h, r, g, N, i)
<1>1. SUFFICES ASSUME NEW n \in N, h.says[n] # {}
               PROVE  \E j \in i + 1 .. Len(r) : Brings(r[j], g, n)
  BY DEF Follows
<1>2. PICK j \in (i + 1) + 1 .. Len(q) : Brings(q[j], g, n)
  BY <1>1 DEF Follows
<1>3. j - 1 \in i + 1 .. Len(r) /\ j - 1 \in 1 .. Len(r) /\ (j - 1) + 1 = j
  BY DEF Drops
<1>4. r[j - 1] = q[j]
  BY <1>3 DEF Drops
<1>5. QED BY <1>2, <1>3, <1>4

\* ... and what is not skipped behind it is not skipped then.
LEMMA NoSkipDrops ==
  ASSUME NEW h, NEW q, NEW r, Drops(r, q), NEW g, NEW i \in Nat, NEW k \in Int,
         NoSkip(h, q, g, k, i + 1)
  PROVE  NoSkip(h, r, g, k, i)
<1>1. SUFFICES ASSUME NEW j \in i + 1 .. Len(r), Replayed(r[j]), r[j].gen = g,
                      NEW n \in k + 1 .. r[j].seq - 1, h.says[n] # {}
               PROVE  \E x \in i + 1 .. j - 1 : Brings(r[x], g, n)
  BY DEF NoSkip
<1>2. j + 1 \in (i + 1) + 1 .. Len(q) /\ r[j] = q[j + 1] /\ j \in 1 .. Len(r)
  BY DEF Drops
<1>3. PICK x \in (i + 1) + 1 .. (j + 1) - 1 : Brings(q[x], g, n)
  BY <1>1, <1>2 DEF NoSkip
<1>4. x - 1 \in i + 1 .. j - 1 /\ x - 1 \in 1 .. Len(r) /\ (x - 1) + 1 = x
  BY <1>2 DEF Drops
<1>5. r[x - 1] = q[x]
  BY <1>4 DEF Drops
<1>6. QED BY <1>3, <1>4, <1>5

\* What does not depend on the first frame holds behind it.
LEMMA FollowsHead ==
  ASSUME NEW h, NEW q, Len(q) \in Nat, NEW g, NEW N, NEW N2, N2 \subseteq N,
         Follows(h, q, g, N, 0), \A n \in N2 : ~Brings(q[1], g, n)
  PROVE  Follows(h, q, g, N2, 1)
<1>1. SUFFICES ASSUME NEW n \in N2, h.says[n] # {}
               PROVE  \E j \in 1 + 1 .. Len(q) : Brings(q[j], g, n)
  BY DEF Follows
<1>2. PICK j \in 0 + 1 .. Len(q) : Brings(q[j], g, n)
  BY <1>1 DEF Follows
<1>3. j # 1
  BY <1>2
<1>4. QED BY <1>2, <1>3

\* ... and nothing is skipped behind it.
LEMMA NoSkipHead ==
  ASSUME NEW h, NEW q, Len(q) \in Nat, NEW g, NEW k \in Int, NEW k2 \in Int, k <= k2,
         NoSkip(h, q, g, k, 0), \A n \in Int : k2 < n => ~Brings(q[1], g, n),
         \A i \in 1 .. Len(q) : Replayed(q[i]) => q[i].seq \in Int
  PROVE  NoSkip(h, q, g, k2, 1)
<1>1. SUFFICES ASSUME NEW j \in 1 + 1 .. Len(q), Replayed(q[j]), q[j].gen = g,
                      NEW n \in k2 + 1 .. q[j].seq - 1, h.says[n] # {}
               PROVE  \E x \in 1 + 1 .. j - 1 : Brings(q[x], g, n)
  BY DEF NoSkip
<1>2. j \in 0 + 1 .. Len(q) /\ q[j].seq \in Int /\ n \in Int /\ k2 < n
  BY <1>1
<1>3. n \in k + 1 .. q[j].seq - 1
  BY <1>2
<1>4. PICK x \in 0 + 1 .. j - 1 : Brings(q[x], g, n)
  BY <1>1, <1>2, <1>3 DEF NoSkip
<1>5. x # 1
  BY <1>2, <1>4
<1>6. QED BY <1>4, <1>5

\* A queue that is sent keeps its order behind another.
LEMMA FullShifts ==
  ASSUME NEW h, NEW q, NEW s, NEW r, Joins(r, q, s), NEW g, NEW k \in Int,
         NEW i \in 0 .. Len(s), Full(h, s, g, k, i)
  PROVE  Full(h, r, g, k, Len(q) + i)
<1>1. Len(q) \in Nat /\ Len(s) \in Nat /\ Len(r) = Len(q) + Len(s)
      /\ \A j \in 1 .. Len(s) : r[Len(q) + j] = s[j]
  BY DEF Joins
<1>2. Follows(h, r, g, k + 1 .. h.sent, Len(q) + i)
  <2>1. SUFFICES ASSUME NEW n \in k + 1 .. h.sent, h.says[n] # {}
                 PROVE  \E j \in (Len(q) + i) + 1 .. Len(r) : Brings(r[j], g, n)
    BY DEF Follows
  <2>2. PICK j \in i + 1 .. Len(s) : Brings(s[j], g, n)
    BY <2>1 DEF Full, Follows
  <2>3. Len(q) + j \in (Len(q) + i) + 1 .. Len(r) /\ r[Len(q) + j] = s[j]
    BY <1>1
  <2>4. QED BY <2>2, <2>3
<1>3. NoSkip(h, r, g, k, Len(q) + i)
  <2>1. SUFFICES ASSUME NEW j \in (Len(q) + i) + 1 .. Len(r), Replayed(r[j]), r[j].gen = g,
                        NEW n \in k + 1 .. r[j].seq - 1, h.says[n] # {}
                 PROVE  \E x \in (Len(q) + i) + 1 .. j - 1 : Brings(r[x], g, n)
    BY DEF NoSkip
  <2>2. PICK y \in i + 1 .. Len(s) : j = Len(q) + y /\ r[j] = s[y]
    <3>1. j - Len(q) \in i + 1 .. Len(s) /\ j = Len(q) + (j - Len(q))
          /\ j - Len(q) \in 1 .. Len(s)
      BY <1>1
    <3>2. QED BY <1>1, <3>1
  <2>3. PICK x \in i + 1 .. y - 1 : Brings(s[x], g, n)
    BY <2>1, <2>2 DEF Full, NoSkip
  <2>4. x \in 1 .. Len(s)
    BY <1>1, <2>2
  <2>5. Len(q) + x \in (Len(q) + i) + 1 .. j - 1 /\ r[Len(q) + x] = s[x]
    BY <1>1, <2>2, <2>4
  <2>6. QED BY <2>3, <2>5
<1>4. QED BY <1>2, <1>3 DEF Full

-----------------------------------------------------------------------------
(* Histories: what holds of one holds of a later one.                      *)

\* What is known of the numbers of a history.
IsHistory(h) ==
  /\ h.leaf \in Nat /\ h.emitted \in Int /\ h.top \in Nat /\ h.total \in Nat /\ h.sent \in Int
  /\ h.top <= h.total /\ h.sent <= h.total /\ h.total <= h.sent + 1

\* h2 continues h: a message that is new, or that a snapshot has taken up since,
\* is carried by a new event or not in any snapshot.
Later(h, h2) ==
  /\ IsHistory(h) /\ IsHistory(h2)
  /\ h.total <= h2.total /\ h.top <= h2.top /\ h.sent <= h2.sent
  /\ \A n \in 1 .. h.total : h2.says[n] = h.says[n]
  /\ \A m \in 1 .. h2.leaf :
       \/ m \in 1 .. h.leaf /\ m <= h.emitted
       \/ h2.emitted < m
       \/ \E n \in h.total + 1 .. h2.total : m \in h2.says[n]

\* What a transcript claims to lack still comes with a number after c, as new messages do.
LEMMA ClaimLater ==
  ASSUME NEW h, NEW h2, Later(h, h2), NEW S, NEW c \in Nat, c <= h.total, Claim(h, S, c)
  PROVE  Claim(h2, S, c)
<1>1. SUFFICES ASSUME NEW m \in 1 .. h2.leaf, m \notin S, ~(h2.emitted < m)
               PROVE  \E n \in c + 1 .. h2.total : m \in h2.says[n]
  BY DEF Claim
<1>2. h.total \in Nat /\ h2.total \in Nat /\ h.emitted \in Int /\ h.total <= h2.total
  BY DEF Later, IsHistory
<1>3. CASE \E n \in h.total + 1 .. h2.total : m \in h2.says[n]
  BY <1>2, <1>3
<1>4. CASE m \in 1 .. h.leaf /\ m <= h.emitted
  <2>1. ~(h.emitted < m)
    BY <1>2, <1>4
  <2>2. PICK n \in c + 1 .. h.total : m \in h.says[n]
    BY <1>1, <1>4, <2>1 DEF Claim
  <2>3. n \in 1 .. h.total /\ n \in c + 1 .. h2.total
    BY <1>2
  <2>4. h2.says[n] = h.says[n]
    BY <2>3 DEF Later
  <2>5. QED BY <2>2, <2>3, <2>4
<1>5. QED BY <1>1, <1>3, <1>4 DEF Later

\* A claim about more, or about later events only, is weaker or stronger.
LEMMA ClaimMore ==
  ASSUME NEW h, NEW S, NEW S2, NEW c \in Int, NEW c2 \in Int, Claim(h, S, c), S \subseteq S2,
         \A n \in c + 1 .. h.total : n \in c2 + 1 .. h.total \/ h.says[n] \subseteq S2
  PROVE  Claim(h, S2, c2)
BY DEF Claim

\* A frame that tells the truth still does when the session goes on.
LEMMA FrameLater ==
  ASSUME NEW h, NEW h2, Later(h, h2), NEW f, FrameOK(h, f)
  PROVE  FrameOK(h2, f)
<1>1. /\ h.total \in Nat /\ h.sent \in Int /\ h2.sent \in Int /\ h.sent <= h.total
      /\ h.sent <= h2.sent /\ h.top \in Nat /\ h2.top \in Nat /\ h.top <= h2.top
      /\ h.top <= h.total
  BY DEF Later, IsHistory
<1>2. CASE Live(f) /\ ~f.delta /\ f.at = f.seq /\ f.seq \in 1 .. h.sent /\ Honest(h, f, f.seq)
  <2>1. f.seq \in 1 .. h.total /\ f.seq \in 1 .. h2.sent /\ f.seq \in Nat /\ f.seq <= h.total
    BY <1>1, <1>2
  <2>2. h2.says[f.seq] = h.says[f.seq]
    BY <2>1 DEF Later
  <2>3. f.kind = "snap" => Claim(h2, Carries(f), f.seq)
    BY <1>2, <2>1, ClaimLater DEF Honest
  <2>4. QED BY <1>2, <2>1, <2>2, <2>3 DEF FrameOK, Honest
<1>3. CASE Replayed(f) /\ f.at = f.seq /\ f.seq \in 1 .. h.top /\ h.says[f.seq] = Carries(f)
  <2>1. f.seq \in 1 .. h.total /\ f.seq \in 1 .. h2.top
    BY <1>1, <1>3
  <2>2. h2.says[f.seq] = h.says[f.seq]
    BY <2>1 DEF Later
  <2>3. QED BY <1>3, <2>1, <2>2 DEF FrameOK
<1>4. QED BY <1>2, <1>3 DEF FrameOK

\* The numbers of frames.
LEMMA FrameNumbers ==
  ASSUME NEW h, IsHistory(h), NEW f, FrameOK(h, f)
  PROVE  /\ Live(f) => f.seq \in 1 .. h.sent /\ f.seq \in 1 .. h.total /\ f.seq \in Nat
                       /\ f.at = f.seq /\ ~f.delta
         /\ Replayed(f) => f.seq \in 1 .. h.top /\ f.seq \in 1 .. h.total /\ f.seq \in Nat
                           /\ f.at = f.seq
         /\ f.kind = "snap" => Live(f) \/ Replayed(f) \/ (Restored(f) /\ f.seq = None)
         /\ ~Live(f) <=> f.gen # None
BY DEF IsHistory, FrameOK, Live, Replayed, Restored, Repeated

\* What follows of numbers given out follows still: they carry what they carried.
LEMMA FollowsLater ==
  ASSUME NEW h, NEW h2, Later(h, h2), NEW q, NEW g, NEW N, N \subseteq 1 .. h.total, NEW i,
         Follows(h, q, g, N, i)
  PROVE  Follows(h2, q, g, N, i)
BY DEF Follows, Later

\* ... and so for what is not skipped: a replayed number was given out before.
LEMMA NoSkipLater ==
  ASSUME NEW h, NEW h2, Later(h, h2), NEW q, NEW g, NEW k \in Nat, NEW i \in Nat,
         FramesOK(h, q), Len(q) \in Nat, NoSkip(h, q, g, k, i)
  PROVE  NoSkip(h2, q, g, k, i)
<1>1. SUFFICES ASSUME NEW j \in i + 1 .. Len(q), Replayed(q[j]), q[j].gen = g,
                      NEW n \in k + 1 .. q[j].seq - 1, h2.says[n] # {}
               PROVE  \E x \in i + 1 .. j - 1 : Brings(q[x], g, n)
  BY DEF NoSkip
<1>2. q[j].seq \in 1 .. h.total /\ h.total \in Nat
  <2>1. IsHistory(h) /\ FrameOK(h, q[j])
    BY DEF Later, FramesOK
  <2>2. QED BY <1>1, <2>1, FrameNumbers DEF IsHistory
<1>3. n \in 1 .. h.total
  BY <1>2
<1>4. h.says[n] # {}
  BY <1>1, <1>3 DEF Later
<1>5. QED BY <1>1, <1>4 DEF NoSkip

\* ... and so for both, while nothing is broadcast.
LEMMA FullLater ==
  ASSUME NEW h, NEW h2, Later(h, h2), h2.sent = h.sent, NEW q, NEW g, NEW k \in Nat,
         NEW i \in Nat, FramesOK(h, q), Len(q) \in Nat, Full(h, q, g, k, i)
  PROVE  Full(h2, q, g, k, i)
<1>1. k + 1 .. h.sent \subseteq 1 .. h.total
  BY DEF Later, IsHistory
<1>2. Follows(h2, q, g, k + 1 .. h2.sent, i)
  BY <1>1, FollowsLater DEF Full
<1>3. QED BY <1>2, NoSkipLater DEF Full

\* The order of the queue stays as it is, while nothing is broadcast.
LEMMA FramesLater ==
  ASSUME NEW h, NEW h2, Later(h, h2), h2.sent = h.sent, NEW q, Len(q) \in Nat, FramesOK(h, q)
  PROVE  FramesOK(h2, q)
<1>1. \A i \in 1 .. Len(q) : FrameOK(h2, q[i])
  BY FrameLater DEF FramesOK
<1>2. \A i \in 1 .. Len(q) : Live(q[i]) =>
        \A n \in q[i].seq + 1 .. h2.sent : Broadcast(q, i + 1 .. Len(q), n)
  BY DEF FramesOK
<1>3. ASSUME NEW j \in 1 .. Len(q), Replayed(q[j]), NEW i \in 1 .. j - 1, Live(q[i]),
             NEW n \in q[i].seq + 1 .. q[j].seq - 1, h2.says[n] # {}
      PROVE  Broadcast(q, i + 1 .. j - 1, n)
  <2>0. IsHistory(h) /\ FrameOK(h, q[j]) /\ FrameOK(h, q[i]) /\ i \in 1 .. Len(q)
    BY DEF Later, FramesOK
  <2>1. q[j].seq \in 1 .. h.total /\ q[i].seq \in Nat /\ h.total \in Nat
    BY <1>3, <2>0, FrameNumbers DEF IsHistory
  <2>2. n \in 1 .. h.total
    BY <2>1
  <2>3. h.says[n] # {}
    BY <1>3, <2>2 DEF Later
  <2>4. QED BY <1>3, <2>3 DEF FramesOK
<1>4. QED BY <1>1, <1>2, <1>3 DEF FramesOK

\* What is behind a snapshot is still all that it lacks.
LEMMA StoredLater ==
  ASSUME NEW h, NEW h2, Later(h, h2), h2.sent = h.sent, NEW q, Len(q) \in Nat, FramesOK(h, q),
         NEW g, NEW reached, StoredOK(h, q, g, reached),
         \A i \in 1 .. Len(q) : q[i].kind = "snap" => q[i].at \in Nat
  PROVE  StoredOK(h2, q, g, reached)
<1>1. SUFFICES ASSUME NEW i \in 1 .. Len(q), q[i].kind = "snap", q[i].gen = g,
                      NEW k \in q[i].at .. h.top, Claim(h, Carries(q[i]), k),
                      Full(h, q, g, k, i)
               PROVE  \E k2 \in q[i].at .. h2.top :
                        Claim(h2, Carries(q[i]), k2) /\ Full(h2, q, g, k2, i)
  BY DEF StoredOK
<1>2. q[i].at \in Nat
  BY <1>1
<1>3. k \in Nat /\ k <= h.total /\ k \in q[i].at .. h2.top
  BY <1>2 DEF Later, IsHistory
<1>4. Claim(h2, Carries(q[i]), k)
  BY <1>1, <1>3, ClaimLater
<1>5. Full(h2, q, g, k, i)
  BY <1>1, <1>3, FullLater
<1>6. QED BY <1>3, <1>4, <1>5

-----------------------------------------------------------------------------
(* The frames on their way, when some are added or the first is taken.     *)

\* Without its first frame the queue is still in order.
LEMMA FramesDrop ==
  ASSUME NEW h, NEW q, NEW r, Drops(r, q), FramesOK(h, q)
  PROVE  FramesOK(h, r)
<1>1. Len(q) \in Nat \ {0} /\ Len(r) = Len(q) - 1 /\ Len(r) \in Nat
      /\ \A i \in 1 .. Len(r) : i + 1 \in 1 .. Len(q) /\ r[i] = q[i + 1]
  BY DEF Drops
<1>2. \A i \in 1 .. Len(r) : FrameOK(h, r[i])
  BY <1>1 DEF FramesOK
<1>3. ASSUME NEW i \in 1 .. Len(r), Live(r[i]), NEW n \in r[i].seq + 1 .. h.sent
      PROVE  Broadcast(r, i + 1 .. Len(r), n)
  <2>1. Broadcast(q, (i + 1) + 1 .. Len(q), n)
    BY <1>1, <1>3 DEF FramesOK
  <2>2. PICK j \in (i + 1) + 1 .. Len(q) : Live(q[j]) /\ q[j].seq = n
    BY <2>1 DEF Broadcast
  <2>3. j - 1 \in i + 1 .. Len(r) /\ r[j - 1] = q[j]
    BY <1>1
  <2>4. QED BY <2>2, <2>3 DEF Broadcast
<1>4. ASSUME NEW j \in 1 .. Len(r), Replayed(r[j]), NEW i \in 1 .. j - 1, Live(r[i]),
             NEW n \in r[i].seq + 1 .. r[j].seq - 1, h.says[n] # {}
      PROVE  Broadcast(r, i + 1 .. j - 1, n)
  <2>0. i \in 1 .. Len(r) /\ i + 1 \in 1 .. (j + 1) - 1 /\ j + 1 \in 1 .. Len(q)
        /\ r[i] = q[i + 1] /\ r[j] = q[j + 1]
    BY <1>1
  <2>1. Broadcast(q, (i + 1) + 1 .. (j + 1) - 1, n)
    BY <1>4, <2>0 DEF FramesOK
  <2>2. PICK x \in (i + 1) + 1 .. (j + 1) - 1 : Live(q[x]) /\ q[x].seq = n
    BY <2>1 DEF Broadcast
  <2>3. x - 1 \in i + 1 .. j - 1 /\ r[x - 1] = q[x]
    BY <1>1
  <2>4. QED BY <2>2, <2>3 DEF Broadcast
<1>5. QED BY <1>2, <1>3, <1>4 DEF FramesOK

\* Frames that are not broadcasts.
LEMMA FramesJoin ==
  ASSUME NEW h, IsHistory(h), NEW q, NEW s, NEW r, Joins(r, q, s), FramesOK(h, q),
         \A j \in 1 .. Len(s) : FrameOK(h, s[j]) /\ ~Live(s[j])
                                /\ (Replayed(s[j]) => s[j].seq <= h.sent + 1)
  PROVE  FramesOK(h, r)
<1>1. Len(q) \in Nat /\ Len(s) \in Nat /\ Len(r) = Len(q) + Len(s)
      /\ \A i \in 1 .. Len(q) : r[i] = q[i] /\ i \in 1 .. Len(r)
  BY DEF Joins
<1>2. \A i \in 1 .. Len(r) : (i \in 1 .. Len(q) /\ r[i] = q[i])
                             \/ (\E j \in 1 .. Len(s) : i = Len(q) + j /\ r[i] = s[j])
  BY JoinedAt
<1>3. \A i \in 1 .. Len(r) : FrameOK(h, r[i])
  BY <1>2 DEF FramesOK
<1>4. \A i \in 1 .. Len(r) : Live(r[i]) => i \in 1 .. Len(q) /\ r[i] = q[i]
  BY <1>2
<1>5. ASSUME NEW i \in 1 .. Len(r), Live(r[i]), NEW n \in r[i].seq + 1 .. h.sent
      PROVE  \E j \in i + 1 .. Len(q) : Live(q[j]) /\ q[j].seq = n
  <2>1. i \in 1 .. Len(q) /\ r[i] = q[i]
    BY <1>4, <1>5
  <2>2. QED BY <1>5, <2>1 DEF FramesOK, Broadcast
<1>6. ASSUME NEW i \in 1 .. Len(r), Live(r[i]), NEW n \in r[i].seq + 1 .. h.sent
      PROVE  Broadcast(r, i + 1 .. Len(r), n)
  <2>1. PICK j \in i + 1 .. Len(q) : Live(q[j]) /\ q[j].seq = n
    BY <1>5, <1>6
  <2>2. j \in i + 1 .. Len(r) /\ r[j] = q[j]
    BY <1>1
  <2>3. QED BY <2>1, <2>2 DEF Broadcast
<1>7. ASSUME NEW j \in 1 .. Len(r), Replayed(r[j]), NEW i \in 1 .. j - 1, Live(r[i]),
             NEW n \in r[i].seq + 1 .. r[j].seq - 1, h.says[n] # {}
      PROVE  Broadcast(r, i + 1 .. j - 1, n)
  <2>0. i \in 1 .. Len(r) /\ j \in Nat
    BY <1>1
  <2>1. i \in 1 .. Len(q) /\ r[i] = q[i] /\ FrameOK(h, q[i])
    BY <1>4, <1>7, <2>0 DEF FramesOK
  <2>2. q[i].seq \in Nat /\ h.sent \in Int
    BY <1>7, <2>1, FrameNumbers DEF IsHistory
  <2>3. CASE j \in 1 .. Len(q) /\ r[j] = q[j]
    <3>1. Broadcast(q, i + 1 .. j - 1, n)
      BY <1>7, <2>1, <2>3 DEF FramesOK
    <3>2. PICK x \in i + 1 .. j - 1 : Live(q[x]) /\ q[x].seq = n
      BY <3>1 DEF Broadcast
    <3>3. r[x] = q[x]
      BY <1>1, <2>3
    <3>4. QED BY <3>2, <3>3 DEF Broadcast
  <2>4. ASSUME NEW y \in 1 .. Len(s), j = Len(q) + y, r[j] = s[y]
        PROVE  Broadcast(r, i + 1 .. j - 1, n)
    <3>1. r[j].seq <= h.sent + 1 /\ r[j].seq \in Nat
      <4>1. FrameOK(h, s[y]) /\ (Replayed(s[y]) => s[y].seq <= h.sent + 1)
        OBVIOUS
      <4>2. QED BY <1>7, <2>4, <4>1, FrameNumbers
    <3>2. n \in r[i].seq + 1 .. h.sent
      BY <2>1, <2>2, <3>1
    <3>3. PICK x \in i + 1 .. Len(q) : Live(q[x]) /\ q[x].seq = n
      BY <1>5, <1>7, <2>0, <3>2
    <3>4. x \in i + 1 .. j - 1 /\ r[x] = q[x]
      BY <1>1, <2>4
    <3>5. QED BY <3>3, <3>4 DEF Broadcast
  <2>5. QED BY <1>2, <2>3, <2>4
<1>8. QED BY <1>3, <1>6, <1>7 DEF FramesOK

\* f is the next broadcast.
NextLive(h, h2, f) ==
  Later(h, h2) /\ h2.sent = h.sent + 1 /\ FrameOK(h2, f) /\ Live(f) /\ f.seq = h2.sent

\* The next broadcast, behind all the others, keeps the queue in order.
LEMMA FramesEmit ==
  ASSUME NEW h, NEW h2, NEW f, NextLive(h, h2, f), NEW q, NEW r, Joins(r, q, <<f>>),
         FramesOK(h, q)
  PROVE  FramesOK(h2, r)
<1>1. Len(q) \in Nat /\ Len(r) = Len(q) + 1 /\ r[Len(q) + 1] = f
      /\ \A i \in 1 .. Len(q) : r[i] = q[i]
  BY DEF Joins
<1>2. \A i \in 1 .. Len(r) : (i \in 1 .. Len(q) /\ r[i] = q[i])
                             \/ (i = Len(q) + 1 /\ r[i] = f)
  BY <1>1
<1>3. IsHistory(h) /\ Later(h, h2) /\ h.sent \in Int /\ h2.sent = h.sent + 1
  BY DEF NextLive, Later, IsHistory
<1>4. \A i \in 1 .. Len(r) : FrameOK(h2, r[i])
  BY <1>2, <1>3, FrameLater DEF FramesOK, NextLive
<1>5. \A i \in 1 .. Len(q) : Live(q[i]) => q[i].seq \in Nat /\ q[i].seq <= h.sent
  BY <1>3, FrameNumbers DEF FramesOK
<1>6. ASSUME NEW i \in 1 .. Len(r), Live(r[i]), NEW n \in r[i].seq + 1 .. h2.sent
      PROVE  Broadcast(r, i + 1 .. Len(r), n)
  <2>1. CASE i = Len(q) + 1
    BY <1>1, <1>3, <1>6, <2>1 DEF NextLive
  <2>2. CASE i \in 1 .. Len(q) /\ r[i] = q[i] /\ n \in q[i].seq + 1 .. h.sent
    <3>1. PICK j \in i + 1 .. Len(q) : Live(q[j]) /\ q[j].seq = n
      BY <1>6, <2>2 DEF FramesOK, Broadcast
    <3>2. j \in i + 1 .. Len(r) /\ r[j] = q[j]
      BY <1>1, <2>2
    <3>3. QED BY <3>1, <3>2 DEF Broadcast
  <2>3. CASE i \in 1 .. Len(q) /\ n = h2.sent
    <3>1. Len(q) + 1 \in i + 1 .. Len(r)
      BY <1>1, <2>3
    <3>2. QED BY <1>1, <2>3, <3>1 DEF Broadcast, NextLive
  <2>4. QED BY <1>2, <1>3, <1>5, <1>6, <2>1, <2>2, <2>3
<1>7. ASSUME NEW j \in 1 .. Len(r), Replayed(r[j]), NEW i \in 1 .. j - 1, Live(r[i]),
             NEW n \in r[i].seq + 1 .. r[j].seq - 1, h2.says[n] # {}
      PROVE  Broadcast(r, i + 1 .. j - 1, n)
  <2>1. j \in 1 .. Len(q) /\ r[j] = q[j]
    BY <1>2, <1>7 DEF NextLive, Live, Replayed
  <2>2. i \in 1 .. Len(q) /\ r[i] = q[i]
    BY <1>1, <2>1
  <2>3. q[j].seq \in 1 .. h.total /\ h.total \in Nat /\ q[i].seq \in Nat
    BY <1>3, <1>5, <1>7, <2>1, <2>2, FrameNumbers DEF FramesOK, IsHistory
  <2>4. n \in 1 .. h.total
    BY <2>1, <2>2, <2>3
  <2>5. h.says[n] # {}
    BY <1>3, <1>7, <2>4 DEF Later
  <2>6. Broadcast(q, i + 1 .. j - 1, n)
    BY <1>7, <2>1, <2>2, <2>5 DEF FramesOK
  <2>7. PICK x \in i + 1 .. j - 1 : Live(q[x]) /\ q[x].seq = n
    BY <2>6 DEF Broadcast
  <2>8. r[x] = q[x]
    BY <1>1, <2>1
  <2>9. QED BY <2>7, <2>8 DEF Broadcast
<1>8. QED BY <1>4, <1>6, <1>7 DEF FramesOK

\* What a viewer is brought stays so when more is sent: replayed events do not
\* overtake what was broadcast.
LEMMA FullJoin ==
  ASSUME NEW h, IsHistory(h), NEW q, NEW s, NEW r, Joins(r, q, s), NEW g, NEW k \in Nat,
         NEW i \in 0 .. Len(q), Full(h, q, g, k, i),
         \A j \in 1 .. Len(s) : FrameOK(h, s[j]) /\ (Replayed(s[j]) => s[j].seq <= h.sent + 1)
  PROVE  Full(h, r, g, k, i)
<1>1. Follows(h, r, g, k + 1 .. h.sent, i)
  <2>1. \A n \in k + 1 .. h.sent : h.says[n] # {} =>
          \E j \in i + 1 .. Len(q) : Brings(q[j], g, n)
    BY DEF Full, Follows
  <2>2. QED BY <2>1, FollowsJoins
<1>2. ASSUME NEW j \in 1 .. Len(s), Replayed(s[j]), NEW n \in k + 1 .. s[j].seq - 1,
             h.says[n] # {}
      PROVE  \E x \in i + 1 .. Len(q) : Brings(q[x], g, n)
  <2>1. s[j].seq \in Nat /\ s[j].seq <= h.sent + 1 /\ h.sent \in Int
    BY <1>2, FrameNumbers DEF IsHistory
  <2>2. n \in k + 1 .. h.sent
    BY <2>1
  <2>3. QED BY <1>2, <2>2 DEF Full, Follows
<1>3. NoSkip(h, q, g, k, i)
  BY DEF Full
<1>4. InOrder(h, q, s, g, k, i)
  BY <1>2 DEF InOrder
<1>5. NoSkip(h, r, g, k, i)
  BY <1>3, <1>4, NoSkipJoins
<1>6. QED BY <1>1, <1>5 DEF Full

\* The next broadcast is brought to everybody in the room.
LEMMA FullEmit ==
  ASSUME NEW h, NEW h2, NEW f, NextLive(h, h2, f), NEW q, NEW r, Joins(r, q, <<f>>),
         NEW g, NEW k \in Nat, NEW i \in 0 .. Len(q), FramesOK(h, q), Full(h, q, g, k, i)
  PROVE  Full(h2, r, g, k, i)
<1>1. Len(q) \in Nat /\ IsHistory(h) /\ Later(h, h2) /\ h.sent \in Int /\ h.total \in Nat
      /\ h.sent <= h.total /\ h2.sent = h.sent + 1 /\ Len(<<f>>) = 1 /\ <<f>>[1] = f
  BY DEF NextLive, Later, IsHistory, Joins
<1>2. Brings(f, g, h2.sent) /\ ~Replayed(f)
  <2>1. f.at = f.seq
    BY FrameNumbers DEF NextLive, Later
  <2>2. QED BY <2>1 DEF NextLive, Live, Brings, Replayed
<1>3. Follows(h2, r, g, k + 1 .. h2.sent, i)
  <2>1. ASSUME NEW n \in k + 1 .. h2.sent, h2.says[n] # {}
        PROVE  \/ \E j \in i + 1 .. Len(q) : Brings(q[j], g, n)
               \/ \E j \in 1 .. Len(<<f>>) : Brings(<<f>>[j], g, n)
    <3>1. CASE n = h2.sent
      BY <1>1, <1>2, <3>1
    <3>2. CASE n \in k + 1 .. h.sent
      <4>1. n \in 1 .. h.total
        BY <1>1, <3>2
      <4>2. h.says[n] # {}
        BY <1>1, <2>1, <4>1 DEF Later
      <4>3. QED BY <3>2, <4>2 DEF Full, Follows
    <3>3. QED BY <1>1, <2>1, <3>1, <3>2
  <2>2. QED BY <2>1, FollowsJoins
<1>4. NoSkip(h2, q, g, k, i)
  BY <1>1, NoSkipLater DEF Full
<1>5. \A j \in 1 .. Len(<<f>>) : ~Replayed(<<f>>[j])
  BY <1>1, <1>2
<1>6. InOrder(h2, q, <<f>>, g, k, i)
  BY <1>5 DEF InOrder
<1>7. NoSkip(h2, r, g, k, i)
  BY <1>4, <1>6, NoSkipJoins
<1>8. QED BY <1>3, <1>7 DEF Full

\* What is full behind the next position is full when the first frame is taken.
LEMMA FullDrop ==
  ASSUME NEW h, NEW q, NEW r, Drops(r, q), NEW g, NEW k \in Nat, NEW i \in Nat,
         Full(h, q, g, k, i + 1)
  PROVE  Full(h, r, g, k, i)
BY FollowsDrops, NoSkipDrops DEF Full

\* What is behind a snapshot when the first frame is taken.
LEMMA StoredDrop ==
  ASSUME NEW h, NEW q, NEW r, Drops(r, q), NEW g, NEW reached \in Int, NEW reached2 \in Int,
         StoredOK(h, q, g, reached), reached <= reached2,
         Live(q[1]) /\ q[1].kind = "snap" => q[1].at \in Int /\ q[1].at <= reached2,
         \A i \in 1 .. Len(q) : q[i].kind = "snap" => q[i].at \in Nat
  PROVE  StoredOK(h, r, g, reached2)
<1>1. SUFFICES ASSUME NEW i \in 1 .. Len(r), r[i].kind = "snap", r[i].gen = g
               PROVE  \/ r[i].at < reached2
                      \/ \E j \in 1 .. i - 1 :
                           Live(r[j]) /\ r[j].kind = "snap" /\ r[i].at < r[j].at
                      \/ \E k \in r[i].at .. h.top :
                           Claim(h, Carries(r[i]), k) /\ Full(h, r, g, k, i)
  BY DEF StoredOK
<1>2. i + 1 \in 1 .. Len(q) /\ r[i] = q[i + 1] /\ Len(r) \in Nat /\ r[i].at \in Nat
  BY <1>1 DEF Drops
<1>3. CASE q[i + 1].at < reached
  BY <1>2, <1>3
<1>4. ASSUME NEW j \in 1 .. (i + 1) - 1, Live(q[j]), q[j].kind = "snap",
             q[i + 1].at < q[j].at
      PROVE  \/ r[i].at < reached2
             \/ \E x \in 1 .. i - 1 : Live(r[x]) /\ r[x].kind = "snap" /\ r[i].at < r[x].at
  <2>1. CASE j = 1
    <3>1. q[1].at \in Int /\ q[1].at <= reached2 /\ q[i + 1].at < q[1].at
      BY <1>4, <2>1
    <3>2. QED BY <1>2, <3>1
  <2>2. CASE j # 1
    <3>1. j - 1 \in 1 .. i - 1 /\ j - 1 \in 1 .. Len(r) /\ (j - 1) + 1 = j
      BY <1>2, <2>2
    <3>2. r[j - 1] = q[j]
      BY <3>1 DEF Drops
    <3>3. QED BY <1>2, <1>4, <3>1, <3>2
  <2>3. QED BY <2>1, <2>2
<1>5. ASSUME NEW k \in q[i + 1].at .. h.top, Claim(h, Carries(q[i + 1]), k),
             Full(h, q, g, k, i + 1)
      PROVE  \E x \in r[i].at .. h.top : Claim(h, Carries(r[i]), x) /\ Full(h, r, g, x, i)
  <2>1. k \in Nat /\ i \in Nat
    BY <1>2
  <2>2. Full(h, r, g, k, i)
    BY <1>5, <2>1, FullDrop
  <2>3. QED BY <1>2, <1>5, <2>2
<1>6. QED BY <1>1, <1>2, <1>3, <1>4, <1>5 DEF StoredOK

\* ... when frames that are not broadcasts are sent: each of their snapshots
\* must have behind it what it lacks,
LEMMA StoredJoin ==
  ASSUME NEW h, IsHistory(h), NEW q, NEW s, NEW r, Joins(r, q, s), NEW g, NEW reached \in Int,
         StoredOK(h, q, g, reached), 
         \A j \in 1 .. Len(s) : FrameOK(h, s[j]) /\ (Replayed(s[j]) => s[j].seq <= h.sent + 1),
         \A i \in 1 .. Len(q) : q[i].kind = "snap" => q[i].at \in Nat,
         \A j \in 1 .. Len(s) : s[j].kind = "snap" /\ s[j].gen = g =>
           \/ s[j].at < reached
           \/ \E x \in 1 .. Len(q) : Live(q[x]) /\ q[x].kind = "snap" /\ s[j].at < q[x].at
           \/ \E k \in s[j].at .. h.top :
                k \in Nat /\ Claim(h, Carries(s[j]), k) /\ Full(h, s, g, k, j)
  PROVE  StoredOK(h, r, g, reached)
<1>1. SUFFICES ASSUME NEW i \in 1 .. Len(r), r[i].kind = "snap", r[i].gen = g
               PROVE  \/ r[i].at < reached
                      \/ \E j \in 1 .. i - 1 :
                           Live(r[j]) /\ r[j].kind = "snap" /\ r[i].at < r[j].at
                      \/ \E k \in r[i].at .. h.top :
                           Claim(h, Carries(r[i]), k) /\ Full(h, r, g, k, i)
  BY DEF StoredOK
<1>2. Len(q) \in Nat /\ Len(s) \in Nat /\ \A x \in 1 .. Len(q) : r[x] = q[x]
  BY DEF Joins
<1>3. CASE i \in 1 .. Len(q) /\ r[i] = q[i]
  <2>1. \A j \in 1 .. i - 1 : r[j] = q[j]
    BY <1>2, <1>3
  <2>2. ASSUME NEW k \in q[i].at .. h.top, Claim(h, Carries(q[i]), k), Full(h, q, g, k, i)
        PROVE  \E x \in r[i].at .. h.top : Claim(h, Carries(r[i]), x) /\ Full(h, r, g, x, i)
    <3>1. k \in Nat /\ i \in 0 .. Len(q)
      BY <1>1, <1>3
    <3>2. Full(h, r, g, k, i)
      BY <2>2, <3>1, FullJoin
    <3>3. QED BY <1>3, <2>2, <3>2
  <2>3. QED BY <1>1, <1>3, <2>1, <2>2 DEF StoredOK
<1>4. ASSUME NEW y \in 1 .. Len(s), i = Len(q) + y, r[i] = s[y]
      PROVE  \/ r[i].at < reached
             \/ \E j \in 1 .. i - 1 :
                  Live(r[j]) /\ r[j].kind = "snap" /\ r[i].at < r[j].at
             \/ \E k \in r[i].at .. h.top :
                  Claim(h, Carries(r[i]), k) /\ Full(h, r, g, k, i)
  <2>1. \/ s[y].at < reached
        \/ \E x \in 1 .. Len(q) : Live(q[x]) /\ q[x].kind = "snap" /\ s[y].at < q[x].at
        \/ \E k \in s[y].at .. h.top :
             k \in Nat /\ Claim(h, Carries(s[y]), k) /\ Full(h, s, g, k, y)
    BY <1>1, <1>4
  <2>2. ASSUME NEW x \in 1 .. Len(q), Live(q[x]), q[x].kind = "snap", s[y].at < q[x].at
        PROVE  \E j \in 1 .. i - 1 :
                  Live(r[j]) /\ r[j].kind = "snap" /\ r[i].at < r[j].at
    <3>1. x \in 1 .. i - 1 /\ r[x] = q[x]
      BY <1>2, <1>4
    <3>2. QED BY <1>4, <2>2, <3>1
  <2>3. ASSUME NEW k \in s[y].at .. h.top, k \in Nat, Claim(h, Carries(s[y]), k),
               Full(h, s, g, k, y)
        PROVE  Full(h, r, g, k, i)
    <3>1. y \in 0 .. Len(s) /\ k \in Int
      BY <1>2, <2>3
    <3>2. Full(h, r, g, k, Len(q) + y)
      BY <2>3, <3>1, FullShifts
    <3>3. QED BY <1>4, <3>2
  <2>4. QED BY <1>4, <2>1, <2>2, <2>3
<1>5. QED BY <1>1, <1>3, <1>4, JoinedAt

\* ... and when the next broadcast is.
LEMMA StoredEmit ==
  ASSUME NEW h, NEW h2, NEW f, NextLive(h, h2, f), NEW q, NEW r, Joins(r, q, <<f>>),
         NEW g \in Nat, NEW reached \in Int, FramesOK(h, q), StoredOK(h, q, g, reached),
         \A i \in 1 .. Len(q) : q[i].kind = "snap" => q[i].at \in Nat
  PROVE  StoredOK(h2, r, g, reached)
<1>1. SUFFICES ASSUME NEW i \in 1 .. Len(r), r[i].kind = "snap", r[i].gen = g
               PROVE  \/ r[i].at < reached
                      \/ \E j \in 1 .. i - 1 :
                           Live(r[j]) /\ r[j].kind = "snap" /\ r[i].at < r[j].at
                      \/ \E k \in r[i].at .. h2.top :
                           Claim(h2, Carries(r[i]), k) /\ Full(h2, r, g, k, i)
  BY DEF StoredOK
<1>2. Len(q) \in Nat /\ Len(r) = Len(q) + 1 /\ r[Len(q) + 1] = f
      /\ \A x \in 1 .. Len(q) : r[x] = q[x]
  BY DEF Joins
<1>3. f.gen # g
  BY DEF NextLive, Live, None
<1>4. i \in 1 .. Len(q) /\ r[i] = q[i]
  BY <1>1, <1>2, <1>3
<1>5. \A j \in 1 .. i - 1 : r[j] = q[j]
  BY <1>2, <1>4
<1>6. ASSUME NEW k \in q[i].at .. h.top, Claim(h, Carries(q[i]), k), Full(h, q, g, k, i)
      PROVE  \E x \in r[i].at .. h2.top : Claim(h2, Carries(r[i]), x) /\ Full(h2, r, g, x, i)
  <2>0. Later(h, h2) /\ h.top \in Nat /\ h2.top \in Nat /\ h.top <= h2.top /\ h.total \in Nat
        /\ h.top <= h.total
    BY DEF NextLive, Later, IsHistory
  <2>1. k \in Nat /\ i \in 0 .. Len(q) /\ k <= h.total /\ k \in q[i].at .. h2.top
    BY <1>1, <1>4, <2>0
  <2>2. Full(h2, r, g, k, i)
    BY <1>6, <2>1, FullEmit
  <2>3. Claim(h2, Carries(q[i]), k)
    BY <1>6, <2>0, <2>1, ClaimLater
  <2>4. QED BY <1>4, <2>1, <2>2, <2>3
<1>7. QED BY <1>1, <1>4, <1>5, <1>6 DEF StoredOK

-----------------------------------------------------------------------------
(* What the relay can send from its cache.                                 *)

\* The rows behind number b, and nothing after it is missing.
RowsBehind(h, rows, b) ==
  /\ Len(rows) \in Nat
  /\ \A j \in 1 .. Len(rows) :
       /\ rows[j].seq \in 1 .. h.top /\ rows[j].seq <= h.sent + 1 /\ b < rows[j].seq
       /\ rows[j].kind # "connected" /\ Honest(h, rows[j], rows[j].seq)
       /\ \A i \in 1 .. j - 1 : rows[i].seq < rows[j].seq
  /\ \A n \in b + 1 .. h.sent : h.says[n] # {} => \E j \in 1 .. Len(rows) : rows[j].seq = n

\* s is what a viewer of generation g is sent: each frame is what it says, behind
\* each snapshot comes what it lacks, and a viewer that has all up to last is
\* brought the rest.
Served(h, s, g, last) ==
  /\ Len(s) \in Nat
  /\ \A j \in 1 .. Len(s) :
       /\ FrameOK(h, s[j]) /\ ~Live(s[j]) /\ s[j].kind # "connected" /\ s[j].gen = g
       /\ Replayed(s[j]) => s[j].seq <= h.sent + 1
       /\ s[j].kind = "snap" => /\ s[j].at \in 0 .. h.top /\ Claim(h, Carries(s[j]), s[j].at)
                                /\ Full(h, s, g, s[j].at, j)
  /\ \A k \in Nat : last <= k => Full(h, s, g, k, 0)

\* A replayed row.
LEMMA ReplayAt ==
  ASSUME NEW h, IsHistory(h), NEW rows, NEW b, RowsBehind(h, rows, b), NEW g \in Nat,
         NEW s, s = Replay(rows, g), rows \in Seq(Row(h.leaf, h.top))
  PROVE  /\ Len(s) = Len(rows)
         /\ \A j \in 1 .. Len(rows) :
              /\ s[j].kind = rows[j].kind /\ s[j].item = rows[j].item /\ s[j].gen = g
              /\ s[j].seq = rows[j].seq /\ s[j].at = rows[j].seq /\ s[j].delta
              /\ FrameOK(h, s[j]) /\ Replayed(s[j]) /\ ~Live(s[j])
              /\ Carries(s[j]) = Carries(rows[j])
              /\ Brings(s[j], g, rows[j].seq)
<1>1. Len(rows) \in Nat /\ DOMAIN rows = 1 .. Len(rows) /\ g # None
  BY LenProperties DEF None
<1>2. s = [j \in 1 .. Len(rows) |->
             Event(rows[j].kind, rows[j].item, rows[j].seq, TRUE, g)]
  BY <1>1 DEF Replay
<1>3. Len(s) = Len(rows)
  BY <1>1, <1>2
<1>4. ASSUME NEW j \in 1 .. Len(rows)
      PROVE  /\ s[j].kind = rows[j].kind /\ s[j].item = rows[j].item /\ s[j].gen = g
             /\ s[j].seq = rows[j].seq /\ s[j].at = rows[j].seq /\ s[j].delta
  BY <1>2 DEF Event, Frame
<1>5. ASSUME NEW j \in 1 .. Len(rows)
      PROVE  /\ FrameOK(h, s[j]) /\ Replayed(s[j]) /\ ~Live(s[j])
             /\ Carries(s[j]) = Carries(rows[j]) /\ Brings(s[j], g, rows[j].seq)
  <2>1. Carries(s[j]) = Carries(rows[j])
    BY <1>4 DEF Carries
  <2>2. rows[j].seq \in 1 .. h.top /\ rows[j].kind # "connected"
        /\ h.says[rows[j].seq] = Carries(rows[j])
    BY DEF RowsBehind, Honest
  <2>3. Replayed(s[j]) /\ ~Live(s[j]) /\ Brings(s[j], g, rows[j].seq)
    BY <1>1, <1>4, <2>2 DEF Replayed, Live, Brings
  <2>4. QED BY <1>4, <2>1, <2>2, <2>3 DEF FrameOK
<1>6. QED BY <1>3, <1>4, <1>5

\* Behind a position that a viewer has reached comes the rest.
LEMMA ReplayFull ==
  ASSUME NEW h, IsHistory(h), NEW rows, NEW b \in Nat, RowsBehind(h, rows, b), NEW g \in Nat,
         rows \in Seq(Row(h.leaf, h.top)), NEW i \in 0 .. Len(rows), NEW k \in Nat, b <= k,
         i # 0 => rows[i].seq <= k
  PROVE  Full(h, Replay(rows, g), g, k, i)
<1>. DEFINE s == Replay(rows, g)
<1>1. /\ Len(s) = Len(rows)
      /\ \A j \in 1 .. Len(rows) : s[j].seq = rows[j].seq /\ Brings(s[j], g, rows[j].seq)
  BY ReplayAt
<1>. HIDE DEF s
<1>2. Len(rows) \in Nat /\ h.sent \in Int
      /\ \A j \in 1 .. Len(rows) : rows[j].seq \in Nat /\ rows[j].seq <= h.sent + 1
  BY DEF RowsBehind, IsHistory
<1>3. ASSUME NEW n \in k + 1 .. h.sent, h.says[n] # {}
      PROVE  \E j \in i + 1 .. Len(rows) : rows[j].seq = n
  <2>1. n \in b + 1 .. h.sent
    BY <1>2
  <2>2. PICK j \in 1 .. Len(rows) : rows[j].seq = n
    BY <1>3, <2>1 DEF RowsBehind
  <2>3. i < j
    <3>1. SUFFICES ASSUME j <= i PROVE FALSE
      BY <1>2
    <3>2. i \in 1 .. Len(rows) /\ rows[i].seq <= k /\ rows[j].seq > k
      BY <1>2, <2>2, <3>1
    <3>3. j = i \/ j \in 1 .. i - 1
      BY <1>2, <3>1
    <3>4. rows[j].seq <= rows[i].seq
      BY <1>2, <3>2, <3>3 DEF RowsBehind
    <3>5. QED BY <1>2, <3>2, <3>4
  <2>4. QED BY <1>2, <2>2, <2>3
<1>4. Follows(h, s, g, k + 1 .. h.sent, i)
  <2>1. SUFFICES ASSUME NEW n \in k + 1 .. h.sent, h.says[n] # {}
                 PROVE  \E j \in i + 1 .. Len(s) : Brings(s[j], g, n)
    BY DEF Follows
  <2>2. PICK j \in i + 1 .. Len(rows) : rows[j].seq = n
    BY <1>3, <2>1
  <2>3. j \in 1 .. Len(rows)
    BY <1>2
  <2>4. QED BY <1>1, <2>2, <2>3
<1>5. NoSkip(h, s, g, k, i)
  <2>1. SUFFICES ASSUME NEW j \in i + 1 .. Len(s), NEW n \in k + 1 .. s[j].seq - 1,
                        h.says[n] # {}
                 PROVE  \E x \in i + 1 .. j - 1 : Brings(s[x], g, n)
    BY DEF NoSkip
  <2>2. j \in 1 .. Len(rows) /\ s[j].seq = rows[j].seq
    BY <1>1, <1>2
  <2>3. n \in k + 1 .. h.sent /\ n < rows[j].seq
    BY <1>2, <2>1, <2>2
  <2>4. PICK x \in i + 1 .. Len(rows) : rows[x].seq = n
    BY <1>3, <2>1, <2>3
  <2>5. x \in 1 .. Len(rows) /\ x < j
    <3>1. x \in 1 .. Len(rows)
      BY <1>2
    <3>2. SUFFICES ASSUME j <= x PROVE FALSE
      BY <1>2, <2>2, <3>1
    <3>3. j = x \/ j \in 1 .. x - 1
      BY <1>2, <2>2, <3>1, <3>2
    <3>4. rows[j].seq <= rows[x].seq
      BY <1>2, <3>1, <3>3 DEF RowsBehind
    <3>5. QED BY <1>2, <2>2, <2>3, <2>4, <3>4
  <2>6. QED BY <1>1, <1>2, <2>2, <2>4, <2>5
<1>6. QED BY <1>4, <1>5 DEF Full, s

\* Rows of the cache behind number b serve a viewer that has all up to b.
LEMMA ReplayServed ==
  ASSUME NEW h, IsHistory(h), NEW rows, NEW b \in Nat, RowsBehind(h, rows, b), NEW g \in Nat,
         rows \in Seq(Row(h.leaf, h.top))
  PROVE  Served(h, Replay(rows, g), g, b)
<1>. DEFINE s == Replay(rows, g)
<1>0. s = Replay(rows, g)
  OBVIOUS
<1>. HIDE DEF s
<1>a. /\ Len(s) = Len(rows)
      /\ \A j \in 1 .. Len(rows) :
           /\ s[j].kind = rows[j].kind /\ s[j].item = rows[j].item /\ s[j].gen = g
           /\ s[j].seq = rows[j].seq /\ s[j].at = rows[j].seq /\ s[j].delta
           /\ FrameOK(h, s[j]) /\ Replayed(s[j]) /\ ~Live(s[j])
           /\ Carries(s[j]) = Carries(rows[j])
           /\ Brings(s[j], g, rows[j].seq)
  BY <1>0, ReplayAt
<1>1. /\ Len(s) = Len(rows) /\ Len(rows) \in Nat
      /\ \A j \in 1 .. Len(rows) :
           /\ s[j].kind = rows[j].kind /\ s[j].gen = g
           /\ s[j].seq = rows[j].seq /\ s[j].at = rows[j].seq
           /\ FrameOK(h, s[j]) /\ Replayed(s[j]) /\ ~Live(s[j])
           /\ Carries(s[j]) = Carries(rows[j])
  BY <1>a DEF RowsBehind
<1>2. \A k \in Nat : b <= k => Full(h, s, g, k, 0)
  <2>1. 0 \in 0 .. Len(rows)
    BY <1>1
  <2>2. QED BY <1>0, <2>1, ReplayFull
<1>3. ASSUME NEW j \in 1 .. Len(rows) PROVE Full(h, s, g, s[j].at, j)
  <2>1. rows[j].seq \in Nat /\ b <= rows[j].seq /\ j \in 0 .. Len(rows)
        /\ rows[j].seq <= rows[j].seq
    BY <1>1 DEF RowsBehind, IsHistory
  <2>2. Full(h, Replay(rows, g), g, rows[j].seq, j)
    BY <2>1, ReplayFull
  <2>3. QED BY <1>0, <1>1, <2>2
<1>4. ASSUME NEW j \in 1 .. Len(s)
      PROVE  /\ FrameOK(h, s[j]) /\ ~Live(s[j]) /\ s[j].kind # "connected" /\ s[j].gen = g
             /\ Replayed(s[j]) => s[j].seq <= h.sent + 1
             /\ s[j].kind = "snap" => /\ s[j].at \in 0 .. h.top
                                      /\ Claim(h, Carries(s[j]), s[j].at)
                                      /\ Full(h, s, g, s[j].at, j)
  <2>1. j \in 1 .. Len(rows)
    BY <1>1
  <2>2. rows[j].seq \in 1 .. h.top /\ rows[j].seq <= h.sent + 1
        /\ rows[j].kind # "connected" /\ Honest(h, rows[j], rows[j].seq) /\ h.top \in Nat
    BY <2>1 DEF RowsBehind, IsHistory
  <2>3. s[j].kind = "snap" => Claim(h, Carries(s[j]), s[j].at)
    BY <1>1, <2>1, <2>2 DEF Honest
  <2>4. QED BY <1>1, <1>3, <2>1, <2>2, <2>3
<1>5. QED BY <1>0, <1>1, <1>2, <1>4 DEF Served

\* The numbers of a history of the state.
LEMMA HistoryNumbers ==
  ASSUME ViewerInv, NEW D, NEW h, h = History(D)
  PROVE  /\ IsHistory(h) /\ h.says = D /\ h.leaf = leaf /\ h.emitted = emitted /\ h.top = seq
         /\ h.total = Total /\ h.sent = Sent
         /\ leaf \in Nat /\ seq \in Nat /\ Total \in Nat /\ Sent \in Int /\ Cached \in Int
         /\ seq <= Total /\ Sent <= Cached /\ Cached <= Sent + 1 /\ Cached <= seq
         /\ Sent <= Total /\ Total <= Sent + 1
         /\ gen \in Nat \ {0} /\ cursor \in Int /\ cursor <= seq /\ emitted \in Int
<1>1. leaf \in Nat /\ seq \in Nat /\ emitted \in Int /\ gen \in Nat \ {0}
      /\ cursor \in Int /\ cursor <= seq
  BY ViewerAssumption DEF ViewerInv, ViewerTypeOK, RelayOK, OrNone, Seqs, None
<1>2. pub.at \in {"idle", "number", "cache", "emit"}
  BY DEF ViewerInv, ViewerTypeOK
<1>3. /\ Total \in Nat /\ Sent \in Int /\ Cached \in Int
      /\ seq <= Total /\ Sent <= Cached /\ Cached <= Sent + 1 /\ Cached <= seq
      /\ Sent <= Total /\ Total <= Sent + 1
  BY <1>1, <1>2 DEF Total, Sent, Cached
<1>4. /\ h.says = D /\ h.leaf = leaf /\ h.emitted = emitted /\ h.top = seq
      /\ h.total = Total /\ h.sent = Sent
  BY DEF History
<1>5. QED BY <1>1, <1>3, <1>4 DEF IsHistory

\* The rows from position m + 1 are those behind number b.
CutAt(m, b) ==
  /\ m \in 0 .. Len(cache) /\ (m # 0 => cache[m].seq <= b)
  /\ \A i \in m + 1 .. Len(cache) : b < cache[i].seq
  /\ cache # <<>> /\ cache[1].seq <= b + 1

\* They are served with nothing missing.
LEMMA CacheRows ==
  ASSUME ViewerInv, NEW D, NEW h, h = History(D), CacheOK(h),
         NEW m, NEW b \in Nat, CutAt(m, b),
         NEW rows, rows = SubSeq(cache, m + 1, Len(cache))
  PROVE  RowsBehind(h, rows, b) /\ rows \in Seq(Row(h.leaf, h.top))
<1>1. cache \in Seq(Row(leaf, seq)) /\ Len(cache) \in Nat /\ DOMAIN cache = 1 .. Len(cache)
  BY LenProperties DEF ViewerInv, RelayOK
<1>o. \A i \in 1 .. Len(cache) : \A j \in 1 .. i - 1 : cache[j].seq < cache[i].seq
  BY <1>1 DEF ViewerInv, ViewerTypeOK
<1>n. Len(cache) \in Nat /\ m \in Nat /\ m <= Len(cache)
  BY <1>1 DEF CutAt
<1>2. /\ h.says = D /\ h.leaf = leaf /\ h.top = seq /\ h.sent = Sent
      /\ seq \in Nat /\ Sent \in Int /\ Cached \in Int
      /\ Sent <= Cached /\ Cached <= Sent + 1 /\ Cached <= seq
  BY HistoryNumbers
<1>3. \A i \in 1 .. Len(cache) :
        /\ cache[i] \in Row(leaf, seq) /\ cache[i].kind # "connected"
        /\ cache[i].seq \in 1 .. Cached /\ cache[i].seq \in 1 .. seq
        /\ cache[i].seq <= Sent + 1 /\ Honest(h, cache[i], cache[i].seq)
  <2>1. \A i \in 1 .. Len(cache) : cache[i] \in Row(leaf, seq)
    BY <1>1, ElementOfSeq
  <2>2. \A r \in Row(leaf, seq) : r.kind # "connected"
    BY DEF Row, EventKinds
  <2>3. QED BY <1>2, <2>1, <2>2 DEF CacheOK
<1>4. \A i \in m + 1 .. Len(cache) : cache[i] \in Row(leaf, seq)
  BY <1>n, <1>3
<1>5. /\ rows \in Seq(Row(leaf, seq)) /\ Len(rows) \in Nat /\ Len(rows) = Len(cache) - m
      /\ \A j \in 1 .. Len(rows) : rows[j] = cache[m + j]
  <2>1. CASE m = Len(cache)
    <3>1. rows = <<>>
      BY <1>1, <2>1
    <3>2. QED BY <1>1, <2>1, <3>1, EmptySeq
  <2>2. CASE m # Len(cache)
    <3>1. m + 1 \in 1 .. Len(cache)
      BY <1>n, <2>2
    <3>2. rows \in Seq(Row(leaf, seq)) /\ Len(rows) = Len(cache) - (m + 1) + 1
          /\ \A j \in 1 .. Len(cache) - (m + 1) + 1 : rows[j] = cache[(m + 1) + j - 1]
      BY <1>1, <1>4, <3>1, SubSeqProperties
    <3>3. QED BY <1>n, <3>2
  <2>3. QED BY <2>1, <2>2
<1>6. ASSUME NEW j \in 1 .. Len(rows)
      PROVE  /\ rows[j].seq \in 1 .. h.top /\ rows[j].seq <= h.sent + 1 /\ b < rows[j].seq
             /\ rows[j].kind # "connected" /\ Honest(h, rows[j], rows[j].seq)
             /\ \A i \in 1 .. j - 1 : rows[i].seq < rows[j].seq
  <2>1. m + j \in 1 .. Len(cache) /\ m + j \in m + 1 .. Len(cache) /\ rows[j] = cache[m + j]
    BY <1>n, <1>5
  <2>b. b < rows[j].seq
    BY <2>1 DEF CutAt
  <2>2. ASSUME NEW i \in 1 .. j - 1 PROVE rows[i].seq < rows[j].seq
    <3>1. i \in 1 .. Len(rows) /\ m + i \in 1 .. (m + j) - 1
      BY <1>n, <1>5
    <3>2. rows[i] = cache[m + i]
      BY <1>5, <3>1
    <3>3. QED BY <1>o, <2>1, <3>1, <3>2
  <2>3. QED BY <1>2, <1>3, <2>1, <2>b, <2>2
<1>7. ASSUME NEW n \in b + 1 .. h.sent, h.says[n] # {}
      PROVE  \E j \in 1 .. Len(rows) : rows[j].seq = n
  <2>1. n \in 1 .. Cached /\ ~(n < cache[1].seq)
    <3>1. 1 \in 1 .. Len(cache)
      BY <1>1, EmptySeq DEF CutAt
    <3>2. cache[1].seq \in Nat
      BY <1>2, <1>3, <3>1
    <3>3. QED BY <1>2, <3>2 DEF CutAt
  <2>2. PICK x \in 1 .. Len(cache) : cache[x].seq = n
    BY <1>7, <2>1 DEF CacheOK
  <2>3. m < x
    <3>1. SUFFICES ASSUME x <= m PROVE FALSE
      BY <1>n
    <3>2. m \in 1 .. Len(cache) /\ m # 0
      BY <1>n, <3>1
    <3>b. cache[m].seq <= b /\ cache[m].seq \in Nat
      BY <1>2, <1>3, <3>2 DEF CutAt
    <3>3. x = m \/ x \in 1 .. m - 1
      BY <1>n, <3>1
    <3>4. cache[x].seq <= cache[m].seq
      <4>1. cache[x].seq \in Nat
        BY <1>2, <1>3
      <4>2. QED BY <1>o, <3>2, <3>b, <3>3, <4>1
    <3>5. QED BY <1>2, <2>2, <3>b, <3>4
  <2>4. x - m \in 1 .. Len(rows) /\ rows[x - m] = cache[x]
    <3>1. x - m \in 1 .. Len(rows) /\ m + (x - m) = x
      BY <1>n, <1>5, <2>3
    <3>2. QED BY <1>5, <3>1
  <2>5. QED BY <2>2, <2>4
<1>8. QED BY <1>2, <1>5, <1>6, <1>7 DEF RowsBehind

\* getCachedRelayEventsAfterSeq serves a viewer that has all up to last.
LEMMA AfterServed ==
  ASSUME ViewerInv, NEW D, NEW h, h = History(D), CacheOK(h), NEW last \in Int,
         After(last) # <<>>, NEW g \in Nat
  PROVE  Served(h, Replay(After(last), g), g, last)
<1>. DEFINE old == {i \in DOMAIN cache : cache[i].seq <= last}
            m == Max({0} \cup old)
            rows == SubSeq(cache, m + 1, Len(cache))
<1>1. cache \in Seq(Row(leaf, seq)) /\ Len(cache) \in Nat /\ DOMAIN cache = 1 .. Len(cache)
  BY LenProperties DEF ViewerInv, RelayOK
<1>o. \A i \in 1 .. Len(cache) : \A j \in 1 .. i - 1 : cache[j].seq < cache[i].seq
  BY <1>1 DEF ViewerInv, ViewerTypeOK
<1>2. m \in 0 .. Len(cache) /\ m \in {0} \cup old /\ \A y \in old : y <= m
  <2>1. {0} \cup old \in SUBSET (0 .. Len(cache)) /\ {0} \cup old # {}
    BY <1>1
  <2>. HIDE DEF old
  <2>2. QED BY <1>1, <2>1, Greatest
<1>n. Len(cache) \in Nat /\ m \in Nat /\ m <= Len(cache)
  BY <1>1, <1>2
<1>3. After(last) = (IF \A i \in DOMAIN rows : rows[i].seq = last + i THEN rows ELSE <<>>)
  BY DEF After
<1>. HIDE DEF m
<1>4. After(last) = rows /\ \A i \in DOMAIN rows : rows[i].seq = last + i
  BY <1>3
<1>5. \A i \in 1 .. Len(cache) : cache[i].seq \in 1 .. Cached /\ cache[i].seq \in Nat
  BY HistoryNumbers DEF CacheOK
<1>6. m # 0 => cache[m].seq <= last
  BY <1>2
<1>7. ASSUME NEW i \in m + 1 .. Len(cache) PROVE last < cache[i].seq
  <2>1. i \in 1 .. Len(cache) /\ i \notin old
    BY <1>1, <1>2
  <2>2. QED BY <1>1, <1>5, <2>1
<1>8. cache # <<>> /\ cache[1].seq <= last + 1 /\ last \in Nat
  <2>1. m # Len(cache)
    <3>1. SUFFICES ASSUME m = Len(cache) PROVE FALSE
      OBVIOUS
    <3>2. rows = <<>>
      BY <1>1, <3>1
    <3>3. QED BY <1>4, <3>2
  <2>2. m + 1 \in 1 .. Len(cache) /\ 1 \in 1 .. Len(cache)
    BY <1>n, <2>1
  <2>3. \A i \in m + 1 .. Len(cache) : cache[i] \in Row(leaf, seq)
    BY <1>1, <1>2, ElementOfSeq
  <2>4. rows \in Seq(Row(leaf, seq)) /\ Len(rows) = Len(cache) - (m + 1) + 1
        /\ rows[1] = cache[(m + 1) + 1 - 1]
    BY <1>1, <2>2, <2>3, SubSeqProperties
  <2>5. 1 \in DOMAIN rows
    BY <1>1, <2>2, <2>4, LenProperties
  <2>6. cache[m + 1].seq = last + 1
    <3>1. rows[1].seq = last + 1
      BY <1>4, <2>5
    <3>2. (m + 1) + 1 - 1 = m + 1
      BY <1>n
    <3>3. QED BY <2>4, <3>1, <3>2
  <2>7. cache[1].seq <= cache[m + 1].seq
    <3>1. 1 = m + 1 \/ 1 \in 1 .. (m + 1) - 1
      BY <1>2
    <3>2. QED BY <1>o, <1>5, <2>2, <3>1
  <2>8. cache # <<>>
    BY <2>2, EmptySeq
  <2>9. cache[m + 1].seq \in 1 .. Cached /\ Cached \in Int
    BY <1>5, <2>2, HistoryNumbers
  <2>10. QED BY <2>6, <2>7, <2>8, <2>9
<1>9. RowsBehind(h, rows, last) /\ rows \in Seq(Row(h.leaf, h.top))
  <2>1. CutAt(m, last)
    BY <1>2, <1>6, <1>7, <1>8 DEF CutAt
  <2>2. QED BY <1>8, <2>1, CacheRows
<1>. HIDE DEF rows
<1>10. IsHistory(h)
  BY HistoryNumbers
<1>11. QED BY <1>4, <1>8, <1>9, <1>10, ReplayServed

\* The newest snapshot in the cache and what comes after it serve every viewer.
LEMMA FromCacheServed ==
  ASSUME ViewerInv, NEW D, NEW h, h = History(D), CacheOK(h), SnapshotAt # {}, NEW g \in Nat
  PROVE  Served(h, FromCache(g), g, None)
<1>. DEFINE row == cache[Latest]
            b == row.seq
            rows == Trailing
            t == Replay(rows, g)
            f == Frame("snap", row.item, None, b, FALSE, g)
            s == FromCache(g)
<1>1. cache \in Seq(Row(leaf, seq)) /\ Len(cache) \in Nat /\ DOMAIN cache = 1 .. Len(cache)
  BY LenProperties DEF ViewerInv, RelayOK
<1>o. \A i \in 1 .. Len(cache) : \A j \in 1 .. i - 1 : cache[j].seq < cache[i].seq
  BY <1>1 DEF ViewerInv, ViewerTypeOK
<1>2. Latest \in 1 .. Len(cache) /\ row.kind = "snap"
  <2>1. SnapshotAt \in SUBSET (0 .. Len(cache))
    BY <1>1 DEF SnapshotAt
  <2>2. Latest \in SnapshotAt
    BY <1>1, <2>1, Greatest DEF Latest
  <2>3. QED BY <1>1, <2>2 DEF SnapshotAt
<1>3. h.top = seq /\ Cached \in Int /\ Cached <= seq /\ seq \in Nat /\ IsHistory(h)
  BY HistoryNumbers
<1>4. \A i \in 1 .. Len(cache) : cache[i].seq \in 1 .. Cached /\ cache[i].seq \in Nat
                                 /\ Honest(h, cache[i], cache[i].seq)
  BY <1>3 DEF CacheOK
<1>5. b \in Nat /\ b \in 1 .. h.top /\ Honest(h, row, b)
  BY <1>2, <1>3, <1>4
<1>6. CutAt(Latest, b)
  <2>1. Latest \in 0 .. Len(cache) /\ Latest \in Nat /\ 1 \in 1 .. Len(cache)
    BY <1>1, <1>2
  <2>2. ASSUME NEW i \in Latest + 1 .. Len(cache) PROVE b < cache[i].seq
    <3>1. i \in 1 .. Len(cache) /\ Latest \in 1 .. i - 1
      BY <1>1, <1>2
    <3>2. QED BY <1>o, <3>1
  <2>3. cache # <<>>
    BY <2>1, EmptySeq
  <2>4. cache[1].seq <= b + 1
    <3>1. 1 = Latest \/ 1 \in 1 .. Latest - 1
      BY <1>2, <2>1
    <3>2. cache[1].seq \in Nat
      BY <1>4, <2>1
    <3>3. QED BY <1>o, <1>2, <1>5, <3>1, <3>2
  <2>5. QED BY <1>4, <1>2, <1>5, <2>1, <2>2, <2>3, <2>4 DEF CutAt
<1>7. RowsBehind(h, rows, b) /\ rows \in Seq(Row(h.leaf, h.top))
  BY <1>5, <1>6, CacheRows DEF Trailing
<1>8. Served(h, t, g, b)
  BY <1>3, <1>5, <1>7, ReplayServed
<1>9. Joins(s, <<f>>, t)
  <2>1. s = <<f>> \o t
    BY DEF FromCache, SnapshotEvent
  <2>2. t \in Seq(DownFrame(h.leaf, h.top))
    <3>1. h.leaf \in Nat /\ h.top \in Nat /\ g \in Int
      BY <1>3 DEF IsHistory
    <3>2. QED BY <1>7, <3>1, ReplayType
  <2>3. f \in DownFrame(h.leaf, h.top)
    <3>1. row \in Row(leaf, seq)
      BY <1>1, <1>2, ElementOfSeq
    <3>2. f \in EventFrame(leaf, seq)
      BY <1>3, <3>1 DEF Row, Frame, EventFrame, OrNone, EventKinds, None
    <3>3. QED BY <3>2, HistoryNumbers DEF DownFrame
  <2>4. QED BY <2>1, <2>2, <2>3, IsSingleton, ConcatJoins
<1>10. /\ f.kind = "snap" /\ f.gen = g /\ f.seq = None /\ f.at = b /\ ~f.delta
       /\ FrameOK(h, f) /\ ~Live(f) /\ ~Replayed(f) /\ Carries(f) = Carries(row)
       /\ \A n \in Nat : n <= b => Brings(f, g, n)
  <2>1. f.kind = "snap" /\ f.gen = g /\ f.seq = None /\ f.at = b /\ f.delta = FALSE
        /\ f.item = row.item
    BY DEF Frame
  <2>2. Carries(f) = Carries(row)
    <3>1. f.kind = "snap" /\ row.kind = "snap" /\ f.item = row.item
      BY <1>2, <2>1
    <3>. HIDE DEF f, row
    <3>2. QED BY <3>1 DEF Carries
  <2>. HIDE DEF f, row, b
  <2>3. g # None
    BY DEF None
  <2>4. FrameOK(h, f) /\ ~Live(f) /\ ~Replayed(f)
    BY <2>1, <2>3 DEF FrameOK, Live, Replayed, Restored
  <2>5. \A n \in Nat : n <= b => Brings(f, g, n)
    BY <2>1 DEF Brings
  <2>6. QED BY <2>1, <2>2, <2>4, <2>5
<1>11. Len(<<f>>) = 1 /\ <<f>>[1] = f
  OBVIOUS
<1>. HIDE DEF row, b, rows, t, f, s
<1>12. /\ Len(t) \in Nat /\ Len(s) = 1 + Len(t) /\ Len(s) \in Nat /\ s[1] = f
       /\ \A y \in 1 .. Len(t) : s[1 + y] = t[y]
  <2>1. Len(t) \in Nat
    BY <1>8 DEF Served
  <2>2. QED BY <1>9, <1>11, <2>1 DEF Joins
<1>13. Full(h, t, g, b, 0)
  BY <1>5, <1>8 DEF Served
<1>14. ASSUME NEW j \in 1 .. Len(s)
       PROVE  /\ FrameOK(h, s[j]) /\ ~Live(s[j]) /\ s[j].kind # "connected" /\ s[j].gen = g
              /\ Replayed(s[j]) => s[j].seq <= h.sent + 1
              /\ s[j].kind = "snap" => /\ s[j].at \in 0 .. h.top
                                       /\ Claim(h, Carries(s[j]), s[j].at)
                                       /\ Full(h, s, g, s[j].at, j)
  <2>1. CASE j = 1
    <3>1. s[j] = f
      BY <1>12, <2>1
    <3>2. Full(h, s, g, b, 1)
      <4>1. 0 \in 0 .. Len(t) /\ b \in Int
        BY <1>5, <1>12
      <4>2. Full(h, s, g, b, Len(<<f>>) + 0)
        BY <1>9, <1>13, <4>1, FullShifts
      <4>3. Len(<<f>>) + 0 = 1
        BY <1>11
      <4>4. QED BY <4>2, <4>3
    <3>3. Claim(h, Carries(f), b) /\ b \in 0 .. h.top
      BY <1>2, <1>3, <1>5, <1>10 DEF Honest
    <3>4. QED BY <1>10, <2>1, <3>1, <3>2, <3>3
  <2>2. ASSUME NEW y \in 1 .. Len(t), j = 1 + y, s[j] = t[y]
        PROVE  /\ FrameOK(h, s[j]) /\ ~Live(s[j]) /\ s[j].kind # "connected" /\ s[j].gen = g
               /\ Replayed(s[j]) => s[j].seq <= h.sent + 1
               /\ s[j].kind = "snap" => /\ s[j].at \in 0 .. h.top
                                        /\ Claim(h, Carries(s[j]), s[j].at)
                                        /\ Full(h, s, g, s[j].at, j)
    <3>1. /\ FrameOK(h, t[y]) /\ ~Live(t[y]) /\ t[y].kind # "connected" /\ t[y].gen = g
          /\ Replayed(t[y]) => t[y].seq <= h.sent + 1
          /\ t[y].kind = "snap" => /\ t[y].at \in 0 .. h.top
                                   /\ Claim(h, Carries(t[y]), t[y].at)
                                   /\ Full(h, t, g, t[y].at, y)
      BY <1>8 DEF Served
    <3>2. t[y].kind = "snap" => Full(h, s, g, t[y].at, 1 + y)
      <4>1. SUFFICES ASSUME t[y].kind = "snap" PROVE Full(h, s, g, t[y].at, 1 + y)
        OBVIOUS
      <4>2. t[y].at \in Int /\ y \in 0 .. Len(t) /\ Full(h, t, g, t[y].at, y)
        BY <1>12, <3>1, <4>1
      <4>3. Full(h, s, g, t[y].at, Len(<<f>>) + y)
        BY <1>9, <4>2, FullShifts
      <4>4. QED BY <1>11, <4>3
    <3>3. QED BY <2>2, <3>1, <3>2
  <2>3. j = 1 \/ \E y \in 1 .. Len(t) : j = 1 + y /\ s[j] = t[y]
    <3>1. j = 1 \/ (j - 1 \in 1 .. Len(t) /\ j = 1 + (j - 1))
      BY <1>12
    <3>2. QED BY <1>12, <3>1
  <2>4. QED BY <2>1, <2>2, <2>3
<1>15. ASSUME NEW k \in Nat PROVE Full(h, s, g, k, 0)
  <2>1. 0 \in 0 .. Len(<<f>>) /\ h.sent \in Int
    BY <1>3, <1>11 DEF IsHistory
  <2>2. Follows(h, s, g, k + 1 .. h.sent, 0)
    <3>1. ASSUME NEW n \in k + 1 .. h.sent, h.says[n] # {}
          PROVE  \/ \E j \in 0 + 1 .. Len(<<f>>) : Brings(<<f>>[j], g, n)
                 \/ \E j \in 1 .. Len(t) : Brings(t[j], g, n)
      <4>1. CASE n <= b
        BY <1>10, <1>11, <2>1, <4>1
      <4>2. CASE ~(n <= b)
        <5>1. n \in b + 1 .. h.sent
          BY <1>5, <2>1, <4>2
        <5>2. \E j \in 0 + 1 .. Len(t) : Brings(t[j], g, n)
          BY <1>13, <3>1, <5>1 DEF Full, Follows
        <5>3. QED BY <5>2
      <4>3. QED BY <4>1, <4>2
    <3>2. QED BY <1>9, <2>1, <3>1, FollowsJoins
  <2>3. NoSkip(h, <<f>>, g, k, 0)
    BY <1>10, <1>11 DEF NoSkip
  <2>4. InOrder(h, <<f>>, t, g, k, 0)
    <3>1. SUFFICES ASSUME NEW j \in 1 .. Len(t), Replayed(t[j]), t[j].gen = g,
                          NEW n \in k + 1 .. t[j].seq - 1, h.says[n] # {}
                   PROVE  \/ \E x \in 0 + 1 .. Len(<<f>>) : Brings(<<f>>[x], g, n)
                          \/ \E x \in 1 .. j - 1 : Brings(t[x], g, n)
      BY DEF InOrder
    <3>2. FrameOK(h, t[j])
      BY <1>8 DEF Served
    <3>3. t[j].seq \in Nat
      BY <1>3, <3>1, <3>2, FrameNumbers
    <3>4. CASE n <= b
      BY <1>10, <1>11, <3>3, <3>4
    <3>5. CASE ~(n <= b)
      <4>1. n \in b + 1 .. t[j].seq - 1 /\ j \in 0 + 1 .. Len(t)
        BY <1>5, <3>3, <3>5
      <4>2. \E x \in 0 + 1 .. j - 1 : Brings(t[x], g, n)
        BY <1>13, <3>1, <4>1 DEF Full, NoSkip
      <4>3. QED BY <4>2
    <3>6. QED BY <3>4, <3>5
  <2>5. NoSkip(h, s, g, k, 0)
    BY <1>9, <2>1, <2>3, <2>4, NoSkipJoins
  <2>6. QED BY <2>2, <2>5 DEF Full
<1>16. QED BY <1>12, <1>14, <1>15 DEF Served, s

-----------------------------------------------------------------------------
(* The runner's steps and the publishing: the history grows.               *)

\* The numbers of a history of the state, and of one of the next state.
LEMMA HistoriesNumbers ==
  ASSUME ViewerInv, NEW h \in Histories
  PROVE  /\ IsHistory(h) /\ h.leaf = leaf /\ h.emitted = emitted /\ h.top = seq
         /\ h.total = Total /\ h.sent = Sent
         /\ h.says \in [1 .. Total -> SUBSET (1 .. leaf)]
         /\ \E D : h = History(D)
<1>1. PICK D \in [1 .. Total -> SUBSET (1 .. leaf)] : h = History(D)
  BY DEF Histories
<1>2. h.says = D
  BY <1>1, HistoryNumbers
<1>3. QED BY <1>1, <1>2, HistoryNumbers

\* The same of the next state.
LEMMA NextNumbers ==
  ASSUME ViewerInv', NEW h \in Histories'
  PROVE  /\ IsHistory(h) /\ h.leaf = leaf' /\ h.emitted = emitted' /\ h.top = seq'
         /\ h.total = Total' /\ h.sent = Sent'
         /\ h.says \in [1 .. Total' -> SUBSET (1 .. leaf')]
         /\ leaf' \in Nat /\ seq' \in Nat /\ Total' \in Nat /\ Sent' \in Int /\ emitted' \in Int
         /\ cursor' \in Int
<1>2. leaf' \in Nat /\ seq' \in Nat /\ emitted' \in Int /\ cursor' \in Int
  BY ViewerAssumption DEF ViewerInv, ViewerTypeOK, RelayOK, OrNone, Seqs, None
<1>3. pub'.at \in {"idle", "number", "cache", "emit"}
  BY DEF ViewerInv, ViewerTypeOK
<1>t. /\ Total' = IF pub'.at = "number" THEN seq' + 1 ELSE seq'
      /\ Sent' = IF pub'.at = "idle" THEN seq' ELSE Total' - 1
  BY DEF Total, Sent
<1>4. Total' \in Nat /\ Sent' \in Int /\ seq' <= Total' /\ Sent' <= Total' /\ Total' <= Sent' + 1
  <2>1. PICK s, at, t1, t2 : s = seq' /\ at = pub'.at /\ t1 = Total' /\ t2 = Sent'
    OBVIOUS
  <2>2. t1 \in Nat /\ t2 \in Int /\ s <= t1 /\ t2 <= t1 /\ t1 <= t2 + 1
    <3>1. s \in Nat /\ t1 = (IF at = "number" THEN s + 1 ELSE s)
          /\ t2 = (IF at = "idle" THEN s ELSE t1 - 1)
      BY <1>t, <1>2, <2>1
    <3>2. CASE at = "idle"
      BY <3>1, <3>2
    <3>3. CASE at = "number"
      BY <3>1, <3>3
    <3>4. CASE at # "idle" /\ at # "number"
      BY <3>1, <3>4
    <3>5. QED BY <3>2, <3>3, <3>4
  <2>3. QED BY <2>1, <2>2
<1>1. PICK D \in [1 .. Total' -> SUBSET (1 .. leaf')] : h = History(D)'
  BY DEF Histories
<1>5. h.says = D /\ h.leaf = leaf' /\ h.emitted = emitted' /\ h.top = seq'
      /\ h.total = Total' /\ h.sent = Sent'
  BY <1>1 DEF History
<1>6. QED BY <1>2, <1>4, <1>5 DEF IsHistory

\* The runner's next event continues the history.
LEMMA NewEvent ==
  ASSUME ViewerInv, ViewerInv', NEW h \in Histories, pub.at = "idle", pub'.at = "number",
         seq' = seq, leaf <= leaf', Carries(pub') \subseteq 1 .. leaf',
         \A m \in 1 .. leaf' : \/ m \in 1 .. leaf /\ m <= emitted
                               \/ emitted' < m \/ m \in Carries(pub')
  PROVE  \E h2 \in Histories' :
           Later(h, h2) /\ h2.sent = h.sent /\ h2.says[Total'] = Carries(pub')
           /\ Total' = Total + 1
<1>1. PICK D2 : D2 = [n \in 1 .. Total' |->
                        IF n \in 1 .. Total THEN h.says[n] ELSE Carries(pub')]
  OBVIOUS
<1>t. /\ Total' = IF pub'.at = "number" THEN seq' + 1 ELSE seq'
      /\ Sent' = IF pub'.at = "idle" THEN seq' ELSE Total' - 1
      /\ Total = IF pub.at = "number" THEN seq + 1 ELSE seq
      /\ Sent = IF pub.at = "idle" THEN seq ELSE Total - 1
  BY DEF Total, Sent
<1>2. Total = seq /\ Sent = seq /\ Total' = seq + 1 /\ Sent' = seq
  <2>1. seq \in Int
    BY DEF ViewerInv, RelayOK
  <2>2. QED BY <1>t, <2>1
<1>3. /\ h.says \in [1 .. Total -> SUBSET (1 .. leaf)] /\ IsHistory(h) /\ h.leaf = leaf
      /\ h.emitted = emitted /\ h.top = seq /\ h.total = Total /\ h.sent = Sent
  BY HistoriesNumbers
<1>4. leaf \in Nat /\ leaf' \in Nat /\ seq \in Nat
  BY DEF ViewerInv, ViewerTypeOK, RelayOK
<1>5. D2 \in [1 .. Total' -> SUBSET (1 .. leaf')]
  <2>1. ASSUME NEW n \in 1 .. Total'
        PROVE  (IF n \in 1 .. Total THEN h.says[n] ELSE Carries(pub')) \in SUBSET (1 .. leaf')
    <3>1. 1 .. leaf \subseteq 1 .. leaf'
      BY <1>4
    <3>2. CASE n \in 1 .. Total
      BY <1>3, <3>1, <3>2
    <3>3. CASE n \notin 1 .. Total
      BY <3>3
    <3>4. QED BY <3>2, <3>3
  <2>2. QED BY <1>1, <2>1
<1>6. \A n \in 1 .. Total' : D2[n] = IF n \in 1 .. Total THEN h.says[n] ELSE Carries(pub')
  BY <1>1
<1>7. PICK h2 \in Histories' : h2 = History(D2)'
  BY <1>5 DEF Histories
<1>8. h2.says = D2
  BY <1>7 DEF History
<1>9. /\ IsHistory(h2) /\ h2.leaf = leaf' /\ h2.emitted = emitted' /\ h2.top = seq
      /\ h2.total = Total' /\ h2.sent = Sent'
  BY NextNumbers
<1>10. \A n \in 1 .. h.total : h2.says[n] = h.says[n]
  <2>1. \A n \in 1 .. Total : n \in 1 .. Total'
    BY <1>2, <1>4
  <2>2. QED BY <1>3, <1>6, <1>8, <2>1
<1>11. h2.says[Total'] = Carries(pub')
  <2>1. Total' \in 1 .. Total' /\ Total' \notin 1 .. Total
    BY <1>2, <1>4
  <2>2. QED BY <1>6, <1>8, <2>1
<1>12. \A m \in 1 .. h2.leaf : \/ m \in 1 .. h.leaf /\ m <= h.emitted
                               \/ h2.emitted < m
                               \/ \E n \in h.total + 1 .. h2.total : m \in h2.says[n]
  <2>1. Total' \in h.total + 1 .. h2.total
    BY <1>2, <1>3, <1>4, <1>9
  <2>2. QED BY <1>3, <1>9, <1>11, <2>1
<1>13. h.total <= h2.total /\ h.top <= h2.top /\ h.sent <= h2.sent /\ h2.sent = h.sent
       /\ Total' = Total + 1
  BY <1>2, <1>3, <1>4, <1>9
<1>14. Later(h, h2)
  BY <1>3, <1>9, <1>10, <1>12, <1>13 DEF Later
<1>15. QED BY <1>11, <1>13, <1>14

\* What is on its way down.
LEMMA FramesTyped ==
  ASSUME ViewerInv
  PROVE  /\ Len(down) \in Nat /\ down \in Seq(DownFrame(leaf, seq))
         /\ \A i \in 1 .. Len(down) :
              /\ down[i] \in DownFrame(leaf, seq)
              /\ down[i].gen \in Int
              /\ down[i].kind = "snap" => down[i].at \in Nat
              /\ down[i].kind = "connected" => down[i].seq \in Nat /\ down[i].seq <= seq
         /\ leaf \in Nat /\ seq \in Nat
<1>1. down \in Seq(DownFrame(leaf, seq)) /\ leaf \in Nat /\ seq \in Nat
  BY DEF ViewerInv, WireOK, ViewerTypeOK, RelayOK
<1>2. Len(down) \in Nat /\ \A i \in 1 .. Len(down) : down[i] \in DownFrame(leaf, seq)
  BY <1>1, ElementOfSeq, LenProperties
<1>3. \A f \in DownFrame(leaf, seq) :
        /\ f.gen \in Int
        /\ f.kind = "snap" => f.at \in Nat
        /\ f.kind = "connected" => f.seq \in Nat /\ f.seq <= seq
  <2>1. ASSUME NEW f \in EventFrame(leaf, seq)
        PROVE  f.gen \in Int /\ (f.kind = "snap" => f.at \in Nat) /\ f.kind # "connected"
    BY DEF EventFrame, OrNone, None, EventKinds
  <2>2. ASSUME NEW f \in [kind : {"connected"}, seq : 0 .. seq, gen : Int]
        PROVE  f.gen \in Int /\ f.kind = "connected" /\ f.seq \in Nat /\ f.seq <= seq
    BY <1>1
  <2>3. QED BY <2>1, <2>2 DEF DownFrame
<1>4. QED BY <1>1, <1>2, <1>3

\* Nothing the viewer is brought changes when the runner's history goes on.
SameWay ==
  UNCHANGED <<joined, conn, act, flags, down, up, gen, cursor, awaiting, hydrated, shown,
              passed>>

\* A viewer that resumes still does when the runner or the relay goes on.
LEMMA ResumingLater ==
  ASSUME NEW h, NEW h2, Later(h, h2), h.sent = Sent, h2.sent = Sent', h2.sent = h.sent,
         SameWay, Upcoming \/ asked > 0 => Upcoming' \/ asked' > 0,
         NEW k \in Nat, Resuming(h, k)
  PROVE  Resuming(h2, k)'
<1>1. joined' = joined /\ act' = act /\ flags' = flags /\ down' = down /\ up' = up
      /\ gen' = gen /\ cursor' = cursor /\ Sent' = Sent
  BY DEF SameWay
<1>2. CASE ~joined /\ up = <<Switch(gen, cursor)>>
  BY <1>1, <1>2 DEF Resuming, Switch
<1>3. CASE ~(~joined /\ up = <<Switch(gen, cursor)>>)
  <2>1. joined /\ (\A i \in 1 .. Len(up) : up[i].kind = "connected")
        /\ (\A i \in 1 .. Len(down) :
              Live(down[i]) \/ Repeated(down[i]) \/ down[i].kind = "connected")
    BY <1>3 DEF Resuming
  <2>2. CASE act.at = "seq" /\ act.gen = gen /\ act.last <= cursor
    BY <1>1, <2>1, <2>2 DEF Resuming
  <2>3. CASE /\ act.at = "cache" /\ act.gen = gen /\ act.last <= cursor
             /\ Follows(h, down, gen, (k + 1 .. Sent) \ (1 .. act.fresh), 0)
             /\ ~flags.suppress /\ ~flags.ready /\ (Greeted \/ flags.pending)
    <3>1. (k + 1 .. Sent) \ (1 .. act.fresh) \subseteq 1 .. h.total
      BY DEF Later, IsHistory
    <3>2. Follows(h2, down, gen, (k + 1 .. Sent) \ (1 .. act.fresh), 0)
      BY <2>3, <3>1, FollowsLater
    <3>3. Greeted' = Greeted
      BY <1>1 DEF Greeted
    <3>4. Follows(h2, down', gen', (k + 1 .. Sent') \ (1 .. act'.fresh), 0)
      BY <1>1, <3>2
    <3>5. QED BY <1>1, <2>1, <2>3, <3>3, <3>4 DEF Resuming
  <2>4. CASE /\ act.at = "idle" /\ ~flags.suppress /\ flags.ready
             /\ \/ Greeted \/ asked > 0 \/ Upcoming
                \/ \E i \in 1 .. Len(down) : Live(down[i]) /\ down[i].kind = "snap"
    <3>1. Greeted' = Greeted
      BY <1>1 DEF Greeted
    <3>2. \/ Greeted' \/ asked' > 0 \/ Upcoming'
          \/ \E i \in 1 .. Len(down') : Live(down'[i]) /\ down'[i].kind = "snap"
      BY <1>1, <2>4, <3>1
    <3>3. QED BY <1>1, <2>1, <2>4, <3>2 DEF Resuming
  <2>5. QED BY <1>3, <2>2, <2>3, <2>4 DEF Resuming
<1>4. QED BY <1>2, <1>3

\* The parts that speak of the viewer hold of the later history.
LEMMA LaterKeeps ==
  ASSUME ViewerInv, ViewerInv', NEW h \in Histories, NEW h2 \in Histories', Later(h, h2),
         h2.sent = h.sent, HistoryOK(h), SameWay, GreetingsOK(down, cursor),
         Upcoming \/ asked > 0 => Upcoming' \/ asked' > 0
  PROVE  /\ FramesOK(h2, down)' /\ StoredOK(h2, down, gen, Reached)' /\ ViewerOK(h2)'
         /\ GreetingsOK(down, cursor)'
<1>1. joined' = joined /\ down' = down /\ gen' = gen /\ cursor' = cursor /\ conn' = conn
      /\ hydrated' = hydrated /\ shown' = shown /\ passed' = passed
  BY DEF SameWay
<1>2. IsHistory(h) /\ h.sent = Sent /\ h2.sent = Sent' /\ h.top = seq /\ h2.top = seq'
      /\ h.total = Total
  BY HistoriesNumbers, NextNumbers
<1>3. Len(down) \in Nat /\ (\A i \in 1 .. Len(down) : down[i].kind = "snap" => down[i].at \in Nat)
  BY FramesTyped
<1>4. FramesOK(h, down) /\ StoredOK(h, down, gen, Reached) /\ ViewerOK(h)
  BY DEF HistoryOK
<1>5. FramesOK(h2, down)
  BY <1>3, <1>4, FramesLater
<1>6. StoredOK(h2, down, gen, Reached)
  BY <1>3, <1>4, StoredLater
<1>7. Reached' = Reached
  BY <1>1 DEF Reached
<1>8. ViewerOK(h2)'
  <2>1. SUFFICES ASSUME hydrated, passed = 0
                 PROVE  \E k \in 0 .. seq' :
                          /\ cursor <= k /\ Claim(h2, shown, k)
                          /\ \/ ~conn \/ (joined /\ Full(h2, down, gen, k, 0))
                             \/ Resuming(h2, k)'
    BY <1>1 DEF ViewerOK
  <2>2. PICK k \in 0 .. seq : /\ cursor <= k /\ Claim(h, shown, k)
                              /\ ~conn \/ (joined /\ Full(h, down, gen, k, 0)) \/ Resuming(h, k)
    BY <1>4, <2>1 DEF ViewerOK
  <2>3. k \in Nat /\ k <= h.total /\ k \in 0 .. seq'
    BY <1>2, <2>2 DEF Later, IsHistory
  <2>4. Claim(h2, shown, k)
    BY <2>2, <2>3, ClaimLater
  <2>5. Full(h, down, gen, k, 0) => Full(h2, down, gen, k, 0)
    BY <1>3, <1>4, <2>3, FullLater
  <2>6. Resuming(h, k) => Resuming(h2, k)'
    BY <1>2, <2>3, ResumingLater
  <2>7. QED BY <2>2, <2>3, <2>4, <2>5, <2>6
<1>9. QED BY <1>1, <1>5, <1>6, <1>7, <1>8

\* The cache when it is not written.
LEMMA CacheLater ==
  ASSUME NEW h, NEW h2, Later(h, h2), CacheOK(h), cache' = cache, Cached \in Int,
         Cached <= h.total,
         Cached' = Cached \/ (Cached' = Cached + 1 /\ h2.says[Cached'] = {})
  PROVE  CacheOK(h2)'
<1>1. h.total \in Nat
  BY DEF Later, IsHistory
<1>2. ASSUME NEW i \in 1 .. Len(cache)
      PROVE  cache[i].seq \in 1 .. Cached' /\ Honest(h2, cache[i], cache[i].seq)
  <2>1. cache[i].seq \in 1 .. Cached /\ Honest(h, cache[i], cache[i].seq)
    BY DEF CacheOK
  <2>2. cache[i].seq \in 1 .. h.total /\ cache[i].seq \in Nat /\ cache[i].seq <= h.total
    BY <1>1, <2>1
  <2>3. h2.says[cache[i].seq] = h.says[cache[i].seq]
    BY <2>2 DEF Later
  <2>4. Honest(h2, cache[i], cache[i].seq)
    BY <2>1, <2>2, <2>3, ClaimLater DEF Honest
  <2>5. cache[i].seq \in 1 .. Cached'
    BY <2>1
  <2>6. QED BY <2>4, <2>5
<1>3. ASSUME NEW n \in 1 .. Cached', h2.says[n] # {}
      PROVE  \/ \E i \in 1 .. Len(cache) : cache[i].seq = n
             \/ cache # <<>> /\ n < cache[1].seq
  <2>1. n # Cached' \/ Cached' = Cached
    BY <1>3
  <2>2. n \in 1 .. Cached
    BY <2>1
  <2>3. h.says[n] # {}
    BY <1>1, <1>3, <2>2 DEF Later
  <2>4. QED BY <2>2, <2>3 DEF CacheOK
<1>4. QED BY <1>2, <1>3 DEF CacheOK

\* A new event of the runner.
RunnerEvent ==
  /\ pub.at = "idle" /\ pub'.at = "number" /\ seq' = seq /\ cache' = cache /\ SameWay
  /\ leaf <= leaf' /\ Carries(pub') \subseteq 1 .. leaf' /\ lastState' = emitted'
  /\ pub'.kind = "snap" => pub'.item = leaf'
  /\ asked > 0 => Upcoming' \/ asked' > 0
  /\ Upcoming' \/ emitted' = emitted
  /\ \A m \in 1 .. leaf' : \/ m \in 1 .. leaf /\ m <= emitted
                           \/ emitted' < m \/ m \in Carries(pub')

\* The four steps of the runner are such events.
LEMMA RunnerSays ==
  ASSUME ViewerInv, SocketOK, Message \/ HeartbeatSnapshot \/ RecoverySnapshot \/ Heartbeat
  PROVE  RunnerEvent
<1>1. leaf \in Nat /\ emitted \in Int /\ emitted <= leaf /\ asked \in Nat /\ lastState = emitted
  BY ViewerAssumption DEF ViewerInv, ViewerTypeOK, OrNone, None, SocketOK
<1>2. CASE Message
  <2>1. pub' = [at |-> "number", kind |-> "msg", item |-> leaf + 1, seq |-> None]
        /\ pub.at = "idle" /\ leaf' = leaf + 1 /\ seq' = seq /\ cache' = cache /\ SameWay
        /\ emitted' = emitted /\ lastState' = lastState /\ asked' = asked
    BY <1>2 DEF Message, Publish, redis, socket, ui, SameWay
  <2>2. Carries(pub') = {leaf + 1} /\ pub'.kind # "snap" /\ pub'.at = "number"
    BY <2>1 DEF Carries
  <2>3. \A m \in 1 .. leaf + 1 : emitted < m \/ (m \in 1 .. leaf /\ m <= emitted)
    BY <1>1
  <2>4. leaf <= leaf' /\ {leaf + 1} \subseteq 1 .. leaf'
    BY <1>1, <2>1
  <2>5. QED BY <1>1, <2>1, <2>2, <2>3, <2>4 DEF RunnerEvent
<1>3. CASE HeartbeatSnapshot \/ RecoverySnapshot
  <2>1. pub' = [at |-> "number", kind |-> "snap", item |-> leaf, seq |-> None]
        /\ pub.at = "idle" /\ leaf' = leaf /\ seq' = seq /\ cache' = cache /\ SameWay
        /\ emitted' = leaf /\ lastState' = leaf
    BY <1>3 DEF HeartbeatSnapshot, RecoverySnapshot, Snapshot, Publish, socket, ui, SameWay
  <2>2. Carries(pub') = 1 .. leaf /\ pub'.item = leaf /\ pub'.at = "number" /\ Upcoming'
    BY <2>1 DEF Carries, Upcoming
  <2>3. leaf <= leaf'
    BY <1>1, <2>1
  <2>4. QED BY <2>1, <2>2, <2>3 DEF RunnerEvent
<1>4. CASE Heartbeat
  <2>1. /\ pub.at = "idle" /\ leaf' = leaf /\ seq' = seq /\ cache' = cache /\ SameWay
        /\ emitted' = emitted /\ lastState' = lastState /\ asked' = asked
        /\ pub'.at = "number" /\ pub'.kind \in {"tick", "meta"}
    BY <1>4 DEF Heartbeat, Publish, runner, redis, socket, ui, SameWay
  <2>2. Carries(pub') = {} /\ pub'.kind # "snap"
    BY <2>1 DEF Carries
  <2>3. leaf <= leaf' /\ \A m \in 1 .. leaf : m <= emitted \/ emitted < m
    BY <1>1, <2>1
  <2>4. QED BY <1>1, <2>1, <2>2, <2>3 DEF RunnerEvent
<1>5. QED BY <1>2, <1>3, <1>4

\* The runner's steps keep the invariant: the new event carries what is new.
LEMMA RunnerHole ==
  ASSUME HoleInv, Message \/ HeartbeatSnapshot \/ RecoverySnapshot \/ Heartbeat
  PROVE  HoleInv'
<1>1. ViewerInv /\ SocketOK /\ GreetingsOK(down, cursor) /\ ActOK
  BY DEF HoleInv
<1>2. PICK h \in Histories : HistoryOK(h)
  BY DEF HoleInv
<1>3. ViewerInv'
  BY <1>1, ViewerNext DEF Next
<1>4. RunnerEvent
  BY <1>1, RunnerSays
<1>5. PICK h2 \in Histories' :
        Later(h, h2) /\ h2.sent = h.sent /\ h2.says[Total'] = Carries(pub') /\ Total' = Total + 1
  BY <1>1, <1>3, <1>4, NewEvent DEF RunnerEvent
<1>6. /\ FramesOK(h2, down)' /\ StoredOK(h2, down, gen, Reached)' /\ ViewerOK(h2)'
      /\ GreetingsOK(down, cursor)'
  <2>1. ~Upcoming
    BY <1>4 DEF RunnerEvent, Upcoming
  <2>2. QED BY <1>1, <1>2, <1>3, <1>4, <1>5, <2>1, LaterKeeps DEF RunnerEvent
<1>7. /\ leaf \in Nat /\ seq \in Nat /\ emitted \in Int /\ Total \in Nat /\ Cached \in Int
      /\ Cached <= seq /\ seq <= Total /\ h.total = Total
  BY <1>1, HistoriesNumbers, HistoryNumbers
<1>8. CacheOK(h2)'
  <2>1. Cached = seq /\ Cached' = seq' /\ seq' = seq /\ cache' = cache
    BY <1>4 DEF Cached, RunnerEvent
  <2>2. QED BY <1>2, <1>5, <1>7, <2>1, CacheLater DEF HistoryOK
<1>9. PubOK(h2)'
  <2>1. 1 <= Total'
    BY <1>5, <1>7
  <2>2. QED BY <1>4, <1>5, <2>1 DEF PubOK, RunnerEvent
<1>10. SocketOK'
  BY <1>1, <1>4 DEF SocketOK, RunnerEvent, SameWay
<1>11. ActOK'
  <2>0. Total = seq /\ act' = act /\ down' = down /\ Reached' = Reached /\ seq' = seq
    BY <1>4 DEF Total, RunnerEvent, SameWay, Reached
  <2>1. SUFFICES ASSUME act.at = "cache", act.state # None,
                        ~(act.fresh < Reached),
                        ~\E j \in 1 .. Len(down) :
                           Live(down[j]) /\ down[j].kind = "snap" /\ act.fresh < down[j].at
                 PROVE  \A m \in act.state + 1 .. leaf' :
                          emitted' < m \/ (Upcoming' /\ act.fresh < Total')
    BY <2>0 DEF ActOK
  <2>2. act.fresh \in 0 .. seq /\ act.state \in 0 .. leaf
    BY <1>1, <2>1 DEF ViewerInv, RelayOK, OrNone
  <2>3. CASE Upcoming'
    <3>1. act.fresh < Total'
      BY <1>5, <1>7, <2>0, <2>2
    <3>2. QED BY <2>3, <3>1
  <2>4. CASE ~Upcoming'
    <3>1. emitted' = emitted /\ emitted <= leaf /\ ~Upcoming
      BY <1>1, <1>4, <2>4 DEF RunnerEvent, Upcoming, ViewerInv, ViewerTypeOK, OrNone, None
    <3>2. \A m \in act.state + 1 .. leaf : emitted < m
      BY <1>1, <2>1, <3>1 DEF ActOK
    <3>3. PICK l : l = leaf'
      OBVIOUS
    <3>4. l \in Nat
      BY <1>3, <3>3 DEF ViewerInv, ViewerTypeOK
    <3>5. \A m \in act.state + 1 .. l : emitted < m
      BY <1>7, <2>2, <3>1, <3>2, <3>4
    <3>6. QED BY <3>1, <3>3, <3>5
  <2>5. QED BY <2>3, <2>4
<1>12. QED BY <1>3, <1>6, <1>8, <1>9, <1>10, <1>11 DEF HoleInv, HistoryOK

\* A history that is kept when the event being published gets on.
LEMMA SameHistory ==
  ASSUME ViewerInv, ViewerInv', NEW h \in Histories, leaf' = leaf, emitted' = emitted,
         Total' = Total, seq <= seq', Sent <= Sent'
  PROVE  \E h2 \in Histories' : Later(h, h2) /\ h2.says = h.says
<1>1. /\ h.says \in [1 .. Total -> SUBSET (1 .. leaf)] /\ IsHistory(h) /\ h.leaf = leaf
      /\ h.emitted = emitted /\ h.top = seq /\ h.total = Total /\ h.sent = Sent
  BY HistoriesNumbers
<1>2. PICK D : D = h.says
  OBVIOUS
<1>3. PICK h2 \in Histories' : h2 = History(D)'
  BY <1>1, <1>2 DEF Histories
<1>4. h2.says = h.says
  BY <1>2, <1>3 DEF History
<1>5. /\ IsHistory(h2) /\ h2.leaf = leaf /\ h2.emitted = emitted /\ h2.top = seq'
      /\ h2.total = Total /\ h2.sent = Sent'
  BY NextNumbers
<1>6. \A m \in 1 .. leaf : m <= emitted \/ emitted < m
  BY <1>1 DEF IsHistory
<1>7. Later(h, h2)
  BY <1>1, <1>4, <1>5, <1>6 DEF Later, IsHistory
<1>8. QED BY <1>4, <1>7

\* What an activation has read stays right when the runner does nothing.
LEMMA ActSame ==
  ASSUME ActOK, SameWay, leaf' = leaf, emitted' = emitted, Total' = Total,
         Upcoming' = Upcoming
  PROVE  ActOK'
BY DEF ActOK, SameWay, Reached

\* incrementSeq: the event that was to be numbered gets its number.
LEMMA PublishNumberHole ==
  ASSUME HoleInv, PublishNumber
  PROVE  HoleInv'
<1>1. ViewerInv /\ SocketOK /\ GreetingsOK(down, cursor) /\ ActOK
  BY DEF HoleInv
<1>2. PICK h \in Histories : HistoryOK(h)
  BY DEF HoleInv
<1>3. ViewerInv'
  BY <1>1, ViewerNext DEF Next
<1>4. /\ pub.at = "number" /\ seq' = seq + 1 /\ cache' = cache /\ SameWay
      /\ leaf' = leaf /\ emitted' = emitted /\ asked' = asked /\ lastState' = lastState
      /\ pub' = [pub EXCEPT !.at = IF pub.kind = "meta" THEN "emit" ELSE "cache",
                            !.seq = seq + 1]
  BY DEF PublishNumber, runner, redis, socket, ui, SameWay
<1>5. /\ pub'.at = IF pub.kind = "meta" THEN "emit" ELSE "cache"
      /\ pub'.kind = pub.kind /\ pub'.item = pub.item
  BY <1>1, <1>4 DEF ViewerInv, ViewerTypeOK
<1>6. /\ Total = seq + 1 /\ Total' = seq + 1 /\ Sent = (seq + 1) - 1 /\ Sent' = (seq + 1) - 1
      /\ Cached = seq /\ Cached' = IF pub.kind = "meta" THEN seq + 1 ELSE (seq + 1) - 1
  BY <1>4, <1>5 DEF Total, Sent, Cached
<1>7. seq \in Nat /\ leaf \in Nat /\ h.total = Total /\ h.sent = Sent
  BY <1>1, HistoriesNumbers, HistoryNumbers
<1>8. PICK h2 \in Histories' : Later(h, h2) /\ h2.says = h.says
  BY <1>1, <1>3, <1>4, <1>6, <1>7, SameHistory
<1>9. h2.sent = h.sent
  BY <1>3, <1>6, <1>7, NextNumbers
<1>10. Upcoming' = Upcoming
  BY <1>4, <1>5 DEF Upcoming
<1>11. /\ FramesOK(h2, down)' /\ StoredOK(h2, down, gen, Reached)' /\ ViewerOK(h2)'
       /\ GreetingsOK(down, cursor)'
  BY <1>1, <1>2, <1>3, <1>4, <1>8, <1>9, <1>10, LaterKeeps
<1>12. 1 <= Total /\ h.says[Total] = Carries(pub) /\ (pub.kind = "snap" => pub.item = leaf)
  BY <1>2, <1>4 DEF HistoryOK, PubOK
<1>13. Carries(pub') = Carries(pub)
  BY <1>5 DEF Carries
<1>14. PubOK(h2)'
  BY <1>4, <1>5, <1>6, <1>8, <1>12, <1>13 DEF PubOK
<1>15. CacheOK(h2)'
  <2>1. Cached' = Cached \/ (Cached' = Cached + 1 /\ h2.says[Cached'] = {})
    <3>1. CASE pub.kind = "meta"
      <4>1. Carries(pub) = {}
        BY <3>1 DEF Carries
      <4>2. QED BY <1>6, <1>8, <1>12, <3>1, <4>1
    <3>2. CASE pub.kind # "meta"
      BY <1>6, <1>7, <3>2
    <3>3. QED BY <3>1, <3>2
  <2>2. Cached \in Int /\ Cached <= h.total
    BY <1>6, <1>7
  <2>3. QED BY <1>2, <1>4, <1>8, <2>1, <2>2, CacheLater DEF HistoryOK
<1>16. SocketOK'
  BY <1>1, <1>4 DEF SocketOK, SameWay
<1>17. ActOK'
  BY <1>1, <1>4, <1>6, <1>10, ActSame
<1>18. QED BY <1>3, <1>11, <1>14, <1>15, <1>16, <1>17 DEF HoleInv, HistoryOK

\* What is cached is the event of its number; only the oldest rows go.
LEMMA CachedTruth ==
  ASSUME ViewerInv, PublishCache, NEW h \in Histories, PubOK(h), CacheOK(h)
  PROVE  CacheOK(h)'
<1>. DEFINE row == [seq |-> pub.seq, kind |-> pub.kind, item |-> pub.item]
            all == Append(cache, row)
            first == Max({1, Len(all) - EVENT_BUFFER + 1})
<1>1. leaf \in Nat /\ seq \in Nat /\ cache \in Seq(Row(leaf, seq)) /\ Len(cache) \in Nat
      /\ DOMAIN cache = 1 .. Len(cache)
  BY LenProperties DEF ViewerInv, ViewerTypeOK, RelayOK
<1>2. row \in Row(leaf, seq) /\ row.seq = seq /\ row.kind = pub.kind /\ row.item = pub.item
      /\ \A i \in DOMAIN cache : cache[i].seq < seq
  BY <1>1 DEF ViewerInv, ViewerTypeOK, RelayOK, PublishCache, Row
<1>3. cache' = SubSeq(all, first, Len(all))
  BY DEF PublishCache
<1>4. pub.at = "cache" /\ pub' = [pub EXCEPT !.at = "emit"] /\ seq' = seq
  BY DEF PublishCache
<1>5. Total = seq /\ Cached = seq - 1 /\ Cached' = seq /\ h.total = seq /\ h.leaf = leaf
      /\ IsHistory(h)
  <2>1. pub'.at = "emit"
    BY <1>4 DEF ViewerInv, ViewerTypeOK
  <2>2. Total = seq /\ Cached = seq - 1 /\ Cached' = seq
    BY <1>4, <2>1 DEF Total, Cached
  <2>3. QED BY <2>2, HistoriesNumbers
<1>6. Honest(h, row, seq) /\ 1 <= seq
  <2>1. h.says[seq] = Carries(pub) /\ (pub.kind = "snap" => pub.item = leaf) /\ 1 <= seq
    BY <1>4, <1>5 DEF PubOK
  <2>2. PICK r : r = row
    OBVIOUS
  <2>3. r.kind = pub.kind /\ r.item = pub.item
    BY <1>2, <2>2
  <2>4. Carries(r) = Carries(pub)
    BY <2>3 DEF Carries
  <2>5. r.kind = "snap" => Claim(h, Carries(r), seq)
    BY <1>5, <2>1, <2>3 DEF Carries, Claim
  <2>6. QED BY <2>1, <2>2, <2>4, <2>5 DEF Honest
<1>. HIDE DEF row
<1>7. all \in Seq(Row(leaf, seq)) /\ Len(all) = Len(cache) + 1
      /\ all[Len(cache) + 1] = row /\ \A i \in 1 .. Len(cache) : all[i] = cache[i]
  BY <1>1, <1>2, AppendProperties
<1>. HIDE DEF all
<1>8. first \in 1 .. Len(all) /\ Len(all) \in Nat
  BY ViewerAssumption, <1>1, <1>7, MaxOfTwo
<1>. HIDE DEF first
<1>9. \A i \in first .. Len(all) : all[i] \in Row(leaf, seq)
  BY <1>7, <1>8, ElementOfSeq
<1>10. Len(cache') = Len(all) - first + 1
       /\ \A i \in 1 .. Len(cache') : cache'[i] = all[first + i - 1]
  BY <1>3, <1>7, <1>8, <1>9, SubSeqProperties
<1>11. PICK c : c = cache'
  OBVIOUS
<1>12. Len(c) = Len(all) - first + 1 /\ Len(c) \in Nat /\ 1 \in 1 .. Len(c)
       /\ \A i \in 1 .. Len(c) : c[i] = all[first + i - 1] /\ first + i - 1 \in 1 .. Len(all)
  BY <1>8, <1>10, <1>11
<1>13. ASSUME NEW x \in 1 .. Len(all)
       PROVE  all[x].seq \in 1 .. seq /\ Honest(h, all[x], all[x].seq)
  <2>1. CASE x = Len(cache) + 1
    BY <1>1, <1>2, <1>6, <1>7, <2>1
  <2>2. CASE x # Len(cache) + 1
    <3>1. x \in 1 .. Len(cache) /\ all[x] = cache[x]
      BY <1>1, <1>7, <2>2
    <3>2. cache[x].seq \in 1 .. seq - 1 /\ Honest(h, cache[x], cache[x].seq)
      BY <1>5, <3>1 DEF CacheOK
    <3>3. cache[x].seq \in 1 .. seq
      BY <1>1, <3>2
    <3>4. QED BY <3>1, <3>2, <3>3
  <2>3. QED BY <2>1, <2>2
<1>14. ASSUME NEW n \in 1 .. seq, h.says[n] # {}
       PROVE  (\E i \in 1 .. Len(c) : c[i].seq = n) \/ (c # <<>> /\ n < c[1].seq)
  <2>0. c # <<>> /\ c[1] = all[first] /\ all[first].seq \in 1 .. seq
    <3>1. c # <<>>
      BY <1>12, EmptySeq
    <3>2. first + 1 - 1 = first
      BY <1>8
    <3>3. QED BY <1>8, <1>12, <1>13, <3>1, <3>2
  <2>1. ASSUME NEW x \in 1 .. Len(all), all[x].seq = n
        PROVE  (\E i \in 1 .. Len(c) : c[i].seq = n) \/ n < c[1].seq
    <3>1. CASE x >= first
      <4>1. x - first + 1 \in 1 .. Len(c) /\ first + (x - first + 1) - 1 = x
        BY <1>8, <1>12, <3>1
      <4>2. c[x - first + 1] = all[x]
        BY <1>12, <4>1
      <4>3. QED BY <2>1, <4>1, <4>2
    <3>2. CASE ~(x >= first)
      <4>1. x \in 1 .. Len(cache) /\ all[x] = cache[x] /\ x \in 1 .. first - 1
        BY <1>1, <1>7, <1>8, <3>2
      <4>2. CASE first = Len(cache) + 1
        BY <1>1, <1>2, <1>7, <2>0, <2>1, <4>1, <4>2
      <4>3. CASE first # Len(cache) + 1
        <5>1. first \in 1 .. Len(cache) /\ all[first] = cache[first]
          BY <1>1, <1>7, <1>8, <4>3
        <5>2. cache[x].seq < cache[first].seq
          BY <1>1, <4>1, <5>1 DEF ViewerInv, ViewerTypeOK
        <5>3. QED BY <2>0, <2>1, <4>1, <5>1, <5>2
      <4>4. QED BY <4>2, <4>3
    <3>3. QED BY <3>1, <3>2
  <2>2. CASE n = seq
    <3>1. Len(all) \in 1 .. Len(all) /\ all[Len(all)].seq = n
      BY <1>1, <1>2, <1>7, <2>2
    <3>2. QED BY <2>0, <2>1, <3>1
  <2>3. CASE n # seq
    <3>1. n \in 1 .. Cached
      BY <1>1, <1>5, <2>3
    <3>2. CASE \E i \in 1 .. Len(cache) : cache[i].seq = n
      <4>1. PICK i \in 1 .. Len(cache) : cache[i].seq = n
        BY <3>2
      <4>2. i \in 1 .. Len(all) /\ all[i].seq = n
        BY <1>1, <1>7, <4>1
      <4>3. QED BY <2>0, <2>1, <4>2
    <3>3. CASE cache # <<>> /\ n < cache[1].seq
      <4>1. 1 \in 1 .. Len(cache) /\ cache[1] = all[1] /\ 1 \in 1 .. Len(all)
        BY <1>1, <1>7, <3>3, EmptySeq
      <4>2. CASE first = 1
        BY <2>0, <3>3, <4>1, <4>2
      <4>3. CASE first # 1
        <5>1. 1 \in 1 .. first - 1
          BY <1>8, <4>3
        <5>2. CASE first = Len(cache) + 1
          BY <1>1, <1>2, <1>7, <2>0, <5>2, <2>3
        <5>3. CASE first # Len(cache) + 1
          <6>1. first \in 1 .. Len(cache) /\ all[first] = cache[first]
            BY <1>1, <1>7, <1>8, <5>3
          <6>2. cache[1].seq < cache[first].seq
            BY <1>1, <5>1, <6>1 DEF ViewerInv, ViewerTypeOK
          <6>3. cache[1].seq \in 1 .. seq /\ cache[first].seq \in 1 .. seq
            BY <1>13, <1>8, <4>1, <6>1
          <6>4. QED BY <2>0, <3>3, <6>1, <6>2, <6>3
        <5>4. QED BY <5>2, <5>3
      <4>4. QED BY <4>2, <4>3
    <3>4. QED BY <1>14, <3>1, <3>2, <3>3 DEF CacheOK
  <2>4. QED BY <2>2, <2>3
<1>15. \A i \in 1 .. Len(c) : c[i].seq \in 1 .. seq /\ Honest(h, c[i], c[i].seq)
  BY <1>12, <1>13
<1>16. QED BY <1>5, <1>11, <1>14, <1>15 DEF CacheOK

\* appendRelayEventToCache: only the oldest end of the cache goes.
LEMMA PublishCacheHole ==
  ASSUME HoleInv, PublishCache
  PROVE  HoleInv'
<1>1. ViewerInv /\ SocketOK /\ GreetingsOK(down, cursor) /\ ActOK
  BY DEF HoleInv
<1>2. PICK h \in Histories : HistoryOK(h)
  BY DEF HoleInv
<1>3. ViewerInv'
  BY <1>1, ViewerNext DEF Next
<1>4. /\ pub.at = "cache" /\ seq' = seq /\ SameWay
      /\ leaf' = leaf /\ emitted' = emitted /\ asked' = asked /\ lastState' = lastState
      /\ pub' = [pub EXCEPT !.at = "emit"]
  BY DEF PublishCache, runner, socket, ui, SameWay
<1>5. pub'.at = "emit" /\ pub'.kind = pub.kind /\ pub'.item = pub.item
  BY <1>1, <1>4 DEF ViewerInv, ViewerTypeOK
<1>6. Total = seq /\ Total' = seq /\ Sent = seq - 1 /\ Sent' = seq - 1
  BY <1>4, <1>5 DEF Total, Sent
<1>7. seq \in Nat /\ leaf \in Nat /\ h.total = Total /\ h.sent = Sent /\ emitted \in Int
      /\ IsHistory(h) /\ h.leaf = leaf /\ h.emitted = emitted
  BY <1>1, HistoriesNumbers, HistoryNumbers
<1>8. h \in Histories'
  <2>1. PICK D \in [1 .. Total -> SUBSET (1 .. leaf)] : h = History(D)
    BY DEF Histories
  <2>2. h = History(D)'
    BY <1>4, <1>6, <2>1 DEF History
  <2>3. QED BY <1>4, <1>6, <2>1, <2>2 DEF Histories
<1>9. Later(h, h)
  BY <1>7 DEF Later, IsHistory
<1>10. Upcoming' = Upcoming
  BY <1>4, <1>5 DEF Upcoming
<1>11. /\ FramesOK(h, down)' /\ StoredOK(h, down, gen, Reached)' /\ ViewerOK(h)'
       /\ GreetingsOK(down, cursor)'
  BY <1>1, <1>2, <1>3, <1>4, <1>8, <1>9, <1>10, LaterKeeps
<1>12. 1 <= Total /\ h.says[Total] = Carries(pub) /\ (pub.kind = "snap" => pub.item = leaf)
  BY <1>2, <1>4 DEF HistoryOK, PubOK
<1>13. Carries(pub') = Carries(pub)
  BY <1>5 DEF Carries
<1>14. PubOK(h)'
  BY <1>4, <1>5, <1>6, <1>12, <1>13 DEF PubOK
<1>15. CacheOK(h)'
  BY <1>1, <1>2, CachedTruth DEF HistoryOK
<1>16. SocketOK'
  BY <1>1, <1>4 DEF SocketOK, SameWay
<1>17. ActOK'
  BY <1>1, <1>4, <1>6, <1>10, ActSame
<1>18. QED BY <1>3, <1>8, <1>11, <1>14, <1>15, <1>16, <1>17 DEF HoleInv, HistoryOK

\* Without a joined socket there is nothing on its way down.
LEMMA NothingQueued ==
  ASSUME NEW h, NEW g, NEW reached, NEW c
  PROVE  FramesOK(h, <<>>) /\ StoredOK(h, <<>>, g, reached) /\ GreetingsOK(<<>>, c)
<1>1. Len(<<>>) = 0
  BY EmptySeq
<1>2. QED BY <1>1 DEF FramesOK, StoredOK, GreetingsOK

\* An event frame that is added leaves the "connected" frames in order.
LEMMA GreetingsJoin ==
  ASSUME NEW q, NEW s, NEW r, Joins(r, q, s), NEW c, GreetingsOK(q, c),
         \A j \in 1 .. Len(s) : s[j].kind # "connected"
  PROVE  GreetingsOK(r, c)
<1>1. SUFFICES ASSUME NEW i \in 1 .. Len(r), r[i].kind = "connected"
               PROVE  c <= r[i].seq /\ \A j \in 1 .. i - 1 : r[j].seq <= r[i].seq
  BY DEF GreetingsOK
<1>2. i \in 1 .. Len(q) /\ r[i] = q[i]
  <2>1. \/ i \in 1 .. Len(q) /\ r[i] = q[i]
        \/ \E j \in 1 .. Len(s) : i = Len(q) + j /\ r[i] = s[j]
    BY JoinedAt
  <2>2. QED BY <1>1, <2>1
<1>3. Len(q) \in Nat /\ \A j \in 1 .. Len(q) : r[j] = q[j]
  BY DEF Joins
<1>4. \A j \in 1 .. i - 1 : r[j] = q[j]
  BY <1>2, <1>3
<1>5. QED BY <1>1, <1>2, <1>4 DEF GreetingsOK

\* The broadcast is the next event, and true.
LEMMA EmitIsNext ==
  ASSUME ViewerInv, ViewerInv', NEW h \in Histories, PubOK(h), PublishEmit,
         NEW h2 \in Histories', Later(h, h2), h2.says = h.says,
         NEW f, f = Event(pub.kind, pub.item, pub.seq, FALSE, None)
  PROVE  NextLive(h, h2, f) /\ f.kind = pub.kind /\ f.at = seq /\ f.seq = seq
         /\ f \in DownFrame(leaf, seq)
<1>1. pub.at = "emit" /\ pub' = NoPub /\ seq' = seq /\ leaf' = leaf
  BY DEF PublishEmit, runner, redis
<1>2. pub.seq = seq /\ pub.kind \in EventKinds /\ pub.item \in 0 .. leaf /\ seq \in Nat
      /\ (pub.kind = "msg" => pub.item # 0)
  BY <1>1 DEF ViewerInv, RelayOK, ViewerTypeOK
<1>3. pub'.at = "idle"
  BY <1>1 DEF NoPub
<1>4. Total = seq /\ Sent = seq - 1 /\ Sent' = seq
  BY <1>1, <1>3 DEF Total, Sent
<1>5. h.sent = seq - 1 /\ h2.sent = seq /\ h2.leaf = leaf
  <2>1. h.sent = Sent
    BY HistoriesNumbers
  <2>2. h2.sent = Sent' /\ h2.leaf = leaf'
    BY NextNumbers
  <2>3. QED BY <1>1, <1>4, <2>1, <2>2
<1>6. /\ f.kind = pub.kind /\ f.item = pub.item /\ f.seq = seq /\ f.at = seq
      /\ f.delta = FALSE /\ f.gen = None
  BY <1>2 DEF Event, Frame
<1>7. 1 <= seq /\ h2.says[seq] = Carries(pub) /\ (pub.kind = "snap" => pub.item = leaf)
  BY <1>1, <1>4 DEF PubOK
<1>8. Carries(f) = Carries(pub)
  BY <1>6 DEF Carries
<1>9. f.kind = "snap" => Claim(h2, Carries(f), seq)
  BY <1>5, <1>6, <1>7 DEF Carries, Claim
<1>10. f.kind # "connected"
  BY <1>2, <1>6 DEF EventKinds
<1>11. Live(f) /\ FrameOK(h2, f)
  <2>1. seq \in 1 .. h2.sent
    BY <1>2, <1>5, <1>7
  <2>2. Honest(h2, f, f.seq)
    BY <1>6, <1>7, <1>8, <1>9 DEF Honest
  <2>3. Live(f)
    BY <1>6, <1>10 DEF Live
  <2>4. QED BY <1>6, <2>1, <2>2, <2>3 DEF FrameOK
<1>12. NextLive(h, h2, f)
  <2>1. f.seq = h2.sent
    BY <1>5, <1>6
  <2>2. h2.sent = h.sent + 1
    <3>1. (seq - 1) + 1 = seq
      BY <1>2
    <3>2. QED BY <1>5, <3>1
  <2>3. QED BY <1>11, <2>1, <2>2 DEF NextLive
<1>13. f \in DownFrame(leaf, seq)
  BY <1>2 DEF Event, Frame, DownFrame, EventFrame, OrNone, None
<1>14. QED BY <1>6, <1>12, <1>13

\* A viewer that resumes is brought what is broadcast meanwhile.
LEMMA ResumingEmit ==
  ASSUME ViewerInv, SocketOK, NEW h \in Histories, PublishEmit, joined, NEW h2, NEW f,
         NextLive(h, h2, f), f.kind = pub.kind, f.at = seq, f.seq = seq, Sent = seq - 1,
         Sent' = seq, seq \in Nat,
         Joins(down', down, <<f>>), NEW k \in Nat, Resuming(h, k)
  PROVE  Resuming(h2, k)'
<1>1. joined' = joined /\ act' = act /\ flags' = flags /\ up' = up /\ gen' = gen
      /\ cursor' = cursor /\ asked' = asked
  BY DEF PublishEmit, socket, ui, runner
<1>2. PICK d : d = down'
  OBVIOUS
<1>3. Len(down) \in Nat /\ Len(d) = Len(down) + 1 /\ d[Len(down) + 1] = f
      /\ \A i \in 1 .. Len(down) : d[i] = down[i]
  <2>1. Len(<<f>>) = 1 /\ <<f>>[1] = f
    OBVIOUS
  <2>2. QED BY <1>2, <2>1 DEF Joins
<1>4. Live(f)
  BY DEF NextLive
<1>5. joined /\ (\A i \in 1 .. Len(up) : up[i].kind = "connected")
      /\ (\A i \in 1 .. Len(down) :
            Live(down[i]) \/ Repeated(down[i]) \/ down[i].kind = "connected")
  BY DEF Resuming
<1>6. \A i \in 1 .. Len(d) : Live(d[i]) \/ Repeated(d[i]) \/ d[i].kind = "connected"
  <2>1. ASSUME NEW i \in 1 .. Len(d)
        PROVE  (i \in 1 .. Len(down) /\ d[i] = down[i]) \/ d[i] = f
    BY <1>3
  <2>2. QED BY <1>4, <1>5, <2>1
<1>7. Greeted => Greeted'
  <2>1. SUFFICES ASSUME NEW i \in 1 .. Len(down), down[i].kind = "connected", down[i].gen = gen
                 PROVE  Greeted'
    BY <1>1 DEF Greeted
  <2>2. i \in 1 .. Len(d) /\ d[i].kind = "connected" /\ d[i].gen = gen
    BY <1>3, <2>1
  <2>3. QED BY <1>1, <1>2, <2>2 DEF Greeted
<1>8. CASE act.at = "seq" /\ act.gen = gen /\ act.last <= cursor
  BY <1>1, <1>2, <1>5, <1>6, <1>8 DEF Resuming
<1>9. CASE /\ act.at = "cache" /\ act.gen = gen /\ act.last <= cursor
           /\ Follows(h, down, gen, (k + 1 .. Sent) \ (1 .. act.fresh), 0)
           /\ ~flags.suppress /\ ~flags.ready /\ (Greeted \/ flags.pending)
  <2>1. Follows(h2, d, gen, (k + 1 .. seq) \ (1 .. act.fresh), 0)
    <3>1. ASSUME NEW n \in (k + 1 .. seq) \ (1 .. act.fresh), h2.says[n] # {}
          PROVE  \/ \E j \in 0 + 1 .. Len(down) : Brings(down[j], gen, n)
                 \/ \E j \in 1 .. Len(<<f>>) : Brings(<<f>>[j], gen, n)
      <4>1. CASE n = seq
        <5>1. Brings(f, gen, n)
          BY <1>4, <4>1 DEF Brings, Live
        <5>2. QED BY <5>1
      <4>2. CASE n # seq
        <5>1. n \in (k + 1 .. Sent) \ (1 .. act.fresh)
          BY <4>2
        <5>2. n \in 1 .. h.total /\ Later(h, h2)
          <6>1. IsHistory(h) /\ h.sent = Sent /\ Later(h, h2)
            BY HistoriesNumbers DEF NextLive
          <6>2. QED BY <5>1, <6>1 DEF IsHistory
        <5>3. h.says[n] # {}
          BY <3>1, <5>2 DEF Later
        <5>4. QED BY <1>9, <5>1, <5>3 DEF Follows
      <4>3. QED BY <4>1, <4>2
    <3>2. 0 \in 0 .. Len(down)
      BY <1>3
    <3>3. QED BY <1>2, <3>1, <3>2, FollowsJoins
  <2>2. QED BY <1>1, <1>2, <1>5, <1>6, <1>7, <1>9, <2>1 DEF Resuming
<1>10. CASE /\ act.at = "idle" /\ ~flags.suppress /\ flags.ready
            /\ \/ Greeted \/ asked > 0 \/ Upcoming
               \/ \E i \in 1 .. Len(down) : Live(down[i]) /\ down[i].kind = "snap"
  <2>1. \/ Greeted' \/ asked' > 0
        \/ \E i \in 1 .. Len(d) : Live(d[i]) /\ d[i].kind = "snap"
    <3>1. CASE Greeted \/ asked > 0
      BY <1>1, <1>7, <3>1
    <3>2. CASE Upcoming
      <4>1. Len(down) + 1 \in 1 .. Len(d) /\ f.kind = "snap"
        BY <1>3, <3>2 DEF Upcoming
      <4>2. QED BY <1>3, <1>4, <4>1
    <3>3. ASSUME NEW i \in 1 .. Len(down), Live(down[i]), down[i].kind = "snap"
          PROVE  \E x \in 1 .. Len(d) : Live(d[x]) /\ d[x].kind = "snap"
      <4>1. i \in 1 .. Len(d) /\ d[i] = down[i]
        BY <1>3
      <4>2. QED BY <3>3, <4>1
    <3>4. QED BY <1>10, <3>1, <3>2, <3>3
  <2>2. QED BY <1>1, <1>2, <1>5, <1>6, <1>10, <2>1 DEF Resuming
<1>11. QED BY <1>5, <1>8, <1>9, <1>10 DEF Resuming

\* The broadcast: a viewer in the room is brought it, one outside resumes later.
LEMMA PublishEmitHole ==
  ASSUME HoleInv, PublishEmit
  PROVE  HoleInv'
<1>1. ViewerInv /\ SocketOK /\ GreetingsOK(down, cursor) /\ ActOK
  BY DEF HoleInv
<1>2. PICK h \in Histories : HistoryOK(h)
  BY DEF HoleInv
<1>3. ViewerInv'
  BY <1>1, ViewerNext DEF Next
<1>4. /\ pub.at = "emit" /\ pub' = NoPub /\ seq' = seq /\ cache' = cache
      /\ leaf' = leaf /\ emitted' = emitted /\ asked' = asked /\ lastState' = lastState
      /\ joined' = joined /\ act' = act /\ flags' = flags /\ conn' = conn /\ up' = up
      /\ gen' = gen /\ cursor' = cursor /\ awaiting' = awaiting /\ hydrated' = hydrated
      /\ shown' = shown /\ passed' = passed
  BY DEF PublishEmit, runner, redis, socket, ui
<1>5. pub'.at = "idle"
  BY <1>4 DEF NoPub
<1>6. seq \in Nat /\ leaf \in Nat /\ h.total = Total /\ h.sent = Sent /\ h.top = seq
      /\ IsHistory(h) /\ gen \in Nat /\ cursor \in Int
  BY <1>1, HistoriesNumbers, HistoryNumbers
<1>7. Total = seq /\ Total' = seq /\ Sent = seq - 1 /\ Sent' = seq /\ Cached = seq /\ Cached' = seq
  BY <1>4, <1>5 DEF Total, Sent, Cached
<1>8. PICK h2 \in Histories' : Later(h, h2) /\ h2.says = h.says
  <2>1. seq <= seq' /\ Sent <= Sent'
    BY <1>4, <1>6, <1>7
  <2>2. QED BY <1>1, <1>3, <1>4, <1>7, <2>1, SameHistory
<1>9. PICK f : f = Event(pub.kind, pub.item, pub.seq, FALSE, None)
  OBVIOUS
<1>10. NextLive(h, h2, f) /\ f.kind = pub.kind /\ f.at = seq /\ f.seq = seq
       /\ f \in DownFrame(leaf, seq)
  BY <1>1, <1>2, <1>3, <1>8, <1>9, EmitIsNext DEF HistoryOK
<1>11. PubOK(h2)' /\ SocketOK' /\ CacheOK(h2)'
  <2>1. PubOK(h2)'
    BY <1>5 DEF PubOK
  <2>2. CacheOK(h2)'
    BY <1>2, <1>4, <1>6, <1>7, <1>8, CacheLater DEF HistoryOK
  <2>3. SocketOK'
    <3>1. CASE joined
      <4>1. down' = Append(down, f)
        BY <1>9, <3>1 DEF PublishEmit
      <4>2. PICK d : d = down'
        OBVIOUS
      <4>3. Joins(d, down, <<f>>)
        BY <1>1, <1>10, <4>1, <4>2, FramesTyped, AppendJoins
      <4>4. f.gen = None /\ gen \in Nat
        BY <1>6, <1>10 DEF NextLive, Live
      <4>5. \A i \in 1 .. Len(d) : d[i].gen <= gen
        <5>1. ASSUME NEW i \in 1 .. Len(d)
              PROVE  (i \in 1 .. Len(down) /\ d[i] = down[i]) \/ d[i] = f
          <6>1. down \in Seq(DownFrame(leaf, seq)) /\ Len(down) \in Nat
            BY <1>1, FramesTyped
          <6>2. Len(d) = Len(down) + 1 /\ d[Len(down) + 1] = f
                /\ \A x \in 1 .. Len(down) : d[x] = down[x]
            BY <1>10, <4>1, <4>2, <6>1, AppendProperties
          <6>3. QED BY <5>1, <6>1, <6>2
        <5>2. None <= gen
          BY <4>4 DEF None
        <5>3. QED BY <1>1, <4>4, <5>1, <5>2 DEF SocketOK
      <4>6. QED BY <1>1, <1>4, <3>1, <4>2, <4>5 DEF SocketOK
    <3>2. CASE ~joined
      <4>1. down' = down
        BY <3>2 DEF PublishEmit
      <4>2. QED BY <1>1, <1>4, <4>1 DEF SocketOK
    <3>3. QED BY <3>1, <3>2
  <2>4. QED BY <2>1, <2>2, <2>3
<1>12. CASE joined
  <2>1. down' = Append(down, f)
    BY <1>9, <1>12 DEF PublishEmit
  <2>2. Joins(down', down, <<f>>)
    BY <1>1, <1>10, <2>1, FramesTyped, AppendJoins
  <2>3. FramesOK(h, down) /\ StoredOK(h, down, gen, Reached) /\ ViewerOK(h)
    BY <1>2 DEF HistoryOK
  <2>4. FramesOK(h2, down')
    BY <1>10, <2>2, <2>3, FramesEmit
  <2>5. StoredOK(h2, down', gen, Reached)
    <3>1. Reached \in Int
      BY <1>6 DEF Reached, None
    <3>2. QED BY <1>1, <1>6, <1>10, <2>2, <2>3, <3>1, FramesTyped, StoredEmit
  <2>6. GreetingsOK(down', cursor)
    <3>1. Len(<<f>>) = 1 /\ <<f>>[1] = f /\ f.kind # "connected"
      BY <1>10 DEF NextLive, Live
    <3>2. QED BY <1>1, <2>2, <3>1, GreetingsJoin
  <2>7. ViewerOK(h2)'
    <3>1. SUFFICES ASSUME hydrated, passed = 0
                   PROVE  \E k \in 0 .. seq :
                            /\ cursor <= k /\ Claim(h2, shown, k)
                            /\ \/ ~conn \/ (joined /\ Full(h2, down', gen, k, 0))
                               \/ Resuming(h2, k)'
      BY <1>4 DEF ViewerOK
    <3>2. PICK k \in 0 .. seq : /\ cursor <= k /\ Claim(h, shown, k)
                                /\ ~conn \/ (joined /\ Full(h, down, gen, k, 0)) \/ Resuming(h, k)
      BY <2>3, <3>1 DEF ViewerOK
    <3>3. k \in Nat /\ k <= h.total
      BY <1>6, <1>7, <3>2
    <3>4. Claim(h2, shown, k)
      BY <1>8, <3>2, <3>3, ClaimLater
    <3>5. Full(h, down, gen, k, 0) => Full(h2, down', gen, k, 0)
      <4>1. 0 \in 0 .. Len(down)
        BY <1>1, FramesTyped
      <4>2. QED BY <1>10, <2>2, <2>3, <3>3, <4>1, FullEmit
    <3>6. Resuming(h, k) => Resuming(h2, k)'
      BY <1>1, <1>6, <1>7, <1>10, <1>12, <2>2, <3>3, ResumingEmit
    <3>7. QED BY <3>2, <3>4, <3>5, <3>6
  <2>8. ActOK'
    <3>0. PICK d : d = down' /\ Joins(d, down, <<f>>)
      BY <2>2
    <3>a. Len(down) + 1 \in 1 .. Len(d) /\ d[Len(down) + 1] = f
          /\ \A j \in 1 .. Len(down) : j \in 1 .. Len(d) /\ d[j] = down[j]
      <4>1. Len(<<f>>) = 1 /\ <<f>>[1] = f
        OBVIOUS
      <4>2. QED BY <3>0, <4>1 DEF Joins
    <3>1. SUFFICES ASSUME act.at = "cache", act.state # None, ~(act.fresh < Reached),
                          ~\E j \in 1 .. Len(d) :
                             Live(d[j]) /\ d[j].kind = "snap" /\ act.fresh < d[j].at
                   PROVE  \A m \in act.state + 1 .. leaf : emitted < m
      BY <1>4, <3>0 DEF ActOK, Reached
    <3>2. ~\E j \in 1 .. Len(down) :
             Live(down[j]) /\ down[j].kind = "snap" /\ act.fresh < down[j].at
      BY <3>1, <3>a
    <3>3. ~(Upcoming /\ act.fresh < Total)
      <4>1. SUFFICES ASSUME Upcoming, act.fresh < Total PROVE FALSE
        OBVIOUS
      <4>2. Live(f) /\ f.kind = "snap" /\ act.fresh < f.at
        BY <1>7, <1>10, <4>1 DEF Upcoming, NextLive
      <4>3. QED BY <3>1, <3>a, <4>2
    <3>4. QED BY <1>1, <3>1, <3>2, <3>3 DEF ActOK
  <2>9. Reached' = Reached
    BY <1>4 DEF Reached
  <2>10. QED BY <1>3, <1>4, <1>11, <2>4, <2>5, <2>6, <2>7, <2>8, <2>9 DEF HoleInv, HistoryOK
<1>13. CASE ~joined
  <2>1. down' = down /\ down = <<>> /\ act.at = "idle"
    BY <1>1, <1>13 DEF PublishEmit, SocketOK
  <2>2. FramesOK(h2, down)' /\ StoredOK(h2, down, gen, Reached)' /\ GreetingsOK(down, cursor)'
    BY <2>1, NothingQueued
  <2>3. ViewerOK(h2)'
    <3>1. SUFFICES ASSUME hydrated, passed = 0
                   PROVE  \E k \in 0 .. seq :
                            /\ cursor <= k /\ Claim(h2, shown, k)
                            /\ ~conn \/ Resuming(h2, k)'
      BY <1>4 DEF ViewerOK
    <3>2. PICK k \in 0 .. seq : /\ cursor <= k /\ Claim(h, shown, k)
                                /\ ~conn \/ (joined /\ Full(h, down, gen, k, 0)) \/ Resuming(h, k)
      BY <1>2, <3>1 DEF ViewerOK, HistoryOK
    <3>3. k \in Nat /\ k <= h.total
      BY <1>6, <1>7, <3>2
    <3>4. Claim(h2, shown, k)
      BY <1>8, <3>2, <3>3, ClaimLater
    <3>5. Resuming(h, k) => Resuming(h2, k)'
      BY <1>4, <1>13 DEF Resuming, Switch
    <3>6. QED BY <1>13, <3>2, <3>4, <3>5
  <2>4. ActOK'
    BY <1>4, <2>1 DEF ActOK
  <2>5. QED BY <1>3, <1>8, <1>11, <2>2, <2>3, <2>4 DEF HoleInv, HistoryOK
<1>14. QED BY <1>12, <1>13

-----------------------------------------------------------------------------
(* The relay's steps: the history stays.                                   *)

\* A step in which neither the runner nor the publishing moves.
Quiet == UNCHANGED <<leaf, emitted, pub, seq, cache, lastState>>

\* Then the history is still one, and publishing and cache are as they were.
LEMMA QuietHistory ==
  ASSUME NEW h \in Histories, Quiet, PubOK(h), CacheOK(h)
  PROVE  /\ h \in Histories' /\ PubOK(h)' /\ CacheOK(h)'
         /\ Upcoming' = Upcoming /\ Total' = Total /\ Sent' = Sent
<1>1. leaf' = leaf /\ emitted' = emitted /\ pub' = pub /\ seq' = seq /\ cache' = cache
  BY DEF Quiet
<1>2. Total' = Total /\ Sent' = Sent /\ Cached' = Cached /\ Upcoming' = Upcoming
  BY <1>1 DEF Total, Sent, Cached, Upcoming
<1>3. PubOK(h)' /\ CacheOK(h)'
  BY <1>1, <1>2 DEF PubOK, CacheOK
<1>4. h \in Histories'
  <2>1. PICK D \in [1 .. Total -> SUBSET (1 .. leaf)] : h = History(D)
    BY DEF Histories
  <2>2. h = History(D)'
    BY <1>1, <1>2, <2>1 DEF History
  <2>3. QED BY <1>1, <1>2, <2>1, <2>2 DEF Histories
<1>5. QED BY <1>2, <1>3, <1>4

\* The frames on their way up.
LEMMA UpTyped ==
  ASSUME ViewerInv
  PROVE  /\ up \in Seq(UpFrame) /\ Len(up) \in Nat
         /\ \A i \in 1 .. Len(up) : up[i] \in UpFrame
         /\ up # <<>> => conn /\ Drops(Tail(up), up) /\ Head(up) = up[1] /\ 1 \in 1 .. Len(up)
<1>1. up \in Seq(UpFrame) /\ (~conn => up = <<>>)
  BY DEF ViewerInv, WireOK
<1>2. Len(up) \in Nat /\ \A i \in 1 .. Len(up) : up[i] \in UpFrame
  BY <1>1, ElementOfSeq, LenProperties
<1>3. up # <<>> => Drops(Tail(up), up)
  BY <1>1, TailDrops
<1>4. up # <<>> => Head(up) = up[1] /\ 1 \in 1 .. Len(up)
  BY <1>1, <1>2, EmptySeq, HeadTailProperties
<1>5. QED BY <1>1, <1>2, <1>3, <1>4

\* switch_session: what comes down is not touched.
LEMMA ActivateHole ==
  ASSUME HoleInv, Activate
  PROVE  HoleInv'
<1>1. ViewerInv /\ SocketOK /\ GreetingsOK(down, cursor) /\ ActOK
  BY DEF HoleInv
<1>2. PICK h \in Histories : HistoryOK(h)
  BY DEF HoleInv
<1>3. ViewerInv'
  BY <1>1, ViewerNext DEF Next
<1>4. /\ Quiet /\ up # <<>> /\ Head(up).kind = "switch" /\ up' = Tail(up)
      /\ act' = [NoAct EXCEPT !.at = "seq", !.gen = Head(up).gen, !.last = Head(up).last]
      /\ joined' = TRUE /\ flags' = NoFlags /\ conn' = conn /\ down' = down
      /\ gen' = gen /\ cursor' = cursor /\ awaiting' = awaiting /\ hydrated' = hydrated
      /\ shown' = shown /\ passed' = passed /\ asked' = asked /\ lastState' = lastState
      /\ emitted' = emitted /\ seq' = seq /\ leaf' = leaf
  BY DEF Activate, From, Quiet, runner, redis, ui
<1>5. act'.at = "seq" /\ act'.gen = Head(up).gen /\ act'.last = Head(up).last
  BY <1>4 DEF NoAct
<1>6. conn /\ Drops(Tail(up), up) /\ Head(up) = up[1] /\ 1 \in 1 .. Len(up) /\ Len(up) \in Nat
  BY <1>1, <1>4, UpTyped
<1>7. h \in Histories' /\ PubOK(h)' /\ CacheOK(h)'
  BY <1>2, <1>4, QuietHistory DEF HistoryOK
<1>8. FramesOK(h, down)' /\ StoredOK(h, down, gen, Reached)' /\ GreetingsOK(down, cursor)'
  <2>1. Reached' = Reached
    BY <1>4 DEF Reached
  <2>2. QED BY <1>1, <1>2, <1>4, <2>1 DEF HistoryOK
<1>9. SocketOK'
  <2>1. act'.gen \in 0 .. gen
    BY <1>1, <1>4, <1>5, <1>6 DEF SocketOK
  <2>2. PICK u : u = up' /\ Drops(u, up)
    BY <1>4, <1>6
  <2>3. \A i \in 1 .. Len(u) : u[i].kind # "connected" => u[i].gen \in 0 .. gen
    <3>1. \A i \in 1 .. Len(u) : u[i] = up[i + 1] /\ i + 1 \in 1 .. Len(up)
      BY <2>2 DEF Drops
    <3>2. QED BY <1>1, <3>1 DEF SocketOK
  <2>4. ~flags'.suppress /\ ~flags'.ready
    BY <1>4 DEF NoFlags
  <2>5. QED BY <1>1, <1>4, <1>5, <2>1, <2>2, <2>3, <2>4 DEF SocketOK
<1>10. ActOK'
  BY <1>5 DEF ActOK
<1>11. ViewerOK(h)'
  <2>1. SUFFICES ASSUME hydrated, passed = 0
                 PROVE  \E k \in 0 .. seq :
                          /\ cursor <= k /\ Claim(h, shown, k)
                          /\ Full(h, down, gen, k, 0) \/ Resuming(h, k)'
    BY <1>4 DEF ViewerOK
  <2>2. PICK k \in 0 .. seq : /\ cursor <= k /\ Claim(h, shown, k)
                              /\ ~conn \/ (joined /\ Full(h, down, gen, k, 0)) \/ Resuming(h, k)
    BY <1>2, <2>1 DEF ViewerOK, HistoryOK
  <2>3. ASSUME Resuming(h, k) PROVE Resuming(h, k)'
    <3>1. ~joined /\ up = <<Switch(gen, cursor)>>
      <4>1. \A i \in 1 .. Len(up) : up[i].kind = "connected" => i # 1
        BY <1>4, <1>6
      <4>2. QED BY <1>6, <2>3, <4>1 DEF Resuming
    <3>2. Head(up) = Switch(gen, cursor) /\ up' = <<>>
      BY <1>4, <3>1
    <3>3. act'.gen = gen /\ act'.last = cursor
      BY <1>5, <3>2 DEF Switch
    <3>4. down = <<>> /\ Len(down) = 0 /\ Len(up') = 0 /\ cursor \in Int
      BY <1>1, <3>1, <3>2, EmptySeq, HistoryNumbers DEF SocketOK
    <3>5. /\ \A i \in 1 .. Len(up') : up'[i].kind = "connected"
          /\ \A i \in 1 .. Len(down') :
               Live(down'[i]) \/ Repeated(down'[i]) \/ down'[i].kind = "connected"
      BY <1>4, <3>2, <3>4
    <3>6. act'.last <= cursor
      BY <3>3, <3>4
    <3>7. QED BY <1>4, <1>5, <3>3, <3>5, <3>6 DEF Resuming
  <2>4. QED BY <1>6, <2>2, <2>3
<1>12. QED BY <1>3, <1>7, <1>8, <1>9, <1>10, <1>11 DEF HoleInv, HistoryOK

\* The echo: the runner signal passes, is kept for later or is not needed.
LEMMA EchoHole ==
  ASSUME HoleInv, Echo
  PROVE  HoleInv'
<1>1. ViewerInv /\ SocketOK /\ GreetingsOK(down, cursor) /\ ActOK
  BY DEF HoleInv
<1>2. PICK h \in Histories : HistoryOK(h)
  BY DEF HoleInv
<1>3. ViewerInv'
  BY <1>1, ViewerNext DEF Next
<1>4. /\ Quiet /\ up # <<>> /\ Head(up).kind = "connected" /\ up' = Tail(up)
      /\ act' = act /\ joined' = joined /\ conn' = conn /\ down' = down
      /\ gen' = gen /\ cursor' = cursor /\ awaiting' = awaiting /\ hydrated' = hydrated
      /\ shown' = shown /\ passed' = passed /\ lastState' = lastState
      /\ emitted' = emitted /\ seq' = seq /\ leaf' = leaf
  BY DEF Echo, From, Quiet, redis, ui
<1>5. conn /\ Drops(Tail(up), up) /\ Head(up) = up[1] /\ 1 \in 1 .. Len(up) /\ Len(up) \in Nat
  BY <1>1, <1>4, UpTyped
<1>6. h \in Histories' /\ PubOK(h)' /\ CacheOK(h)' /\ Upcoming' = Upcoming /\ Total' = Total
      /\ Sent' = Sent
  BY <1>2, <1>4, QuietHistory DEF HistoryOK
<1>7. Reached' = Reached
  BY <1>4 DEF Reached
<1>8. FramesOK(h, down)' /\ StoredOK(h, down, gen, Reached)' /\ GreetingsOK(down, cursor)'
  BY <1>1, <1>2, <1>4, <1>7 DEF HistoryOK
<1>9. /\ flags'.suppress = flags.suppress /\ flags'.ready = flags.ready
      /\ ~flags.suppress => IF flags.ready THEN asked' = asked + 1 ELSE flags'.pending
  BY <1>1 DEF Echo, ViewerInv, ViewerTypeOK
<1>10. PICK u : u = up' /\ Drops(u, up)
  BY <1>4, <1>5
<1>11. \A i \in 1 .. Len(u) : u[i] = up[i + 1] /\ i + 1 \in 1 .. Len(up)
  BY <1>10 DEF Drops
<1>12. SocketOK'
  <2>1. \A i \in 1 .. Len(u) : u[i].kind # "connected" => u[i].gen \in 0 .. gen
    BY <1>1, <1>11 DEF SocketOK
  <2>2. joined
    BY <1>1, <1>4, <1>5 DEF SocketOK
  <2>3. QED BY <1>1, <1>4, <1>9, <1>10, <2>1, <2>2 DEF SocketOK
<1>13. ActOK'
  BY <1>1, <1>4, <1>6, <1>7 DEF ActOK
<1>14. ViewerOK(h)'
  <2>1. SUFFICES ASSUME hydrated, passed = 0
                 PROVE  \E k \in 0 .. seq :
                          /\ cursor <= k /\ Claim(h, shown, k)
                          /\ (joined /\ Full(h, down, gen, k, 0)) \/ Resuming(h, k)'
    BY <1>4 DEF ViewerOK
  <2>2. PICK k \in 0 .. seq : /\ cursor <= k /\ Claim(h, shown, k)
                              /\ ~conn \/ (joined /\ Full(h, down, gen, k, 0)) \/ Resuming(h, k)
    BY <1>2, <2>1 DEF ViewerOK, HistoryOK
  <2>3. ASSUME Resuming(h, k) PROVE Resuming(h, k)'
    <3>1. up # <<Switch(gen, cursor)>>
      BY <1>4 DEF Switch
    <3>2. joined /\ (\A i \in 1 .. Len(up) : up[i].kind = "connected")
          /\ (\A i \in 1 .. Len(down) :
                Live(down[i]) \/ Repeated(down[i]) \/ down[i].kind = "connected")
      BY <2>3, <3>1 DEF Resuming
    <3>3. \A i \in 1 .. Len(u) : u[i].kind = "connected"
      BY <1>11, <3>2
    <3>4. CASE act.at = "seq" /\ act.gen = gen /\ act.last <= cursor
      BY <1>4, <1>10, <3>2, <3>3, <3>4 DEF Resuming
    <3>5. CASE /\ act.at = "cache" /\ act.gen = gen /\ act.last <= cursor
               /\ Follows(h, down, gen, (k + 1 .. Sent) \ (1 .. act.fresh), 0)
               /\ ~flags.suppress /\ ~flags.ready /\ (Greeted \/ flags.pending)
      <4>1. flags'.pending
        BY <1>9, <3>5
      <4>2. Follows(h, down', gen', (k + 1 .. Sent') \ (1 .. act'.fresh), 0)
        BY <1>4, <1>6, <3>5
      <4>3. QED BY <1>4, <1>9, <1>10, <3>2, <3>3, <3>5, <4>1, <4>2 DEF Resuming
    <3>6. CASE act.at = "idle" /\ ~flags.suppress /\ flags.ready
      <4>1. asked' > 0
        <5>1. asked' = asked + 1 /\ asked \in Nat
          BY <1>1, <1>9, <3>6 DEF ViewerInv, ViewerTypeOK
        <5>2. QED BY <5>1
      <4>2. QED BY <1>4, <1>9, <1>10, <3>2, <3>3, <3>6, <4>1 DEF Resuming
    <3>7. QED BY <2>3, <3>1, <3>4, <3>5, <3>6 DEF Resuming
  <2>4. QED BY <1>5, <2>2, <2>3
<1>15. QED BY <1>3, <1>6, <1>8, <1>12, <1>13, <1>14 DEF HoleInv, HistoryOK

\* The greeting that an activation sends, behind everything before it.
LEMMA ActivateConnectedHole ==
  ASSUME HoleInv, ActivateConnected
  PROVE  HoleInv'
<1>1. ViewerInv /\ SocketOK /\ GreetingsOK(down, cursor) /\ ActOK
  BY DEF HoleInv
<1>2. PICK h \in Histories : HistoryOK(h)
  BY DEF HoleInv
<1>3. ViewerInv'
  BY <1>1, ViewerNext DEF Next
<1>4. /\ Quiet /\ act.at = "seq"
      /\ act' = [act EXCEPT !.at = "cache", !.fresh = seq, !.state = lastState]
      /\ joined' = joined /\ flags' = flags /\ conn' = conn /\ up' = up
      /\ gen' = gen /\ cursor' = cursor /\ awaiting' = awaiting /\ hydrated' = hydrated
      /\ shown' = shown /\ passed' = passed /\ asked' = asked /\ lastState' = lastState
      /\ emitted' = emitted /\ seq' = seq /\ leaf' = leaf
      /\ down' = Append(down, [kind |-> "connected", seq |-> seq, gen |-> act.gen])
  BY DEF ActivateConnected, Quiet, runner, redis, ui
<1>5. act'.at = "cache" /\ act'.gen = act.gen /\ act'.last = act.last /\ act'.fresh = seq
      /\ act'.state = lastState
  BY <1>1, <1>4 DEF ViewerInv, RelayOK
<1>6. h \in Histories' /\ PubOK(h)' /\ CacheOK(h)' /\ Upcoming' = Upcoming /\ Total' = Total
      /\ Sent' = Sent
  BY <1>2, <1>4, QuietHistory DEF HistoryOK
<1>7. Reached' = Reached
  BY <1>4 DEF Reached
<1>8. PICK f : f = [kind |-> "connected", seq |-> seq, gen |-> act.gen]
  OBVIOUS
<1>9. /\ seq \in Nat /\ leaf \in Nat /\ Len(down) \in Nat /\ down \in Seq(DownFrame(leaf, seq))
      /\ \A i \in 1 .. Len(down) : down[i].kind = "snap" => down[i].at \in Nat
      /\ gen \in Nat /\ cursor \in Int /\ cursor <= seq /\ IsHistory(h) /\ h.top = seq
      /\ Sent <= seq /\ h.sent = Sent /\ Sent \in Int
  BY <1>1, FramesTyped, HistoriesNumbers, HistoryNumbers
<1>10. act.gen \in 0 .. gen /\ joined /\ ~flags.suppress /\ ~flags.ready
  BY <1>1, <1>4 DEF SocketOK
<1>11. f.kind = "connected" /\ f.seq = seq /\ f.gen = act.gen /\ f.gen # None
       /\ f \in DownFrame(leaf, seq)
  BY <1>8, <1>9, <1>10 DEF DownFrame, None
<1>12. PICK d : d = down' /\ Joins(d, down, <<f>>)
  BY <1>4, <1>8, <1>9, <1>11, AppendJoins
<1>13. Len(<<f>>) = 1 /\ <<f>>[1] = f
  OBVIOUS
<1>14. /\ Len(d) = Len(down) + 1 /\ d[Len(down) + 1] = f /\ Len(down) + 1 \in 1 .. Len(d)
       /\ \A i \in 1 .. Len(down) : d[i] = down[i] /\ i \in 1 .. Len(d)
       /\ \A i \in 1 .. Len(d) : (i \in 1 .. Len(down) /\ d[i] = down[i])
                                 \/ (i = Len(down) + 1 /\ d[i] = f)
  BY <1>9, <1>12, <1>13 DEF Joins
<1>15. FrameOK(h, f) /\ ~Live(f) /\ ~Replayed(f) /\ f.kind # "snap"
  BY <1>11 DEF FrameOK, Live, Replayed
<1>16. FramesOK(h, d)
  BY <1>2, <1>9, <1>12, <1>13, <1>15, FramesJoin DEF HistoryOK
<1>17. StoredOK(h, d, gen, Reached)
  <2>1. Reached \in Int
    BY <1>9 DEF Reached, None
  <2>2. QED BY <1>2, <1>9, <1>12, <1>13, <1>15, <2>1, StoredJoin DEF HistoryOK
<1>18. GreetingsOK(d, cursor)
  <2>1. \A j \in 1 .. Len(down) : down[j].seq <= seq
    <3>1. \A i \in DOMAIN down : down[i].seq \in OrNone(Seqs)
      BY <1>1 DEF ViewerInv, ViewerTypeOK
    <3>2. DOMAIN down = 1 .. Len(down)
      BY <1>9, LenProperties
    <3>3. QED BY <1>9, <3>1, <3>2 DEF OrNone, Seqs, None
  <2>2. SUFFICES ASSUME NEW i \in 1 .. Len(d), d[i].kind = "connected"
                 PROVE  cursor <= d[i].seq /\ \A j \in 1 .. i - 1 : d[j].seq <= d[i].seq
    BY DEF GreetingsOK
  <2>3. CASE i \in 1 .. Len(down) /\ d[i] = down[i]
    <3>1. \A j \in 1 .. i - 1 : d[j] = down[j]
      BY <1>9, <1>14, <2>3
    <3>2. QED BY <1>1, <2>2, <2>3, <3>1 DEF GreetingsOK
  <2>4. CASE i = Len(down) + 1 /\ d[i] = f
    <3>1. \A j \in 1 .. i - 1 : d[j] = down[j] /\ j \in 1 .. Len(down)
      BY <1>9, <1>14, <2>4
    <3>2. QED BY <1>9, <1>11, <2>1, <2>4, <3>1
  <2>5. QED BY <1>14, <2>3, <2>4
<1>19. SocketOK'
  <2>1. \A i \in 1 .. Len(d) : d[i].gen <= gen
    BY <1>1, <1>9, <1>10, <1>11, <1>14 DEF SocketOK
  <2>2. QED BY <1>1, <1>4, <1>5, <1>10, <1>12, <2>1 DEF SocketOK
<1>20. ActOK'
  <2>1. \A m \in lastState + 1 .. leaf : emitted < m
    <3>1. lastState = emitted /\ emitted \in Int
      BY <1>1, HistoryNumbers DEF SocketOK
    <3>2. QED BY <1>9, <3>1
  <2>2. QED BY <1>4, <1>5, <2>1 DEF ActOK
<1>21. ViewerOK(h)'
  <2>1. SUFFICES ASSUME hydrated, passed = 0
                 PROVE  \E k \in 0 .. seq :
                          /\ cursor <= k /\ Claim(h, shown, k)
                          /\ ~conn \/ Full(h, d, gen, k, 0) \/ Resuming(h, k)'
    BY <1>4, <1>10, <1>12 DEF ViewerOK
  <2>2. PICK k \in 0 .. seq : /\ cursor <= k /\ Claim(h, shown, k)
                              /\ ~conn \/ (joined /\ Full(h, down, gen, k, 0)) \/ Resuming(h, k)
    BY <1>2, <2>1 DEF ViewerOK, HistoryOK
  <2>3. k \in Nat /\ 0 \in 0 .. Len(down)
    BY <1>9, <2>2
  <2>4. Full(h, down, gen, k, 0) => Full(h, d, gen, k, 0)
    BY <1>9, <1>12, <1>13, <1>15, <2>3, FullJoin
  <2>5. ASSUME Resuming(h, k) PROVE Resuming(h, k)'
    <3>1. joined /\ (\A i \in 1 .. Len(up) : up[i].kind = "connected")
          /\ (\A i \in 1 .. Len(down) :
                Live(down[i]) \/ Repeated(down[i]) \/ down[i].kind = "connected")
          /\ act.gen = gen /\ act.last <= cursor
      BY <1>4, <1>10, <2>5 DEF Resuming
    <3>2. \A i \in 1 .. Len(d) : Live(d[i]) \/ Repeated(d[i]) \/ d[i].kind = "connected"
      BY <1>11, <1>14, <3>1
    <3>3. Follows(h, d, gen, (k + 1 .. Sent) \ (1 .. seq), 0)
      <4>1. (k + 1 .. Sent) \ (1 .. seq) = {}
        BY <1>9, <2>3
      <4>2. QED BY <4>1 DEF Follows
    <3>4. Greeted'
      BY <1>4, <1>11, <1>12, <1>14, <3>1 DEF Greeted
    <3>5. QED BY <1>4, <1>5, <1>6, <1>10, <1>12, <3>1, <3>2, <3>3, <3>4 DEF Resuming
  <2>6. QED BY <2>2, <2>4, <2>5
<1>22. QED BY <1>3, <1>4, <1>6, <1>7, <1>12, <1>16, <1>17, <1>18, <1>19, <1>20, <1>21
           DEF HoleInv, HistoryOK

\* Nothing is replayed in the front part of the queue.
LEMMA FullFront ==
  ASSUME NEW h, NEW q, Len(q) \in Nat, NEW g, NEW k \in Nat, NEW i \in 0 .. Len(q),
         \A j \in 1 .. i : ~Replayed(q[j]), Full(h, q, g, k, i)
  PROVE  Full(h, q, g, k, 0)
<1>1. Follows(h, q, g, k + 1 .. h.sent, 0)
  <2>1. i + 1 .. Len(q) \subseteq 0 + 1 .. Len(q)
    OBVIOUS
  <2>2. QED BY <2>1 DEF Full, Follows
<1>2. NoSkip(h, q, g, k, 0)
  <2>1. SUFFICES ASSUME NEW j \in 0 + 1 .. Len(q), Replayed(q[j]), q[j].gen = g,
                        NEW n \in k + 1 .. q[j].seq - 1, h.says[n] # {}
                 PROVE  \E x \in 0 + 1 .. j - 1 : Brings(q[x], g, n)
    BY DEF NoSkip
  <2>2. j \in i + 1 .. Len(q)
    <3>1. j \notin 1 .. i
      BY <2>1
    <3>2. QED BY <3>1
  <2>3. \E x \in i + 1 .. j - 1 : Brings(q[x], g, n)
    BY <2>1, <2>2 DEF Full, NoSkip
  <2>4. i + 1 .. j - 1 \subseteq 0 + 1 .. j - 1
    OBVIOUS
  <2>5. QED BY <2>3, <2>4
<1>3. QED BY <1>1, <1>2 DEF Full

\* What is served from the cache keeps the frames in order and brings a viewer
\* that has all up to last the rest.
LEMMA ServedJoin ==
  ASSUME ViewerInv, SocketOK, NEW h \in Histories, FramesOK(h, down),
         StoredOK(h, down, gen, Reached), GreetingsOK(down, cursor),
         NEW s, NEW g \in 0 .. gen, NEW last, Served(h, s, g, last), NEW d, Joins(d, down, s)
  PROVE  /\ FramesOK(h, d) /\ StoredOK(h, d, gen, Reached) /\ GreetingsOK(d, cursor)
         /\ \A i \in 1 .. Len(d) : d[i].gen <= gen
         /\ \A k \in Nat : Full(h, down, gen, k, 0) => Full(h, d, gen, k, 0)
         /\ \A k \in Nat : last <= k /\ g = gen /\ (\A i \in 1 .. Len(down) : ~Replayed(down[i]))
                           => Full(h, d, gen, k, 0)
<1>1. /\ Len(down) \in Nat /\ IsHistory(h) /\ gen \in Nat /\ cursor \in Int /\ Reached \in Int
      /\ \A i \in 1 .. Len(down) : down[i].kind = "snap" => down[i].at \in Nat
  <2>1. cursor \in Int /\ gen \in Nat
    BY HistoriesNumbers, HistoryNumbers
  <2>2. QED BY <2>1, FramesTyped, HistoriesNumbers DEF Reached, None
<1>2. \A j \in 1 .. Len(s) :
        /\ FrameOK(h, s[j]) /\ ~Live(s[j]) /\ s[j].kind # "connected" /\ s[j].gen = g
        /\ Replayed(s[j]) => s[j].seq <= h.sent + 1
        /\ s[j].kind = "snap" => /\ s[j].at \in 0 .. h.top /\ Claim(h, Carries(s[j]), s[j].at)
                                 /\ Full(h, s, g, s[j].at, j)
  BY DEF Served
<1>3. FramesOK(h, d)
  BY <1>1, <1>2, FramesJoin
<1>4. StoredOK(h, d, gen, Reached)
  <2>1. ASSUME NEW j \in 1 .. Len(s), s[j].kind = "snap", s[j].gen = gen
        PROVE  \E k \in s[j].at .. h.top :
                 k \in Nat /\ Claim(h, Carries(s[j]), k) /\ Full(h, s, gen, k, j)
    <3>1. /\ s[j].at \in 0 .. h.top /\ Claim(h, Carries(s[j]), s[j].at)
          /\ Full(h, s, gen, s[j].at, j)
      BY <1>2, <2>1
    <3>2. s[j].at \in s[j].at .. h.top /\ s[j].at \in Nat
      BY <1>1, <3>1 DEF IsHistory
    <3>3. QED BY <3>1, <3>2
  <2>2. QED BY <1>1, <1>2, <2>1, StoredJoin
<1>5. GreetingsOK(d, cursor)
  BY <1>2, GreetingsJoin
<1>6. \A i \in 1 .. Len(d) : d[i].gen <= gen
  <2>1. ASSUME NEW i \in 1 .. Len(d)
        PROVE  \/ i \in 1 .. Len(down) /\ d[i] = down[i]
               \/ \E j \in 1 .. Len(s) : i = Len(down) + j /\ d[i] = s[j]
    BY JoinedAt
  <2>2. \A j \in 1 .. Len(s) : s[j].gen <= gen
    BY <1>1, <1>2
  <2>3. QED BY <2>1, <2>2 DEF SocketOK
<1>7. ASSUME NEW k \in Nat, Full(h, down, gen, k, 0)
      PROVE  Full(h, d, gen, k, 0)
  <2>1. 0 \in 0 .. Len(down)
    BY <1>1
  <2>2. QED BY <1>1, <1>2, <1>7, <2>1, FullJoin
<1>8. ASSUME NEW k \in Nat, last <= k, g = gen, \A i \in 1 .. Len(down) : ~Replayed(down[i])
      PROVE  Full(h, d, gen, k, 0)
  <2>1. Full(h, s, gen, k, 0) /\ Len(s) \in Nat
    BY <1>8 DEF Served
  <2>2. Full(h, d, gen, k, Len(down) + 0)
    <3>1. k \in Int /\ 0 \in 0 .. Len(s)
      BY <2>1
    <3>2. QED BY <2>1, <3>1, FullShifts
  <2>3. Len(d) \in Nat /\ Len(down) \in 0 .. Len(d) /\ Len(down) + 0 = Len(down)
        /\ \A i \in 1 .. Len(down) : d[i] = down[i]
    BY <1>1, <2>1 DEF Joins
  <2>4. Full(h, d, gen, k, Len(down))
    BY <2>2, <2>3
  <2>5. \A j \in 1 .. Len(down) : ~Replayed(d[j])
    BY <1>8, <2>3
  <2>6. QED BY <2>3, <2>4, <2>5, FullFront
<1>9. QED BY <1>3, <1>4, <1>5, <1>6, <1>7, <1>8

\* The answer to a resync.
LEMMA ResyncHole ==
  ASSUME HoleInv, Resync
  PROVE  HoleInv'
<1>1. ViewerInv /\ SocketOK /\ GreetingsOK(down, cursor) /\ ActOK
  BY DEF HoleInv
<1>2. PICK h \in Histories : HistoryOK(h)
  BY DEF HoleInv
<1>3. ViewerInv'
  BY <1>1, ViewerNext DEF Next
<1>4. /\ Quiet /\ up # <<>> /\ Head(up).kind = "resync" /\ up' = Tail(up)
      /\ act' = act /\ joined' = joined /\ flags' = flags /\ conn' = conn
      /\ gen' = gen /\ cursor' = cursor /\ awaiting' = awaiting /\ hydrated' = hydrated
      /\ shown' = shown /\ passed' = passed /\ lastState' = lastState
      /\ emitted' = emitted /\ seq' = seq /\ leaf' = leaf
  BY DEF Resync, From, Quiet, redis, socket, ui
<1>5. conn /\ Drops(Tail(up), up) /\ Head(up) = up[1] /\ 1 \in 1 .. Len(up) /\ Len(up) \in Nat
  BY <1>1, <1>4, UpTyped
<1>6. PICK last, g : last = Head(up).last /\ g = Head(up).gen
  OBVIOUS
<1>7. last \in Int /\ g \in 0 .. gen /\ gen \in Nat /\ g \in Nat /\ joined
  <2>1. up[1] \in UpFrame /\ up[1].kind = "resync"
    BY <1>1, <1>4, <1>5, UpTyped
  <2>2. last \in Int
    BY <1>5, <1>6, <2>1 DEF UpFrame
  <2>3. g \in 0 .. gen /\ joined
    BY <1>1, <1>5, <1>6, <2>1 DEF SocketOK
  <2>4. gen \in Nat
    BY <1>1, HistoriesNumbers, HistoryNumbers
  <2>5. QED BY <2>2, <2>3, <2>4
<1>8. h \in Histories' /\ PubOK(h)' /\ CacheOK(h)' /\ Upcoming' = Upcoming /\ Total' = Total
      /\ Sent' = Sent
  BY <1>2, <1>4, QuietHistory DEF HistoryOK
<1>9. Reached' = Reached
  BY <1>4 DEF Reached
<1>10. FramesOK(h, down) /\ StoredOK(h, down, gen, Reached) /\ CacheOK(h) /\ ViewerOK(h)
  BY <1>2 DEF HistoryOK
<1>11. PICK d : d = down'
  OBVIOUS
<1>12. /\ FramesOK(h, d) /\ StoredOK(h, d, gen, Reached) /\ GreetingsOK(d, cursor)
       /\ \A i \in 1 .. Len(d) : d[i].gen <= gen
       /\ \A k \in Nat : Full(h, down, gen, k, 0) => Full(h, d, gen, k, 0)
       /\ ActOK'
  <2>1. ASSUME NEW s, Served(h, s, g, None) \/ Served(h, s, g, last), down' = down \o s,
               s \in Seq(DownFrame(leaf, seq))
        PROVE  /\ FramesOK(h, d) /\ StoredOK(h, d, gen, Reached) /\ GreetingsOK(d, cursor)
               /\ \A i \in 1 .. Len(d) : d[i].gen <= gen
               /\ \A k \in Nat : Full(h, down, gen, k, 0) => Full(h, d, gen, k, 0)
               /\ ActOK'
    <3>1. Joins(d, down, s)
      BY <1>1, <1>11, <2>1, FramesTyped, ConcatJoins
    <3>2. /\ FramesOK(h, d) /\ StoredOK(h, d, gen, Reached) /\ GreetingsOK(d, cursor)
          /\ \A i \in 1 .. Len(d) : d[i].gen <= gen
          /\ \A k \in Nat : Full(h, down, gen, k, 0) => Full(h, d, gen, k, 0)
      BY <1>1, <1>7, <1>10, <2>1, <3>1, ServedJoin
    <3>3. \A j \in 1 .. Len(down) : j \in 1 .. Len(d) /\ d[j] = down[j]
      BY <3>1 DEF Joins
    <3>4. ActOK'
      BY <1>1, <1>4, <1>8, <1>9, <1>11, <3>3 DEF ActOK
    <3>5. QED BY <3>2, <3>4
  <2>2. CASE After(last) # <<>> /\ down' = down \o Replay(After(last), g)
    <3>1. Served(h, Replay(After(last), g), g, last)
      <4>1. \E D : h = History(D)
        BY <1>1, HistoriesNumbers
      <4>2. QED BY <1>1, <1>7, <1>10, <2>2, <4>1, AfterServed
    <3>2. Replay(After(last), g) \in Seq(DownFrame(leaf, seq))
      <4>1. leaf \in Nat /\ seq \in Nat /\ After(last) \in Seq(Row(leaf, seq))
        BY <1>1, AfterType DEF ViewerInv, ViewerTypeOK, RelayOK
      <4>2. QED BY <1>7, <4>1, ReplayType
    <3>3. QED BY <2>1, <2>2, <3>1, <3>2
  <2>3. CASE Covers(last) /\ down' = down \o FromCache(g)
    <3>0. SnapshotAt # {}
      BY <2>3 DEF Covers
    <3>1. Served(h, FromCache(g), g, None)
      <4>1. \E D : h = History(D)
        BY <1>1, HistoriesNumbers
      <4>2. QED BY <1>1, <1>7, <1>10, <3>0, <4>1, FromCacheServed
    <3>2. FromCache(g) \in Seq(DownFrame(leaf, seq))
      BY <1>1, <1>7, <3>0, FromCacheType DEF ViewerInv, ViewerTypeOK
    <3>3. QED BY <2>1, <2>3, <3>1, <3>2
  <2>4. CASE down' = down
    <3>1. ActOK'
      BY <1>1, <1>4, <1>8, <1>9, <2>4 DEF ActOK
    <3>2. QED BY <1>1, <1>10, <1>11, <2>4, <3>1 DEF SocketOK
  <2>5. QED BY <1>6, <2>2, <2>3, <2>4 DEF Resync
<1>13. SocketOK'
  <2>1. PICK u : u = up' /\ Drops(u, up)
    BY <1>4, <1>5
  <2>2. \A i \in 1 .. Len(u) : u[i].kind # "connected" => u[i].gen \in 0 .. gen
    <3>1. \A i \in 1 .. Len(u) : u[i] = up[i + 1] /\ i + 1 \in 1 .. Len(up)
      BY <2>1 DEF Drops
    <3>2. QED BY <1>1, <3>1 DEF SocketOK
  <2>3. QED BY <1>1, <1>4, <1>7, <1>11, <1>12, <2>1, <2>2 DEF SocketOK
<1>14. ViewerOK(h)'
  <2>1. SUFFICES ASSUME hydrated, passed = 0
                 PROVE  \E k \in 0 .. seq :
                          cursor <= k /\ Claim(h, shown, k) /\ Full(h, d, gen, k, 0)
    BY <1>4, <1>7, <1>11 DEF ViewerOK
  <2>2. PICK k \in 0 .. seq : /\ cursor <= k /\ Claim(h, shown, k)
                              /\ ~conn \/ (joined /\ Full(h, down, gen, k, 0)) \/ Resuming(h, k)
    BY <1>10, <2>1 DEF ViewerOK
  <2>3. ~Resuming(h, k)
    <3>1. up # <<Switch(gen, cursor)>>
      BY <1>4 DEF Switch
    <3>2. up[1].kind # "connected"
      BY <1>4, <1>5
    <3>3. QED BY <1>5, <3>1, <3>2 DEF Resuming
  <2>4. Full(h, d, gen, k, 0)
    BY <1>5, <1>12, <2>2, <2>3
  <2>5. QED BY <2>2, <2>4
<1>15. QED BY <1>3, <1>4, <1>8, <1>9, <1>11, <1>12, <1>13, <1>14 DEF HoleInv, HistoryOK

\* The snapshot of the record, as it was read when the greeting was sent.
LEMMA RecordServed ==
  ASSUME HoleInv, NEW h \in Histories, HistoryOK(h), act.at = "cache", act.state # None,
         NEW f, f.kind = "snap", f.item = act.state, f.seq = None, f.at = act.fresh,
         ~f.delta, f.gen = act.gen,
         NEW d, Joins(d, down, <<f>>)
  PROVE  /\ FramesOK(h, d) /\ StoredOK(h, d, gen, Reached) /\ GreetingsOK(d, cursor)
         /\ \A i \in 1 .. Len(d) : d[i].gen <= gen
         /\ \A k \in Nat : Full(h, down, gen, k, 0) => Full(h, d, gen, k, 0)
         /\ \A k \in Nat :
              /\ Follows(h, down, gen, (k + 1 .. Sent) \ (1 .. act.fresh), 0) /\ act.gen = gen
              /\ \A i \in 1 .. Len(down) : ~Replayed(down[i])
              => Full(h, d, gen, k, 0)
<1>1. ViewerInv /\ SocketOK /\ GreetingsOK(down, cursor) /\ ActOK
  BY DEF HoleInv
<1>2. /\ seq \in Nat /\ leaf \in Nat /\ Len(down) \in Nat /\ IsHistory(h) /\ gen \in Nat
      /\ \A i \in 1 .. Len(down) : down[i].kind = "snap" => down[i].at \in Nat
      /\ cursor \in Int /\ h.top = seq /\ h.sent = Sent /\ h.total = Total /\ h.leaf = leaf
      /\ h.emitted = emitted /\ Sent \in Int /\ Sent <= seq /\ Total \in Nat /\ emitted \in Int
  BY <1>1, FramesTyped, HistoriesNumbers, HistoryNumbers
<1>3. Reached \in Int
  BY <1>2 DEF Reached, None
<1>4. act.fresh \in 0 .. seq /\ act.state \in 0 .. leaf /\ act.gen \in 0 .. gen
  BY <1>1 DEF ViewerInv, RelayOK, OrNone, SocketOK
<1>5. f.kind = "snap" /\ f.item = act.state /\ f.at = act.fresh /\ ~f.delta /\ f.gen = act.gen
      /\ f.seq = None /\ f.gen # None
  BY <1>2, <1>4 DEF None
<1>6. FrameOK(h, f) /\ ~Live(f) /\ ~Replayed(f) /\ Carries(f) = 1 .. act.state
  BY <1>5 DEF FrameOK, Live, Replayed, Restored, Carries
<1>7. Len(<<f>>) = 1 /\ <<f>>[1] = f
  OBVIOUS
<1>8. FramesOK(h, down) /\ StoredOK(h, down, gen, Reached)
  BY DEF HistoryOK
<1>9. FramesOK(h, d)
  BY <1>2, <1>6, <1>7, <1>8, FramesJoin
<1>10. StoredOK(h, d, gen, Reached)
  <2>1. CASE ~(act.fresh < Reached) /\ ~\E j \in 1 .. Len(down) :
                Live(down[j]) /\ down[j].kind = "snap" /\ act.fresh < down[j].at
    <3>1. \A m \in act.state + 1 .. leaf : emitted < m \/ (Upcoming /\ act.fresh < Total)
      BY <1>1, <2>1 DEF ActOK
    <3>2. PICK k \in act.fresh .. seq : k >= Sent /\ k >= act.fresh /\ k \in Nat
                                        /\ (k = Sent \/ k = act.fresh)
      <4>1. CASE act.fresh <= Sent
        <5>1. Sent \in act.fresh .. seq /\ Sent >= act.fresh /\ Sent \in Nat
          BY <1>2, <1>4, <4>1
        <5>2. QED BY <5>1
      <4>2. CASE ~(act.fresh <= Sent)
        <5>1. act.fresh \in act.fresh .. seq /\ act.fresh >= Sent /\ act.fresh \in Nat
          BY <1>2, <1>4, <4>2
        <5>2. QED BY <5>1
      <4>3. QED BY <4>1, <4>2
    <3>3. Claim(h, Carries(f), k)
      <4>1. SUFFICES ASSUME NEW m \in 1 .. leaf, m \notin 1 .. act.state, ~(emitted < m)
                     PROVE  \E n \in k + 1 .. Total : m \in h.says[n]
        BY <1>2, <1>6 DEF Claim
      <4>2. m \in act.state + 1 .. leaf
        BY <1>2, <1>4, <4>1
      <4>3. Upcoming /\ act.fresh < Total
        BY <3>1, <4>1, <4>2
      <4>4. Sent = Total - 1 /\ h.says[Total] = Carries(pub) /\ pub.item = leaf /\ pub.kind = "snap"
        BY <4>3 DEF Upcoming, Sent, HistoryOK, PubOK
      <4>5. Total \in k + 1 .. Total
        BY <1>2, <1>4, <3>2, <4>3, <4>4
      <4>6. m \in h.says[Total]
        BY <4>4 DEF Carries
      <4>7. QED BY <4>5, <4>6
    <3>4. Full(h, <<f>>, act.gen, k, 1)
      <4>1. \A n \in k + 1 .. Sent : FALSE
        BY <1>2, <3>2
      <4>2. \A j \in 1 + 1 .. 1 : FALSE
        OBVIOUS
      <4>3. QED BY <1>2, <1>7, <4>1, <4>2 DEF Full, Follows, NoSkip
    <3>5. \A j \in 1 .. Len(<<f>>) : <<f>>[j].kind = "snap" /\ <<f>>[j].gen = gen =>
            \E x \in <<f>>[j].at .. h.top :
              x \in Nat /\ Claim(h, Carries(<<f>>[j]), x) /\ Full(h, <<f>>, gen, x, j)
      <4>1. ASSUME NEW j \in 1 .. 1, f.gen = gen
            PROVE  \E x \in f.at .. h.top :
                     x \in Nat /\ Claim(h, Carries(f), x) /\ Full(h, <<f>>, gen, x, j)
        <5>1. j = 1 /\ act.gen = gen /\ f.at = act.fresh /\ h.top = seq
          BY <1>2, <1>5, <4>1
        <5>2. QED BY <3>2, <3>3, <3>4, <5>1
      <4>2. ASSUME NEW j \in 1 .. Len(<<f>>) PROVE <<f>>[j] = f /\ j \in 1 .. 1
        BY <1>7
      <4>3. QED BY <4>1, <4>2
    <3>6. \A j \in 1 .. Len(<<f>>) : FrameOK(h, <<f>>[j]) /\ ~Replayed(<<f>>[j])
      BY <1>6, <1>7
    <3>7. QED BY <1>2, <1>3, <1>8, <3>5, <3>6, StoredJoin
  <2>2. CASE \/ act.fresh < Reached
             \/ \E j \in 1 .. Len(down) :
                  Live(down[j]) /\ down[j].kind = "snap" /\ act.fresh < down[j].at
    <3>1. \A j \in 1 .. Len(<<f>>) :
            \/ <<f>>[j].at < Reached
            \/ \E x \in 1 .. Len(down) :
                 Live(down[x]) /\ down[x].kind = "snap" /\ <<f>>[j].at < down[x].at
      BY <1>5, <1>7, <2>2
    <3>2. \A j \in 1 .. Len(<<f>>) : FrameOK(h, <<f>>[j]) /\ ~Replayed(<<f>>[j])
      BY <1>6, <1>7
    <3>3. QED BY <1>2, <1>3, <1>8, <3>1, <3>2, StoredJoin
  <2>3. QED BY <2>1, <2>2
<1>11. GreetingsOK(d, cursor)
  <2>1. \A j \in 1 .. Len(<<f>>) : <<f>>[j].kind # "connected"
    BY <1>5, <1>7
  <2>2. QED BY <1>1, <2>1, GreetingsJoin
<1>12. /\ Len(d) \in Nat /\ Len(d) = Len(down) + 1 /\ d[Len(down) + 1] = f
       /\ Len(down) + 1 \in 1 .. Len(d)
       /\ \A i \in 1 .. Len(down) : d[i] = down[i] /\ i \in 1 .. Len(d)
       /\ \A i \in 1 .. Len(d) : (i \in 1 .. Len(down) /\ d[i] = down[i])
                                 \/ (i = Len(down) + 1 /\ d[i] = f)
  BY <1>2, <1>7 DEF Joins
<1>13. \A i \in 1 .. Len(d) : d[i].gen <= gen
  BY <1>1, <1>2, <1>4, <1>5, <1>12 DEF SocketOK
<1>14. ASSUME NEW k \in Nat, Full(h, down, gen, k, 0)
       PROVE  Full(h, d, gen, k, 0)
  <2>1. 0 \in 0 .. Len(down)
    BY <1>2
  <2>2. \A j \in 1 .. Len(<<f>>) : FrameOK(h, <<f>>[j]) /\ ~Replayed(<<f>>[j])
    BY <1>6, <1>7
  <2>3. QED BY <1>2, <1>14, <2>1, <2>2, FullJoin
<1>15. ASSUME NEW k \in Nat, act.gen = gen, \A i \in 1 .. Len(down) : ~Replayed(down[i]),
              Follows(h, down, gen, (k + 1 .. Sent) \ (1 .. act.fresh), 0)
       PROVE  Full(h, d, gen, k, 0)
  <2>1. Follows(h, d, gen, k + 1 .. h.sent, 0)
    <3>1. SUFFICES ASSUME NEW n \in k + 1 .. Sent, h.says[n] # {}
                   PROVE  \E j \in 0 + 1 .. Len(d) : Brings(d[j], gen, n)
      BY <1>2 DEF Follows
    <3>2. CASE n \in 1 .. act.fresh
      <4>1. Brings(f, gen, n)
        BY <1>4, <1>5, <1>15, <3>2 DEF Brings
      <4>2. QED BY <1>12, <4>1
    <3>3. CASE n \notin 1 .. act.fresh
      <4>1. \E j \in 0 + 1 .. Len(down) : Brings(down[j], gen, n)
        BY <1>15, <3>1, <3>3 DEF Follows
      <4>2. PICK j \in 1 .. Len(down) : Brings(down[j], gen, n)
        BY <4>1
      <4>3. QED BY <1>12, <4>2
    <3>4. QED BY <3>2, <3>3
  <2>2. NoSkip(h, d, gen, k, 0)
    <3>1. \A j \in 1 .. Len(d) : ~Replayed(d[j])
      BY <1>6, <1>12, <1>15
    <3>2. QED BY <3>1 DEF NoSkip
  <2>3. QED BY <2>1, <2>2 DEF Full
<1>16. QED BY <1>9, <1>10, <1>11, <1>13, <1>14, <1>15

\* Whatever the hydration answers with brings a resuming viewer the rest.
LEMMA BestServed ==
  ASSUME HoleInv, NEW h \in Histories, HistoryOK(h), act.at = "cache",
         NEW s \in Best, NEW d, d = down \o s
  PROVE  /\ FramesOK(h, d) /\ StoredOK(h, d, gen, Reached) /\ GreetingsOK(d, cursor)
         /\ \A i \in 1 .. Len(d) : d[i].gen <= gen
         /\ \A k \in Nat : Full(h, down, gen, k, 0) => Full(h, d, gen, k, 0)
         /\ \A k \in Nat :
              /\ Follows(h, down, gen, (k + 1 .. Sent) \ (1 .. act.fresh), 0)
              /\ act.gen = gen /\ act.last <= k
              /\ \A i \in 1 .. Len(down) : ~Replayed(down[i])
              => Full(h, d, gen, k, 0)
<1>1. ViewerInv /\ SocketOK /\ GreetingsOK(down, cursor) /\ ActOK
  BY DEF HoleInv
<1>2. FramesOK(h, down) /\ StoredOK(h, down, gen, Reached) /\ CacheOK(h)
  BY DEF HistoryOK
<1>3. /\ leaf \in Nat /\ seq \in Nat /\ down \in Seq(DownFrame(leaf, seq)) /\ Len(down) \in Nat
      /\ gen \in Nat /\ \E D : h = History(D)
  BY <1>1, FramesTyped, HistoriesNumbers, HistoryNumbers
<1>4. act.gen \in 0 .. gen /\ act.gen \in Nat /\ act.last \in Int /\ act.fresh \in 0 .. seq
  BY <1>1, <1>3 DEF SocketOK, ViewerInv, RelayOK
<1>5. s \in Seq(DownFrame(leaf, seq))
  BY <1>1, <1>3, BestType DEF ViewerInv
<1>6. Joins(d, down, s)
  BY <1>3, <1>5, ConcatJoins
<1>7. ASSUME NEW last \in Int, last = act.last \/ last = None, Served(h, s, act.gen, last)
      PROVE  /\ FramesOK(h, d) /\ StoredOK(h, d, gen, Reached) /\ GreetingsOK(d, cursor)
             /\ \A i \in 1 .. Len(d) : d[i].gen <= gen
             /\ \A k \in Nat : Full(h, down, gen, k, 0) => Full(h, d, gen, k, 0)
             /\ \A k \in Nat :
                  /\ Follows(h, down, gen, (k + 1 .. Sent) \ (1 .. act.fresh), 0)
                  /\ act.gen = gen /\ act.last <= k
                  /\ \A i \in 1 .. Len(down) : ~Replayed(down[i])
                  => Full(h, d, gen, k, 0)
  <2>1. /\ FramesOK(h, d) /\ StoredOK(h, d, gen, Reached) /\ GreetingsOK(d, cursor)
        /\ \A i \in 1 .. Len(d) : d[i].gen <= gen
        /\ \A k \in Nat : Full(h, down, gen, k, 0) => Full(h, d, gen, k, 0)
        /\ \A k \in Nat : last <= k /\ act.gen = gen
                          /\ (\A i \in 1 .. Len(down) : ~Replayed(down[i]))
                          => Full(h, d, gen, k, 0)
    BY <1>1, <1>2, <1>4, <1>6, <1>7, ServedJoin
  <2>2. \A k \in Nat : act.last <= k => last <= k
    BY <1>7 DEF None
  <2>3. QED BY <2>1, <2>2
<1>8. ASSUME s = FromCache(act.gen), SnapshotAt # {} PROVE Served(h, s, act.gen, None)
  BY <1>1, <1>2, <1>3, <1>4, <1>8, FromCacheServed
<1>10. CASE act.last # None /\ After(act.last) # <<>>
  <2>1. s = Replay(After(act.last), act.gen)
    BY <1>10 DEF Best
  <2>2. Served(h, s, act.gen, act.last)
    BY <1>1, <1>2, <1>3, <1>4, <1>10, <2>1, AfterServed
  <2>3. QED BY <1>4, <1>7, <2>2
<1>11. CASE act.fresh = act.last /\ s = <<>>
  <2>1. d = down
    BY <1>3, <1>11, ConcatEmptySeq
  <2>2. ASSUME NEW k \in Nat, act.last <= k, \A i \in 1 .. Len(down) : ~Replayed(down[i]),
               Follows(h, down, gen, (k + 1 .. Sent) \ (1 .. act.fresh), 0)
        PROVE  Full(h, down, gen, k, 0)
    <3>1. h.sent = Sent /\ Sent \in Int
      BY <1>1, HistoriesNumbers, HistoryNumbers
    <3>2. (k + 1 .. Sent) \ (1 .. act.fresh) = k + 1 .. Sent
      BY <1>4, <1>11, <2>2, <3>1
    <3>3. NoSkip(h, down, gen, k, 0)
      BY <1>3, <2>2 DEF NoSkip
    <3>4. QED BY <2>2, <3>1, <3>2, <3>3 DEF Full
  <2>3. QED BY <1>1, <1>2, <2>1, <2>2 DEF SocketOK
<1>12. CASE s = FromCache(act.gen) /\ SnapshotAt # {}
  <2>1. None \in Int
    BY DEF None
  <2>2. QED BY <1>7, <1>8, <1>12, <2>1
<1>13. CASE s = SnapshotEvent(act.state, act.fresh, act.gen) /\ act.state # None
  <2>1. PICK f : f = Frame("snap", act.state, None, act.fresh, FALSE, act.gen) /\ s = <<f>>
    BY <1>13 DEF SnapshotEvent
  <2>2. Joins(d, down, <<f>>)
    BY <1>6, <2>1
  <2>3. /\ f.kind = "snap" /\ f.item = act.state /\ f.seq = None /\ f.at = act.fresh
        /\ ~f.delta /\ f.gen = act.gen
    BY <2>1 DEF Frame
  <2>4. QED BY <1>13, <2>2, <2>3, RecordServed
<1>14. Covers(act.last) => SnapshotAt # {}
  BY DEF Covers
<1>15. QED BY <1>10, <1>11, <1>12, <1>13, <1>14 DEF Best

\* The answer of an activation, and a miss that lets the runner signal pass.
LEMMA ActivateHydrateHole ==
  ASSUME HoleInv, ActivateHydrate
  PROVE  HoleInv'
<1>1. ViewerInv /\ SocketOK /\ GreetingsOK(down, cursor) /\ ActOK
  BY DEF HoleInv
<1>2. PICK h \in Histories : HistoryOK(h)
  BY DEF HoleInv
<1>3. ViewerInv'
  BY <1>1, ViewerNext DEF Next
<1>4. /\ Quiet /\ act.at = "cache" /\ act' = NoAct
      /\ joined' = joined /\ conn' = conn /\ up' = up
      /\ gen' = gen /\ cursor' = cursor /\ awaiting' = awaiting /\ hydrated' = hydrated
      /\ shown' = shown /\ passed' = passed /\ lastState' = lastState
      /\ emitted' = emitted /\ seq' = seq /\ leaf' = leaf
  BY DEF ActivateHydrate, Quiet, redis, ui
<1>5. act'.at = "idle" /\ act'.gen = 0
  BY <1>4 DEF NoAct
<1>6. h \in Histories' /\ PubOK(h)' /\ CacheOK(h)' /\ Upcoming' = Upcoming /\ Total' = Total
      /\ Sent' = Sent
  BY <1>2, <1>4, QuietHistory DEF HistoryOK
<1>7. Reached' = Reached
  BY <1>4 DEF Reached
<1>8. ActOK'
  BY <1>5 DEF ActOK
<1>9. FramesOK(h, down) /\ StoredOK(h, down, gen, Reached) /\ CacheOK(h) /\ ViewerOK(h)
  BY <1>2 DEF HistoryOK
<1>10. /\ leaf \in Nat /\ seq \in Nat /\ down \in Seq(DownFrame(leaf, seq)) /\ Len(down) \in Nat
       /\ gen \in Nat /\ cursor \in Int /\ IsHistory(h) /\ act.fresh \in 0 .. seq
       /\ act.gen \in 0 .. gen /\ joined /\ ~flags.suppress /\ ~flags.ready
       /\ \A i \in 1 .. Len(down) : down[i].kind = "snap" => down[i].at \in Nat
  BY <1>1, <1>4, FramesTyped, HistoriesNumbers, HistoryNumbers DEF SocketOK, ViewerInv, RelayOK
<1>11. PICK d : d = down'
  OBVIOUS
<1>12. SUFFICES /\ FramesOK(h, d) /\ StoredOK(h, d, gen, Reached) /\ GreetingsOK(d, cursor)
                /\ \A i \in 1 .. Len(d) : d[i].gen <= gen
                /\ ViewerOK(h)'
  <2>1. SocketOK'
    BY <1>1, <1>4, <1>5, <1>10, <1>11, <1>12 DEF SocketOK
  <2>2. QED BY <1>3, <1>4, <1>6, <1>7, <1>8, <1>11, <1>12, <2>1 DEF HoleInv, HistoryOK
<1>13. ASSUME NEW k \in 0 .. seq, Resuming(h, k)
       PROVE  /\ act.gen = gen /\ act.last <= cursor /\ (Greeted \/ flags.pending)
              /\ Follows(h, down, gen, (k + 1 .. Sent) \ (1 .. act.fresh), 0)
              /\ \A i \in 1 .. Len(up) : up[i].kind = "connected"
              /\ \A i \in 1 .. Len(down) :
                   Live(down[i]) \/ Repeated(down[i]) \/ down[i].kind = "connected"
  BY <1>4, <1>10, <1>13 DEF Resuming
<1>14. CASE \E s \in Best : down' = down \o s
  <2>1. PICK s \in Best : d = down \o s
    BY <1>11, <1>14
  <2>2. /\ FramesOK(h, d) /\ StoredOK(h, d, gen, Reached) /\ GreetingsOK(d, cursor)
        /\ \A i \in 1 .. Len(d) : d[i].gen <= gen
        /\ \A k \in Nat : Full(h, down, gen, k, 0) => Full(h, d, gen, k, 0)
        /\ \A k \in Nat :
             /\ Follows(h, down, gen, (k + 1 .. Sent) \ (1 .. act.fresh), 0)
             /\ act.gen = gen /\ act.last <= k
             /\ \A i \in 1 .. Len(down) : ~Replayed(down[i])
             => Full(h, d, gen, k, 0)
    BY <1>2, <1>4, <2>1, BestServed
  <2>3. ViewerOK(h)'
    <3>1. SUFFICES ASSUME hydrated, passed = 0
                   PROVE  \E k \in 0 .. seq :
                            cursor <= k /\ Claim(h, shown, k) /\ (~conn \/ Full(h, d, gen, k, 0))
      BY <1>4, <1>10, <1>11 DEF ViewerOK
    <3>2. PICK k \in 0 .. seq : /\ cursor <= k /\ Claim(h, shown, k)
                                /\ ~conn \/ (joined /\ Full(h, down, gen, k, 0)) \/ Resuming(h, k)
      BY <1>9, <3>1 DEF ViewerOK
    <3>3. Resuming(h, k) => Full(h, d, gen, k, 0)
      <4>1. SUFFICES ASSUME Resuming(h, k) PROVE Full(h, d, gen, k, 0)
        OBVIOUS
      <4>2. /\ act.gen = gen /\ act.last <= cursor
            /\ Follows(h, down, gen, (k + 1 .. Sent) \ (1 .. act.fresh), 0)
            /\ \A i \in 1 .. Len(down) :
                 Live(down[i]) \/ Repeated(down[i]) \/ down[i].kind = "connected"
        BY <1>13, <4>1
      <4>3. act.last <= k /\ k \in Nat
        <5>1. act.last \in Int
          BY <1>1 DEF ViewerInv, RelayOK
        <5>2. QED BY <1>10, <3>2, <4>2, <5>1
      <4>4. \A i \in 1 .. Len(down) : ~Replayed(down[i])
        BY <4>2 DEF Live, Repeated, Replayed
      <4>5. QED BY <2>2, <4>2, <4>3, <4>4
    <3>4. QED BY <2>2, <3>2, <3>3
  <2>4. QED BY <2>2, <2>3
<1>15. CASE /\ flags' = [flags EXCEPT !.ready = TRUE, !.pending = FALSE]
            /\ asked' = IF flags.pending THEN asked + 1 ELSE asked
            /\ down' = IF ticks > 0
                       THEN Append(down, Frame("tick", 0, act.fresh, None, FALSE, act.gen))
                       ELSE down
  <2>1. flags'.ready /\ ~flags'.suppress
    BY <1>1, <1>10, <1>15 DEF ViewerInv, ViewerTypeOK
  <2>2. PICK f : f = Frame("tick", 0, act.fresh, None, FALSE, act.gen)
    OBVIOUS
  <2>3. f.kind = "tick" /\ f.at = None /\ ~f.delta /\ f.gen = act.gen /\ f.gen # None
        /\ f \in DownFrame(leaf, seq)
    BY <1>10, <2>2 DEF Frame, DownFrame, EventFrame, EventKinds, OrNone, None
  <2>4. FrameOK(h, f) /\ ~Live(f) /\ ~Replayed(f) /\ Repeated(f)
    BY <2>3 DEF FrameOK, Live, Replayed, Repeated
  <2>5. Len(<<f>>) = 1 /\ <<f>>[1] = f
    OBVIOUS
  <2>6. /\ FramesOK(h, d) /\ StoredOK(h, d, gen, Reached) /\ GreetingsOK(d, cursor)
        /\ \A i \in 1 .. Len(d) : d[i].gen <= gen
        /\ \A k \in Nat : Full(h, down, gen, k, 0) => Full(h, d, gen, k, 0)
        /\ \A i \in 1 .. Len(d) : (\E j \in 1 .. Len(down) : d[i] = down[j]) \/ Repeated(d[i])
        /\ \A i \in 1 .. Len(down) : i \in 1 .. Len(d) /\ d[i] = down[i]
    <3>1. CASE d = down
      BY <1>1, <1>9, <3>1 DEF SocketOK
    <3>2. CASE d = Append(down, f)
      <4>1. Joins(d, down, <<f>>)
        BY <1>10, <2>3, <3>2, AppendJoins
      <4>2. \A j \in 1 .. Len(<<f>>) :
              /\ FrameOK(h, <<f>>[j]) /\ ~Live(<<f>>[j]) /\ ~Replayed(<<f>>[j])
              /\ <<f>>[j].kind # "snap" /\ <<f>>[j].kind # "connected"
        BY <2>3, <2>4, <2>5
      <4>3. FramesOK(h, d)
        BY <1>9, <1>10, <4>1, <4>2, FramesJoin
      <4>4. StoredOK(h, d, gen, Reached)
        <5>1. Reached \in Int
          BY <1>10 DEF Reached, None
        <5>2. QED BY <1>9, <1>10, <4>1, <4>2, <5>1, StoredJoin
      <4>5. GreetingsOK(d, cursor)
        BY <1>1, <4>1, <4>2, GreetingsJoin
      <4>6. /\ \A i \in 1 .. Len(down) : i \in 1 .. Len(d) /\ d[i] = down[i]
            /\ \A i \in 1 .. Len(d) : (i \in 1 .. Len(down) /\ d[i] = down[i]) \/ d[i] = f
        BY <2>5, <4>1 DEF Joins
      <4>7. \A i \in 1 .. Len(d) : d[i].gen <= gen
        BY <1>1, <1>10, <2>3, <4>6 DEF SocketOK
      <4>8. ASSUME NEW k \in Nat, Full(h, down, gen, k, 0)
            PROVE  Full(h, d, gen, k, 0)
        <5>1. 0 \in 0 .. Len(down)
          BY <1>10
        <5>2. QED BY <1>10, <4>1, <4>2, <4>8, <5>1, FullJoin
      <4>9. QED BY <2>4, <4>3, <4>4, <4>5, <4>6, <4>7, <4>8
    <3>3. QED BY <1>11, <1>15, <2>2, <3>1, <3>2
  <2>7. ViewerOK(h)'
    <3>1. SUFFICES ASSUME hydrated, passed = 0
                   PROVE  \E k \in 0 .. seq :
                            /\ cursor <= k /\ Claim(h, shown, k)
                            /\ ~conn \/ Full(h, d, gen, k, 0) \/ Resuming(h, k)'
      BY <1>4, <1>10, <1>11 DEF ViewerOK
    <3>2. PICK k \in 0 .. seq : /\ cursor <= k /\ Claim(h, shown, k)
                                /\ ~conn \/ (joined /\ Full(h, down, gen, k, 0)) \/ Resuming(h, k)
      BY <1>9, <3>1 DEF ViewerOK
    <3>3. ASSUME Resuming(h, k) PROVE Resuming(h, k)'
      <4>1. /\ \A i \in 1 .. Len(up) : up[i].kind = "connected"
            /\ \A i \in 1 .. Len(down) :
                 Live(down[i]) \/ Repeated(down[i]) \/ down[i].kind = "connected"
            /\ Greeted \/ flags.pending
        BY <1>13, <3>3
      <4>2. \A i \in 1 .. Len(d) : Live(d[i]) \/ Repeated(d[i]) \/ d[i].kind = "connected"
        BY <2>6, <4>1
      <4>3. Greeted' \/ asked' > 0
        <5>1. CASE flags.pending
          <6>1. asked' = asked + 1 /\ asked \in Nat
            BY <1>1, <1>15, <5>1 DEF ViewerInv, ViewerTypeOK
          <6>2. QED BY <6>1
        <5>2. CASE Greeted
          <6>1. up # <<>> \/ \E i \in 1 .. Len(d) : d[i].kind = "connected" /\ d[i].gen = gen
            BY <2>6, <5>2 DEF Greeted
          <6>2. QED BY <1>4, <1>11, <6>1 DEF Greeted
        <5>3. QED BY <4>1, <5>1, <5>2
      <4>4. QED BY <1>4, <1>5, <1>10, <1>11, <2>1, <4>1, <4>2, <4>3 DEF Resuming
    <3>4. QED BY <2>6, <3>2, <3>3
  <2>8. QED BY <2>6, <2>7
<1>16. QED BY <1>14, <1>15 DEF ActivateHydrate

-----------------------------------------------------------------------------
(* The tab's steps.                                                        *)

\* Nothing but the tab and what it sends.
LEMMA ConnectHole ==
  ASSUME HoleInv, Connect
  PROVE  HoleInv'
<1>1. ViewerInv /\ SocketOK /\ GreetingsOK(down, cursor) /\ ActOK
  BY DEF HoleInv
<1>2. PICK h \in Histories : HistoryOK(h)
  BY DEF HoleInv
<1>3. ViewerInv'
  BY <1>1, ViewerNext DEF Next
<1>4. /\ Quiet /\ ~conn /\ up' = <<Switch(gen, cursor)>>
      /\ act' = act /\ joined' = joined /\ flags' = flags /\ down' = down
      /\ gen' = gen /\ cursor' = cursor /\ awaiting' = awaiting /\ hydrated' = hydrated
      /\ shown' = shown /\ passed' = passed /\ lastState' = lastState
      /\ emitted' = emitted /\ seq' = seq /\ leaf' = leaf
  BY DEF Connect, Quiet, runner, redis, socket
<1>5. ~joined
  BY <1>1, <1>4 DEF ViewerInv, ViewerTypeOK
<1>6. h \in Histories' /\ PubOK(h)' /\ CacheOK(h)' /\ Upcoming' = Upcoming /\ Total' = Total
  BY <1>2, <1>4, QuietHistory DEF HistoryOK
<1>7. Reached' = Reached
  BY <1>4 DEF Reached
<1>8. FramesOK(h, down)' /\ StoredOK(h, down, gen, Reached)' /\ GreetingsOK(down, cursor)'
  BY <1>1, <1>2, <1>4, <1>7 DEF HistoryOK
<1>9. SocketOK'
  <2>1. PICK u : u = up' /\ u = <<Switch(gen, cursor)>>
    BY <1>4
  <2>2. gen \in Nat
    BY <1>1, HistoriesNumbers, HistoryNumbers
  <2>3. Len(u) = 1 /\ u[1] = Switch(gen, cursor) /\ u # <<>>
    BY <2>1
  <2>4. \A i \in 1 .. Len(u) : u[i].gen \in 0 .. gen
    BY <2>2, <2>3 DEF Switch
  <2>5. u[1].kind = "switch"
    BY <2>3 DEF Switch
  <2>6. QED BY <1>1, <1>4, <2>1, <2>3, <2>4, <2>5 DEF SocketOK
<1>10. ActOK'
  BY <1>1, <1>4, <1>6, <1>7 DEF ActOK
<1>11. ViewerOK(h)'
  <2>1. SUFFICES ASSUME hydrated, passed = 0
                 PROVE  \E k \in 0 .. seq :
                          cursor <= k /\ Claim(h, shown, k) /\ Resuming(h, k)'
    BY <1>4 DEF ViewerOK
  <2>2. PICK k \in 0 .. seq : cursor <= k /\ Claim(h, shown, k)
    BY <1>2, <2>1 DEF ViewerOK, HistoryOK
  <2>3. Resuming(h, k)'
    BY <1>4, <1>5 DEF Resuming, Switch
  <2>4. QED BY <2>2, <2>3
<1>12. QED BY <1>3, <1>6, <1>8, <1>9, <1>10, <1>11 DEF HoleInv, HistoryOK

\* A lost connection: nothing is on its way, and the viewer is not connected.
LEMMA CutHole ==
  ASSUME HoleInv, Cut
  PROVE  HoleInv'
<1>1. ViewerInv /\ SocketOK /\ GreetingsOK(down, cursor) /\ ActOK
  BY DEF HoleInv
<1>2. PICK h \in Histories : HistoryOK(h)
  BY DEF HoleInv
<1>3. ViewerInv'
  BY <1>1, ViewerNext DEF Next
<1>4. /\ Quiet /\ conn' = FALSE /\ down' = <<>> /\ up' = <<>> /\ act' = NoAct /\ flags' = NoFlags
      /\ gen' = gen /\ cursor' = cursor /\ awaiting' = awaiting /\ hydrated' = hydrated
      /\ shown' = shown /\ passed' = passed /\ lastState' = lastState
      /\ emitted' = emitted /\ seq' = seq /\ leaf' = leaf
  BY DEF Cut, Quiet, runner, redis, ui
<1>5. act'.at = "idle" /\ act'.gen = 0 /\ Len(up') = 0 /\ Len(down') = 0
  BY <1>4, EmptySeq DEF NoAct
<1>6. h \in Histories' /\ PubOK(h)' /\ CacheOK(h)'
  BY <1>2, <1>4, QuietHistory DEF HistoryOK
<1>7. FramesOK(h, down)' /\ StoredOK(h, down, gen, Reached)' /\ GreetingsOK(down, cursor)'
  BY <1>4, NothingQueued
<1>8. SocketOK'
  <2>1. gen \in Nat
    BY <1>1, HistoriesNumbers, HistoryNumbers
  <2>2. act'.gen \in 0 .. gen' /\ (\A i \in 1 .. Len(up') : FALSE)
        /\ (\A i \in 1 .. Len(down') : FALSE)
    BY <1>4, <1>5, <2>1
  <2>3. QED BY <1>1, <1>4, <1>5, <2>2 DEF SocketOK
<1>9. ActOK'
  BY <1>5 DEF ActOK
<1>10. ViewerOK(h)'
  BY <1>2, <1>4 DEF ViewerOK, HistoryOK
<1>11. QED BY <1>3, <1>6, <1>7, <1>8, <1>9, <1>10 DEF HoleInv, HistoryOK

\* A tab without a transcript asks again, from the beginning.
LEMMA AskAgainHole ==
  ASSUME HoleInv, Reopen \/ Watchdog
  PROVE  HoleInv'
<1>1. ViewerInv /\ SocketOK /\ GreetingsOK(down, cursor) /\ ActOK
  BY DEF HoleInv
<1>2. PICK h \in Histories : HistoryOK(h)
  BY DEF HoleInv
<1>3. ViewerInv'
  BY <1>1, ViewerNext DEF Next
<1>4. /\ Quiet /\ ~hydrated /\ hydrated' = hydrated /\ awaiting' = TRUE
      /\ act' = act /\ joined' = joined /\ flags' = flags /\ conn' = conn /\ down' = down
      /\ lastState' = lastState /\ emitted' = emitted /\ seq' = seq /\ leaf' = leaf
      /\ gen' = gen \/ gen' = gen + 1
      /\ cursor' = cursor \/ cursor' = None
      /\ up' = up \/ \E last : up' = Append(up, Switch(gen', last))
  <2>1. awaiting = ~hydrated
    BY <1>1 DEF SocketOK
  <2>2. CASE Reopen
    BY <2>2 DEF Reopen, Quiet, runner, redis, socket
  <2>3. CASE Watchdog
    BY <2>1, <2>3 DEF Watchdog, Quiet, runner, redis, socket
  <2>4. QED BY <2>2, <2>3
<1>5. h \in Histories' /\ PubOK(h)' /\ CacheOK(h)' /\ Upcoming' = Upcoming /\ Total' = Total
  BY <1>2, <1>4, QuietHistory DEF HistoryOK
<1>6. Reached' = None /\ Reached = None
  BY <1>4 DEF Reached
<1>7. gen \in Nat /\ Len(up) \in Nat /\ cursor \in Int /\ up \in Seq(UpFrame)
      /\ \A i \in 1 .. Len(down) : down[i].kind = "connected" => down[i].seq \in Nat
  BY <1>1, UpTyped, HistoriesNumbers, HistoryNumbers, FramesTyped
<1>8. FramesOK(h, down)' /\ GreetingsOK(down, cursor)'
  <2>1. FramesOK(h, down)'
    BY <1>2, <1>4 DEF HistoryOK
  <2>2. GreetingsOK(down, None)
    BY <1>1, <1>7 DEF GreetingsOK, None
  <2>3. QED BY <1>1, <1>4, <2>1, <2>2
<1>9. StoredOK(h, down, gen, Reached)'
  <2>1. CASE gen' = gen
    BY <1>2, <1>4, <1>6, <2>1 DEF HistoryOK
  <2>2. CASE gen' = gen + 1
    <3>1. PICK g : g = gen + 1
      OBVIOUS
    <3>2. \A i \in 1 .. Len(down) : down[i].gen # g
      BY <1>1, <1>7, <3>1 DEF SocketOK
    <3>3. StoredOK(h, down, g, None)
      BY <3>2 DEF StoredOK
    <3>4. QED BY <1>4, <1>6, <2>2, <3>1, <3>3
  <2>3. QED BY <1>4, <2>1, <2>2
<1>10. SocketOK'
  <2>1. PICK u, g : u = up' /\ g = gen'
    OBVIOUS
  <2>2. \A x \in 0 .. gen : x \in 0 .. g
    BY <1>4, <1>7, <2>1
  <2>3. /\ \A i \in 1 .. Len(u) : u[i].kind # "connected" => u[i].gen \in 0 .. g
        /\ up # <<>> => u # <<>> /\ u[1] = up[1]
    <3>1. CASE u = up
      BY <1>1, <2>2, <3>1 DEF SocketOK
    <3>2. ASSUME NEW last, u = Append(up, Switch(g, last))
          PROVE  /\ \A i \in 1 .. Len(u) : u[i].kind # "connected" => u[i].gen \in 0 .. g
                 /\ up # <<>> => u # <<>> /\ u[1] = up[1]
      <4>1. PICK e : e = Switch(g, last)
        OBVIOUS
      <4>2. e.gen = g /\ g \in Nat
        BY <1>4, <1>7, <2>1, <4>1 DEF Switch
      <4>3. Len(u) = Len(up) + 1 /\ u[Len(up) + 1] = e
            /\ \A i \in 1 .. Len(up) : u[i] = up[i]
        <5>1. up \in Seq(UpFrame \cup {e}) /\ e \in UpFrame \cup {e}
          BY <1>7, SeqMonotonic
        <5>2. QED BY <3>2, <4>1, <5>1, AppendProperties
      <4>4. \A i \in 1 .. Len(u) : (i \in 1 .. Len(up) /\ u[i] = up[i]) \/ u[i] = e
        BY <1>7, <4>3
      <4>5. \A i \in 1 .. Len(u) : u[i].kind # "connected" => u[i].gen \in 0 .. g
        BY <1>1, <2>2, <4>2, <4>4 DEF SocketOK
      <4>6. up # <<>> => u # <<>> /\ u[1] = up[1]
        <5>1. u # <<>>
          BY <1>7, <4>3, EmptySeq
        <5>2. up # <<>> => 1 \in 1 .. Len(up)
          BY <1>7, EmptySeq
        <5>3. QED BY <4>3, <5>1, <5>2
      <4>7. QED BY <4>5, <4>6
    <3>3. QED BY <1>4, <2>1, <3>1, <3>2
  <2>4. act.gen \in 0 .. g /\ \A i \in 1 .. Len(down) : down[i].gen <= g
    <3>1. ASSUME NEW i \in 1 .. Len(down) PROVE down[i].gen <= g
      BY <1>1, <1>4, <1>7, <2>1, FramesTyped DEF SocketOK
    <3>2. QED BY <1>1, <2>2, <3>1 DEF SocketOK
  <2>5. QED BY <1>1, <1>4, <2>1, <2>3, <2>4 DEF SocketOK
<1>11. ActOK'
  BY <1>1, <1>4, <1>5, <1>6 DEF ActOK
<1>12. ViewerOK(h)'
  BY <1>4 DEF ViewerOK
<1>13. QED BY <1>3, <1>5, <1>8, <1>9, <1>10, <1>11, <1>12 DEF HoleInv, HistoryOK

\* The first frame brings a viewer nothing it has not: the rest is what it needs.
LEMMA FullHead ==
  ASSUME NEW h, IsHistory(h), NEW q, NEW r, Drops(r, q), NEW g, NEW k \in Nat, NEW k2 \in Nat,
         k <= k2, \A n \in Int : k2 < n => ~Brings(q[1], g, n),
         FramesOK(h, q), Full(h, q, g, k, 0)
  PROVE  Full(h, r, g, k2, 0)
<1>1. Len(q) \in Nat
  BY DEF Drops
<1>2. h.sent \in Int
  BY DEF IsHistory
<1>3. Follows(h, q, g, k2 + 1 .. h.sent, 1)
  <2>1. k2 + 1 .. h.sent \subseteq k + 1 .. h.sent
    BY <1>2
  <2>2. \A n \in k2 + 1 .. h.sent : ~Brings(q[1], g, n)
    BY <1>2
  <2>3. Follows(h, q, g, k + 1 .. h.sent, 0)
    BY DEF Full
  <2>4. QED BY <1>1, <2>1, <2>2, <2>3, FollowsHead
<1>4. NoSkip(h, q, g, k2, 1)
  <2>1. \A i \in 1 .. Len(q) : Replayed(q[i]) => q[i].seq \in Int
    BY FrameNumbers DEF FramesOK
  <2>2. NoSkip(h, q, g, k, 0)
    BY DEF Full
  <2>3. QED BY <1>1, <2>1, <2>2, NoSkipHead
<1>5. Full(h, q, g, k2, 0 + 1)
  BY <1>3, <1>4 DEF Full
<1>6. QED BY <1>5, FullDrop

\* A viewer that resumes goes on resuming: the first frame was not the answer.
LEMMA ResumingHead ==
  ASSUME ViewerInv, NEW h \in Histories, NEW k \in Nat, NEW k2 \in Nat, k <= k2,
         down # <<>>, down' = Tail(down), joined,
         joined' = joined /\ act' = act /\ flags' = flags /\ gen' = gen /\ asked' = asked,
         Upcoming' = Upcoming, Sent' = Sent, cursor <= cursor', cursor' \in Int,
         \A n \in Int : k2 < n => ~Brings(down[1], gen, n),
         ~(Live(down[1]) /\ down[1].kind = "snap"),
         \/ up' = up /\ ~(down[1].kind = "connected" /\ down[1].gen = gen)
         \/ up' = Append(up, [kind |-> "connected"]),
         Resuming(h, k)
  PROVE  Resuming(h, k2)'
<1>1. PICK d : d = down' /\ Drops(d, down)
  BY TailDrops, FramesTyped
<1>2. Len(down) \in Nat \ {0} /\ Len(d) = Len(down) - 1
      /\ \A i \in 1 .. Len(d) : d[i] = down[i + 1] /\ i + 1 \in 1 .. Len(down)
  BY <1>1 DEF Drops
<1>3. joined /\ (\A i \in 1 .. Len(up) : up[i].kind = "connected")
      /\ (\A i \in 1 .. Len(down) :
            Live(down[i]) \/ Repeated(down[i]) \/ down[i].kind = "connected")
  BY DEF Resuming
<1>4. \A i \in 1 .. Len(d) : Live(d[i]) \/ Repeated(d[i]) \/ d[i].kind = "connected"
  BY <1>2, <1>3
<1>5. PICK u : u = up'
  OBVIOUS
<1>6. (\A i \in 1 .. Len(u) : u[i].kind = "connected")
      /\ (up # <<>> \/ (down[1].kind = "connected" /\ down[1].gen = gen) => u # <<>>)
  <2>1. CASE up' = up /\ ~(down[1].kind = "connected" /\ down[1].gen = gen)
    BY <1>3, <1>5, <2>1
  <2>2. CASE up' = Append(up, [kind |-> "connected"])
    <3>1. up \in Seq(UpFrame) /\ Len(up) \in Nat /\ [kind |-> "connected"] \in UpFrame
      BY UpTyped DEF UpFrame
    <3>2. PICK e : e = [kind |-> "connected"]
      OBVIOUS
    <3>3. e.kind = "connected"
      BY <3>2
    <3>4. Len(u) = Len(up) + 1 /\ u[Len(up) + 1] = e /\ \A i \in 1 .. Len(up) : u[i] = up[i]
      BY <1>5, <2>2, <3>1, <3>2, AppendProperties
    <3>5. \A i \in 1 .. Len(u) : (i \in 1 .. Len(up) /\ u[i] = up[i]) \/ u[i] = e
      BY <3>1, <3>4
    <3>6. u # <<>>
      BY <3>1, <3>4, EmptySeq
    <3>7. QED BY <1>3, <3>3, <3>5, <3>6
  <2>3. QED BY <2>1, <2>2
<1>7. Greeted => Greeted'
  <2>1. ASSUME NEW i \in 1 .. Len(down), down[i].kind = "connected", down[i].gen = gen
        PROVE  Greeted'
    <3>1. CASE i = 1
      BY <1>5, <1>6, <2>1, <3>1 DEF Greeted
    <3>2. CASE i # 1
      <4>1. i - 1 \in 1 .. Len(d) /\ (i - 1) + 1 = i
        BY <1>2, <3>2
      <4>2. d[i - 1].kind = "connected" /\ d[i - 1].gen = gen
        BY <1>2, <2>1, <4>1
      <4>3. QED BY <1>1, <4>1, <4>2 DEF Greeted
    <3>3. QED BY <3>1, <3>2
  <2>2. CASE up # <<>>
    BY <1>5, <1>6, <2>2 DEF Greeted
  <2>3. QED BY <2>1, <2>2 DEF Greeted
<1>8. act.last <= cursor => act'.last <= cursor'
  <2>1. act.last \in Int /\ cursor \in Int
    BY HistoriesNumbers, HistoryNumbers DEF ViewerInv, RelayOK
  <2>2. PICK c : c = cursor'
    OBVIOUS
  <2>3. act.last <= cursor => act.last <= c
    BY <2>1, <2>2
  <2>4. QED BY <2>2, <2>3
<1>9. CASE act.at = "seq" /\ act.gen = gen /\ act.last <= cursor
  BY <1>1, <1>3, <1>4, <1>5, <1>6, <1>8, <1>9 DEF Resuming
<1>10. CASE /\ act.at = "cache" /\ act.gen = gen /\ act.last <= cursor
            /\ Follows(h, down, gen, (k + 1 .. Sent) \ (1 .. act.fresh), 0)
            /\ ~flags.suppress /\ ~flags.ready /\ (Greeted \/ flags.pending)
  <2>1. Follows(h, down, gen, (k2 + 1 .. Sent) \ (1 .. act.fresh), 0 + 1)
    <3>0. Sent \in Int
      BY HistoriesNumbers, HistoryNumbers
    <3>1. (k2 + 1 .. Sent) \ (1 .. act.fresh) \subseteq (k + 1 .. Sent) \ (1 .. act.fresh)
      BY <3>0
    <3>2. \A n \in (k2 + 1 .. Sent) \ (1 .. act.fresh) : ~Brings(down[1], gen, n)
      BY <3>0
    <3>3. Follows(h, down, gen, (k2 + 1 .. Sent) \ (1 .. act.fresh), 1)
      BY <1>2, <1>10, <3>1, <3>2, FollowsHead
    <3>4. QED BY <3>3
  <2>2. Follows(h, d, gen, (k2 + 1 .. Sent) \ (1 .. act.fresh), 0)
    BY <1>1, <2>1, FollowsDrops
  <2>3. Follows(h, down', gen', (k2 + 1 .. Sent') \ (1 .. act'.fresh), 0)
    BY <1>1, <2>2
  <2>4. QED BY <1>1, <1>3, <1>4, <1>5, <1>6, <1>7, <1>8, <1>10, <2>3 DEF Resuming
<1>11. CASE /\ act.at = "idle" /\ ~flags.suppress /\ flags.ready
            /\ \/ Greeted \/ asked > 0 \/ Upcoming
               \/ \E i \in 1 .. Len(down) : Live(down[i]) /\ down[i].kind = "snap"
  <2>1. \/ Greeted' \/ asked' > 0 \/ Upcoming'
        \/ \E i \in 1 .. Len(d) : Live(d[i]) /\ d[i].kind = "snap"
    <3>1. CASE Greeted \/ asked > 0 \/ Upcoming
      BY <1>7, <3>1
    <3>2. ASSUME NEW i \in 1 .. Len(down), Live(down[i]), down[i].kind = "snap"
          PROVE  \E x \in 1 .. Len(d) : Live(d[x]) /\ d[x].kind = "snap"
      <4>1. i # 1
        BY <3>2
      <4>2. i - 1 \in 1 .. Len(d) /\ (i - 1) + 1 = i
        BY <1>2, <4>1
      <4>3. QED BY <1>2, <3>2, <4>2
    <3>3. QED BY <1>11, <3>1, <3>2
  <2>2. QED BY <1>1, <1>3, <1>4, <1>5, <1>6, <1>11, <2>1 DEF Resuming
<1>12. QED BY <1>3, <1>9, <1>10, <1>11 DEF Resuming

\* What the other parts of the invariant say when the first frame is taken and
\* the cursor does not go back.
LEMMA FirstTaken ==
  ASSUME HoleInv, ViewerInv', NEW h \in Histories, HistoryOK(h), Quiet,
         down # <<>>, down' = Tail(down),
         joined' = joined /\ act' = act /\ flags' = flags /\ conn' = conn /\ gen' = gen
         /\ asked' = asked,
         cursor' = cursor \/ (cursor <= down[1].seq /\ cursor' = down[1].seq),
         Reached <= Reached', Reached' \in Int,
         Live(down[1]) /\ down[1].kind = "snap" => down[1].at <= Reached'
  PROVE  /\ FramesOK(h, down)' /\ StoredOK(h, down, gen, Reached)' /\ GreetingsOK(down, cursor)'
         /\ ActOK' /\ cursor <= cursor' /\ joined /\ conn
         /\ \A i \in 1 .. Len(down') : down'[i].gen <= gen
<1>1. ViewerInv /\ SocketOK /\ GreetingsOK(down, cursor) /\ ActOK
  BY DEF HoleInv
<1>2. joined /\ conn
  BY <1>1 DEF SocketOK, ViewerInv, ViewerTypeOK
<1>3. PICK d : d = down' /\ Drops(d, down)
  BY <1>1, TailDrops, FramesTyped
<1>4. Len(down) \in Nat \ {0} /\ Len(d) = Len(down) - 1 /\ 1 \in 1 .. Len(down)
      /\ \A i \in 1 .. Len(d) : d[i] = down[i + 1] /\ i + 1 \in 1 .. Len(down)
  BY <1>3 DEF Drops
<1>5. FramesOK(h, down) /\ StoredOK(h, down, gen, Reached)
  BY DEF HistoryOK
<1>6. FramesOK(h, d)
  BY <1>3, <1>5, FramesDrop
<1>7. /\ \A i \in 1 .. Len(down) : down[i].kind = "snap" => down[i].at \in Nat
      /\ \A i \in 1 .. Len(down) : down[i].kind = "connected" => down[i].seq \in Nat
      /\ cursor \in Int
  BY <1>1, FramesTyped, HistoriesNumbers, HistoryNumbers
<1>8. Reached \in Int
  BY <1>7 DEF Reached, None
<1>9. StoredOK(h, d, gen, Reached')
  <2>1. PICK reached2 : reached2 = Reached'
    OBVIOUS
  <2>2. reached2 \in Int /\ Reached <= reached2
        /\ (Live(down[1]) /\ down[1].kind = "snap" => down[1].at \in Int /\ down[1].at <= reached2)
    BY <1>4, <1>7, <2>1
  <2>3. StoredOK(h, d, gen, reached2)
    BY <1>3, <1>5, <1>7, <1>8, <2>2, StoredDrop
  <2>4. QED BY <2>1, <2>3
<1>10. PICK c : c = cursor'
  OBVIOUS
<1>11. GreetingsOK(d, c) /\ cursor <= c
  <2>1. SUFFICES ASSUME NEW i \in 1 .. Len(d), d[i].kind = "connected"
                 PROVE  c <= d[i].seq /\ \A j \in 1 .. i - 1 : d[j].seq <= d[i].seq
    BY <1>7, <1>10 DEF GreetingsOK
  <2>2. i + 1 \in 1 .. Len(down) /\ down[i + 1].kind = "connected" /\ d[i] = down[i + 1]
    BY <1>4, <2>1
  <2>3. cursor <= down[i + 1].seq /\ \A j \in 1 .. (i + 1) - 1 : down[j].seq <= down[i + 1].seq
    BY <1>1, <2>2 DEF GreetingsOK
  <2>4. 1 \in 1 .. (i + 1) - 1
    BY <1>4
  <2>5. c <= d[i].seq
    BY <1>10, <2>2, <2>3, <2>4
  <2>6. \A j \in 1 .. i - 1 : d[j] = down[j + 1] /\ j + 1 \in 1 .. (i + 1) - 1
    BY <1>4
  <2>7. QED BY <2>2, <2>3, <2>5, <2>6
<1>12. Upcoming' = Upcoming /\ Total' = Total /\ leaf' = leaf /\ emitted' = emitted
  BY <1>5, QuietHistory DEF HistoryOK, Quiet
<1>13. ActOK'
  <2>1. SUFFICES ASSUME act.at = "cache", act.state # None, ~(act.fresh < Reached'),
                        ~\E j \in 1 .. Len(d) :
                           Live(d[j]) /\ d[j].kind = "snap" /\ act.fresh < d[j].at
                 PROVE  \A m \in act.state + 1 .. leaf :
                          emitted < m \/ (Upcoming /\ act.fresh < Total)
    BY <1>3, <1>12 DEF ActOK
  <2>2. PICK reached2, fresh : reached2 = Reached' /\ fresh = act.fresh
    OBVIOUS
  <2>3. fresh \in Int /\ reached2 \in Int /\ ~(fresh < reached2) /\ Reached <= reached2
    BY <1>1, <2>1, <2>2 DEF ViewerInv, RelayOK
  <2>4. ~(act.fresh < Reached)
    BY <1>8, <2>2, <2>3
  <2>5. ~\E j \in 1 .. Len(down) :
           Live(down[j]) /\ down[j].kind = "snap" /\ act.fresh < down[j].at
    <3>1. SUFFICES ASSUME NEW j \in 1 .. Len(down), Live(down[j]), down[j].kind = "snap",
                          act.fresh < down[j].at
                   PROVE  FALSE
      OBVIOUS
    <3>2. j # 1
      <4>1. SUFFICES ASSUME j = 1 PROVE FALSE
        OBVIOUS
      <4>2. down[1].at <= reached2 /\ down[1].at \in Nat /\ fresh < down[1].at
        BY <1>7, <2>2, <3>1, <4>1
      <4>3. QED BY <2>3, <4>2
    <3>3. j - 1 \in 1 .. Len(d) /\ (j - 1) + 1 = j
      BY <1>4, <3>2
    <3>4. d[j - 1] = down[j]
      BY <1>4, <3>3
    <3>5. QED BY <2>1, <3>1, <3>3, <3>4
  <2>6. QED BY <1>1, <2>1, <2>4, <2>5 DEF ActOK
<1>14. \A i \in 1 .. Len(d) : d[i].gen <= gen
  BY <1>1, <1>4 DEF SocketOK
<1>15. QED BY <1>2, <1>3, <1>6, <1>9, <1>10, <1>11, <1>13, <1>14

\* What the tab sends when it sees a frame keeps the socket's part.
LEMMA SocketSees ==
  ASSUME ViewerInv, SocketOK, Quiet, joined, cursor' \in Int,
         joined' = joined /\ act' = act /\ flags' = flags /\ conn' = conn /\ gen' = gen,
         awaiting' = ~hydrated',
         \/ up' = up
         \/ \E e \in UpFrame : up' = Append(up, e) /\ (e.kind = "connected" \/ e.gen = gen),
         \A i \in 1 .. Len(down') : down'[i].gen <= gen,
         hydrated' /\ cursor' = None => passed' = 0
  PROVE  SocketOK'
<1>1. gen \in Nat /\ up \in Seq(UpFrame) /\ Len(up) \in Nat
  BY UpTyped, HistoriesNumbers, HistoryNumbers
<1>2. PICK u : u = up'
  OBVIOUS
<1>3. \A i \in 1 .. Len(u) : u[i].kind # "connected" => u[i].gen \in 0 .. gen
  <2>1. CASE u = up
    BY <2>1 DEF SocketOK
  <2>2. ASSUME NEW e \in UpFrame, u = Append(up, e), e.kind = "connected" \/ e.gen = gen
        PROVE  \A i \in 1 .. Len(u) : u[i].kind # "connected" => u[i].gen \in 0 .. gen
    <3>1. Len(u) = Len(up) + 1 /\ u[Len(up) + 1] = e /\ \A i \in 1 .. Len(up) : u[i] = up[i]
      BY <1>1, <2>2, AppendProperties
    <3>2. \A i \in 1 .. Len(u) : (i \in 1 .. Len(up) /\ u[i] = up[i]) \/ u[i] = e
      BY <1>1, <3>1
    <3>3. e.kind # "connected" => e.gen \in 0 .. gen
      BY <1>1, <2>2
    <3>4. QED BY <3>2, <3>3 DEF SocketOK
  <2>3. QED BY <1>2, <2>1, <2>2
<1>4. QED BY <1>2, <1>3 DEF SocketOK, Quiet

\* "connected": the cursor does not move unless there was none.
LEMMA SeeConnectedHole ==
  ASSUME HoleInv, SeeConnected
  PROVE  HoleInv'
<1>1. ViewerInv /\ SocketOK /\ GreetingsOK(down, cursor) /\ ActOK
  BY DEF HoleInv
<1>2. PICK h \in Histories : HistoryOK(h)
  BY DEF HoleInv
<1>3. ViewerInv'
  BY <1>1, ViewerNext DEF Next
<1>4. /\ Quiet /\ down # <<>> /\ Head(down).kind = "connected" /\ down' = Tail(down)
      /\ joined' = joined /\ act' = act /\ flags' = flags /\ conn' = conn /\ gen' = gen
      /\ asked' = asked /\ hydrated' = hydrated /\ shown' = shown /\ seq' = seq /\ leaf' = leaf
  BY DEF SeeConnected, To, Quiet, runner, redis, socket
<1>5. /\ leaf \in Nat /\ seq \in Nat /\ gen \in Nat /\ cursor \in Int /\ None <= cursor
      /\ IsHistory(h) /\ h.top = seq /\ h.sent = Sent /\ cursor' \in Int
      /\ down \in Seq(DownFrame(leaf, seq)) /\ Len(down) \in Nat
      /\ \A i \in 1 .. Len(down) : down[i].kind = "connected" => down[i].seq \in Nat
  <2>1. None <= cursor
    BY <1>1 DEF ViewerInv, ViewerTypeOK, OrNone, Seqs, None
  <2>2. cursor' \in Int
    BY <1>3 DEF ViewerInv, ViewerTypeOK, OrNone, Seqs, None
  <2>3. QED BY <1>1, <2>1, <2>2, FramesTyped, HistoriesNumbers, HistoryNumbers
<1>6. Head(down) = down[1] /\ 1 \in 1 .. Len(down)
  BY <1>4, <1>5, EmptySeq, HeadTailProperties
<1>7. down[1].kind = "connected" /\ down[1].seq \in Nat /\ cursor <= down[1].seq
  BY <1>1, <1>4, <1>5, <1>6 DEF GreetingsOK
<1>8. \/ down[1].gen = gen /\ cursor = None /\ cursor' = down[1].seq /\ passed' = down[1].seq
      \/ cursor' = cursor /\ passed' = passed
  <2>1. CASE Head(down).gen = gen
    <3>1. cursor' = MergeSeq(down[1].seq)
          /\ passed' = IF cursor = None THEN down[1].seq ELSE passed
      BY <1>6, <2>1 DEF SeeConnected
    <3>2. Min({cursor, down[1].seq}) = cursor
      BY <1>5, <1>7, MinOfTwo
    <3>3. QED BY <1>6, <2>1, <3>1, <3>2 DEF MergeSeq
  <2>2. CASE Head(down).gen # gen
    BY <2>2 DEF SeeConnected
  <2>3. QED BY <2>1, <2>2
<1>9. /\ awaiting' = ~hydrated
      /\ \/ up' = up /\ down[1].gen # gen
         \/ up' = Append(up, [kind |-> "connected"])
  BY <1>1, <1>6 DEF SeeConnected, SocketOK
<1>10. h \in Histories' /\ PubOK(h)' /\ CacheOK(h)' /\ Upcoming' = Upcoming /\ Sent' = Sent
  BY <1>2, <1>4, QuietHistory DEF HistoryOK
<1>11. Reached <= Reached' /\ Reached' \in Int
  <2>1. PICK c : c = cursor'
    OBVIOUS
  <2>2. c \in Int /\ cursor <= c
    BY <1>5, <1>7, <1>8, <2>1
  <2>3. Reached' = IF hydrated THEN c ELSE None
    BY <1>4, <2>1 DEF Reached
  <2>4. QED BY <1>5, <2>2, <2>3 DEF Reached, None
<1>12. /\ FramesOK(h, down)' /\ StoredOK(h, down, gen, Reached)' /\ GreetingsOK(down, cursor)'
       /\ ActOK' /\ cursor <= cursor' /\ joined /\ conn
       /\ \A i \in 1 .. Len(down') : down'[i].gen <= gen
  BY <1>2, <1>3, <1>4, <1>7, <1>8, <1>11, FirstTaken
<1>13. SocketOK'
  <2>1. hydrated' /\ cursor' = None => passed' = 0
    <3>1. down[1].seq # None
      BY <1>7 DEF None
    <3>2. QED BY <1>1, <1>4, <1>8, <3>1 DEF SocketOK
  <2>2. \/ up' = up
        \/ \E e \in UpFrame : up' = Append(up, e) /\ (e.kind = "connected" \/ e.gen = gen)
    <3>1. PICK e : e = [kind |-> "connected"]
      OBVIOUS
    <3>2. e \in UpFrame /\ e.kind = "connected"
      BY <3>1 DEF UpFrame
    <3>3. QED BY <1>9, <3>1, <3>2
  <2>3. QED BY <1>1, <1>4, <1>5, <1>9, <1>12, <2>1, <2>2, SocketSees
<1>14. ViewerOK(h)'
  <2>1. SUFFICES ASSUME hydrated, passed' = 0
                 PROVE  \E k \in 0 .. seq :
                          /\ cursor' <= k /\ Claim(h, shown, k)
                          /\ Full(h, down', gen, k, 0) \/ Resuming(h, k)'
    BY <1>4, <1>12 DEF ViewerOK
  <2>2. passed = 0
    BY <1>1, <1>8, <2>1 DEF SocketOK
  <2>3. PICK k \in 0 .. seq : /\ cursor <= k /\ Claim(h, shown, k)
                              /\ ~conn \/ (joined /\ Full(h, down, gen, k, 0)) \/ Resuming(h, k)
    BY <1>2, <2>1, <2>2 DEF ViewerOK, HistoryOK
  <2>4. k \in Nat /\ cursor' <= k
    <3>1. k \in Nat /\ 0 <= k
      BY <2>3
    <3>2. QED BY <1>8, <2>1, <2>3, <3>1
  <2>5. \A n \in Int : k < n => ~Brings(down[1], gen, n)
    BY <1>7 DEF Brings
  <2>6. Full(h, down, gen, k, 0) => Full(h, down', gen, k, 0)
    <3>1. Drops(down', down) /\ FramesOK(h, down) /\ k <= k
      BY <1>2, <1>4, <1>5, <2>4, TailDrops DEF HistoryOK
    <3>2. QED BY <1>5, <2>4, <2>5, <3>1, FullHead
  <2>7. Resuming(h, k) => Resuming(h, k)'
    <3>1. ~(Live(down[1]) /\ down[1].kind = "snap") /\ k <= k
      BY <1>7, <2>4
    <3>2. QED BY <1>1, <1>4, <1>5, <1>9, <1>10, <1>12, <2>4, <2>5, <3>1, ResumingHead
  <2>8. QED BY <1>12, <2>3, <2>4, <2>6, <2>7
<1>15. QED BY <1>3, <1>10, <1>12, <1>13, <1>14 DEF HoleInv, HistoryOK

\* Behind a broadcast comes all that a viewer lacks that has what it brought.
LEMMA BehindBroadcast ==
  ASSUME NEW h, IsHistory(h), NEW q, Len(q) \in Nat \ {0}, FramesOK(h, q), Live(q[1]),
         NEW g, NEW k \in Nat, q[1].seq <= k
  PROVE  Full(h, q, g, k, 1)
<1>1. 1 \in 1 .. Len(q) /\ q[1].seq \in Nat /\ h.sent \in Int
      /\ \A j \in 1 .. Len(q) : FrameOK(h, q[j])
  BY FrameNumbers DEF FramesOK, IsHistory
<1>2. ASSUME NEW j \in 1 .. Len(q), Live(q[j])
      PROVE  Brings(q[j], g, q[j].seq)
  BY <1>1, <1>2, FrameNumbers DEF Brings, Live
<1>3. Follows(h, q, g, k + 1 .. h.sent, 1)
  <2>1. SUFFICES ASSUME NEW n \in k + 1 .. h.sent
                 PROVE  \E j \in 1 + 1 .. Len(q) : Brings(q[j], g, n)
    BY DEF Follows
  <2>2. n \in q[1].seq + 1 .. h.sent
    BY <1>1
  <2>3. Broadcast(q, 1 + 1 .. Len(q), n)
    BY <1>1, <2>2 DEF FramesOK
  <2>4. QED BY <1>2, <2>3 DEF Broadcast
<1>4. NoSkip(h, q, g, k, 1)
  <2>1. SUFFICES ASSUME NEW j \in 1 + 1 .. Len(q), Replayed(q[j]),
                        NEW n \in k + 1 .. q[j].seq - 1, h.says[n] # {}
                 PROVE  \E x \in 1 + 1 .. j - 1 : Brings(q[x], g, n)
    BY DEF NoSkip
  <2>2. j \in 1 .. Len(q) /\ 1 \in 1 .. j - 1 /\ q[j].seq \in Nat
    BY <1>1, <2>1, FrameNumbers
  <2>3. n \in q[1].seq + 1 .. q[j].seq - 1
    BY <1>1, <2>2
  <2>4. Broadcast(q, 1 + 1 .. j - 1, n)
    BY <1>1, <2>1, <2>2, <2>3 DEF FramesOK
  <2>5. QED BY <1>2, <2>4 DEF Broadcast
<1>5. QED BY <1>3, <1>4 DEF Full

\* An event frame: its kind and its numbers.
LEMMA EventNumbers ==
  ASSUME NEW h, IsHistory(h), NEW l, NEW s \in Nat, NEW f \in EventFrame(l, s), FrameOK(h, f)
  PROVE  /\ f.kind # "connected" /\ f.gen \in Int
         /\ f.kind = "snap" => f.at \in Nat
         /\ f.kind # "snap" => f.seq \in Nat
         /\ \/ Live(f) /\ f.seq \in 1 .. h.sent /\ f.at = f.seq /\ ~f.delta /\ f.gen = None
               /\ Honest(h, f, f.seq)
            \/ Replayed(f) /\ f.seq \in 1 .. h.top /\ f.at = f.seq /\ f.delta /\ f.gen # None
               /\ h.says[f.seq] = Carries(f)
            \/ Restored(f) /\ f.kind = "snap" /\ f.seq = None /\ ~f.delta /\ f.gen # None
            \/ Repeated(f) /\ f.kind = "tick" /\ f.at = None /\ ~f.delta /\ f.gen # None
<1>1. f.kind \in EventKinds /\ f.kind # "connected" /\ f.gen \in Int
      /\ (f.kind = "snap" => f.at \in Nat) /\ (f.kind # "snap" => f.seq \in Nat)
  BY DEF EventFrame, EventKinds, OrNone, None
<1>2. QED BY <1>1 DEF FrameOK, Live, Replayed, Restored, Repeated

\* What the tab does with an event frame f.
Taken(f) ==
  /\ Matches(f) /\ ~Stale(f)
  /\ cursor' = IF f.seq = None \/ cursor >= f.seq THEN cursor ELSE f.seq
  /\ IF f.kind = "snap"
       THEN shown' = 1 .. f.item /\ hydrated' = TRUE
            /\ passed' = IF f.at >= cursor THEN 0 ELSE cursor
       ELSE /\ hydrated' = hydrated
            /\ shown' = IF f.kind = "msg" /\ hydrated THEN shown \cup {f.item} ELSE shown
            /\ passed' = IF cursor = None \/ Gap(f) \/ (f.at = None /\ f.seq > cursor)
                         THEN f.seq ELSE passed
  /\ \/ up' = up
     \/ Gap(f) /\ \E e \in UpFrame :
                      up' = Append(up, e) /\ e.kind = "resync" /\ e.gen = gen
Dropped(f) ==
  /\ ~Matches(f) \/ Stale(f)
  /\ cursor' = cursor /\ hydrated' = hydrated /\ shown' = shown /\ passed' = passed /\ up' = up

\* The code's analyzers and guards come to one of the two.
LEMMA SeeEventDoes ==
  ASSUME ViewerInv, SocketOK, SeeEvent, NEW f, f = down[1]
  PROVE  /\ Quiet /\ down # <<>> /\ down' = Tail(down) /\ f.kind # "connected"
         /\ f \in EventFrame(leaf, seq) /\ 1 \in 1 .. Len(down) /\ Len(down) \in Nat \ {0}
         /\ joined' = joined /\ act' = act /\ flags' = flags /\ conn' = conn /\ gen' = gen
         /\ asked' = asked /\ seq' = seq /\ leaf' = leaf /\ awaiting' = ~hydrated'
         /\ Taken(f) \/ Dropped(f)
<1>1. /\ Quiet /\ down # <<>> /\ Head(down).kind \in {"msg", "snap", "tick", "meta"}
      /\ down' = Tail(down)
      /\ joined' = joined /\ act' = act /\ flags' = flags /\ conn' = conn /\ gen' = gen
      /\ asked' = asked /\ seq' = seq /\ leaf' = leaf
  BY DEF SeeEvent, To, Quiet, runner, redis, socket
<1>2. Head(down) = f /\ 1 \in 1 .. Len(down) /\ f.kind # "connected" /\ Len(down) \in Nat \ {0}
  BY <1>1, FramesTyped, EmptySeq, HeadTailProperties
<1>3. f \in EventFrame(leaf, seq)
  BY <1>2, FramesTyped DEF DownFrame
<1>4. f.seq \in Int /\ cursor \in Int /\ gen \in Nat
  <2>1. f.seq \in Int
    BY <1>3, FramesTyped DEF EventFrame, OrNone, None
  <2>2. QED BY <2>1, HistoriesNumbers, HistoryNumbers
<1>5. awaiting = ~hydrated
  BY DEF SocketOK
<1>6. CASE Matches(f) /\ ~Stale(f)
  <2>1. /\ Advance(f) /\ Apply(f)
        /\ passed' = IF f.kind = "snap" THEN (IF f.at >= cursor THEN 0 ELSE cursor)
                     ELSE IF cursor = None \/ Gap(f) \/ (f.at = None /\ f.seq > cursor)
                       THEN f.seq ELSE passed
        /\ up' = IF Gap(f) THEN Append(up, [kind |-> "resync", last |-> cursor, gen |-> gen])
                 ELSE up
    BY <1>2, <1>6 DEF SeeEvent
  <2>2. cursor' = IF f.seq = None \/ cursor >= f.seq THEN cursor ELSE f.seq
    BY <1>4, <2>1, MaxOfTwo DEF Advance
  <2>3. \/ up' = up
        \/ Gap(f) /\ \E e \in UpFrame :
                         up' = Append(up, e) /\ e.kind = "resync" /\ e.gen = gen
    <3>1. PICK e : e = [kind |-> "resync", last |-> cursor, gen |-> gen]
      OBVIOUS
    <3>2. e \in UpFrame /\ e.kind = "resync" /\ e.gen = gen
      BY <1>4, <3>1 DEF UpFrame
    <3>3. QED BY <2>1, <3>1, <3>2
  <2>4. /\ awaiting' = ~hydrated'
        /\ IF f.kind = "snap" THEN shown' = 1 .. f.item /\ hydrated' = TRUE
           ELSE /\ hydrated' = hydrated
                /\ shown' = IF f.kind = "msg" /\ hydrated THEN shown \cup {f.item} ELSE shown
    <3>1. CASE f.kind = "snap"
      <4>1. shown' = 1 .. f.item /\ awaiting' = FALSE /\ hydrated' = TRUE
        BY <2>1, <3>1 DEF Apply
      <4>2. QED BY <3>1, <4>1
    <3>2. CASE f.kind # "snap"
      <4>1. /\ shown' = IF f.kind = "msg" /\ ~awaiting THEN shown \cup {f.item} ELSE shown
            /\ awaiting' = awaiting /\ hydrated' = hydrated
        BY <2>1, <3>2 DEF Apply
      <4>2. awaiting' = ~hydrated'
        BY <1>5, <4>1
      <4>3. (~awaiting) <=> hydrated
        BY <1>5
      <4>4. shown' = IF f.kind = "msg" /\ hydrated THEN shown \cup {f.item} ELSE shown
        BY <4>1, <4>3
      <4>5. QED BY <3>2, <4>1, <4>2, <4>4
    <3>3. QED BY <3>1, <3>2
  <2>5. Taken(f)
    BY <1>6, <2>1, <2>2, <2>3, <2>4 DEF Taken
  <2>6. QED BY <1>1, <1>2, <1>3, <2>4, <2>5
<1>7. CASE ~(Matches(f) /\ ~Stale(f))
  <2>1. Dropped(f) /\ awaiting' = awaiting
    BY <1>2, <1>7 DEF SeeEvent, Dropped
  <2>2. awaiting' = ~hydrated'
    BY <1>5, <2>1 DEF Dropped
  <2>3. QED BY <1>1, <1>2, <1>3, <2>1, <2>2
<1>8. QED BY <1>6, <1>7

\* A viewer that keeps what it shows, or adds what the frame carries, has all up
\* to number k2 if it had all up to k and nothing is skipped.
LEMMA TakenHead ==
  ASSUME ViewerInv, ViewerInv', NEW h \in Histories, HistoryOK(h), Quiet, joined,
         down # <<>>, down' = Tail(down),
         joined' = joined /\ act' = act /\ flags' = flags /\ conn' = conn /\ gen' = gen
         /\ asked' = asked /\ up' = up,
         NEW k \in Nat, NEW k2 \in 0 .. seq, k <= k2, cursor <= cursor', cursor' <= k2,
         Claim(h, shown', k2),
         \A n \in Int : k2 < n => ~Brings(down[1], gen, n),
         down[1].kind # "connected", ~(Live(down[1]) /\ down[1].kind = "snap"),
         Full(h, down, gen, k, 0) \/ Resuming(h, k)
  PROVE  ViewerOK(h)'
<1>1. h \in Histories' /\ Upcoming' = Upcoming /\ Sent' = Sent /\ seq' = seq
  BY QuietHistory DEF HistoryOK, Quiet
<1>2. IsHistory(h) /\ k2 \in Nat /\ cursor' \in Int
  BY HistoriesNumbers, NextNumbers, <1>1
<1>3. Full(h, down, gen, k, 0) => Full(h, down', gen, k2, 0)
  <2>1. Drops(down', down) /\ FramesOK(h, down)
    BY TailDrops, FramesTyped DEF HistoryOK
  <2>2. QED BY <1>2, <2>1, FullHead
<1>4. Resuming(h, k) => Resuming(h, k2)'
  BY <1>1, <1>2, ResumingHead
<1>5. QED BY <1>1, <1>3, <1>4 DEF ViewerOK

\* A frame that is dropped, or taken by a viewer that shows a transcript and
\* stays passed by nothing, brings all it skips over or nothing new.
LEMMA DroppedKeeps ==
  ASSUME HoleInv, ViewerInv', SeeEvent, NEW h \in Histories, HistoryOK(h),
         NEW f, f = down[1], Dropped(f), joined
  PROVE  ViewerOK(h)'
<1>1. ViewerInv /\ SocketOK
  BY DEF HoleInv
<1>2. /\ Quiet /\ down # <<>> /\ down' = Tail(down) /\ f.kind # "connected"
      /\ f \in EventFrame(leaf, seq) /\ 1 \in 1 .. Len(down) /\ Len(down) \in Nat \ {0}
      /\ joined' = joined /\ act' = act /\ flags' = flags /\ conn' = conn /\ gen' = gen
      /\ asked' = asked /\ seq' = seq /\ leaf' = leaf
  BY <1>1, SeeEventDoes
<1>3. /\ IsHistory(h) /\ seq \in Nat /\ cursor \in Int /\ h.sent <= seq /\ h.top = seq
      /\ gen \in Nat /\ conn /\ FramesOK(h, down) /\ h.sent \in Int
  BY <1>1, HistoriesNumbers, HistoryNumbers DEF ViewerInv, ViewerTypeOK, HistoryOK
<1>4. FrameOK(h, f)
  BY <1>2, <1>3 DEF FramesOK
<1>5. SUFFICES ASSUME hydrated, passed = 0
               PROVE  ViewerOK(h)'
  BY DEF Dropped, ViewerOK
<1>6. PICK k \in 0 .. seq : cursor <= k /\ Claim(h, shown, k)
                            /\ (Full(h, down, gen, k, 0) \/ Resuming(h, k))
  BY <1>3, <1>5 DEF ViewerOK, HistoryOK
<1>7. k \in Nat /\ k <= k /\ cursor' = cursor /\ shown' = shown /\ up' = up /\ ~awaiting
  <2>1. k \in Nat /\ k <= k
    BY <1>6
  <2>2. awaiting = ~hydrated
    BY <1>1 DEF SocketOK
  <2>3. QED BY <1>5, <2>1, <2>2 DEF Dropped
<1>8. \A n \in Int : k < n => ~Brings(f, gen, n)
  <2>1. SUFFICES ASSUME NEW n \in Int, k < n, Brings(f, gen, n) PROVE FALSE
    OBVIOUS
  <2>2. Matches(f)
    BY <1>7, <2>1 DEF Brings, Matches
  <2>3. f.seq # None /\ cursor # None /\ IF f.delta THEN f.seq <= cursor ELSE f.seq < cursor
    BY <2>2 DEF Dropped, Stale
  <2>4. f.at \in Nat /\ f.at = f.seq
    <3>1. f.at # None
      <4>1. f.kind = "snap" => f.at \in Nat
        BY <1>2, <1>3, <1>4, EventNumbers
      <4>2. f.at = n \/ f.kind = "snap"
        BY <2>1 DEF Brings
      <4>3. QED BY <1>7, <2>1, <4>1, <4>2 DEF None
    <3>2. f.at = f.seq /\ (f.seq \in 1 .. h.sent \/ f.seq \in 1 .. h.top)
      BY <1>2, <1>3, <1>4, <2>3, <3>1, EventNumbers
    <3>3. QED BY <1>3, <3>2
  <2>5. f.at <= k
    BY <1>3, <1>6, <1>7, <2>3, <2>4
  <2>6. QED BY <1>7, <2>1, <2>4, <2>5 DEF Brings
<1>9. CASE ~(Live(f) /\ f.kind = "snap")
  BY <1>1, <1>2, <1>3, <1>6, <1>7, <1>8, <1>9, TakenHead
<1>10. CASE Live(f) /\ f.kind = "snap"
  <2>1. f.gen = None /\ f.seq \in Nat
    BY <1>2, <1>3, <1>4, <1>10, EventNumbers DEF Live, IsHistory
  <2>2. f.seq < cursor
    BY <1>2, <1>3, <1>4, <1>7, <1>10, <2>1, EventNumbers
       DEF Dropped, Stale, Matches, Live, Replayed, Restored
  <2>3. f.seq <= k
    BY <1>3, <1>6, <1>7, <2>1, <2>2
  <2>4. Full(h, down, gen, k, 0 + 1)
    BY <1>2, <1>3, <1>7, <1>10, <2>3, BehindBroadcast
  <2>5. Full(h, down', gen, k, 0)
    BY <1>1, <1>2, <1>7, <2>4, TailDrops, FramesTyped, FullDrop
  <2>6. QED BY <1>2, <1>6, <1>7, <2>5 DEF ViewerOK
<1>11. QED BY <1>9, <1>10

\* A snapshot: what it lacks comes behind it.
LEMMA SnapshotTaken ==
  ASSUME HoleInv, ViewerInv', SeeEvent, NEW h \in Histories, HistoryOK(h),
         NEW f, f = down[1], Taken(f), f.kind = "snap", joined
  PROVE  ViewerOK(h)'
<1>1. ViewerInv /\ SocketOK
  BY DEF HoleInv
<1>2. /\ Quiet /\ down # <<>> /\ down' = Tail(down) /\ f.kind # "connected"
      /\ f \in EventFrame(leaf, seq) /\ 1 \in 1 .. Len(down) /\ Len(down) \in Nat \ {0}
      /\ joined' = joined /\ gen' = gen /\ seq' = seq
  BY <1>1, SeeEventDoes
<1>3. /\ IsHistory(h) /\ seq \in Nat /\ cursor \in Int /\ h.sent <= seq /\ h.top = seq
      /\ gen \in Nat /\ FramesOK(h, down) /\ h.sent \in Int
  BY <1>1, HistoriesNumbers, HistoryNumbers DEF HistoryOK
<1>4. FrameOK(h, f) /\ f.at \in Nat
  BY <1>2, <1>3, EventNumbers DEF FramesOK
<1>5. SUFFICES ASSUME passed' = 0
               PROVE  \E k \in 0 .. seq : /\ cursor' <= k /\ Claim(h, shown', k)
                                          /\ Full(h, down, gen, k, 1)
  <2>1. \A k \in Nat : Full(h, down, gen, k, 0 + 1) => Full(h, down', gen, k, 0)
    BY <1>1, <1>2, TailDrops, FramesTyped, FullDrop
  <2>2. QED BY <1>2, <2>1 DEF ViewerOK
<1>6. cursor <= f.at /\ shown' = Carries(f)
  BY <1>3, <1>4, <1>5 DEF Taken, Carries
<1>7. CASE Live(f)
  <2>1. f.seq \in 1 .. h.sent /\ f.at = f.seq /\ Honest(h, f, f.seq)
    BY <1>2, <1>3, <1>4, <1>7, EventNumbers DEF Live, Replayed, Restored, Repeated
  <2>2. f.seq \in 0 .. seq /\ f.seq # None /\ f.seq \in Nat
    BY <1>3, <2>1 DEF None
  <2>3. cursor' = f.seq
    BY <1>3, <1>6, <2>1, <2>2 DEF Taken
  <2>4. Claim(h, shown', f.seq)
    BY <1>6, <2>1 DEF Honest
  <2>5. Full(h, down, gen, f.seq, 1)
    BY <1>2, <1>3, <1>7, <2>2, BehindBroadcast
  <2>6. cursor' <= f.seq
    BY <1>3, <2>2, <2>3
  <2>7. QED BY <2>2, <2>4, <2>5, <2>6
<1>8. CASE ~Live(f)
  <2>1. f.gen = gen /\ (f.seq = None \/ f.seq = f.at)
    BY <1>2, <1>3, <1>4, <1>8, EventNumbers DEF Live, Taken, Matches, Restored, Repeated, Replayed
  <2>2. \/ f.at < Reached
        \/ \E j \in 1 .. 1 - 1 : Live(down[j]) /\ down[j].kind = "snap" /\ f.at < down[j].at
        \/ \E k \in f.at .. h.top : Claim(h, Carries(f), k) /\ Full(h, down, gen, k, 1)
    BY <1>2, <2>1 DEF HistoryOK, StoredOK
  <2>3. ~(f.at < Reached)
    BY <1>3, <1>4, <1>6 DEF Reached, None
  <2>4. PICK k \in f.at .. h.top : Claim(h, Carries(f), k) /\ Full(h, down, gen, k, 1)
    BY <2>2, <2>3
  <2>5. k \in 0 .. seq /\ f.at <= k
    BY <1>3, <1>4, <2>4
  <2>6. cursor' <= k
    <3>1. cursor' = cursor \/ cursor' = f.at
      BY <2>1 DEF Taken
    <3>2. cursor <= k
      BY <1>3, <1>4, <1>6, <2>5
    <3>3. QED BY <2>5, <3>1, <3>2
  <2>7. QED BY <1>6, <2>4, <2>5, <2>6
<1>9. QED BY <1>7, <1>8

\* Another event: the next number, or one below it, or one that skips nothing.
LEMMA EventTaken ==
  ASSUME HoleInv, ViewerInv', SeeEvent, NEW h \in Histories, HistoryOK(h),
         NEW f, f = down[1], Taken(f), f.kind # "snap", joined, cursor <= cursor'
  PROVE  ViewerOK(h)'
<1>1. ViewerInv /\ SocketOK
  BY DEF HoleInv
<1>2. /\ Quiet /\ down # <<>> /\ down' = Tail(down) /\ f.kind # "connected"
      /\ f \in EventFrame(leaf, seq) /\ 1 \in 1 .. Len(down) /\ Len(down) \in Nat \ {0}
      /\ joined' = joined /\ act' = act /\ flags' = flags /\ conn' = conn /\ gen' = gen
      /\ asked' = asked /\ seq' = seq /\ leaf' = leaf
  BY <1>1, SeeEventDoes
<1>3. /\ IsHistory(h) /\ seq \in Nat /\ cursor \in Int /\ None <= cursor
      /\ h.sent <= seq /\ h.top = seq
      /\ gen \in Nat /\ conn /\ FramesOK(h, down) /\ h.sent \in Int /\ h.sent <= h.total
      /\ h.top <= h.total /\ h.total \in Nat
  <2>1. None <= cursor
    BY <1>1 DEF ViewerInv, ViewerTypeOK, OrNone, Seqs, None
  <2>2. QED BY <1>1, <2>1, HistoriesNumbers, HistoryNumbers
           DEF ViewerInv, ViewerTypeOK, HistoryOK, IsHistory
<1>4. FrameOK(h, f) /\ f.seq \in Nat
  BY <1>2, <1>3, EventNumbers DEF FramesOK
<1>5. SUFFICES ASSUME hydrated, passed' = 0
               PROVE  ViewerOK(h)'
  BY DEF Taken, ViewerOK
<1>6. ~awaiting /\ hydrated' = hydrated
  <2>1. awaiting = ~hydrated
    BY <1>1 DEF SocketOK
  <2>2. QED BY <1>5, <2>1 DEF Taken
<1>7. /\ cursor' = (IF cursor >= f.seq THEN cursor ELSE f.seq)
      /\ shown' = shown \cup Carries(f)
  BY <1>4, <1>5 DEF Taken, Carries, None
<1>8. ASSUME cursor = None
      PROVE  Repeated(f) /\ passed = 0 /\ f.seq = 0 /\ up' = up
  <2>1. f.seq = 0
    BY <1>5, <1>8 DEF Taken
  <2>2. ~Live(f) /\ ~Replayed(f)
    BY <1>2, <1>3, <1>4, <2>1, EventNumbers DEF Live, Replayed, Restored, Repeated
  <2>3. Repeated(f)
    BY <1>2, <1>3, <1>4, <2>2, EventNumbers
  <2>4. up' = up
    BY <1>8 DEF Taken, Gap
  <2>5. QED BY <1>1, <1>5, <1>8, <2>1, <2>3, <2>4 DEF SocketOK
<1>9. ASSUME cursor # None
      PROVE  passed = 0 /\ ~Gap(f) /\ up' = up /\ (f.at = None => f.seq <= cursor)
  <2>1. 0 <= cursor
    BY <1>3, <1>9 DEF None
  <2>2. passed' = IF Gap(f) \/ (f.at = None /\ f.seq > cursor) THEN f.seq ELSE passed
    BY <1>9 DEF Taken
  <2>3. Gap(f) => f.seq > 0
    BY <1>3, <1>4, <2>1 DEF Gap
  <2>4. f.seq > cursor => f.seq # 0
    BY <1>3, <1>4, <2>1
  <2>5. ~Gap(f) /\ ~(f.at = None /\ f.seq > cursor) /\ passed = 0
    BY <1>4, <1>5, <2>2, <2>3, <2>4
  <2>6. QED BY <1>3, <1>4, <2>5 DEF Taken
<1>10. passed = 0 /\ up' = up
  BY <1>8, <1>9
<1>11. PICK k \in 0 .. seq : cursor <= k /\ Claim(h, shown, k)
                             /\ (Full(h, down, gen, k, 0) \/ Resuming(h, k))
  BY <1>3, <1>5, <1>10 DEF ViewerOK, HistoryOK
<1>12. k \in Nat /\ k <= seq /\ k <= k
  BY <1>3, <1>11
<1>13. CASE Repeated(f)
  <2>1. cursor' <= k
    <3>1. CASE cursor = None
      BY <1>3, <1>7, <1>8, <1>12, <3>1 DEF None
    <3>2. CASE cursor # None
      <4>1. f.at = None
        BY <1>2, <1>3, <1>4, <1>13, EventNumbers DEF Repeated, Live, Replayed, Restored
      <4>2. cursor' = cursor
        BY <1>3, <1>4, <1>7, <1>9, <3>2, <4>1
      <4>3. QED BY <1>11, <4>2
    <3>3. QED BY <3>1, <3>2
  <2>2. shown' = shown /\ ~Live(f)
    BY <1>7, <1>13 DEF Carries, Repeated, Live
  <2>3. \A n \in Int : k < n => ~Brings(f, gen, n)
    <3>1. f.at = None
      BY <1>2, <1>3, <1>4, <1>13, EventNumbers DEF Repeated, Live, Replayed, Restored
    <3>2. QED BY <1>12, <1>13, <3>1 DEF Brings, Repeated, None
  <2>4. QED BY <1>1, <1>2, <1>10, <1>11, <1>12, <2>1, <2>2, <2>3, TakenHead
<1>14. ASSUME Live(f) \/ Replayed(f), NEW k2 \in 0 .. seq, k <= k2, f.seq <= k2,
              \A n \in k + 1 .. k2 : h.says[n] \subseteq Carries(f)
       PROVE  ViewerOK(h)'
  <2>1. f.at = f.seq /\ k2 \in Nat
    BY <1>2, <1>3, <1>4, <1>14, EventNumbers DEF Live, Replayed, Restored, Repeated
  <2>2. \A n \in Int : k2 < n => ~Brings(f, gen, n)
    BY <1>4, <1>14, <2>1 DEF Brings
  <2>3. Claim(h, shown', k2)
    <3>1. PICK S2 : S2 = shown'
      OBVIOUS
    <3>2. shown \subseteq S2 /\ \A n \in k + 1 .. k2 : h.says[n] \subseteq S2
      BY <1>7, <1>14, <3>1
    <3>3. \A n \in k + 1 .. h.total : n \in k2 + 1 .. h.total \/ h.says[n] \subseteq S2
      <4>1. SUFFICES ASSUME NEW n \in k + 1 .. h.total, ~(n \in k2 + 1 .. h.total)
                     PROVE  n \in k + 1 .. k2
        BY <3>2
      <4>2. QED BY <1>3, <1>12, <2>1, <4>1
    <3>4. Claim(h, S2, k2)
      BY <1>11, <1>12, <2>1, <3>2, <3>3, ClaimMore
    <3>5. QED BY <3>1, <3>4
  <2>4. cursor' <= k2
    BY <1>3, <1>4, <1>7, <1>11, <1>12, <1>14, <2>1
  <2>5. QED BY <1>1, <1>2, <1>10, <1>11, <1>12, <1>14, <2>2, <2>3, <2>4, TakenHead
<1>15. PICK k2 : k2 = IF f.seq >= k THEN f.seq ELSE k
  OBVIOUS
<1>16. k2 \in Nat /\ k <= k2 /\ f.seq <= k2
  BY <1>4, <1>12, <1>15
<1>17. CASE Live(f)
  <2>1. f.seq \in 1 .. h.sent /\ h.says[f.seq] = Carries(f) /\ ~f.delta
    BY <1>2, <1>3, <1>4, <1>17, EventNumbers DEF Live, Replayed, Restored, Repeated, Honest
  <2>2. k2 \in 0 .. seq
    BY <1>3, <1>12, <1>15, <2>1
  <2>3. f.seq <= k + 1
    <3>1. cursor # None
      BY <1>8, <1>17 DEF Live, Repeated, FrameOK
    <3>2. f.seq <= cursor + 1
      BY <1>3, <1>4, <1>9, <2>1, <3>1 DEF Gap, None
    <3>3. QED BY <1>3, <1>4, <1>11, <1>12, <3>2
  <2>4. \A n \in k + 1 .. k2 : h.says[n] \subseteq Carries(f)
    <3>1. \A n \in k + 1 .. k2 : n = f.seq
      BY <1>4, <1>12, <1>15, <2>3
    <3>2. QED BY <2>1, <3>1
  <2>5. QED BY <1>14, <1>16, <1>17, <2>2, <2>4
<1>18. CASE Replayed(f)
  <2>1. f.seq \in 1 .. h.top /\ h.says[f.seq] = Carries(f) /\ f.gen # None /\ f.delta
    BY <1>2, <1>3, <1>4, <1>18, EventNumbers DEF Live, Replayed, Restored, Repeated
  <2>2. k2 \in 0 .. seq /\ f.gen = gen
    BY <1>3, <1>12, <1>15, <2>1 DEF Taken, Matches
  <2>3. ~Resuming(h, k)
    <3>1. ~(Live(f) \/ Repeated(f) \/ f.kind = "connected")
      BY <1>2, <2>1 DEF Live, Repeated
    <3>2. QED BY <1>2, <3>1 DEF Resuming
  <2>4. NoSkip(h, down, gen, k, 0)
    BY <1>11, <2>3 DEF Full
  <2>5. \A n \in k + 1 .. f.seq - 1 : h.says[n] = {}
    <3>1. 1 \in 0 + 1 .. Len(down)
      BY <1>2
    <3>2. \A n \in k + 1 .. f.seq - 1 : h.says[n] # {} =>
            \E x \in 0 + 1 .. 1 - 1 : Brings(down[x], gen, n)
      BY <1>18, <2>2, <2>4, <3>1 DEF NoSkip
    <3>3. QED BY <3>2
  <2>6. \A n \in k + 1 .. k2 : h.says[n] \subseteq Carries(f)
    <3>1. \A n \in k + 1 .. k2 : n = f.seq \/ n \in k + 1 .. f.seq - 1
      BY <1>4, <1>12, <1>15
    <3>2. QED BY <2>1, <2>5, <3>1
  <2>7. QED BY <1>14, <1>16, <1>18, <2>2, <2>6
<1>19. QED BY <1>2, <1>3, <1>4, <1>13, <1>17, <1>18, EventNumbers DEF Restored

\* The tab sees an event: every way it can be taken or dropped keeps the invariant.
LEMMA SeeEventHole ==
  ASSUME HoleInv, SeeEvent
  PROVE  HoleInv'
<1>1. ViewerInv /\ SocketOK /\ GreetingsOK(down, cursor) /\ ActOK
  BY DEF HoleInv
<1>2. PICK h \in Histories : HistoryOK(h)
  BY DEF HoleInv
<1>3. ViewerInv'
  BY <1>1, ViewerNext DEF Next
<1>4. PICK f : f = down[1]
  OBVIOUS
<1>5. /\ Quiet /\ down # <<>> /\ down' = Tail(down) /\ f.kind # "connected"
      /\ f \in EventFrame(leaf, seq) /\ 1 \in 1 .. Len(down) /\ Len(down) \in Nat \ {0}
      /\ joined' = joined /\ act' = act /\ flags' = flags /\ conn' = conn /\ gen' = gen
      /\ asked' = asked /\ seq' = seq /\ leaf' = leaf /\ awaiting' = ~hydrated'
  BY <1>1, <1>4, SeeEventDoes
<1>6. Taken(f) \/ Dropped(f)
  BY <1>1, <1>4, SeeEventDoes
<1>7. IsHistory(h) /\ seq \in Nat /\ cursor \in Int /\ None <= cursor /\ FramesOK(h, down)
      /\ h.sent \in Int
  <2>1. None <= cursor
    BY <1>1 DEF ViewerInv, ViewerTypeOK, OrNone, Seqs, None
  <2>2. QED BY <1>1, <1>2, <2>1, HistoriesNumbers, HistoryNumbers DEF HistoryOK
<1>8. FrameOK(h, f)
  BY <1>4, <1>5, <1>7 DEF FramesOK
<1>9. f.seq \in Int /\ (f.kind = "snap" => f.at \in Nat) /\ (f.kind # "snap" => f.seq \in Nat)
  <2>1. f.seq \in Int
    BY <1>5, <1>7 DEF EventFrame, OrNone, None
  <2>2. QED BY <1>5, <1>7, <1>8, <2>1, EventNumbers
<1>10. PICK c : c = cursor'
  OBVIOUS
<1>11. /\ c = cursor \/ (cursor <= f.seq /\ c = f.seq)
       /\ c \in Int /\ cursor <= c
  <2>1. c = cursor \/ (~(cursor >= f.seq) /\ c = f.seq)
    BY <1>6, <1>10 DEF Taken, Dropped
  <2>2. QED BY <1>7, <1>9, <2>1
<1>12. hydrated => hydrated'
  BY <1>6 DEF Taken, Dropped
<1>13. Reached <= Reached' /\ Reached' \in Int
  <2>1. Reached' = IF hydrated' THEN c ELSE None
    BY <1>10 DEF Reached
  <2>2. Reached = IF hydrated THEN cursor ELSE None
    BY DEF Reached
  <2>3. CASE hydrated'
    BY <1>7, <1>11, <2>1, <2>2, <2>3 DEF None
  <2>4. CASE ~hydrated'
    BY <1>12, <2>1, <2>2, <2>4 DEF None
  <2>5. QED BY <2>3, <2>4
<1>14. ASSUME Live(f), f.kind = "snap" PROVE f.at <= Reached'
  <2>1. f.gen = None /\ f.at = f.seq /\ ~f.delta /\ f.seq \in Nat
    BY <1>5, <1>7, <1>8, <1>14, EventNumbers DEF Live, Replayed, Restored, Repeated
  <2>2. CASE Taken(f)
    <3>1. hydrated'
      BY <1>14, <2>2 DEF Taken
    <3>2. cursor' = IF f.seq = None \/ cursor >= f.seq THEN cursor ELSE f.seq
      BY <2>2 DEF Taken
    <3>3. f.seq <= c
      BY <1>7, <1>10, <2>1, <3>2 DEF None
    <3>4. QED BY <1>10, <2>1, <3>1, <3>3 DEF Reached
  <2>3. CASE Dropped(f)
    <3>1. Matches(f)
      BY <1>14, <2>1 DEF Matches
    <3>2. f.seq < cursor /\ ~awaiting
      BY <1>14, <2>1, <2>3, <3>1 DEF Dropped, Stale
    <3>3. hydrated
      <4>1. awaiting = ~hydrated
        BY <1>1 DEF SocketOK
      <4>2. QED BY <3>2, <4>1
    <3>4. hydrated' /\ f.at <= c
      BY <1>7, <1>11, <1>12, <2>1, <3>2, <3>3
    <3>5. QED BY <1>10, <3>4 DEF Reached
  <2>4. QED BY <1>6, <2>2, <2>3
<1>15. /\ FramesOK(h, down)' /\ StoredOK(h, down, gen, Reached)' /\ GreetingsOK(down, cursor)'
       /\ ActOK' /\ cursor <= cursor' /\ joined /\ conn
       /\ \A i \in 1 .. Len(down') : down'[i].gen <= gen
  BY <1>2, <1>3, <1>4, <1>5, <1>10, <1>11, <1>13, <1>14, FirstTaken
<1>16. h \in Histories' /\ PubOK(h)' /\ CacheOK(h)'
  BY <1>2, <1>5, QuietHistory DEF HistoryOK
<1>17. SocketOK'
  <2>1. hydrated' /\ cursor' = None => passed' = 0
    <3>1. SUFFICES ASSUME hydrated', c = None PROVE passed' = 0
      BY <1>10
    <3>2. cursor = None
      BY <1>7, <1>11, <3>1 DEF None
    <3>3. CASE Dropped(f)
      BY <1>1, <3>1, <3>2, <3>3 DEF Dropped, SocketOK
    <3>4. CASE Taken(f) /\ f.kind = "snap"
      <4>1. f.at >= cursor
        BY <1>9, <3>2, <3>4 DEF None
      <4>2. QED BY <3>4, <4>1 DEF Taken
    <3>5. CASE Taken(f) /\ f.kind # "snap"
      <4>1. c = f.seq
        BY <1>9, <1>10, <3>2, <3>5 DEF Taken, None
      <4>2. QED BY <1>9, <3>1, <3>5, <4>1 DEF None
    <3>6. QED BY <1>6, <3>3, <3>4, <3>5
  <2>2. \/ up' = up
        \/ \E e \in UpFrame : up' = Append(up, e) /\ (e.kind = "connected" \/ e.gen = gen)
    BY <1>6 DEF Taken, Dropped
  <2>3. QED BY <1>1, <1>5, <1>10, <1>11, <1>15, <2>1, <2>2, SocketSees
<1>18. ViewerOK(h)'
  BY <1>2, <1>3, <1>4, <1>6, <1>15, DroppedKeeps, SnapshotTaken, EventTaken
<1>19. QED BY <1>3, <1>15, <1>16, <1>17, <1>18 DEF HoleInv, HistoryOK

-----------------------------------------------------------------------------
(* The invariant, and what it says once all is settled.                    *)

\* Nothing that a viewer could miss has been sent.
LEMMA HoleInit == Init => HoleInv
<1>1. SUFFICES ASSUME Init PROVE HoleInv
  OBVIOUS
<1>2. ViewerInv
  BY <1>1, ViewerInit
<1>3. pub.at = "idle" /\ act.at = "idle" /\ act.gen = 0 /\ ~hydrated /\ awaiting /\ ~conn
      /\ down = <<>> /\ up = <<>> /\ gen = 1 /\ Total = seq /\ Cached = seq
      /\ ~joined /\ lastState = emitted
  BY <1>1 DEF Init, NoPub, NoAct, Total, Cached
<1>4. PICK D : D = [n \in 1 .. Total |-> {}]
  OBVIOUS
<1>5. PICK h : h = History(D)
  OBVIOUS
<1>6. h.says = D /\ h.leaf = leaf /\ h.emitted = emitted /\ seq \in Nat
  BY <1>2, <1>5, HistoryNumbers
<1>7. h \in Histories
  BY <1>4, <1>5 DEF Histories
<1>8. \A n \in 1 .. seq : h.says[n] = {}
  BY <1>3, <1>4, <1>6
<1>9. CacheOK(h)
  <2>1. ASSUME NEW i \in 1 .. Len(cache)
        PROVE  cache[i].seq \in 1 .. seq /\ Honest(h, cache[i], cache[i].seq)
    <3>1. CASE leaf = 0 /\ seq = 1 /\ cache = <<[seq |-> 1, kind |-> "snap", item |-> 0]>>
      <4>1. PICK row : row = [seq |-> 1, kind |-> "snap", item |-> 0]
        OBVIOUS
      <4>2. Len(cache) = 1 /\ cache[1] = row
        BY <3>1, <4>1
      <4>3. cache[i] = row /\ row.seq = 1 /\ row.item = 0
        BY <2>1, <4>1, <4>2
      <4>4. Carries(row) = {} /\ 1 .. h.leaf = {}
        BY <1>6, <3>1, <4>1 DEF Carries
      <4>5. h.says[1] = {} /\ 1 \in 1 .. seq
        BY <1>8, <3>1
      <4>6. QED BY <4>3, <4>4, <4>5 DEF Honest, Claim
    <3>2. ASSUME seq = MaxTicks, NEW n, n = Min({MaxTicks, EVENT_BUFFER}),
                 cache = [x \in 1 .. n |->
                            [seq |-> MaxTicks - n + x, kind |-> "tick", item |-> 0]]
          PROVE  cache[i].seq \in 1 .. seq /\ Honest(h, cache[i], cache[i].seq)
      <4>1. MaxTicks \in Nat /\ n \in Nat /\ n <= MaxTicks
        BY <3>2, MinOfTwo, ViewerAssumption
      <4>2. Len(cache) = n
        BY <3>2, <4>1
      <4>3. i \in 1 .. n /\ cache[i].seq = MaxTicks - n + i /\ cache[i].kind = "tick"
        BY <2>1, <3>2, <4>2
      <4>4. cache[i].seq \in 1 .. seq
        BY <3>2, <4>1, <4>3
      <4>5. Carries(cache[i]) = {} /\ h.says[cache[i].seq] = {}
        BY <1>8, <4>3, <4>4 DEF Carries
      <4>6. QED BY <4>3, <4>4, <4>5 DEF Honest
    <3>3. QED BY <1>1, <3>1, <3>2 DEF Init
  <2>2. QED BY <1>3, <1>8, <2>1 DEF CacheOK
<1>10. FramesOK(h, down) /\ StoredOK(h, down, gen, Reached) /\ GreetingsOK(down, cursor)
  BY <1>3, NothingQueued
<1>11. SocketOK
  <2>1. Len(down) = 0 /\ Len(up) = 0 /\ 0 \in 0 .. 1
    BY <1>3, EmptySeq
  <2>2. act.gen \in 0 .. gen /\ (\A i \in 1 .. Len(up) : FALSE) /\ (\A i \in 1 .. Len(down) : FALSE)
    BY <1>3, <2>1
  <2>3. QED BY <1>3, <2>2 DEF SocketOK
<1>12. PubOK(h) /\ ActOK /\ ViewerOK(h)
  BY <1>3 DEF PubOK, ActOK, ViewerOK
<1>13. QED BY <1>2, <1>7, <1>9, <1>10, <1>11, <1>12 DEF HoleInv, HistoryOK

\* Every step keeps it.
LEMMA HoleNext == HoleInv /\ [Next]_vars => HoleInv'
<1>1. SUFFICES ASSUME HoleInv, [Next]_vars PROVE HoleInv'
  OBVIOUS
<1>2. CASE UNCHANGED vars
  <2>1. PICK h \in Histories : HistoryOK(h)
    BY <1>1 DEF HoleInv
  <2>2. /\ Quiet /\ UNCHANGED <<lastState, asked, joined, act, flags, conn, down, up, gen>>
        /\ UNCHANGED <<cursor, awaiting, hydrated, shown, passed>>
    BY <1>2 DEF vars, runner, redis, socket, ui, Quiet
  <2>3. ViewerInv'
    BY <1>1, ViewerNext DEF HoleInv
  <2>4. h \in Histories' /\ PubOK(h)' /\ CacheOK(h)' /\ Upcoming' = Upcoming
        /\ Total' = Total /\ Sent' = Sent
    BY <2>1, <2>2, QuietHistory DEF HistoryOK
  <2>5. Reached' = Reached /\ Greeted' = Greeted
    BY <2>2 DEF Reached, Greeted
  <2>6. SocketOK' /\ GreetingsOK(down, cursor)'
    BY <1>1, <2>2 DEF HoleInv, SocketOK, Quiet
  <2>7. ActOK'
    BY <1>1, <2>2, <2>4, <2>5 DEF HoleInv, ActOK, Quiet
  <2>8. FramesOK(h, down)' /\ StoredOK(h, down, gen, Reached)'
    BY <2>1, <2>2, <2>5 DEF HistoryOK
  <2>9. ASSUME NEW k, Resuming(h, k) PROVE Resuming(h, k)'
    BY <2>2, <2>4, <2>5, <2>9 DEF Resuming
  <2>10. ViewerOK(h)'
    BY <2>1, <2>2, <2>9 DEF HistoryOK, ViewerOK, Quiet
  <2>11. QED BY <2>3, <2>4, <2>6, <2>7, <2>8, <2>10 DEF HoleInv, HistoryOK
<1>3. CASE Next
  BY <1>1, <1>3, RunnerHole, PublishNumberHole, PublishCacheHole, PublishEmitHole, ActivateHole,
     ActivateConnectedHole, ActivateHydrateHole, EchoHole, ResyncHole, ConnectHole, CutHole,
     AskAgainHole, SeeConnectedHole, SeeEventHole DEF Next
<1>4. QED BY <1>1, <1>2, <1>3

\* Once all is settled a viewer is not resuming, and nothing is behind: what it
\* shows and what is in no snapshot yet is the transcript.
LEMMA HoleHolds == HoleInv => NoSilentHole
<1>1. SUFFICES ASSUME HoleInv, Settled, passed = 0 PROVE shown = 1 .. leaf
  BY DEF NoSilentHole
<1>2. PICK h \in Histories : HistoryOK(h)
  BY <1>1 DEF HoleInv
<1>3. ViewerInv /\ conn /\ joined /\ hydrated /\ leaf = emitted /\ down = <<>> /\ up = <<>>
      /\ act.at = "idle" /\ pub.at = "idle" /\ asked = 0
  BY <1>1 DEF HoleInv, Settled, Changed
<1>4. Len(down) = 0
  BY <1>3, EmptySeq
<1>5. /\ h.leaf = leaf /\ h.emitted = leaf /\ h.total = seq /\ h.sent = seq
      /\ seq \in Nat /\ leaf \in Nat
  BY <1>3, HistoriesNumbers, HistoryNumbers DEF Total, Sent
<1>6. PICK k \in 0 .. seq : Claim(h, shown, k) /\ (Full(h, down, gen, k, 0) \/ Resuming(h, k))
  BY <1>1, <1>2, <1>3 DEF HistoryOK, ViewerOK
<1>7. ~Resuming(h, k)
  BY <1>3, <1>4 DEF Resuming, Greeted, Upcoming, Switch
<1>8. \A n \in k + 1 .. h.total : h.says[n] = {}
  BY <1>4, <1>5, <1>6, <1>7 DEF Full, Follows
<1>9. 1 .. leaf \subseteq shown
  BY <1>5, <1>6, <1>8 DEF Claim
<1>10. shown \subseteq 1 .. leaf
  BY <1>3 DEF ViewerInv, ViewerTypeOK
<1>11. QED BY <1>9, <1>10

\* No resume, replay, retry or "already current" answer loses an event on its own:
\* a viewer whose cursor was not moved past what it was given shows the whole
\* transcript once all is settled, whatever the size of the relay's cache.
THEOREM NoHoleIsSilent == Spec => []NoSilentHole
<1>1. Spec => []HoleInv
  BY HoleInit, HoleNext, PTL DEF Spec
<1>2. QED BY <1>1, HoleHolds, PTL
=============================================================================
