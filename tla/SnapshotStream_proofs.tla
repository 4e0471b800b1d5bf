------------------------ MODULE SnapshotStream_proofs ------------------------
(***************************************************************************)
(* Proofs about SnapshotStream, for every sequence of transcripts, every   *)
(* limit of the sender and every bound: type correctness, that nothing     *)
(* but whole transcripts is stored, that "nothing changed" is true, and    *)
(* refinement of SnapshotStore.                                            *)
(*                                                                         *)
(* The first part is about cutting: the chunks of a transcript are         *)
(* non-empty, adjacent slices of it, each one message or within the byte   *)
(* limit, and put together they are the transcript.  These are facts about *)
(* recursive functions, proved by their least counterexample (Extrema).    *)
(* The second part is the inductive invariant: every id of a stream stands *)
(* for one version, of which all that carries the id are slices; versions  *)
(* grow from what is stored over the wire to the sender; and, as long as   *)
(* the connection is up and no event failed, no chunk is missing before    *)
(* another.                                                                *)
(***************************************************************************)
EXTENDS SnapshotStream, Extrema, SequenceTheorems, FiniteSetTheorems, TLAPS

-----------------------------------------------------------------------------
(* How a transcript is cut.                                                *)

\* The versions and their messages.
LEMMA Transcripts ==
  ASSUME NEW v \in Version
  PROVE  /\ Transcript[v] \in Seq(Message) /\ Len(Transcript[v]) \in Nat \ {0}
         /\ DOMAIN Transcript[v] = 1 .. Len(Transcript[v])
BY StreamAssumption, ElementOfSeq, LenProperties, EmptySeq DEF Version

\* A chunk has a message, and ends within the transcript.
LEMMA ChunkEndBounds ==
  ASSUME NEW v \in Version, NEW s \in 0 .. Len(Transcript[v]) - 1
  PROVE  /\ ChunkEnd(v, s) \in s + 1 .. Len(Transcript[v])
         /\ \/ ChunkEnd(v, s) = s + 1
            \/ Bytes(SubSeq(Sizes(v), s + 1, ChunkEnd(v, s))) <= CHUNK_BYTE_LIMIT
<1>. DEFINE n == Len(Transcript[v])
            fits == {e \in s + 1 .. s + CHUNK_SIZE :
                       e <= n /\ Bytes(SubSeq(Sizes(v), s + 1, e)) <= CHUNK_BYTE_LIMIT}
            ends == {s + 1} \cup fits
<1>1. n \in Nat \ {0} /\ CHUNK_SIZE \in Nat
  BY Transcripts, StreamAssumption
<1>2. ends \in SUBSET (0 .. n) /\ ends # {}
  BY <1>1
<1>3. ChunkEnd(v, s) = Max(ends)
  BY DEF ChunkEnd
<1>. HIDE DEF ends
<1>4. ChunkEnd(v, s) \in ends
  BY <1>1, <1>2, <1>3, Greatest
<1>5. QED BY <1>1, <1>4 DEF ends

\* The recursion of computeChunkBoundaries has a solution, from every message on.
LEMMA BoundariesSolution ==
  ASSUME NEW v \in Version
  PROVE  LET n == Len(Transcript[v]) IN
         \E from : from = [s \in 0 .. n |-> IF s = n THEN <<>>
                             ELSE <<ChunkEnd(v, s)>> \o from[ChunkEnd(v, s)]]
<1>. DEFINE n == Len(Transcript[v])
            CE(s) == ChunkEnd(v, s)
            Solves(f, m) == f = [s \in m .. n |-> IF s = n THEN <<>> ELSE <<CE(s)>> \o f[CE(s)]]
            bad == {k \in 0 .. n : ~\E f : Solves(f, n - k)}
<1>1. n \in Nat /\ \A s \in 0 .. n - 1 : CE(s) \in s + 1 .. n
  BY Transcripts, ChunkEndBounds
<1>. HIDE DEF n, CE
<1>2. SUFFICES bad = {}
  <2>1. n \in 0 .. n /\ n - n = 0
    BY <1>1
  <2>2. bad = {} => \E f : Solves(f, 0)
    BY <2>1
  <2>3. QED BY <2>2 DEF n, CE
<1>3. SUFFICES ASSUME bad # {} PROVE FALSE
  OBVIOUS
<1>4. PICK k \in bad : \A y \in bad : k <= y
  <2>1. bad \in SUBSET Nat
    BY <1>1
  <2>. HIDE DEF bad
  <2>2. QED BY <1>3, <2>1, Least
<1>5. k \in 0 .. n /\ ~\E f : Solves(f, n - k)
  OBVIOUS
<1>6. CASE k = 0
  <2>. DEFINE f == [s \in n .. n |-> <<>>]
  <2>1. n .. n = {n} /\ n - k = n
    BY <1>1, <1>6
  <2>2. \A s \in n .. n : s = n
    BY <2>1
  <2>3. f = [s \in n .. n |-> IF s = n THEN <<>> ELSE <<CE(s)>> \o f[CE(s)]]
    BY <2>2
  <2>4. Solves(f, n - k)
    BY <2>1, <2>3
  <2>5. QED BY <1>5, <2>4
<1>7. CASE k # 0
  <2>. DEFINE m == n - k
  <2>1. k - 1 \in 0 .. n /\ m \in 0 .. n - 1 /\ n - (k - 1) = m + 1
    BY <1>1, <1>5, <1>7
  <2>2. k - 1 \notin bad
    <3>1. k \in Int
      BY <1>1, <1>5
    <3>. HIDE DEF bad
    <3>2. QED BY <1>4, <3>1
  <2>3. \E f : Solves(f, n - (k - 1))
    BY <2>1, <2>2
  <2>4. PICK f : Solves(f, m + 1)
    BY <2>1, <2>3
  <2>. HIDE DEF m, bad
  <2>. DEFINE g == [s \in m .. n |-> IF s = m THEN <<CE(m)>> \o f[CE(m)] ELSE f[s]]
  <2>5. m # n /\ CE(m) \in m + 1 .. n /\ m \in m .. n
    BY <1>1, <2>1
  <2>6. ASSUME NEW s \in m + 1 .. n
        PROVE  g[s] = f[s] /\ s \in m .. n /\ s # m
    BY <1>1, <2>1
  <2>7. ASSUME NEW s \in m .. n
        PROVE  g[s] = IF s = n THEN <<>> ELSE <<CE(s)>> \o g[CE(s)]
    <3>1. CASE s = m
      BY <2>5, <2>6, <3>1
    <3>2. CASE s # m
      <4>1. s \in m + 1 .. n
        BY <1>1, <2>1, <3>2
      <4>2. f[s] = IF s = n THEN <<>> ELSE <<CE(s)>> \o f[CE(s)]
        BY <2>4, <4>1
      <4>3. s # n => CE(s) \in m + 1 .. n
        BY <1>1, <2>1, <4>1
      <4>4. QED BY <2>6, <4>1, <4>2, <4>3
    <3>3. QED BY <3>1, <3>2
  <2>8. g = [s \in m .. n |-> g[s]]
    OBVIOUS
  <2>. HIDE DEF g
  <2>9. Solves(g, m)
    BY <2>7, <2>8
  <2>10. QED BY <1>5, <2>9 DEF m
<1>8. QED BY <1>6, <1>7

\* computeChunkBoundaries, unfolded: the boundaries from any message on.
LEMMA BoundariesUnfold ==
  ASSUME NEW v \in Version
  PROVE  LET n == Len(Transcript[v]) IN
         \E from :
           /\ from = [s \in 0 .. n |-> IF s = n THEN <<>>
                                       ELSE <<ChunkEnd(v, s)>> \o from[ChunkEnd(v, s)]]
           /\ Boundaries[v] = from[0]
<1>. DEFINE n == Len(Transcript[v])
            Solves(f) == f = [s \in 0 .. n |-> IF s = n THEN <<>>
                                ELSE <<ChunkEnd(v, s)>> \o f[ChunkEnd(v, s)]]
            from == CHOOSE f : Solves(f)
<1>1. Boundaries[v] = from[0]
  BY Zenon DEF Boundaries
<1>2. \E f : Solves(f)
  BY BoundariesSolution
<1>3. Solves(from)
  BY <1>2
<1>4. QED BY <1>1, <1>3

\* Where the k-th chunk of a version begins.
Start(v, k) == IF k = 1 THEN 0 ELSE Boundaries[v][k - 1]

\* The chunks follow one another and end with the transcript.
LEMMA BoundariesChain ==
  ASSUME NEW v \in Version
  PROVE  LET n == Len(Transcript[v])
             b == Boundaries[v]
         IN  /\ b \in Seq(1 .. n) /\ Len(b) \in Nat \ {0} /\ b[Len(b)] = n
             /\ \A k \in 1 .. Len(b) :
                  Start(v, k) \in 0 .. n - 1 /\ b[k] = ChunkEnd(v, Start(v, k))
<1>. DEFINE n == Len(Transcript[v])
            CE(s) == ChunkEnd(v, s)
<1>1. n \in Nat \ {0} /\ \A s \in 0 .. n - 1 : CE(s) \in s + 1 .. n
  BY Transcripts, ChunkEndBounds
<1>2. PICK from : /\ from = [s \in 0 .. n |-> IF s = n THEN <<>> ELSE <<CE(s)>> \o from[CE(s)]]
                  /\ Boundaries[v] = from[0]
  BY BoundariesUnfold
<1>. HIDE DEF n, CE
<1>3. \A s \in 0 .. n : from[s] = IF s = n THEN <<>> ELSE <<CE(s)>> \o from[CE(s)]
  BY <1>2
<1>. DEFINE Prev(s, k) == IF k = 1 THEN s ELSE from[s][k - 1]
            Chained(s) == /\ from[s] \in Seq(1 .. n) /\ Len(from[s]) \in Nat
                          /\ s = n => Len(from[s]) = 0
                          /\ s # n => Len(from[s]) # 0 /\ from[s][Len(from[s])] = n
                          /\ \A k \in 1 .. Len(from[s]) :
                               Prev(s, k) \in 0 .. n - 1 /\ from[s][k] = CE(Prev(s, k))
            bad == {k \in 0 .. n : ~Chained(n - k)}
<1>4. ASSUME bad # {} PROVE FALSE
  <2>1. bad \in SUBSET Nat
    BY <1>1
  <2>2. PICK k \in bad : \A y \in bad : k <= y
    <3>. HIDE DEF bad
    <3>. QED BY <1>4, <2>1, Least
  <2>3. k \in 0 .. n /\ ~Chained(n - k)
    OBVIOUS
  <2>4. \A y \in 0 .. k - 1 : Chained(n - y)
    <3>1. \A y \in 0 .. k - 1 : y \in 0 .. n /\ y \notin bad
      <4>. HIDE DEF bad
      <4>. QED BY <1>1, <2>2, <2>3
    <3>2. QED BY <3>1
  <2>. HIDE DEF bad
  <2>. DEFINE s == n - k
              c == CE(s)
              t == from[c]
  <2>5. CASE k = 0
    <3>1. s = n /\ s \in 0 .. n /\ n - k = s
      BY <1>1, <2>5
    <3>2. from[s] = <<>> /\ Len(from[s]) = 0
      <4>1. from[s] = IF s = n THEN <<>> ELSE <<CE(s)>> \o from[CE(s)]
        BY <1>3, <3>1
      <4>2. QED BY <3>1, <4>1, EmptySeq
    <3>3. from[s] \in Seq(1 .. n)
      BY <3>2, EmptySeq
    <3>4. Chained(s)
      BY <3>1, <3>2, <3>3
    <3>5. QED BY <2>3, <3>1, <3>4
  <2>6. CASE k # 0
    <3>1. s \in 0 .. n - 1 /\ s # n /\ n - k = s /\ s \in 0 .. n
      BY <1>1, <2>3, <2>6
    <3>2. c \in s + 1 .. n /\ n - c \in 0 .. k - 1 /\ n - (n - c) = c /\ c \in 1 .. n
      BY <1>1, <2>3, <3>1
    <3>3. Chained(c)
      BY <2>4, <3>2
    <3>4. from[s] = <<c>> \o t
      BY <1>3, <3>1
    <3>5. t \in Seq(1 .. n) /\ Len(t) \in Nat
      BY <3>3
    <3>. HIDE DEF c, s
    <3>6. <<c>> \in Seq(1 .. n) /\ Len(<<c>>) = 1 /\ <<c>>[1] = c
      BY <3>2
    <3>7. from[s] \in Seq(1 .. n) /\ Len(from[s]) = Len(t) + 1
      BY <3>4, <3>5, <3>6, ConcatProperties
    <3>8. \A i \in 1 .. Len(t) + 1 : from[s][i] = IF i = 1 THEN c ELSE t[i - 1]
      <4>1. \A i \in 1 .. 1 + Len(t) :
              (<<c>> \o t)[i] = IF i <= 1 THEN <<c>>[i] ELSE t[i - 1]
        BY <3>5, <3>6, ConcatProperties
      <4>2. QED BY <3>4, <3>5, <3>6, <4>1
    <3>9. from[s][Len(from[s])] = n
      <4>1. CASE c = n
        <5>1. Len(t) = 0
          BY <3>3, <4>1
        <5>2. QED BY <3>7, <3>8, <4>1, <5>1
      <4>2. CASE c # n
        <5>1. Len(t) # 0 /\ t[Len(t)] = n
          BY <3>3, <4>2
        <5>2. Len(t) + 1 \in 1 .. Len(t) + 1 /\ Len(t) + 1 # 1 /\ (Len(t) + 1) - 1 = Len(t)
          BY <3>5, <5>1
        <5>3. QED BY <3>7, <3>8, <5>1, <5>2
      <4>3. QED BY <4>1, <4>2
    <3>10. ASSUME NEW i \in 1 .. Len(from[s])
           PROVE  Prev(s, i) \in 0 .. n - 1 /\ from[s][i] = CE(Prev(s, i))
      <4>1. CASE i = 1
        <5>1. Prev(s, i) = s /\ from[s][i] = c
          BY <3>7, <3>8, <4>1
        <5>2. QED BY <3>1, <5>1 DEF c
      <4>2. CASE i # 1
        <5>1. i - 1 \in 1 .. Len(t) /\ i \in 1 .. Len(t) + 1 /\ i - 1 \in 1 .. Len(t) + 1
          BY <3>5, <3>7, <4>2
        <5>2. from[s][i] = t[i - 1] /\ t[i - 1] = CE(Prev(c, i - 1)) /\ Prev(c, i - 1) \in 0 .. n - 1
          BY <3>3, <3>8, <4>2, <5>1
        <5>3. Prev(s, i) = from[s][i - 1]
          BY <4>2
        <5>4. from[s][i - 1] = IF i - 1 = 1 THEN c ELSE t[(i - 1) - 1]
          BY <3>8, <5>1
        <5>5. Prev(s, i) = Prev(c, i - 1)
          BY <5>3, <5>4
        <5>6. QED BY <5>2, <5>5
      <4>3. QED BY <4>1, <4>2
    <3>11. Chained(s)
      BY <3>1, <3>5, <3>7, <3>9, <3>10
    <3>12. QED BY <2>3, <3>1, <3>11
  <2>7. QED BY <2>5, <2>6
<1>5. Chained(0)
  <2>1. n \in 0 .. n /\ n - n = 0
    BY <1>1
  <2>2. n \notin bad
    BY <1>4
  <2>3. QED BY <2>1, <2>2
<1>6. \A k : Prev(0, k) = Start(v, k)
  BY <1>2 DEF Start
<1>. HIDE DEF Prev
<1>7. /\ Boundaries[v] \in Seq(1 .. n) /\ Len(Boundaries[v]) \in Nat \ {0}
      /\ Boundaries[v][Len(Boundaries[v])] = n
      /\ \A k \in 1 .. Len(Boundaries[v]) :
           Start(v, k) \in 0 .. n - 1 /\ Boundaries[v][k] = CE(Start(v, k))
  BY <1>1, <1>2, <1>5, <1>6
<1>8. QED BY <1>7, Zenon DEF n, CE

\* p[i] is the first i sequences of seqs put together.
Accumulates(p, seqs) ==
  p[1] = seqs[1] /\ \A i \in 2 .. Len(seqs) : p[i] = p[i - 1] \o seqs[i]

\* FlattenSeq is the last of the prefixes.
LEMMA FlattenIsLast ==
  ASSUME NEW seqs, NEW n \in Nat, Len(seqs) = n, n # 0,
         NEW S, NEW p \in Seq(S), Len(p) = n, Accumulates(p, seqs)
  PROVE  FlattenSeq(seqs) = p[n]
<1>. DEFINE Solves(f) ==
              f = [i \in 1 .. Len(seqs) |-> IF i = 1 THEN seqs[i] ELSE f[i - 1] \o seqs[i]]
            flatten == CHOOSE f : Solves(f)
<1>A. ASSUME NEW i \in 1 .. n
      PROVE  p[i] = IF i = 1 THEN seqs[i] ELSE p[i - 1] \o seqs[i]
  <2>1. i # 1 => i \in 2 .. Len(seqs)
    OBVIOUS
  <2>2. QED BY <2>1 DEF Accumulates
<1>1. FlattenSeq(seqs) = flatten[Len(seqs)]
  <2>1. Len(seqs) # 0
    OBVIOUS
  <2>2. FlattenSeq(seqs) = IF Len(seqs) = 0 THEN seqs ELSE flatten[Len(seqs)]
    BY Zenon DEF FlattenSeq
  <2>3. QED BY <2>1, <2>2, Zenon
<1>2. Solves(flatten)
  <2>1. \A i \in 1 .. Len(seqs) :
          p[i] = IF i = 1 THEN seqs[i] ELSE p[i - 1] \o seqs[i]
    BY <1>A
  <2>2. p = [i \in 1 .. Len(seqs) |-> p[i]]
    BY LenProperties
  <2>3. Solves(p)
    BY <2>1, <2>2, Zenon
  <2>. HIDE DEF Solves
  <2>4. QED BY <2>3
<1>. HIDE DEF flatten
<1>3. \A i \in 1 .. n : flatten[i] = IF i = 1 THEN seqs[i] ELSE flatten[i - 1] \o seqs[i]
  BY <1>2
<1>4. \A i \in 1 .. n : p[i] = IF i = 1 THEN seqs[i] ELSE p[i - 1] \o seqs[i]
  BY <1>A
<1>. DEFINE bad == {i \in 1 .. n : flatten[i] # p[i]}
<1>5. ASSUME bad # {} PROVE FALSE
  <2>1. bad \in SUBSET Nat
    OBVIOUS
  <2>2. PICK i \in bad : \A y \in bad : i <= y
    <3>. HIDE DEF bad
    <3>. QED BY <1>5, <2>1, Least
  <2>3. i \in 1 .. n /\ flatten[i] # p[i]
    OBVIOUS
  <2>4. CASE i = 1
    BY <1>3, <1>4, <2>3, <2>4
  <2>5. CASE i # 1
    <3>1. i - 1 \in 1 .. n /\ i - 1 \notin bad
      <4>1. i - 1 \in 1 .. n /\ i \in Int
        BY <2>3, <2>5
      <4>. HIDE DEF bad
      <4>2. QED BY <2>2, <4>1
    <3>2. flatten[i - 1] = p[i - 1]
      BY <3>1
    <3>3. flatten[i] = flatten[i - 1] \o seqs[i] /\ p[i] = p[i - 1] \o seqs[i]
      BY <1>3, <1>4, <2>3, <2>5
    <3>4. QED BY <2>3, <3>2, <3>3
  <2>6. QED BY <2>4, <2>5
<1>6. flatten[n] = p[n]
  <2>1. n \in 1 .. n
    OBVIOUS
  <2>2. bad = {}
    BY <1>5
  <2>3. n \notin bad
    BY <2>2, Zenon
  <2>4. QED BY <2>1, <2>3
<1>7. QED BY <1>1, <1>6

\* The transcript of a version.
LEMMA Contents ==
  ASSUME NEW v \in Version
  PROVE  /\ Content[v] \in Seq({v} \X (1 .. Len(Transcript[v])))
         /\ Len(Content[v]) = Len(Transcript[v])
         /\ \A i \in 1 .. Len(Transcript[v]) : Content[v][i] = <<v, i>>
<1>. DEFINE n == Len(Transcript[v])
<1>1. n \in Nat \ {0} /\ DOMAIN Transcript[v] = 1 .. n
  BY Transcripts
<1>2. Content[v] = [i \in 1 .. n |-> <<v, i>>]
  BY <1>1 DEF Content
<1>. HIDE DEF n
<1>3. Content[v] \in [1 .. n -> {v} \X (1 .. n)]
  BY <1>2
<1>4. Content[v] \in Seq({v} \X (1 .. n))
  BY <1>1, <1>3, SeqDef
<1>5. Len(Content[v]) = n
  <2>1. DOMAIN Content[v] = 1 .. n
    BY <1>2
  <2>2. QED BY <1>1, <1>4, <2>1, LenProperties
<1>6. QED BY <1>1, <1>2, <1>4, <1>5 DEF n

\* A slice is the part of the transcript between two boundaries.
LEMMA Slices ==
  ASSUME NEW v \in Version, NEW k \in 1 .. Len(Boundaries[v])
  PROVE  /\ Slice[v][k] = SubSeq(Content[v], Start(v, k) + 1, Boundaries[v][k])
         /\ Start(v, k) \in 0 .. Len(Transcript[v]) - 1
         /\ Boundaries[v][k] \in Start(v, k) + 1 .. Len(Transcript[v])
<1>1. DOMAIN Boundaries[v] = 1 .. Len(Boundaries[v])
  BY BoundariesChain, LenProperties
<1>2. Slice[v][k] = SubSeq(Content[v], Start(v, k) + 1, Boundaries[v][k])
  BY <1>1 DEF Slice, Start
<1>3. Start(v, k) \in 0 .. Len(Transcript[v]) - 1
      /\ Boundaries[v][k] = ChunkEnd(v, Start(v, k))
  BY BoundariesChain
<1>4. Boundaries[v][k] \in Start(v, k) + 1 .. Len(Transcript[v])
  BY <1>3, ChunkEndBounds
<1>5. QED BY <1>2, <1>3, <1>4

\* All slices one after the other are the transcript: none is lost, repeated or
\* out of place, whatever the sizes and the limits.
LEMMA SlicesAreWhole ==
  ASSUME NEW v \in Version, NEW seqs, Len(seqs) = Len(Boundaries[v]),
         \A k \in 1 .. Len(Boundaries[v]) : seqs[k] = Slice[v][k]
  PROVE  FlattenSeq(seqs) = Content[v]
<1>. DEFINE n == Len(Transcript[v])
            b == Boundaries[v]
            C == Content[v]
            S == {v} \X (1 .. n)
<1>1. n \in Nat \ {0} /\ b[Len(b)] = n /\ C \in Seq(S) /\ Len(C) = n
  BY Transcripts, BoundariesChain, Contents
<1>2. PICK m \in Nat : m = Len(b) /\ m # 0
  BY BoundariesChain
<1>3. ASSUME NEW k \in 1 .. m
      PROVE  /\ Start(v, k) \in 0 .. n - 1 /\ b[k] \in Start(v, k) + 1 .. n
             /\ seqs[k] = SubSeq(C, Start(v, k) + 1, b[k])
  BY <1>2, Slices
<1>. HIDE DEF n, C, S, b
<1>4. ASSUME NEW k \in 1 .. m
      PROVE  SubSeq(C, 1, b[k]) \in Seq(S)
  <2>1. b[k] \in 1 .. n
    BY <1>1, <1>3
  <2>2. \A i \in 1 .. b[k] : C[i] \in S
    BY <1>1, <2>1, ElementOfSeq
  <2>3. QED BY <2>1, <2>2, SubSeqProperties
<1>5. PICK p \in Seq(Seq(S)) : Len(p) = m /\ \A k \in 1 .. m : p[k] = SubSeq(C, 1, b[k])
  <2>1. [k \in 1 .. m |-> SubSeq(C, 1, b[k])] \in Seq(Seq(S))
    BY <1>4, SeqDef
  <2>2. Len([k \in 1 .. m |-> SubSeq(C, 1, b[k])]) = m
    BY <2>1, LenProperties
  <2>3. QED BY <2>1, <2>2
<1>6. p[1] = seqs[1]
  <2>1. 1 \in 1 .. m /\ Start(v, 1) + 1 = 1
    BY <1>2 DEF Start
  <2>2. seqs[1] = SubSeq(C, Start(v, 1) + 1, b[1])
    BY <1>3, <2>1
  <2>3. QED BY <1>5, <2>1, <2>2
<1>7. ASSUME NEW k \in 2 .. m
      PROVE  p[k] = p[k - 1] \o seqs[k]
  <2>1. k \in 1 .. m /\ k - 1 \in 1 .. m /\ Start(v, k) = b[k - 1]
    BY DEF Start, b
  <2>2. b[k - 1] \in 0 .. n - 1 /\ b[k] \in b[k - 1] + 1 .. n
        /\ seqs[k] = SubSeq(C, b[k - 1] + 1, b[k])
    BY <1>3, <2>1
  <2>3. b[k - 1] \in 1 - 1 .. Len(C) /\ b[k] \in b[k - 1] .. Len(C) /\ 1 \in 1 .. Len(C) + 1
    BY SMTT(30), <1>1, <2>2
  <2>4. SubSeq(C, 1, b[k - 1]) \o SubSeq(C, b[k - 1] + 1, b[k]) = SubSeq(C, 1, b[k])
    BY <1>1, <2>3, ConcatAdjacentSubSeq
  <2>5. p[k] = SubSeq(C, 1, b[k]) /\ p[k - 1] = SubSeq(C, 1, b[k - 1])
    BY <1>5, <2>1
  <2>6. QED BY <2>2, <2>4, <2>5
<1>8. p[m] = C
  <2>1. m \in 1 .. m /\ b[m] = Len(C)
    BY <1>1, <1>2
  <2>2. p[m] = SubSeq(C, 1, Len(C))
    BY <1>5, <2>1
  <2>3. QED BY <1>1, <2>2, SubSeqFull
<1>9. Len(seqs) = m
  BY <1>2 DEF b
<1>10. Accumulates(p, seqs)
  BY <1>6, <1>7, <1>9 DEF Accumulates
<1>11. FlattenSeq(seqs) = p[m]
  BY <1>2, <1>5, <1>9, <1>10, FlattenIsLast
<1>12. QED BY <1>8, <1>11 DEF C

-----------------------------------------------------------------------------
(* How large a chunk is.  Bytes adds the sizes in an order that Pick gives *)
(* to their positions.                                                     *)

Pick(T) == CHOOSE x \in T : TRUE

\* f adds up the sizes at every set of positions.
AddsUp(f, s) ==
  f = [T \in SUBSET DOMAIN s |-> IF T = {} THEN 0 ELSE s[Pick(T)] + f[T \ {Pick(T)}]]

\* The fold by which Bytes is defined has a value for every set of positions.
LEMMA SumSolution ==
  ASSUME NEW s, IsFiniteSet(DOMAIN s)
  PROVE  \E f : AddsUp(f, s)
<1>. DEFINE D == DOMAIN s
            Upto(k) == {T \in SUBSET D : Cardinality(T) <= k}
            Solves(f, k) ==
              f = [T \in Upto(k) |-> IF T = {} THEN 0 ELSE s[Pick(T)] + f[T \ {Pick(T)}]]
            bad == {k \in Nat : ~\E f : Solves(f, k)}
<1>1. \A T \in SUBSET D : IsFiniteSet(T) /\ Cardinality(T) \in Nat
                          /\ Cardinality(T) <= Cardinality(D)
  BY FS_Subset, FS_CardinalityType
<1>2. \A T \in SUBSET D : T # {} =>
        /\ Pick(T) \in T /\ T \ {Pick(T)} \in SUBSET D
        /\ Cardinality(T \ {Pick(T)}) = Cardinality(T) - 1
  BY <1>1, FS_RemoveElement DEF Pick
<1>3. \A T \in SUBSET D : Cardinality(T) = 0 <=> T = {}
  BY <1>1, FS_EmptySet
<1>4. SUFFICES bad = {}
  <2>1. Cardinality(D) \in Nat /\ Upto(Cardinality(D)) = SUBSET D
    BY <1>1
  <2>2. bad = {} => \E f : Solves(f, Cardinality(D))
    BY <2>1
  <2>3. QED BY <2>1, <2>2 DEF AddsUp
<1>5. SUFFICES ASSUME bad # {} PROVE FALSE
  OBVIOUS
<1>6. PICK k \in bad : \A y \in bad : k <= y
  <2>1. bad \in SUBSET Nat
    OBVIOUS
  <2>. HIDE DEF bad
  <2>2. QED BY <1>5, <2>1, Least
<1>7. k \in Nat /\ ~\E f : Solves(f, k)
  OBVIOUS
<1>8. CASE k = 0
  <2>. DEFINE f == [T \in Upto(0) |-> 0]
  <2>1. \A T \in Upto(0) : T = {}
    BY <1>1, <1>3
  <2>2. Solves(f, 0)
    BY <2>1
  <2>3. QED BY <1>7, <1>8, <2>2
<1>9. CASE k # 0
  <2>1. k - 1 \in Nat /\ k - 1 \notin bad
    <3>1. k - 1 \in Nat
      BY <1>7, <1>9
    <3>. HIDE DEF bad
    <3>2. QED BY <1>6, <1>7, <3>1
  <2>2. PICK f : Solves(f, k - 1)
    BY <2>1
  <2>3. \A T \in Upto(k - 1) :
          f[T] = IF T = {} THEN 0 ELSE s[Pick(T)] + f[T \ {Pick(T)}]
    BY <2>2
  <2>. HIDE DEF bad
  <2>. DEFINE g == [T \in Upto(k) |-> IF T \in Upto(k - 1) THEN f[T]
                                      ELSE s[Pick(T)] + f[T \ {Pick(T)}]]
  <2>4. ASSUME NEW T \in Upto(k - 1)
        PROVE  T \in Upto(k) /\ g[T] = f[T]
    BY <1>1, <1>7
  <2>5. ASSUME NEW T \in Upto(k), T # {}
        PROVE  T \ {Pick(T)} \in Upto(k - 1)
    BY <1>1, <1>2, <1>7, <2>5
  <2>6. {} \in Upto(k - 1)
    BY <1>3, <2>1
  <2>7. ASSUME NEW T \in Upto(k)
        PROVE  g[T] = IF T = {} THEN 0 ELSE s[Pick(T)] + g[T \ {Pick(T)}]
    <3>1. CASE T = {}
      BY <2>3, <2>4, <2>6, <3>1
    <3>2. CASE T # {}
      <4>1. g[T \ {Pick(T)}] = f[T \ {Pick(T)}]
        BY <2>4, <2>5, <3>2
      <4>2. g[T] = s[Pick(T)] + f[T \ {Pick(T)}]
        BY <2>3, <3>2
      <4>3. QED BY <3>2, <4>1, <4>2
    <3>3. QED BY <3>1, <3>2
  <2>8. g = [T \in Upto(k) |-> g[T]]
    OBVIOUS
  <2>. HIDE DEF g
  <2>9. Solves(g, k)
    BY <2>7, <2>8
  <2>10. QED BY <1>7, <2>9
<1>10. QED BY <1>8, <1>9

\* Bytes, unfolded: what is picked is added to the sum of the others.
LEMMA BytesUnfold ==
  ASSUME NEW s, IsFiniteSet(DOMAIN s)
  PROVE  \E f : /\ \A T \in SUBSET DOMAIN s :
                     f[T] = IF T = {} THEN 0 ELSE s[Pick(T)] + f[T \ {Pick(T)}]
                /\ Bytes(s) = f[DOMAIN s]
<1>. DEFINE iter == CHOOSE f : AddsUp(f, s)
<1>1. Bytes(s) = iter[DOMAIN s]
  BY Zenon DEF Bytes, FoldSeq, FoldFunction, FoldFunctionOnSet, MapThenFoldSet, Pick, AddsUp
<1>2. \E f : AddsUp(f, s)
  BY SumSolution
<1>3. AddsUp(iter, s)
  BY <1>2
<1>. HIDE DEF iter
<1>4. \A T \in SUBSET DOMAIN s :
        iter[T] = IF T = {} THEN 0 ELSE s[Pick(T)] + iter[T \ {Pick(T)}]
  BY <1>3 DEF AddsUp
<1>5. QED BY <1>1, <1>4

\* Messages have sizes; together they are at least one byte.
LEMMA BytesPositive ==
  ASSUME NEW s \in Seq(Nat \ {0}), s # <<>>
  PROVE  Bytes(s) \in Nat /\ Bytes(s) >= 1
<1>. DEFINE D == DOMAIN s
<1>1. Len(s) \in Nat /\ D = 1 .. Len(s) /\ D # {} /\ \A i \in D : s[i] \in Nat /\ s[i] >= 1
  BY LenProperties, EmptySeq, ElementOfSeq
<1>2. IsFiniteSet(D)
  BY <1>1, FS_Interval
<1>3. PICK f : /\ \A T \in SUBSET D :
                    f[T] = IF T = {} THEN 0 ELSE s[Pick(T)] + f[T \ {Pick(T)}]
               /\ Bytes(s) = f[D]
  BY <1>2, BytesUnfold
<1>4. \A T \in SUBSET D : IsFiniteSet(T) /\ Cardinality(T) \in Nat
  BY <1>2, FS_Subset, FS_CardinalityType
<1>. HIDE DEF D
<1>. DEFINE Summed(T) == f[T] \in Nat /\ (T # {} => f[T] >= 1)
            bad == {Cardinality(T) : T \in {U \in SUBSET D : ~Summed(U)}}
<1>5. ASSUME bad # {} PROVE FALSE
  <2>1. bad \in SUBSET Nat
    BY <1>4
  <2>2. PICK k \in bad : \A y \in bad : k <= y
    <3>. HIDE DEF bad
    <3>. QED BY <1>5, <2>1, Least
  <2>3. PICK T \in SUBSET D : ~Summed(T) /\ Cardinality(T) = k
    OBVIOUS
  <2>4. \A U \in SUBSET D : Cardinality(U) < Cardinality(T) => Summed(U)
    <3>1. SUFFICES ASSUME NEW U \in SUBSET D, Cardinality(U) < Cardinality(T), ~Summed(U)
                   PROVE  FALSE
      OBVIOUS
    <3>2. Cardinality(U) \in bad
      BY <3>1
    <3>. HIDE DEF bad
    <3>3. k <= Cardinality(U)
      BY <2>2, <3>2
    <3>4. QED BY <1>4, <2>3, <3>1, <3>3
  <2>. HIDE DEF bad
  <2>5. CASE T = {}
    <3>1. f[T] = 0
      BY <1>3, <2>5
    <3>2. QED BY <2>3, <2>5, <3>1
  <2>6. CASE T # {}
    <3>1. Pick(T) \in T
      BY <2>6 DEF Pick
    <3>2. Cardinality(T \ {Pick(T)}) = Cardinality(T) - 1
      BY <1>4, <3>1, FS_RemoveElement
    <3>3. T \ {Pick(T)} \in SUBSET D /\ Cardinality(T) \in Nat
      BY <1>4
    <3>4. f[T \ {Pick(T)}] \in Nat
      BY <2>4, <3>2, <3>3
    <3>5. f[T] = s[Pick(T)] + f[T \ {Pick(T)}]
      BY <1>3, <2>6
    <3>6. s[Pick(T)] \in Nat /\ s[Pick(T)] >= 1
      BY <1>1, <3>1
    <3>7. QED BY <2>3, <3>4, <3>5, <3>6
  <2>7. QED BY <2>5, <2>6
<1>6. Summed(D)
  <2>1. \A T \in SUBSET D : ~Summed(T) => Cardinality(T) \in bad
    OBVIOUS
  <2>. HIDE DEF bad, Summed
  <2>2. QED BY <1>5, <2>1
<1>7. QED BY <1>1, <1>3, <1>6

\* A single message has its own size.
LEMMA BytesOfOne ==
  ASSUME NEW x \in Nat
  PROVE  Bytes(<<x>>) = x
<1>1. DOMAIN <<x>> = {1} /\ <<x>>[1] = x
  OBVIOUS
<1>2. IsFiniteSet({1})
  BY FS_Singleton
<1>3. PICK f : /\ \A T \in SUBSET {1} :
                    f[T] = IF T = {} THEN 0 ELSE <<x>>[Pick(T)] + f[T \ {Pick(T)}]
               /\ Bytes(<<x>>) = f[{1}]
  BY <1>1, <1>2, BytesUnfold
<1>4. Pick({1}) = 1 /\ {1} \ {1} = {}
  BY DEF Pick
<1>5. f[{}] = 0
  BY <1>3
<1>6. f[{1}] = <<x>>[1] + f[{}]
  BY <1>3, <1>4
<1>7. QED BY <1>1, <1>3, <1>5, <1>6
\* The bytes of a chunk are those of the messages between its boundaries.
LEMMA SliceSizes ==
  ASSUME NEW v \in Version, NEW k \in 1 .. Len(Boundaries[v])
  PROVE  /\ Sizes(v) \in Seq(Nat \ {0}) /\ Len(Sizes(v)) = Len(Transcript[v])
         /\ \A i \in 1 .. Len(Transcript[v]) :
              Sizes(v)[i] <= MAX_MESSAGE_SIZE \/ Transcript[v][i].size > MAX_MESSAGE_SIZE
         /\ Len(Slice[v][k]) = Boundaries[v][k] - Start(v, k)
         /\ Slice[v][k][1][2] = Start(v, k) + 1
         /\ SliceBytes(v, k) = Bytes(SubSeq(Sizes(v), Start(v, k) + 1, Boundaries[v][k]))
<1>. DEFINE n == Len(Transcript[v])
            a == Start(v, k) + 1
            e == Boundaries[v][k]
            s == Slice[v][k]
            z == Sizes(v)
<1>1. /\ n \in Nat /\ DOMAIN Transcript[v] = 1 .. n
      /\ \A i \in 1 .. n : Transcript[v][i].size \in Nat \ {0} /\ Transcript[v][i].left \in Nat \ {0}
  <2>1. Transcript[v] \in Seq(Message) /\ n \in Nat /\ DOMAIN Transcript[v] = 1 .. n
    BY Transcripts
  <2>2. \A i \in 1 .. n : Transcript[v][i] \in Message
    BY <2>1, ElementOfSeq
  <2>. HIDE DEF n
  <2>3. QED BY <2>1, <2>2 DEF Message
<1>2. /\ z = [i \in 1 .. n |-> z[i]]
      /\ \A i \in 1 .. n :
           /\ z[i] \in Nat \ {0}
           /\ z[i] <= MAX_MESSAGE_SIZE \/ Transcript[v][i].size > MAX_MESSAGE_SIZE
  <2>1. z = [i \in 1 .. n |-> IF Transcript[v][i].size > MAX_MESSAGE_SIZE
                              THEN Transcript[v][i].left ELSE Transcript[v][i].size]
    BY <1>1 DEF Sizes
  <2>2. MAX_MESSAGE_SIZE \in Nat
    BY StreamAssumption
  <2>. HIDE DEF n, z
  <2>3. QED BY <1>1, <2>1, <2>2
<1>3. s = SubSeq(Content[v], a, e) /\ a \in 1 .. n /\ e \in a .. n
  BY <1>1, Slices
<1>4. /\ Content[v] \in Seq({v} \X (1 .. n)) /\ Len(Content[v]) = n
      /\ \A i \in 1 .. n : Content[v][i] = <<v, i>>
  BY Contents
<1>. HIDE DEF n, a, e, s, z
<1>5. z \in Seq(Nat \ {0}) /\ Len(z) = n
  <2>1. z \in [1 .. n -> Nat \ {0}]
    BY <1>2
  <2>2. z \in Seq(Nat \ {0})
    BY <1>1, <2>1, SeqDef
  <2>3. QED BY <1>1, <2>1, <2>2, LenProperties
<1>6. /\ DOMAIN s = 1 .. e - a + 1
      /\ \A j \in 1 .. e - a + 1 : s[j] = Content[v][a + j - 1]
  BY <1>1, <1>3, <1>4
<1>7. SubSeq(z, a, e) = [j \in 1 .. e - a + 1 |-> z[a + j - 1]]
  BY <1>1, <1>3, <1>5
<1>8. \A j \in 1 .. e - a + 1 : s[j][2] = a + j - 1
  <2>1. \A j \in 1 .. e - a + 1 : a + j - 1 \in 1 .. n
    BY <1>1, <1>3
  <2>2. QED BY <1>4, <1>6, <2>1
<1>9. [j \in DOMAIN s |-> z[s[j][2]]] = SubSeq(z, a, e)
  BY <1>6, <1>7, <1>8
<1>10. SliceBytes(v, k) = Bytes(SubSeq(z, a, e))
  BY <1>9 DEF SliceBytes, s, z
<1>11. Len(s) = e - a + 1 /\ s[1][2] = a
  <2>1. s \in Seq({v} \X (1 .. n))
    BY <1>1, <1>3, <1>4
  <2>2. Len(s) = e - a + 1
    <3>1. Len(s) \in Nat /\ 1 .. Len(s) = 1 .. e - a + 1 /\ e - a + 1 \in Nat \ {0}
      BY <1>1, <1>3, <1>6, <2>1, LenProperties
    <3>2. \A p, q \in Nat : 1 .. p = 1 .. q => p = q
      OBVIOUS
    <3>3. QED BY <3>1, <3>2
  <2>3. 1 \in 1 .. e - a + 1 /\ a + 1 - 1 = a
    BY <1>1, <1>3
  <2>4. s[1][2] = a
    BY <1>8, <2>3
  <2>5. QED BY <2>2, <2>4
<1>12. Len(Slice[v][k]) = e - Start(v, k) /\ Slice[v][k][1][2] = Start(v, k) + 1
  <2>1. Start(v, k) \in 0 .. n - 1 /\ e \in Int
    BY <1>1, <1>3, BoundariesChain DEF n, e
  <2>2. QED BY <1>1, <1>11, <2>1 DEF a, s
<1>13. QED BY <1>2, <1>5, <1>10, <1>12 DEF n, a, e, z

\* No chunk is empty, and none is over the byte limit but a message that is so by
\* itself, whatever the sizes of the messages and the limits are.
LEMMA SliceBytesBound ==
  ASSUME NEW v \in Version, NEW k \in 1 .. Len(Boundaries[v])
  PROVE  /\ SliceBytes(v, k) \in Nat \ {0}
         /\ SliceBytes(v, k) <= CHUNK_BYTE_LIMIT \/ LoneOversized(v, k)
<1>. DEFINE n == Len(Transcript[v])
            a == Start(v, k) + 1
            e == Boundaries[v][k]
            z == Sizes(v)
            z1 == SubSeq(z, a, e)
<1>1. /\ n \in Nat /\ z \in Seq(Nat \ {0}) /\ Len(z) = n
      /\ \A i \in 1 .. n : z[i] <= MAX_MESSAGE_SIZE \/ Transcript[v][i].size > MAX_MESSAGE_SIZE
      /\ Len(Slice[v][k]) = e - Start(v, k) /\ Slice[v][k][1][2] = a
      /\ SliceBytes(v, k) = Bytes(z1)
      /\ MAX_MESSAGE_SIZE \in Nat /\ CHUNK_BYTE_LIMIT \in Nat
      /\ MAX_MESSAGE_SIZE <= CHUNK_BYTE_LIMIT
  BY Transcripts, SliceSizes, StreamAssumption
<1>2. /\ a \in 1 .. n /\ e \in a .. n
      /\ e = a \/ Bytes(z1) <= CHUNK_BYTE_LIMIT
  <2>1. Start(v, k) \in 0 .. n - 1 /\ e = ChunkEnd(v, Start(v, k))
    BY BoundariesChain
  <2>2. /\ ChunkEnd(v, Start(v, k)) \in Start(v, k) + 1 .. n
        /\ \/ ChunkEnd(v, Start(v, k)) = Start(v, k) + 1
           \/ Bytes(SubSeq(z, a, ChunkEnd(v, Start(v, k)))) <= CHUNK_BYTE_LIMIT
    BY <2>1, ChunkEndBounds
  <2>3. e \in a .. n /\ (e = a \/ Bytes(z1) <= CHUNK_BYTE_LIMIT)
    BY <2>1, <2>2
  <2>4. a \in 1 .. n
    <3>1. n \in Nat /\ Start(v, k) \in 0 .. n - 1
      BY <1>1, <2>1
    <3> HIDE DEF n
    <3>2. QED BY <3>1
  <2>5. QED BY <2>3, <2>4
<1>. HIDE DEF n, a, e, z
<1>3. z1 = [j \in 1 .. e - a + 1 |-> z[a + j - 1]]
  <2>1. z \in Seq(Nat \ {0}) /\ a \in 1 .. Len(z) /\ e \in a .. Len(z)
    BY <1>1, <1>2
  <2>2. QED BY <2>1
<1>4. \A j \in 1 .. e - a + 1 : a + j - 1 \in 1 .. n
  BY <1>1, <1>2
<1>5. z1 \in Seq(Nat \ {0}) /\ z1 # <<>>
  <2>1. z1 \in [1 .. e - a + 1 -> Nat \ {0}]
    BY <1>1, <1>3, <1>4, ElementOfSeq
  <2>2. e - a + 1 \in Nat /\ e - a + 1 # 0
    BY <1>1, <1>2
  <2>3. z1 \in Seq(Nat \ {0})
    BY <2>1, <2>2, SeqDef
  <2>4. Len(z1) = e - a + 1
    BY <2>1, <2>2, <2>3, LenProperties
  <2>5. QED BY <2>2, <2>3, <2>4, EmptySeq
<1>6. Bytes(z1) \in Nat /\ Bytes(z1) >= 1
  BY <1>5, BytesPositive
<1>7. CASE e = a /\ ~LoneOversized(v, k)
  <2>1. e - a + 1 = 1 /\ a + 1 - 1 = a
    BY <1>1, <1>2, <1>7
  <2>2. z[a] \in Nat /\ z[a] <= CHUNK_BYTE_LIMIT
    <3>1. Len(Slice[v][k]) = 1
      BY <1>1, <1>2, <1>7, BoundariesChain DEF a, e, n
    <3>2. ~(Transcript[v][a].size > MAX_MESSAGE_SIZE)
      BY <1>1, <1>7, <3>1 DEF LoneOversized
    <3>3. z[a] \in Nat /\ z[a] <= MAX_MESSAGE_SIZE
      BY <1>1, <1>2, <3>2, ElementOfSeq
    <3>4. QED BY <1>1, <3>3
  <2>3. z1 = <<z[a]>>
    BY <1>3, <2>1
  <2>4. Bytes(<<z[a]>>) = z[a]
    BY <2>2, BytesOfOne
  <2>5. Bytes(z1) <= CHUNK_BYTE_LIMIT
    BY <2>2, <2>3, <2>4, Zenon
  <2>6. QED BY <1>1, <1>6, <2>5
<1>8. QED BY <1>1, <1>2, <1>6, <1>7

-----------------------------------------------------------------------------
(* What the relay puts together.                                           *)

\* A stream that holds every slice of a version is assembled to it.
LEMMA AssembledIsWhole ==
  ASSUME NEW p, NEW v \in Version, p.total = Len(Boundaries[v]),
         1 .. p.total \subseteq DOMAIN p.chunks,
         \A k \in DOMAIN p.chunks : p.chunks[k] = Slice[v][k]
  PROVE  Assembled(p) = Content[v]
<1>. DEFINE n == Len(Boundaries[v])
            seqs == [k \in 1 .. n |-> IF k \in DOMAIN p.chunks THEN p.chunks[k] ELSE <<>>]
<1>1. n \in Nat
  BY BoundariesChain
<1>2. \A k \in 1 .. n : seqs[k] = Slice[v][k]
  OBVIOUS
<1>3. Assembled(p) = FlattenSeq(seqs)
  BY DEF Assembled
<1>. HIDE DEF n
<1>4. seqs \in [1 .. n -> {seqs[k] : k \in 1 .. n}]
  OBVIOUS
<1>. HIDE DEF seqs
<1>5. seqs \in Seq({seqs[k] : k \in 1 .. n})
  BY <1>1, <1>4, SeqDef
<1>6. Len(seqs) = n
  BY <1>1, <1>4, <1>5, LenProperties
<1>7. FlattenSeq(seqs) = Content[v]
  BY <1>2, <1>6, SlicesAreWhole DEF n
<1>8. QED BY <1>3, <1>7
-----------------------------------------------------------------------------
(* The inductive invariant.                                                *)

\* The frames of streams 1 .. n, when the transcript is at version l: all of a
\* stream are of the one version ver gives it.
Frame(l, n, m, ver) ==
  [kind : {"whole"}, ver : 1 .. l, nonce : 0 .. m]
  \cup {f \in [kind : {"head"}, ver : 1 .. l, nonce : 0 .. m, id : 1 .. n] : f.ver = ver[f.id]}
  \cup {f \in [kind : {"chunk"}, ver : 1 .. l, id : 1 .. n, index : Nat, total : Nat,
               final : BOOLEAN] :
          /\ f.ver = ver[f.id]
          /\ f.index \in 1 .. f.total /\ f.total = Len(Boundaries[f.ver])
          /\ f.final = (f.index = f.total)}

\* A run of sendChunkedMessages over version ver[s.id]; one that began offline
\* has the number the next stream will have.
SenderOf(s, l, n, online, ver) ==
  /\ s \in [id : 1 .. n + 1, ver : 1 .. l, next : Nat]
  /\ s.ver = ver[s.id] /\ s.next \in 1 .. Len(Boundaries[s.ver])
  /\ online => s.id <= n

\* What the relay has of a stream are slices of version v.
PartOf(p, v) ==
  /\ \A k \in DOMAIN p.chunks : k \in 1 .. Len(Boundaries[v]) /\ p.chunks[k] = Slice[v][k]
  /\ p.total \in Nat
  /\ DOMAIN p.chunks # {} => p.total = Len(Boundaries[v])
  /\ p.final => DOMAIN p.chunks # {}

\* Every stream, in the sender, on the wire and in the relay, has one version.
StreamsOK(ver) ==
  /\ ver \in [1 .. ids + 1 -> Version]
  /\ wire \in Seq(Frame(leaf, ids, marks, ver))
  /\ sender = NoSender \/ SenderOf(sender, leaf, ids, up, ver)
  /\ pending = NoStream \/ (pending.id \in 1 .. ids /\ PartOf(pending, ver[pending.id]))

CountersOK ==
  /\ leaf \in Version /\ ids \in Nat /\ marks \in Nat /\ drops \in Nat
  /\ {emitted, inFlight} \subseteq 0 .. leaf /\ sender.ver = inFlight
  /\ up \in BOOLEAN /\ live \in BOOLEAN /\ (up => live)
  /\ recovery \in 0 .. marks /\ signals \in Seq(1 .. marks)
  /\ pending = [id |-> pending.id, chunks |-> pending.chunks, total |-> pending.total,
                final |-> pending.final, nonce |-> pending.nonce]

\* Versions only grow from what is stored, a and b, over the wire to the sender.
Ordered(w, s, a, b) ==
  /\ \A i \in DOMAIN w :
       /\ a <= w[i].ver /\ b <= w[i].ver
       /\ \A j \in DOMAIN w : i < j => w[i].ver <= w[j].ver
       /\ s # NoSender => w[i].ver <= s.ver
  /\ s # NoSender => a <= s.ver /\ b <= s.ver

OrderOK ==
  /\ VersionOf(lastState) \in 0 .. leaf /\ VersionOf(row) \in 0 .. leaf
  /\ Ordered(wire, sender, VersionOf(lastState), VersionOf(row))

\* Chunk k of stream d comes next after f, or next to the relay.
Follows(f, d, k) ==
  /\ f.kind \in {"head", "chunk"} /\ f.id = d
  /\ k = IF f.kind = "head" THEN 1 ELSE f.index + 1
Awaits(p, d, k) == p.id = d /\ DOMAIN p.chunks = 1 .. k - 1

\* Chunk k of stream d, sent after the first n frames of the wire, has all
\* before it on the wire and in the relay.
Complete(w, n, p, d, k) == IF n = 0 THEN Awaits(p, d, k) ELSE Follows(w[n], d, k)

\* No chunk is missing before one that is on the wire or yet to be sent.
Chained(w, s, p) ==
  /\ \A i \in DOMAIN w :
       w[i].kind = "chunk" => Complete(w, i - 1, p, w[i].id, w[i].index)
  /\ s # NoSender => Complete(w, Len(w), p, s.id, s.next)

Closes(f, v) == f.ver = v /\ (f.kind = "whole" \/ (f.kind = "chunk" /\ f.final))

\* A version that was sent is stored, or its last frame is on the way.
Sent(w, s, e, messages) ==
  e = leaf => \/ messages = Content[leaf]
              \/ s.ver = leaf
              \/ \E i \in DOMAIN w : Closes(w[i], leaf)

\* The inductive invariant.  The versions of the streams are nobody's variable:
\* it is enough that they exist.
StreamInv ==
  /\ CountersOK
  /\ WholeSnapshots
  /\ \E ver \in [1 .. ids + 1 -> Version] : StreamsOK(ver)
  /\ OrderOK
  /\ up /\ drops = 0 => Chained(wire, sender, pending)
                        /\ Sent(wire, sender, emitted, lastState)

-----------------------------------------------------------------------------
(* Lemmas about frames, and about the queue that they form.                *)

\* What a frame of each kind holds.
LEMMA FrameFields ==
  ASSUME NEW l \in Nat, NEW n \in Nat, NEW m \in Nat, NEW ver, NEW f \in Frame(l, n, m, ver)
  PROVE  /\ f.kind \in {"whole", "head", "chunk"} /\ f.ver \in 1 .. l
         /\ f.kind # "chunk" => f.nonce \in 0 .. m
         /\ f.kind # "whole" => f.id \in 1 .. n /\ f.ver = ver[f.id]
         /\ f.kind = "chunk" => /\ f.index \in 1 .. f.total /\ f.total = Len(Boundaries[f.ver])
                                /\ f.index \in Nat /\ f.total \in Nat
                                /\ f.final = (f.index = f.total)
BY DEF Frame

\* Streams 1 .. n have the same version in both.
Agree(ver, ver2, n) == \A i \in 1 .. n : ver2[i] = ver[i]

\* What was on the wire is typed as it was when versions, streams and nonces
\* are added.
LEMMA FramesGrow ==
  ASSUME NEW l \in Nat, NEW n \in Nat, NEW m \in Nat, NEW ver,
         NEW l2 \in Nat, NEW n2 \in Nat, NEW m2 \in Nat, NEW ver2,
         l <= l2, n <= n2, m <= m2, Agree(ver, ver2, n)
  PROVE  \A w \in Seq(Frame(l, n, m, ver)) : w \in Seq(Frame(l2, n2, m2, ver2))
<1>1. 1 .. l \subseteq 1 .. l2 /\ 1 .. n \subseteq 1 .. n2 /\ 0 .. m \subseteq 0 .. m2
  OBVIOUS
<1>2. Frame(l, n, m, ver) \subseteq Frame(l2, n2, m2, ver2)
  BY <1>1 DEF Frame, Agree
<1>3. QED BY <1>2, SeqMonotonic

\* The order is kept when a frame is sent ...
LEMMA OrderedAppend ==
  ASSUME NEW l \in Nat, NEW n \in Nat, NEW m \in Nat, NEW ver,
         NEW w \in Seq(Frame(l, n, m, ver)), NEW f \in Frame(l, n, m, ver), NEW s,
         NEW a \in Nat, NEW b \in Nat, Ordered(w, s, a, b), NEW s2,
         \A i \in DOMAIN w : w[i].ver <= f.ver, a <= f.ver, b <= f.ver,
         s2 = NoSender \/ s2.ver = f.ver
  PROVE  Ordered(Append(w, f), s2, a, b)
<1>1. /\ Len(w) \in Nat /\ DOMAIN w = 1 .. Len(w) /\ f.ver \in Nat
      /\ \A i \in DOMAIN w : w[i].ver \in Nat
  BY LenProperties, ElementOfSeq, FrameFields
<1>. DEFINE q == Append(w, f)
<1>2. /\ DOMAIN q = 1 .. Len(w) + 1
      /\ \A i \in DOMAIN w : q[i] = w[i]
      /\ q[Len(w) + 1] = f
  BY <1>1, AppendProperties, LenProperties
<1>3. \A i \in DOMAIN q : i \in DOMAIN w \/ i = Len(w) + 1
  BY <1>1, <1>2
<1>. HIDE DEF q
<1>4. \A i \in DOMAIN w : \A j \in DOMAIN w : i < j => w[i].ver <= w[j].ver
  BY DEF Ordered
<1>5. \A i \in DOMAIN w : a <= w[i].ver /\ b <= w[i].ver
  BY DEF Ordered
<1>6. \A i \in DOMAIN q : a <= q[i].ver /\ b <= q[i].ver /\ q[i].ver <= f.ver
  BY <1>1, <1>2, <1>3, <1>5
<1>7. \A i \in DOMAIN q : \A j \in DOMAIN q : i < j => q[i].ver <= q[j].ver
  <2>1. SUFFICES ASSUME NEW i \in DOMAIN q, NEW j \in DOMAIN q, i < j
                 PROVE  q[i].ver <= q[j].ver
    OBVIOUS
  <2>2. CASE j = Len(w) + 1
    BY <1>2, <1>6, <2>2
  <2>3. CASE j # Len(w) + 1
    <3>1. j \in DOMAIN w /\ i \in DOMAIN w
      BY <1>1, <1>2, <1>3, <2>1, <2>3
    <3>2. QED BY <1>2, <1>4, <2>1, <3>1
  <2>4. QED BY <2>2, <2>3
<1>8. Ordered(q, s2, a, b)
  BY <1>6, <1>7 DEF Ordered
<1>9. QED BY <1>8 DEF q

\* ... when the first frame is taken, and stored or not ...
LEMMA OrderedTail ==
  ASSUME NEW l \in Nat, NEW n \in Nat, NEW m \in Nat, NEW ver,
         NEW w \in Seq(Frame(l, n, m, ver)), w # <<>>, NEW s,
         NEW a, NEW b, Ordered(w, s, a, b),
         NEW a2 \in {a, Head(w).ver}, NEW b2 \in {b, Head(w).ver}
  PROVE  Ordered(Tail(w), s, a2, b2)
<1>1. /\ Len(w) \in Nat /\ DOMAIN w = 1 .. Len(w) /\ Len(w) # 0
  BY LenProperties, EmptySeq
<1>2. /\ DOMAIN Tail(w) = 1 .. Len(w) - 1 /\ Head(w) = w[1]
      /\ \A i \in 1 .. Len(w) - 1 : Tail(w)[i] = w[i + 1]
  BY <1>1, HeadTailProperties, LenProperties
<1>3. \A i \in 1 .. Len(w) - 1 : i + 1 \in DOMAIN w /\ 1 < i + 1
  BY <1>1
<1>4. 1 \in DOMAIN w
  BY <1>1
<1>5. \A i \in DOMAIN Tail(w) : a2 <= Tail(w)[i].ver /\ b2 <= Tail(w)[i].ver
  BY <1>2, <1>3, <1>4 DEF Ordered
<1>6. \A i \in DOMAIN Tail(w) : \A j \in DOMAIN Tail(w) :
        i < j => Tail(w)[i].ver <= Tail(w)[j].ver
  <2>1. SUFFICES ASSUME NEW i \in DOMAIN Tail(w), NEW j \in DOMAIN Tail(w), i < j
                 PROVE  Tail(w)[i].ver <= Tail(w)[j].ver
    OBVIOUS
  <2>2. i + 1 \in DOMAIN w /\ j + 1 \in DOMAIN w /\ i + 1 < j + 1
    BY <1>1, <1>2, <1>3, <2>1
  <2>3. QED BY <1>2, <2>2 DEF Ordered
<1>7. s # NoSender => \A i \in DOMAIN Tail(w) : Tail(w)[i].ver <= s.ver
  BY <1>2, <1>3 DEF Ordered
<1>8. s # NoSender => a2 <= s.ver /\ b2 <= s.ver
  BY <1>2, <1>4 DEF Ordered
<1>9. QED BY <1>5, <1>6, <1>7, <1>8 DEF Ordered

\* ... and when the end of the wire is lost.
LEMMA OrderedPrefix ==
  ASSUME NEW S, NEW w \in Seq(S), NEW k \in 0 .. Len(w), NEW s, NEW a, NEW b, Ordered(w, s, a, b)
  PROVE  SubSeq(w, 1, k) \in Seq(S) /\ Ordered(SubSeq(w, 1, k), s, a, b)
<1>1. Len(w) \in Nat /\ DOMAIN w = 1 .. Len(w) /\ \A i \in 1 .. k : i \in DOMAIN w
  BY LenProperties
<1>2. \A i \in 1 .. k : w[i] \in S
  BY <1>1, ElementOfSeq
<1>3. /\ SubSeq(w, 1, k) \in Seq(S) /\ DOMAIN SubSeq(w, 1, k) = 1 .. k
      /\ \A i \in 1 .. k : SubSeq(w, 1, k)[i] = w[i]
  <2>1. SubSeq(w, 1, k) = [i \in 1 .. k |-> w[i]]
    BY <1>1
  <2>2. SubSeq(w, 1, k) \in Seq(S)
    BY <1>1, <1>2, <2>1, SeqDef
  <2>3. QED BY <2>1, <2>2
<1>4. Ordered(SubSeq(w, 1, k), s, a, b)
  BY <1>1, <1>3 DEF Ordered
<1>5. QED BY <1>3, <1>4

\* Nothing is missing when the next chunk of the sender is sent ...
LEMMA ChainedChunk ==
  ASSUME NEW S, NEW w \in Seq(S), NEW f \in S, NEW s, NEW p, Chained(w, s, p), s # NoSender,
         f.kind = "chunk", f.id = s.id, f.index = s.next, NEW s2,
         s2 = NoSender \/ (s2.id = s.id /\ s2.next = s.next + 1)
  PROVE  Chained(Append(w, f), s2, p)
<1>1. Len(w) \in Nat /\ DOMAIN w = 1 .. Len(w)
  BY LenProperties
<1>. DEFINE q == Append(w, f)
<1>2. /\ DOMAIN q = 1 .. Len(w) + 1 /\ Len(q) = Len(w) + 1
      /\ \A i \in DOMAIN w : q[i] = w[i]
      /\ q[Len(w) + 1] = f
  BY <1>1, AppendProperties, LenProperties
<1>. HIDE DEF q
<1>3. ASSUME NEW i \in 1 .. Len(w) + 1, NEW d, NEW k
      PROVE  Complete(q, i - 1, p, d, k) = Complete(w, i - 1, p, d, k)
  <2>1. i - 1 = 0 \/ i - 1 \in DOMAIN w
    BY <1>1
  <2>2. QED BY <1>2, <2>1 DEF Complete
<1>4. ASSUME NEW i \in DOMAIN q, q[i].kind = "chunk"
      PROVE  Complete(q, i - 1, p, q[i].id, q[i].index)
  <2>1. CASE i = Len(w) + 1
    <3>1. Complete(w, Len(w), p, s.id, s.next)
      BY DEF Chained
    <3>2. i - 1 = Len(w)
      BY <1>1, <2>1
    <3>3. QED BY <1>2, <1>3, <2>1, <3>1, <3>2
  <2>2. CASE i # Len(w) + 1
    <3>1. i \in DOMAIN w
      BY <1>1, <1>2, <2>2
    <3>2. Complete(w, i - 1, p, w[i].id, w[i].index)
      BY <1>2, <1>4, <3>1 DEF Chained
    <3>3. QED BY <1>2, <1>3, <3>1, <3>2
  <2>3. QED BY <2>1, <2>2
<1>5. s2 # NoSender => Complete(q, Len(q), p, s2.id, s2.next)
  BY <1>1, <1>2 DEF Complete, Follows
<1>6. Chained(q, s2, p)
  BY <1>4, <1>5 DEF Chained
<1>7. QED BY <1>6 DEF q

\* ... when a snapshot is sent in place of the sender's ...
LEMMA ChainedActive ==
  ASSUME NEW S, NEW w \in Seq(S), NEW f \in S, NEW s, NEW p, Chained(w, s, p),
         NEW s2, \/ f.kind = "whole" /\ s2 = NoSender
                 \/ f.kind = "head" /\ s2.id = f.id /\ s2.next = 1
  PROVE  Chained(Append(w, f), s2, p)
<1>1. Len(w) \in Nat /\ DOMAIN w = 1 .. Len(w)
  BY LenProperties
<1>. DEFINE q == Append(w, f)
<1>2. /\ DOMAIN q = 1 .. Len(w) + 1 /\ Len(q) = Len(w) + 1
      /\ \A i \in DOMAIN w : q[i] = w[i]
      /\ q[Len(w) + 1] = f
  BY <1>1, AppendProperties, LenProperties
<1>. HIDE DEF q
<1>3. ASSUME NEW i \in DOMAIN q, q[i].kind = "chunk"
      PROVE  Complete(q, i - 1, p, q[i].id, q[i].index)
  <2>1. i \in DOMAIN w
    BY <1>1, <1>2, <1>3
  <2>2. Complete(w, i - 1, p, w[i].id, w[i].index)
    BY <1>2, <1>3, <2>1 DEF Chained
  <2>3. i - 1 = 0 \/ i - 1 \in DOMAIN w
    BY <1>1, <2>1
  <2>4. QED BY <1>2, <2>1, <2>2, <2>3 DEF Complete
<1>4. s2 # NoSender => Complete(q, Len(q), p, s2.id, s2.next)
  BY <1>1, <1>2 DEF Complete, Follows
<1>5. Chained(q, s2, p)
  BY <1>3, <1>4 DEF Chained
<1>6. QED BY <1>5 DEF q

\* The relay has p after the first frame, and waits for what follows it.
Ready(w, s, p) ==
  /\ \A j \in DOMAIN w :
       w[j].kind = "chunk" /\ Follows(w[1], w[j].id, w[j].index)
         => Awaits(p, w[j].id, w[j].index)
  /\ s # NoSender /\ Follows(w[1], s.id, s.next) => Awaits(p, s.id, s.next)

\* ... and when a frame is taken that leaves the relay waiting for what follows it.
LEMMA ChainedTail ==
  ASSUME NEW S, NEW w \in Seq(S), w # <<>>, NEW s, NEW p, Chained(w, s, p), NEW p2,
         Ready(w, s, p2)
  PROVE  Chained(Tail(w), s, p2)
<1>1. Len(w) \in Nat /\ DOMAIN w = 1 .. Len(w) /\ Len(w) # 0
  BY LenProperties, EmptySeq
<1>2. /\ DOMAIN Tail(w) = 1 .. Len(w) - 1 /\ Len(Tail(w)) = Len(w) - 1
      /\ \A i \in 1 .. Len(w) - 1 : Tail(w)[i] = w[i + 1]
  BY <1>1, HeadTailProperties, LenProperties
<1>3. ASSUME NEW i \in DOMAIN Tail(w), Tail(w)[i].kind = "chunk"
      PROVE  Complete(Tail(w), i - 1, p2, Tail(w)[i].id, Tail(w)[i].index)
  <2>1. i + 1 \in DOMAIN w /\ Tail(w)[i] = w[i + 1] /\ (i + 1) - 1 = i /\ i # 0
    BY <1>1, <1>2
  <2>2. Complete(w, i, p, w[i + 1].id, w[i + 1].index)
    BY <1>3, <2>1 DEF Chained
  <2>3. Follows(w[i], w[i + 1].id, w[i + 1].index)
    BY <2>1, <2>2 DEF Complete
  <2>4. CASE i = 1
    <3>1. Awaits(p2, w[i + 1].id, w[i + 1].index)
      BY <1>3, <2>1, <2>3, <2>4 DEF Ready
    <3>2. QED BY <2>1, <2>4, <3>1 DEF Complete
  <2>5. CASE i # 1
    <3>1. i - 1 # 0 /\ Tail(w)[i - 1] = w[i]
      BY <1>1, <1>2, <2>5
    <3>2. QED BY <2>1, <2>3, <3>1 DEF Complete
  <2>6. QED BY <2>4, <2>5
<1>4. ASSUME s # NoSender
      PROVE  Complete(Tail(w), Len(Tail(w)), p2, s.id, s.next)
  <2>1. Follows(w[Len(w)], s.id, s.next)
    BY <1>1, <1>4 DEF Chained, Complete
  <2>2. CASE Len(w) = 1
    <3>1. Awaits(p2, s.id, s.next)
      BY <1>4, <2>1, <2>2 DEF Ready
    <3>2. QED BY <1>2, <2>2, <3>1 DEF Complete
  <2>3. CASE Len(w) # 1
    <3>1. Len(w) - 1 # 0 /\ Tail(w)[Len(w) - 1] = w[Len(w)]
      BY <1>1, <1>2, <2>3
    <3>2. QED BY <1>2, <2>1, <3>1 DEF Complete
  <2>4. QED BY <2>2, <2>3
<1>5. QED BY <1>3, <1>4 DEF Chained
\* A version that was sent stays covered when a frame is taken.
LEMMA SentTail ==
  ASSUME NEW S, NEW w \in Seq(S), w # <<>>, NEW s, NEW e, NEW x, NEW y, Sent(w, s, e, x),
         Closes(w[1], leaf) \/ x = Content[leaf] => y = Content[leaf]
  PROVE  Sent(Tail(w), s, e, y)
<1>1. /\ Len(w) \in Nat /\ DOMAIN w = 1 .. Len(w) /\ Len(w) # 0
  BY LenProperties, EmptySeq
<1>2. /\ DOMAIN Tail(w) = 1 .. Len(w) - 1
      /\ \A i \in 1 .. Len(w) - 1 : Tail(w)[i] = w[i + 1]
  BY <1>1, HeadTailProperties, LenProperties
<1>3. ASSUME NEW i \in DOMAIN w, Closes(w[i], leaf), y # Content[leaf]
      PROVE  \E j \in DOMAIN Tail(w) : Closes(Tail(w)[j], leaf)
  <2>1. i # 1
    BY <1>3
  <2>2. i - 1 \in DOMAIN Tail(w) /\ Tail(w)[i - 1] = w[i]
    BY <1>1, <1>2, <2>1
  <2>3. QED BY <1>3, <2>2
<1>4. QED BY <1>3 DEF Sent

\* The versions are numbered, and a transcript tells its number.
LEMMA VersionsKnown ==
  /\ Version = 1 .. Len(Transcript) /\ Len(Transcript) \in Nat /\ 1 \in Version
  /\ VersionOf(<<>>) = 0
  /\ \A v \in Version : Content[v] \in States /\ Content[v] # <<>> /\ VersionOf(Content[v]) = v
<1>1. Version = 1 .. Len(Transcript) /\ Len(Transcript) \in Nat
  BY StreamAssumption, LenProperties DEF Version
<1>2. 1 \in Version
  BY <1>1, StreamAssumption
<1>3. VersionOf(<<>>) = 0
  BY DEF VersionOf
<1>4. ASSUME NEW v \in Version
      PROVE  Content[v] \in States /\ Content[v] # <<>> /\ VersionOf(Content[v]) = v
  <2>1. Len(Transcript[v]) \in Nat \ {0}
    BY Transcripts
  <2>2. Len(Content[v]) # 0 /\ Content[v][1] = <<v, 1>>
    <3>1. /\ Len(Content[v]) = Len(Transcript[v])
          /\ \A i \in 1 .. Len(Transcript[v]) : Content[v][i] = <<v, i>>
      BY Contents
    <3>2. 1 \in 1 .. Len(Transcript[v])
      BY <2>1
    <3>3. QED BY <2>1, <3>1, <3>2
  <2>3. Content[v] # <<>>
    BY <2>2
  <2>4. Content[v] \in States
    BY DEF States
  <2>5. QED BY <2>2, <2>3, <2>4 DEF VersionOf
<1>5. QED BY <1>1, <1>2, <1>3, <1>4

\* A chunk that is added to the slices of a version is a slice of it.
LEMMA AppliedIsPart ==
  ASSUME NEW p, NEW v \in Version, PartOf(p, v), NEW f, f.ver = v,
         f.total = Len(Boundaries[v]), f.index \in 1 .. f.total,
         p = [id |-> p.id, chunks |-> p.chunks, total |-> p.total, final |-> p.final,
              nonce |-> p.nonce]
  PROVE  LET q == Applied(p, f) IN
         /\ PartOf(q, v) /\ q.id = p.id /\ q.nonce = p.nonce
         /\ DOMAIN q.chunks = DOMAIN p.chunks \cup {f.index} /\ q.final = (p.final \/ f.final)
         /\ q = [id |-> q.id, chunks |-> q.chunks, total |-> q.total, final |-> q.final,
                 nonce |-> q.nonce]
<1>. DEFINE q == Applied(p, f)
<1>0. Len(Boundaries[v]) \in Nat
  BY BoundariesChain
<1>1. CASE f.index \in DOMAIN p.chunks
  <2>1. q = [p EXCEPT !.final = @ \/ f.final]
    BY <1>1 DEF Applied
  <2>2. /\ q.id = p.id /\ q.chunks = p.chunks /\ q.total = p.total /\ q.nonce = p.nonce
        /\ q.final = (p.final \/ f.final)
    BY <2>1
  <2>3. q = [id |-> q.id, chunks |-> q.chunks, total |-> q.total, final |-> q.final,
             nonce |-> q.nonce]
    BY <2>1
  <2>. HIDE DEF q
  <2>4. QED BY <1>1, <2>2, <2>3 DEF PartOf, q
<1>2. CASE f.index \notin DOMAIN p.chunks
  <2>. DEFINE c == [k \in DOMAIN p.chunks \cup {f.index} |->
                      IF k = f.index THEN Slice[f.ver][k] ELSE p.chunks[k]]
  <2>1. q = [p EXCEPT !.chunks = c, !.total = f.total, !.final = @ \/ f.final]
    BY <1>2 DEF Applied
  <2>2. /\ DOMAIN c = DOMAIN p.chunks \cup {f.index}
        /\ \A k \in DOMAIN c : k \in 1 .. Len(Boundaries[v]) /\ c[k] = Slice[v][k]
    BY DEF PartOf
  <2>. HIDE DEF c
  <2>3. /\ q.id = p.id /\ q.chunks = c /\ q.total = f.total /\ q.nonce = p.nonce
        /\ q.final = (p.final \/ f.final)
    BY <2>1
  <2>4. q = [id |-> q.id, chunks |-> q.chunks, total |-> q.total, final |-> q.final,
             nonce |-> q.nonce]
    BY <2>1
  <2>. HIDE DEF q
  <2>5. PartOf(q, v)
    BY <1>0, <2>2, <2>3 DEF PartOf
  <2>6. QED BY <2>2, <2>3, <2>4, <2>5 DEF q
<1>3. QED BY <1>1, <1>2

\* What is finalized is a whole version.
LEMMA FinalizedIsWhole ==
  ASSUME NEW p, NEW v \in Version, PartOf(p, v), CanFinalize(p)
  PROVE  Assembled(p) = Content[v]
<1>1. p.total = Len(Boundaries[v]) /\ 1 .. p.total \subseteq DOMAIN p.chunks
  BY DEF PartOf, CanFinalize
<1>2. \A k \in DOMAIN p.chunks : p.chunks[k] = Slice[v][k]
  BY DEF PartOf
<1>3. QED BY <1>1, <1>2, AssembledIsWhole

-----------------------------------------------------------------------------
(* The steps of the CLI.                                                   *)

\* emitSessionActive: what it sends and starts belongs to a stream of its own
\* and to the newest version.
LEMMA EmitKeeps ==
  ASSUME StreamInv, NEW ver \in [1 .. ids + 1 -> Version], StreamsOK(ver),
         NEW nonce \in 0 .. marks, NEW online \in BOOLEAN,
         NEW sent, sent = <<>> \/ sent = wire, EmitActive(nonce, online, sent)
  PROVE  /\ ids' \in Nat /\ ids <= ids'
         /\ {emitted', inFlight'} \subseteq 0 .. leaf /\ sender'.ver = inFlight'
         /\ \E ver2 \in [1 .. ids' + 1 -> Version] :
              /\ wire' \in Seq(Frame(leaf, ids', marks, ver2))
              /\ sender' = NoSender \/ SenderOf(sender', leaf, ids', online, ver2)
              /\ Agree(ver, ver2, ids)
         /\ \A a, b \in 0 .. leaf :
              Ordered(sent, NoSender, a, b) => Ordered(wire', sender', a, b)
         /\ \A p : online /\ Chained(sent, NoSender, p) => Chained(wire', sender', p)
         /\ online => \/ sender'.ver = leaf
                      \/ \E i \in DOMAIN wire' : Closes(wire'[i], leaf)
<1>. DEFINE f == IF NeedsChunks[leaf] THEN HeadOf(leaf, nonce, ids + 1) ELSE Whole(leaf, nonce)
<1>1. /\ leaf \in Version /\ leaf \in Nat /\ leaf # 0 /\ ids \in Nat /\ marks \in Nat
      /\ emitted \in 0 .. leaf /\ wire \in Seq(Frame(leaf, ids, marks, ver))
  BY VersionsKnown DEF StreamInv, CountersOK, StreamsOK
<1>2. /\ ids' = IF online THEN ids + 1 ELSE ids
      /\ wire' = IF online THEN Append(sent, f) ELSE sent
      /\ IF NeedsChunks[leaf]
           THEN sender' = [id |-> ids + 1, ver |-> leaf, next |-> 1] /\ inFlight' = leaf
                /\ emitted' = emitted
           ELSE sender' = NoSender /\ inFlight' = 0 /\ emitted' = leaf
  BY DEF EmitActive, Forward
<1>0. PICK n : n = IF online THEN ids + 1 ELSE ids
  OBVIOUS
<1>3. n \in Nat /\ ids \in Nat /\ ids <= n /\ (online => n = ids + 1)
  BY <1>0, <1>1
<1>3a. ids' = n
  BY <1>0, <1>2
<1>. DEFINE ver2 == [i \in 1 .. n + 1 |-> IF i <= ids THEN ver[i] ELSE leaf]
            F == Frame(leaf, n, marks, ver2)
<1>4. {emitted', inFlight'} \subseteq 0 .. leaf /\ sender'.ver = inFlight'
  BY <1>1, <1>2 DEF NoSender
<1>5. /\ ver2 \in [1 .. n + 1 -> Version]
      /\ Agree(ver, ver2, ids)
      /\ ver2[ids + 1] = leaf
  <2>1. \A i \in 1 .. n + 1 : i <= ids => i \in 1 .. ids + 1
    BY <1>3
  <2>2. \A i \in 1 .. ids : i \in 1 .. n + 1 /\ i <= ids
    BY <1>3
  <2>3. ids + 1 \in 1 .. n + 1 /\ ~(ids + 1 <= ids)
    BY <1>3
  <2>4. QED BY <1>1, <2>1, <2>2, <2>3 DEF Agree
<1>. HIDE DEF ver2
<1>6. f.ver = leaf /\ f.kind \in {"whole", "head"}
  BY DEF Whole, HeadOf
<1>7. online => f \in F
  <2>1. NeedsChunks[leaf] => f = [kind |-> "head", ver |-> leaf, nonce |-> nonce, id |-> ids + 1]
    BY DEF HeadOf
  <2>2. ~NeedsChunks[leaf] => f = [kind |-> "whole", ver |-> leaf, nonce |-> nonce]
    BY DEF Whole
  <2>. HIDE DEF f
  <2>3. QED BY <1>1, <1>3, <1>5, <2>1, <2>2 DEF Frame
<1>8. sent \in Seq(F)
  <2>1. wire \in Seq(F)
    <3>1. /\ leaf \in Nat /\ marks \in Nat /\ leaf <= leaf /\ marks <= marks
          /\ wire \in Seq(Frame(leaf, ids, marks, ver))
      BY <1>1
    <3>. HIDE DEF F
    <3>2. \A w \in Seq(Frame(leaf, ids, marks, ver)) : w \in Seq(Frame(leaf, n, marks, ver2))
      BY <1>3, <1>5, <3>1, FramesGrow
    <3>3. QED BY <3>1, <3>2 DEF F
  <2>2. QED BY <2>1, EmptySeq
<1>9. wire' \in Seq(F)
  BY <1>2, <1>7, <1>8, AppendProperties
<1>10. sender' = NoSender \/ SenderOf(sender', leaf, n, online, ver2)
  <2>1. 1 \in 1 .. Len(Boundaries[leaf])
    BY <1>1, BoundariesChain
  <2>2. QED BY SMTT(30), <1>1, <1>2, <1>3, <1>5, <2>1 DEF SenderOf
<1>11. \A i \in DOMAIN sent : sent[i].ver \in 1 .. leaf
  <2>1. \A i \in DOMAIN sent : sent[i] \in F
    BY <1>8, LenProperties, ElementOfSeq
  <2>2. QED BY <1>1, <1>3, <2>1, FrameFields
<1>12. sender' = NoSender \/ sender'.ver = leaf
  BY <1>2
<1>13. ASSUME NEW a \in 0 .. leaf, NEW b \in 0 .. leaf, Ordered(sent, NoSender, a, b)
       PROVE  Ordered(wire', sender', a, b)
  <2>1. CASE online
    <3>1. wire' = Append(sent, f) /\ f \in F
      BY <1>2, <1>7, <2>1
    <3>2. /\ \A i \in DOMAIN sent : sent[i].ver <= f.ver
          /\ a <= f.ver /\ b <= f.ver /\ a \in Nat /\ b \in Nat
          /\ sender' = NoSender \/ sender'.ver = f.ver
      BY <1>1, <1>6, <1>11, <1>12
    <3>. HIDE DEF f
    <3>3. QED BY <1>1, <1>3, <1>8, <1>13, <3>1, <3>2, OrderedAppend
  <2>2. CASE ~online
    <3>1. wire' = sent
      BY <1>2, <2>2
    <3>2. QED BY <1>1, <1>11, <1>12, <1>13, <3>1 DEF Ordered
  <2>3. QED BY <2>1, <2>2
<1>14. ASSUME NEW p, online, Chained(sent, NoSender, p)
       PROVE  Chained(wire', sender', p)
  <2>1. wire' = Append(sent, f) /\ f \in F
    BY <1>2, <1>7, <1>14
  <2>2. \/ f.kind = "whole" /\ sender' = NoSender
        \/ f.kind = "head" /\ sender'.id = f.id /\ sender'.next = 1
    BY <1>2 DEF Whole, HeadOf
  <2>. HIDE DEF f, F
  <2>3. QED BY <1>8, <1>14, <2>1, <2>2, ChainedActive
<1>15. ASSUME online
       PROVE  sender'.ver = leaf \/ \E i \in DOMAIN wire' : Closes(wire'[i], leaf)
  <2>1. CASE NeedsChunks[leaf]
    BY <1>2, <2>1
  <2>2. CASE ~NeedsChunks[leaf]
    <3>1. wire' = Append(sent, f) /\ Closes(f, leaf) /\ f \in F
      BY <1>2, <1>7, <1>15, <2>2 DEF Whole, Closes
    <3>. HIDE DEF f, F
    <3>2. Len(sent) + 1 \in DOMAIN wire' /\ wire'[Len(sent) + 1] = f
      BY <1>8, <3>1, AppendProperties, LenProperties
    <3>3. QED BY <3>1, <3>2
  <2>3. QED BY <2>1, <2>2
<1>. HIDE DEF F
<1>16. \E g \in [1 .. ids' + 1 -> Version] :
         /\ wire' \in Seq(Frame(leaf, ids', marks, g))
         /\ sender' = NoSender \/ SenderOf(sender', leaf, ids', online, g)
         /\ Agree(ver, g, ids)
  BY <1>3a, <1>5, <1>9, <1>10 DEF F
<1>17. QED BY <1>3, <1>3a, <1>4, <1>13, <1>14, <1>15, <1>16
\* A handler, the heartbeat or the answer to a signal sends a snapshot.
LEMMA EmitStep ==
  ASSUME StreamInv, EmitNow \/ Heartbeat \/ Connected
  PROVE  StreamInv'
<1>1. PICK ver \in [1 .. ids + 1 -> Version] : StreamsOK(ver)
  BY DEF StreamInv
<1>2. PICK nonce \in 0 .. marks : EmitActive(nonce, up, wire) /\ signals' \in Seq(1 .. marks)
  <2>1. signals \in Seq(1 .. marks) /\ marks \in Nat
    BY DEF StreamInv, CountersOK
  <2>2. CASE Connected
    <3>1. Head(signals) \in 0 .. marks /\ Tail(signals) \in Seq(1 .. marks)
      BY <2>1, <2>2, HeadTailProperties DEF Connected
    <3>2. QED BY <2>2, <3>1 DEF Connected
  <2>3. CASE EmitNow \/ Heartbeat
    BY <2>1, <2>3 DEF EmitNow, Heartbeat
  <2>4. QED BY <2>2, <2>3
<1>3. /\ leaf' = leaf /\ up' = up /\ live' = live /\ marks' = marks /\ drops' = drops
      /\ pending' = pending /\ recovery' = recovery
      /\ lastState' = lastState /\ cached' = cached /\ row' = row
  BY DEF EmitNow, Heartbeat, Connected, relay, used
<1>4. up \in BOOLEAN
  BY DEF StreamInv, CountersOK
<1>5. /\ ids' \in Nat /\ ids <= ids'
      /\ {emitted', inFlight'} \subseteq 0 .. leaf /\ sender'.ver = inFlight'
      /\ \E ver2 \in [1 .. ids' + 1 -> Version] :
           /\ wire' \in Seq(Frame(leaf, ids', marks, ver2))
           /\ sender' = NoSender \/ SenderOf(sender', leaf, ids', up, ver2)
           /\ Agree(ver, ver2, ids)
      /\ \A a, b \in 0 .. leaf :
           Ordered(wire, NoSender, a, b) => Ordered(wire', sender', a, b)
      /\ \A p : up /\ Chained(wire, NoSender, p) => Chained(wire', sender', p)
      /\ up => \/ sender'.ver = leaf
               \/ \E i \in DOMAIN wire' : Closes(wire'[i], leaf)
  BY <1>1, <1>2, <1>4, EmitKeeps
<1>6. CountersOK'
  BY <1>2, <1>3, <1>5 DEF StreamInv, CountersOK
<1>7. WholeSnapshots'
  BY <1>3 DEF StreamInv, WholeSnapshots
<1>8. \E ver2 \in [1 .. ids' + 1 -> Version] : StreamsOK(ver2)'
  <2>1. PICK ver2 \in [1 .. ids' + 1 -> Version] :
           /\ wire' \in Seq(Frame(leaf, ids', marks, ver2))
           /\ sender' = NoSender \/ SenderOf(sender', leaf, ids', up, ver2)
           /\ Agree(ver, ver2, ids)
    BY <1>5
  <2>2. pending' = NoStream \/ (pending'.id \in 1 .. ids' /\ PartOf(pending', ver2[pending'.id]))
    <3>1. ids \in Nat
      BY DEF StreamInv, CountersOK
    <3>2. pending = NoStream \/ (pending.id \in 1 .. ids /\ PartOf(pending, ver[pending.id]))
      BY <1>1 DEF StreamsOK
    <3>3. PICK n \in Nat : n = ids' /\ ids <= n
      BY <1>5
    <3>4. ids <= n
      BY <3>3
    <3>5. \A i \in 1 .. ids : i \in 1 .. n
      BY <3>1, <3>4
    <3>6. \A i \in 1 .. ids : i \in 1 .. ids' /\ ver2[i] = ver[i]
      BY <2>1, <3>3, <3>5 DEF Agree
    <3>7. QED BY <1>3, <3>2, <3>6
  <2>3. QED BY <1>3, <2>1, <2>2 DEF StreamsOK
<1>9. OrderOK'
  <2>1. /\ VersionOf(lastState) \in 0 .. leaf /\ VersionOf(row) \in 0 .. leaf
        /\ Ordered(wire, NoSender, VersionOf(lastState), VersionOf(row))
    BY DEF StreamInv, OrderOK, Ordered
  <2>2. QED BY <1>3, <1>5, <2>1 DEF OrderOK
<1>10. up' /\ drops' = 0 => Chained(wire', sender', pending')
                            /\ Sent(wire, sender, emitted, lastState)'
  <2>1. up /\ drops = 0 => Chained(wire, NoSender, pending)
    BY DEF StreamInv, Chained
  <2>2. QED BY <1>3, <1>5, <2>1 DEF Sent
<1>11. QED BY <1>6, <1>7, <1>8, <1>9, <1>10 DEF StreamInv

\* sendNextChunk sends a slice of its version, or gives up.
LEMMA SendStep ==
  ASSUME StreamInv, SendChunk
  PROVE  StreamInv'
<1>. DEFINE f == Chunk(sender)
<1>1. PICK ver \in [1 .. ids + 1 -> Version] : StreamsOK(ver)
  BY DEF StreamInv
<1>. DEFINE F == Frame(leaf, ids, marks, ver)
<1>2. /\ leaf' = leaf /\ up' = up /\ live' = live /\ marks' = marks /\ drops' = drops
      /\ ids' = ids /\ signals' = signals
      /\ pending' = pending /\ recovery' = recovery
      /\ lastState' = lastState /\ cached' = cached /\ row' = row
      /\ sender # NoSender /\ wire' = IF up THEN Append(wire, f) ELSE wire
  BY DEF SendChunk, Forward, relay, used, NoSender
<1>3. /\ leaf \in Version /\ leaf \in Nat /\ ids \in Nat /\ marks \in Nat /\ up \in BOOLEAN
      /\ wire \in Seq(F) /\ SenderOf(sender, leaf, ids, up, ver)
      /\ emitted \in 0 .. leaf /\ inFlight \in 0 .. leaf /\ sender.ver = inFlight
  BY <1>1, <1>2, VersionsKnown DEF StreamInv, CountersOK, StreamsOK
<1>4. /\ sender.id \in 1 .. ids + 1 /\ sender.ver \in 1 .. leaf /\ sender.next \in Nat
      /\ sender.ver = ver[sender.id] /\ sender.next \in 1 .. Len(Boundaries[sender.ver])
      /\ up => sender.id <= ids
      /\ sender = [id |-> sender.id, ver |-> sender.ver, next |-> sender.next]
  BY <1>3 DEF SenderOf
<1>5. sender.ver \in Version /\ Len(Boundaries[sender.ver]) \in Nat
  BY <1>3, <1>4, VersionsKnown, BoundariesChain
<1>6. /\ f.kind = "chunk" /\ f.ver = sender.ver /\ f.id = sender.id /\ f.index = sender.next
      /\ f.final = (sender.next = Len(Boundaries[sender.ver]))
      /\ f = [kind |-> "chunk", ver |-> sender.ver, id |-> sender.id, index |-> sender.next,
              total |-> Len(Boundaries[sender.ver]), final |-> f.final]
      /\ f.final \in BOOLEAN
  BY DEF Chunk
<1>. HIDE DEF f
<1>7. up => f \in F
  <2>. DEFINE n == Len(Boundaries[sender.ver])
  <2>1. ASSUME up PROVE sender.id \in 1 .. ids
    BY <1>3, <1>4, <2>1
  <2>2. n \in Nat /\ sender.next \in 1 .. n /\ f.final = (sender.next = n) /\ f.total = n
    BY <1>4, <1>5, <1>6
  <2>3. f.ver = ver[f.id] /\ f.index \in 1 .. f.total /\ f.final = (f.index = f.total)
    BY <1>4, <1>6, <2>2
  <2>4. f.total = Len(Boundaries[f.ver])
    BY <1>6, <2>2
  <2>5. f = [kind |-> "chunk", ver |-> sender.ver, id |-> sender.id, index |-> sender.next,
             total |-> n, final |-> f.final]
    BY <1>6
  <2>. HIDE DEF n
  <2>6. up => f \in [kind : {"chunk"}, ver : 1 .. leaf, id : 1 .. ids, index : Nat, total : Nat,
                     final : BOOLEAN]
    BY <1>4, <1>6, <2>1, <2>2, <2>5
  <2>7. QED BY <2>3, <2>4, <2>6 DEF Frame
<1>8. wire' \in Seq(F)
  BY <1>2, <1>3, <1>7, AppendProperties
<1>9. \/ /\ up /\ ~f.final
         /\ sender' = [id |-> sender.id, ver |-> sender.ver, next |-> sender.next + 1]
         /\ inFlight' = inFlight /\ emitted' = emitted
      \/ /\ ~up \/ f.final
         /\ sender' = NoSender /\ inFlight' = 0
         /\ emitted' = IF up THEN sender.ver ELSE emitted
  BY <1>3, <1>4 DEF SendChunk, Finish, f
<1>10. sender' = NoSender \/ SenderOf(sender', leaf, ids, up, ver)
  <2>1. CASE up /\ ~f.final
    <3>1. sender.next + 1 \in 1 .. Len(Boundaries[sender.ver])
      <4>. DEFINE n == Len(Boundaries[sender.ver])
                  k == sender.next
      <4>1. n \in Nat /\ k \in 1 .. n /\ k # n
        BY <1>4, <1>5, <1>6, <2>1
      <4>. HIDE DEF n, k
      <4>2. k + 1 \in 1 .. n
        BY <4>1
      <4>3. QED BY <4>2 DEF n, k
    <3>2. QED BY <1>4, <1>9, <2>1, <3>1 DEF SenderOf
  <2>2. CASE ~(up /\ ~f.final)
    BY <1>9, <2>2
  <2>3. QED BY <2>1, <2>2
<1>11. CountersOK'
  <2>1. {emitted', inFlight'} \subseteq 0 .. leaf /\ sender'.ver = inFlight'
    BY <1>3, <1>4, <1>9 DEF NoSender
  <2>2. QED BY <1>2, <2>1 DEF StreamInv, CountersOK
<1>12. WholeSnapshots'
  BY <1>2 DEF StreamInv, WholeSnapshots
<1>13. StreamsOK(ver)'
  BY <1>1, <1>2, <1>8, <1>10 DEF StreamsOK
<1>. DEFINE a == VersionOf(lastState)
            b == VersionOf(row)
<1>14. a \in 0 .. leaf /\ b \in 0 .. leaf /\ Ordered(wire, sender, a, b)
  BY DEF StreamInv, OrderOK
<1>. HIDE DEF a, b, F
<1>15. Ordered(wire', sender', a, b)
  <2>1. sender' = NoSender \/ sender'.ver = f.ver
    BY <1>6, <1>9
  <2>2. CASE up
    <3>1. wire' = Append(wire, f) /\ f \in F
      BY <1>2, <1>7, <2>2
    <3>2. /\ \A i \in DOMAIN wire : wire[i].ver <= f.ver
          /\ a <= f.ver /\ b <= f.ver /\ a \in Nat /\ b \in Nat
      BY <1>2, <1>3, <1>6, <1>14 DEF Ordered
    <3>3. QED BY <1>3, <1>14, <2>1, <3>1, <3>2, OrderedAppend DEF F
  <2>3. CASE ~up
    BY <1>2, <1>9, <1>14, <2>3 DEF Ordered
  <2>4. QED BY <2>2, <2>3
<1>16. OrderOK'
  BY <1>2, <1>14, <1>15 DEF OrderOK, a, b
<1>17. ASSUME up, drops = 0
       PROVE  Chained(wire', sender', pending') /\ Sent(wire, sender, emitted, lastState)'
  <2>1. /\ Chained(wire, sender, pending) /\ Sent(wire, sender, emitted, lastState)
        /\ wire' = Append(wire, f) /\ f \in F
    BY <1>2, <1>7, <1>17 DEF StreamInv
  <2>2. sender' = NoSender \/ (sender'.id = sender.id /\ sender'.next = sender.next + 1)
    BY <1>9
  <2>3. Chained(wire', sender', pending)
    BY <1>2, <1>3, <1>6, <2>1, <2>2, ChainedChunk
  <2>4. /\ DOMAIN wire' = 1 .. Len(wire) + 1 /\ Len(wire) \in Nat /\ DOMAIN wire = 1 .. Len(wire)
        /\ \A i \in 1 .. Len(wire) : wire'[i] = wire[i]
        /\ wire'[Len(wire) + 1] = f
    BY <1>3, <2>1, AppendProperties, LenProperties
  <2>5. /\ \A i \in DOMAIN wire : i \in DOMAIN wire' /\ wire'[i] = wire[i]
        /\ Len(wire) + 1 \in DOMAIN wire'
    BY <2>4
  <2>6. CASE sender.ver = leaf /\ f.final
    <3>1. Closes(wire'[Len(wire) + 1], leaf)
      BY <1>6, <2>4, <2>6 DEF Closes
    <3>2. QED BY <1>2, <2>3, <2>5, <3>1 DEF Sent
  <2>7. CASE sender.ver = leaf /\ ~f.final
    <3>1. sender'.ver = leaf
      BY <1>9, <1>17, <2>7
    <3>2. QED BY <1>2, <2>3, <3>1 DEF Sent
  <2>8. CASE sender.ver # leaf
    <3>1. emitted' = leaf => emitted = leaf
      BY <1>9, <1>17, <2>8
    <3>2. QED BY <1>2, <2>1, <2>3, <2>5, <2>8, <3>1 DEF Sent
  <2>9. QED BY <2>6, <2>7, <2>8
<1>18. QED BY <1>1, <1>2, <1>11, <1>12, <1>13, <1>16, <1>17 DEF StreamInv
\* The conversation moves on: nothing that was sent is of the new version.
LEMMA LeafStep ==
  ASSUME StreamInv, NewLeaf
  PROVE  StreamInv'
<1>. DEFINE l == leaf + 1
<1>1. /\ leaf' = l /\ up' = up /\ live' = live /\ marks' = marks /\ drops' = drops
      /\ ids' = ids /\ signals' = signals /\ wire' = wire /\ sender' = sender
      /\ emitted' = emitted /\ inFlight' = inFlight
      /\ pending' = pending /\ recovery' = recovery
      /\ lastState' = lastState /\ cached' = cached /\ row' = row
  BY DEF NewLeaf, net, relay, used
<1>2. /\ leaf \in Nat /\ l \in Version /\ l \in Nat /\ leaf <= l
      /\ 0 .. leaf \subseteq 0 .. l /\ 1 .. leaf \subseteq 1 .. l /\ l \notin 0 .. leaf
  BY VersionsKnown DEF StreamInv, CountersOK, NewLeaf
<1>. HIDE DEF l
<1>3. CountersOK'
  <2>1. emitted \in 0 .. l /\ inFlight \in 0 .. l
    BY <1>2 DEF StreamInv, CountersOK
  <2>2. QED BY <1>1, <1>2, <2>1 DEF StreamInv, CountersOK
<1>4. WholeSnapshots'
  BY <1>1 DEF StreamInv, WholeSnapshots
<1>5. PICK ver \in [1 .. ids + 1 -> Version] : StreamsOK(ver)
  BY DEF StreamInv
<1>6. StreamsOK(ver)'
  <2>1. ids \in Nat /\ marks \in Nat /\ wire \in Seq(Frame(leaf, ids, marks, ver))
        /\ ids <= ids /\ marks <= marks
    BY <1>5 DEF StreamInv, CountersOK, StreamsOK
  <2>2. Agree(ver, ver, ids)
    BY DEF Agree
  <2>3. wire \in Seq(Frame(l, ids, marks, ver))
    BY <1>2, <2>1, <2>2, FramesGrow
  <2>4. SenderOf(sender, leaf, ids, up, ver) => SenderOf(sender, l, ids, up, ver)
    BY <1>2 DEF SenderOf
  <2>5. QED BY <1>1, <1>5, <2>3, <2>4 DEF StreamsOK
<1>7. OrderOK'
  <2>1. VersionOf(lastState) \in 0 .. l /\ VersionOf(row) \in 0 .. l
    BY <1>2 DEF StreamInv, OrderOK
  <2>2. QED BY <1>1, <2>1 DEF StreamInv, OrderOK
<1>8. up' /\ drops' = 0 => Chained(wire', sender', pending')
                           /\ Sent(wire, sender, emitted, lastState)'
  <2>1. emitted' # leaf'
    BY <1>1, <1>2 DEF StreamInv, CountersOK
  <2>2. QED BY <1>1, <2>1 DEF StreamInv, Sent
<1>9. QED BY <1>1, <1>3, <1>4, <1>5, <1>6, <1>7, <1>8 DEF StreamInv

-----------------------------------------------------------------------------
(* The steps of the connection.                                            *)

\* What was on the wire is lost, all or from some frame on.
LEMMA BreakStep ==
  ASSUME StreamInv, Cut \/ Crash
  PROVE  StreamInv'
<1>1. /\ leaf' = leaf /\ up' = FALSE /\ live' = live /\ marks' = marks /\ drops' = drops
      /\ ids' = ids /\ signals' = <<>> /\ sender' = sender
      /\ emitted' = emitted /\ inFlight' = inFlight
      /\ lastState' = lastState /\ cached' = cached /\ row' = row
      /\ \/ pending' = pending /\ recovery' = recovery
         \/ pending' = NoStream /\ recovery' = 0
      /\ \E k \in 0 .. Len(wire) : wire' = SubSeq(wire, 1, k)
  <2>1. CASE Cut
    BY <2>1 DEF Cut, cli, relay
  <2>2. CASE Crash
    <3>1. PICK ver : wire \in Seq(Frame(leaf, ids, marks, ver))
      BY DEF StreamInv, StreamsOK
    <3>2. 0 \in 0 .. Len(wire) /\ SubSeq(wire, 1, 0) = <<>>
      BY <3>1, LenProperties, SubSeqEmpty
    <3>3. QED BY <2>2, <3>2 DEF Crash, cli
  <2>3. QED BY <2>1, <2>2
<1>2. PICK ver \in [1 .. ids + 1 -> Version] : StreamsOK(ver)
  BY DEF StreamInv
<1>3. wire' \in Seq(Frame(leaf, ids, marks, ver))
      /\ Ordered(wire', sender, VersionOf(lastState), VersionOf(row))
  BY <1>1, <1>2, OrderedPrefix DEF StreamInv, OrderOK, StreamsOK
<1>4. CountersOK'
  <2>1. /\ recovery \in 0 .. marks /\ 0 \in 0 .. marks /\ <<>> \in Seq(1 .. marks)
        /\ NoStream = [id |-> NoStream.id, chunks |-> NoStream.chunks, total |-> NoStream.total,
                       final |-> NoStream.final, nonce |-> NoStream.nonce]
    BY EmptySeq DEF StreamInv, CountersOK, NoStream
  <2>2. QED BY <1>1, <2>1 DEF StreamInv, CountersOK
<1>5. WholeSnapshots'
  BY <1>1 DEF StreamInv, WholeSnapshots
<1>6. StreamsOK(ver)'
  <2>1. SenderOf(sender, leaf, ids, up, ver) => SenderOf(sender, leaf, ids, FALSE, ver)
    BY DEF SenderOf
  <2>2. QED BY <1>1, <1>2, <1>3, <2>1 DEF StreamsOK
<1>7. OrderOK'
  BY <1>1, <1>3 DEF StreamInv, OrderOK
<1>8. QED BY <1>1, <1>2, <1>4, <1>5, <1>6, <1>7 DEF StreamInv

\* What is persisted when the record ends is a whole version, and not newer
\* than what is to come.
LEMMA FlushKeeps ==
  ASSUME StreamInv, Flush
  PROVE  row' \in {row, lastState} /\ row' \in States /\ VersionOf(row') \in 0 .. leaf
BY DEF StreamInv, Flush, WholeSnapshots, OrderOK

\* The record ends.
LEMMA TeardownStep ==
  ASSUME StreamInv, Teardown
  PROVE  StreamInv'
<1>1. /\ leaf' = leaf /\ up' = up /\ live' = FALSE /\ marks' = marks /\ drops' = drops
      /\ ids' = ids /\ signals' = signals /\ wire' = wire /\ sender' = sender
      /\ emitted' = emitted /\ inFlight' = inFlight
      /\ recovery' = recovery /\ cached' = cached
      /\ ~up /\ wire = <<>> /\ lastState' = <<>> /\ pending' = NoStream
      /\ row' \in {row, lastState} /\ row' \in States /\ VersionOf(row') \in 0 .. leaf
  BY FlushKeeps DEF Teardown, cli, net, used
<1>2. CountersOK'
  <2>1. NoStream = [id |-> NoStream.id, chunks |-> NoStream.chunks, total |-> NoStream.total,
                    final |-> NoStream.final, nonce |-> NoStream.nonce]
    BY DEF NoStream
  <2>2. QED BY <1>1, <2>1 DEF StreamInv, CountersOK
<1>3. WholeSnapshots'
  BY <1>1 DEF StreamInv, WholeSnapshots, States
<1>4. PICK ver \in [1 .. ids + 1 -> Version] : StreamsOK(ver)
  BY DEF StreamInv
<1>5. StreamsOK(ver)'
  BY <1>1, <1>4 DEF StreamsOK
<1>6. OrderOK'
  <2>1. leaf \in Nat /\ VersionOf(<<>>) = 0 /\ 0 \in 0 .. leaf
    BY VersionsKnown DEF StreamInv, CountersOK
  <2>2. \A i \in DOMAIN wire : FALSE
    BY <1>1
  <2>3. ASSUME sender # NoSender
        PROVE  0 <= sender.ver /\ VersionOf(row') <= sender.ver
    <3>1. VersionOf(lastState) <= sender.ver /\ VersionOf(row) <= sender.ver
      BY <2>3 DEF StreamInv, OrderOK, Ordered
    <3>2. sender.ver \in 1 .. leaf
      BY <1>4, <2>3 DEF StreamsOK, SenderOf
    <3>3. QED BY <1>1, <2>1, <3>1, <3>2
  <2>4. Ordered(wire, sender, 0, VersionOf(row'))
    BY <2>2, <2>3 DEF Ordered
  <2>5. QED BY <1>1, <2>1, <2>4 DEF OrderOK
<1>7. QED BY <1>1, <1>2, <1>3, <1>4, <1>5, <1>6 DEF StreamInv

\* The session is registered over a new connection, and its snapshot sent.
LEMMA RegisterStep ==
  ASSUME StreamInv, Register
  PROVE  StreamInv'
<1>1. PICK ver \in [1 .. ids + 1 -> Version] : StreamsOK(ver)
  BY DEF StreamInv
<1>2. /\ leaf' = leaf /\ up' = TRUE /\ live' = TRUE /\ marks' = marks /\ drops' = drops
      /\ signals' = signals /\ recovery' = recovery /\ lastState' = <<>>
      /\ cached' \in {cached, <<>>} /\ pending' \in {pending, NoStream}
      /\ EmitActive(0, TRUE, <<>>)
      /\ row' \in {row, lastState} /\ row' \in States /\ VersionOf(row') \in 0 .. leaf
  BY FlushKeeps DEF Register, used
<1>3. 0 \in 0 .. marks /\ leaf \in Nat /\ VersionOf(<<>>) = 0 /\ 0 \in 0 .. leaf
  BY VersionsKnown DEF StreamInv, CountersOK
<1>4. /\ ids' \in Nat /\ ids <= ids'
      /\ {emitted', inFlight'} \subseteq 0 .. leaf /\ sender'.ver = inFlight'
      /\ \E ver2 \in [1 .. ids' + 1 -> Version] :
           /\ wire' \in Seq(Frame(leaf, ids', marks, ver2))
           /\ sender' = NoSender \/ SenderOf(sender', leaf, ids', TRUE, ver2)
           /\ Agree(ver, ver2, ids)
      /\ \A a, b \in 0 .. leaf :
           Ordered(<<>>, NoSender, a, b) => Ordered(wire', sender', a, b)
      /\ \A p : TRUE /\ Chained(<<>>, NoSender, p) => Chained(wire', sender', p)
      /\ TRUE => \/ sender'.ver = leaf
                 \/ \E i \in DOMAIN wire' : Closes(wire'[i], leaf)
  BY <1>1, <1>2, <1>3, EmitKeeps
<1>5. CountersOK'
  <2>1. NoStream = [id |-> NoStream.id, chunks |-> NoStream.chunks, total |-> NoStream.total,
                    final |-> NoStream.final, nonce |-> NoStream.nonce]
    BY DEF NoStream
  <2>2. pending' = [id |-> pending'.id, chunks |-> pending'.chunks, total |-> pending'.total,
                    final |-> pending'.final, nonce |-> pending'.nonce]
    BY <1>2, <2>1 DEF StreamInv, CountersOK
  <2>3. QED BY <1>2, <1>4, <2>2 DEF StreamInv, CountersOK
<1>6. WholeSnapshots'
  BY <1>2 DEF StreamInv, WholeSnapshots, States
<1>7. \E ver2 \in [1 .. ids' + 1 -> Version] : StreamsOK(ver2)'
  <2>1. PICK ver2 \in [1 .. ids' + 1 -> Version] :
           /\ wire' \in Seq(Frame(leaf, ids', marks, ver2))
           /\ sender' = NoSender \/ SenderOf(sender', leaf, ids', TRUE, ver2)
           /\ Agree(ver, ver2, ids)
    BY <1>4
  <2>2. pending' = NoStream \/ (pending'.id \in 1 .. ids' /\ PartOf(pending', ver2[pending'.id]))
    <3>1. ids \in Nat
      BY DEF StreamInv, CountersOK
    <3>2. pending = NoStream \/ (pending.id \in 1 .. ids /\ PartOf(pending, ver[pending.id]))
      BY <1>1 DEF StreamsOK
    <3>3. PICK n \in Nat : n = ids' /\ ids <= n
      BY <1>4
    <3>4. ids <= n
      BY <3>3
    <3>5. \A i \in 1 .. ids : i \in 1 .. n
      BY <3>1, <3>4
    <3>6. \A i \in 1 .. ids : i \in 1 .. ids' /\ ver2[i] = ver[i]
      BY <2>1, <3>3, <3>5 DEF Agree
    <3>7. QED BY <1>2, <3>2, <3>6
  <2>3. QED BY <1>2, <2>1, <2>2 DEF StreamsOK
<1>8. OrderOK'
  <2>1. Ordered(<<>>, NoSender, 0, VersionOf(row'))
    BY DEF Ordered
  <2>2. QED BY <1>2, <1>3, <1>4, <2>1 DEF OrderOK
<1>9. Chained(wire', sender', pending') /\ Sent(wire, sender, emitted, lastState)'
  <2>1. Chained(<<>>, NoSender, pending')
    BY DEF Chained
  <2>2. QED BY <1>2, <1>4, <2>1 DEF Sent
<1>10. QED BY <1>5, <1>6, <1>7, <1>8, <1>9 DEF StreamInv

\* A recovery is asked for, or its flag lapses.
LEMMA RecoveryStep ==
  ASSUME StreamInv, MarkRecovery \/ RecoveryLapse
  PROVE  StreamInv'
<1>0. marks \in Nat
  BY DEF StreamInv, CountersOK
<1>1. PICK m : /\ m \in {marks, marks + 1} /\ marks' = m
               /\ recovery' \in {0, m}
               /\ signals' \in {signals, Append(signals, m)}
               /\ m = marks => signals' = signals
  <2>1. CASE MarkRecovery
    <3>1. marks' = marks + 1 /\ recovery' = marks + 1
          /\ signals' \in {signals, Append(signals, marks + 1)}
      BY <2>1 DEF MarkRecovery
    <3>2. marks + 1 # marks
      BY <1>0
    <3>3. QED BY <3>1, <3>2
  <2>2. CASE RecoveryLapse
    BY <2>2 DEF RecoveryLapse, net, used
  <2>3. QED BY <2>1, <2>2
<1>2. /\ leaf' = leaf /\ up' = up /\ live' = live /\ drops' = drops
      /\ ids' = ids /\ wire' = wire /\ sender' = sender
      /\ emitted' = emitted /\ inFlight' = inFlight /\ pending' = pending
      /\ lastState' = lastState /\ cached' = cached /\ row' = row
  BY DEF MarkRecovery, RecoveryLapse, cli, net, used
<1>3. /\ m \in Nat /\ marks <= m /\ 0 \in 0 .. m /\ m \in 0 .. m /\ 1 .. marks \subseteq 1 .. m
      /\ (m # marks => m \in 1 .. m)
  <2>1. m \in {marks, marks + 1}
    BY <1>1
  <2>2. QED BY <1>0, <2>1
<1>4. CountersOK'
  <2>1. signals \in Seq(1 .. m)
    BY <1>3, SeqMonotonic DEF StreamInv, CountersOK
  <2>2. m # marks => Append(signals, m) \in Seq(1 .. m)
    BY <1>3, <2>1, AppendProperties
  <2>3. signals' \in Seq(1 .. m)
    BY <1>1, <2>1, <2>2
  <2>4. recovery' \in 0 .. m
    BY <1>1, <1>3
  <2>5. marks' = m
    BY <1>1
  <2>6. QED BY <1>2, <1>3, <2>3, <2>4, <2>5 DEF StreamInv, CountersOK
<1>5. WholeSnapshots'
  BY <1>2 DEF StreamInv, WholeSnapshots
<1>6. PICK ver \in [1 .. ids + 1 -> Version] : StreamsOK(ver)
  BY DEF StreamInv
<1>7. StreamsOK(ver)'
  <2>1. /\ leaf \in Nat /\ ids \in Nat /\ leaf <= leaf /\ ids <= ids
        /\ wire \in Seq(Frame(leaf, ids, marks, ver))
    BY <1>6, VersionsKnown DEF StreamInv, CountersOK, StreamsOK
  <2>2. Agree(ver, ver, ids)
    BY DEF Agree
  <2>3. wire \in Seq(Frame(leaf, ids, m, ver))
    BY <1>0, <1>3, <2>1, <2>2, FramesGrow
  <2>4. marks' = m
    BY <1>1
  <2>5. QED BY <1>2, <1>6, <2>3, <2>4 DEF StreamsOK
<1>8. OrderOK'
  BY <1>2 DEF StreamInv, OrderOK
<1>9. up' /\ drops' = 0 => Chained(wire', sender', pending')
                           /\ Sent(wire, sender, emitted, lastState)'
  BY <1>2 DEF StreamInv, Sent
<1>10. QED BY <1>2, <1>4, <1>5, <1>6, <1>7, <1>8, <1>9 DEF StreamInv
-----------------------------------------------------------------------------
(* The steps of the relay.                                                 *)

\* The frame that is taken next.
LEMMA FirstFrame ==
  ASSUME StreamInv, NEW ver \in [1 .. ids + 1 -> Version], StreamsOK(ver), wire # <<>>
  PROVE  /\ leaf \in Nat /\ ids \in Nat /\ marks \in Nat
         /\ wire \in Seq(Frame(leaf, ids, marks, ver))
         /\ Tail(wire) \in Seq(Frame(leaf, ids, marks, ver))
         /\ 1 \in DOMAIN wire /\ Head(wire) = wire[1]
         /\ wire[1] \in Frame(leaf, ids, marks, ver)
         /\ wire[1].ver \in 1 .. leaf /\ wire[1].ver \in Version
         /\ VersionOf(lastState) <= wire[1].ver /\ VersionOf(row) <= wire[1].ver
<1>1. /\ leaf \in Nat /\ ids \in Nat /\ marks \in Nat /\ leaf \in Version
      /\ wire \in Seq(Frame(leaf, ids, marks, ver))
  BY VersionsKnown DEF StreamInv, CountersOK, StreamsOK
<1>. DEFINE F == Frame(leaf, ids, marks, ver)
<1>. HIDE DEF F
<1>2. wire \in Seq(F)
  BY <1>1 DEF F
<1>3. /\ Tail(wire) \in Seq(F) /\ 1 \in DOMAIN wire /\ Head(wire) = wire[1] /\ wire[1] \in F
  BY <1>2, HeadTailProperties, LenProperties, EmptySeq
<1>4. wire[1].ver \in 1 .. leaf
  BY <1>1, <1>3, FrameFields DEF F
<1>5. wire[1].ver \in Version
  BY <1>1, <1>4, VersionsKnown
<1>6. VersionOf(lastState) <= wire[1].ver /\ VersionOf(row) <= wire[1].ver
  BY <1>3 DEF StreamInv, OrderOK, Ordered
<1>7. QED BY <1>1, <1>2, <1>3, <1>4, <1>5, <1>6 DEF F

\* What every arrival has in common: the first frame goes, and what is stored
\* instead of what there was is the version of that frame.
LEMMA ArrivalKeeps ==
  ASSUME StreamInv, NEW ver \in [1 .. ids + 1 -> Version], StreamsOK(ver),
         wire # <<>>, wire' = Tail(wire), UNCHANGED <<cli, up, signals, live, marks, ids>>,
         recovery' \in {0, recovery},
         lastState' \in {lastState, Content[wire[1].ver]},
         row' \in {row, Content[wire[1].ver]}, cached' \in {cached, Content[wire[1].ver]},
         \/ pending' = NoStream
         \/ /\ pending'.id \in 1 .. ids /\ PartOf(pending', ver[pending'.id])
            /\ pending' = [id |-> pending'.id, chunks |-> pending'.chunks,
                           total |-> pending'.total, final |-> pending'.final,
                           nonce |-> pending'.nonce],
         drops' \in Nat, drops' = 0 => drops = 0,
         up /\ drops' = 0 => /\ Ready(wire, sender, pending')
                             /\ Closes(wire[1], leaf) => lastState' = Content[leaf]
  PROVE  StreamInv'
<1>. DEFINE F == Frame(leaf, ids, marks, ver)
            v == wire[1].ver
<1>1. /\ leaf' = leaf /\ up' = up /\ live' = live /\ marks' = marks
      /\ ids' = ids /\ signals' = signals /\ sender' = sender
      /\ emitted' = emitted /\ inFlight' = inFlight
  BY DEF cli
<1>2. /\ wire \in Seq(F) /\ wire' \in Seq(F) /\ Head(wire) = wire[1]
      /\ leaf \in Nat /\ ids \in Nat /\ marks \in Nat
      /\ v \in 1 .. leaf /\ v \in Version
      /\ VersionOf(lastState) <= v
  BY FirstFrame
<1>3. Content[v] \in States /\ VersionOf(Content[v]) = v
  BY <1>2, VersionsKnown
<1>. HIDE DEF F
<1>4. CountersOK'
  <2>1. pending' = [id |-> pending'.id, chunks |-> pending'.chunks, total |-> pending'.total,
                    final |-> pending'.final, nonce |-> pending'.nonce]
    <3>1. NoStream = [id |-> NoStream.id, chunks |-> NoStream.chunks, total |-> NoStream.total,
                      final |-> NoStream.final, nonce |-> NoStream.nonce]
      BY DEF NoStream
    <3>2. QED BY <3>1
  <2>2. recovery' \in 0 .. marks
    BY <1>2 DEF StreamInv, CountersOK
  <2>3. QED BY <1>1, <2>1, <2>2 DEF StreamInv, CountersOK
<1>5. WholeSnapshots'
  BY <1>3 DEF StreamInv, WholeSnapshots
<1>6. StreamsOK(ver)'
  BY <1>1, <1>2 DEF StreamsOK, F
<1>7. OrderOK'
  <2>1. /\ VersionOf(lastState') \in {VersionOf(lastState), v}
        /\ VersionOf(row') \in {VersionOf(row), v}
    BY <1>3
  <2>2. /\ VersionOf(lastState') \in 0 .. leaf /\ VersionOf(row') \in 0 .. leaf
    BY <1>2, <2>1 DEF StreamInv, OrderOK
  <2>3. Ordered(wire, sender, VersionOf(lastState), VersionOf(row))
    BY DEF StreamInv, OrderOK
  <2>4. Ordered(Tail(wire), sender, VersionOf(lastState'), VersionOf(row'))
    BY <1>2, <2>1, <2>3, OrderedTail DEF F
  <2>5. QED BY <1>1, <2>2, <2>4 DEF OrderOK
<1>8. ASSUME up, drops' = 0
      PROVE  Chained(wire', sender', pending') /\ Sent(wire, sender, emitted, lastState)'
  <2>1. Chained(wire, sender, pending) /\ Sent(wire, sender, emitted, lastState)
    BY <1>8 DEF StreamInv
  <2>2. Chained(wire', sender, pending')
    BY <1>2, <1>8, <2>1, ChainedTail
  <2>3. lastState = Content[leaf] => lastState' = Content[leaf]
    <3>1. leaf \in Version /\ VersionOf(Content[leaf]) = leaf
      BY VersionsKnown DEF StreamInv, CountersOK
    <3>2. lastState = Content[leaf] => v = leaf
      BY <1>2, <3>1
    <3>3. QED BY <3>2
  <2>4. Sent(Tail(wire), sender, emitted, lastState')
    BY <1>2, <1>8, <2>1, <2>3, SentTail
  <2>5. QED BY <1>1, <2>2, <2>4 DEF Sent
<1>9. QED BY <1>1, <1>4, <1>5, <1>6, <1>7, <1>8 DEF StreamInv

\* An event that failed is counted.
LEMMA DropCounts ==
  ASSUME StreamInv, drops' = drops + 1
  PROVE  drops' \in Nat /\ drops' # 0
<1>1. PICK d : d = drops + 1
  OBVIOUS
<1>2. drops \in Nat
  BY DEF StreamInv, CountersOK
<1>3. d \in Nat /\ d # 0
  BY <1>1, <1>2
<1>4. QED BY <1>1, <1>3

\* An event is dropped, or a small snapshot arrives, or the head of a stream.
LEMMA ActiveStep ==
  ASSUME StreamInv, EventDropped \/ WholeArrives \/ HeadArrives
  PROVE  StreamInv'
<1>1. PICK ver \in [1 .. ids + 1 -> Version] : StreamsOK(ver)
  BY DEF StreamInv
<1>2. wire # <<>> /\ wire' = Tail(wire) /\ UNCHANGED <<cli, up, signals, live, marks, ids>>
  BY DEF EventDropped, WholeArrives, HeadArrives, NextEvent, relay, used
<1>3. drops \in Nat
  BY DEF StreamInv, CountersOK
<1>4. Head(wire) = wire[1] /\ wire[1] \in Frame(leaf, ids, marks, ver)
      /\ leaf \in Nat /\ ids \in Nat /\ marks \in Nat
  BY <1>1, <1>2, FirstFrame
<1>5. CASE EventDropped
  <2>1. /\ recovery' = recovery /\ lastState' = lastState /\ cached' = cached /\ row' = row
        /\ pending' = pending
    BY <1>5 DEF EventDropped, relay
  <2>2. drops' \in Nat /\ drops' # 0
    BY <1>5, DropCounts DEF EventDropped
  <2>3. \/ pending' = NoStream
        \/ /\ pending'.id \in 1 .. ids /\ PartOf(pending', ver[pending'.id])
           /\ pending' = [id |-> pending'.id, chunks |-> pending'.chunks,
                          total |-> pending'.total, final |-> pending'.final,
                          nonce |-> pending'.nonce]
    BY <1>1, <2>1 DEF StreamInv, CountersOK, StreamsOK
  <2>4. QED BY <1>1, <1>2, <2>1, <2>2, <2>3, ArrivalKeeps
<1>6. CASE WholeArrives
  <2>1. /\ wire[1].kind = "whole" /\ recovery' \in {0, recovery} /\ pending' = NoStream
        /\ \/ /\ lastState' = Content[wire[1].ver] /\ row' \in {row, Content[wire[1].ver]}
              /\ cached' = Content[wire[1].ver] /\ drops' = drops
           \/ drops' = drops + 1 /\ lastState' = lastState /\ row' = row /\ cached' = cached
    BY <1>4, <1>6 DEF WholeArrives, NextEvent, Consume, Update
  <2>2. drops' \in Nat /\ (drops' = 0 => drops = 0 /\ lastState' = Content[wire[1].ver])
    BY <1>3, <2>1, DropCounts
  <2>3. Ready(wire, sender, pending')
    BY <2>1 DEF Ready, Follows
  <2>4. drops' = 0 => (Closes(wire[1], leaf) => lastState' = Content[leaf])
    BY <2>2 DEF Closes
  <2>5. QED BY <1>1, <1>2, <2>1, <2>2, <2>3, <2>4, ArrivalKeeps
<1>7. CASE HeadArrives
  <2>1. /\ wire[1].kind = "head"
        /\ pending' = [id |-> wire[1].id, chunks |-> <<>>, total |-> 0, final |-> FALSE,
                       nonce |-> wire[1].nonce]
        /\ recovery' = recovery /\ lastState' = lastState /\ cached' = cached /\ row' = row
        /\ drops' = drops
    BY <1>4, <1>7 DEF HeadArrives, NextEvent, NoStream, used
  <2>2. DOMAIN pending'.chunks = {} /\ pending'.id = wire[1].id /\ pending'.id \in 1 .. ids
    BY <1>4, <2>1, FrameFields
  <2>3. PartOf(pending', ver[pending'.id])
    BY <2>1, <2>2 DEF PartOf
  <2>4. pending' = [id |-> pending'.id, chunks |-> pending'.chunks, total |-> pending'.total,
                    final |-> pending'.final, nonce |-> pending'.nonce]
    BY <2>1
  <2>5. Ready(wire, sender, pending')
    <3>1. 1 .. 1 - 1 = {}
      OBVIOUS
    <3>2. QED BY <2>1, <2>2, <3>1 DEF Ready, Follows, Awaits
  <2>6. ~Closes(wire[1], leaf)
    BY <2>1 DEF Closes
  <2>7. QED BY <1>1, <1>2, <1>3, <2>1, <2>2, <2>3, <2>4, <2>5, <2>6, ArrivalKeeps
<1>8. QED BY <1>5, <1>6, <1>7
\* A chunk that nothing is missing before is the next of the relay's stream;
\* with the final one the stream is whole.
LEMMA NextChunk ==
  ASSUME StreamInv, up, drops = 0, NEW ver \in [1 .. ids + 1 -> Version], StreamsOK(ver),
         wire # <<>>, wire[1].kind = "chunk"
  PROVE  LET p == Applied(pending, wire[1])
             f == wire[1]
         IN  /\ Matches(pending, f) /\ p.id = f.id
             /\ DOMAIN p.chunks = 1 .. f.index
             /\ CanFinalize(p) <=> f.final
<1>. DEFINE f == wire[1]
            p == Applied(pending, f)
<1>1. /\ leaf \in Nat /\ ids \in Nat /\ marks \in Nat /\ 1 \in DOMAIN wire
      /\ f \in Frame(leaf, ids, marks, ver) /\ f.ver \in Version
  BY FirstFrame
<1>2. /\ f.id \in 1 .. ids /\ f.ver = ver[f.id]
      /\ f.index \in 1 .. f.total /\ f.total = Len(Boundaries[f.ver])
      /\ f.index \in Nat /\ f.total \in Nat /\ f.final = (f.index = f.total)
  BY <1>1, FrameFields
<1>3. pending.id = f.id /\ DOMAIN pending.chunks = 1 .. f.index - 1
  <2>1. Complete(wire, 1 - 1, pending, f.id, f.index)
    BY <1>1 DEF StreamInv, Chained
  <2>2. QED BY <2>1 DEF Complete, Awaits
<1>. HIDE DEF f
<1>4. pending # NoStream
  BY <1>2, <1>3 DEF NoStream
<1>5. /\ PartOf(pending, f.ver)
      /\ pending = [id |-> pending.id, chunks |-> pending.chunks, total |-> pending.total,
                    final |-> pending.final, nonce |-> pending.nonce]
  BY <1>2, <1>3, <1>4 DEF StreamInv, CountersOK, StreamsOK
<1>6. /\ PartOf(p, f.ver) /\ p.id = pending.id
      /\ DOMAIN p.chunks = DOMAIN pending.chunks \cup {f.index}
      /\ p.final = (pending.final \/ f.final)
  BY <1>1, <1>2, <1>5, AppliedIsPart
<1>. HIDE DEF p
<1>7. DOMAIN p.chunks = 1 .. f.index
  BY <1>2, <1>3, <1>6
<1>8. p.total = f.total
  BY <1>2, <1>7, <1>6 DEF PartOf
<1>9. CanFinalize(p) => f.final
  <2>1. 1 .. f.total \subseteq 1 .. f.index => f.index = f.total
    <3>. DEFINE n == f.total
                k == f.index
    <3>1. n \in Nat /\ k \in Nat /\ k \in 1 .. n
      BY <1>2
    <3>. HIDE DEF n, k
    <3>2. n \in 1 .. n
      BY <3>1
    <3>3. n \in 1 .. k => k = n
      BY <3>1
    <3>4. QED BY <3>2, <3>3 DEF n, k
  <2>2. QED BY <1>2, <1>7, <1>8, <2>1 DEF CanFinalize
<1>10. f.final => CanFinalize(p)
  BY <1>2, <1>6, <1>7, <1>8 DEF CanFinalize
<1>11. QED BY <1>3, <1>6, <1>7, <1>9, <1>10 DEF Matches, f, p

\* chunk: an event of another stream is ignored; else the slice is added, and
\* a whole stream finalized.
LEMMA ChunkStep ==
  ASSUME StreamInv, ChunkArrives
  PROVE  StreamInv'
<1>. DEFINE f == wire[1]
            p == Applied(pending, f)
            v == f.ver
<1>1. PICK ver \in [1 .. ids + 1 -> Version] : StreamsOK(ver)
  BY DEF StreamInv
<1>2. wire # <<>> /\ wire' = Tail(wire) /\ UNCHANGED <<cli, up, signals, live, marks, ids>>
  BY DEF ChunkArrives, NextEvent
<1>3. /\ Head(wire) = f /\ f \in Frame(leaf, ids, marks, ver) /\ v \in Version
      /\ leaf \in Nat /\ ids \in Nat /\ marks \in Nat /\ 1 \in DOMAIN wire
      /\ wire \in Seq(Frame(leaf, ids, marks, ver))
  BY <1>1, <1>2, FirstFrame
<1>4. f.kind = "chunk"
  BY <1>3 DEF ChunkArrives, NextEvent
<1>5. /\ f.id \in 1 .. ids /\ f.ver = ver[f.id]
      /\ f.index \in 1 .. f.total /\ f.total = Len(Boundaries[v])
      /\ f.index \in Nat /\ f.total \in Nat /\ f.final = (f.index = f.total)
  <2>. HIDE DEF f
  <2>1. /\ f.id \in 1 .. ids /\ f.ver = ver[f.id]
        /\ f.index \in 1 .. f.total /\ f.total = Len(Boundaries[f.ver])
        /\ f.index \in Nat /\ f.total \in Nat /\ f.final = (f.index = f.total)
    BY <1>3, <1>4, FrameFields
  <2>2. QED BY <2>1 DEF v
<1>6. drops \in Nat
  BY DEF StreamInv, CountersOK
<1>7. \/ /\ ~Matches(pending, f)
         /\ UNCHANGED <<pending, recovery, lastState, cached, row, drops>>
      \/ /\ Matches(pending, f) /\ CanFinalize(p) /\ Finalize(p)
      \/ /\ Matches(pending, f) /\ ~CanFinalize(p)
         /\ pending' = p /\ UNCHANGED <<recovery, lastState, cached, row, drops>>
  BY <1>3 DEF ChunkArrives
<1>. HIDE DEF p, v
<1>8. ASSUME up, drops = 0
      PROVE  /\ Matches(pending, f) /\ p.id = f.id
             /\ DOMAIN p.chunks = 1 .. f.index
             /\ CanFinalize(p) <=> f.final
  BY <1>1, <1>2, <1>4, <1>8, NextChunk DEF p
<1>9. Closes(f, leaf) => f.final /\ v = leaf
  BY <1>4 DEF Closes, v
<1>10. CASE ~Matches(pending, f)
  <2>1. /\ pending' = pending /\ recovery' = recovery /\ lastState' = lastState
        /\ cached' = cached /\ row' = row /\ drops' = drops
    BY <1>7, <1>10
  <2>2. \/ pending' = NoStream
        \/ /\ pending'.id \in 1 .. ids /\ PartOf(pending', ver[pending'.id])
           /\ pending' = [id |-> pending'.id, chunks |-> pending'.chunks,
                          total |-> pending'.total, final |-> pending'.final,
                          nonce |-> pending'.nonce]
    BY <1>1, <2>1 DEF StreamInv, CountersOK, StreamsOK
  <2>3. ~(up /\ drops' = 0)
    BY <1>8, <1>10, <2>1
  <2>4. QED BY <1>1, <1>2, <1>6, <2>1, <2>2, <2>3, ArrivalKeeps
<1>11. CASE Matches(pending, f)
  <2>1. pending.id = f.id /\ pending # NoStream
    BY <1>5, <1>11 DEF Matches, NoStream
  <2>2. /\ PartOf(pending, v)
        /\ pending = [id |-> pending.id, chunks |-> pending.chunks, total |-> pending.total,
                      final |-> pending.final, nonce |-> pending.nonce]
    BY <1>1, <1>5, <2>1 DEF StreamInv, CountersOK, StreamsOK, v
  <2>3. /\ PartOf(p, v) /\ p.id = f.id
        /\ p = [id |-> p.id, chunks |-> p.chunks, total |-> p.total, final |-> p.final,
                nonce |-> p.nonce]
    BY <1>3, <1>5, <2>1, <2>2, AppliedIsPart DEF p, v
  <2>4. /\ p.id \in 1 .. ids /\ PartOf(p, ver[p.id])
    BY <1>5, <2>3 DEF v
  <2>5. ASSUME up, drops = 0, ~f.final
        PROVE  Ready(wire, sender, p)
    <3>1. p.id = f.id /\ DOMAIN p.chunks = 1 .. f.index
      BY <1>8, <2>5
    <3>2. \A d, k : Follows(f, d, k) => d = f.id /\ k = f.index + 1
      BY <1>4 DEF Follows
    <3>3. (f.index + 1) - 1 = f.index
      BY <1>5
    <3>4. QED BY <3>1, <3>2, <3>3 DEF Ready, Awaits
  <2>6. ASSUME f.final, NEW q
        PROVE  Ready(wire, sender, q)
    <3>1. \A d, k : Follows(f, d, k) => d = f.id /\ k = f.total + 1
      BY <1>4, <1>5, <2>6 DEF Follows
    <3>2. \A k : k = f.total + 1 => k \notin 1 .. f.total
      BY <1>5
    <3>3. ASSUME NEW j \in DOMAIN wire, wire[j].kind = "chunk"
          PROVE  ~Follows(f, wire[j].id, wire[j].index)
      <4>1. wire[j] \in Frame(leaf, ids, marks, ver)
        BY <1>3, ElementOfSeq, LenProperties
      <4>2. wire[j].ver = ver[wire[j].id] /\ wire[j].index \in 1 .. Len(Boundaries[wire[j].ver])
        BY <1>3, <3>3, <4>1, FrameFields
      <4>3. QED BY <1>5, <3>1, <3>2, <4>2 DEF v
    <3>4. ASSUME sender # NoSender
          PROVE  ~Follows(f, sender.id, sender.next)
      <4>1. sender.ver = ver[sender.id] /\ sender.next \in 1 .. Len(Boundaries[sender.ver])
        BY <1>1, <3>4 DEF StreamsOK, SenderOf
      <4>2. QED BY <1>5, <3>1, <3>2, <4>1 DEF v
    <3>5. QED BY <3>3, <3>4 DEF Ready
  <2>7. CASE ~CanFinalize(p)
    <3>1. /\ pending' = p /\ recovery' = recovery /\ lastState' = lastState
          /\ cached' = cached /\ row' = row /\ drops' = drops
      BY <1>7, <1>11, <2>7
    <3>2. up /\ drops' = 0 => ~f.final
      BY <1>8, <2>7, <3>1
    <3>3. up /\ drops' = 0 => /\ Ready(wire, sender, pending')
                              /\ Closes(wire[1], leaf) => lastState' = Content[leaf]
      BY <1>9, <2>5, <3>1, <3>2
    <3>4. \/ pending' = NoStream
          \/ /\ pending'.id \in 1 .. ids /\ PartOf(pending', ver[pending'.id])
             /\ pending' = [id |-> pending'.id, chunks |-> pending'.chunks,
                            total |-> pending'.total, final |-> pending'.final,
                            nonce |-> pending'.nonce]
      BY <2>3, <2>4, <3>1
    <3>. HIDE DEF f
    <3>5. QED BY <1>1, <1>2, <1>6, <3>1, <3>3, <3>4, ArrivalKeeps
  <2>8. CASE CanFinalize(p)
    <3>1. Assembled(p) = Content[v]
      BY <1>3, <2>3, <2>8, FinalizedIsWhole DEF v
    <3>2. /\ recovery' \in {0, recovery}
          /\ \/ /\ lastState' = Content[v] /\ row' \in {row, Content[v]}
                /\ cached' = Content[v] /\ pending' = NoStream /\ drops' = drops
             \/ /\ drops' = drops + 1 /\ pending' = p /\ cached' = cached
                /\ lastState' \in {lastState, Content[v]} /\ row' \in {row, Content[v]}
      BY <1>7, <1>11, <2>8, <3>1 DEF Finalize, Consume, Update
    <3>3. drops' \in Nat /\ (drops' = 0 => drops = 0 /\ lastState' = Content[v])
      BY <1>6, <3>2, DropCounts
    <3>4. \/ pending' = NoStream
          \/ /\ pending'.id \in 1 .. ids /\ PartOf(pending', ver[pending'.id])
             /\ pending' = [id |-> pending'.id, chunks |-> pending'.chunks,
                            total |-> pending'.total, final |-> pending'.final,
                            nonce |-> pending'.nonce]
      BY <2>3, <2>4, <3>2
    <3>5. up /\ drops' = 0 => /\ Ready(wire, sender, pending')
                              /\ Closes(wire[1], leaf) => lastState' = Content[leaf]
      BY <1>8, <1>9, <2>6, <2>8, <3>3
    <3>6. /\ lastState' \in {lastState, Content[wire[1].ver]}
          /\ row' \in {row, Content[wire[1].ver]} /\ cached' \in {cached, Content[wire[1].ver]}
      BY <3>2 DEF v
    <3>7. QED BY <1>1, <1>2, <3>2, <3>3, <3>4, <3>5, <3>6, ArrivalKeeps
  <2>9. QED BY <2>7, <2>8
<1>12. QED BY <1>10, <1>11

-----------------------------------------------------------------------------
(* The theorems.                                                           *)

\* A worker that begins has sent nothing, and the relay holds nothing of it.
LEMMA StreamInit ==
  ASSUME Init
  PROVE  StreamInv
<1>1. /\ 1 \in Version /\ VersionOf(<<>>) = 0 /\ <<>> \in States
  BY VersionsKnown DEF States
<1>2. CountersOK
  <2>1. /\ leaf = 1 /\ ids = 0 /\ marks = 0 /\ drops = 0 /\ emitted = 0 /\ inFlight = 0
        /\ sender.ver = 0 /\ up = FALSE /\ live = FALSE /\ recovery = 0 /\ signals = <<>>
    BY DEF Init, NoSender
  <2>2. pending = [id |-> pending.id, chunks |-> pending.chunks, total |-> pending.total,
                   final |-> pending.final, nonce |-> pending.nonce]
    BY DEF Init, NoStream
  <2>3. signals \in Seq(1 .. marks)
    BY <2>1, EmptySeq
  <2>4. {emitted, inFlight} \subseteq 0 .. leaf /\ recovery \in 0 .. marks
    BY <2>1
  <2>5. QED BY <1>1, <2>1, <2>2, <2>3, <2>4 DEF CountersOK
<1>3. WholeSnapshots
  BY <1>1 DEF Init, WholeSnapshots
<1>4. \E ver \in [1 .. ids + 1 -> Version] : StreamsOK(ver)
  <2>. DEFINE ver == [i \in 1 .. ids + 1 |-> 1]
  <2>1. ver \in [1 .. ids + 1 -> Version]
    BY <1>1
  <2>. HIDE DEF ver
  <2>2. StreamsOK(ver)
    BY <2>1, EmptySeq DEF Init, StreamsOK
  <2>3. QED BY <2>1, <2>2
<1>5. OrderOK
  BY <1>1 DEF Init, OrderOK, Ordered
<1>6. Chained(wire, sender, pending) /\ Sent(wire, sender, emitted, lastState)
  BY DEF Init, Chained, Sent
<1>7. QED BY <1>2, <1>3, <1>4, <1>5, <1>6 DEF StreamInv

\* Every step keeps the invariant.
LEMMA StreamStep ==
  ASSUME StreamInv, [Next]_vars
  PROVE  StreamInv'
<1>1. CASE UNCHANGED vars
  <2>1. /\ leaf' = leaf /\ up' = up /\ live' = live /\ marks' = marks /\ drops' = drops
        /\ ids' = ids /\ signals' = signals /\ wire' = wire /\ sender' = sender
        /\ emitted' = emitted /\ inFlight' = inFlight
        /\ pending' = pending /\ recovery' = recovery
        /\ lastState' = lastState /\ cached' = cached /\ row' = row
    BY <1>1 DEF vars, cli, net, relay, used
  <2>2. CountersOK' /\ WholeSnapshots' /\ OrderOK'
    BY <2>1 DEF StreamInv, CountersOK, WholeSnapshots, OrderOK
  <2>3. PICK ver \in [1 .. ids + 1 -> Version] : StreamsOK(ver)
    BY DEF StreamInv
  <2>4. StreamsOK(ver)'
    BY <2>1, <2>3 DEF StreamsOK
  <2>5. up' /\ drops' = 0 => Chained(wire', sender', pending')
                             /\ Sent(wire, sender, emitted, lastState)'
    BY <2>1 DEF StreamInv, Sent
  <2>6. QED BY <2>1, <2>2, <2>3, <2>4, <2>5 DEF StreamInv
<1>2. CASE Next
  BY <1>2, EmitStep, SendStep, LeafStep, BreakStep, TeardownStep, RegisterStep, RecoveryStep,
     ActiveStep, ChunkStep
     DEF Next, Process
<1>3. QED BY <1>1, <1>2

\* The inductive invariant holds: one version for each stream id, in the order in
\* which chunked-delivery.ts sends and event-pipeline.ts assembles.
THEOREM StreamInvariant == Spec => []StreamInv
<1>1. Init => StreamInv
  BY StreamInit
<1>2. StreamInv /\ [Next]_vars => StreamInv'
  BY StreamStep
<1>3. QED BY <1>1, <1>2, PTL DEF Spec

\* Every variable has its type, no chunk on the wire is empty, and none is over the
\* byte limit but a message that truncation left so (chunked-delivery.ts), whatever
\* the messages' sizes are and whatever truncation leaves of them.
THEOREM StreamTypeCorrect == Spec => []StreamTypeOK
<1>1. ASSUME StreamInv PROVE StreamTypeOK
  <2>1. PICK ver \in [1 .. ids + 1 -> Version] : StreamsOK(ver)
    BY <1>1 DEF StreamInv
  <2>2. /\ leaf \in Nat /\ leaf \in Version /\ ids \in Nat /\ marks \in Nat
        /\ {emitted, inFlight} \subseteq 0 .. leaf /\ sender.ver = inFlight
        /\ up \in BOOLEAN /\ live \in BOOLEAN
        /\ recovery \in 0 .. marks /\ signals \in Seq(1 .. marks)
    BY <1>1, VersionsKnown DEF StreamInv, CountersOK
  <2>3. ASSUME NEW i \in DOMAIN wire
        PROVE  /\ wire[i].kind \in {"whole", "head", "chunk"} /\ wire[i].ver \in 1 .. leaf
               /\ wire[i].kind = "chunk" =>
                    /\ SliceBytes(wire[i].ver, wire[i].index) \in Nat \ {0}
                    /\ \/ SliceBytes(wire[i].ver, wire[i].index) <= CHUNK_BYTE_LIMIT
                       \/ LoneOversized(wire[i].ver, wire[i].index)
    <3>1. wire[i] \in Frame(leaf, ids, marks, ver)
      BY <2>1, LenProperties, ElementOfSeq DEF StreamsOK
    <3>2. /\ wire[i].kind \in {"whole", "head", "chunk"} /\ wire[i].ver \in 1 .. leaf
          /\ wire[i].kind = "chunk" => wire[i].index \in 1 .. Len(Boundaries[wire[i].ver])
      BY <2>2, <3>1, FrameFields
    <3>3. wire[i].ver \in Version
      BY <2>2, <3>2, VersionsKnown
    <3>4. QED BY <3>2, <3>3, SliceBytesBound
  <2>4. sender.id # 0 => sender.next \in DOMAIN Boundaries[inFlight]
    <3>1. SUFFICES ASSUME sender.id # 0 PROVE sender.next \in DOMAIN Boundaries[inFlight]
      OBVIOUS
    <3>2. /\ sender.next \in 1 .. Len(Boundaries[sender.ver]) /\ sender.ver \in 1 .. leaf
      BY <2>1, <3>1 DEF StreamsOK, SenderOf, NoSender
    <3>3. sender.ver \in Version
      BY <2>2, <3>2, VersionsKnown
    <3>4. DOMAIN Boundaries[sender.ver] = 1 .. Len(Boundaries[sender.ver])
      BY <3>3, BoundariesChain, LenProperties
    <3>5. QED BY <2>2, <3>2, <3>4
  <2>5. pending.id \in 0 .. ids /\ DOMAIN pending.chunks \subseteq 1 .. pending.total
    <3>1. CASE pending = NoStream
      BY <2>2, <3>1 DEF NoStream
    <3>2. CASE pending # NoStream
      <4>1. pending.id \in 1 .. ids /\ PartOf(pending, ver[pending.id])
        BY <2>1, <3>2 DEF StreamsOK
      <4>2. DOMAIN pending.chunks \subseteq 1 .. pending.total
        BY <4>1 DEF PartOf
      <4>3. QED BY <2>2, <4>1, <4>2
    <3>3. QED BY <3>1, <3>2
  <2>6. QED BY <2>2, <2>3, <2>4, <2>5 DEF StreamTypeOK
<1>2. QED BY <1>1, StreamInvariant, PTL

\* Nothing durable holds part of a transcript or a mixture of two, however a
\* transcript is cut and whichever events of its stream are lost
\* (event-pipeline.ts).
THEOREM SnapshotsAreWhole == Spec => []WholeSnapshots
<1>1. StreamInv => WholeSnapshots
  BY DEF StreamInv
<1>2. QED BY <1>1, StreamInvariant, PTL

\* While the heartbeat keeps silent because "nothing changed", the relay has the
\* transcript or is about to receive it (messagesChangedSinceLastEmit), unless
\* it has failed to process an event.
THEOREM CleanIsCovered == Spec => []CleanMeansCovered
<1>1. ASSUME StreamInv PROVE CleanMeansCovered
  <2>1. SUFFICES ASSUME up, ~Changed, drops = 0
                 PROVE  \/ lastState = Content[leaf]
                        \/ sender.ver = leaf
                        \/ \E i \in DOMAIN wire : wire[i].ver = leaf
    BY DEF CleanMeansCovered
  <2>2. leaf = inFlight \/ leaf = emitted
    BY <2>1 DEF Changed
  <2>3. sender.ver = inFlight /\ Sent(wire, sender, emitted, lastState)
    BY <1>1, <2>1 DEF StreamInv, CountersOK
  <2>4. QED BY <2>2, <2>3 DEF Sent, Closes
<1>2. QED BY <1>1, StreamInvariant, PTL

\* A step of the relay takes a whole transcript that is not older than what is
\* stored, ends the record after persisting it, or leaves both copies alone.
LEMMA StoreStep ==
  ASSUME StreamInv, [Next]_vars
  PROVE  [Store!Next]_(Store!store)
<1>. DEFINE a == VersionOf(lastState)
            b == VersionOf(row)
            kept == lastState' = lastState /\ row' = row
<1>1. kept => UNCHANGED Store!store
  BY DEF Store!store
<1>2. PICK ver \in [1 .. ids + 1 -> Version] : StreamsOK(ver)
  BY DEF StreamInv
<1>3. ASSUME wire # <<>>, lastState' = Content[wire[1].ver], row' \in {row, Content[wire[1].ver]}
      PROVE  Store!Next
  <2>1. wire[1].ver \in Version /\ a <= wire[1].ver /\ b <= wire[1].ver
    BY <1>2, <1>3, FirstFrame
  <2>2. VersionOf(Content[wire[1].ver]) = wire[1].ver
    BY <2>1, VersionsKnown
  <2>3. Store!Take(wire[1].ver)
    BY <1>3, <2>1, <2>2 DEF Store!Take
  <2>4. QED BY <2>1, <2>3 DEF Store!Next
<1>4. ASSUME Teardown \/ Register PROVE Store!Next
  <2>1. Flush /\ lastState' = <<>>
    BY <1>4 DEF Teardown, Register
  <2>2. lastState = <<>> <=> VersionOf(lastState) = 0
    <3>1. lastState \in States /\ \A v \in Version : v # 0
      BY VersionsKnown DEF StreamInv, WholeSnapshots
    <3>2. QED BY <3>1, VersionsKnown DEF States
  <2>3. VersionOf(lastState') = 0
        /\ VersionOf(row') = IF a = 0 THEN b ELSE a
    BY <2>1, <2>2, VersionsKnown DEF Flush
  <2>4. Store!Close
    BY <2>3 DEF Store!Close
  <2>5. QED BY <2>4 DEF Store!Next
<1>5. ASSUME WholeArrives PROVE Store!Next \/ kept
  <2>1. wire # <<>> /\ Head(wire) = wire[1]
    BY <1>2, <1>5, FirstFrame DEF WholeArrives, NextEvent
  <2>2. \/ lastState' = Content[wire[1].ver] /\ row' \in {row, Content[wire[1].ver]}
        \/ kept
    BY <1>5, <2>1 DEF WholeArrives, Update
  <2>3. QED BY <1>3, <2>1, <2>2
<1>6. ASSUME ChunkArrives PROVE Store!Next \/ kept
  <2>. DEFINE f == wire[1]
              p == Applied(pending, f)
  <2>1. /\ wire # <<>> /\ Head(wire) = f /\ f.kind = "chunk"
        /\ f \in Frame(leaf, ids, marks, ver) /\ f.ver \in Version
        /\ leaf \in Nat /\ ids \in Nat /\ marks \in Nat
    BY <1>2, <1>6, FirstFrame DEF ChunkArrives, NextEvent
  <2>2. kept \/ (Matches(pending, f) /\ CanFinalize(p) /\ Finalize(p))
    BY <1>6, <2>1 DEF ChunkArrives
  <2>3. ASSUME Matches(pending, f), CanFinalize(p) PROVE Assembled(p) = Content[f.ver]
    <3>1. /\ f.id \in 1 .. ids /\ f.ver = ver[f.id]
          /\ f.index \in 1 .. f.total /\ f.total = Len(Boundaries[f.ver])
      BY <2>1, FrameFields
    <3>2. pending.id = f.id /\ pending # NoStream
      BY <2>3, <3>1 DEF Matches, NoStream
    <3>3. /\ PartOf(pending, f.ver)
          /\ pending = [id |-> pending.id, chunks |-> pending.chunks, total |-> pending.total,
                        final |-> pending.final, nonce |-> pending.nonce]
      BY <1>2, <3>1, <3>2 DEF StreamInv, CountersOK, StreamsOK
    <3>4. PartOf(p, f.ver)
      BY <2>1, <3>1, <3>3, AppliedIsPart
    <3>. HIDE DEF p
    <3>5. QED BY <2>1, <2>3, <3>4, FinalizedIsWhole
  <2>. HIDE DEF p
  <2>4. Matches(pending, f) /\ CanFinalize(p) /\ Finalize(p)
          => \/ lastState' = Content[f.ver] /\ row' \in {row, Content[f.ver]}
             \/ kept
    BY <2>3 DEF Finalize, Update
  <2>5. QED BY <1>3, <2>1, <2>2, <2>4
<1>7. ASSUME \/ NewLeaf \/ EmitNow \/ Heartbeat \/ Connected \/ SendChunk \/ Cut \/ Crash
             \/ MarkRecovery \/ RecoveryLapse \/ HeadArrives \/ EventDropped \/ UNCHANGED vars
      PROVE  kept
  BY <1>7 DEF NewLeaf, EmitNow, Heartbeat, Connected, SendChunk, Cut, Crash, MarkRecovery,
              RecoveryLapse, HeadArrives, EventDropped, vars, relay
<1>. HIDE DEF kept
<1>8. QED BY <1>1, <1>4, <1>5, <1>6, <1>7 DEF Next, Process

\* The relay's copies behave as SnapshotStore: chunks, superseded streams,
\* reconnects, recoveries and crashes do not show in them.
THEOREM StreamImplementsStore == Spec => ImplementsStore
<1>1. Init => Store!Init
  BY VersionsKnown DEF Init, Store!Init
<1>2. StreamInv /\ [Next]_vars => [Store!Next]_(Store!store)
  BY StoreStep
<1>3. QED BY <1>1, <1>2, StreamInvariant, PTL DEF Spec, Store!Spec, ImplementsStore
=============================================================================
