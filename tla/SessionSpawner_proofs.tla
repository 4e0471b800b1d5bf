----------------------- MODULE SessionSpawner_proofs -----------------------
(***************************************************************************)
(* Proofs about SessionSpawner, for every bound: type correctness, that    *)
(* one worker runs at a time, of those the daemon has not lost track of,   *)
(* that a killed worker is not started again and that attachments are kept *)
(* while such a worker of the daemon runs.                                 *)
(***************************************************************************)
EXTENDS SessionSpawner, SequenceTheorems, FiniteSetTheorems, TLAPS

-----------------------------------------------------------------------------
(* Facts about workers and frames.                                         *)

\* Workers are numbered in the order in which they are started.
BornInOrder ==
  \E n \in Worker : \A w \in Worker : proc[w] # "unborn" <=> w <= n

\* A registration answers with a list of sessions.
RegisteredFrames ==
  \A i \in 1 .. Len(toDaemon) :
    toDaemon[i].kind = "registered" => toDaemon[i].arg \in {"", "listed"}

\* Workers are numbers, from 1.
LEMMA FirstWorker == 1 \in Worker /\ Worker \subseteq Nat
BY SpawnerAssumption DEF Worker

\* The latest worker is the end of the prefix of those that were started.
LEMMA LatestIs ==
  ASSUME NEW p, NEW n \in Worker, \A w \in Worker : p[w] # "unborn" <=> w <= n
  PROVE  n = CHOOSE w \in Worker :
               p[w] # "unborn" /\ \A v \in Worker : v > w => p[v] = "unborn"
<1>1. p[n] # "unborn" /\ \A v \in Worker : v > n => p[v] = "unborn"
  BY FirstWorker
<1>2. \A w \in Worker :
        (p[w] # "unborn" /\ \A v \in Worker : v > w => p[v] = "unborn") => w = n
  BY FirstWorker
<1>3. QED BY <1>1, <1>2

\* Latest is the end of the order of births.
LEMMA LatestBorn ==
  BornInOrder => /\ Latest \in Worker
                 /\ \A w \in Worker : proc[w] # "unborn" <=> w <= Latest
BY LatestIs DEF BornInOrder, Latest

\* A step that starts no worker leaves the order of births alone.
LEMMA SameBirths ==
  ASSUME BornInOrder,
         \A w \in Worker : proc'[w] = "unborn" <=> proc[w] = "unborn"
  PROVE  BornInOrder' /\ Latest' = Latest
<1>1. /\ Latest \in Worker
      /\ \A w \in Worker : proc'[w] # "unborn" <=> w <= Latest
  BY LatestBorn
<1>2. Latest = CHOOSE w \in Worker :
                 proc'[w] # "unborn" /\ \A v \in Worker : v > w => proc'[v] = "unborn"
  BY <1>1, LatestIs
<1>3. QED BY <1>1, <1>2 DEF BornInOrder, Latest

\* What starting a worker does to the processes.
LEMMA SpawnEffect ==
  ASSUME BornInOrder, proc \in [Worker -> {"unborn", "up", "stopping", "gone"}],
         NEW others, Spawn(others)
  PROVE  /\ entry' = "child"
         /\ Latest' \in Worker /\ Latest' = Latest + 1 /\ proc[Latest'] = "unborn"
         /\ proc' = [proc EXCEPT ![Latest'] = "up"]
         /\ child' = others \cup {Latest'}
         /\ BornInOrder'
<1>1. PICK w \in Worker : /\ Born(w) /\ proc' = [proc EXCEPT ![w] = "up"]
                          /\ child' = others \cup {w}
  BY DEF Spawn
<1>2. Latest \in Worker /\ \A v \in Worker : proc[v] # "unborn" <=> v <= Latest
  BY LatestBorn
<1>3. w = Latest + 1 /\ proc[w] = "unborn"
  BY <1>1 DEF Born
<1>4. \A v \in Worker : proc'[v] # "unborn" <=> v <= w
  BY <1>1, <1>2, <1>3, FirstWorker
<1>5. w = Latest'
  BY <1>4, LatestIs DEF Latest
<1>6. QED BY <1>1, <1>3, <1>4, <1>5 DEF Spawn, BornInOrder

\* Stopping, or losing, workers starts none.
LEMMA StopEffect ==
  ASSUME proc \in [Worker -> {"unborn", "up", "stopping", "gone"}], NEW ws, Stop(ws)
  PROVE  /\ proc' \in [Worker -> {"unborn", "up", "stopping", "gone"}]
         /\ \A w \in Worker : /\ proc'[w] = "unborn" <=> proc[w] = "unborn"
                              /\ proc'[w] \in {"up", "stopping"} <=> Alive(w)
                              /\ proc'[w] = "up" => proc[w] = "up" /\ w \notin ws
BY DEF Stop, Alive

-----------------------------------------------------------------------------
(* Type correctness.                                                       *)

\* The types, with what they rest on.
TypeInv == SpawnerTypeOK /\ BornInOrder /\ RegisteredFrames

\* What a session_ended may say.
Reasons == {"Session ended", "Session reconnected", "Session orphaned",
            "Parent acknowledged completion"}

\* Frames that are sent go behind those on their way, if the link is up.
LEMMA Sending ==
  ASSUME toDaemon \in Seq(Frames), NEW fs \in Seq(Frames), ToDaemon(fs)
  PROVE  /\ toDaemon' \in Seq(Frames)
         /\ \/ toDaemon' = toDaemon
            \/ /\ link /\ Len(toDaemon') = Len(toDaemon) + Len(fs)
               /\ \A i \in 1 .. Len(toDaemon) : toDaemon'[i] = toDaemon[i]
               /\ \A i \in 1 .. Len(fs) : toDaemon'[Len(toDaemon) + i] = fs[i]
<1>1. /\ toDaemon \o fs \in Seq(Frames)
      /\ Len(toDaemon \o fs) = Len(toDaemon) + Len(fs)
      /\ \A i \in 1 .. Len(toDaemon) + Len(fs) :
           (toDaemon \o fs)[i] = IF i <= Len(toDaemon) THEN toDaemon[i]
                                 ELSE fs[i - Len(toDaemon)]
  BY ConcatProperties
<1>2. Len(toDaemon) \in Nat /\ Len(fs) \in Nat
  BY LenProperties
<1>3. CASE link
  <2>1. toDaemon' = toDaemon \o fs
    BY <1>3 DEF ToDaemon
  <2>2. \A i \in 1 .. Len(toDaemon) : toDaemon'[i] = toDaemon[i]
    BY <1>1, <1>2, <2>1
  <2>3. \A i \in 1 .. Len(fs) : toDaemon'[Len(toDaemon) + i] = fs[i]
    BY <1>1, <1>2, <2>1
  <2>4. QED BY <1>1, <1>3, <2>1, <2>2, <2>3
<1>4. CASE ~link
  BY <1>4 DEF ToDaemon
<1>5. QED BY <1>3, <1>4

\* The frames the relay sends are frames.
LEMMA FrameTypes ==
  /\ Frame("new", "") \in Frames /\ Frame("kill", "") \in Frames
  /\ \A a \in {"", "listed"} : Frame("registered", a) \in Frames
  /\ \A r \in Reasons : Frame("ended", r) \in Frames
BY DEF Frames, Frame, Reasons

\* Two elements, as a sequence and as the concatenation of one each.
LEMMA Pair ==
  ASSUME NEW S, NEW a \in S, NEW b \in S
  PROVE  <<a, b>> \in Seq(S) /\ <<a>> \in Seq(S) /\ <<a>> \o <<b>> = <<a, b>>
<1>1. /\ <<a>> \in Seq(S) /\ <<b>> \in Seq(S) /\ <<a, b>> \in Seq(S)
      /\ Len(<<a>>) = 1 /\ Len(<<b>>) = 1 /\ Len(<<a, b>>) = 2
  OBVIOUS
<1>2. <<a>> \o <<b>> \in Seq(S) /\ Len(<<a>> \o <<b>>) = 2
  BY <1>1, ConcatProperties
<1>3. (<<a>> \o <<b>>)[1] = a /\ (<<a>> \o <<b>>)[2] = b
  BY <1>1, ConcatProperties
<1>4. \A i \in 1 .. 2 : (<<a>> \o <<b>>)[i] = <<a, b>>[i]
  BY <1>3
<1>5. QED BY <1>1, <1>2, <1>4, SeqEqual

\* The ends of sequences of one and of two elements.
LEMMA Ends ==
  ASSUME NEW a, NEW b
  PROVE  /\ <<a>> # <<>> /\ Head(<<a>>) = a /\ Tail(<<a>>) = <<>>
         /\ <<a, b>> # <<>> /\ Head(<<a, b>>) = a /\ Tail(<<a, b>>) = <<b>>
<1> DEFINE S == {a, b}
<1>1. /\ <<a>> \in Seq(S) /\ Len(<<a>>) = 1 /\ <<a>>[1] = a
      /\ <<b>> \in Seq(S) /\ Len(<<b>>) = 1 /\ <<b>>[1] = b
      /\ <<a, b>> \in Seq(S) /\ Len(<<a, b>>) = 2 /\ <<a, b>>[1] = a /\ <<a, b>>[2] = b
  OBVIOUS
<1> DEFINE q == <<a, b>>
           o == <<a>>
           l == <<b>>
<1>2. /\ q \in Seq(S) /\ Len(q) = 2 /\ q[1] = a /\ q[2] = b
      /\ o \in Seq(S) /\ Len(o) = 1 /\ o[1] = a
      /\ l \in Seq(S) /\ Len(l) = 1 /\ l[1] = b
  BY <1>1
<1> HIDE DEF q, o, l
<1>3. q # <<>> /\ o # <<>>
  BY <1>2, EmptySeq
<1>4. /\ Tail(q) \in Seq(S) /\ Len(Tail(q)) = 1 /\ Tail(q)[1] = b /\ Head(q) = a
      /\ Tail(o) \in Seq(S) /\ Len(Tail(o)) = 0 /\ Head(o) = a
  BY <1>2, <1>3, HeadTailProperties
<1>5. Tail(q) = l
  <2> DEFINE t == Tail(q)
  <2>1. t \in Seq(S) /\ Len(t) = 1 /\ t[1] = b
    BY <1>4
  <2> HIDE DEF t
  <2>2. \A i \in 1 .. 1 : t[i] = l[i]
    BY <1>2, <2>1
  <2>3. t = l
    BY <1>2, <2>1, <2>2, SeqEqual
  <2>4. QED BY <2>3 DEF t
<1>6. Tail(o) = <<>>
  BY <1>4, EmptySeq
<1>7. QED BY <1>3, <1>4, <1>5, <1>6 DEF q, o, l

\* The kind of a frame.
LEMMA FrameKind == \A k, a : Frame(k, a).kind = k /\ Frame(k, a).arg = a
BY DEF Frame

\* One frame that registers nothing, and two of them.
LEMMA Unregistered ==
  /\ \A f \in Frames : f.kind # "registered" =>
       <<f>> \in Seq(Frames) /\ \A i \in 1 .. Len(<<f>>) : <<f>>[i].kind # "registered"
  /\ \A f, g \in Frames : f.kind # "registered" /\ g.kind # "registered" =>
       <<f, g>> \in Seq(Frames) /\ \A i \in 1 .. Len(<<f, g>>) : <<f, g>>[i].kind # "registered"
<1>1. ASSUME NEW f \in Frames, f.kind # "registered"
      PROVE  <<f>> \in Seq(Frames) /\ \A i \in 1 .. Len(<<f>>) : <<f>>[i].kind # "registered"
  <2>1. <<f>> \in Seq(Frames) /\ Len(<<f>>) = 1 /\ <<f>>[1] = f
    OBVIOUS
  <2>2. \A i \in 1 .. 1 : <<f>>[i].kind # "registered"
    BY <1>1, <2>1
  <2>3. QED BY <2>1, <2>2
<1>2. ASSUME NEW f \in Frames, NEW g \in Frames, f.kind # "registered", g.kind # "registered"
      PROVE  <<f, g>> \in Seq(Frames)
             /\ \A i \in 1 .. Len(<<f, g>>) : <<f, g>>[i].kind # "registered"
  <2>1. Len(<<f, g>>) = 2 /\ <<f, g>>[1] = f /\ <<f, g>>[2] = g
    OBVIOUS
  <2>2. \A i \in 1 .. 2 : <<f, g>>[i].kind # "registered"
    BY <1>2, <2>1
  <2>3. QED BY <2>1, <2>2, Pair
<1>3. QED BY <1>1, <1>2

\* What a teardown, or a registration, of a record tells the runner.
TellEnd(r) == \/ ToDaemon(<<>>)
              \/ rec = "linked" /\ ToDaemon(<<Frame("ended", r)>>)

\* A record is torn down, or its session registered again.
LEMMA TeardownEffect ==
  ASSUME NEW r \in Reasons, Teardown(r, <<>>)
  PROVE  rec' = "none" /\ conn' = 0 /\ TellEnd(r)
<1>1. CASE rec = "linked"
  <2>1. Frame("ended", r) \in Frames
    BY FrameTypes
  <2>2. <<Frame("ended", r)>> \in Seq(Frames)
    BY <2>1
  <2>3. <<>> \o <<Frame("ended", r)>> = <<Frame("ended", r)>>
    BY <2>2, ConcatEmptySeq
  <2>4. QED BY <1>1, <2>3 DEF Teardown, TellEnd
<1>2. CASE rec # "linked"
  <2>1. <<>> \o <<>> = <<>>
    BY EmptySeq, ConcatEmptySeq
  <2>2. QED BY <1>2, <2>1 DEF Teardown, TellEnd
<1>3. QED BY <1>1, <1>2

\* A worker that registers ends the session it had before.
LEMMA RegisterEffect ==
  ASSUME NEW w, Register(w) PROVE TellEnd("Session reconnected")
BY DEF Register, TellEnd

\* The runner of a session without a connection is told to kill it, and that
\* it has ended.
LEMMA KillEndEffect ==
  ASSUME rec = "linked",
         Teardown("Parent acknowledged completion", <<Frame("kill", "")>>)
  PROVE  ToDaemon(<<Frame("kill", ""), Frame("ended", "Parent acknowledged completion")>>)
<1>1. <<Frame("kill", "")>> \o <<Frame("ended", "Parent acknowledged completion")>>
        = <<Frame("kill", ""), Frame("ended", "Parent acknowledged completion")>>
  BY FrameTypes, Pair DEF Reasons
<1>2. QED BY <1>1 DEF Teardown

\* A worker dies.
LEMMA DieEffect ==
  ASSUME TypeInv, NEW w \in Worker, Alive(w),
         NEW events \in {<<"pre_restart", "exit 43">>, <<"exit">>}, Die(w, events)
  PROVE  /\ proc' \in [Worker -> {"unborn", "up", "stopping", "gone"}]
         /\ ipc' \in [Worker -> Seq({"pre_restart", "exit 43", "exit"})]
         /\ online' \subseteq {v \in Worker : Alive(v)'}
         /\ BornInOrder' /\ Latest' = Latest
<1>1. proc' = [proc EXCEPT ![w] = "gone"]
  BY DEF Die
<1>2. \A v \in Worker : proc'[v] = "unborn" <=> proc[v] = "unborn"
  BY <1>1 DEF TypeInv, SpawnerTypeOK, observed, Alive
<1>3. events \in Seq({"pre_restart", "exit 43", "exit"})
  <2>1. CASE events = <<"exit">>
    BY <2>1
  <2>2. CASE events = <<"pre_restart", "exit 43">>
    BY <2>2, Pair
  <2>3. QED BY <2>1, <2>2
<1>4. ipc[w] \o events \in Seq({"pre_restart", "exit 43", "exit"})
  <2>1. ipc[w] \in Seq({"pre_restart", "exit 43", "exit"})
    BY DEF TypeInv, SpawnerTypeOK
  <2>2. QED BY <1>3, <2>1, ConcatProperties
<1>5. ipc' \in [Worker -> Seq({"pre_restart", "exit 43", "exit"})]
  BY <1>4 DEF TypeInv, SpawnerTypeOK, observed, Die
<1>6. online' \subseteq {v \in Worker : Alive(v)'}
  BY <1>1 DEF TypeInv, SpawnerTypeOK, observed, Die, Alive
<1>7. BornInOrder' /\ Latest' = Latest
  BY <1>2, SameBirths DEF TypeInv
<1>8. QED BY <1>1, <1>5, <1>6, <1>7 DEF TypeInv, SpawnerTypeOK

\* Behind frames that are lists of sessions when they register, others are
\* sent that register nothing.
LEMMA SendingTypes ==
  ASSUME TypeInv, NEW fs \in Seq(Frames), ToDaemon(fs),
         \A i \in 1 .. Len(fs) : fs[i].kind # "registered", UNCHANGED link
  PROVE  toDaemon' \in Seq(Frames) /\ RegisteredFrames' /\ (~link' => toDaemon' = <<>>)
<1>1. toDaemon \in Seq(Frames)
  BY DEF TypeInv, SpawnerTypeOK
<1>2. /\ toDaemon' \in Seq(Frames)
      /\ \/ toDaemon' = toDaemon
         \/ /\ link /\ Len(toDaemon') = Len(toDaemon) + Len(fs)
            /\ \A i \in 1 .. Len(toDaemon) : toDaemon'[i] = toDaemon[i]
            /\ \A i \in 1 .. Len(fs) : toDaemon'[Len(toDaemon) + i] = fs[i]
  BY <1>1, Sending
<1>3. Len(toDaemon) \in Nat /\ Len(fs) \in Nat
  BY <1>1
<1>4. CASE toDaemon' = toDaemon
  BY <1>2, <1>4 DEF TypeInv, SpawnerTypeOK, observed, RegisteredFrames
<1>5. CASE toDaemon' # toDaemon
  <2>1. ASSUME NEW i \in 1 .. Len(toDaemon'), toDaemon'[i].kind = "registered"
        PROVE  toDaemon'[i].arg \in {"", "listed"}
    <3>1. CASE i <= Len(toDaemon)
      <4>1. i \in 1 .. Len(toDaemon) /\ toDaemon'[i] = toDaemon[i]
        BY <1>2, <1>3, <1>5, <3>1
      <4>2. QED BY <2>1, <4>1 DEF TypeInv, RegisteredFrames
    <3>2. CASE i > Len(toDaemon)
      <4>1. PICK k \in 1 .. Len(fs) : i = Len(toDaemon) + k
        <5>1. i - Len(toDaemon) \in 1 .. Len(fs) /\ i = Len(toDaemon) + (i - Len(toDaemon))
          BY <1>2, <1>3, <1>5, <3>2
        <5>2. QED BY <5>1
      <4>2. toDaemon'[i] = fs[k]
        BY <1>2, <1>5, <4>1
      <4>3. fs[k].kind # "registered"
        BY <4>1
      <4>4. QED BY <2>1, <4>1, <4>2, <4>3
    <3>3. i <= Len(toDaemon) \/ i > Len(toDaemon)
      BY <1>3, <1>2
    <3>4. QED BY <3>1, <3>2, <3>3
  <2>2. QED BY <1>2, <1>5, <2>1 DEF RegisteredFrames
<1>6. QED BY <1>4, <1>5

\* An announced end keeps the types of what the daemon is sent.
LEMMA TellEndTypes ==
  ASSUME TypeInv, NEW r \in Reasons, TellEnd(r), UNCHANGED link
  PROVE  toDaemon' \in Seq(Frames) /\ RegisteredFrames' /\ (~link' => toDaemon' = <<>>)
<1>1. CASE ToDaemon(<<>>)
  <2>1. <<>> \in Seq(Frames) /\ 1 .. Len(<<>>) = {}
    BY EmptySeq
  <2>2. QED BY <1>1, <2>1, SendingTypes
<1>2. CASE ToDaemon(<<Frame("ended", r)>>)
  BY <1>2, FrameTypes, FrameKind, Unregistered, SendingTypes
<1>3. QED BY <1>1, <1>2 DEF TellEnd

\* The daemon takes the first frame.
LEMMA TakingTypes ==
  ASSUME TypeInv, toDaemon # <<>>, toDaemon' = Tail(toDaemon), UNCHANGED link
  PROVE  /\ toDaemon' \in Seq(Frames) /\ RegisteredFrames' /\ link
         /\ Head(toDaemon) \in Frames
         /\ Head(toDaemon).kind = "registered" => Head(toDaemon).arg \in {"", "listed"}
         /\ Len(toDaemon) >= 1 /\ Len(toDaemon') = Len(toDaemon) - 1
         /\ Head(toDaemon) = toDaemon[1]
         /\ \A i \in 1 .. Len(toDaemon') : toDaemon'[i] = toDaemon[i + 1]
<1>1. toDaemon \in Seq(Frames)
  BY DEF TypeInv, SpawnerTypeOK
<1>2. /\ toDaemon' \in Seq(Frames) /\ Len(toDaemon) \in Nat /\ Len(toDaemon) >= 1
      /\ Len(toDaemon') = Len(toDaemon) - 1 /\ Head(toDaemon) = toDaemon[1]
      /\ \A i \in 1 .. Len(toDaemon') : toDaemon'[i] = toDaemon[i + 1]
  BY <1>1
<1>3. \A i \in 1 .. Len(toDaemon') : i + 1 \in 1 .. Len(toDaemon)
  BY <1>2
<1>4. RegisteredFrames'
  BY <1>2, <1>3 DEF TypeInv, RegisteredFrames
<1>5. 1 \in 1 .. Len(toDaemon)
  BY <1>2
<1>6. Head(toDaemon).kind = "registered" => Head(toDaemon).arg \in {"", "listed"}
  BY <1>2, <1>5 DEF TypeInv, RegisteredFrames
<1>7. Head(toDaemon) \in Frames
  BY <1>1, <1>2, <1>5
<1>8. QED BY <1>2, <1>4, <1>6, <1>7 DEF TypeInv, SpawnerTypeOK

\* Positions of a sequence can be counted.
LEMMA Counted ==
  ASSUME NEW T, NEW s \in Seq(T), NEW B \in SUBSET DOMAIN s
  PROVE  Cardinality(B) \in Nat
<1>1. PICK k \in Nat : k = Len(s) /\ DOMAIN s = 1 .. k
  BY LenProperties
<1>2. IsFiniteSet(1 .. k)
  BY FS_Interval
<1>3. IsFiniteSet(B)
  BY <1>1, <1>2, FS_Subset
<1>4. QED BY <1>3, FS_CardinalityType

\* A count is raised.
LEMMA Raised ==
  ASSUME NEW k \in Nat, NEW m \in Nat PROVE k + m \in Nat /\ (k + m # k => m # 0)
OBVIOUS

\* What sessions that are listed, or not, leave in the tables and on the disk.
LEMMA AdoptTypes ==
  ASSUME SpawnerTypeOK, BornInOrder, NEW lists \in Seq({"", "listed"}), Adopt(lists)
  PROVE  /\ entry' = entry \/ (entry = "none" /\ entry' = "adopted")
         /\ doomed' \subseteq Worker /\ astray' \subseteq Worker
         /\ sweeps' \in [Worker -> Nat]
         /\ \A w \in Worker : sweeps'[w] # sweeps[w] => w = Latest /\ entry = "none"
<1>1. /\ entry' = entry \/ (entry = "none" /\ entry' = "adopted")
      /\ doomed' \subseteq Worker /\ astray' \subseteq Worker
  BY DEF Adopt, AdoptedBy, LiftedIf, SpawnerTypeOK
<1> DEFINE bare == {i \in DOMAIN lists : entry = "none" /\ \A j \in 1 .. i : lists[j] # "listed"}
           n == Cardinality(bare)
<1>2. bare \in SUBSET DOMAIN lists /\ (entry # "none" => bare = {})
  OBVIOUS
<1>3. sweeps' = [sweeps EXCEPT ![Latest] = @ + n]
  BY DEF Adopt
<1> HIDE DEF bare
<1>4. n \in Nat /\ (entry # "none" => n = 0)
  BY <1>2, Counted, FS_EmptySet
<1> HIDE DEF n
<1>5. sweeps \in [Worker -> Nat] /\ Latest \in Worker
  BY LatestBorn DEF SpawnerTypeOK
<1>6. /\ sweeps' \in [Worker -> Nat]
      /\ \A w \in Worker : sweeps'[w] # sweeps[w] => w = Latest /\ n # 0
  <2>1. PICK m \in Nat : m = n
    BY <1>4
  <2>2. PICK k \in Nat : k = sweeps[Latest]
    BY <1>5
  <2>3. PICK s \in Nat : s = k + m /\ (s # k => m # 0)
    BY Raised
  <2>4. sweeps' = [sweeps EXCEPT ![Latest] = s]
    BY <1>3, <2>1, <2>2, <2>3
  <2>5. sweeps' \in [Worker -> Nat]
    BY <1>5, <2>4
  <2>6. ASSUME NEW w \in Worker, sweeps'[w] # sweeps[w] PROVE w = Latest /\ n # 0
    BY <1>5, <2>1, <2>2, <2>3, <2>4, <2>6
  <2>7. QED BY <2>5, <2>6
<1>7. QED BY <1>1, <1>4, <1>6

\* Types, the numbers of workers and the frames of registrations hold initially.
LEMMA TypeInit == Init => TypeInv
<1> SUFFICES ASSUME Init PROVE TypeInv
  OBVIOUS
<1>1. \A w \in Worker : proc[w] # "unborn" <=> w <= 1
  BY FirstWorker DEF Init, Worker
<1>2. BornInOrder
  BY <1>1, FirstWorker DEF BornInOrder
<1>3. Latest = 1
  BY <1>1, FirstWorker, LatestIs DEF Latest
<1>4. SpawnerTypeOK
  <2>1. /\ proc \in [Worker -> {"unborn", "up", "stopping", "gone"}]
        /\ online \subseteq {w \in Worker : Alive(w)}
        /\ ipc \in [Worker -> Seq({"pre_restart", "exit 43", "exit"})]
    BY FirstWorker DEF Init, Alive
  <2>2. /\ toDaemon \in Seq(Frames) /\ adopting \in Seq({"", "listed"})
        /\ toRelay \in Seq({"session_killed", "disconnect_session"})
    BY DEF Init
  <2>3. QED BY <1>3, <2>1, <2>2, FirstWorker DEF Init, SpawnerTypeOK
<1>5. RegisteredFrames
  <2>1. 1 .. Len(toDaemon) = {}
    BY DEF Init
  <2>2. QED BY <2>1 DEF RegisteredFrames
<1>6. QED BY <1>2, <1>4, <1>5 DEF TypeInv

\* Every step keeps them.
LEMMA TypeStep == TypeInv /\ [Next]_vars => TypeInv'
<1> SUFFICES ASSUME TypeInv, [Next]_vars PROVE TypeInv'
  OBVIOUS
<1>s. SpawnerTypeOK /\ BornInOrder /\ RegisteredFrames
  BY DEF TypeInv
<1>u. ASSUME UNCHANGED proc PROVE BornInOrder' /\ Latest' = Latest
  BY <1>s, <1>u DEF BornInOrder, Latest
<1>r. ASSUME UNCHANGED toDaemon PROVE RegisteredFrames'
  BY <1>s, <1>r DEF RegisteredFrames
<1>z. ASSUME toDaemon' = <<>>
      PROVE  RegisteredFrames' /\ toDaemon' \in Seq(Frames)
  <2>1. 1 .. Len(toDaemon') = {}
    BY <1>z
  <2>2. QED BY <1>z, <2>1, EmptySeq DEF RegisteredFrames
<1>n. <<>> \in Seq({"session_killed", "disconnect_session"}) /\ <<>> \in Seq({"", "listed"})
  BY EmptySeq
<1>e. ASSUME NEW ws, Stop(ws) PROVE BornInOrder' /\ Latest' = Latest
  BY <1>s, <1>e, StopEffect, SameBirths DEF SpawnerTypeOK
<1>1. ASSUME NEW w \in Worker, ExitRestart(w) PROVE TypeInv'
  <2>1. /\ proc' \in [Worker -> {"unborn", "up", "stopping", "gone"}]
        /\ ipc' \in [Worker -> Seq({"pre_restart", "exit 43", "exit"})]
        /\ online' \subseteq {v \in Worker : Alive(v)'}
        /\ BornInOrder' /\ Latest' = Latest
    BY <1>1, DieEffect DEF ExitRestart
  <2>2. QED BY ZenonT(40), <1>1, <1>s, <1>r, <2>1
            DEF TypeInv, SpawnerTypeOK, observed, ExitRestart, Die, tables, start, relay, runnerLink
<1>2. ASSUME NEW w \in Worker, Exit(w) PROVE TypeInv'
  <2>1. /\ proc' \in [Worker -> {"unborn", "up", "stopping", "gone"}]
        /\ ipc' \in [Worker -> Seq({"pre_restart", "exit 43", "exit"})]
        /\ online' \subseteq {v \in Worker : Alive(v)'}
        /\ BornInOrder' /\ Latest' = Latest
    BY <1>2, DieEffect DEF Exit
  <2>2. QED BY ZenonT(40), <1>2, <1>s, <1>r, <2>1
            DEF TypeInv, SpawnerTypeOK, observed, Exit, Die, tables, start, relay, runnerLink
<1>3. ASSUME NEW w \in Worker, WorkerDrop(w) PROVE TypeInv'
  BY ZenonT(40), <1>3, <1>s, <1>u, <1>r
     DEF TypeInv, SpawnerTypeOK, observed, WorkerDrop, Alive, tables, start, relay, runnerLink
<1>4. ASSUME NEW w \in Worker, Register(w) PROVE TypeInv'
  <2>1. "Session reconnected" \in Reasons /\ UNCHANGED link
    BY <1>4 DEF Reasons, Register
  <2>2. TellEnd("Session reconnected")
    BY <1>4, RegisterEffect
  <2>3. toDaemon' \in Seq(Frames) /\ RegisteredFrames' /\ (~link' => toDaemon' = <<>>)
    BY <2>1, <2>2, TellEndTypes
  <2>5. UNCHANGED <<tables, start, child, ipc, proc, asked, files, waking, toRelay, observed>>
        /\ proc[w] = "up" /\ online' = online \cup {w} /\ rec' = "linked" /\ conn' = w
    BY <1>4 DEF Register
  <2>6. QED BY <1>s, <1>u, <2>1, <2>3, <2>5
            DEF TypeInv, SpawnerTypeOK, observed, Alive, tables, start
<1>5. CASE SaveFiles
  BY <1>5, <1>s, <1>u, <1>r
     DEF TypeInv, SpawnerTypeOK, observed, SaveFiles, Alive, tables, start, workers, relay, runnerLink
<1>6. CASE AskRestart
  BY <1>6, <1>s, <1>u, <1>r
     DEF TypeInv, SpawnerTypeOK, observed, AskRestart, Alive, tables, start, relay, runnerLink
<1>7. ASSUME NEW r \in Reasons, Teardown(r, <<>>),
             UNCHANGED <<tables, start, workers, files, waking, link, toRelay, observed>>
      PROVE  TypeInv'
  <2>3. toDaemon' \in Seq(Frames) /\ RegisteredFrames' /\ (~link' => toDaemon' = <<>>)
    BY <1>7, TeardownEffect, TellEndTypes
  <2>4. rec' = "none" /\ conn' = 0
    BY <1>7, TeardownEffect
  <2>5. QED BY <1>7, <1>s, <1>u, <2>3, <2>4
            DEF TypeInv, SpawnerTypeOK, observed, Alive, tables, start, workers
<1>8. CASE RelayClosed
  BY <1>7, <1>8 DEF RelayClosed, Reasons
<1>9. CASE Sweep
  BY <1>7, <1>9 DEF Sweep, Reasons
<1>10. ASSUME NEW fs \in Seq(Frames), \A i \in 1 .. Len(fs) : fs[i].kind # "registered",
              ToDaemon(fs), UNCHANGED proc \/ \E ws : Stop(ws),
              UNCHANGED <<rec, conn>> \/ (rec' = "none" /\ conn' = 0), waking' \in Nat,
              UNCHANGED <<tables, start, child, ipc, asked, online, files, link, toRelay, observed>>
       PROVE  TypeInv'
  <2>1. toDaemon' \in Seq(Frames) /\ RegisteredFrames' /\ (~link' => toDaemon' = <<>>)
    BY <1>10, SendingTypes
  <2>2. BornInOrder' /\ Latest' = Latest
    BY <1>10, <1>u, <1>e
  <2>3. /\ proc' \in [Worker -> {"unborn", "up", "stopping", "gone"}]
        /\ online' \subseteq {v \in Worker : Alive(v)'}
    <3>1. CASE UNCHANGED proc
      BY <1>10, <1>s, <3>1 DEF SpawnerTypeOK, Alive
    <3>2. ASSUME NEW ws, Stop(ws)
          PROVE  /\ proc' \in [Worker -> {"unborn", "up", "stopping", "gone"}]
                 /\ online' \subseteq {v \in Worker : Alive(v)'}
      <4>1. /\ proc' \in [Worker -> {"unborn", "up", "stopping", "gone"}]
            /\ \A w \in Worker : proc'[w] \in {"up", "stopping"} <=> Alive(w)
        BY <1>s, <3>2, StopEffect DEF SpawnerTypeOK
      <4>2. QED BY <1>10, <1>s, <4>1 DEF SpawnerTypeOK, Alive
    <3>3. QED BY <1>10, <3>1, <3>2
  <2>4. rec' \in {"none", "free", "linked"} /\ conn' \in {0} \cup Worker
        /\ (conn' # 0 => rec' # "none")
    BY <1>10, <1>s DEF SpawnerTypeOK
  <2>5. QED BY <1>10, <1>s, <2>1, <2>2, <2>3, <2>4
            DEF TypeInv, SpawnerTypeOK, observed, tables, start
<1>11. CASE Wake
  <2>1. <<Frame("new", "")>> \in Seq(Frames)
        /\ \A i \in 1 .. Len(<<Frame("new", "")>>) : <<Frame("new", "")>>[i].kind # "registered"
    <3> DEFINE f == Frame("new", "")
    <3>1. f \in Frames /\ f.kind = "new"
      BY FrameTypes, FrameKind
    <3>2. f.kind # "registered"
      BY <3>1
    <3> HIDE DEF f
    <3>3. <<f>> \in Seq(Frames) /\ \A i \in 1 .. Len(<<f>>) : <<f>>[i].kind # "registered"
      BY <3>1, <3>2, Unregistered
    <3>4. QED BY <3>3 DEF f
  <2>2. ToDaemon(<<Frame("new", "")>>)
        /\ UNCHANGED <<tables, start, workers, files, rec, conn, link, toRelay, observed>>
        /\ waking' \in Nat
    <3>1. waking \in Nat
      BY <1>s DEF SpawnerTypeOK
    <3>2. waking > 0 /\ waking' = waking - 1
      BY <1>11 DEF Wake
    <3>3. waking' \in Nat
      BY <3>1, <3>2
    <3>4. QED BY <1>11, <3>3 DEF Wake
  <2> DEFINE fs == <<Frame("new", "")>>
  <2> HIDE DEF fs
  <2>3. /\ fs \in Seq(Frames) /\ \A i \in 1 .. Len(fs) : fs[i].kind # "registered"
        /\ ToDaemon(fs) /\ waking' \in Nat
        /\ UNCHANGED <<proc, rec, conn, tables, start, child, ipc, asked, online,
                                      files, link, toRelay, observed>>
    BY <2>1, <2>2 DEF fs, workers
  <2>4. QED BY <1>10, <2>3
<1>12. CASE KillSession
  <2> DEFINE kill == <<Frame("kill", "")>>
             both == <<Frame("kill", ""), Frame("ended", "Parent acknowledged completion")>>
  <2>1. kill \in Seq(Frames) /\ \A i \in 1 .. Len(kill) : kill[i].kind # "registered"
    <3> DEFINE f == Frame("kill", "")
    <3>1. f \in Frames /\ f.kind = "kill"
      BY FrameTypes, FrameKind
    <3>2. f.kind # "registered"
      BY <3>1
    <3> HIDE DEF f
    <3>3. <<f>> \in Seq(Frames) /\ \A i \in 1 .. Len(<<f>>) : <<f>>[i].kind # "registered"
      BY <3>1, <3>2, Unregistered
    <3>4. QED BY <3>3 DEF f
  <2>2. both \in Seq(Frames) /\ \A i \in 1 .. Len(both) : both[i].kind # "registered"
    <3> DEFINE f == Frame("kill", "")
               g == Frame("ended", "Parent acknowledged completion")
    <3>1. f \in Frames /\ g \in Frames /\ f.kind # "registered" /\ g.kind # "registered"
      <4>1. "Parent acknowledged completion" \in Reasons
        BY DEF Reasons
      <4>2. f \in Frames /\ g \in Frames
        BY <4>1, FrameTypes
      <4>3. f.kind = "kill" /\ g.kind = "ended"
        BY FrameKind
      <4>4. QED BY <4>2, <4>3
    <3> HIDE DEF f, g
    <3>2. <<f, g>> \in Seq(Frames) /\ \A i \in 1 .. Len(<<f, g>>) : <<f, g>>[i].kind # "registered"
      BY <3>1, Unregistered
    <3>3. QED BY <3>2 DEF f, g
  <2>3. UNCHANGED <<tables, start, child, ipc, asked, online, files, link, toRelay, observed>>
        /\ waking' \in Nat
    BY <1>12, <1>s DEF KillSession, SpawnerTypeOK
  <2> HIDE DEF kill, both
  <2>4. CASE ToDaemon(kill) /\ UNCHANGED <<rec, conn, proc>>
    BY <1>10, <2>1, <2>3, <2>4
  <2>5. CASE ToDaemon(kill) /\ Stop({conn} \cap online) /\ UNCHANGED <<rec, conn>>
    BY <1>10, <2>1, <2>3, <2>5
  <2>6. CASE Teardown("Parent acknowledged completion", kill) /\ UNCHANGED proc
    <3>1. ToDaemon(both) /\ rec' = "none" /\ conn' = 0
      BY <1>12, <2>6, KillEndEffect DEF Teardown, KillSession, kill, both
    <3>2. QED BY <1>10, <2>2, <2>3, <2>6, <3>1
  <2>7. QED BY <1>12, <2>4, <2>5, <2>6 DEF KillSession, kill
<1>13. CASE RelaySee
  <2>1. \/ UNCHANGED proc \/ \E ws : Stop(ws)
    BY <1>13 DEF RelaySee
  <2>2. toRelay' \in Seq({"session_killed", "disconnect_session"}) /\ link
    BY <1>13, <1>s, HeadTailProperties DEF RelaySee, SpawnerTypeOK
  <2>3. BornInOrder' /\ Latest' = Latest
    BY <2>1, <1>u, <1>e
  <2>4. /\ proc' \in [Worker -> {"unborn", "up", "stopping", "gone"}]
        /\ online' \subseteq {v \in Worker : Alive(v)'}
    <3>1. CASE UNCHANGED proc
      BY <1>13, <1>s, <3>1 DEF SpawnerTypeOK, Alive, RelaySee
    <3>2. ASSUME NEW ws, Stop(ws)
          PROVE  /\ proc' \in [Worker -> {"unborn", "up", "stopping", "gone"}]
                 /\ online' \subseteq {v \in Worker : Alive(v)'}
      <4>1. /\ proc' \in [Worker -> {"unborn", "up", "stopping", "gone"}]
            /\ \A w \in Worker : proc'[w] \in {"up", "stopping"} <=> Alive(w)
        BY <1>s, <3>2, StopEffect DEF SpawnerTypeOK
      <4>2. QED BY <1>13, <1>s, <4>1 DEF SpawnerTypeOK, Alive, RelaySee
    <3>3. QED BY <2>1, <3>1, <3>2
  <2>5. QED BY ZenonT(40), <1>13, <1>s, <1>r, <2>2, <2>3, <2>4
            DEF TypeInv, SpawnerTypeOK, observed, RelaySee, tables, start
<1>14. CASE Cut
  BY <1>14, <1>s, <1>u, <1>z, <1>n DEF TypeInv, SpawnerTypeOK, observed, Cut, Alive, tables, start
<1>15. CASE LinkDrop
  BY <1>15, <1>s, <1>u, <1>z, <1>n
     DEF TypeInv, SpawnerTypeOK, observed, LinkDrop, Alive, tables, start, workers, relay
<1>16. CASE LinkUp
  <2> DEFINE a == IF conn # 0 /\ rec = "linked" THEN "listed" ELSE ""
  <2>1. toDaemon' = <<Frame("registered", a)>> /\ a \in {"", "listed"}
    BY <1>16 DEF LinkUp
  <2>2. toDaemon' \in Seq(Frames) /\ RegisteredFrames'
    <3>1. PICK f \in Frames : f.arg \in {"", "listed"} /\ toDaemon' = <<f>>
      BY <2>1, FrameTypes, FrameKind
    <3>2. <<f>> \in Seq(Frames) /\ Len(<<f>>) = 1 /\ <<f>>[1] = f
      OBVIOUS
    <3>3. ASSUME NEW i \in 1 .. 1 PROVE <<f>>[i].arg \in {"", "listed"}
      <4>1. <<f>>[i] = f
        BY <3>2
      <4>2. QED BY <3>1, <4>1
    <3>4. QED BY <3>1, <3>2, <3>3 DEF RegisteredFrames
  <2>3. QED BY <1>16, <1>s, <1>u, <2>2
            DEF TypeInv, SpawnerTypeOK, observed, LinkUp, Alive, tables, start, workers, relay
<1>17. CASE DaemonSee
  <2> DEFINE f == Head(toDaemon)
  <2>1. /\ toDaemon # <<>> /\ toDaemon' = Tail(toDaemon) /\ daemon
        /\ UNCHANGED <<daemon, ready, ipc, asked, online, rec, conn, waking, link>>
    BY <1>17 DEF DaemonSee, relay
  <2>2. /\ toDaemon' \in Seq(Frames) /\ RegisteredFrames' /\ link /\ f \in Frames
        /\ f.kind = "registered" => f.arg \in {"", "listed"}
    BY <2>1, TakingTypes
  <2>3. ASSUME BornInOrder', entry' \in {"none", "child", "adopted"},
               entry' = "child" => Latest' \in child',
               restarting' \in BOOLEAN, killed' \in BOOLEAN, files' \in BOOLEAN,
               adopting' \in Seq({"", "listed"}), ready => adopting' = <<>>,
               starting' \in Nat, sweeps' \in [Worker -> Nat],
               child' \subseteq Worker, doomed' \subseteq Worker, astray' \subseteq Worker,
               proc' \in [Worker -> {"unborn", "up", "stopping", "gone"}],
               \A w \in Worker : Alive(w) => Alive(w)',
               toRelay' \in Seq({"session_killed", "disconnect_session"})
        PROVE  TypeInv'
    BY <1>s, <2>1, <2>2, <2>3 DEF TypeInv, SpawnerTypeOK
  <2>4. CASE /\ New /\ LiftedIf(entry' # entry) /\ UNCHANGED starting
             /\ UNCHANGED <<files, adopting, sweeps, toRelay, astray>>
    <3>0. doomed' \subseteq Worker
      BY <1>s, <2>4 DEF LiftedIf, SpawnerTypeOK
    <3>1. CASE Spawn(child) /\ UNCHANGED <<restarting, killed>>
      <4>1. /\ entry' = "child" /\ Latest' \in Worker /\ proc[Latest'] = "unborn"
            /\ proc' = [proc EXCEPT ![Latest'] = "up"]
            /\ child' = child \cup {Latest'} /\ BornInOrder'
        BY <1>s, <3>1, SpawnEffect DEF SpawnerTypeOK
      <4>2. QED BY <1>s, <2>3, <2>4, <3>0, <3>1, <4>1 DEF SpawnerTypeOK, Alive
    <3>2. CASE UNCHANGED <<entry, proc, child, restarting, killed>>
      BY <1>s, <1>u, <2>3, <2>4, <3>0, <3>2 DEF SpawnerTypeOK, Alive
    <3>3. QED BY <2>4, <3>1, <3>2 DEF New
  <2>9. CASE /\ starting' = starting + 1 /\ UNCHANGED <<tables, child, proc, doomed>>
             /\ UNCHANGED <<files, adopting, sweeps, toRelay, astray>>
    <3>1. starting' \in Nat
      <4>1. starting \in Nat
        BY <1>s DEF SpawnerTypeOK
      <4>2. QED BY <2>9, <4>1
    <3>2. QED BY <1>s, <1>u, <2>3, <2>9, <3>1 DEF SpawnerTypeOK, Alive, tables
  <2>5. CASE Kill /\ UNCHANGED <<child, adopting, starting, sweeps>>
    <3>1. Latest \in Worker
      BY <1>s, LatestBorn
    <3>2. BornInOrder' /\ Latest' = Latest
      BY <1>u, <1>e, <2>5 DEF Kill
    <3>3. \/ UNCHANGED proc \/ Stop({Latest})
      BY <2>5 DEF Kill
    <3>4. /\ proc' \in [Worker -> {"unborn", "up", "stopping", "gone"}]
          /\ \A w \in Worker : Alive(w) => Alive(w)'
      BY <1>s, <3>3, StopEffect DEF SpawnerTypeOK, Alive
    <3>5. /\ entry' = "none" /\ killed' \in BOOLEAN /\ files' \in BOOLEAN
          /\ doomed' \subseteq Worker /\ astray' \subseteq Worker /\ UNCHANGED restarting
      BY <1>s, <2>5, <3>1 DEF Kill, LosesTrack, Up, observed, SpawnerTypeOK
    <3>6. toRelay' \in Seq({"session_killed", "disconnect_session"})
      <4> DEFINE R == {"session_killed", "disconnect_session"}
      <4>1. toRelay \in Seq(R)
        BY <1>s DEF SpawnerTypeOK
      <4>2. <<"session_killed">> \in Seq(R) /\ <<"disconnect_session", "session_killed">> \in Seq(R)
        BY Pair
      <4>3. \/ UNCHANGED toRelay \/ ToRelay(<<"session_killed">>)
            \/ ToRelay(<<"disconnect_session", "session_killed">>)
        BY <2>5 DEF Kill
      <4>4. \A fs \in Seq(R) : toRelay \o fs \in Seq(R)
        BY <4>1, ConcatProperties
      <4>5. QED BY <4>1, <4>2, <4>3, <4>4 DEF ToRelay
    <3>7. QED BY <1>s, <2>3, <2>5, <3>2, <3>4, <3>5, <3>6 DEF SpawnerTypeOK
  <2>6. CASE /\ SessionEnded(f.arg)
             /\ IF Forgotten(f.arg) THEN LosesTrack ELSE UNCHANGED astray
             /\ UNCHANGED <<child, proc, adopting, starting, sweeps, toRelay, doomed>>
    <3>1. /\ entry' \in {entry, "none"} /\ restarting' \in BOOLEAN /\ killed' \in BOOLEAN
          /\ files' \in BOOLEAN
      BY <1>s, <2>6 DEF SessionEnded, SpawnerTypeOK, tables
    <3>2. astray' \subseteq Worker
      BY <1>s, <2>6 DEF LosesTrack, Up, SpawnerTypeOK
    <3>3. QED BY <1>s, <1>u, <2>3, <2>6, <3>1, <3>2 DEF SpawnerTypeOK, Alive
  <2>7. CASE /\ f.kind = "registered"
             /\ IF ready THEN Adopt(<<f.arg>>) /\ UNCHANGED adopting
                ELSE adopting' = Append(adopting, f.arg) /\ UNCHANGED <<entry, sweeps, observed>>
             /\ UNCHANGED <<restarting, killed, child, proc, starting, files, toRelay>>
    <3>1. CASE ready
      <4>1. <<f.arg>> \in Seq({"", "listed"})
        <5>1. PICK a \in {"", "listed"} : a = f.arg
          BY <2>2, <2>7
        <5>2. <<a>> \in Seq({"", "listed"})
          BY Pair
        <5>3. QED BY <5>1, <5>2
      <4>2. Adopt(<<f.arg>>) /\ UNCHANGED adopting
        BY <2>7, <3>1
      <4>3. /\ entry' \in {entry, "adopted"}
            /\ doomed' \subseteq Worker /\ astray' \subseteq Worker
            /\ sweeps' \in [Worker -> Nat]
        BY <1>s, <4>1, <4>2, AdoptTypes
      <4>4. QED BY <1>s, <1>u, <2>3, <2>7, <4>2, <4>3 DEF SpawnerTypeOK, Alive
    <3>2. CASE ~ready
      <4>1. adopting' \in Seq({"", "listed"}) /\ UNCHANGED <<entry, sweeps, doomed, astray>>
        <5>1. adopting \in Seq({"", "listed"}) /\ f.arg \in {"", "listed"}
          BY <1>s, <2>2, <2>7 DEF SpawnerTypeOK
        <5>2. adopting' = Append(adopting, f.arg) /\ UNCHANGED <<entry, sweeps, doomed, astray>>
          BY <2>7, <3>2 DEF observed
        <5>3. QED BY <5>1, <5>2, AppendProperties
      <4>2. QED BY <1>s, <1>u, <2>3, <2>7, <3>2, <4>1 DEF SpawnerTypeOK, Alive
    <3>3. QED BY <3>1, <3>2
  <2>8. QED BY <1>17, <2>4, <2>5, <2>6, <2>7, <2>9 DEF DaemonSee
<1>18. CASE PluginsReady
  <2>1. /\ entry' \in {entry, "adopted"}
        /\ doomed' \subseteq Worker /\ astray' \subseteq Worker
        /\ sweeps' \in [Worker -> Nat]
    BY <1>18, <1>s, AdoptTypes DEF PluginsReady, SpawnerTypeOK
  <2>2. /\ ready' = TRUE /\ adopting' = <<>> /\ daemon /\ daemon' = daemon
        /\ UNCHANGED <<restarting, killed, starting, workers, files, relay, runnerLink>>
    BY <1>18 DEF PluginsReady
  <2>3. BornInOrder' /\ Latest' = Latest /\ RegisteredFrames'
    BY <1>u, <1>r, <2>2 DEF workers, runnerLink
  <2>4. QED BY <1>s, <1>n, <2>1, <2>2, <2>3
            DEF TypeInv, SpawnerTypeOK, Alive, workers, relay, runnerLink
<1>19. ASSUME NEW w \in Worker, ChildEvent(w) PROVE TypeInv'
  <2>1. ipc' \in [Worker -> Seq({"pre_restart", "exit 43", "exit"})]
    <3>1. Tail(ipc[w]) \in Seq({"pre_restart", "exit 43", "exit"})
      BY <1>19, <1>s, HeadTailProperties DEF ChildEvent, SpawnerTypeOK
    <3>2. QED BY <1>19, <1>s, <3>1 DEF ChildEvent, SpawnerTypeOK
  <2>2. /\ restarting' \in BOOLEAN /\ killed' \in BOOLEAN /\ files' \in BOOLEAN
        /\ UNCHANGED <<start, asked, online, relay, runnerLink>>
        /\ doomed' \subseteq Worker /\ astray' \subseteq Worker
    BY <1>19, <1>s
       DEF ChildEvent, SpawnerTypeOK, ExitCleanup, Respawn, LosesTrack, LiftedIf, Up, observed
  <2>3. /\ BornInOrder' /\ entry' \in {"none", "child", "adopted"}
        /\ entry' = "child" => Latest' \in child'
        /\ child' \subseteq Worker
        /\ proc' \in [Worker -> {"unborn", "up", "stopping", "gone"}]
        /\ \A v \in Worker : Alive(v) => Alive(v)'
    <3>1. CASE Spawn(child \ {w})
      <4>1. /\ entry' = "child" /\ Latest' \in Worker /\ proc[Latest'] = "unborn"
            /\ proc' = [proc EXCEPT ![Latest'] = "up"]
            /\ child' = (child \ {w}) \cup {Latest'} /\ BornInOrder'
        BY <1>s, <3>1, SpawnEffect DEF SpawnerTypeOK
      <4>2. QED BY <1>s, <4>1 DEF SpawnerTypeOK, Alive
    <3>2. CASE UNCHANGED proc /\ child' \subseteq child /\ (entry' = "none" \/ UNCHANGED <<entry, child>>)
      BY <1>s, <1>u, <3>2 DEF SpawnerTypeOK, Alive
    <3>3. QED BY <1>19, <3>1, <3>2 DEF ChildEvent
  <2>4. QED BY <1>s, <1>r, <2>1, <2>2, <2>3
            DEF TypeInv, SpawnerTypeOK, start, relay, runnerLink
<1>20. CASE DaemonStop
  <2>1. BornInOrder' /\ Latest' = Latest
    BY <1>20, <1>e DEF DaemonStop
  <2>2. PICK ws : Stop(ws)
    BY <1>20 DEF DaemonStop
  <2>3. /\ proc' \in [Worker -> {"unborn", "up", "stopping", "gone"}]
        /\ \A w \in Worker : Alive(w) => Alive(w)'
    BY <1>s, <2>2, StopEffect DEF SpawnerTypeOK, Alive
  <2>4. ipc' \in [Worker -> Seq({"pre_restart", "exit 43", "exit"})]
    BY <1>20 DEF DaemonStop
  <2>5. /\ daemon' = FALSE /\ entry' = "none" /\ restarting' = FALSE /\ killed' = FALSE
        /\ adopting' = <<>> /\ ready' = FALSE /\ child' = {}
        /\ starting' = 0 /\ sweeps' = [w \in Worker |-> 0]
        /\ link' = FALSE /\ toDaemon' = <<>> /\ toRelay' = <<>>
        /\ UNCHANGED <<asked, online, files, relay>>
    BY <1>20 DEF DaemonStop
  <2>6. doomed' \subseteq Worker /\ astray' \subseteq Worker
    BY <1>20, <1>s DEF DaemonStop, LosesTrack, LiftedIf, Up, SpawnerTypeOK
  <2>7. QED BY <1>s, <1>z, <1>n, <2>1, <2>3, <2>4, <2>5, <2>6 DEF TypeInv, SpawnerTypeOK, relay
<1>21. CASE DaemonStart
  BY <1>21, <1>s, <1>u, <1>r
     DEF TypeInv, SpawnerTypeOK, observed, DaemonStart, Alive, tables, workers, relay, runnerLink
<1>22. CASE UNCHANGED vars
  BY ZenonT(40), <1>22, <1>s, <1>u, <1>r
     DEF TypeInv, SpawnerTypeOK, observed, vars, Alive, tables, start, workers, relay, runnerLink
<1>24. CASE FindOffline
  <2>1. waking' \in Nat
    <3>1. waking \in Nat
      BY <1>s DEF SpawnerTypeOK
    <3>2. waking' = waking + 1
      BY <1>24 DEF FindOffline
    <3>3. QED BY <3>1, <3>2
  <2>2. QED BY ZenonT(40), <1>24, <1>s, <1>u, <1>r, <2>1
            DEF TypeInv, SpawnerTypeOK, FindOffline, Alive, tables, start, workers, runnerLink,
                observed
<1>25. CASE TranscriptFound
  <2>1. starting' \in Nat /\ starting # 0 /\ doomed' \subseteq Worker
    <3>1. doomed' \subseteq Worker
      BY <1>25, <1>s DEF TranscriptFound, LiftedIf, SpawnerTypeOK
    <3>2. starting > 0 /\ starting' = starting - 1
      BY <1>25 DEF TranscriptFound
    <3>3. starting \in Nat
      BY <1>s DEF SpawnerTypeOK
    <3>4. QED BY <3>1, <3>2, <3>3
  <2>2. /\ New
        /\ UNCHANGED <<daemon, adopting, ready, sweeps, ipc, asked, online, files, relay,
                       runnerLink, astray>>
    BY <1>25 DEF TranscriptFound
  <2>3. /\ BornInOrder' /\ entry' \in {"none", "child", "adopted"}
        /\ entry' = "child" => Latest' \in child'
        /\ restarting' \in BOOLEAN /\ killed' \in BOOLEAN /\ child' \subseteq Worker
        /\ proc' \in [Worker -> {"unborn", "up", "stopping", "gone"}]
        /\ \A v \in Worker : Alive(v) => Alive(v)'
    <3>1. CASE Spawn(child) /\ UNCHANGED <<restarting, killed>>
      <4>1. /\ entry' = "child" /\ Latest' \in Worker /\ proc[Latest'] = "unborn"
            /\ proc' = [proc EXCEPT ![Latest'] = "up"]
            /\ child' = child \cup {Latest'} /\ BornInOrder'
        BY <1>s, <3>1, SpawnEffect DEF SpawnerTypeOK
      <4>2. QED BY <1>s, <3>1, <4>1 DEF SpawnerTypeOK, Alive
    <3>2. CASE UNCHANGED <<entry, proc, child, restarting, killed>>
      BY <1>s, <1>u, <3>2 DEF SpawnerTypeOK, Alive
    <3>3. QED BY <2>2, <3>1, <3>2 DEF New
  <2>4. daemon
    BY <1>s, <2>1 DEF SpawnerTypeOK
  <2>5. QED BY <1>s, <1>r, <2>1, <2>2, <2>3, <2>4
            DEF TypeInv, SpawnerTypeOK, relay, runnerLink
<1>26. ASSUME NEW w \in Worker, SweepFiles(w) PROVE TypeInv'
  <2>1. sweeps' \in [Worker -> Nat] /\ daemon
    <3>1. sweeps \in [Worker -> Nat] /\ (~daemon => sweeps[w] = 0)
      BY <1>26, <1>s DEF SpawnerTypeOK
    <3>2. sweeps[w] > 0 /\ sweeps' = [sweeps EXCEPT ![w] = @ - 1]
      BY <1>26 DEF SweepFiles
    <3>3. PICK n \in Nat : n = sweeps[w]
      BY <3>1
    <3>4. n > 0 /\ n - 1 \in Nat
      BY <3>2, <3>3
    <3>5. sweeps' = [sweeps EXCEPT ![w] = n - 1]
      BY <3>2, <3>3
    <3>6. sweeps' \in [Worker -> Nat]
      BY <3>1, <3>4, <3>5
    <3>7. sweeps[w] # 0
      BY <3>3, <3>4
    <3>8. QED BY <3>1, <3>6, <3>7
  <2>2. /\ files' = FALSE
        /\ UNCHANGED <<tables, daemon, adopting, ready, starting, workers, relay, runnerLink,
                       observed>>
    BY <1>26 DEF SweepFiles
  <2>3. QED BY <1>s, <1>u, <1>r, <2>1, <2>2
            DEF TypeInv, SpawnerTypeOK, Alive, tables, workers, relay, runnerLink, observed
<1>27. QED
  BY <1>1, <1>2, <1>3, <1>4, <1>5, <1>6, <1>8, <1>9, <1>11, <1>12, <1>13, <1>14, <1>15,
     <1>16, <1>17, <1>18, <1>19, <1>20, <1>21, <1>22, <1>24, <1>25, <1>26 DEF Next, WorkerNext, DaemonNext

\* The entries of the tables, the frames, the processes and the channels keep
\* their types; an entry with a child always has its latest worker's channel.
THEOREM SpawnerTypeCorrect == Spec => []SpawnerTypeOK
<1>1. TypeInv => SpawnerTypeOK
  BY DEF TypeInv
<1>2. QED BY <1>1, TypeInit, TypeStep, PTL DEF Spec

-----------------------------------------------------------------------------
(* The inductive invariant.                                                *)

\* A worker that runs, and that the daemon has not lost track of, is a session
\* of its table, and the latest one started if it is a child there.
Tracked == \A w \in Up \ astray : entry # "none" /\ (entry = "child" => w = Latest)

\* A kill that was not lifted is remembered, and the session out of the table.
KillHolds == doomed # {} => killed /\ entry = "none"

\* A sweep that would take the session's files began before its child was
\* started.
SweepsOlder ==
  \A w \in Worker : sweeps[w] > 0 => w <= Latest /\ (entry = "child" => w < Latest)

\* The inductive invariant.
SpawnerInv == TypeInv /\ Tracked /\ OneWorker /\ KillHolds /\ SweepsOlder

\* A step starts no worker.
Fewer == \A w \in Worker : /\ proc'[w] = "unborn" <=> proc[w] = "unborn"
                           /\ proc'[w] = "up" => proc[w] = "up"

\* A step begins no sweep of the session's files.
NoNewSweep == \A w \in Worker : sweeps'[w] > 0 => sweeps[w] > 0

\* Telling workers to stop, and the death of one, starts none.
LEMMA FewerIs ==
  ASSUME TypeInv,
         \/ UNCHANGED proc
         \/ \E ws : Stop(ws)
         \/ \E w \in Worker : Alive(w) /\ proc' = [proc EXCEPT ![w] = "gone"]
  PROVE  Fewer /\ Latest' = Latest
<1>1. proc \in [Worker -> {"unborn", "up", "stopping", "gone"}] /\ BornInOrder
  BY DEF TypeInv, SpawnerTypeOK
<1>2. CASE UNCHANGED proc
  BY <1>2 DEF Fewer, Latest
<1>3. ASSUME NEW ws, Stop(ws) PROVE Fewer /\ Latest' = Latest
  BY <1>1, <1>3, StopEffect, SameBirths DEF Fewer
<1>4. ASSUME NEW w \in Worker, Alive(w), proc' = [proc EXCEPT ![w] = "gone"]
      PROVE  Fewer /\ Latest' = Latest
  <2>1. \A v \in Worker : /\ proc'[v] = "unborn" <=> proc[v] = "unborn"
                          /\ proc'[v] = "up" => proc[v] = "up"
    BY <1>1, <1>4 DEF Alive
  <2>2. Latest' = Latest
    BY <1>1, <2>1, SameBirths
  <2>3. QED BY <2>1, <2>2 DEF Fewer
<1>5. QED BY <1>2, <1>3, <1>4

\* What is left of sweeps as the session stays, or is no child.
LEMMA SweepsKept ==
  ASSUME SweepsOlder, NoNewSweep, Latest' = Latest, entry' = "child" => entry = "child"
  PROVE  SweepsOlder'
BY DEF SweepsOlder, NoNewSweep

\* The tables are left alone, and no worker is started.
LEMMA KeptQuietly ==
  ASSUME SpawnerInv, TypeInv', Fewer, Latest' = Latest, NoNewSweep,
         UNCHANGED <<entry, killed, observed>>
  PROVE  SpawnerInv'
<1>1. Up' \subseteq Up
  BY DEF Fewer, Up
<1>2. Tracked'
  BY <1>1 DEF SpawnerInv, Tracked, observed
<1>3. OneWorker'
  BY <1>1 DEF SpawnerInv, OneWorker, observed
<1>4. KillHolds'
  BY DEF SpawnerInv, KillHolds, observed
<1>5. SweepsOlder'
  BY SweepsKept DEF SpawnerInv
<1>6. QED BY <1>2, <1>3, <1>4, <1>5 DEF SpawnerInv

\* No worker runs that the daemon has not lost track of.
LEMMA KeptUntracked ==
  ASSUME SpawnerInv, TypeInv', Fewer, Latest' = Latest, NoNewSweep,
         entry' = "none", Up' \subseteq astray', KillHolds'
  PROVE  SpawnerInv'
<1>1. Tracked' /\ OneWorker'
  BY DEF Tracked, OneWorker
<1>2. SweepsOlder'
  BY SweepsKept DEF SpawnerInv
<1>3. QED BY <1>1, <1>2 DEF SpawnerInv

\* A worker is started as the daemon knows of no other.
LEMMA KeptBySpawn ==
  ASSUME SpawnerInv, TypeInv', NEW others, Spawn(others), Up \subseteq astray',
         doomed' = {}, UNCHANGED sweeps
  PROVE  SpawnerInv'
<1>1. /\ entry' = "child" /\ Latest' \in Worker /\ Latest' = Latest + 1
      /\ proc' = [proc EXCEPT ![Latest'] = "up"]
      /\ proc \in [Worker -> {"unborn", "up", "stopping", "gone"}]
  BY SpawnEffect DEF SpawnerInv, TypeInv, SpawnerTypeOK
<1>2. \A w \in Up' : w = Latest' \/ w \in astray'
  BY <1>1 DEF Up
<1>3. Tracked' /\ OneWorker'
  BY <1>1, <1>2 DEF Tracked, OneWorker
<1>4. KillHolds'
  BY DEF KillHolds
<1>5. SweepsOlder'
  <2> SUFFICES ASSUME NEW w \in Worker, sweeps[w] > 0 PROVE w <= Latest' /\ w < Latest'
    BY DEF SweepsOlder
  <2>1. w <= Latest
    BY DEF SpawnerInv, SweepsOlder
  <2>2. Latest \in Nat /\ w \in Nat
    BY LatestBorn, FirstWorker DEF SpawnerInv, TypeInv
  <2>3. PICK n : n = Latest'
    OBVIOUS
  <2>4. n = Latest + 1
    BY <1>1, <2>3
  <2>5. w <= n /\ w < n
    BY <2>1, <2>2, <2>4
  <2>6. QED BY <2>3, <2>5
<1>6. QED BY <1>3, <1>4, <1>5 DEF SpawnerInv

\* The latest worker is not later than itself.
LEMMA LatestReached == BornInOrder => Latest <= Latest
<1>1. BornInOrder => Latest \in Nat
  BY LatestBorn, FirstWorker
<1>2. \A n \in Nat : n <= n
  OBVIOUS
<1>3. QED BY <1>1, <1>2

\* A session is adopted, or not, and sweeps are begun.
LEMMA KeptByAdopt ==
  ASSUME SpawnerInv, TypeInv', NEW lists \in Seq({"", "listed"}), Adopt(lists),
         UNCHANGED <<killed, proc>>
  PROVE  SpawnerInv'
<1>1. /\ entry' = entry \/ (entry = "none" /\ entry' = "adopted")
      /\ \A w \in Worker : sweeps'[w] # sweeps[w] => w = Latest /\ entry = "none"
  BY AdoptTypes DEF SpawnerInv, TypeInv
<1>2. Up' = Up /\ Latest' = Latest
  BY DEF Up, Latest
<1>3. ASSUME entry' # entry PROVE Tracked' /\ OneWorker' /\ KillHolds'
  <2>1. entry' = "adopted" /\ doomed' = {}
    BY <1>1, <1>3 DEF Adopt, AdoptedBy, LiftedIf
  <2>2. Tracked' /\ KillHolds'
    BY <2>1 DEF Tracked, KillHolds
  <2>3. astray' = astray \/ \A v, w \in Up : v = w
    BY DEF Adopt, AdoptedBy
  <2>4. OneWorker'
    BY <1>2, <2>3 DEF SpawnerInv, OneWorker
  <2>5. QED BY <2>2, <2>4
<1>4. ASSUME entry' = entry PROVE Tracked' /\ OneWorker' /\ KillHolds'
  <2>1. astray' = astray /\ doomed' \in {doomed, {}}
    BY <1>4 DEF Adopt, AdoptedBy, LiftedIf
  <2>2. Tracked' /\ OneWorker' /\ KillHolds'
    BY <1>2, <1>4, <2>1 DEF SpawnerInv, Tracked, OneWorker, KillHolds
  <2>3. QED BY <2>2
<1>5. SweepsOlder'
  <2> SUFFICES ASSUME NEW w \in Worker, sweeps'[w] > 0
               PROVE  w <= Latest /\ (entry' = "child" => w < Latest)
    BY <1>2 DEF SweepsOlder
  <2>1. CASE sweeps'[w] = sweeps[w]
    BY <1>1, <2>1 DEF SpawnerInv, SweepsOlder
  <2>2. CASE sweeps'[w] # sweeps[w]
    <3>1. w = Latest /\ entry' # "child"
      BY <1>1, <2>2
    <3>2. QED BY <3>1, LatestReached DEF SpawnerInv, TypeInv
  <2>3. QED BY <2>1, <2>2
<1>6. QED BY <1>3, <1>4, <1>5 DEF SpawnerInv

\* Initially nothing is killed, lost or swept.
LEMMA SpawnerInvInit == Init => SpawnerInv
<1> SUFFICES ASSUME Init PROVE SpawnerInv
  OBVIOUS
<1>1. TypeInv
  BY TypeInit
<1>2. Up = {1} /\ entry = "child" /\ doomed = {} /\ \A w \in Worker : sweeps[w] = 0
  BY FirstWorker DEF Init, Up
<1>3. Latest = 1
  <2>1. \A w \in Worker : proc[w] # "unborn" <=> w <= 1
    BY FirstWorker DEF Init, Worker
  <2>2. QED BY <2>1, FirstWorker, LatestIs DEF Latest
<1>4. Tracked /\ OneWorker /\ KillHolds
  BY <1>2, <1>3 DEF Tracked, OneWorker, KillHolds
<1>5. SweepsOlder
  <2>1. \A w \in Worker : ~(sweeps[w] > 0)
    BY <1>2
  <2>2. QED BY <2>1 DEF SweepsOlder
<1>6. QED BY <1>1, <1>4, <1>5 DEF SpawnerInv

\* No sweep is begun as none is touched.
LEMMA SameSweeps == UNCHANGED sweeps => NoNewSweep
BY DEF NoNewSweep

\* What workers, the relay and the disk do by themselves.
LEMMA QuietSteps ==
  ASSUME SpawnerInv, TypeInv',
         \/ \E w \in Worker : \/ ExitRestart(w) \/ Exit(w) \/ WorkerDrop(w) \/ Register(w)
                              \/ SweepFiles(w)
         \/ SaveFiles \/ AskRestart \/ RelayClosed \/ Sweep \/ FindOffline \/ Wake
         \/ KillSession \/ RelaySee \/ Cut \/ LinkDrop \/ LinkUp \/ DaemonStart
         \/ UNCHANGED vars
  PROVE  SpawnerInv'
<1>1. UNCHANGED <<entry, killed, observed>>
  BY DEF ExitRestart, Exit, WorkerDrop, Register, SweepFiles, SaveFiles, AskRestart, RelayClosed,
         Sweep, FindOffline, Wake, KillSession, RelaySee, Cut, LinkDrop, LinkUp, DaemonStart,
         vars, tables
<1>2. \/ UNCHANGED proc
      \/ \E ws : Stop(ws)
      \/ \E w \in Worker : Alive(w) /\ proc' = [proc EXCEPT ![w] = "gone"]
  BY DEF ExitRestart, Exit, Die, WorkerDrop, Register, SweepFiles, SaveFiles, AskRestart,
         RelayClosed, Sweep, FindOffline, Wake, KillSession, RelaySee, Cut, LinkDrop, LinkUp,
         DaemonStart, vars, workers
<1>3. NoNewSweep
  <2>1. UNCHANGED sweeps \/ \E w \in Worker : SweepFiles(w)
    BY DEF ExitRestart, Exit, WorkerDrop, Register, SaveFiles, AskRestart, RelayClosed,
           Sweep, FindOffline, Wake, KillSession, RelaySee, Cut, LinkDrop, LinkUp, DaemonStart,
           vars, start
  <2>2. ASSUME NEW w \in Worker, SweepFiles(w) PROVE NoNewSweep
    <3>1. sweeps \in [Worker -> Nat]
      BY DEF SpawnerInv, TypeInv, SpawnerTypeOK
    <3>2. sweeps[w] > 0 /\ sweeps' = [sweeps EXCEPT ![w] = @ - 1]
      BY <2>2 DEF SweepFiles
    <3>3. \A v \in Worker : v # w => sweeps'[v] = sweeps[v]
      BY <3>1, <3>2
    <3>4. QED BY <3>2, <3>3 DEF NoNewSweep
  <2>3. QED BY <2>1, <2>2, SameSweeps
<1>4. Fewer /\ Latest' = Latest
  BY <1>2, FewerIs DEF SpawnerInv
<1>5. QED BY <1>1, <1>3, <1>4, KeptQuietly

\* A worker is started for new_session, or none is.
LEMMA NewStep ==
  ASSUME SpawnerInv, TypeInv', New, LiftedIf(entry' # entry), UNCHANGED <<sweeps, astray>>
  PROVE  SpawnerInv'
<1>1. CASE entry = "none" /\ Spawn(child)
  <2>1. Up \subseteq astray'
    BY <1>1 DEF SpawnerInv, Tracked
  <2>2. doomed' = {}
    BY <1>1 DEF Spawn, LiftedIf
  <2>3. QED BY <1>1, <2>1, <2>2, KeptBySpawn
<1>2. CASE UNCHANGED <<entry, proc, killed>>
  <2>1. UNCHANGED observed
    BY <1>2 DEF LiftedIf, observed
  <2>2. Fewer /\ Latest' = Latest
    BY <1>2, FewerIs DEF SpawnerInv
  <2>3. QED BY <1>2, <2>1, <2>2, SameSweeps, KeptQuietly
<1>3. QED BY <1>1, <1>2 DEF New

\* The worker of a session that the daemon kills, or forgets.
LEMMA KillStep ==
  ASSUME SpawnerInv, TypeInv', Kill, UNCHANGED sweeps
  PROVE  SpawnerInv'
<1>1. UNCHANGED proc \/ \E ws : Stop(ws)
  BY DEF Kill
<1>2. Fewer /\ Latest' = Latest
  BY <1>1, FewerIs DEF SpawnerInv
<1>3. proc \in [Worker -> {"unborn", "up", "stopping", "gone"}]
  BY DEF SpawnerInv, TypeInv, SpawnerTypeOK
<1>4. Up' \subseteq Up
  BY <1>2 DEF Fewer, Up
<1>5. CASE entry = "child" /\ killed' = TRUE /\ Stop({Latest}) /\ UNCHANGED astray
  <2>1. Latest \notin Up'
    BY <1>3, <1>5, StopEffect DEF Up
  <2>2. Up' \subseteq astray'
    BY <1>4, <1>5, <2>1 DEF SpawnerInv, Tracked
  <2>3. KillHolds'
    BY <1>5 DEF Kill, KillHolds
  <2>4. entry' = "none"
    BY DEF Kill
  <2>5. QED BY <1>2, <2>2, <2>3, <2>4, SameSweeps, KeptUntracked
<1>6. CASE entry = "adopted" /\ LosesTrack /\ UNCHANGED <<killed, proc, doomed>>
  <2>1. Up' \subseteq astray'
    BY <1>4, <1>6 DEF LosesTrack
  <2>2. KillHolds'
    BY <1>6 DEF SpawnerInv, KillHolds
  <2>3. entry' = "none"
    BY DEF Kill
  <2>4. QED BY <1>2, <2>1, <2>2, <2>3, SameSweeps, KeptUntracked
<1>7. CASE entry = "none" /\ UNCHANGED <<killed, proc, observed>>
  <2>1. UNCHANGED entry
    BY <1>7 DEF Kill
  <2>2. QED BY <1>2, <1>7, <2>1, SameSweeps, KeptQuietly
<1>8. QED BY <1>5, <1>6, <1>7 DEF Kill

\* A session_ended that the daemon honours, or does not.
LEMMA EndStep ==
  ASSUME SpawnerInv, TypeInv', NEW reason, SessionEnded(reason),
         IF Forgotten(reason) THEN LosesTrack ELSE UNCHANGED astray,
         UNCHANGED <<proc, sweeps, doomed>>
  PROVE  SpawnerInv'
<1>1. Fewer /\ Latest' = Latest
  BY FewerIs DEF SpawnerInv
<1>2. CASE Forgotten(reason)
  <2>1. entry # "none" /\ entry' = "none"
    BY <1>2 DEF SessionEnded, Forgotten
  <2>2. Up' \subseteq astray'
    BY <1>2 DEF LosesTrack, Up
  <2>3. KillHolds'
    BY <2>1 DEF SpawnerInv, KillHolds
  <2>4. QED BY <1>1, <2>1, <2>2, <2>3, SameSweeps, KeptUntracked
<1>3. CASE ~Forgotten(reason)
  <2>1. UNCHANGED astray
    BY <1>3
  <2>2. UNCHANGED <<entry, killed>> \/ (entry = "none" /\ entry' = "none"
                                        /\ killed' = (killed /\ entry = "none"))
    <3>1. entry \in {"none", "child", "adopted"}
      BY DEF SpawnerInv, TypeInv, SpawnerTypeOK
    <3>2. QED BY <1>3, <3>1 DEF SessionEnded, Forgotten, tables
  <2>3. UNCHANGED entry
    BY <2>2
  <2>4. Up' = Up
    BY DEF Up
  <2>5. Tracked' /\ OneWorker'
    BY <1>1, <2>1, <2>3, <2>4 DEF SpawnerInv, Tracked, OneWorker
  <2>6. KillHolds'
    <3>1. CASE UNCHANGED <<entry, killed>>
      BY <3>1 DEF SpawnerInv, KillHolds
    <3>2. CASE entry = "none" /\ entry' = "none" /\ killed' = (killed /\ entry = "none")
      BY <3>2 DEF SpawnerInv, KillHolds
    <3>3. QED BY <2>2, <3>1, <3>2
  <2>7. SweepsOlder'
    BY <1>1, <2>3, SameSweeps, SweepsKept DEF SpawnerInv
  <2>8. QED BY <2>5, <2>6, <2>7 DEF SpawnerInv
<1>4. QED BY <1>2, <1>3

\* The daemon takes a frame, a transcript is found, or plugins are discovered.
LEMMA DaemonSteps ==
  ASSUME SpawnerInv, TypeInv', DaemonSee \/ TranscriptFound \/ PluginsReady
  PROVE  SpawnerInv'
<1>1. CASE DaemonSee
  <2> DEFINE f == Head(toDaemon)
  <2>1. CASE New /\ LiftedIf(entry' # entry) /\ UNCHANGED <<sweeps, astray>>
    BY <2>1, NewStep
  <2>2. CASE UNCHANGED <<tables, proc, sweeps, observed>>
    <3>1. Fewer /\ Latest' = Latest
      BY <2>2, FewerIs DEF SpawnerInv
    <3>2. UNCHANGED <<entry, killed>>
      BY <2>2 DEF tables
    <3>3. QED BY <2>2, <3>1, <3>2, SameSweeps, KeptQuietly
  <2>3. CASE Kill /\ UNCHANGED sweeps
    BY <2>3, KillStep
  <2>4. CASE /\ SessionEnded(f.arg)
             /\ IF Forgotten(f.arg) THEN LosesTrack ELSE UNCHANGED astray
             /\ UNCHANGED <<proc, sweeps, doomed>>
    <3> HIDE DEF f
    <3>1. QED BY <2>4, EndStep
  <2>5. CASE f.kind = "registered" /\ Adopt(<<f.arg>>) /\ UNCHANGED <<killed, proc>>
    <3>1. toDaemon # <<>> /\ toDaemon' = Tail(toDaemon) /\ UNCHANGED link
      BY <1>1 DEF DaemonSee
    <3>2. f.arg \in {"", "listed"}
      BY <2>5, <3>1, TakingTypes DEF SpawnerInv
    <3>3. <<f.arg>> \in Seq({"", "listed"})
      <4>1. PICK a \in {"", "listed"} : a = f.arg
        BY <3>2
      <4>2. <<a>> \in Seq({"", "listed"})
        BY Pair
      <4>3. QED BY <4>1, <4>2
    <3>4. QED BY <2>5, <3>3, KeptByAdopt
  <2>6. CASE UNCHANGED <<entry, killed, proc, sweeps, observed>>
    <3>1. Fewer /\ Latest' = Latest
      BY <2>6, FewerIs DEF SpawnerInv
    <3>2. QED BY <2>6, <3>1, SameSweeps, KeptQuietly
  <2>7. QED BY <1>1, <2>1, <2>2, <2>3, <2>4, <2>5, <2>6 DEF DaemonSee, observed
<1>2. CASE TranscriptFound
  BY <1>2, NewStep DEF TranscriptFound
<1>3. CASE PluginsReady
  <2>1. Adopt(adopting) /\ UNCHANGED <<killed, proc>>
    BY <1>3 DEF PluginsReady, workers
  <2>2. adopting \in Seq({"", "listed"})
    BY DEF SpawnerInv, TypeInv, SpawnerTypeOK
  <2>3. QED BY <2>1, <2>2, KeptByAdopt
<1>4. QED BY <1>1, <1>2, <1>3

\* A message of a child, or its exit, after which it may be started again.
LEMMA ChildSteps ==
  ASSUME SpawnerInv, TypeInv', NEW w \in Worker, ChildEvent(w)
  PROVE  SpawnerInv'
<1> DEFINE e == Head(ipc[w])
<1>1. UNCHANGED sweeps
  BY DEF ChildEvent, start
<1>2. CASE UNCHANGED <<entry, killed, proc, observed>>
  <2>1. Fewer /\ Latest' = Latest
    BY <1>2, FewerIs DEF SpawnerInv
  <2>2. QED BY <1>1, <1>2, <2>1, SameSweeps, KeptQuietly
<1>3. CASE LosesTrack /\ LiftedIf(TRUE) /\ Spawn(child \ {w})
  <2>1. Up \subseteq astray' /\ doomed' = {}
    BY <1>3 DEF LosesTrack, LiftedIf
  <2>2. QED BY <1>1, <1>3, <2>1, KeptBySpawn
<1>4. CASE LosesTrack /\ LiftedIf(TRUE) /\ entry' = "none" /\ UNCHANGED proc
  <2>1. Up' \subseteq astray' /\ KillHolds'
    BY <1>4 DEF LosesTrack, LiftedIf, Up, KillHolds
  <2>2. Fewer /\ Latest' = Latest
    BY <1>4, FewerIs DEF SpawnerInv
  <2>3. QED BY <1>1, <1>4, <2>1, <2>2, SameSweeps, KeptUntracked
<1>5. QED BY <1>2, <1>3, <1>4 DEF ChildEvent

\* The daemon exits: it knows of no worker any more.
LEMMA StopStep ==
  ASSUME SpawnerInv, TypeInv', DaemonStop
  PROVE  SpawnerInv'
<1>1. /\ \E ws : Stop(ws)
      /\ entry' = "none" /\ LosesTrack /\ LiftedIf(TRUE)
      /\ sweeps' = [v \in Worker |-> 0]
  BY DEF DaemonStop
<1>2. Fewer /\ Latest' = Latest
  BY <1>1, FewerIs DEF SpawnerInv
<1>3. Up' \subseteq astray' /\ KillHolds'
  BY <1>1, <1>2 DEF Fewer, LosesTrack, LiftedIf, Up, KillHolds
<1>4. NoNewSweep
  <2>1. \A v \in Worker : ~(sweeps'[v] > 0)
    BY <1>1
  <2>2. QED BY <2>1 DEF NoNewSweep
<1>5. QED BY <1>1, <1>2, <1>3, <1>4, KeptUntracked

\* Every step keeps the invariant.
LEMMA SpawnerInvStep == SpawnerInv /\ [Next]_vars => SpawnerInv'
<1> SUFFICES ASSUME SpawnerInv, [Next]_vars PROVE SpawnerInv'
  OBVIOUS
<1>1. TypeInv'
  BY TypeStep DEF SpawnerInv
<1>2. CASE \/ \E w \in Worker : \/ ExitRestart(w) \/ Exit(w) \/ WorkerDrop(w) \/ Register(w)
                                \/ SweepFiles(w)
           \/ SaveFiles \/ AskRestart \/ RelayClosed \/ Sweep \/ FindOffline \/ Wake
           \/ KillSession \/ RelaySee \/ Cut \/ LinkDrop \/ LinkUp \/ DaemonStart
           \/ UNCHANGED vars
  BY <1>1, <1>2, QuietSteps
<1>3. CASE \E w \in Worker : ChildEvent(w)
  BY <1>1, <1>3, ChildSteps
<1>4. CASE DaemonSee \/ TranscriptFound \/ PluginsReady
  BY <1>1, <1>4, DaemonSteps
<1>5. CASE DaemonStop
  BY <1>1, <1>5, StopStep
<1>6. QED BY <1>2, <1>3, <1>4, <1>5 DEF Next, WorkerNext, DaemonNext

\* It holds in every behaviour.
LEMMA SpawnerInvHolds == Spec => []SpawnerInv
BY SpawnerInvInit, SpawnerInvStep, PTL DEF Spec

-----------------------------------------------------------------------------
(* The theorems.                                                           *)

\* However restarts, wakes, kills, adoptions, lost connections and exits of the
\* daemon interleave, two workers of a session never work at the same time, but
\* for those the daemon lost track of while they ran.
THEOREM OneWorkerRuns == Spec => []OneWorker
<1>1. SpawnerInv => OneWorker
  BY DEF SpawnerInv
<1>2. QED BY <1>1, SpawnerInvHolds, PTL

\* A worker that the daemon was told to kill is not started again when its exit
\* is taken, whatever code it exits with: the kill stays remembered until then,
\* past every session_ended, if no other worker's start, exit or adoption lifts it.
THEOREM KilledStayDead == Spec => KilledStaysDead
<1>1. ASSUME SpawnerInv, [Next]_vars, NEW w \in doomed \cap (child \ child'),
             NEW v \in Worker, proc[v] = "unborn"
      PROVE  proc'[v] = "unborn"
  <2>1. \/ UNCHANGED child \/ DaemonSee \/ TranscriptFound \/ DaemonStop
        \/ \E u \in Worker : ChildEvent(u)
    BY <1>1 DEF Next, WorkerNext, DaemonNext, ExitRestart, Exit, Die, WorkerDrop, Register, SweepFiles,
                SaveFiles, AskRestart, RelayClosed, Sweep, FindOffline, Wake, KillSession,
                RelaySee, Cut, LinkDrop, LinkUp, PluginsReady, DaemonStart, vars, workers
  <2>2. CASE DaemonSee \/ TranscriptFound
    <3>1. child \subseteq child'
      BY <2>2 DEF DaemonSee, TranscriptFound, New, Spawn
    <3>2. QED BY <1>1, <3>1
  <2>3. CASE DaemonStop
    <3>1. proc \in [Worker -> {"unborn", "up", "stopping", "gone"}]
      BY <1>1 DEF SpawnerInv, TypeInv, SpawnerTypeOK
    <3>2. PICK ws : Stop(ws)
      BY <2>3 DEF DaemonStop
    <3>3. QED BY <1>1, <3>1, <3>2, StopEffect
  <2>4. ASSUME NEW u \in Worker, ChildEvent(u) PROVE proc'[v] = "unborn"
    <3>1. killed
      BY <1>1 DEF SpawnerInv, KillHolds
    <3>2. UNCHANGED proc
      BY <2>4, <3>1 DEF ChildEvent, Respawn
    <3>3. QED BY <1>1, <3>2
  <2>5. QED BY <1>1, <2>1, <2>2, <2>3, <2>4
<1>2. SpawnerInv /\ [Next]_vars =>
        [\A w \in doomed \cap (child \ child') :
           \A v \in Worker : proc[v] = "unborn" => proc'[v] = "unborn"]_vars
  BY <1>1
<1>3. QED BY <1>2, SpawnerInvHolds, PTL DEF Spec, KilledStaysDead

\* No restart in place, reconnect, late session_ended or sweep deletes the
\* attachments of a session while a worker is there to use them that the daemon
\* has started and not lost track of, but for a sweep that took its list of
\* sessions before the worker was started, or the session adopted.
THEOREM FilesAreKept == Spec => FilesKept
<1>1. ASSUME SpawnerInv, [Next]_vars, files, ~files', NEW w \in child' \ astray',
             proc'[w] = "up"
      PROVE  \E v \in Worker : sweeps'[v] < sweeps[v] /\ (v < w \/ entry = "adopted")
  <2>1. /\ SpawnerInv' /\ w \in Worker /\ w \in (Up \ astray)'
        /\ entry' # "none" /\ (entry' = "child" => w = Latest')
    <3>1. SpawnerInv'
      BY <1>1, SpawnerInvStep
    <3>2. w \in Worker
      BY <3>1 DEF SpawnerInv, TypeInv, SpawnerTypeOK
    <3>3. w \in (Up \ astray)'
      BY <1>1, <3>2 DEF Up
    <3>4. QED BY <3>1, <3>2, <3>3 DEF SpawnerInv, Tracked
  <2>2. DaemonSee \/ \E u \in Worker : ChildEvent(u) \/ SweepFiles(u)
    BY <1>1 DEF Next, WorkerNext, DaemonNext, ExitRestart, Exit, WorkerDrop, Register, SaveFiles,
                AskRestart, RelayClosed, Sweep, FindOffline, Wake, KillSession, RelaySee, Cut,
                LinkDrop, LinkUp, TranscriptFound, PluginsReady, DaemonStop, DaemonStart, vars
  <2>3. CASE DaemonSee
    <3>1. Kill \/ \E r : SessionEnded(r)
      BY <1>1, <2>3 DEF DaemonSee
    <3>2. entry' = "none"
      BY <1>1, <3>1 DEF Kill, SessionEnded
    <3>3. QED BY <2>1, <3>2
  <2>4. ASSUME NEW u \in Worker, ChildEvent(u) PROVE FALSE
    <3>1. entry' = "none"
      BY <1>1, <2>4 DEF ChildEvent, ExitCleanup
    <3>2. QED BY <2>1, <3>1
  <2>5. ASSUME NEW u \in Worker, SweepFiles(u)
        PROVE  \E v \in Worker : sweeps'[v] < sweeps[v] /\ (v < w \/ entry = "adopted")
    <3>1. sweeps[u] > 0 /\ sweeps'[u] < sweeps[u]
      <4>1. PICK k \in Nat : k = sweeps[u]
        BY <1>1 DEF SpawnerInv, TypeInv, SpawnerTypeOK
      <4>2. sweeps \in [Worker -> Nat] /\ sweeps' = [sweeps EXCEPT ![u] = @ - 1] /\ sweeps[u] > 0
        BY <1>1, <2>5 DEF SweepFiles, SpawnerInv, TypeInv, SpawnerTypeOK
      <4>3. sweeps'[u] = k - 1
        BY <4>1, <4>2
      <4>4. k - 1 < k
        OBVIOUS
      <4>5. QED BY <4>1, <4>2, <4>3, <4>4
    <3>2. UNCHANGED <<entry, proc>> /\ entry \in {"none", "child", "adopted"}
      BY <1>1, <2>5 DEF SweepFiles, tables, workers, SpawnerInv, TypeInv, SpawnerTypeOK
    <3>3. Latest' = Latest
      BY <3>2 DEF Latest
    <3>4. entry = "child" => u < w
      BY <1>1, <2>1, <3>1, <3>2, <3>3 DEF SpawnerInv, SweepsOlder
    <3>5. QED BY <2>1, <3>1, <3>2, <3>4
  <2>6. QED BY <2>2, <2>3, <2>4, <2>5
<1>2. SpawnerInv /\ [Next]_vars =>
        [files /\ ~files' =>
           \A w \in child' \ astray' : proc'[w] = "up" =>
             \E v \in Worker : sweeps'[v] < sweeps[v] /\ (v < w \/ entry = "adopted")]_vars
  BY <1>1
<1>3. QED BY <1>2, SpawnerInvHolds, PTL DEF Spec, FilesKept
=============================================================================
