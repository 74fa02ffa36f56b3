---------------------------- MODULE TraceProofs ----------------------------
(***************************************************************************)
(* Proofs about Trace, for every number of nodes, every set of looks and   *)
(* scenario files and every number of timesteps.                           *)
(***************************************************************************)
EXTENDS Trace, Induction

NodeColors == Nat \X Nat \X Nat

Info == [pos : Int \X Int, ar : Nat, color : NodeColors]

\* What the viewer should have for a node that looks like now.
Shown(now) ==
  [pos |-> <<Printed(now.pos[1]), Printed(now.pos[2])>>,
   ar |-> Printed(now.ar), color |-> now.color]

\* The LastInfo of node i after k frames.
LastOf(k, i) ==
  IF k = 0 THEN NoLast ELSE [ar |-> frames[k][i].ar, color |-> frames[k][i].color]

-----------------------------------------------------------------------------
(* Numbers and single elements                                             *)

\* What is printed is an integer, of the same sign, within half a digit.
LEMMA PrintedRounds ==
  ASSUME NEW x \in Int
  PROVE  /\ Printed(x) \in Int
         /\ x \in Nat => Printed(x) \in Nat
         /\ Rounds(x, Printed(x))
<1>1. CASE LastDigit(x) = 1
  BY <1>1 DEF Printed, Rounds
<1>2. CASE LastDigit(x) = 10
  <2>1. Printed(x) = 10 * ((x + 5) \div 10)
    BY <1>2 DEF Printed
  <2>. QED
    BY <1>2, <2>1 DEF Rounds
<1>3. CASE LastDigit(x) = 100
  <2>1. Printed(x) = 100 * ((x + 50) \div 100)
    BY <1>3 DEF Printed
  <2>. QED
    BY <1>3, <2>1 DEF Rounds
<1>. QED
  BY <1>1, <1>2, <1>3 DEF LastDigit

LEMMA ShownOK ==
  ASSUME NEW now \in Looks
  PROVE  Shown(now) \in Info /\ Restores(now, Shown(now))
<1>1. now.pos \in Int \X Int /\ now.ar \in Nat /\ now.color \in NodeColors
  BY TraceAssumption DEF NodeColors
<1>2. now.pos[1] \in Int /\ now.pos[2] \in Int
  BY <1>1
<1>3. Shown(now) \in Info
  BY <1>1, <1>2, PrintedRounds DEF Shown, Info
<1>4. /\ Rounds(now.pos[1], Printed(now.pos[1]))
      /\ Rounds(now.pos[2], Printed(now.pos[2]))
      /\ Rounds(now.ar, Printed(now.ar))
  BY <1>1, <1>2, PrintedRounds
<1>5. Restores(now, Shown(now))
  BY <1>4 DEF Restores, Shown
<1>. QED
  BY <1>3, <1>5

\* An NT element, decoded by a viewer that has the frame before, or none if
\* there was none: -1 stands for "nothing written" and nothing else.
LEMMA Decodes ==
  ASSUME NEW now \in Looks, NEW last, NEW infos,
         \/ last = NoLast /\ infos = <<>>
         \/ /\ infos # <<>>
            /\ \E before \in Looks :
                 /\ last = [ar |-> before.ar, color |-> before.color]
                 /\ Last(infos) = Shown(before)
  PROVE  NodeInfo(NT(last, now), infos) = Shown(now)
<1>. DEFINE nt == NT(last, now)
<1>1. now.ar \in Nat /\ now.color \in NodeColors
  BY TraceAssumption DEF NodeColors
<1>2. Printed(now.ar) \in Nat
  BY <1>1, PrintedRounds
<1>3. now.color # NoColor /\ now.color # <<-1, -1, -1>>
  <2>1. now.color[1] \in Nat
    BY <1>1 DEF NodeColors
  <2>2. now.color # <<-1, -1, -1>>
    BY <2>1
  <2>3. PICK r \in Nat, g \in Nat, b \in Nat : now.color = <<r, g, b>>
    BY <1>1 DEF NodeColors
  <2>4. <<r, g, b>> # <<>>
    <3>1. <<r, g, b>> = Append(<<r, g>>, b) /\ <<r, g>> \in Seq(Nat)
      OBVIOUS
    <3>. QED
      BY <3>1, AppendProperties
  <2>. QED
    BY <2>2, <2>3, <2>4 DEF NoColor
<1>4. NodeInfo(nt, infos).ar = Printed(now.ar)
  <2>1. CASE ArChanged(last, now)
    BY <1>2, <2>1 DEF NodeInfo, NT, Missing
  <2>2. CASE ~ArChanged(last, now)
    <3>1. last.ar = now.ar /\ last.ar # -1
      BY <2>2 DEF ArChanged
    <3>2. PICK before \in Looks :
             /\ last = [ar |-> before.ar, color |-> before.color]
             /\ Last(infos) = Shown(before) /\ infos # <<>>
      BY <3>1 DEF NoLast
    <3>3. nt.ar = Missing
      BY <2>2 DEF NT
    <3>4. NodeInfo(nt, infos).ar = Shown(before).ar
      BY <3>2, <3>3 DEF NodeInfo
    <3>. QED
      BY <3>1, <3>2, <3>4 DEF Shown
  <2>. QED
    BY <2>1, <2>2
<1>5. NodeInfo(nt, infos).color = now.color
  <2>1. CASE ColorChanged(last, now)
    BY <1>3, <2>1 DEF NodeInfo, NT
  <2>2. CASE ~ColorChanged(last, now)
    <3>1. last.color = now.color /\ last.color # <<-1, -1, -1>>
      BY <2>2 DEF ColorChanged
    <3>2. PICK before \in Looks :
             /\ last = [ar |-> before.ar, color |-> before.color]
             /\ Last(infos) = Shown(before) /\ infos # <<>>
      BY <3>1 DEF NoLast
    <3>3. nt.color = NoColor
      BY <2>2 DEF NT
    <3>4. NodeInfo(nt, infos).color = Shown(before).color
      BY <3>2, <3>3 DEF NodeInfo
    <3>. QED
      BY <3>1, <3>2, <3>4 DEF Shown
  <2>. QED
    BY <2>1, <2>2
<1>6. NodeInfo(nt, infos).pos = Shown(now).pos
  BY DEF NodeInfo, NT, Shown
<1>. QED
  BY <1>4, <1>5, <1>6 DEF NodeInfo, Shown

-----------------------------------------------------------------------------
(* The inductive invariant                                                 *)

\* What the recorder has written, and what it remembers of it.
Recorded ==
  /\ phase \in {"load", "run", "closed"}
  /\ frames \in Seq([Nodes -> Looks]) /\ Len(frames) <= MaxFrames
  /\ DOMAIN file = {"head", "times", "end"}
  /\ file.times \in Seq([Nodes -> [pos : Int \X Int, ar : Int,
                                   color : NodeColors \cup {NoColor}]])
  /\ Len(file.times) = Len(frames)
  /\ \A k \in 1 .. Len(frames), i \in Nodes :
       file.times[k][i] = NT(LastOf(k - 1, i), frames[k][i])
  /\ lasts = [i \in Nodes |-> LastOf(Len(frames), i)]
  /\ file.end = IF phase = "closed" THEN Len(frames) ELSE Missing

ViewerFields == {"state", "scenario", "head", "nodes", "time", "nodeCount", "loops"}

\* The infos node i has when the viewer is at frame time and node nodeCount.
Seen(i) ==
  IF viewer.time = 0 \/ i <= viewer.nodeCount THEN viewer.time ELSE viewer.time - 1

\* What the viewer has read is what was recorded.
Viewed ==
  /\ DOMAIN viewer = ViewerFields
  /\ viewer.state \in {"idle", "head", "times", "done", "failed"}
  /\ viewer.nodes \in Seq(Seq(Info)) /\ Len(viewer.nodes) <= NumNodes
  /\ viewer.time \in 0 .. Len(frames)
  /\ viewer.nodeCount \in 0 .. NumNodes
  /\ viewer.state = "head" =>
       /\ viewer.time = 0 /\ viewer.nodeCount = 0
       /\ \A i \in 1 .. Len(viewer.nodes) : viewer.nodes[i] = <<>>
  /\ viewer.state = "times" => viewer.time > 0
  /\ viewer.state \in {"times", "done"} =>
       /\ Len(viewer.nodes) = NumNodes
       /\ \A i \in Nodes :
            /\ Len(viewer.nodes[i]) = Seen(i)
            /\ \A k \in 1 .. Seen(i) : viewer.nodes[i][k] = Shown(frames[k][i])
  /\ viewer.state = "done" =>
       /\ phase = "closed" /\ viewer.loops = Len(frames)
       /\ viewer.time = Len(frames)
       /\ viewer.time > 0 => viewer.nodeCount = NumNodes

Inv == Recorded /\ Viewed

LEMMA InitInv == Init => Inv
<1>. SUFFICES ASSUME Init PROVE Inv
  OBVIOUS
<1>. USE DEF Init, NoFile, NoViewer, Missing
<1>1. NumNodes \in Nat /\ MaxFrames \in Nat
  BY TraceAssumption
<1>2. frames = <<>> /\ Len(frames) = 0 /\ Len(file.times) = 0
  BY EmptySeq
<1>3. lasts = [i \in Nodes |-> LastOf(0, i)]
  BY DEF LastOf
<1>4. Recorded
  BY <1>1, <1>2, <1>3, EmptySeq DEF Recorded
<1>5. viewer.nodes \in Seq(Seq(Info)) /\ Len(viewer.nodes) = 0
  BY EmptySeq
<1>6. Viewed
  BY <1>1, <1>2, <1>5 DEF Viewed, ViewerFields
<1>. QED
  BY <1>4, <1>6 DEF Inv

\* As long as the viewer stands still, more frames do it no harm.
LEMMA ViewedStable ==
  ASSUME Inv, UNCHANGED viewer, Len(frames') \in Nat, Len(frames') >= Len(frames),
         \A k \in 1 .. Len(frames) : frames'[k] = frames[k],
         viewer.state = "done" => phase' = "closed" /\ Len(frames') = Len(frames)
  PROVE  Viewed'
<1>1. Len(frames) \in Nat /\ NumNodes \in Nat
  BY LenProperties, TraceAssumption DEF Inv, Recorded
<1>2. ASSUME NEW i \in Nodes
      PROVE  /\ Seen(i)' = Seen(i)
             /\ Seen(i) \in Int /\ Seen(i) <= Len(frames)
  BY <1>1 DEF Inv, Viewed, Seen, Nodes
<1>3. ASSUME NEW i \in Nodes, NEW k \in 1 .. Seen(i)
      PROVE  Shown(frames'[k][i]) = Shown(frames[k][i])
  BY <1>1, <1>2, <1>3
<1>. QED
  BY <1>1, <1>2, <1>3 DEF Inv, Viewed

\* Recording a frame.
LEMMA RecordInv ==
  ASSUME Inv, Record
  PROVE  Inv'
<1>. DEFINE n == Len(frames)
            NTs == [pos : Int \X Int, ar : Int, color : NodeColors \cup {NoColor}]
<1>1. PICK now \in [Nodes -> Looks] :
        /\ file' = [file EXCEPT !.times =
                      Append(@, [i \in Nodes |-> NT(lasts[i], now[i])])]
        /\ lasts' = [i \in Nodes |-> [ar |-> now[i].ar, color |-> now[i].color]]
        /\ frames' = Append(frames, now)
  BY DEF Record
<1>2. phase = "run" /\ n < MaxFrames /\ UNCHANGED <<phase, viewer>>
  BY DEF Record
<1>3. /\ frames \in Seq([Nodes -> Looks]) /\ n \in Nat /\ MaxFrames \in Nat
      /\ DOMAIN file = {"head", "times", "end"}
      /\ file.times \in Seq([Nodes -> NTs]) /\ Len(file.times) = n
  BY LenProperties, TraceAssumption DEF Inv, Recorded
<1>4. /\ frames' \in Seq([Nodes -> Looks]) /\ Len(frames') = n + 1
      /\ \A k \in 1 .. n : frames'[k] = frames[k]
      /\ frames'[n + 1] = now
  BY <1>1, <1>3, AppendProperties
<1>. DEFINE new == [i \in Nodes |-> NT(lasts[i], now[i])]
<1>5. new \in [Nodes -> NTs]
  <2>1. ASSUME NEW i \in Nodes
        PROVE  NT(lasts[i], now[i]) \in NTs
    <3>1. now[i].pos \in Int \X Int /\ now[i].ar \in Nat /\ now[i].color \in NodeColors
      BY TraceAssumption DEF NodeColors
    <3>2. now[i].pos[1] \in Int /\ now[i].pos[2] \in Int
      BY <3>1
    <3>. QED
      BY <3>1, <3>2, PrintedRounds DEF NT, Missing
  <2>. QED
    BY <2>1
<1>. HIDE DEF new, NTs
<1>6. /\ DOMAIN file' = {"head", "times", "end"}
      /\ file'.times = Append(file.times, new) /\ file'.end = file.end
  BY <1>1, <1>3 DEF new
<1>7. /\ file'.times \in Seq([Nodes -> NTs]) /\ Len(file'.times) = n + 1
      /\ \A k \in 1 .. n : file'.times[k] = file.times[k]
      /\ file'.times[n + 1] = new
  BY <1>3, <1>5, <1>6, AppendProperties
<1>8. ASSUME NEW k \in 0 .. n, NEW i \in Nodes
      PROVE  LastOf(k, i)' = LastOf(k, i)
  BY <1>3, <1>4 DEF LastOf
<1>9. ASSUME NEW k \in 1 .. n + 1, NEW i \in Nodes
      PROVE  file'.times[k][i] = NT(LastOf(k - 1, i)', frames'[k][i])
  <2>1. k - 1 \in 0 .. n /\ LastOf(k - 1, i)' = LastOf(k - 1, i)
    BY <1>3, <1>8
  <2>2. CASE k \in 1 .. n
    BY <1>4, <1>7, <2>1, <2>2 DEF Inv, Recorded
  <2>3. CASE k = n + 1
    <3>1. lasts[i] = LastOf(n, i)
      BY DEF Inv, Recorded
    <3>. QED
      BY <1>3, <1>4, <1>7, <2>1, <2>3, <3>1 DEF new
  <2>. QED
    BY <1>3, <2>2, <2>3
<1>10. (lasts = [i \in Nodes |-> LastOf(Len(frames), i)])'
  <2>1. ASSUME NEW i \in Nodes
        PROVE  LastOf(Len(frames), i)' = [ar |-> now[i].ar, color |-> now[i].color]
    BY <1>3, <1>4 DEF LastOf
  <2>. QED
    BY <1>1, <2>1
<1>11. file'.end = Missing
  BY <1>2, <1>6 DEF Inv, Recorded
<1>12. Recorded'
  <2>1. phase' \in {"load", "run", "closed"} /\ phase' # "closed"
        /\ Len(frames') <= MaxFrames
    BY <1>2, <1>3, <1>4
  <2>2. \A k \in 1 .. Len(frames'), i \in Nodes :
          file'.times[k][i] = NT(LastOf(k - 1, i)', frames'[k][i])
    BY <1>4, <1>9
  <2>. QED
    BY <1>4, <1>6, <1>7, <1>10, <1>11, <2>1, <2>2 DEF Recorded, NTs
<1>13. Viewed'
  <2>1. viewer.state # "done"
    BY <1>2 DEF Inv, Viewed
  <2>. QED
    BY <1>2, <1>3, <1>4, <2>1, ViewedStable
<1>. QED
  BY <1>12, <1>13 DEF Inv

\* The recorder's and the parser's other steps.
LEMMA WriterInv ==
  ASSUME Inv, LoadElement \/ Setup \/ Close
  PROVE  Inv'
<1>1. UNCHANGED <<lasts, frames, viewer>>
  BY DEF LoadElement, Setup, Close
<1>2. /\ DOMAIN file' = {"head", "times", "end"} /\ file'.times = file.times
      /\ file'.end = IF phase' = "closed" THEN Len(frames) ELSE Missing
      /\ phase' \in {"load", "run", "closed"}
      /\ phase # "closed"
  BY DEF LoadElement, Setup, Close, Inv, Recorded
<1>3. ASSUME NEW k, NEW i PROVE LastOf(k, i)' = LastOf(k, i)
  BY <1>1 DEF LastOf
<1>4. Recorded'
  BY <1>1, <1>2, <1>3 DEF Inv, Recorded
<1>5. Viewed'
  <2>1. viewer.state # "done" /\ Len(frames) \in Nat
    BY <1>2, LenProperties DEF Inv, Viewed, Recorded
  <2>. QED
    BY <1>1, <2>1, ViewedStable
<1>. QED
  BY <1>4, <1>5 DEF Inv

\* The viewer leaves the recorder alone.
LEMMA RecordedStable ==
  ASSUME Recorded, UNCHANGED <<phase, lasts, file, frames>>
  PROVE  Recorded'
<1>1. ASSUME NEW k, NEW i PROVE LastOf(k, i)' = LastOf(k, i)
  BY DEF LastOf
<1>. QED
  BY <1>1 DEF Recorded

\* The viewer starts, or starts again, with no nodes.
LEMMA OpenInv ==
  ASSUME Inv, Open
  PROVE  Inv'
<1>1. viewer' = [NoViewer EXCEPT !.state = "head"] /\ UNCHANGED <<phase, lasts, file, frames>>
  BY DEF Open
<1>2. Len(frames) \in Nat /\ NumNodes \in Nat
  BY LenProperties, TraceAssumption DEF Inv, Recorded
<1>3. /\ DOMAIN viewer' = ViewerFields /\ viewer'.state = "head"
      /\ viewer'.nodes = <<>> /\ viewer'.time = 0 /\ viewer'.nodeCount = 0
  BY <1>1 DEF NoViewer, ViewerFields
<1>4. viewer'.nodes \in Seq(Seq(Info)) /\ Len(viewer'.nodes) = 0
  BY <1>3, EmptySeq
<1>5. Viewed'
  BY <1>1, <1>2, <1>3, <1>4 DEF Viewed
<1>. QED
  BY <1>1, <1>5, RecordedStable DEF Inv

LEMMA ReadHeadInv ==
  ASSUME Inv, ReadHead
  PROVE  Inv'
<1>1. /\ viewer.state = "head" /\ UNCHANGED <<phase, lasts, file, frames>>
      /\ \E h, sc : viewer' = [viewer EXCEPT !.head = h, !.scenario = sc]
  BY DEF ReadHead, Views
<1>2. /\ DOMAIN viewer' = ViewerFields /\ viewer'.state = "head"
      /\ viewer'.nodes = viewer.nodes /\ viewer'.time = viewer.time
      /\ viewer'.nodeCount = viewer.nodeCount
  BY <1>1 DEF Inv, Viewed, ViewerFields
<1>3. Viewed'
  BY <1>1, <1>2 DEF Inv, Viewed
<1>. QED
  BY <1>1, <1>3, RecordedStable DEF Inv

LEMMA ReadNodeInv ==
  ASSUME Inv, ReadNode
  PROVE  Inv'
<1>1. /\ viewer.state = "head" /\ UNCHANGED <<phase, lasts, file, frames>>
      /\ Len(viewer.nodes) < NumNodes
      /\ viewer' = [viewer EXCEPT !.nodes = Append(@, <<>>)]
  BY DEF ReadNode, Views
<1>2. /\ DOMAIN viewer' = ViewerFields /\ viewer'.state = "head"
      /\ viewer'.nodes = Append(viewer.nodes, <<>>) /\ viewer'.time = viewer.time
      /\ viewer'.nodeCount = viewer.nodeCount
  BY <1>1 DEF Inv, Viewed, ViewerFields
<1>3. viewer.nodes \in Seq(Seq(Info)) /\ Len(viewer.nodes) \in Nat
  BY LenProperties DEF Inv, Viewed
<1>4. /\ viewer'.nodes \in Seq(Seq(Info)) /\ Len(viewer'.nodes) = Len(viewer.nodes) + 1
      /\ \A i \in 1 .. Len(viewer.nodes) : viewer'.nodes[i] = viewer.nodes[i]
      /\ viewer'.nodes[Len(viewer.nodes) + 1] = <<>>
  <2>1. <<>> \in Seq(Info)
    BY EmptySeq
  <2>. QED
    BY <1>2, <1>3, <2>1, AppendProperties
<1>5. \A i \in 1 .. Len(viewer'.nodes) : viewer'.nodes[i] = <<>>
  BY <1>1, <1>3, <1>4 DEF Inv, Viewed
<1>6. Len(viewer'.nodes) <= NumNodes
  BY <1>1, <1>3, <1>4, TraceAssumption
<1>7. Viewed'
  BY <1>1, <1>2, <1>4, <1>5, <1>6 DEF Inv, Viewed
<1>. QED
  BY <1>1, <1>7, RecordedStable DEF Inv

\* What the viewer has when it has read all nodes of a frame.
LEMMA SeenAll ==
  ASSUME Inv, Len(viewer.nodes) = NumNodes, NEW i \in Nodes,
         \/ viewer.state = "head"
         \/ viewer.state = "times" /\ viewer.nodeCount = NumNodes
  PROVE  /\ Seen(i) = viewer.time /\ Len(viewer.nodes[i]) = viewer.time
         /\ \A k \in 1 .. viewer.time : viewer.nodes[i][k] = Shown(frames[k][i])
<1>1. NumNodes \in Nat /\ i \in 1 .. NumNodes
  BY TraceAssumption DEF Nodes
<1>2. CASE viewer.state = "head"
  <2>1. viewer.time = 0 /\ viewer.nodes[i] = <<>>
    BY <1>1, <1>2 DEF Inv, Viewed
  <2>2. Len(viewer.nodes[i]) = 0
    BY <2>1, EmptySeq
  <2>. QED
    BY <2>1, <2>2 DEF Seen
<1>3. CASE viewer.state = "times" /\ viewer.nodeCount = NumNodes
  <2>1. Seen(i) = viewer.time
    BY <1>1, <1>3 DEF Seen
  <2>. QED
    BY <1>3, <2>1 DEF Inv, Viewed
<1>. QED
  BY <1>2, <1>3

LEMMA ReadTimeInv ==
  ASSUME Inv, ReadTime
  PROVE  Inv'
<1>1. /\ \/ viewer.state = "head" /\ Len(viewer.nodes) = NumNodes
         \/ viewer.state = "times" /\ viewer.nodeCount = NumNodes
      /\ viewer.time < Len(file.times) /\ UNCHANGED <<phase, lasts, file, frames>>
      /\ viewer' = [viewer EXCEPT !.state = "times", !.time = @ + 1, !.nodeCount = 0]
  BY DEF ReadTime, Views
<1>2. /\ DOMAIN viewer' = ViewerFields /\ viewer'.state = "times"
      /\ viewer'.nodes = viewer.nodes /\ viewer'.time = viewer.time + 1
      /\ viewer'.nodeCount = 0
  BY <1>1 DEF Inv, Viewed, ViewerFields
<1>3. /\ Len(viewer.nodes) = NumNodes /\ NumNodes \in Nat
      /\ viewer.time \in Nat /\ viewer.time + 1 <= Len(frames) /\ Len(frames) \in Nat
  BY <1>1, TraceAssumption, LenProperties DEF Inv, Viewed, Recorded
<1>4. ASSUME NEW i \in Nodes
      PROVE  /\ Seen(i)' = viewer.time /\ Len(viewer.nodes[i]) = viewer.time
             /\ \A k \in 1 .. viewer.time : viewer.nodes[i][k] = Shown(frames[k][i])
  BY <1>1, <1>2, <1>3, SeenAll DEF Seen, Nodes
<1>5. Viewed'
  BY <1>1, <1>2, <1>3, <1>4 DEF Inv, Viewed
<1>. QED
  BY <1>1, <1>5, RecordedStable DEF Inv

LEMMA FrameLooks ==
  ASSUME Inv, NEW k \in 1 .. Len(frames), NEW i \in Nodes
  PROVE  frames[k][i] \in Looks
<1>1. frames \in Seq([Nodes -> Looks])
  BY DEF Inv, Recorded
<1>2. frames[k] \in [Nodes -> Looks]
  BY <1>1, ElementOfSeq
<1>. QED
  BY <1>2

\* The step that matters: a node of a frame is decoded from its element and from
\* the node's previous frame.
LEMMA ReadNTInv ==
  ASSUME Inv, ReadNT
  PROVE  Inv'
<1>. DEFINE j == viewer.nodeCount + 1
            t == viewer.time
            old == viewer.nodes[j]
            info == NodeInfo(file.times[t][j], old)
<1>1. /\ viewer.state = "times" /\ viewer.nodeCount < NumNodes
      /\ UNCHANGED <<phase, lasts, file, frames>>
      /\ viewer' = [viewer EXCEPT !.nodes[j] = Append(@, info), !.nodeCount = @ + 1]
  BY DEF ReadNT, Views
<1>2. /\ Len(viewer.nodes) = NumNodes /\ NumNodes \in Nat /\ j \in 1 .. NumNodes
      /\ t \in 1 .. Len(frames) /\ Len(frames) \in Nat
      /\ viewer.nodes \in Seq(Seq(Info)) /\ old \in Seq(Info)
      /\ viewer.nodeCount \in Nat
  <2>1. Len(viewer.nodes) = NumNodes /\ NumNodes \in Nat /\ j \in 1 .. NumNodes
        /\ t \in 1 .. Len(frames) /\ Len(frames) \in Nat
        /\ viewer.nodes \in Seq(Seq(Info)) /\ viewer.nodeCount \in Nat
    BY <1>1, TraceAssumption, LenProperties DEF Inv, Viewed, Recorded
  <2>2. old \in Seq(Info)
    BY <2>1, ElementOfSeq
  <2>. QED
    BY <2>1, <2>2
<1>3. /\ Len(old) = t - 1
      /\ \A k \in 1 .. t - 1 : old[k] = Shown(frames[k][j])
  <2>1. Seen(j) = t - 1 /\ j \in Nodes
    BY <1>2 DEF Seen, Nodes
  <2>. QED
    BY <1>1, <2>1 DEF Inv, Viewed
<1>4. info = Shown(frames[t][j])
  <2>1. file.times[t][j] = NT(LastOf(t - 1, j), frames[t][j])
    BY <1>2 DEF Inv, Recorded, Nodes
  <2>2. frames[t][j] \in Looks
    BY <1>2, FrameLooks DEF Nodes
  <2>3. CASE t = 1
    <3>1. LastOf(t - 1, j) = NoLast /\ old = <<>>
      BY <1>2, <1>3, <2>3, EmptySeq DEF LastOf
    <3>. QED
      BY <2>1, <2>2, <3>1, Decodes
  <2>4. CASE t > 1
    <3>. DEFINE before == frames[t - 1][j]
    <3>1. before \in Looks
      <4>1. t - 1 \in 1 .. Len(frames) /\ j \in Nodes
        BY <1>2, <2>4 DEF Nodes
      <4>. QED
        BY <4>1, FrameLooks
    <3>2. LastOf(t - 1, j) = [ar |-> before.ar, color |-> before.color]
      BY <1>2, <2>4 DEF LastOf
    <3>3. Last(old) = Shown(before) /\ old # <<>>
      <4>. HIDE DEF old, t, j
      <4>1. t \in Nat /\ Len(old) = t - 1 /\ t - 1 \in 1 .. t - 1
        BY <1>2, <1>3, <2>4
      <4>2. old[Len(old)] = Shown(before)
        BY <1>3, <4>1
      <4>3. old # <<>>
        BY <1>2, <2>4, <4>1, EmptySeq
      <4>. QED
        BY <4>2, <4>3 DEF Last
    <3>. HIDE DEF before
    <3>. QED
      BY <2>1, <2>2, <3>1, <3>2, <3>3, Decodes
  <2>. QED
    BY <1>2, <2>3, <2>4
<1>5. info \in Info
  <2>1. frames[t][j] \in Looks
    BY <1>2, FrameLooks DEF Nodes
  <2>. QED
    BY <1>4, <2>1, ShownOK
<1>. DEFINE new == Append(old, info)
<1>. HIDE DEF info
<1>6. /\ new \in Seq(Info) /\ Len(new) = t
      /\ \A k \in 1 .. t : new[k] = Shown(frames[k][j])
  <2>. HIDE DEF old, t, j
  <2>1. /\ new \in Seq(Info) /\ Len(new) = Len(old) + 1
        /\ \A k \in 1 .. Len(old) : new[k] = old[k]
        /\ new[Len(old) + 1] = info
    BY <1>2, <1>5, AppendProperties
  <2>. QED
    BY <1>2, <1>3, <1>4, <2>1
<1>. HIDE DEF new
<1>7. /\ DOMAIN viewer' = ViewerFields /\ viewer'.state = "times"
      /\ viewer'.nodes = [viewer.nodes EXCEPT ![j] = new]
      /\ viewer'.time = t /\ viewer'.nodeCount = j
  BY <1>1 DEF Inv, Viewed, ViewerFields, new
<1>8. /\ viewer'.nodes \in Seq(Seq(Info)) /\ Len(viewer'.nodes) = NumNodes
      /\ \A i \in 1 .. NumNodes :
           viewer'.nodes[i] = IF i = j THEN new ELSE viewer.nodes[i]
  BY <1>2, <1>6, <1>7, ExceptSeq, SMTT(40)
<1>9. ASSUME NEW i \in Nodes
      PROVE  /\ Len(viewer'.nodes[i]) = Seen(i)'
             /\ \A k \in 1 .. Seen(i)' : viewer'.nodes[i][k] = Shown(frames[k][i])
  <2>1. CASE i = j
    <3>1. Seen(i)' = t
      BY <1>2, <1>7, <2>1 DEF Seen
    <3>. QED
      BY <1>6, <1>8, <2>1, <3>1 DEF Nodes
  <2>2. CASE i # j
    <3>1. Seen(i)' = Seen(i)
      BY <1>2, <1>7, <2>2 DEF Seen, Nodes
    <3>. QED
      BY <1>1, <1>8, <2>2, <3>1 DEF Inv, Viewed, Nodes
  <2>. QED
    BY <2>1, <2>2
<1>10. /\ viewer'.time \in 0 .. Len(frames)' /\ viewer'.time > 0
       /\ viewer'.nodeCount \in 0 .. NumNodes /\ Len(viewer'.nodes) <= NumNodes
  BY <1>1, <1>2, <1>7, <1>8, SMTT(40)
<1>11. \A i \in Nodes :
         /\ Len(viewer'.nodes[i]) = Seen(i)'
         /\ \A k \in 1 .. Seen(i)' : viewer'.nodes[i][k] = Shown(frames'[k][i])
  BY <1>1, <1>9
<1>12. Viewed'
  <2>. HIDE DEF j, t, old
  <2>. QED
    BY <1>7, <1>8, <1>10, <1>11 DEF Viewed, Nodes
<1>. QED
  BY <1>1, <1>12, RecordedStable DEF Inv

LEMMA ReadEndInv ==
  ASSUME Inv, ReadEnd
  PROVE  Inv'
<1>1. /\ AtEnd /\ file.end # Missing /\ UNCHANGED <<phase, lasts, file, frames>>
      /\ viewer' = [viewer EXCEPT !.state = "done", !.loops = file.end]
  BY DEF ReadEnd, Views
<1>2. /\ DOMAIN viewer' = ViewerFields /\ viewer'.state = "done"
      /\ viewer'.loops = file.end /\ viewer'.nodes = viewer.nodes
      /\ viewer'.time = viewer.time /\ viewer'.nodeCount = viewer.nodeCount
  BY <1>1 DEF Inv, Viewed, ViewerFields
<1>3. /\ \/ viewer.state = "head"
         \/ viewer.state = "times" /\ viewer.nodeCount = NumNodes
      /\ Len(viewer.nodes) = NumNodes
  BY <1>1 DEF AtEnd, Inv, Viewed
<1>4. ASSUME NEW i \in Nodes
      PROVE  /\ Seen(i)' = viewer.time /\ Len(viewer.nodes[i]) = viewer.time
             /\ \A k \in 1 .. viewer.time : viewer.nodes[i][k] = Shown(frames[k][i])
  BY <1>2, <1>3, SeenAll DEF Seen
<1>5. phase = "closed" /\ file.end = Len(frames) /\ viewer.time = Len(frames)
  BY <1>1 DEF AtEnd, Inv, Recorded
<1>6. viewer.time > 0 => viewer.nodeCount = NumNodes
  BY <1>3 DEF Inv, Viewed
<1>7. Viewed'
  BY <1>1, <1>2, <1>3, <1>4, <1>5, <1>6 DEF Inv, Viewed
<1>. QED
  BY <1>1, <1>7, RecordedStable DEF Inv

LEMMA ReadUnfinishedInv ==
  ASSUME Inv, ReadUnfinished
  PROVE  Inv'
<1>1. /\ UNCHANGED <<phase, lasts, file, frames>>
      /\ viewer' = [viewer EXCEPT !.state = "failed"]
  BY DEF ReadUnfinished, Views
<1>2. /\ DOMAIN viewer' = ViewerFields /\ viewer'.state = "failed"
      /\ viewer'.nodes = viewer.nodes
      /\ viewer'.time = viewer.time /\ viewer'.nodeCount = viewer.nodeCount
  BY <1>1 DEF Inv, Viewed, ViewerFields
<1>3. Viewed'
  BY <1>1, <1>2 DEF Inv, Viewed
<1>. QED
  BY <1>1, <1>3, RecordedStable DEF Inv

LEMMA NextInv == Inv /\ [Next]_vars => Inv'
<1>. SUFFICES ASSUME Inv, [Next]_vars PROVE Inv'
  OBVIOUS
<1>1. CASE UNCHANGED vars
  <2>1. UNCHANGED <<phase, lasts, file, frames, viewer>>
    BY <1>1 DEF vars
  <2>2. Len(frames) \in Nat
    BY LenProperties DEF Inv, Recorded
  <2>3. viewer.state = "done" => phase = "closed"
    BY DEF Inv, Viewed
  <2>. QED
    BY <2>1, <2>2, <2>3, RecordedStable, ViewedStable DEF Inv
<1>2. CASE Next
  BY <1>2, WriterInv, RecordInv, OpenInv, ReadHeadInv, ReadNodeInv, ReadTimeInv,
     ReadNTInv, ReadEndInv, ReadUnfinishedInv DEF Next
<1>. QED
  BY <1>1, <1>2

-----------------------------------------------------------------------------
(* Scenarios                                                               *)

Buildings == [shape : {"rect", "circle"}, fill : Colors, border : Colors,
              attenuation : 0 .. 100]

Spots == [id : Int, ends : Seq(Int)]

\* Only the first hot spot of an ID has connections, and they lead to hot spots
\* there are.
Linked(spots) ==
  \A k \in 1 .. Len(spots) :
    /\ spots[k].ends # <<>> =>
         \A l \in 1 .. Len(spots) : spots[l].id = spots[k].id => k <= l
    /\ \A j \in 1 .. Len(spots[k].ends) :
         \E l \in 1 .. Len(spots) : spots[l].id = spots[k].ends[j]

\* What momosecpp makes of a scenario file.
WellFormed(sc) ==
  /\ sc = [border |-> sc.border, buildings |-> sc.buildings, spots |-> sc.spots]
  /\ sc.border \in Int
  /\ sc.buildings \in Seq(Buildings)
  /\ sc.spots \in Seq(Spots)
  /\ Linked(sc.spots)

\* What the viewer has after h elements of the written scenario, of which the
\* connections of hot spot k are at off[k - 1] + 1 .. off[k].
Within(x, n) == IF x < 0 THEN 0 ELSE IF x > n THEN n ELSE x

SpotRead(sc, off, h, k) ==
  [id |-> sc.spots[k].id,
   ends |-> Firsts(sc.spots[k].ends,
                   Within(h - 1 - Len(sc.buildings) - Len(sc.spots) - off[k - 1],
                          Len(sc.spots[k].ends)))]

Reads(sc, off, h) ==
  [border    |-> sc.border,
   buildings |-> Firsts(sc.buildings, Within(h - 1, Len(sc.buildings))),
   spots     |-> [k \in 1 .. Within(h - 1 - Len(sc.buildings), Len(sc.spots)) |->
                    SpotRead(sc, off, h, k)]]

Connections(sc) == [k \in DOMAIN sc.spots |-> EndsXml(sc.spots[k])]

LEMMA ColorsAre ==
  /\ NoColor \notin Colors /\ Gray \in Colors /\ Red \in Colors
  /\ \A program : \A c \in Colors : GetColor(program, c) \in Colors
<1>1. NoColor \notin Colors
  <2>. SUFFICES ASSUME NEW c \in Colors PROVE c # NoColor
    OBVIOUS
  <2>1. PICK r \in Channel, g \in Channel, b \in Channel : c = <<r, g, b>>
    BY DEF Colors
  <2>2. <<r, g, b>> = Append(<<r, g>>, b) /\ <<r, g>> \in Seq(Channel)
    OBVIOUS
  <2>3. <<r, g, b>> # <<>>
    BY <2>2, AppendProperties
  <2>. QED
    BY <2>1, <2>3 DEF NoColor
<1>2. Gray \in Colors /\ Red \in Colors
  BY DEF Gray, Red, Colors, Channel
<1>3. \A program : \A c \in Colors : GetColor(program, c) \in Colors
  BY DEF Colors, GetColor
<1>. QED
  BY <1>1, <1>2, <1>3

\* The first of some positions.
LEMMA FirstIs ==
  ASSUME NEW S, S \subseteq Nat, NEW k \in S, \A r \in S : k <= r
  PROVE  First(S) = k
<1>1. \A s \in S : (\A r \in S : s <= r) => s = k
  <2>1. ASSUME NEW s \in S, \A r \in S : s <= r PROVE s = k
    <3>1. s <= k /\ k <= s /\ s \in Nat /\ k \in Nat
      BY <2>1
    <3>. QED
      BY <3>1
  <2>. QED
    BY <2>1
<1>2. \E s \in S : \A r \in S : s <= r
  OBVIOUS
<1>3. First(S) \in S /\ \A r \in S : First(S) <= r
  BY <1>2, Zenon DEF First
<1>. QED
  BY <1>1, <1>3

LEMMA FirstExists ==
  ASSUME NEW S, S \subseteq Nat, S # {}
  PROVE  First(S) \in S /\ \A r \in S : First(S) <= r
<1>1. \E s \in S : \A r \in S : s <= r
  BY Least, Zenon
<1>. QED
  BY <1>1, Zenon DEF First

LEMMA MakeWellFormed ==
  ASSUME NEW border \in Int, NEW buildings \in Seq(Buildings), NEW spots \in Seq(Spots),
         Linked(spots),
         NEW sc, sc = [border |-> border, buildings |-> buildings, spots |-> spots]
  PROVE  WellFormed(sc)
<1>1. sc.border = border /\ sc.buildings = buildings /\ sc.spots = spots
  OBVIOUS
<1>. QED
  BY <1>1 DEF WellFormed

LEMMA WellFormedParts ==
  ASSUME NEW sc, WellFormed(sc)
  PROVE  /\ Len(sc.buildings) \in Nat /\ Len(sc.spots) \in Nat
         /\ DOMAIN sc.buildings = 1 .. Len(sc.buildings)
         /\ DOMAIN sc.spots = 1 .. Len(sc.spots)
         /\ \A k \in 1 .. Len(sc.buildings) : sc.buildings[k] \in Buildings
         /\ \A k \in 1 .. Len(sc.spots) :
              /\ sc.spots[k] \in Spots /\ Len(sc.spots[k].ends) \in Nat
              /\ DOMAIN sc.spots[k].ends = 1 .. Len(sc.spots[k].ends)
              /\ sc.spots[k].id \in Int /\ sc.spots[k].ends \in Seq(Int)
<1>1. sc.buildings \in Seq(Buildings) /\ sc.spots \in Seq(Spots)
  BY DEF WellFormed
<1>2. /\ Len(sc.buildings) \in Nat /\ Len(sc.spots) \in Nat
      /\ DOMAIN sc.buildings = 1 .. Len(sc.buildings)
      /\ DOMAIN sc.spots = 1 .. Len(sc.spots)
      /\ \A k \in 1 .. Len(sc.buildings) : sc.buildings[k] \in Buildings
      /\ \A k \in 1 .. Len(sc.spots) : sc.spots[k] \in Spots
  BY <1>1, LenProperties, ElementOfSeq
<1>3. ASSUME NEW k \in 1 .. Len(sc.spots)
      PROVE  /\ sc.spots[k].id \in Int /\ sc.spots[k].ends \in Seq(Int)
             /\ Len(sc.spots[k].ends) \in Nat
             /\ DOMAIN sc.spots[k].ends = 1 .. Len(sc.spots[k].ends)
  <2>1. sc.spots[k].id \in Int /\ sc.spots[k].ends \in Seq(Int)
    BY <1>2 DEF Spots
  <2>. QED
    BY <2>1, LenProperties
<1>. QED
  BY <1>2, <1>3

\* A building that is parsed.
LEMMA BuildingParsed ==
  ASSUME NEW sc, NEW program, NEW e,
         e \in [tag : {"Building"}, shape : {"rect", "circle"}, fill : Colors \cup {NoColor},
                border : Colors \cup {NoColor}, attenuation : Int]
  PROVE  \E b \in Buildings :
           /\ AddBuilding(program, sc, e) =
                [sc EXCEPT !.buildings = Append(sc.buildings, b)]
           /\ program = "momose" => \A a \in Buildings : e = BuildingXml(a) => b = a
<1>. DEFINE fill == IF e.fill = NoColor THEN Gray ELSE GetColor(program, e.fill)
            border == IF e.border = NoColor THEN Red ELSE GetColor(program, e.border)
            b == [shape |-> e.shape, fill |-> fill, border |-> border,
                  attenuation |-> SetAttenuation(e.attenuation)]
<1>1. SetAttenuation(e.attenuation) \in 0 .. 100
  <2>1. e.attenuation \in Int
    OBVIOUS
  <2>. QED
    BY <2>1 DEF SetAttenuation
<1>2. fill \in Colors /\ border \in Colors
  <2>1. e.fill \in Colors \cup {NoColor} /\ e.border \in Colors \cup {NoColor}
    OBVIOUS
  <2>. QED
    BY <2>1, ColorsAre
<1>3. b \in Buildings
  BY <1>1, <1>2 DEF Buildings
<1>4. AddBuilding(program, sc, e) = [sc EXCEPT !.buildings = Append(sc.buildings, b)]
  BY DEF AddBuilding
<1>5. ASSUME program = "momose", NEW a \in Buildings, e = BuildingXml(a)
      PROVE  b = a
  <2>1. /\ e.shape = a.shape /\ e.fill = Optional(a.fill, Gray)
        /\ e.border = Optional(a.border, Red) /\ e.attenuation = a.attenuation
    BY <1>5 DEF BuildingXml, BuildingElem
  <2>2. a.fill \in Colors /\ a.border \in Colors /\ a.attenuation \in 0 .. 100
    BY DEF Buildings
  <2>3. fill = a.fill
    BY <1>5, <2>1, <2>2, ColorsAre DEF Optional, GetColor
  <2>4. border = a.border
    BY <1>5, <2>1, <2>2, ColorsAre DEF Optional, GetColor
  <2>5. SetAttenuation(e.attenuation) = a.attenuation
    BY <2>1, <2>2 DEF SetAttenuation
  <2>6. a = [shape |-> a.shape, fill |-> a.fill, border |-> a.border,
             attenuation |-> a.attenuation]
    BY DEF Buildings
  <2>. QED
    BY <2>1, <2>3, <2>4, <2>5, <2>6
<1>. HIDE DEF b
<1>. QED
  BY <1>3, <1>4, <1>5

\* momosecpp's parser keeps scenarios well-formed, whatever comes next.
LEMMA ParsedOK ==
  ASSUME NEW sc, sc = NoScenario \/ WellFormed(sc), NEW e \in Elements
  PROVE  \/ ParseElement("momosecpp", sc, e) = NoScenario
         \/ WellFormed(ParseElement("momosecpp", sc, e))
<1>. DEFINE new == ParseElement("momosecpp", sc, e)
<1>1. CASE e.tag = "Scenario"
  <2>1. e.border \in Int
    BY <1>1 DEF Elements
  <2>2. new = [border |-> e.border, buildings |-> <<>>, spots |-> <<>>]
    BY <1>1 DEF ParseElement
  <2>3. <<>> \in Seq(Buildings) /\ <<>> \in Seq(Spots) /\ Linked(<<>>)
    BY EmptySeq DEF Linked
  <2>. HIDE DEF new
  <2>9. WellFormed(new)
    BY <2>1, <2>2, <2>3, MakeWellFormed
  <2>. QED
    BY <2>9 DEF new
<1>2. CASE e.tag # "Scenario" /\ sc = NoScenario
  BY <1>2 DEF ParseElement
<1>. DEFINE b == Len(sc.buildings)
            s == Len(sc.spots)
<1>3. CASE e.tag = "Building" /\ WellFormed(sc) /\ sc # NoScenario
  <2>1. new = AddBuilding("momosecpp", sc, e)
    BY <1>3 DEF ParseElement
  <2>2. e \in [tag : {"Building"}, shape : {"rect", "circle"}, fill : Colors \cup {NoColor},
               border : Colors \cup {NoColor}, attenuation : Int]
    BY <1>3 DEF Elements
  <2>3. PICK x \in Buildings : new = [sc EXCEPT !.buildings = Append(sc.buildings, x)]
    BY <2>1, <2>2, BuildingParsed
  <2>4. new = [border |-> sc.border, buildings |-> Append(sc.buildings, x),
               spots |-> sc.spots]
    <3>1. sc = [border |-> sc.border, buildings |-> sc.buildings, spots |-> sc.spots]
      BY <1>3 DEF WellFormed
    <3>. QED
      BY <2>3, <3>1
  <2>5. Append(sc.buildings, x) \in Seq(Buildings)
    BY <1>3, AppendProperties DEF WellFormed
  <2>. HIDE DEF new
  <2>9. WellFormed(new)
    BY <1>3, <2>4, <2>5, MakeWellFormed DEF WellFormed
  <2>. QED
    BY <2>9 DEF new
<1>4. CASE e.tag = "HotSpot" /\ WellFormed(sc) /\ sc # NoScenario
  <2>. DEFINE spot == [id |-> e.id, ends |-> <<>>]
              spots == Append(sc.spots, spot)
  <2>1. new = [sc EXCEPT !.spots = spots]
    BY <1>4 DEF ParseElement
  <2>2. new = [border |-> sc.border, buildings |-> sc.buildings, spots |-> spots]
    <3>1. sc = [border |-> sc.border, buildings |-> sc.buildings, spots |-> sc.spots]
      BY <1>4 DEF WellFormed
    <3>. HIDE DEF spots, new
    <3>. QED
      BY <2>1, <3>1
  <2>3. spot \in Spots
    <3>1. e.id \in Int
      BY <1>4 DEF Elements
    <3>. QED
      BY <3>1, EmptySeq DEF Spots
  <2>4. /\ spots \in Seq(Spots) /\ Len(spots) = s + 1 /\ spots[s + 1] = spot
        /\ \A k \in 1 .. s : spots[k] = sc.spots[k]
        /\ s \in Nat
    BY <1>4, <2>3, AppendProperties, WellFormedParts DEF WellFormed
  <2>5. spot.ends = <<>> /\ Len(<<>>) = 0
    BY EmptySeq
  <2>. HIDE DEF spots, new, spot
  <2>6. ASSUME NEW k \in 1 .. Len(spots)
        PROVE  /\ spots[k].ends # <<>> =>
                    \A l \in 1 .. Len(spots) : spots[l].id = spots[k].id => k <= l
               /\ \A j \in 1 .. Len(spots[k].ends) :
                    \E l \in 1 .. Len(spots) : spots[l].id = spots[k].ends[j]
    <3>1. CASE k = s + 1
      BY <2>4, <2>5, <3>1
    <3>2. CASE k \in 1 .. s
      <4>1. \A l \in 1 .. Len(spots) : l \in 1 .. s \/ l = s + 1
        BY <2>4
      <4>2. spots[k] = sc.spots[k]
        BY <2>4, <3>2
      <4>3. spots[k].ends # <<>> =>
              \A l \in 1 .. s : sc.spots[l].id = sc.spots[k].id => k <= l
        BY <1>4, <3>2, <4>2 DEF WellFormed, Linked
      <4>4. spots[k].ends # <<>> =>
              \A l \in 1 .. Len(spots) : spots[l].id = spots[k].id => k <= l
        BY <2>4, <3>2, <4>1, <4>2, <4>3
      <4>5. \A j \in 1 .. Len(spots[k].ends) :
              \E l \in 1 .. s : sc.spots[l].id = spots[k].ends[j]
        BY <1>4, <3>2, <4>2, SMTT(40) DEF WellFormed, Linked
      <4>6. \A l \in 1 .. s : l \in 1 .. Len(spots)
        BY <2>4
      <4>. QED
        BY <2>4, <4>4, <4>5, <4>6, ZenonT(40)
    <3>. QED
      BY <2>4, <3>1, <3>2
  <2>7. Linked(spots)
    BY <2>6 DEF Linked
  <2>9. WellFormed(new)
    BY <1>4, <2>2, <2>4, <2>7, MakeWellFormed DEF WellFormed
  <2>. QED
    BY <2>9 DEF new
<1>5. CASE e.tag = "Connection" /\ WellFormed(sc) /\ sc # NoScenario
  <2>1. new = AddConnection(sc, e)
    BY <1>5 DEF ParseElement
  <2>2. e.start \in Int /\ e.end \in Int
    BY <1>5 DEF Elements
  <2>3. CASE SpotsOf(sc, e.start) = {} \/ SpotsOf(sc, e.end) = {}
    BY <1>5, <2>1, <2>3 DEF AddConnection
  <2>4. CASE SpotsOf(sc, e.start) # {} /\ SpotsOf(sc, e.end) # {}
    <3>. DEFINE f == First(SpotsOf(sc, e.start))
                spot == [sc.spots[f] EXCEPT !.ends = Append(@, e.end)]
                spots == [sc.spots EXCEPT ![f] = spot]
    <3>1. s \in Nat /\ DOMAIN sc.spots = 1 .. s /\ sc.spots \in Seq(Spots)
          /\ \A k \in 1 .. s : sc.spots[k] \in Spots
      BY <1>5, WellFormedParts DEF WellFormed
    <3>2. f \in SpotsOf(sc, e.start) /\ \A r \in SpotsOf(sc, e.start) : f <= r
      <4>1. SpotsOf(sc, e.start) \subseteq Nat
        BY <3>1 DEF SpotsOf
      <4>. QED
        BY <2>4, <4>1, FirstExists
    <3>3. /\ f \in 1 .. s /\ sc.spots[f].id = e.start
          /\ \A l \in 1 .. s : sc.spots[l].id = e.start => f <= l
      <4>. HIDE DEF f
      <4>. QED
        BY <3>1, <3>2 DEF SpotsOf
    <3>4. new = [sc EXCEPT !.spots = spots]
      BY <2>1, <2>4 DEF AddConnection
    <3>. HIDE DEF f
    <3>5. sc.spots[f] \in Spots /\ sc.spots[f].ends \in Seq(Int)
      BY <3>1, <3>3 DEF Spots
    <3>6. /\ Append(sc.spots[f].ends, e.end) \in Seq(Int)
          /\ Len(Append(sc.spots[f].ends, e.end)) = Len(sc.spots[f].ends) + 1
          /\ \A j \in 1 .. Len(sc.spots[f].ends) :
               Append(sc.spots[f].ends, e.end)[j] = sc.spots[f].ends[j]
          /\ Append(sc.spots[f].ends, e.end)[Len(sc.spots[f].ends) + 1] = e.end
      BY <2>2, <3>5, AppendProperties
    <3>7. spot \in Spots /\ spot.id = e.start
          /\ spot.ends = Append(sc.spots[f].ends, e.end)
      BY <3>3, <3>5, <3>6 DEF Spots
    <3>. HIDE DEF spot
    <3>8. /\ spots \in Seq(Spots) /\ Len(spots) = s
          /\ \A k \in 1 .. s : spots[k] = IF k = f THEN spot ELSE sc.spots[k]
      BY <3>1, <3>3, <3>7, ExceptSeq
    <3>9. new = [border |-> sc.border, buildings |-> sc.buildings, spots |-> spots]
      <4>1. sc = [border |-> sc.border, buildings |-> sc.buildings, spots |-> sc.spots]
        BY <1>5 DEF WellFormed
      <4>. HIDE DEF spots, new
      <4>. QED
        BY <3>4, <4>1
    <3>. HIDE DEF spots, new
    <3>10. \A k \in 1 .. s : spots[k].id = sc.spots[k].id
      BY <3>3, <3>7, <3>8
    <3>11. PICK t \in 1 .. s : sc.spots[t].id = e.end
      BY <2>4, <3>1 DEF SpotsOf
    <3>12. ASSUME NEW k \in 1 .. s
           PROVE  /\ spots[k].ends # <<>> =>
                       \A l \in 1 .. s : spots[l].id = spots[k].id => k <= l
                  /\ \A j \in 1 .. Len(spots[k].ends) :
                       \E l \in 1 .. s : spots[l].id = spots[k].ends[j]
      <4>1. CASE k = f
        <5>1. spots[k].ends = Append(sc.spots[f].ends, e.end)
          BY <3>7, <3>8, <4>1
        <5>2. ASSUME NEW j \in 1 .. Len(spots[k].ends)
              PROVE  \E l \in 1 .. s : spots[l].id = spots[k].ends[j]
          <6>1. Len(sc.spots[f].ends) \in Nat
            BY <3>5, LenProperties
          <6>2. CASE j = Len(sc.spots[f].ends) + 1
            <7>1. spots[k].ends[j] = e.end
              BY <3>6, <5>1, <6>2
            <7>. QED
              BY <3>10, <3>11, <7>1
          <6>3. CASE j \in 1 .. Len(sc.spots[f].ends)
            <7>1. spots[k].ends[j] = sc.spots[f].ends[j]
              BY <3>6, <5>1, <6>3
            <7>2. \E l \in 1 .. s : sc.spots[l].id = sc.spots[f].ends[j]
              BY <1>5, <3>3, <6>3 DEF WellFormed, Linked
            <7>. QED
              BY <3>10, <7>1, <7>2
          <6>. QED
            BY <3>6, <5>1, <6>1, <6>2, <6>3
        <5>3. \A l \in 1 .. s : spots[l].id = spots[k].id => k <= l
          BY <3>3, <3>10, <4>1
        <5>. QED
          BY <5>2, <5>3
      <4>2. CASE k # f
        <5>1. spots[k] = sc.spots[k]
          BY <3>8, <4>2
        <5>2. /\ sc.spots[k].ends # <<>> =>
                   \A l \in 1 .. s : sc.spots[l].id = sc.spots[k].id => k <= l
              /\ \A j \in 1 .. Len(sc.spots[k].ends) :
                   \E l \in 1 .. s : sc.spots[l].id = sc.spots[k].ends[j]
          BY <1>5 DEF WellFormed, Linked
        <5>. QED
          BY <3>10, <5>1, <5>2
      <4>. QED
        BY <4>1, <4>2
    <3>13. Linked(spots)
      <4>1. Len(spots) = s
        BY <3>8
      <4>. HIDE DEF s
      <4>. QED
        BY <3>12, <4>1 DEF Linked
    <3>14. WellFormed(new)
      BY <1>5, <3>8, <3>9, <3>13, MakeWellFormed DEF WellFormed
    <3>. QED
      BY <3>14 DEF new
  <2>. QED
    BY <2>3, <2>4
<1>6. e.tag \in {"Scenario", "Building", "HotSpot", "Connection"}
  BY DEF Elements
<1>. QED
  BY <1>1, <1>2, <1>3, <1>4, <1>5, <1>6

\* The elements of a written scenario, by position.
LaidOut(sc, off) ==
  /\ Offsets(Connections(sc), off) /\ Len(Connections(sc)) = Len(sc.spots)
  /\ \A k \in 1 .. Len(sc.spots) : Len(Connections(sc)[k]) = Len(sc.spots[k].ends)
  /\ Len(ToXml(sc)) = 1 + Len(sc.buildings) + Len(sc.spots) + off[Len(sc.spots)]
  /\ ToXml(sc)[1] = ScenarioElem(sc.border)
  /\ \A k \in 1 .. Len(sc.buildings) : ToXml(sc)[1 + k] = BuildingXml(sc.buildings[k])
  /\ \A k \in 1 .. Len(sc.spots) :
       ToXml(sc)[1 + Len(sc.buildings) + k] = HotSpotElem(sc.spots[k].id)
  /\ \A k \in 1 .. Len(sc.spots) : \A j \in 1 .. Len(sc.spots[k].ends) :
       ToXml(sc)[1 + Len(sc.buildings) + Len(sc.spots) + (off[k - 1] + j)] =
         ConnectionElem(sc.spots[k].id, sc.spots[k].ends[j])

LEMMA XmlAt ==
  ASSUME NEW sc, WellFormed(sc)
  PROVE  \E off : LaidOut(sc, off)
<1>. DEFINE b == Len(sc.buildings)
            s == Len(sc.spots)
            one == <<ScenarioElem(sc.border)>>
            two == [k \in DOMAIN sc.buildings |-> BuildingXml(sc.buildings[k])]
            three == [k \in DOMAIN sc.spots |-> HotSpotElem(sc.spots[k].id)]
            conns == Connections(sc)
            four == FlattenSeq(conns)
<1>0. b \in Nat /\ s \in Nat
  BY WellFormedParts
<1>1. /\ b \in Nat /\ s \in Nat /\ DOMAIN sc.buildings = 1 .. b /\ DOMAIN sc.spots = 1 .. s
      /\ \A k \in 1 .. b : sc.buildings[k] \in Buildings
      /\ \A k \in 1 .. s :
           /\ sc.spots[k] \in Spots /\ Len(sc.spots[k].ends) \in Nat
           /\ DOMAIN sc.spots[k].ends = 1 .. Len(sc.spots[k].ends)
           /\ sc.spots[k].id \in Int /\ sc.spots[k].ends \in Seq(Int)
  BY WellFormedParts
<1>. USE DEF Elements
<1>2. one \in Seq(Elements) /\ Len(one) = 1 /\ one[1] = ScenarioElem(sc.border)
  <2>1. sc.border \in Int
    BY DEF WellFormed
  <2>2. ScenarioElem(sc.border) \in Elements
    BY <2>1 DEF ScenarioElem
  <2>. HIDE DEF Elements
  <2>. QED
    BY <2>2
<1>3. two \in Seq(Elements) /\ Len(two) = b
  <2>1. ASSUME NEW k \in 1 .. b PROVE BuildingXml(sc.buildings[k]) \in Elements
    <3>1. /\ sc.buildings[k].shape \in {"rect", "circle"}
          /\ sc.buildings[k].fill \in Colors /\ sc.buildings[k].border \in Colors
          /\ sc.buildings[k].attenuation \in Int
      <4>1. sc.buildings[k] \in Buildings /\ \A a \in 0 .. 100 : a \in Int
        BY <1>1
      <4>. HIDE DEF Elements
      <4>. QED
        BY <4>1 DEF Buildings
    <3>. QED
      BY <3>1 DEF BuildingXml, BuildingElem, Optional
  <2>. HIDE DEF Elements
  <2>2. two \in [1 .. b -> Elements]
    BY <1>1, <2>1
  <2>3. two = [k \in 1 .. b |-> two[k]]
    BY <1>1
  <2>. HIDE DEF two
  <2>. QED
    BY <1>1, <2>2, <2>3, FunctionIsSeq, LenOf
<1>4. three \in Seq(Elements) /\ Len(three) = s
  <2>1. ASSUME NEW k \in 1 .. s PROVE HotSpotElem(sc.spots[k].id) \in Elements
    BY <1>1 DEF HotSpotElem
  <2>. HIDE DEF Elements
  <2>2. three \in [1 .. s -> Elements]
    BY <1>1, <2>1
  <2>3. three = [k \in 1 .. s |-> three[k]]
    BY <1>1
  <2>. HIDE DEF three
  <2>. QED
    BY <1>1, <2>2, <2>3, FunctionIsSeq, LenOf
<1>5. ASSUME NEW k \in 1 .. s
      PROVE  /\ conns[k] \in Seq(Elements) /\ Len(conns[k]) = Len(sc.spots[k].ends)
             /\ \A j \in 1 .. Len(sc.spots[k].ends) :
                  conns[k][j] = ConnectionElem(sc.spots[k].id, sc.spots[k].ends[j])
  <2>. DEFINE m == Len(sc.spots[k].ends)
  <2>1. conns[k] = [j \in 1 .. m |-> ConnectionElem(sc.spots[k].id, sc.spots[k].ends[j])]
    BY <1>1 DEF Connections, EndsXml
  <2>2. ASSUME NEW j \in 1 .. m
        PROVE  ConnectionElem(sc.spots[k].id, sc.spots[k].ends[j]) \in Elements
    <3>1. sc.spots[k].ends[j] \in Int
      BY <1>1, ElementOfSeq
    <3>. QED
      BY <1>1, <3>1 DEF ConnectionElem
  <2>. HIDE DEF Elements
  <2>3. conns[k] \in [1 .. m -> Elements] /\ conns[k] = [j \in 1 .. m |-> conns[k][j]]
    BY <2>1, <2>2
  <2>4. m \in Nat /\ m \in Int
    BY <1>1
  <2>. HIDE DEF conns, m
  <2>5. conns[k] \in Seq(Elements) /\ Len(conns[k]) = m
    BY <2>3, <2>4, FunctionIsSeq, LenOf
  <2>. QED
    BY <2>1, <2>5 DEF m
<1>. HIDE DEF Elements
<1>6. conns \in Seq(Seq(Elements)) /\ Len(conns) = s
  <2>1. conns \in [1 .. s -> Seq(Elements)] /\ conns = [k \in 1 .. s |-> conns[k]]
    <3>1. DOMAIN conns = 1 .. s /\ conns = [k \in DOMAIN conns |-> conns[k]]
      BY <1>1 DEF Connections
    <3>. HIDE DEF conns
    <3>. QED
      BY <1>5, <3>1
  <2>. HIDE DEF conns
  <2>. QED
    BY <1>1, <2>1, FunctionIsSeq, LenOf
<1>. HIDE DEF one, two, three, conns, b, s
<1>a. four \in Seq(Elements) /\ \E off : EndToEnd(conns, four, off)
  <2>1. conns \in Seq(Seq(Elements))
    BY <1>6
  <2>2. FlattenSeq(conns) \in Seq(Elements) /\ \E off : EndToEnd(conns, FlattenSeq(conns), off)
    BY <2>1, Flattened
  <2>. QED
    BY <2>2
<1>b. PICK off : EndToEnd(conns, four, off)
  BY <1>a
<1>. HIDE DEF four
<1>7. /\ Offsets(conns, off) /\ four \in Seq(Elements) /\ Len(four) = off[s]
      /\ \A g \in 1 .. s : \A j \in 1 .. Len(conns[g]) :
           four[off[g - 1] + j] = conns[g][j]
  BY <1>6, <1>a, <1>b DEF EndToEnd
<1>8. /\ off[s] \in Nat
      /\ \A k \in 1 .. s : off[k] \in Nat /\ off[k - 1] \in Nat
      /\ \A k \in 1 .. s : off[k] = off[k - 1] + Len(conns[k])
      /\ \A k \in 1 .. s : off[k] <= off[s]
  <2>1. /\ off \in [0 .. s -> Nat]
        /\ \A k \in 1 .. s : off[k] = off[k - 1] + Len(conns[k])
    BY <1>6, <1>7 DEF Offsets
  <2>2. ASSUME NEW k \in 1 .. s PROVE off[k] <= off[s]
    <3>1. k \in 0 .. s /\ s \in 0 .. s /\ k <= s
      BY <1>1
    <3>2. \A g \in 1 .. Len(conns) : Len(conns[g]) \in Nat
      BY <1>1, <1>5, <1>6
    <3>. QED
      BY <1>1, <1>6, <1>7, <3>1, <3>2, OffsetsGrow
  <2>. QED
    BY <1>1, <2>1, <2>2
<1>. HIDE DEF four
<1>9. /\ one \o two \in Seq(Elements) /\ Len(one \o two) = 1 + b
      /\ (one \o two)[1] = one[1]
      /\ \A k \in 1 .. b : (one \o two)[1 + k] = two[k]
  <2>1. one \o two \in Seq(Elements) /\ Len(one \o two) = Len(one) + Len(two)
    BY <1>2, <1>3, ConcatAt
  <2>2. \A k \in 1 .. Len(one) : (one \o two)[k] = one[k]
    BY <1>2, <1>3, ConcatAt
  <2>3. \A k \in 1 .. Len(two) : (one \o two)[Len(one) + k] = two[k]
    <3>1. one \in Seq(Elements) /\ two \in Seq(Elements)
      BY <1>2, <1>3
    <3>. QED
      BY <3>1, ConcatAt
  <2>. QED
    BY <1>0, <1>2, <1>3, <2>1, <2>2, <2>3
<1>10. /\ (one \o two) \o three \in Seq(Elements)
       /\ Len((one \o two) \o three) = 1 + b + s
       /\ \A k \in 1 .. 1 + b : ((one \o two) \o three)[k] = (one \o two)[k]
       /\ \A k \in 1 .. s : ((one \o two) \o three)[1 + b + k] = three[k]
  <2>. DEFINE two3 == (one \o two) \o three
  <2>1. two3 \in Seq(Elements) /\ Len(two3) = Len(one \o two) + Len(three)
    BY <1>4, <1>9, ConcatAt
  <2>2. \A k \in 1 .. Len(one \o two) : two3[k] = (one \o two)[k]
    BY <1>4, <1>9, ConcatAt
  <2>3. \A k \in 1 .. Len(three) : two3[Len(one \o two) + k] = three[k]
    BY <1>4, <1>9, ConcatAt
  <2>. HIDE DEF two3
  <2>4. /\ two3 \in Seq(Elements) /\ Len(two3) = 1 + b + s
        /\ \A k \in 1 .. 1 + b : two3[k] = (one \o two)[k]
        /\ \A k \in 1 .. s : two3[1 + b + k] = three[k]
    BY <1>0, <1>4, <1>9, <2>1, <2>2, <2>3
  <2>. QED
    BY <2>4 DEF two3
<1>. DEFINE all == ((one \o two) \o three) \o four
<1>11. /\ all \in Seq(Elements) /\ Len(all) = 1 + b + s + off[s]
       /\ \A k \in 1 .. 1 + b + s : all[k] = ((one \o two) \o three)[k]
       /\ \A k \in 1 .. off[s] : all[1 + b + s + k] = four[k]
  <2>. DEFINE three3 == (one \o two) \o three
  <2>1. all \in Seq(Elements) /\ Len(all) = Len(three3) + Len(four)
    BY <1>7, <1>10, ConcatAt
  <2>2. \A k \in 1 .. Len(three3) : all[k] = three3[k]
    BY <1>7, <1>10, ConcatAt
  <2>3. \A k \in 1 .. Len(four) : all[Len(three3) + k] = four[k]
    BY <1>7, <1>10, ConcatAt
  <2>4. three3 \in Seq(Elements) /\ Len(three3) = 1 + b + s
    BY <1>10
  <2>. HIDE DEF three3, all
  <2>5. /\ all \in Seq(Elements) /\ Len(all) = 1 + b + s + off[s]
        /\ \A k \in 1 .. 1 + b + s : all[k] = three3[k]
        /\ \A k \in 1 .. off[s] : all[1 + b + s + k] = four[k]
    BY <1>0, <1>7, <1>8, <2>1, <2>2, <2>3, <2>4
  <2>. QED
    BY <2>5 DEF three3
<1>12. ToXml(sc) = all
  BY DEF ToXml, Connections, one, two, three, four, conns
<1>. HIDE DEF all
<1>13. /\ 1 \in 1 .. 1 + b
       /\ \A k \in 1 .. b : 1 + k \in 1 .. 1 + b
       /\ \A k \in 1 .. 1 + b : k \in 1 .. 1 + b + s
       /\ \A k \in 1 .. s : 1 + b + k \in 1 .. 1 + b + s
  BY <1>0
<1>14. all[1] = ScenarioElem(sc.border)
  BY <1>2, <1>9, <1>10, <1>11, <1>13
<1>15. ASSUME NEW k \in 1 .. b PROVE all[1 + k] = BuildingXml(sc.buildings[k])
  <2>1. two[k] = BuildingXml(sc.buildings[k])
    BY <1>1 DEF two
  <2>. QED
    BY <1>9, <1>10, <1>11, <1>13, <2>1
<1>16. ASSUME NEW k \in 1 .. s PROVE all[1 + b + k] = HotSpotElem(sc.spots[k].id)
  <2>1. three[k] = HotSpotElem(sc.spots[k].id)
    BY <1>1 DEF three
  <2>. QED
    BY <1>10, <1>11, <1>13, <2>1
<1>17. ASSUME NEW k \in 1 .. s, NEW j \in 1 .. Len(sc.spots[k].ends)
       PROVE  all[1 + b + s + (off[k - 1] + j)] =
                ConnectionElem(sc.spots[k].id, sc.spots[k].ends[j])
  <2>1. Len(conns[k]) = Len(sc.spots[k].ends) /\ Len(sc.spots[k].ends) \in Nat
    BY <1>1, <1>5
  <2>2. off[k - 1] + j \in 1 .. off[s]
    BY <1>8, <2>1, SMTT(40)
  <2>3. four[off[k - 1] + j] = conns[k][j]
    BY <1>7, <2>1
  <2>. QED
    BY <1>5, <1>11, <2>2, <2>3
<1>18. \A k \in 1 .. s : Len(conns[k]) = Len(sc.spots[k].ends)
  BY <1>5
<1>19. /\ Offsets(conns, off) /\ Len(conns) = s
       /\ \A k \in 1 .. s : Len(conns[k]) = Len(sc.spots[k].ends)
       /\ Len(ToXml(sc)) = 1 + b + s + off[s]
       /\ ToXml(sc)[1] = ScenarioElem(sc.border)
       /\ \A k \in 1 .. b : ToXml(sc)[1 + k] = BuildingXml(sc.buildings[k])
       /\ \A k \in 1 .. s : ToXml(sc)[1 + b + k] = HotSpotElem(sc.spots[k].id)
       /\ \A k \in 1 .. s : \A j \in 1 .. Len(sc.spots[k].ends) :
            ToXml(sc)[1 + b + s + (off[k - 1] + j)] =
              ConnectionElem(sc.spots[k].id, sc.spots[k].ends[j])
  BY <1>6, <1>7, <1>11, <1>12, <1>14, <1>15, <1>16, <1>17, <1>18
<1>. QED
  BY <1>19, Zenon DEF conns, b, s, LaidOut

\* The connections of each hot spot follow those of the hot spots before it.
LEMMA ConnectionsAt ==
  ASSUME NEW sc, WellFormed(sc), NEW off, LaidOut(sc, off)
  PROVE  /\ \A k \in 0 .. Len(sc.spots) : off[k] \in Nat
         /\ off[0] = 0
         /\ \A k \in 1 .. Len(sc.spots) : off[k] = off[k - 1] + Len(sc.spots[k].ends)
         /\ \A k \in 0 .. Len(sc.spots) : \A l \in 0 .. Len(sc.spots) :
              k <= l => off[k] <= off[l]
<1>. DEFINE s == Len(sc.spots)
            conns == Connections(sc)
<1>1. s \in Nat /\ \A k \in 1 .. s : Len(sc.spots[k].ends) \in Nat
  BY WellFormedParts
<1>2. /\ Offsets(conns, off) /\ Len(conns) = s
      /\ \A k \in 1 .. s : Len(conns[k]) = Len(sc.spots[k].ends)
  BY DEF LaidOut
<1>. HIDE DEF s, conns
<1>3. /\ \A k \in 0 .. s : off[k] \in Nat
      /\ off[0] = 0
      /\ \A k \in 1 .. s : off[k] = off[k - 1] + Len(sc.spots[k].ends)
  BY <1>2 DEF Offsets
<1>4. \A g \in 1 .. s : Len(conns[g]) \in Nat
  BY <1>1, <1>2
<1>5. \A k \in 0 .. s : \A l \in 0 .. s : k <= l => off[k] <= off[l]
  <2>. SUFFICES ASSUME NEW k \in 0 .. s, NEW l \in 0 .. s, k <= l
                PROVE  off[k] <= off[l]
    OBVIOUS
  <2>. QED
    BY <1>1, <1>2, <1>4, OffsetsGrow
<1>. QED
  BY <1>3, <1>5 DEF s

LEMMA ConnectionsCover ==
  ASSUME NEW sc, WellFormed(sc), NEW off, LaidOut(sc, off), NEW p \in 1 .. off[Len(sc.spots)]
  PROVE  \E g \in 1 .. Len(sc.spots) : \E j \in 1 .. Len(sc.spots[g].ends) : p = off[g - 1] + j
<1>. DEFINE s == Len(sc.spots)
            conns == Connections(sc)
<1>1. s \in Nat /\ \A k \in 1 .. s : Len(sc.spots[k].ends) \in Nat
  BY WellFormedParts
<1>2. /\ Offsets(conns, off) /\ Len(conns) = s
      /\ \A k \in 1 .. s : Len(conns[k]) = Len(sc.spots[k].ends)
  BY DEF LaidOut
<1>3. /\ \A k \in 0 .. s : off[k] \in Nat
      /\ \A k \in 1 .. s : off[k] = off[k - 1] + Len(sc.spots[k].ends)
  BY ConnectionsAt
<1>4. p \in 1 .. off[s]
  OBVIOUS
<1>. HIDE DEF s, conns
<1>5. \A g \in 1 .. s : Len(conns[g]) \in Nat
  BY <1>1, <1>2
<1>6. PICK g \in 1 .. s : p \in off[g - 1] + 1 .. off[g]
  BY <1>1, <1>2, <1>4, <1>5, OffsetsCover
<1>7. g - 1 \in 0 .. s /\ g \in 0 .. s
  BY <1>1
<1>8. off[g - 1] \in Nat /\ off[g] = off[g - 1] + Len(sc.spots[g].ends)
  BY <1>3, <1>7
<1>9. \A a \in Nat : \A n \in Nat : \A q \in a + 1 .. a + n :
        q - a \in 1 .. n /\ q = a + (q - a)
  OBVIOUS
<1>10. p - off[g - 1] \in 1 .. Len(sc.spots[g].ends) /\ p = off[g - 1] + (p - off[g - 1])
  BY <1>1, <1>6, <1>8, <1>9
<1>11. \E i \in 1 .. s : \E j \in 1 .. Len(sc.spots[i].ends) : p = off[i - 1] + j
  BY <1>10
<1>. QED
  BY <1>11 DEF s

\* A function on no positions is the empty sequence.
LEMMA EmptyFunction ==
  ASSUME NEW f, f = [k \in 1 .. 0 |-> f[k]]
  PROVE  f = <<>>
<1>1. f \in [1 .. 0 -> {}] /\ 0 \in Int /\ 0 \in Nat
  OBVIOUS
<1>2. f \in Seq({}) /\ Len(f) = 0
  BY <1>1, FunctionIsSeq, LenOf
<1>. QED
  BY <1>2, EmptySeq

\* The scenario element comes first.
LEMMA ReadsFirst ==
  ASSUME NEW sc, WellFormed(sc), NEW off, LaidOut(sc, off)
  PROVE  ParseElement("momose", NoScenario, ToXml(sc)[1]) = Reads(sc, off, 1)
<1>. DEFINE b == Len(sc.buildings)
            s == Len(sc.spots)
            spots == [k \in 1 .. Within(1 - 1 - b, s) |-> SpotRead(sc, off, 1, k)]
<1>1. b \in Nat /\ s \in Nat /\ sc.buildings \in Seq(Buildings)
  BY WellFormedParts DEF WellFormed
<1>2. ToXml(sc)[1] = ScenarioElem(sc.border)
  BY DEF LaidOut
<1>3. ParseElement("momose", NoScenario, ToXml(sc)[1]) =
        [border |-> sc.border, buildings |-> <<>>, spots |-> <<>>]
  BY <1>2 DEF ParseElement, ScenarioElem
<1>4. Within(1 - 1, b) = 0 /\ Within(1 - 1 - b, s) = 0
  <2>. HIDE DEF b, s
  <2>. QED
    BY <1>1 DEF Within
<1>5. Firsts(sc.buildings, 0) = <<>>
  <2>1. 0 \in 0 .. Len(sc.buildings)
    BY <1>1
  <2>. QED
    BY <1>1, <2>1, FirstsAre
<1>6. spots = <<>>
  <2>1. spots = [k \in 1 .. 0 |-> spots[k]]
    BY <1>4
  <2>. HIDE DEF spots
  <2>. QED
    BY <2>1, EmptyFunction
<1>7. Reads(sc, off, 1) =
        [border |-> sc.border, buildings |-> Firsts(sc.buildings, Within(1 - 1, b)),
         spots |-> spots]
  BY DEF Reads
<1>. HIDE DEF b, spots
<1>. QED
  BY <1>3, <1>4, <1>5, <1>6, <1>7

\* When all has been read, the scenario is there again.
LEMMA ReadsLast ==
  ASSUME NEW sc, WellFormed(sc), NEW off, LaidOut(sc, off)
  PROVE  Reads(sc, off, Len(ToXml(sc))) = sc
<1>. DEFINE b == Len(sc.buildings)
            s == Len(sc.spots)
            h == Len(ToXml(sc))
            spots == [k \in 1 .. Within(h - 1 - b, s) |-> SpotRead(sc, off, h, k)]
<1>1. /\ b \in Nat /\ s \in Nat
      /\ sc.buildings \in Seq(Buildings) /\ sc.spots \in Seq(Spots)
      /\ sc = [border |-> sc.border, buildings |-> sc.buildings, spots |-> sc.spots]
  BY WellFormedParts DEF WellFormed
<1>2. h = 1 + b + s + off[s]
  BY DEF LaidOut
<1>3. /\ \A k \in 0 .. s : off[k] \in Nat
      /\ \A k \in 1 .. s : off[k] = off[k - 1] + Len(sc.spots[k].ends)
      /\ \A k \in 0 .. s : \A l \in 0 .. s : k <= l => off[k] <= off[l]
  BY ConnectionsAt
<1>. HIDE DEF h
<1>4. Within(h - 1, b) = b /\ Within(h - 1 - b, s) = s /\ h \in Nat
  <2>1. off[s] \in Nat
    <3>. HIDE DEF b, s
    <3>. QED
      BY <1>1, <1>3
  <2>. HIDE DEF b, s
  <2>. QED
    BY <1>1, <1>2, <2>1 DEF Within
<1>5. ASSUME NEW k \in 1 .. s PROVE SpotRead(sc, off, h, k) = sc.spots[k]
  <2>1. /\ sc.spots[k] \in Spots /\ sc.spots[k].ends \in Seq(Int)
        /\ Len(sc.spots[k].ends) \in Nat
    BY WellFormedParts
  <2>2. k \in 0 .. s /\ k - 1 \in 0 .. s /\ s \in 0 .. s /\ k <= s
    <3>. HIDE DEF b, s
    <3>. QED
      BY <1>1
  <2>3. off[k] <= off[s] /\ off[k] = off[k - 1] + Len(sc.spots[k].ends)
        /\ off[k - 1] \in Nat /\ off[s] \in Nat
    <3>. HIDE DEF b, s
    <3>. QED
      BY <1>3, <2>2
  <2>4. Within(h - 1 - b - s - off[k - 1], Len(sc.spots[k].ends)) = Len(sc.spots[k].ends)
    <3>1. \A i, j, o, p, l \in Nat :
            p + l <= o => Within((1 + i + j + o) - 1 - i - j - p, l) = l
      BY DEF Within
    <3>. HIDE DEF b, s
    <3>2. off[k - 1] + Len(sc.spots[k].ends) <= off[s]
      BY <2>1, <2>3
    <3>. DEFINE l == Len(sc.spots[k].ends)
                o == off[k - 1]
    <3>3. b \in Nat /\ s \in Nat /\ l \in Nat /\ o \in Nat /\ off[s] \in Nat
      BY <1>1, <2>1, <2>3
    <3>. HIDE DEF l, o
    <3>4. Within((1 + b + s + off[s]) - 1 - b - s - o, l) = l
      BY <3>1, <3>2, <3>3 DEF l, o
    <3>. QED
      BY <1>2, <3>4 DEF l, o
  <2>5. Firsts(sc.spots[k].ends, Len(sc.spots[k].ends)) = sc.spots[k].ends
    <3>1. Len(sc.spots[k].ends) \in 0 .. Len(sc.spots[k].ends)
      BY <2>1
    <3>. QED
      BY <2>1, <3>1, FirstsAre
  <2>6. sc.spots[k] = [id |-> sc.spots[k].id, ends |-> sc.spots[k].ends]
    BY <2>1 DEF Spots
  <2>. QED
    BY <2>4, <2>5, <2>6 DEF SpotRead
<1>6. spots = sc.spots
  <2>1. sc.spots \in [1 .. s -> Spots]
    BY <1>1, LenProperties
  <2>. HIDE DEF b, s
  <2>2. spots = [k \in 1 .. s |-> sc.spots[k]]
    BY <1>4, <1>5
  <2>. HIDE DEF spots
  <2>. QED
    BY <2>1, <2>2
<1>7. Firsts(sc.buildings, b) = sc.buildings
  <2>1. Len(sc.buildings) \in 0 .. Len(sc.buildings)
    BY <1>1
  <2>. QED
    BY <1>1, <2>1, FirstsAre
<1>8. Reads(sc, off, h) =
        [border |-> sc.border, buildings |-> Firsts(sc.buildings, Within(h - 1, b)),
         spots |-> spots]
  BY DEF Reads
<1>9. Reads(sc, off, h) = sc
  <2>. HIDE DEF b, spots
  <2>. QED
    BY <1>1, <1>4, <1>6, <1>7, <1>8
<1>. QED
  BY <1>9 DEF h

\* What is read is a scenario, whatever its parts.
LEMMA ReadsScenario ==
  ASSUME NEW sc, NEW off, NEW h
  PROVE  Reads(sc, off, h) # NoScenario
<1>1. "border" \in DOMAIN Reads(sc, off, h)
  BY DEF Reads
<1>2. "border" \notin DOMAIN NoScenario
  BY DEF NoScenario
<1>. QED
  BY <1>1, <1>2

\* A building is added to those read before.
LEMMA ReadsBuilding ==
  ASSUME NEW sc, WellFormed(sc), NEW off, LaidOut(sc, off), NEW h \in 1 .. Len(sc.buildings)
  PROVE  ParseElement("momose", Reads(sc, off, h), ToXml(sc)[h + 1]) = Reads(sc, off, h + 1)
<1>. DEFINE b == Len(sc.buildings)
            s == Len(sc.spots)
            e == ToXml(sc)[h + 1]
            R == Reads(sc, off, h)
            spots == [k \in 1 .. Within(h - 1 - b, s) |-> SpotRead(sc, off, h, k)]
            spots1 == [k \in 1 .. Within((h + 1) - 1 - b, s) |-> SpotRead(sc, off, h + 1, k)]
<1>1. b \in Nat /\ s \in Nat /\ sc.buildings \in Seq(Buildings) /\ sc.buildings[h] \in Buildings
  BY WellFormedParts DEF WellFormed
<1>2. e = BuildingXml(sc.buildings[h])
  <2>1. h + 1 = 1 + h
    BY <1>1
  <2>. QED
    BY <2>1 DEF LaidOut
<1>3. /\ Within(h - 1, b) = h - 1 /\ Within((h + 1) - 1, b) = h
      /\ Within(h - 1 - b, s) = 0 /\ Within((h + 1) - 1 - b, s) = 0
      /\ h - 1 \in 0 .. b /\ h - 1 < b /\ (h - 1) + 1 = h
  <2>1. h \in 1 .. b
    OBVIOUS
  <2>. HIDE DEF b, s
  <2>. QED
    BY <1>1, <2>1 DEF Within
<1>4. spots = <<>> /\ spots1 = <<>>
  <2>1. spots = [k \in 1 .. 0 |-> spots[k]] /\ spots1 = [k \in 1 .. 0 |-> spots1[k]]
    BY <1>3
  <2>. HIDE DEF spots, spots1
  <2>. QED
    BY <2>1, EmptyFunction
<1>5. Append(Firsts(sc.buildings, h - 1), sc.buildings[h]) = Firsts(sc.buildings, h)
  <2>1. h - 1 \in 0 .. Len(sc.buildings) /\ h - 1 < Len(sc.buildings)
    BY <1>3
  <2>. QED
    BY <1>1, <1>3, <2>1, FirstsAre, SMTT(40)
<1>6. e.tag = "Building"
      /\ e \in [tag : {"Building"}, shape : {"rect", "circle"}, fill : Colors \cup {NoColor},
                border : Colors \cup {NoColor}, attenuation : Int]
  <2>1. /\ sc.buildings[h].shape \in {"rect", "circle"}
        /\ sc.buildings[h].fill \in Colors /\ sc.buildings[h].border \in Colors
        /\ sc.buildings[h].attenuation \in Int
    <3>1. sc.buildings[h] \in Buildings /\ \A a \in 0 .. 100 : a \in Int
      BY <1>1
    <3>. HIDE DEF e, b, s
    <3>. QED
      BY <3>1 DEF Buildings
  <2>. QED
    BY <1>2, <2>1 DEF BuildingXml, BuildingElem, Optional
<1>. HIDE DEF e, R
<1>7. R = [border |-> sc.border, buildings |-> Firsts(sc.buildings, h - 1), spots |-> <<>>]
  <2>1. R = [border |-> sc.border, buildings |-> Firsts(sc.buildings, Within(h - 1, b)),
             spots |-> spots]
    BY DEF R, Reads
  <2>. HIDE DEF b, spots
  <2>. QED
    BY <1>3, <1>4, <2>1
<1>8. Reads(sc, off, h + 1) =
        [border |-> sc.border, buildings |-> Firsts(sc.buildings, h), spots |-> <<>>]
  <2>1. Reads(sc, off, h + 1) =
          [border |-> sc.border, buildings |-> Firsts(sc.buildings, Within((h + 1) - 1, b)),
           spots |-> spots1]
    BY DEF Reads
  <2>. HIDE DEF b, spots1
  <2>. QED
    BY <1>3, <1>4, <2>1
<1>9. ParseElement("momose", R, e) = AddBuilding("momose", R, e)
  <2>1. R # NoScenario
    BY ReadsScenario DEF R
  <2>. QED
    BY <1>6, <2>1 DEF ParseElement
<1>10. AddBuilding("momose", R, e) =
         [R EXCEPT !.buildings = Append(R.buildings, sc.buildings[h])]
  BY <1>1, <1>2, <1>6, BuildingParsed, SMTT(40)
<1>11. ParseElement("momose", R, e) = Reads(sc, off, h + 1)
  BY <1>5, <1>7, <1>8, <1>9, <1>10
<1>. QED
  BY <1>11 DEF R, e

\* A hot spot is added to those read before, without its connections.
LEMMA ReadsSpot ==
  ASSUME NEW sc, WellFormed(sc), NEW off, LaidOut(sc, off), NEW n \in 1 .. Len(sc.spots),
         NEW h, h = Len(sc.buildings) + n
  PROVE  ParseElement("momose", Reads(sc, off, h), ToXml(sc)[h + 1]) = Reads(sc, off, h + 1)
<1>. DEFINE b == Len(sc.buildings)
            s == Len(sc.spots)
            e == ToXml(sc)[h + 1]
            R == Reads(sc, off, h)
            bare == [k \in 1 .. s |-> [id |-> sc.spots[k].id, ends |-> <<>>]]
<1>1. b \in Nat /\ s \in Nat /\ sc.buildings \in Seq(Buildings)
  BY WellFormedParts DEF WellFormed
<1>2. e = HotSpotElem(sc.spots[n].id)
  <2>1. h + 1 = 1 + Len(sc.buildings) + n
    BY <1>1
  <2>. QED
    BY <2>1 DEF LaidOut
<1>3. n \in 1 .. s /\ h = b + n
  OBVIOUS
<1>4. ASSUME NEW m \in 0 .. 1
      PROVE  Reads(sc, off, h + m) =
               [border |-> sc.border, buildings |-> sc.buildings,
                spots |-> Firsts(bare, n - 1 + m)]
  <2>. DEFINE spots == [k \in 1 .. Within((h + m) - 1 - b, s) |-> SpotRead(sc, off, h + m, k)]
  <2>1. Within((h + m) - 1, b) = b /\ Within((h + m) - 1 - b, s) = n - 1 + m
        /\ n - 1 + m \in 0 .. s
    <3>. HIDE DEF b, s
    <3>. QED
      BY <1>1, <1>3 DEF Within
  <2>2. ASSUME NEW k \in 1 .. n - 1 + m
        PROVE  SpotRead(sc, off, h + m, k) = bare[k]
    <3>1. k \in 1 .. s /\ k - 1 \in 0 .. s /\ k - 1 \in Nat
      <4>. HIDE DEF b, s
      <4>. QED
        BY <1>1, <1>3, <2>1
    <3>2. off[k - 1] \in Nat
      <4>1. k - 1 \in 0 .. Len(sc.spots)
        BY <3>1
      <4>. QED
        BY <4>1, ConnectionsAt
    <3>3. Len(sc.spots[k].ends) \in Nat /\ sc.spots[k].ends \in Seq(Int)
      BY <3>1, WellFormedParts
    <3>4. Within((h + m) - 1 - b - s - off[k - 1], Len(sc.spots[k].ends)) = 0
      <4>. DEFINE l == Len(sc.spots[k].ends)
                  o == off[k - 1]
      <4>1. l \in Nat /\ o \in Nat
        BY <3>2, <3>3
      <4>. HIDE DEF l, o, b, s
      <4>2. (h + m) - 1 - b - s - o <= 0 /\ (h + m) - 1 - b - s - o \in Int
        BY <1>1, <1>3, <4>1
      <4>3. Within((h + m) - 1 - b - s - o, l) = 0
        BY <4>1, <4>2 DEF Within
      <4>. QED
        BY <4>3 DEF l, o
    <3>5. Firsts(sc.spots[k].ends, 0) = <<>>
      <4>1. 0 \in 0 .. Len(sc.spots[k].ends)
        BY <3>3
      <4>. QED
        BY <3>3, <4>1, FirstsAre
    <3>. QED
      BY <3>1, <3>4, <3>5 DEF SpotRead
  <2>3. spots = Firsts(bare, n - 1 + m)
    <3>. HIDE DEF b, s, bare
    <3>. QED
      BY <2>1, <2>2 DEF Firsts
  <2>4. Firsts(sc.buildings, b) = sc.buildings
    <3>1. Len(sc.buildings) \in 0 .. Len(sc.buildings)
      BY <1>1
    <3>. QED
      BY <1>1, <3>1, FirstsAre
  <2>5. Reads(sc, off, h + m) =
          [border |-> sc.border, buildings |-> Firsts(sc.buildings, Within((h + m) - 1, b)),
           spots |-> spots]
    BY DEF Reads
  <2>. HIDE DEF b, spots, bare
  <2>. QED
    BY <2>1, <2>3, <2>4, <2>5
<1>5. h + 0 = h /\ n - 1 + 0 = n - 1 /\ n - 1 + 1 = n /\ 0 \in 0 .. 1 /\ 1 \in 0 .. 1
      /\ n - 1 \in 0 .. s /\ n - 1 < s /\ (n - 1) + 1 = n
  <2>. HIDE DEF b, s
  <2>. QED
    BY <1>1, <1>3
<1>6. /\ R = [border |-> sc.border, buildings |-> sc.buildings, spots |-> Firsts(bare, n - 1)]
      /\ Reads(sc, off, h + 1) =
           [border |-> sc.border, buildings |-> sc.buildings, spots |-> Firsts(bare, n)]
  <2>. HIDE DEF bare
  <2>1. Reads(sc, off, h + 0) =
          [border |-> sc.border, buildings |-> sc.buildings,
           spots |-> Firsts(bare, n - 1 + 0)]
    BY <1>4, <1>5
  <2>2. Reads(sc, off, h + 1) =
          [border |-> sc.border, buildings |-> sc.buildings,
           spots |-> Firsts(bare, n - 1 + 1)]
    BY <1>4, <1>5
  <2>. QED
    BY <1>5, <2>1, <2>2
<1>7. Append(Firsts(bare, n - 1), bare[n]) = Firsts(bare, n)
  <2>1. bare \in Seq(Spots) /\ Len(bare) = s
    <3>1. ASSUME NEW k \in 1 .. s PROVE [id |-> sc.spots[k].id, ends |-> <<>>] \in Spots
      <4>1. sc.spots[k].id \in Int
        BY WellFormedParts
      <4>. QED
        BY <4>1, EmptySeq DEF Spots
    <3>2. bare \in [1 .. s -> Spots] /\ bare = [k \in 1 .. s |-> bare[k]] /\ s \in Int
      BY <1>1, <3>1
    <3>. HIDE DEF bare, s
    <3>. QED
      BY <1>1, <3>2, FunctionIsSeq, LenOf
  <2>2. n - 1 \in 0 .. Len(bare) /\ n - 1 < Len(bare)
    BY <1>5, <2>1
  <2>. HIDE DEF bare
  <2>3. Append(Firsts(bare, n - 1), bare[(n - 1) + 1]) = Firsts(bare, (n - 1) + 1)
    BY <2>1, <2>2, FirstsAre, SMTT(40)
  <2>. QED
    BY <1>5, <2>3
<1>8. bare[n] = [id |-> sc.spots[n].id, ends |-> <<>>]
  BY <1>3
<1>9. ParseElement("momose", R, e) =
        [R EXCEPT !.spots = Append(R.spots, [id |-> sc.spots[n].id, ends |-> <<>>])]
  <2>1. R # NoScenario
    BY ReadsScenario DEF R
  <2>. HIDE DEF R
  <2>2. e.tag = "HotSpot" /\ e.id = sc.spots[n].id
    BY <1>2 DEF HotSpotElem
  <2>. HIDE DEF e
  <2>. QED
    BY <2>1, <2>2 DEF ParseElement
<1>. HIDE DEF bare, R, e
<1>10. ParseElement("momose", R, e) = Reads(sc, off, h + 1)
  BY <1>6, <1>7, <1>8, <1>9
<1>. QED
  BY <1>10 DEF R, e

LEMMA WithinIs ==
  ASSUME NEW x \in Int, NEW n \in Nat
  PROVE  /\ x <= 0 => Within(x, n) = 0
         /\ x >= n => Within(x, n) = n
         /\ x \in 0 .. n => Within(x, n) = x
BY DEF Within

\* The elements before connection j of hot spot g.
Before(sc, off, g, j) == Len(sc.buildings) + Len(sc.spots) + (off[g - 1] + j)

\* A connection goes to the first hot spot of its ID, the one that was written.
LEMMA ReadsConnection ==
  ASSUME NEW sc, WellFormed(sc), NEW off, LaidOut(sc, off),
         NEW g \in 1 .. Len(sc.spots), NEW j \in 1 .. Len(sc.spots[g].ends),
         NEW h, h = Before(sc, off, g, j)
  PROVE  ParseElement("momose", Reads(sc, off, h), ToXml(sc)[h + 1]) = Reads(sc, off, h + 1)
<1>. DEFINE b == Len(sc.buildings)
            s == Len(sc.spots)
            e == ToXml(sc)[h + 1]
            R == Reads(sc, off, h)
            at(m) == [k \in 1 .. s |-> SpotRead(sc, off, h + m, k)]
<1>1. /\ b \in Nat /\ s \in Nat /\ sc.buildings \in Seq(Buildings)
      /\ \A k \in 1 .. s : /\ Len(sc.spots[k].ends) \in Nat
                          /\ sc.spots[k].ends \in Seq(Int)
  BY WellFormedParts DEF WellFormed
<1>2. /\ \A k \in 0 .. s : off[k] \in Nat
      /\ \A k \in 1 .. s : off[k] = off[k - 1] + Len(sc.spots[k].ends)
      /\ \A k \in 0 .. s : \A l \in 0 .. s : k <= l => off[k] <= off[l]
  BY ConnectionsAt
<1>3. g \in 1 .. s /\ g - 1 \in 0 .. s /\ h = b + s + (off[g - 1] + j)
      /\ j \in 1 .. Len(sc.spots[g].ends) /\ j \in Nat
  <2>1. g \in 1 .. s /\ h = b + s + (off[g - 1] + j) /\ j \in 1 .. Len(sc.spots[g].ends)
    BY DEF Before
  <2>2. Len(sc.spots[g].ends) \in Nat
    BY <1>1
  <2>3. j \in Nat
    BY <2>1, <2>2
  <2>4. g - 1 \in 0 .. s
    <3>. HIDE DEF b, s
    <3>. QED
      BY <1>1, <2>1
  <2>. QED
    BY <2>1, <2>3, <2>4
<1>4. off[g - 1] \in Nat /\ off[g] = off[g - 1] + Len(sc.spots[g].ends)
  <2>. HIDE DEF b, s
  <2>. QED
    BY <1>2, <1>3
<1>. DEFINE q == off[g - 1]
<1>20. /\ h \in Nat /\ h + 0 = h /\ h + 1 = 1 + b + s + (q + j)
       /\ \A m \in 0 .. 1 : /\ (h + m) - 1 \in Int /\ (h + m) - 1 >= b
                           /\ (h + m) - 1 - b \in Int /\ (h + m) - 1 - b >= s
       /\ \A m \in 0 .. 1 : \A o \in Nat :
            (h + m) - 1 - b - s - o = (q + j + m) - 1 - o
  <2>1. j >= 1
    <3>1. Len(sc.spots[g].ends) \in Nat
      BY <1>1
    <3>. QED
      BY <1>3, <3>1
  <2>. HIDE DEF b, s
  <2>2. q \in Nat /\ h = b + s + (q + j)
    BY <1>3, <1>4
  <2>. HIDE DEF q
  <2>3. b \in Nat /\ s \in Nat /\ j \in Nat
    BY <1>1, <1>3
  <2>4. h \in Nat /\ h + 0 = h /\ h + 1 = 1 + b + s + (q + j)
    BY <2>2, <2>3
  <2>5. ASSUME NEW m \in 0 .. 1
        PROVE  /\ (h + m) - 1 \in Int /\ (h + m) - 1 >= b
               /\ (h + m) - 1 - b \in Int /\ (h + m) - 1 - b >= s
    BY <2>1, <2>2, <2>3
  <2>6. ASSUME NEW m \in 0 .. 1, NEW o \in Nat
        PROVE  (h + m) - 1 - b - s - o = (q + j + m) - 1 - o
    BY <2>1, <2>2, <2>3
  <2>. QED
    BY <2>4, <2>5, <2>6
<1>5. e = ConnectionElem(sc.spots[g].id, sc.spots[g].ends[j])
  <2>1. h + 1 = 1 + Len(sc.buildings) + Len(sc.spots) + (off[g - 1] + j)
    BY <1>20
  <2>2. ToXml(sc)[1 + Len(sc.buildings) + Len(sc.spots) + (off[g - 1] + j)] =
          ConnectionElem(sc.spots[g].id, sc.spots[g].ends[j])
    BY DEF LaidOut
  <2>. QED
    BY <2>1, <2>2
<1>. HIDE DEF e
<1>6. ASSUME NEW m \in 0 .. 1
      PROVE  Reads(sc, off, h + m) =
               [border |-> sc.border, buildings |-> sc.buildings, spots |-> at(m)]
  <2>1. Within((h + m) - 1, b) = b /\ Within((h + m) - 1 - b, s) = s
    <3>. HIDE DEF b, s
    <3>. QED
      BY <1>1, <1>20, WithinIs
  <2>2. Firsts(sc.buildings, b) = sc.buildings
    <3>1. Len(sc.buildings) \in 0 .. Len(sc.buildings)
      BY <1>1
    <3>. QED
      BY <1>1, <3>1, FirstsAre
  <2>3. Reads(sc, off, h + m) =
          [border |-> sc.border, buildings |-> Firsts(sc.buildings, Within((h + m) - 1, b)),
           spots |-> [k \in 1 .. Within((h + m) - 1 - b, s) |-> SpotRead(sc, off, h + m, k)]]
    BY DEF Reads
  <2>. HIDE DEF b, s
  <2>. QED
    BY <2>1, <2>2, <2>3
<1>7. ASSUME NEW k \in 1 .. s, k # g
      PROVE  at(1)[k] = at(0)[k]
  <2>. DEFINE l == Len(sc.spots[k].ends)
              o == off[k - 1]
  <2>1. l \in Nat /\ o \in Nat /\ off[k] = o + l /\ k \in 0 .. s /\ k - 1 \in 0 .. s
    <3>1. k \in 0 .. s /\ k - 1 \in 0 .. s
      <4>. HIDE DEF b, s
      <4>. QED
        BY <1>1
    <3>. QED
      BY <1>1, <1>2, <3>1
  <2>2. Within((h + 1) - 1 - b - s - o, l) = Within((h + 0) - 1 - b - s - o, l)
    <3>0. /\ (h + 0) - 1 - b - s - o = (q + j + 0) - 1 - o
          /\ (h + 1) - 1 - b - s - o = (q + j + 1) - 1 - o
      <4>1. 0 \in 0 .. 1 /\ 1 \in 0 .. 1
        OBVIOUS
      <4>. HIDE DEF l, o, b, s, q
      <4>. QED
        BY <1>20, <2>1, <4>1
    <3>. DEFINE x0 == (q + j + 0) - 1 - o
                x1 == (q + j + 1) - 1 - o
    <3>00. q \in Nat /\ j \in Nat /\ j >= 1
      <4>1. Len(sc.spots[g].ends) \in Nat
        BY <1>1, <1>3
      <4>. QED
        BY <1>3, <1>4, <4>1
    <3>. HIDE DEF l, o, b, s
    <3>1. CASE k < g
      <4>1. k <= g - 1
        BY <1>1, <1>3, <3>1
      <4>2. off[k] <= off[g - 1]
        BY <1>2, <1>3, <2>1, <4>1
      <4>3. x0 >= l /\ x1 >= l /\ x0 \in Int /\ x1 \in Int
        <5>1. o + l <= q
          BY <2>1, <4>2
        <5>. HIDE DEF q
        <5>. QED
          BY <2>1, <3>00, <5>1
      <4>. HIDE DEF x0, x1
      <4>4. Within(x0, l) = l /\ Within(x1, l) = l
        BY <2>1, <4>3, WithinIs
      <4>. QED
        BY <3>0, <4>4 DEF x0, x1
    <3>2. CASE k > g
      <4>1. g <= k - 1 /\ g \in 0 .. s
        BY <1>1, <1>3, <3>2
      <4>2. off[g] <= off[k - 1]
        BY <1>2, <2>1, <4>1
      <4>3. off[g - 1] + j <= o
        <5>1. \A x, y, z \in Nat : \A i \in 1 .. y : x + y <= z => x + i <= z
          OBVIOUS
        <5>2. Len(sc.spots[g].ends) \in Nat
          BY <1>1, <1>3
        <5>. QED
          BY <1>3, <1>4, <2>1, <4>2, <5>1, <5>2 DEF o
      <4>4. x0 <= 0 /\ x1 <= 0 /\ x0 \in Int /\ x1 \in Int
        <5>1. q + j <= o
          BY <4>3
        <5>. HIDE DEF q
        <5>. QED
          BY <2>1, <3>00, <5>1
      <4>. HIDE DEF x0, x1
      <4>5. Within(x0, l) = 0 /\ Within(x1, l) = 0
        BY <2>1, <4>4, WithinIs
      <4>. QED
        BY <3>0, <4>5 DEF x0, x1
    <3>3. k < g \/ k > g
      BY <1>1, <1>3, <1>7
    <3>. QED
      BY <3>1, <3>2, <3>3
  <2>3. SpotRead(sc, off, h + 1, k) = SpotRead(sc, off, h + 0, k)
    BY <2>2 DEF SpotRead
  <2>. HIDE DEF s
  <2>. QED
    BY <2>3
<1>8. /\ at(0)[g] = [id |-> sc.spots[g].id, ends |-> Firsts(sc.spots[g].ends, j - 1)]
      /\ at(1)[g] = [id |-> sc.spots[g].id, ends |-> Firsts(sc.spots[g].ends, j)]
  <2>. DEFINE l == Len(sc.spots[g].ends)
              o == off[g - 1]
  <2>1. l \in Nat /\ o \in Nat /\ j \in 1 .. l
    BY <1>1, <1>3, <1>4
  <2>2. Within((h + 0) - 1 - b - s - o, l) = j - 1 /\ Within((h + 1) - 1 - b - s - o, l) = j
    <3>1. /\ (h + 0) - 1 - b - s - o = (q + j + 0) - 1 - o
          /\ (h + 1) - 1 - b - s - o = (q + j + 1) - 1 - o
      <4>1. 0 \in 0 .. 1 /\ 1 \in 0 .. 1
        OBVIOUS
      <4>. HIDE DEF l, o, b, s, q
      <4>. QED
        BY <1>20, <2>1, <4>1
    <3>2. q = o
      OBVIOUS
    <3>. HIDE DEF l, o, b, s, q
    <3>3. (q + j + 0) - 1 - o = j - 1 /\ (q + j + 1) - 1 - o = j
          /\ j - 1 \in Int /\ j \in Int /\ j - 1 \in 0 .. l /\ j \in 0 .. l
      BY <2>1, <3>2
    <3>4. Within(j - 1, l) = j - 1 /\ Within(j, l) = j
      BY <2>1, <3>3, WithinIs
    <3>. QED
      BY <3>1, <3>3, <3>4
  <2>3. /\ SpotRead(sc, off, h + 0, g) =
             [id |-> sc.spots[g].id, ends |-> Firsts(sc.spots[g].ends, j - 1)]
        /\ SpotRead(sc, off, h + 1, g) =
             [id |-> sc.spots[g].id, ends |-> Firsts(sc.spots[g].ends, j)]
    BY <2>2 DEF SpotRead
  <2>. HIDE DEF s
  <2>. QED
    BY <1>3, <2>3
<1>9. Append(Firsts(sc.spots[g].ends, j - 1), sc.spots[g].ends[j]) =
        Firsts(sc.spots[g].ends, j)
  <2>. DEFINE ends == sc.spots[g].ends
  <2>1. ends \in Seq(Int) /\ Len(ends) \in Nat /\ j \in 1 .. Len(ends)
    BY <1>1, <1>3
  <2>. HIDE DEF ends
  <2>2. j - 1 \in 0 .. Len(ends) /\ j - 1 < Len(ends) /\ (j - 1) + 1 = j
    BY <2>1
  <2>. DEFINE i == j - 1
  <2>4. i \in 0 .. Len(ends) /\ i < Len(ends)
    BY <2>2
  <2>. HIDE DEF i
  <2>3. Append(Firsts(ends, i), ends[i + 1]) = Firsts(ends, i + 1)
    BY <2>1, <2>4, FirstsAre
  <2>. QED
    BY <2>2, <2>3 DEF ends, i
<1>10. \A k \in 1 .. s : at(0)[k].id = sc.spots[k].id
  <2>1. \A k \in 1 .. s : SpotRead(sc, off, h + 0, k).id = sc.spots[k].id
    BY DEF SpotRead
  <2>. QED
    BY <2>1
<1>11. h + 0 = h
  BY <1>20
<1>12. /\ R = [border |-> sc.border, buildings |-> sc.buildings, spots |-> at(0)]
       /\ Reads(sc, off, h + 1) =
            [border |-> sc.border, buildings |-> sc.buildings, spots |-> at(1)]
  <2>1. Reads(sc, off, h + 0) =
          [border |-> sc.border, buildings |-> sc.buildings, spots |-> at(0)]
    <3>1. 0 \in 0 .. 1
      OBVIOUS
    <3>. HIDE DEF at
    <3>. QED
      BY <1>6, <3>1
  <2>2. Reads(sc, off, h + 1) =
          [border |-> sc.border, buildings |-> sc.buildings, spots |-> at(1)]
    <3>1. 1 \in 0 .. 1
      OBVIOUS
    <3>. HIDE DEF at
    <3>. QED
      BY <1>6, <3>1
  <2>. HIDE DEF at
  <2>. QED
    BY <1>11, <2>1, <2>2
<1>13. DOMAIN at(0) = 1 .. s /\ DOMAIN at(1) = 1 .. s /\ at(1) = [k \in 1 .. s |-> at(1)[k]]
       /\ at(0) = [k \in 1 .. s |-> at(0)[k]]
  OBVIOUS
<1>14. SpotsOf(R, sc.spots[g].id) # {} /\ First(SpotsOf(R, sc.spots[g].id)) = g
  <2>. DEFINE S == SpotsOf(R, sc.spots[g].id)
  <2>. HIDE DEF at, R
  <2>1. S = {k \in 1 .. s : sc.spots[k].id = sc.spots[g].id}
    BY <1>10, <1>12, <1>13 DEF SpotsOf
  <2>2. sc.spots[g].ends # <<>>
    <3>1. Len(sc.spots[g].ends) # 0
      BY <1>1, <1>3
    <3>. QED
      BY <3>1, EmptySeq
  <2>3. \A k \in 1 .. s : sc.spots[k].id = sc.spots[g].id => g <= k
    BY <2>2 DEF WellFormed, Linked
  <2>4. g \in S /\ S \subseteq Nat /\ \A r \in S : g <= r
    <3>. HIDE DEF s
    <3>. QED
      BY <1>1, <1>3, <2>1, <2>3
  <2>. HIDE DEF S
  <2>5. S # {} /\ First(S) = g
    BY <2>4, FirstIs
  <2>. QED
    BY <2>5 DEF S
<1>15. SpotsOf(R, sc.spots[g].ends[j]) # {}
  <2>1. PICK k \in 1 .. s : sc.spots[k].id = sc.spots[g].ends[j]
    BY DEF WellFormed, Linked
  <2>. HIDE DEF at, R, s
  <2>. QED
    BY <1>10, <1>12, <1>13, <2>1 DEF SpotsOf
<1>16. ParseElement("momose", R, e) =
         [R EXCEPT !.spots[g].ends = Append(@, sc.spots[g].ends[j])]
  <2>1. R # NoScenario
    BY ReadsScenario
  <2>. HIDE DEF R, at, s, b
  <2>2. e.tag = "Connection" /\ e.start = sc.spots[g].id /\ e.end = sc.spots[g].ends[j]
    BY <1>5 DEF ConnectionElem
  <2>3. ParseElement("momose", R, e) = AddConnection(R, e)
    BY <2>1, <2>2 DEF ParseElement
  <2>. QED
    BY <1>14, <1>15, <2>2, <2>3 DEF AddConnection
<1>17. [at(0) EXCEPT ![g].ends = Append(@, sc.spots[g].ends[j])] = at(1)
  <2>. HIDE DEF at, R, s, b
  <2>1. [at(0)[g] EXCEPT !.ends = Append(at(0)[g].ends, sc.spots[g].ends[j])] = at(1)[g]
    <3>1. at(0)[g].ends = Firsts(sc.spots[g].ends, j - 1)
      BY <1>8
    <3>2. Append(at(0)[g].ends, sc.spots[g].ends[j]) = Firsts(sc.spots[g].ends, j)
      BY <1>9, <3>1
    <3>. DEFINE r == at(0)[g]
                more == Append(at(0)[g].ends, sc.spots[g].ends[j])
    <3>. HIDE DEF more, r
    <3>3. [r EXCEPT !.ends = more] = [id |-> sc.spots[g].id, ends |-> more]
      <4>1. r = [id |-> sc.spots[g].id, ends |-> Firsts(sc.spots[g].ends, j - 1)]
        BY <1>8 DEF r
      <4>. QED
        BY <4>1
    <3>4. at(1)[g] = [id |-> sc.spots[g].id, ends |-> more]
      BY <1>8, <3>2 DEF more
    <3>5. [r EXCEPT !.ends = more] = at(1)[g]
      BY <3>3, <3>4
    <3>. QED
      BY <3>5 DEF r, more
  <2>2. [at(0) EXCEPT ![g].ends = Append(@, sc.spots[g].ends[j])] =
          [k \in 1 .. s |-> IF k = g
                             THEN [at(0)[g] EXCEPT !.ends = Append(@, sc.spots[g].ends[j])]
                             ELSE at(0)[k]]
    BY <1>3, <1>13
  <2>. QED
    BY <1>7, <1>13, <2>1, <2>2
<1>. HIDE DEF at, R, s, b
<1>18. ParseElement("momose", R, e) = Reads(sc, off, h + 1)
  BY <1>12, <1>16, <1>17
<1>. QED
  BY <1>18 DEF R, e

\* Element by element, the viewer's scenario is as far as the file has been read.
LEMMA ReadsNext ==
  ASSUME NEW sc, WellFormed(sc), NEW off, LaidOut(sc, off), NEW h \in 1 .. Len(ToXml(sc)) - 1
  PROVE  ParseElement("momose", Reads(sc, off, h), ToXml(sc)[h + 1]) = Reads(sc, off, h + 1)
<1>. DEFINE b == Len(sc.buildings)
            s == Len(sc.spots)
<1>1. b \in Nat /\ s \in Nat
  BY WellFormedParts
<1>2. off[s] \in Nat /\ Len(ToXml(sc)) = 1 + b + s + off[s]
  <2>1. s \in 0 .. s
    <3>. HIDE DEF s
    <3>. QED
      BY <1>1
  <2>. QED
    BY <2>1, ConnectionsAt DEF LaidOut
<1>3. h \in 1 .. b + s + off[s]
  <2>. HIDE DEF b, s
  <2>. QED
    BY <1>1, <1>2
<1>4. CASE h <= b
  <2>1. h \in 1 .. Len(sc.buildings)
    BY <1>1, <1>3, <1>4
  <2>. QED
    BY <2>1, ReadsBuilding
<1>5. CASE h > b /\ h <= b + s
  <2>1. h - b \in 1 .. s /\ h = b + (h - b)
    <3>. HIDE DEF b, s
    <3>. QED
      BY <1>1, <1>3, <1>5
  <2>2. \A n \in 1 .. s : h = Len(sc.buildings) + n =>
          ParseElement("momose", Reads(sc, off, h), ToXml(sc)[h + 1]) = Reads(sc, off, h + 1)
    BY ReadsSpot
  <2>. QED
    BY <2>1, <2>2
<1>6. CASE h > b + s
  <2>1. h - b - s \in 1 .. off[s]
    <3>. HIDE DEF b, s
    <3>. QED
      BY <1>1, <1>2, <1>3, <1>6
  <2>2. PICK g \in 1 .. s : \E j \in 1 .. Len(sc.spots[g].ends) : h - b - s = off[g - 1] + j
    <3>. DEFINE p == h - b - s
    <3>1. p \in 1 .. off[Len(sc.spots)]
      BY <2>1
    <3>. HIDE DEF p
    <3>2. \E g \in 1 .. Len(sc.spots) : \E j \in 1 .. Len(sc.spots[g].ends) :
            p = off[g - 1] + j
      BY <3>1, ConnectionsCover
    <3>. QED
      BY <3>2, Zenon DEF p
  <2>3. PICK j \in 1 .. Len(sc.spots[g].ends) : h - b - s = off[g - 1] + j
    BY <2>2
  <2>4. h = b + s + (off[g - 1] + j)
    <3>1. \A x, y, z \in Int : \A w : z - x - y = w => z = x + y + w
      OBVIOUS
    <3>2. h \in Int /\ b \in Int /\ s \in Int
      BY <1>1, <1>3
    <3>. HIDE DEF b, s
    <3>. QED
      BY <2>3, <3>1, <3>2
  <2>5. h = Before(sc, off, g, j)
    BY <2>4 DEF Before
  <2>. QED
    BY <2>5, ReadsConnection
<1>. QED
  <2>. HIDE DEF b, s
  <2>. QED
    BY <1>1, <1>3, <1>4, <1>5, <1>6

\* The scenario of the simulation, and what the viewer has of it.
ScenarioInv ==
  /\ phase = "load" =>
       /\ todo \in Seq(Elements)
       /\ scenario = NoScenario \/ WellFormed(scenario)
       /\ viewer.state = "idle"
  /\ phase # "load" => WellFormed(scenario) /\ file.head = ToXml(scenario)
  /\ viewer.state = "head" =>
       /\ viewer.head \in 0 .. Len(file.head)
       /\ viewer.head = 0 => viewer.scenario = NoScenario
       /\ viewer.head # 0 => \A off : LaidOut(scenario, off) =>
                               viewer.scenario = Reads(scenario, off, viewer.head)
  /\ viewer.state \in {"times", "done"} => viewer.scenario = scenario

LEMMA XmlLength ==
  ASSUME NEW sc, WellFormed(sc)
  PROVE  Len(ToXml(sc)) \in Nat /\ Len(ToXml(sc)) >= 1
<1>1. PICK off : LaidOut(sc, off)
  BY XmlAt
<1>. DEFINE b == Len(sc.buildings)
            s == Len(sc.spots)
<1>2. b \in Nat /\ s \in Nat
  BY WellFormedParts
<1>3. off[s] \in Nat
  <2>1. s \in 0 .. s
    <3>. HIDE DEF s
    <3>. QED
      BY <1>2
  <2>. QED
    BY <1>1, <2>1, ConnectionsAt
<1>4. Len(ToXml(sc)) = 1 + b + s + off[s]
  BY <1>1 DEF LaidOut
<1>. HIDE DEF b, s
<1>. QED
  BY <1>2, <1>3, <1>4

\* The viewer has the whole scenario once it has read all of its elements.
LEMMA HeadRead ==
  ASSUME Inv, ScenarioInv, viewer.state = "head", viewer.head = Len(file.head)
  PROVE  viewer.scenario = scenario
<1>1. WellFormed(scenario) /\ file.head = ToXml(scenario)
  BY DEF ScenarioInv
<1>2. PICK off : LaidOut(scenario, off)
  BY <1>1, XmlAt
<1>3. viewer.head = Len(ToXml(scenario)) /\ viewer.head # 0
  BY <1>1, XmlLength
<1>4. viewer.scenario = Reads(scenario, off, viewer.head)
  BY <1>2, <1>3 DEF ScenarioInv
<1>. QED
  BY <1>1, <1>2, <1>3, <1>4, ReadsLast

LEMMA ScenarioInit == Init => ScenarioInv
<1>. SUFFICES ASSUME Init PROVE ScenarioInv
  OBVIOUS
<1>1. todo \in Seq(Elements)
  BY FilesAssumption DEF Init
<1>. QED
  BY <1>1 DEF Init, ScenarioInv, NoViewer

\* momosecpp's steps.
LEMMA ScenarioWriter ==
  ASSUME Inv, ScenarioInv, LoadElement \/ Setup \/ Record \/ Close
  PROVE  ScenarioInv'
<1>1. UNCHANGED viewer
  BY DEF LoadElement, Setup, Record, Close
<1>2. DOMAIN file = {"head", "times", "end"}
  BY DEF Inv, Recorded
<1>3. CASE LoadElement
  <2>1. /\ phase = "load" /\ phase' = "load" /\ todo # <<>> /\ todo' = Tail(todo)
        /\ scenario' = ParseElement("momosecpp", scenario, Head(todo))
    BY <1>3 DEF LoadElement
  <2>2. /\ todo \in Seq(Elements) /\ (scenario = NoScenario \/ WellFormed(scenario))
        /\ viewer.state = "idle"
    BY <2>1 DEF ScenarioInv
  <2>3. Head(todo) \in Elements /\ todo' \in Seq(Elements)
    BY <2>1, <2>2, HeadTailProperties
  <2>4. scenario' = NoScenario \/ WellFormed(scenario')
    BY <2>1, <2>2, <2>3, ParsedOK
  <2>5. WellFormed(scenario)' <=> WellFormed(scenario')
    BY DEF WellFormed, Linked
  <2>. QED
    BY <1>1, <2>1, <2>2, <2>3, <2>4, <2>5 DEF ScenarioInv
<1>4. CASE Setup
  <2>1. /\ phase = "load" /\ phase' = "run" /\ scenario # NoScenario
        /\ UNCHANGED scenario /\ file' = [file EXCEPT !.head = ToXml(scenario)]
    BY <1>4 DEF Setup
  <2>2. file'.head = ToXml(scenario)
    BY <1>2, <2>1
  <2>3. viewer.state = "idle" /\ WellFormed(scenario)
    BY <2>1 DEF ScenarioInv
  <2>4. WellFormed(scenario)' /\ ToXml(scenario)' = ToXml(scenario)
    BY <2>1, <2>3 DEF WellFormed, Linked, ToXml
  <2>. QED
    BY <1>1, <2>1, <2>2, <2>3, <2>4 DEF ScenarioInv
<1>5. CASE Record \/ Close
  <2>1. /\ phase = "run" /\ phase' \in {"run", "closed"} /\ UNCHANGED <<scenario, todo>>
        /\ \E times, end : file' = [file EXCEPT !.times = times]
                         \/ file' = [file EXCEPT !.end = end]
    BY <1>5 DEF Record, Close
  <2>2. file'.head = file.head
    BY <1>2, <2>1
  <2>. QED
    BY <1>1, <2>1, <2>2 DEF ScenarioInv
<1>. QED
  BY <1>3, <1>4, <1>5

\* The viewer's steps.
LEMMA ScenarioReader ==
  ASSUME Inv, ScenarioInv,
         Open \/ ReadHead \/ ReadNode \/ ReadTime \/ ReadNT \/ ReadEnd \/ ReadUnfinished
  PROVE  ScenarioInv'
<1>1. UNCHANGED <<phase, scenario, file>>
  BY DEF Open, ReadHead, ReadNode, ReadTime, ReadNT, ReadEnd, ReadUnfinished, Views
<1>2. DOMAIN viewer = ViewerFields /\ UNCHANGED todo
  BY DEF Inv, Viewed, Open, ReadHead, ReadNode, ReadTime, ReadNT, ReadEnd,
         ReadUnfinished, Views
<1>3. phase # "load" /\ WellFormed(scenario) /\ file.head = ToXml(scenario)
  <2>1. phase # "load"
    BY DEF ScenarioInv, Open, ReadHead, ReadNode, ReadTime, ReadNT, ReadEnd,
           ReadUnfinished, AtEnd
  <2>. QED
    BY <2>1 DEF ScenarioInv
<1>4. ASSUME viewer'.state = "head" =>
               /\ viewer'.head \in 0 .. Len(file.head)
               /\ viewer'.head = 0 => viewer'.scenario = NoScenario
               /\ viewer'.head # 0 =>
                    \A off : LaidOut(scenario, off) =>
                              viewer'.scenario = Reads(scenario, off, viewer'.head),
             viewer'.state \in {"times", "done"} => viewer'.scenario = scenario
      PROVE  ScenarioInv'
  BY <1>1, <1>2, <1>3, <1>4
     DEF ScenarioInv
<1>5. Len(file.head) \in Nat /\ Len(file.head) >= 1
  BY <1>3, XmlLength
<1>6. CASE Open
  <2>1. viewer'.state = "head" /\ viewer'.head = 0 /\ viewer'.scenario = NoScenario
    BY <1>6 DEF Open, NoViewer
  <2>. QED
    BY <1>4, <1>5, <2>1
<1>7. CASE ReadHead
  <2>. DEFINE h == viewer.head
  <2>1. /\ viewer.state = "head" /\ h < Len(file.head)
        /\ viewer'.state = "head" /\ viewer'.head = h + 1
        /\ viewer'.scenario = ParseElement("momose", viewer.scenario, file.head[h + 1])
    BY <1>2, <1>7 DEF ReadHead, Views, ViewerFields
  <2>2. /\ h \in 0 .. Len(file.head)
        /\ h = 0 => viewer.scenario = NoScenario
        /\ h # 0 => \A off : LaidOut(scenario, off) =>
                              viewer.scenario = Reads(scenario, off, h)
    BY <2>1 DEF ScenarioInv
  <2>. HIDE DEF h
  <2>3. h + 1 \in 0 .. Len(file.head) /\ h + 1 # 0 /\ h \in Nat
    BY <1>5, <2>1, <2>2
  <2>4. ASSUME NEW off, LaidOut(scenario, off)
        PROVE  viewer'.scenario = Reads(scenario, off, h + 1)
    <3>1. CASE h = 0
      <4>1. h + 1 = 1
        BY <3>1
      <4>2. viewer'.scenario = ParseElement("momose", NoScenario, ToXml(scenario)[1])
        BY <1>3, <2>1, <2>2, <3>1, <4>1
      <4>. QED
        BY <1>3, <2>4, <4>1, <4>2, ReadsFirst
    <3>2. CASE h # 0
      <4>1. h \in 1 .. Len(ToXml(scenario)) - 1
        BY <1>3, <1>5, <2>1, <2>3, <3>2
      <4>2. viewer.scenario = Reads(scenario, off, h)
        BY <2>2, <2>4, <3>2
      <4>3. ParseElement("momose", Reads(scenario, off, h), ToXml(scenario)[h + 1]) =
              Reads(scenario, off, h + 1)
        BY <1>3, <2>4, <4>1, ReadsNext
      <4>. QED
        BY <1>3, <2>1, <4>2, <4>3
    <3>. QED
      BY <3>1, <3>2
  <2>. QED
    BY <1>4, <2>1, <2>3, <2>4
<1>8. CASE ReadNode
  <2>1. /\ viewer.state = "head" /\ viewer'.state = "head" /\ viewer'.head = viewer.head
        /\ viewer'.scenario = viewer.scenario
    BY <1>2, <1>8 DEF ReadNode, Views, ViewerFields
  <2>. QED
    BY <1>4, <2>1 DEF ScenarioInv
<1>9. CASE ReadTime
  <2>1. /\ viewer'.state = "times" /\ viewer'.scenario = viewer.scenario
        /\ \/ viewer.state = "head" /\ viewer.head = Len(file.head)
           \/ viewer.state = "times"
    BY <1>2, <1>9 DEF ReadTime, Views, ViewerFields
  <2>2. viewer.scenario = scenario
    BY <2>1, HeadRead DEF ScenarioInv
  <2>. QED
    BY <1>4, <2>1, <2>2
<1>10. CASE ReadNT
  <2>1. /\ viewer.state = "times" /\ viewer'.state = "times"
        /\ viewer'.scenario = viewer.scenario
    <3>1. \E nodes, count : viewer' = [viewer EXCEPT !.nodes = nodes, !.nodeCount = count]
      BY <1>10 DEF ReadNT, Views
    <3>. QED
      BY <1>2, <1>10, <3>1 DEF ReadNT, ViewerFields
  <2>. QED
    BY <1>4, <2>1 DEF ScenarioInv
<1>11. CASE ReadEnd
  <2>1. /\ viewer'.state = "done" /\ viewer'.scenario = viewer.scenario
        /\ \/ viewer.state = "head" /\ viewer.head = Len(file.head)
           \/ viewer.state = "times"
    BY <1>2, <1>11 DEF ReadEnd, AtEnd, Views, ViewerFields
  <2>2. viewer.scenario = scenario
    BY <2>1, HeadRead DEF ScenarioInv
  <2>. QED
    BY <1>4, <2>1, <2>2
<1>12. CASE ReadUnfinished
  <2>1. viewer'.state = "failed"
    BY <1>2, <1>12 DEF ReadUnfinished, Views, ViewerFields
  <2>. QED
    BY <1>4, <2>1
<1>. QED
  BY <1>6, <1>7, <1>8, <1>9, <1>10, <1>11, <1>12

-----------------------------------------------------------------------------
(* Theorems                                                                *)

THEOREM InvHolds == Spec => []Inv
BY InitInv, NextInv, PTL DEF Spec

\* The recorder's and the viewer's state keep their types.
THEOREM TypeCorrect == Spec => []TypeOK
<1>1. Inv => TypeOK
  <2>. SUFFICES ASSUME Inv PROVE TypeOK
    OBVIOUS
  <2>1. Len(frames) \in Nat /\ Len(viewer.nodes) \in Nat /\ NumNodes \in Nat
        /\ MaxFrames \in Nat
    BY LenProperties, TraceAssumption DEF Inv, Recorded, Viewed
  <2>. QED
    BY <2>1 DEF Inv, Recorded, Viewed, TypeOK
<1>. QED
  BY <1>1, InvHolds, PTL

\* A trace file that leaves out what did not change gives every node the looks
\* it had in every frame, for any number of nodes and frames.
THEOREM FramesAreRestored == Spec => []FramesRestored
<1>1. Inv => FramesRestored
  <2>. SUFFICES ASSUME Inv, viewer.state \in {"times", "done"}, NEW i \in Nodes
       PROVE  /\ Len(viewer.nodes) = NumNodes
              /\ Len(viewer.nodes[i]) = Seen(i)
              /\ \A k \in 1 .. Len(viewer.nodes[i]) :
                   Restores(frames[k][i], viewer.nodes[i][k])
    BY DEF FramesRestored, Seen, Inv, Viewed
  <2>1. Len(viewer.nodes) = NumNodes /\ Len(viewer.nodes[i]) = Seen(i)
    BY DEF Inv, Viewed
  <2>2. ASSUME NEW k \in 1 .. Seen(i)
        PROVE  Restores(frames[k][i], viewer.nodes[i][k])
    <3>1. Len(frames) \in Nat /\ k \in 1 .. Len(frames)
      BY LenProperties DEF Inv, Recorded, Viewed, Seen
    <3>2. frames[k][i] \in Looks
      BY <3>1, ElementOfSeq DEF Inv, Recorded
    <3>3. viewer.nodes[i][k] = Shown(frames[k][i])
      BY DEF Inv, Viewed
    <3>. QED
      BY <3>2, <3>3, ShownOK
  <2>. QED
    BY <2>1, <2>2
<1>. QED
  BY <1>1, InvHolds, PTL

\* The viewer shows the scenario the simulation ran in, for every scenario file.
THEOREM ScenarioIsRestored == Spec => []ScenarioRestored
<1>1. Inv /\ ScenarioInv /\ [Next]_vars => ScenarioInv'
  <2>. SUFFICES ASSUME Inv, ScenarioInv, [Next]_vars PROVE ScenarioInv'
    OBVIOUS
  <2>1. CASE UNCHANGED vars
    BY <2>1 DEF vars, ScenarioInv
  <2>2. CASE Next
    BY <2>2, ScenarioWriter, ScenarioReader DEF Next
  <2>. QED
    BY <2>1, <2>2
<1>2. ScenarioInv => ScenarioRestored
  BY DEF ScenarioInv, ScenarioRestored
<1>3. Spec => []ScenarioInv
  BY ScenarioInit, InvHolds, <1>1, PTL DEF Spec
<1>. QED
  BY <1>2, <1>3, PTL

\* Only whole runs are shown.
THEOREM OnlyWholeRuns == Spec => []WholeRun
<1>1. Inv => WholeRun
  <2>. SUFFICES ASSUME Inv, viewer.state = "done" PROVE WholeRun
    BY DEF WholeRun
  <2>1. phase = "closed" /\ viewer.loops = Len(frames) /\ viewer.time = Len(frames)
    BY DEF Inv, Viewed
  <2>2. ASSUME NEW i \in Nodes
        PROVE  Len(viewer.nodes[i]) = Len(frames)
    <3>1. NumNodes \in Nat /\ Len(frames) \in Nat
      BY TraceAssumption, LenProperties DEF Inv, Recorded
    <3>2. Seen(i) = viewer.time
      BY <2>1, <3>1 DEF Seen, Nodes, Inv, Viewed
    <3>. QED
      BY <2>1, <3>2 DEF Inv, Viewed
  <2>. QED
    BY <2>1, <2>2 DEF WholeRun
<1>. QED
  BY <1>1, InvHolds, PTL
=============================================================================
