------------------------------- MODULE Trace -------------------------------
(***************************************************************************)
(* The way of a run to the screen: momosecpp parses a scenario file        *)
(* (ScenarioParser), its ViewerRecorder writes the scenario and a frame    *)
(* per timestep to a trace file that leaves out what did not change, and   *)
(* momose's Player parses that file (ViewerParser), possibly before the    *)
(* run has closed it.                                                      *)
(*                                                                         *)
(* Data: lengths in millimetres, percentages, colours <<r, g, b>>; names,  *)
(* texts, rotations and sizes of scenario elements are left out.           *)
(***************************************************************************)
EXTENDS Integers, SequencesExt

CONSTANTS
  NumNodes,   \* nodes of all the models
  Looks,      \* what a node may look like: position, antenna radius, colour
  Files,      \* the scenario files: sequences of elements
  MaxFrames   \* bound: timesteps recorded

Nodes == 1 .. NumNodes

ASSUME TraceAssumption ==
  /\ NumNodes \in Nat
  /\ MaxFrames \in Nat
  /\ Looks \subseteq [pos : Int \X Int, ar : Nat, color : Nat \X Nat \X Nat]

VARIABLES
  todo,      \* the rest of the scenario file
  scenario,  \* ScenarioParser's scenario, then the simulation's
  phase,     \* "load", "run" or "closed"
  lasts,     \* ViewerRecorder's LastInfo of each node
  file,      \* the trace file
  frames,    \* history: the looks of the nodes at each record
  viewer     \* the Player's ViewerParser

vars == <<todo, scenario, phase, lasts, file, frames, viewer>>

-----------------------------------------------------------------------------
(* Scenario files                                                          *)

NoScenario  == [null |-> TRUE]
Missing     == -1              \* an attribute that is not there
NoColor     == <<>>            \* a colour attribute that is not there
Gray        == <<128, 128, 128>>
Red         == <<255, 0, 0>>
Blue        == <<0, 0, 255>>

ScenarioElem(border) == [tag |-> "Scenario", border |-> border]
BuildingElem(shape, fill, border, attenuation) ==
  [tag |-> "Building", shape |-> shape, fill |-> fill, border |-> border,
   attenuation |-> attenuation]
HotSpotElem(id) == [tag |-> "HotSpot", id |-> id]
ConnectionElem(start, end) == [tag |-> "Connection", start |-> start, end |-> end]

\* What a scenario file may say; a colour of java.awt has components of 0 to 255.
Channel == 0 .. 255
Colors  == Channel \X Channel \X Channel

Elements ==
  [tag : {"Scenario"}, border : Int]
  \cup [tag : {"Building"}, shape : {"rect", "circle"}, fill : Colors \cup {NoColor},
        border : Colors \cup {NoColor}, attenuation : Int]
  \cup [tag : {"HotSpot"}, id : Int]
  \cup [tag : {"Connection"}, start : Int, end : Int]

ASSUME FilesAssumption == Files \subseteq Seq(Elements)

\* A missing attenuation is read as -1.
SetAttenuation(a) == IF a > 100 THEN 100 ELSE IF a < 0 THEN 0 ELSE a

\* Scenario::getHotSpot: the positions of the hot spots with this ID, of which
\* the first is found.
SpotsOf(sc, id) == {s \in DOMAIN sc.spots : sc.spots[s].id = id}

First(S) == CHOOSE s \in S : \A r \in S : s <= r

\* momosecpp's ScenarioParser::getColor returns Color(red, blue, green).
GetColor(program, c) ==
  IF program = "momosecpp" THEN <<c[1], c[3], c[2]>> ELSE c

AddBuilding(program, sc, e) ==
  [sc EXCEPT !.buildings = Append(@,
     [shape |-> e.shape,
      fill   |-> IF e.fill = NoColor THEN Gray ELSE GetColor(program, e.fill),
      border |-> IF e.border = NoColor THEN Red ELSE GetColor(program, e.border),
      attenuation |-> SetAttenuation(e.attenuation)])]

\* Both hot spots must have come before.
AddConnection(sc, e) ==
  IF SpotsOf(sc, e.start) = {} \/ SpotsOf(sc, e.end) = {} THEN sc
  ELSE [sc EXCEPT !.spots[First(SpotsOf(sc, e.start))].ends = Append(@, e.end)]

\* OnStartElement of the ScenarioParser of either program: an element before the
\* scenario is dropped, a second scenario replaces the first.
ParseElement(program, sc, e) ==
  IF e.tag = "Scenario"
  THEN [border |-> e.border, buildings |-> <<>>, spots |-> <<>>]
  ELSE IF sc = NoScenario THEN sc
  ELSE CASE e.tag = "Building"   -> AddBuilding(program, sc, e)
         [] e.tag = "HotSpot"    -> [sc EXCEPT !.spots =
                                       Append(@, [id |-> e.id, ends |-> <<>>])]
         [] e.tag = "Connection" -> AddConnection(sc, e)

\* Scenario::toXml: a connection follows all the hot spots; a default colour is
\* not written.
Optional(color, default) == IF color = default THEN NoColor ELSE color

BuildingXml(b) ==
  BuildingElem(b.shape, Optional(b.fill, Gray), Optional(b.border, Red), b.attenuation)

EndsXml(s) == [k \in DOMAIN s.ends |-> ConnectionElem(s.id, s.ends[k])]

FaultyToXml(sc) ==
  <<ScenarioElem(sc.border)>>
  \o [k \in DOMAIN sc.buildings |-> BuildingXml(sc.buildings[k])]
  \o FlattenSeq([k \in DOMAIN sc.spots |->
                   <<HotSpotElem(sc.spots[k].id)>> \o EndsXml(sc.spots[k])])

ToXml(sc) ==
  <<ScenarioElem(sc.border)>>
  \o [k \in DOMAIN sc.buildings |-> BuildingXml(sc.buildings[k])]
  \o [k \in DOMAIN sc.spots |-> HotSpotElem(sc.spots[k].id)]
  \o FlattenSeq([k \in DOMAIN sc.spots |-> EndsXml(sc.spots[k])])

-----------------------------------------------------------------------------
(* The recorder                                                            *)

\* operator<< of a float prints six digits: the millimetres are lost from one
\* kilometre on, the centimetres from ten.
LastDigit(x) ==
  IF -1000000 < x /\ x < 1000000 THEN 1
  ELSE IF -10000000 < x /\ x < 10000000 THEN 10 ELSE 100

Printed(x) ==
  LET u == LastDigit(x)
  IN  IF u = 1 THEN x ELSE u * ((x + (u \div 2)) \div u)

NoLast == [ar |-> -1, color |-> <<-1, -1, -1>>]

\* cfrAndSwap: -1 stands for "nothing written yet".
ArChanged(last, now)    == last.ar = -1 \/ last.ar # now.ar
ColorChanged(last, now) == last.color = <<-1, -1, -1>> \/ last.color # now.color

\* An NT element: the antenna radius and the colour only if they changed.
NT(last, now) ==
  [pos   |-> <<Printed(now.pos[1]), Printed(now.pos[2])>>,
   ar    |-> IF ArChanged(last, now) THEN Printed(now.ar) ELSE Missing,
   color |-> IF ColorChanged(last, now) THEN now.color ELSE NoColor]

NoFile == [head |-> <<>>, times |-> <<>>, end |-> Missing]

NoViewer == [state |-> "idle", scenario |-> NoScenario, head |-> 0, nodes |-> <<>>,
             time |-> 0, nodeCount |-> 0, loops |-> Missing]

Init ==
  /\ todo \in Files
  /\ scenario = NoScenario
  /\ phase = "load"
  /\ lasts = [i \in Nodes |-> NoLast]
  /\ file = NoFile
  /\ frames = <<>>
  /\ viewer = NoViewer

LoadElement ==
  /\ phase = "load" /\ todo # <<>>
  /\ scenario' = ParseElement("momosecpp", scenario, Head(todo))
  /\ todo' = Tail(todo)
  /\ UNCHANGED <<phase, lasts, file, frames, viewer>>

\* ViewerRecorder::setup.  (A configuration without a scenario does not get
\* here.)
Setup ==
  /\ phase = "load" /\ todo = <<>> /\ scenario # NoScenario
  /\ file' = [file EXCEPT !.head = ToXml(scenario)]
  /\ phase' = "run"
  /\ UNCHANGED <<todo, scenario, lasts, frames, viewer>>

\* record: the nodes look like now.
Record ==
  /\ phase = "run" /\ Len(frames) < MaxFrames
  /\ \E now \in [Nodes -> Looks] :
       /\ file' = [file EXCEPT !.times =
                     Append(@, [i \in Nodes |-> NT(lasts[i], now[i])])]
       /\ lasts' = [i \in Nodes |-> [ar |-> now[i].ar, color |-> now[i].color]]
       /\ frames' = Append(frames, now)
  /\ UNCHANGED <<todo, scenario, phase, viewer>>

\* close: the SimTime element and the end of the root element.
Close ==
  /\ phase = "run"
  /\ phase' = "closed"
  /\ file' = [file EXCEPT !.end = Len(frames)]
  /\ UNCHANGED <<todo, scenario, lasts, frames, viewer>>

-----------------------------------------------------------------------------
(* The viewer                                                              *)

FaultyOpen ==
  /\ phase # "load" /\ viewer.state \in {"idle", "failed"}
  /\ viewer' = [NoViewer EXCEPT !.state = "head", !.nodes = viewer.nodes]
  /\ UNCHANGED <<todo, scenario, phase, lasts, file, frames>>

\* Player::parsingTraceFile: reset, then the file from its first element.  A
\* file that could not be read may be opened again.
Open ==
  /\ phase # "load" /\ viewer.state \in {"idle", "failed"}
  /\ viewer' = [NoViewer EXCEPT !.state = "head"]
  /\ UNCHANGED <<todo, scenario, phase, lasts, file, frames>>

Views(v) == viewer' = v /\ UNCHANGED <<todo, scenario, phase, lasts, file, frames>>

ReadHead ==
  /\ viewer.state = "head" /\ viewer.head < Len(file.head)
  /\ Views([viewer EXCEPT !.head = @ + 1,
              !.scenario = ParseElement("momose", @, file.head[viewer.head + 1])])

FaultyReadNode ==
  /\ viewer.state = "head" /\ viewer.head = Len(file.head)
  /\ Len(viewer.nodes) <= NumNodes
  /\ Views([viewer EXCEPT !.nodes = Append(@, <<>>)])

\* The Node elements follow.
ReadNode ==
  /\ viewer.state = "head" /\ viewer.head = Len(file.head)
  /\ Len(viewer.nodes) < NumNodes
  /\ Views([viewer EXCEPT !.nodes = Append(@, <<>>)])

ReadTime ==
  /\ \/ viewer.state = "head" /\ viewer.head = Len(file.head)
        /\ Len(viewer.nodes) = NumNodes
     \/ viewer.state = "times" /\ viewer.nodeCount = NumNodes
  /\ viewer.time < Len(file.times)
  /\ Views([viewer EXCEPT !.state = "times", !.time = @ + 1, !.nodeCount = 0])

\* createNodeTimeInfo: what is missing is taken from the node's previous frame.
NodeInfo(nt, infos) ==
  [pos   |-> nt.pos,
   ar    |-> IF nt.ar # Missing THEN nt.ar
             ELSE IF infos = <<>> THEN 0 ELSE Last(infos).ar,
   color |-> IF nt.color # NoColor THEN nt.color
             ELSE IF infos = <<>> THEN Blue ELSE Last(infos).color]

ReadNT ==
  LET i == viewer.nodeCount + 1
  IN  /\ viewer.state = "times" /\ viewer.nodeCount < NumNodes
      /\ Views([viewer EXCEPT
                  !.nodes[i] = Append(@, NodeInfo(file.times[viewer.time][i], @)),
                  !.nodeCount = @ + 1])

\* Everything written so far has been read.
AtEnd ==
  /\ viewer.time = Len(file.times)
  /\ \/ viewer.state = "head" /\ viewer.head = Len(file.head)
        /\ Len(viewer.nodes) = NumNodes
     \/ viewer.state = "times" /\ viewer.nodeCount = NumNodes

ReadEnd ==
  /\ AtEnd /\ file.end # Missing
  /\ Views([viewer EXCEPT !.state = "done", !.loops = file.end])

FaultyReadUnfinished ==
  /\ AtEnd /\ file.end = Missing
  /\ Views([viewer EXCEPT !.state = "done", !.loops = viewer.time])

\* The root element is not closed: "Error in parsing ... Loading aborted!".
ReadUnfinished ==
  /\ AtEnd /\ file.end = Missing
  /\ Views([viewer EXCEPT !.state = "failed"])

Next ==
  \/ LoadElement \/ Setup \/ Record \/ Close
  \/ Open \/ ReadHead \/ ReadNode \/ ReadTime \/ ReadNT \/ ReadEnd \/ ReadUnfinished

Spec == Init /\ [][Next]_vars

-----------------------------------------------------------------------------
(* Properties                                                              *)

\* Every variable has its type.
TypeOK ==
  /\ phase \in {"load", "run", "closed"}
  /\ Len(frames) \in 0 .. MaxFrames /\ Len(file.times) = Len(frames)
  /\ file.end \in {Missing} \cup 0 .. MaxFrames
  /\ viewer.state \in {"idle", "head", "times", "done", "failed"}
  /\ viewer.time \in 0 .. Len(frames)
  /\ Len(viewer.nodes) \in 0 .. NumNodes
  /\ viewer.nodeCount \in 0 .. NumNodes

\* y is x, rounded to the digits the recorder prints.
Rounds(x, y) ==
  /\ 2 * (x - y) <= LastDigit(x)
  /\ 2 * (y - x) <= LastDigit(x)

Restores(now, info) ==
  /\ \A axis \in 1 .. 2 : Rounds(now.pos[axis], info.pos[axis])
  /\ Rounds(now.ar, info.ar)
  /\ info.color = now.color

\* What was left out of a frame because it did not change is found again: while
\* the viewer reads, and after failed attempts on an unfinished file, it has for
\* each node the looks recorded so far, frame by frame, none lost or repeated,
\* to the millimetre below a kilometre.
FramesRestored ==
  viewer.state \in {"times", "done"} =>
    /\ Len(viewer.nodes) = NumNodes
    /\ \A i \in Nodes :
         /\ Len(viewer.nodes[i]) =
              IF viewer.time = 0 \/ i <= viewer.nodeCount THEN viewer.time
              ELSE viewer.time - 1
         /\ \A k \in 1 .. Len(viewer.nodes[i]) :
              Restores(frames[k][i], viewer.nodes[i][k])

\* The viewer shows the scenario the simulation ran in: the connections are found
\* again although they are written after all the hot spots and name them by an
\* ID that need not be unique, and a colour left out is the default of both.
ScenarioRestored == viewer.state = "done" => viewer.scenario = scenario

\* Only a run that has been closed is shown, with all of its frames and with the
\* number of timesteps it had at the end, even if the file was being written
\* while it was read.
WholeRun ==
  viewer.state = "done" =>
    /\ phase = "closed"
    /\ viewer.loops = Len(frames)
    /\ \A i \in Nodes : Len(viewer.nodes[i]) = viewer.loops
=============================================================================
