-------------------------- MODULE MCConfiguration --------------------------
(* Configuration with files as SimSaver and a text editor write them.      *)
EXTENDS Configuration

Walk    == "Random walk Model"
Message == "Random_Waypoint_Message_Model"
Viewer  == "Viewer recorder"
Nomadic == "Nomadic Model"
Pursue  == "Pursue Model"
Era     == "ERA Model"
Tourist == "Tourist group Model"    \* momose alone knows it

Main(time, mods, recs) ==
  MainFile([time |-> time, models |-> mods, recorders |-> recs])

Tag(f, t) == <<Start(f), Data(t), Data(Blank)>>

MCGarbage == {-7000, 3000}

MCStrings == STRING

\* "R&D.xml" is not well-formed from the & on, "a&amp;b.xml" is reported in three pieces.
MCMarkup ==
  ("R&D.xml" :> [pieces |-> <<Word("R")>>, cut |-> TRUE])
  @@ ("a&amp;b.xml" :> [pieces |-> <<Word("a"), Word("&"), Word("b.xml")>>, cut |-> FALSE])

\* A builder's file may be empty or end in the first field, before or after its text; the
\* main file may be empty or end before its builders or after one of them.
MCCuts == {0, 3, 4}

MCScraps == {Number(1000), Word("a")}

Fine == <<10000, 100, 100>>

ViewerFile == Tag("filePath", Word("out.xml")) \o Tag("compressOutput", Word("true"))

MessageFile ==
  Tag("prob", Number(1500)) \o Tag("nodetd", Number(2500)) \o Tag("msgtd", Number(-1000))
  \o Tag("nodeexnum", Number(0)) \o Tag("msgexnum", Number(3000))
  \o Tag("perc_adversaries", Number(100)) \o Tag("adversary_prob", Word("high"))
  \o Tag("advers_msg_prob", Number(2000)) \o Tag("collab_msg_prob", Number(500))
  \o Tag("use_f", Number(1000)) \o Tag("vMax", Number(3000))

GroupFiles ==
  (Nomadic :> Tag("alpha", Number(1500)) \o Tag("vMax", Word("fast")))
  @@ (Pursue :> Tag("targetRadius", Number(5)) \o Tag("pauseTime", Number(200)))
  @@ (Era :> Tag("colInterval", Number(-1)) \o Tag("nn", Number(7900)))

\* Files written by hand for the random walk: plain, with a field twice and an
\* unknown one; a text on a line of its own; a text cut in two; an empty field;
\* one that ends in the middle; none of the fields.
WalkFiles ==
  {Tag("vMax", Number(2500)) \o Tag("speed", Number(9000)) \o Tag("vMin", Number(-500))
     \o Tag("vMax", Number(1500)),
   <<Start("nn"), Data(Blank)>> \o Tag("isPhy", Word("true")) \o <<Data(Number(4000))>>,
   <<Start("nn"), Data(Number(1000)), Data(Number(2000))>> \o Tag("isPhy", Word("TRUE")),
   <<Start("vMin"), Start("foo"), Data(Number(8000))>>,
   Tag("nn", Number(4000)) \o <<Start("pauseTime")>>,
   <<>>}

MainFiles ==
  {Main(Fine, <<Walk, Tourist, Walk>>, <<Viewer>>),
   Main(Fine, <<Message, Walk>>, <<>>),
   Main(Fine, <<Nomadic, Pursue, Era, Nomadic>>, <<>>),
   Main(<<10000, 0, 100>>, <<Walk>>, <<>>),
   Tail(Main(Fine, <<Walk>>, <<>>)),
   <<ConfigInfo, ScenarioElem, ModBuilder(Walk)>>,
   <<ConfigInfo, SimTime(Fine), ModBuilder(Walk)>>}

MCDisks ==
  {[f \in {} |-> <<>>]} \cup
  {("main" :> m) @@ (Walk :> w) @@ (Message :> MessageFile) @@ (Viewer :> ViewerFile)
     @@ GroupFiles :
     m \in MainFiles, w \in WalkFiles}

WalkXml == <<"nn", "nr", "ar", "vMin", "vMax", "pauseTime", "isPhy">>

Dialog(mods, recs, speed, path) ==
  [time |-> Fine, models |-> mods, recorders |-> recs,
   toXml |-> [b \in {Walk} |-> WalkXml] @@ [b \in {Tourist} |-> <<"nn", "alpha">>]
               @@ [b \in {Viewer} |-> <<"filePath", "compressOutput">>],
   fields |-> [b \in {Walk} |->
                 [nn |-> 12, nr |-> 500, ar |-> 25000, vMin |-> 100, vMax |-> speed,
                  pauseTime |-> 700, isPhy |-> TRUE]]
              @@ [b \in {Tourist} |-> [nn |-> 3, alpha |-> 500]]
              @@ [b \in {Viewer} |-> [filePath |-> path, compressOutput |-> FALSE]]]

MCDialogs ==
  {Dialog(<<Walk>>, <<Viewer>>, 4000, "a.xml"),
   Dialog(<<Tourist, Walk>>, <<Viewer>>, 6000, ""),
   Dialog(<<Walk>>, <<Viewer>>, 4000, "a&amp;b.xml"),
   Dialog(<<Walk>>, <<Viewer>>, 4000, "R&D.xml")}
=============================================================================
