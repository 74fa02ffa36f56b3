--------------------------- MODULE Configuration ---------------------------
(***************************************************************************)
(* The way of a configuration to the simulation: momose's SimSaver writes  *)
(* the main file and one file per selected builder, momosecpp's            *)
(* SimulationManager reads them, or files written by hand, through expat's *)
(* callbacks into one parser per builder, and creates models and           *)
(* recorders.                                                              *)
(*                                                                         *)
(* Data: decimal numbers in thousandths.  A file is the sequence of what   *)
(* expat reports of it: it stops where a file is not well-formed, and a    *)
(* text may be in pieces (1024 bytes are read at a time, and a line break  *)
(* or a reference is a piece of its own).  What is in a scenario is        *)
(* Trace's concern.                                                        *)
(***************************************************************************)
EXTENDS Integers, SequencesExt

CONSTANTS
  Disks,     \* the files there are at first: functions from names to files
  Dialogs,   \* what may be set in the configuration window
  Garbage,   \* what an uninitialised number may be
  NaN,       \* what an uninitialised float may be besides
  Markup,    \* the paths that expat does not report as they are: those with a & or a <,
             \* or longer than a read; their pieces, and whether the file is cut off there,
             \* as it is not well-formed
  Cuts,      \* after how many elements a write error may cut a file off
  Scraps,    \* what it may leave of the text that comes then
  Strings    \* STRING (a parameter, as provers do not know that a literal is in STRING)

VARIABLES
  disk,       \* the configuration files, by name; the main file is "main"
  dialog,     \* what was last saved, or was to be
  todo,       \* the files SimSaver has still to write
  saved,      \* has the last save gone through without an error message?
  lost,       \* has something of it been lost all the same?
  phase,      \* of createSimulation
  pos,        \* what has been reported of the file being parsed
  config,     \* ConfigSimParser
  queue,      \* the builders still to be set up
  reading,    \* the builder whose file is being parsed
  parsers,    \* the parser of each builder
  models,     \* the models created, with their parameters
  recorders   \* the same for the data recorders

saverVars  == <<disk, dialog, todo, saved, lost>>
resultVars == <<models, recorders>>
vars == <<saverVars, phase, pos, config, queue, reading, parsers, resultVars>>

-----------------------------------------------------------------------------
(* Texts and their conversions                                             *)

Number(x) == [isNum |-> TRUE, num |-> x, word |-> ""]
Word(w)   == [isNum |-> FALSE, num |-> 0, word |-> w]
Blank     == Word("\n")

\* operator>> of an int stops at the decimal point.
Truncated(x) == IF x >= 0 THEN x \div 1000 ELSE -((-x) \div 1000)

\* A failed conversion is reported, and is -1 or false.
StringToInt(t)   == IF t.isNum THEN Truncated(t.num) ELSE -1
StringToFloat(t) == IF t.isNum THEN t.num ELSE -1000
StringToBool(t)  == t.word \in {"true", "TRUE"}

Ints  == {"nn", "nodetd", "msgtd", "nodeexnum", "msgexnum"}
Bools == {"isPhy", "isThink", "compressOutput"}

Convert(tag, t) ==
  CASE tag \in Ints      -> StringToInt(t)
    [] tag \in Bools     -> StringToBool(t)
    [] tag = "use_f"     -> StringToInt(t) = 1
    [] tag = "filePath"  -> t.word
    [] OTHER             -> StringToFloat(t)

-----------------------------------------------------------------------------
(* The parsers                                                             *)

\* The constructors: fields with their defaults.
Defaults ==
  [simple   |-> [nn |-> 0, nr |-> 1000, ar |-> 10000, isPhy |-> FALSE, isThink |-> FALSE,
                 vMin |-> 0, vMax |-> 5000, pauseTime |-> 0],
   message  |-> [nn |-> 0, nr |-> 1000, ar |-> 10000, isPhy |-> FALSE, isThink |-> FALSE],
   era      |-> [nn |-> 0, nr |-> 1000, ar |-> 10000, isPhy |-> FALSE, isThink |-> FALSE,
                 vMin |-> 0, vMax |-> 5000, pauseTime |-> 1000, colInterval |-> 0],
   nomadic  |-> [nn |-> 0, nr |-> 1000, ar |-> 10000, isPhy |-> FALSE, isThink |-> FALSE,
                 vMin |-> 0, vMax |-> 5000, pauseTime |-> 1000, alpha |-> 500],
   pursue   |-> [nn |-> 0, nr |-> 1000, ar |-> 10000, isPhy |-> FALSE, isThink |-> FALSE,
                 vMin |-> 0, vMax |-> 5000, alpha |-> 500, targetRadius |-> 500],
   recorder |-> [filePath |-> "./viewerRecorderOutput.xml", compressOutput |-> FALSE]]

\* MessageModelParser's constructor leaves its own fields as they are.
Uninitialised ==
  {"pauseTime", "vMin", "vMax", "prob", "nodetd", "msgtd", "nodeexnum", "msgexnum",
   "perc_adversaries", "adversary_prob", "advers_msg_prob", "collab_msg_prob", "use_f"}

Floats == Uninitialised \ (Ints \cup {"use_f"})

Fields(parser) ==
  DOMAIN Defaults[parser] \cup IF parser = "message" THEN Uninitialised ELSE {}

NonNegative == {"vMin", "vMax", "pauseTime", "colInterval", "nodetd", "msgtd"}
Fractions   == {"alpha", "perc_adversaries", "adversary_prob", "advers_msg_prob",
                "collab_msg_prob"}

\* No number is below NaN, nor NaN below a number.
Below(x, y)        == x # NaN /\ y # NaN /\ x < y
AtLeast(lo, v)     == IF Below(v, lo) THEN lo ELSE v
Between(lo, hi, v) == IF Below(hi, v) THEN hi ELSE AtLeast(lo, v)

FaultyGet(field, v) ==
  CASE field \in NonNegative                -> AtLeast(0, v)
    [] field \in Fractions \cup {"prob"}    -> AtLeast(0, v)
    [] field \in {"nodeexnum", "msgexnum"}  -> AtLeast(1, v)
    [] field = "targetRadius"               -> AtLeast(10, v)
    [] OTHER                                -> v

\* The getters: the number of nodes and the radii are not checked, a probability
\* above 1 is 0, and NaN is returned as it is.
Get(field, v) ==
  CASE field \in NonNegative                -> AtLeast(0, v)
    [] field \in Fractions                  -> Between(0, 1000, v)
    [] field = "prob"                       -> IF Below(1000, v) THEN 0 ELSE AtLeast(0, v)
    [] field \in {"nodeexnum", "msgexnum"}  -> AtLeast(1, v)
    [] field = "targetRadius"               -> AtLeast(10, v)
    [] OTHER                                -> v

\* The range of a field.
TypeOf(f, v) ==
  IF f \in Bools \cup {"use_f"} THEN v \in BOOLEAN
  ELSE IF f = "filePath" THEN v \in Strings
  ELSE /\ v \in Int
       /\ f \in NonNegative => v >= 0
       /\ f \in Fractions \cup {"prob"} => v \in 0 .. 1000
       /\ f \in {"nodeexnum", "msgexnum"} => v >= 1

\* setModelBuilders and setRecorderBuilders.
ModelBuilders ==
  [n \in {"Random walk Model", "Random waypoint Model", "Hot-Spot Model",
          "Random Walk Message Model", "Random_Waypoint_Message_Model",
          "ERA Model", "Nomadic Model", "Pursue Model"} |->
     CASE n = "ERA Model"     -> "era"
       [] n = "Nomadic Model" -> "nomadic"
       [] n = "Pursue Model"  -> "pursue"
       [] n \in {"Random Walk Message Model", "Random_Waypoint_Message_Model"} -> "message"
       [] OTHER               -> "simple"]

RecorderBuilders ==
  [n \in {"Viewer recorder", "Message_recorder"} |-> "recorder"]

Builders ==
  [n \in DOMAIN ModelBuilders \cup DOMAIN RecorderBuilders |->
     IF n \in DOMAIN ModelBuilders THEN ModelBuilders[n] ELSE RecorderBuilders[n]]

NoTag == "none"

Untouched == [actTag |-> NoTag, values |-> [field \in {} |-> 0]]

Start(tag) == [tag |-> tag, text |-> Blank]
Data(t)    == [tag |-> NoTag, text |-> t]
IsData(e)  == e.tag = NoTag

\* An unknown element is ignored.
OnStartElement(b, p, tag) ==
  IF tag \in Fields(Builders[b]) THEN [actTag |-> tag, values |-> p.values] ELSE p

\* f with the value v for x.
Updated(f, x, v) == [y \in DOMAIN f \cup {x} |-> IF y = x THEN v ELSE f[y]]

FaultyOnCharacterData(p, t) ==
  IF p.actTag = NoTag THEN p
  ELSE [p EXCEPT !.values = Updated(@, p.actTag, Convert(p.actTag, t))]

\* The first piece of text after a field's tag is the field's, wherever that tag
\* has ended.
OnCharacterData(p, t) ==
  IF p.actTag = NoTag THEN p
  ELSE [actTag |-> NoTag, values |-> Updated(p.values, p.actTag, Convert(p.actTag, t))]

\* The fields of a parser that nothing has been assigned to, not even by the
\* constructor.
Unset(b, values) ==
  Fields(Builders[b]) \ (DOMAIN values \cup DOMAIN Defaults[Builders[b]])

\* What the getters of a parser return.
Parameters(b, values, garbage) ==
  LET Field(f) == CASE f \in DOMAIN values     -> values[f]
                    [] f \in Unset(b, values)  -> IF f = "use_f" THEN garbage[b, f] # 0
                                                  ELSE garbage[b, f]
                    [] OTHER                   -> Defaults[Builders[b]][f]
  IN  [f \in Fields(Builders[b]) |-> Get(f, Field(f))]

-----------------------------------------------------------------------------
(* SimSaver                                                                *)

\* toXml of the builders, an element per line; of an empty text (only a path can
\* be) expat reports nothing but the line break after the element.
ToText(field, v) ==
  CASE field \in Ints     -> Number(1000 * v)
    [] field \in Bools    -> Word(IF v THEN "true" ELSE "false")
    [] OTHER              -> Number(v)

\* A path is written without escaping.
PathPieces(path) ==
  IF path \in DOMAIN Markup THEN Markup[path].pieces
  ELSE IF path = "" THEN <<>> ELSE <<Word(path)>>

Pieces(f, v) == IF f = "filePath" THEN PathPieces(v) ELSE <<ToText(f, v)>>

CutsOff(f, v) == f = "filePath" /\ v \in DOMAIN Markup /\ Markup[v].cut

Line(f, v) ==
  <<Start(f)>> \o [k \in DOMAIN Pieces(f, v) |-> Data(Pieces(f, v)[k])]
  \o IF CutsOff(f, v) THEN <<>> ELSE <<Data(Blank)>>

Value(d, b, k) == d.fields[b][d.toXml[b][k]]

\* Is the file of the builder cut off before its k-th line?
CutBefore(d, b, k) == \E j \in 1 .. k - 1 : CutsOff(d.toXml[b][j], Value(d, b, j))

BuilderFile(d, b) ==
  <<Start("Info"), Data(Blank)>>
  \o FlattenSeq([k \in DOMAIN d.toXml[b] |->
                   IF CutBefore(d, b, k) THEN <<>>
                   ELSE Line(d.toXml[b][k], Value(d, b, k))])

ConfigInfo   == [elem |-> "ConfigInfo"]
SimTime(t)   == [elem |-> "SimTime", time |-> t]
ScenarioElem == [elem |-> "Scenario"]
ModBuilder(n) == [elem |-> "ModBuilder", name |-> n]
RecBuilder(n) == [elem |-> "RecBuilder", name |-> n]

MainFile(d) ==
  <<ConfigInfo, SimTime(d.time), ScenarioElem>>
  \o [k \in DOMAIN d.models |-> ModBuilder(d.models[k])]
  \o [k \in DOMAIN d.recorders |-> RecBuilder(d.recorders[k])]

FileOf(d, name) == IF name = "main" THEN MainFile(d) ELSE BuilderFile(d, name)

\* saveCnfFile, file by file.
SaveCnfFile ==
  /\ phase = "off" /\ todo = <<>>
  /\ dialog' \in Dialogs
  /\ todo' = <<"main">> \o dialog'.models \o dialog'.recorders
  /\ saved' = FALSE /\ lost' = FALSE
  /\ UNCHANGED <<disk, phase, pos, config, queue, reading, parsers, resultVars>>

Written(file) == Updated(disk, Head(todo), file)

Whole == FileOf(dialog, Head(todo))

\* May the event e be reported of what is left of the event f?
IsRest(e, f) ==
  /\ IsData(f) /\ IsData(e) /\ f.text # Blank
  /\ e.text.isNum = f.text.isNum

\* What a write error leaves of a file.
Remnants(name, file) ==
  LET cuts == {n \in Cuts : n < Len(file)}
      torn == {p \in cuts \X {Data(t) : t \in Scraps} : IsRest(p[2], file[p[1] + 1])}
  IN  {SubSeq(file, 1, n) : n \in cuts}
      \cup IF name = "main" THEN {} ELSE {Append(SubSeq(file, 1, p[1]), p[2]) : p \in torn}

Parts == Remnants(Head(todo), Whole)

\* PrintStream keeps write errors to itself.
SaveFile ==
  /\ todo # <<>>
  /\ \/ disk' = Written(Whole) /\ UNCHANGED lost
     \/ /\ \E part \in Parts : disk' = Written(part)
        /\ lost' = TRUE
  /\ todo' = Tail(todo)
  /\ saved' = (Tail(todo) = <<>>)
  /\ UNCHANGED <<dialog, phase, pos, config, queue, reading, parsers, resultVars>>

FaultySaveFails ==
  /\ todo # <<>>
  /\ disk' \in {disk, Written(Whole)}
  /\ todo' = Tail(todo)
  /\ saved' = (Tail(todo) = <<>>)
  /\ UNCHANGED <<dialog, lost, phase, pos, config, queue, reading, parsers, resultVars>>

\* The scenario cannot be loaded, or a file not be created or closed: "Saving
\* aborted!", the files written so far stay.
SaveFails ==
  /\ todo # <<>>
  /\ disk' \in {disk} \cup {Written(file) : file \in {Whole} \cup Parts}
  /\ todo' = <<>>
  /\ UNCHANGED <<dialog, saved, lost, phase, pos, config, queue, reading, parsers, resultVars>>

-----------------------------------------------------------------------------
(* SimulationManager::createSimulation                                     *)

NoTime == <<>>

NoConfig == [configFile |-> FALSE, time |-> NoTime, scenario |-> FALSE,
             mods |-> <<>>, recs |-> <<>>]

Exit == phase' = "aborted" /\ UNCHANGED <<pos, config, queue, reading, parsers, resultVars>>

OpenMain ==
  /\ phase = "off" /\ todo = <<>>
  /\ \/ "main" \notin DOMAIN disk /\ Exit
     \/ /\ "main" \in DOMAIN disk
        /\ phase' = "main"
        /\ UNCHANGED <<pos, config, queue, reading, parsers, resultVars>>
  /\ UNCHANGED saverVars

ParseMain(c, e) ==
  CASE e.elem = "ConfigInfo" -> [c EXCEPT !.configFile = TRUE]
    [] e.elem = "SimTime"    -> [c EXCEPT !.time = e.time]
    [] e.elem = "Scenario"   -> [c EXCEPT !.scenario = TRUE]
    [] e.elem = "ModBuilder" -> [c EXCEPT !.mods = Append(@, e.name)]
    [] e.elem = "RecBuilder" -> [c EXCEPT !.recs = Append(@, e.name)]

MainElement ==
  /\ phase = "main" /\ pos < Len(disk["main"])
  /\ pos' = pos + 1
  /\ config' = ParseMain(config, disk["main"][pos + 1])
  /\ UNCHANGED <<saverVars, phase, queue, reading, parsers, resultVars>>

\* ctrlSimTime.
TimeOK(t) == \A k \in DOMAIN t : t[k] > 0

\* searchModName, searchRecName: what is not found is skipped with a warning.
Known(names, builders) ==
  LET known[k \in 0 .. Len(names)] ==
        IF k = 0 THEN <<>>
        ELSE IF names[k] \in DOMAIN builders THEN Append(known[k - 1], names[k])
        ELSE known[k - 1]
  IN  known[Len(names)]

MainParsed ==
  LET ok == config.configFile /\ config.time # NoTime /\ TimeOK(config.time)
            /\ config.scenario
  IN  /\ phase = "main" /\ pos = Len(disk["main"])
      /\ \/ ~ok /\ Exit
         \/ /\ ok
            /\ phase' = "models" /\ queue' = Known(config.mods, ModelBuilders)
            /\ UNCHANGED <<pos, config, reading, parsers, resultVars>>
      /\ UNCHANGED saverVars

Nobody == "nobody"

\* setupBuilder: only a file that cannot be opened is an error.
OpenBuilder ==
  /\ phase \in {"models", "recorders"} /\ reading = Nobody /\ queue # <<>>
  /\ \/ Head(queue) \notin DOMAIN disk /\ Exit
     \/ /\ Head(queue) \in DOMAIN disk
        /\ reading' = Head(queue) /\ queue' = Tail(queue) /\ pos' = 0
        /\ UNCHANGED <<phase, config, parsers, resultVars>>
  /\ UNCHANGED saverVars

\* Two configured models of one name have one builder, and so one parser, which
\* reads the file twice.
BuilderElement ==
  /\ reading # Nobody /\ pos < Len(disk[reading])
  /\ pos' = pos + 1
  /\ LET e == disk[reading][pos + 1]
     IN  parsers' = [parsers EXCEPT ![reading] =
                       IF IsData(e) THEN OnCharacterData(@, e.text)
                       ELSE OnStartElement(reading, @, e.tag)]
  /\ UNCHANGED <<saverVars, phase, config, queue, reading, resultVars>>

BuilderParsed ==
  /\ reading # Nobody /\ pos = Len(disk[reading])
  /\ reading' = Nobody
  /\ UNCHANGED <<saverVars, phase, pos, config, queue, parsers, resultVars>>

Created(names, garbage) ==
  [k \in DOMAIN names |->
     [builder |-> names[k],
      fields  |-> Parameters(names[k], parsers[names[k]].values, garbage)]]

\* getModels: all the models' files have been read.
GetModels ==
  LET names == Known(config.mods, ModelBuilders)
      unset == UNION {{b} \X Unset(b, parsers[b].values) : b \in ToSet(names)}
  IN  /\ phase = "models" /\ reading = Nobody /\ queue = <<>>
      /\ \E garbage \in [unset -> Garbage \cup {NaN}] :
           /\ \A u \in unset : garbage[u] = NaN => u[2] \in Floats
           /\ models' = Created(names, garbage)
      /\ phase' = "recorders" /\ queue' = Known(config.recs, RecorderBuilders)
      /\ UNCHANGED <<saverVars, pos, config, reading, parsers, recorders>>

GetRecorders ==
  /\ phase = "recorders" /\ reading = Nobody /\ queue = <<>>
  /\ recorders' = Created(Known(config.recs, RecorderBuilders), <<>>)
  /\ phase' = "ready"
  /\ UNCHANGED <<saverVars, pos, config, queue, reading, parsers, models>>

-----------------------------------------------------------------------------
(* What files and dialogs are                                              *)

Texts  == [isNum : BOOLEAN, num : Int, word : Strings]
Events == [tag : Strings, text : Texts]

MainElements ==
  [elem : {"ConfigInfo", "Scenario"}] \cup [elem : {"SimTime"}, time : Int \X Int \X Int]
  \cup [elem : {"ModBuilder", "RecBuilder"}, name : Strings]

\* The dialogs keep values to the ranges of momosecpp's getters, and their builders
\* write fields that momosecpp's builder of that name has, if there is one.
IsDialog(d) ==
  /\ d.time \in Int \X Int \X Int
  /\ d.models \in Seq(Strings) /\ d.recorders \in Seq(Strings)
  /\ \A b \in ToSet(d.models \o d.recorders) :
       /\ b # "main"
       /\ d.toXml[b] \in Seq(Strings)
       /\ DOMAIN d.fields[b] = ToSet(d.toXml[b])
       /\ b \in DOMAIN Builders =>
            \A f \in DOMAIN d.fields[b] :
              /\ f \in Fields(Builders[b]) /\ f # "use_f"
              /\ TypeOf(f, d.fields[b][f]) /\ Get(f, d.fields[b][f]) = d.fields[b][f]

ASSUME ConfigurationAssumption ==
  /\ \A d \in Disks : \A name \in DOMAIN d :
       /\ name = "main" => d[name] \in Seq(MainElements)
       /\ name \in DOMAIN Builders => d[name] \in Seq(Events)
  /\ \A d \in Dialogs : IsDialog(d)
  /\ Garbage \subseteq Int /\ NaN \notin Int
  /\ \A path \in DOMAIN Markup : Markup[path].pieces \in Seq(Texts)
  /\ Cuts \subseteq Nat /\ Scraps \subseteq Texts
  /\ {"", "\n", "true", "false", "Info", NoTag, "./viewerRecorderOutput.xml"}
       \subseteq Strings

-----------------------------------------------------------------------------
(* The specification                                                       *)

Init ==
  /\ disk \in Disks
  /\ dialog \in Dialogs /\ todo = <<>> /\ saved = FALSE /\ lost = FALSE
  /\ phase = "off" /\ pos = 0 /\ config = NoConfig
  /\ queue = <<>> /\ reading = Nobody
  /\ parsers = [b \in DOMAIN Builders |-> Untouched]
  /\ models = <<>> /\ recorders = <<>>

Load ==
  \/ MainElement \/ MainParsed \/ OpenBuilder \/ BuilderElement \/ BuilderParsed
  \/ GetModels \/ GetRecorders

Next == SaveCnfFile \/ SaveFile \/ SaveFails \/ OpenMain \/ Load

Spec == Init /\ [][Next]_vars

-----------------------------------------------------------------------------
(* Properties                                                              *)

\* Where a field is in a file.
Tags(file, f) == {k \in DOMAIN file : file[k].tag = f}

\* Each of the fields has its text in one piece.
Plain(file, b) ==
  \A k \in DOMAIN file :
    file[k].tag \in Fields(Builders[b]) =>
      /\ k + 1 \in DOMAIN file
      /\ IsData(file[k + 1]) /\ file[k + 1].text # Blank
      /\ k + 2 \in DOMAIN file /\ IsData(file[k + 2]) => file[k + 2].text = Blank

\* The only fields that may be NaN: MessageModelParser's floats, which its constructor
\* leaves as they are, where the file does not give them.
MayBeNaN(b, f) ==
  /\ Builders[b] = "message" /\ f \in Floats
  /\ Tags(disk[b], f) = {} \/ ~Plain(disk[b], b)

\* Every variable has its type; in particular a tag or a value is never one of
\* another parser, and the parameters of what is created are in the ranges that the
\* models rely on, but for the floats that may be NaN, which the getters let through.
TypeOK ==
  /\ phase \in {"off", "main", "models", "recorders", "ready", "aborted"}
  /\ saved => todo = <<>>
  /\ reading \in {Nobody} \cup DOMAIN Builders
  /\ \A b \in DOMAIN Builders :
       /\ parsers[b].actTag \in {NoTag} \cup Fields(Builders[b])
       /\ DOMAIN parsers[b].values \subseteq Fields(Builders[b])
  /\ \A m \in ToSet(models \o recorders) :
       /\ DOMAIN m.fields = Fields(Builders[m.builder])
       /\ \A f \in DOMAIN m.fields :
            TypeOf(f, m.fields[f]) \/ (m.fields[f] = NaN /\ MayBeNaN(m.builder, f))

NamesIn(main, elem) ==
  LET names[k \in 0 .. Len(main)] ==
        IF k = 0 THEN <<>>
        ELSE IF main[k].elem = elem THEN Append(names[k - 1], main[k].name)
        ELSE names[k - 1]
  IN  names[Len(main)]

BuilderNames(elem) == NamesIn(disk["main"], elem)

NamesOf(created) == [k \in DOMAIN created |-> created[k].builder]

\* What is simulated is what the files say: the models and recorders of the main
\* file that momosecpp knows, in its order and as often as it has them; each with
\* the last value its own file gives a field, and the default of a field the file
\* does not have, even if the file is read twice, is not well-formed further on
\* or was left by an earlier save.
WrittenIsLoaded ==
  phase = "ready" =>
    /\ NamesOf(models) = Known(BuilderNames("ModBuilder"), ModelBuilders)
    /\ NamesOf(recorders) = Known(BuilderNames("RecBuilder"), RecorderBuilders)
    /\ \A m \in ToSet(models \o recorders) :
         LET b    == m.builder
             file == disk[b]
         IN  \A f \in Fields(Builders[b]) :
               IF Tags(file, f) = {}
               THEN f \in DOMAIN Defaults[Builders[b]] =>
                      m.fields[f] = Get(f, Defaults[Builders[b]][f])
               ELSE Plain(file, b) =>
                      m.fields[f] = Get(f, Convert(f, file[Max(Tags(file, f)) + 1].text))

\* What the recorder has of a path: all of it as a rule; of an empty one the line
\* break that follows, and of one in pieces the first.
Loaded(path) ==
  IF path \in DOMAIN Markup /\ Markup[path].pieces # <<>>
  THEN Head(Markup[path].pieces).word
  ELSE IF path = "" \/ path \in DOMAIN Markup THEN "\n" ELSE path

\* After a save without an error, of which nothing was lost, momosecpp runs with what
\* was set in momose, the builders' own values under the builders' own names, whatever
\* was on the disk before; but of a path it may have a piece only, and nothing is said
\* of a builder whose path cuts its file off.
SavedIsLoaded ==
  phase = "ready" /\ saved /\ ~lost =>
    /\ NamesOf(models) = Known(dialog.models, ModelBuilders)
    /\ NamesOf(recorders) = Known(dialog.recorders, RecorderBuilders)
    /\ \A m \in ToSet(models \o recorders) :
         ~CutBefore(dialog, m.builder, Len(dialog.toXml[m.builder]) + 1) =>
           \A f \in DOMAIN dialog.fields[m.builder] :
             LET v == dialog.fields[m.builder][f]
             IN  m.fields[f] = IF f = "filePath" THEN Loaded(v) ELSE v
=============================================================================
