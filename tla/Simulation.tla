----------------------------- MODULE Simulation -----------------------------
(***************************************************************************)
(* The run of one momosecpp process: main creates the simulation and       *)
(* installs the SIGINT handler, Simulation::run sets everything up, cycles *)
(* over the timesteps (record, animate, upTime) and closes the recorders,  *)
(* one of which may replace the process by gzip.  SIGINT may come between  *)
(* any two actions.                                                        *)
(*                                                                         *)
(* Time: SimTime keeps float seconds rounded to two decimals, here a       *)
(* number of hundredths; the step dt of the configuration is in            *)
(* thousandths, so that the rounding of setTime is part of the model.      *)
(* What the models and the physic engine compute is abstracted to the      *)
(* number of times they animated the nodes.                                *)
(*                                                                         *)
(* A definition whose name starts with Faulty is a plausible mistake in    *)
(* the definition that follows it.                                         *)
(***************************************************************************)
EXTENDS Integers, FiniteSets, SequencesExt

CONSTANTS
  T,             \* the simulation's duration, in hundredths of a second
  StepTimes,     \* the values of dt in the configuration file, in thousandths
  NumRecorders,  \* the data recorders, in the order of the configuration
  Compressing    \* those of them with compressOutput

ASSUME ConfigAssumption ==
  /\ T \in Nat \ {0}
  /\ StepTimes \subseteq Nat
  /\ NumRecorders \in Nat
  /\ Compressing \subseteq 1 .. NumRecorders

VARIABLES
  pc,       \* what the process does next
  k,        \* the recorder the loop at pc is at
  dt,       \* SimTime: the step time
  time,     \* SimTime: the current time
  loops,    \* SimTime: its loop counter
  loop,     \* Simulation: FALSE once the simulation was interrupted
  handled,  \* SIGINT calls sigHandler
  world,    \* how many times the nodes were animated
  rows,     \* rows[r]: what recorder r was given to record
  file,     \* file[r]: recorder r's output file
  sigLoops  \* history: the loop counter when SIGINT was first handled, or -1

simTime == <<dt, time, loops>>
signals == <<loop, handled, sigLoops>>
output == <<rows, file>>
vars == <<pc, k, dt, time, loops, loop, handled, world, rows, file, sigLoops>>

-----------------------------------------------------------------------------
Recorder == 1 .. NumRecorders

File == {"none", "open", "written", "compressed"}

\* The process is over: by the end of main, by exit(1), by the default action
\* of SIGINT, or by execl of gzip.
Over == {"end", "exit", "killed", "gzip"}

PC == {"createSimulation", "signal", "setupModels", "setupRecorders", "while", "record",
       "animate", "upTime", "downTime", "close"} \cup Over

\* The conversion to int, of tenths of a hundredth.
ToInt(x) == IF x >= 0 THEN x \div 10 ELSE -((-x) \div 10)

\* setTime, of thousandths: to the nearest hundredth, as (int)(t*100+0.5) does.
\* A tie goes either way, as the float product may be above or below it.
setTime(x) ==
  IF x % 10 = 5 THEN {ToInt(x + 4), ToInt(x + 6)} ELSE {ToInt(x + 5)}

Goto(from, to) == pc = from /\ pc' = to

-----------------------------------------------------------------------------
(* main and Simulation::setup                                              *)

\* createSimulation; ctrlSimTime makes it exit on a step time that is not positive.
createSimulation ==
  /\ Goto("createSimulation", IF dt > 0 THEN "signal" ELSE "exit")
  /\ UNCHANGED <<k, simTime, signals, world, output>>

\* signal(SIGINT,sigHandler).
InstallHandler ==
  /\ Goto("signal", "setupModels")
  /\ handled' = TRUE
  /\ UNCHANGED <<k, simTime, loop, sigLoops, world, output>>

\* setupModels, setupAI and setupPhysic.
setupModels ==
  /\ Goto("setupModels", "setupRecorders")
  /\ k' = 1
  /\ UNCHANGED <<simTime, signals, world, output>>

\* setupRecorders: the next recorder opens its file, or exits.
setupRecorder ==
  /\ k \in Recorder
  /\ \/ /\ Goto("setupRecorders", "setupRecorders")
        /\ file' = [file EXCEPT ![k] = "open"]
        /\ k' = k + 1
     \/ /\ Goto("setupRecorders", "exit")
        /\ UNCHANGED <<k, file>>
  /\ UNCHANGED <<simTime, signals, world, rows>>

endSetup ==
  /\ k \notin Recorder
  /\ Goto("setupRecorders", "while")
  /\ UNCHANGED <<k, simTime, signals, world, output>>

-----------------------------------------------------------------------------
(* simulationCicle                                                         *)

\* || in place of &&.
FaultyWhile ==
  /\ Goto("while", IF time <= T \/ loop THEN "record" ELSE "downTime")
  /\ k' = 1
  /\ UNCHANGED <<simTime, signals, world, output>>

While ==
  /\ Goto("while", IF time <= T /\ loop THEN "record" ELSE "downTime")
  /\ k' = 1
  /\ UNCHANGED <<simTime, signals, world, output>>

\* The loop over the recorders ends early when interrupted.
FaultyRecordNext ==
  /\ k \in Recorder
  /\ Goto("record", IF loop THEN "record" ELSE "animate")
  /\ rows' = [rows EXCEPT ![k] = Append(@, [time |-> time, loops |-> loops, world |-> world])]
  /\ k' = k + 1
  /\ UNCHANGED <<simTime, signals, world, file>>

\* record: the next recorder gets the time and the nodes as they are.
RecordNext ==
  /\ k \in Recorder
  /\ Goto("record", "record")
  /\ rows' = [rows EXCEPT ![k] = Append(@, [time |-> time, loops |-> loops, world |-> world])]
  /\ k' = k + 1
  /\ UNCHANGED <<simTime, signals, world, file>>

endRecord ==
  /\ k \notin Recorder
  /\ Goto("record", "animate")
  /\ UNCHANGED <<k, simTime, signals, world, output>>

\* animateAI and animatePhysic, but not at the end of the simulation.
animate ==
  /\ Goto("animate", "upTime")
  /\ world' = IF time < T THEN world + 1 ELSE world
  /\ UNCHANGED <<k, simTime, signals, output>>

\* The time is cut instead of rounded.
FaultyUpTime ==
  /\ Goto("upTime", "while")
  /\ time' = (10 * time + dt) \div 10
  /\ loops' = loops + 1
  /\ UNCHANGED <<k, dt, signals, world, output>>

upTime ==
  /\ Goto("upTime", "while")
  /\ time' \in setTime(10 * time + dt)
  /\ loops' = loops + 1
  /\ UNCHANGED <<k, dt, signals, world, output>>

\* The counter is not put back.
FaultyDownTime ==
  /\ Goto("downTime", "close")
  /\ time' \in setTime(10 * time - dt)
  /\ k' = 1
  /\ UNCHANGED <<dt, loops, signals, world, output>>

\* The time and the counter are put back by one step.
downTime ==
  /\ Goto("downTime", "close")
  /\ time' \in setTime(10 * time - dt)
  /\ loops' = loops - 1
  /\ k' = 1
  /\ UNCHANGED <<dt, signals, world, output>>

-----------------------------------------------------------------------------
(* endSimulation                                                           *)

\* The next recorder is not taken.
FaultyCloseNext ==
  /\ k \in Recorder
  /\ Goto("close", "close")
  /\ file' = [file EXCEPT ![k] = "written"]
  /\ UNCHANGED <<k, simTime, signals, world, rows>>

\* The next recorder writes and closes its file; if it is not asked to compress
\* it, or gzip is not there or does not start, the loop goes on.
closeNext ==
  /\ k \in Recorder
  /\ Goto("close", "close")
  /\ file' = [file EXCEPT ![k] = "written"]
  /\ k' = k + 1
  /\ UNCHANGED <<simTime, signals, world, rows>>

\* It is asked to, and execl makes the process gzip.
closeAndExec ==
  /\ k \in Recorder /\ k \in Compressing
  /\ Goto("close", "gzip")
  /\ file' = [file EXCEPT ![k] = "compressed"]
  /\ UNCHANGED <<k, simTime, signals, world, rows>>

endMain ==
  /\ k \notin Recorder
  /\ Goto("close", "end")
  /\ UNCHANGED <<k, simTime, signals, world, output>>

-----------------------------------------------------------------------------
\* The handler is not put back, and the default action is.
FaultySigHandler ==
  /\ pc \notin Over
  /\ IF handled
     THEN /\ loop' = FALSE /\ handled' = FALSE
          /\ sigLoops' = IF loop THEN loops ELSE sigLoops
          /\ UNCHANGED pc
     ELSE /\ pc' = "killed"
          /\ UNCHANGED <<loop, sigLoops, handled>>
  /\ UNCHANGED <<k, simTime, world, output>>

\* SIGINT: sigHandler runs to its end before the process goes on, and ignores
\* further signals meanwhile; before it is installed the process dies.
sigHandler ==
  /\ pc \notin Over
  /\ IF handled
     THEN /\ loop' = FALSE
          /\ sigLoops' = IF loop THEN loops ELSE sigLoops
          /\ UNCHANGED pc
     ELSE /\ pc' = "killed"
          /\ UNCHANGED <<loop, sigLoops>>
  /\ UNCHANGED <<k, simTime, handled, world, output>>

Init ==
  /\ pc = "createSimulation" /\ k = 1
  /\ dt \in StepTimes /\ time = 0 /\ loops = 0
  /\ loop = TRUE /\ handled = FALSE /\ sigLoops = -1
  /\ world = 0
  /\ rows = [r \in Recorder |-> <<>>]
  /\ file = [r \in Recorder |-> "none"]

\* The program.
Main ==
  \/ createSimulation \/ InstallHandler
  \/ setupModels \/ setupRecorder \/ endSetup
  \/ While \/ RecordNext \/ endRecord \/ animate \/ upTime \/ downTime
  \/ closeNext \/ closeAndExec \/ endMain

Next == Main \/ sigHandler

\* The process keeps running; no signal need ever come.
Spec == Init /\ [][Next]_vars /\ WF_vars(Main)

-----------------------------------------------------------------------------
(* Properties                                                              *)

\* Every variable has its type.
Row == [time : 0..T, loops : Nat, world : Nat]
TypeOK ==
  /\ pc \in PC
  /\ k \in 1 .. NumRecorders + 1
  /\ dt \in StepTimes
  /\ time \in Int /\ loops \in Nat \cup {-1}
  /\ loop \in BOOLEAN /\ handled \in BOOLEAN
  /\ world \in Nat
  /\ rows \in [Recorder -> Seq(Row)]
  /\ file \in [Recorder -> File]
  /\ sigLoops \in Nat \cup {-1}

\* Wherever SIGINT strikes, between or inside the record loops, the recorders
\* have recorded the same timesteps once an iteration is over, and row n is the
\* world after exactly n animations, at the n-th loop.
RowsAgree ==
  pc \notin {"record"} \cup Over =>
    \A r \in Recorder :
      /\ rows[r] = rows[1]
      /\ \A n \in 1 .. Len(rows[r]) : rows[r][n].loops = n - 1 /\ rows[r][n].world = n - 1

\* No recorder records two rows for the same time, or a row beyond T, though
\* time is a rounded float.
TimesIncrease ==
  \A r \in Recorder : \A m, n \in 1 .. Len(rows[r]) :
    /\ m < n => rows[r][m].time < rows[r][n].time
    /\ rows[r][n].time <= T

\* If anything was recorded, the recorders close at the time and at the loop of
\* the last row, which the viewer's file ends with, interrupted or not.
ClosedAtLastRow ==
  \A r \in Recorder :
    pc = "close" /\ rows[r] # <<>> =>
      time = Last(rows[r]).time /\ loops = Last(rows[r]).loops

\* After SIGINT the current iteration is finished, and no other is begun.
StopsPromptly ==
  sigLoops # -1 => \A r \in Recorder : Len(rows[r]) <= sigLoops + 1

\* Every run comes to an end, by itself or interrupted.
Terminates == <>(pc \in Over)

\* However often and whenever it is interrupted, a simulation that cycles writes
\* what it recorded: the file of every recorder with no compressing one before it.
RecordedIsWritten ==
  \A r \in Recorder :
    (\A c \in Compressing : r <= c) =>
      ((pc = "while") ~> (file[r] \in {"written", "compressed"}))

\* The comments in the recorders' close (ViewerRecorder.cpp:182, "Comprimo l'ouput
\* se richiesto"; MessageRecorder.cpp:111, "compress the output if necessary"):
\* once the process has become gzip, the output of every recorder that is asked
\* to compress was at least written.
CompressedIfAsked ==
  pc = "gzip" => \A r \in Compressing : file[r] \in {"written", "compressed"}
=============================================================================
