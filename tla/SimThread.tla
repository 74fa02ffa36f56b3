----------------------------- MODULE SimThread -----------------------------
(***************************************************************************)
(* The Java simulator's two threads: SimThread, which runs one simulation, *)
(* and Swing's event dispatch thread (EDT), which runs the handlers of     *)
(* SimulationWnd's buttons.  They share the fields lock and state of the   *)
(* SimThread, its monitor, the SimTime (one object for all the runs of a   *)
(* window) and the buttons' enabled flags.                                 *)
(*                                                                         *)
(* An action is a stretch of code with one access to what the threads      *)
(* share; a synchronized block is one action, as what is in it is atomic   *)
(* for the other thread.  The fields are neither volatile nor guarded: a   *)
(* read that misses a write is the same as the button pressed later, as    *)
(* each field has one writer but for lock, whose two writers are modelled. *)
(*                                                                         *)
(* The time is in hundredths, which is what SimTime rounds it to; the step *)
(* is in thousandths, so that the rounding is part of the model.  A        *)
(* definition whose name starts with Faulty is a plausible mistake in the  *)
(* definition that follows it.                                             *)
(***************************************************************************)
EXTENDS Integers, FiniteSets, SequencesExt

CONSTANTS
  T,                \* the simulation's duration, in hundredths
  Dt,               \* the step time dt, in thousandths
  MaxRuns,          \* bound: runs started in one window
  SpuriousWakeups   \* wait may return without a notify

\* ctrlSimTime refuses a duration and a step that are not positive.
ASSUME ConfigAssumption ==
  /\ T \in Nat \ {0} /\ Dt \in Nat \ {0} /\ MaxRuns \in Nat \ {0}
  /\ SpuriousWakeups \in BOOLEAN

VARIABLES
  pc,        \* pc[r]: where the SimThread of run r is
  state,     \* state[r]: FALSE once ferma was called
  lock,      \* lock[r]: a pause is asked for, or in force
  recorded,  \* recorded[r]: the times and loops run r's recorders recorded
  time,      \* the window's SimTime: its time
  loop,      \* and its loop counter
  sim,       \* the window's SimThread, NoRun for null
  fRun,      \* the next press of Run starts a simulation
  enabled,   \* enabled[b]: button b can be pressed
  edt,       \* what the handler the EDT is in does next
  todo,      \* todo[a]: the setEnabled calls actor a still makes
  closed     \* the window is disposed

thread == <<pc, state, lock, recorded>>
window == <<sim, fRun, edt, closed>>
buttons == <<enabled, todo>>
simTime == <<time, loop>>
vars == <<pc, state, lock, recorded, time, loop, sim, fRun, enabled, edt, todo, closed>>

-----------------------------------------------------------------------------
Run == 1 .. MaxRuns
NoRun == 0
EDT == 0
Actor == Run \cup {EDT}

Button == {"run", "stop", "pause", "reset"}

\* A button method of SimulationWnd: its setEnabled calls, in their order.
SetButtons(r, s, p, x) ==
  << <<"run", r>>, <<"stop", s>>, <<"pause", p>>, <<"reset", x>> >>

cicleButtons      == SetButtons(FALSE, TRUE, TRUE, FALSE)
pauseCicleButtons == SetButtons(TRUE, TRUE, FALSE, FALSE)
onlyResetButton   == SetButtons(FALSE, FALSE, FALSE, TRUE)
resetButton       == SetButtons(TRUE, FALSE, FALSE, FALSE)
disableAllButtons == SetButtons(FALSE, FALSE, FALSE, FALSE)

\* The threads not created, in a run of the simulation, and over.
PC == {"new", "setup", "startSimCicle", "while", "record", "animate", "ctrlLock",
       "wait", "waiting", "notified", "downTime", "endSimCicle", "startSimClose",
       "close", "simEnd", "done"}

\* setTime, of thousandths: Math.round to the nearest hundredth.  A tie goes either
\* way, as the float product it rounds may be above or below it.
setTime(x) ==
  IF x % 10 = 5 THEN {x \div 10, x \div 10 + 1} ELSE {(x + 5) \div 10}

\* Actor a makes its next setEnabled call; its other actions wait for them all.
SetEnabled(a) ==
  /\ todo[a] # <<>>
  /\ enabled' = [enabled EXCEPT ![Head(todo[a])[1]] = Head(todo[a])[2]]
  /\ todo' = [todo EXCEPT ![a] = Tail(@)]
  /\ UNCHANGED <<pc, state, lock, recorded, simTime, window>>

-----------------------------------------------------------------------------
(* SimThread                                                               *)

\* Run r's thread executes the code at "from" and goes on to "to".
Step(r, from, to) ==
  /\ pc[r] = from /\ todo[r] = <<>>
  /\ pc' = [pc EXCEPT ![r] = to]

\* A step that calls one of the window's button methods.
ButtonStep(r, from, to, calls) ==
  /\ Step(r, from, to)
  /\ todo' = [todo EXCEPT ![r] = calls]
  /\ UNCHANGED <<state, lock, recorded, simTime, enabled, window>>

setup(r) ==
  /\ Step(r, "setup", "startSimCicle")
  /\ UNCHANGED <<state, lock, recorded, simTime, buttons, window>>

startSimCicle(r) == ButtonStep(r, "startSimCicle", "while", cicleButtons)

\* The while condition of simulationCicle.
While(r) ==
  /\ Step(r, "while", IF time <= T /\ state[r] THEN "record" ELSE "downTime")
  /\ UNCHANGED <<state, lock, recorded, simTime, buttons, window>>

record(r) ==
  /\ Step(r, "record", "animate")
  /\ recorded' = [recorded EXCEPT ![r] = Append(@, [time |-> time, loop |-> loop])]
  /\ UNCHANGED <<state, lock, simTime, buttons, window>>

\* The time stands still once the duration is reached.
FaultyAnimate(r) ==
  /\ Step(r, "animate", "ctrlLock")
  /\ time' \in IF time < T THEN setTime(10 * time + Dt) ELSE {time}
  /\ loop' = loop + 1
  /\ UNCHANGED <<state, lock, recorded, buttons, window>>

\* animateAI, animatePhysic (unless this is the last iteration) and upTime.
animate(r) ==
  /\ Step(r, "animate", "ctrlLock")
  /\ time' \in setTime(10 * time + Dt) /\ loop' = loop + 1
  /\ UNCHANGED <<state, lock, recorded, buttons, window>>

\* The other flag is tested.
FaultyCtrlLock(r) ==
  /\ Step(r, "ctrlLock", IF ~state[r] THEN "wait" ELSE "while")
  /\ UNCHANGED <<state, lock, recorded, simTime, buttons, window>>

\* ctrlLock tests lock outside its synchronized block.
ctrlLock(r) ==
  /\ Step(r, "ctrlLock", IF lock[r] THEN "wait" ELSE "while")
  /\ UNCHANGED <<state, lock, recorded, simTime, buttons, window>>

\* It waits whatever has happened since the test.
Wait(r) ==
  /\ Step(r, "wait", "waiting")
  /\ UNCHANGED <<state, lock, recorded, simTime, buttons, window>>

\* wait may return without a notify.
SpuriousWakeup(r) ==
  /\ SpuriousWakeups
  /\ Step(r, "waiting", "notified")
  /\ UNCHANGED <<state, lock, recorded, simTime, buttons, window>>

\* Once wait has returned and the monitor is released, lock is cleared.
Unlock(r) ==
  /\ Step(r, "notified", "while")
  /\ lock' = [lock EXCEPT ![r] = FALSE]
  /\ UNCHANGED <<state, recorded, simTime, buttons, window>>

\* The time is not put back.
FaultyDownTime(r) ==
  /\ Step(r, "downTime", "endSimCicle")
  /\ UNCHANGED <<state, lock, recorded, simTime, buttons, window>>

downTime(r) ==
  /\ Step(r, "downTime", "endSimCicle")
  /\ time' \in setTime(10 * time - Dt) /\ loop' = loop - 1
  /\ UNCHANGED <<state, lock, recorded, buttons, window>>

\* The end of the cycle lets the user reset.
FaultyEndSimCicle(r) == ButtonStep(r, "endSimCicle", "startSimClose", onlyResetButton)

endSimCicle(r) == ButtonStep(r, "endSimCicle", "startSimClose", disableAllButtons)

startSimClose(r) == ButtonStep(r, "startSimClose", "close", disableAllButtons)

\* Every recorder writes what it has, the SimTime included, and closes its file.
CloseRecorders(r) ==
  /\ Step(r, "close", "simEnd")
  /\ UNCHANGED <<state, lock, recorded, simTime, buttons, window>>

simEnd(r) == ButtonStep(r, "simEnd", "done", onlyResetButton)

SimThreadStep(r) ==
  \/ setup(r) \/ startSimCicle(r)
  \/ While(r) \/ record(r) \/ animate(r)
  \/ ctrlLock(r) \/ Wait(r) \/ Unlock(r)
  \/ downTime(r) \/ endSimCicle(r)
  \/ startSimClose(r) \/ CloseRecorders(r) \/ simEnd(r)

-----------------------------------------------------------------------------
(* actionPerformed, on the EDT                                             *)

\* The EDT can handle an event.
Idle == edt = "idle" /\ todo[EDT] = <<>> /\ ~closed

\* The threads once sim.notify() has been called: it reaches a waiting thread only.
Notified == [r \in Run |-> IF r = sim /\ pc[r] = "waiting" THEN "notified" ELSE pc[r]]

\* Run, the first time: createAndStartSimulation up to sim.start().
PressRun ==
  /\ Idle /\ enabled["run"] /\ fRun
  /\ \E r \in Run :
       /\ pc[r] = "new" /\ \A q \in Run : q < r => pc[q] # "new"
       /\ sim' = r
       /\ pc' = [pc EXCEPT ![r] = "setup"]
  /\ edt' = "startSetup"
  /\ UNCHANGED <<state, lock, recorded, simTime, fRun, buttons, closed>>

\* createAndStartSimulation after sim.start(), and the end of the handler.
startSetup ==
  /\ edt = "startSetup"
  /\ edt' = "idle" /\ fRun' = FALSE
  /\ todo' = [todo EXCEPT ![EDT] = disableAllButtons]
  /\ UNCHANGED <<thread, simTime, sim, enabled, closed>>

\* Run, after a pause.
PressRunAgain ==
  /\ Idle /\ enabled["run"] /\ ~fRun
  /\ pc' = Notified
  /\ todo' = [todo EXCEPT ![EDT] = cicleButtons]
  /\ UNCHANGED <<state, lock, recorded, simTime, window, enabled>>

PressPause ==
  /\ Idle /\ enabled["pause"]
  /\ lock' = [r \in Run |-> IF r = sim THEN TRUE ELSE lock[r]]
  /\ todo' = [todo EXCEPT ![EDT] = pauseCicleButtons]
  /\ UNCHANGED <<pc, state, recorded, simTime, window, enabled>>

\* stopSimThread calls ferma before it takes the monitor to notify.
ferma == state' = [r \in Run |-> IF r = sim THEN FALSE ELSE state[r]]

PressStop ==
  /\ Idle /\ enabled["stop"]
  /\ ferma
  /\ edt' = "notifyStop"
  /\ UNCHANGED <<pc, lock, recorded, simTime, sim, fRun, buttons, closed>>

notifyStop ==
  /\ edt = "notifyStop"
  /\ pc' = Notified
  /\ edt' = "idle"
  /\ todo' = [todo EXCEPT ![EDT] = disableAllButtons]
  /\ UNCHANGED <<state, lock, recorded, simTime, sim, fRun, enabled, closed>>

\* Close: stopSimThread, then dispose.
PressClose ==
  /\ Idle
  /\ ferma
  /\ edt' = "notifyClose"
  /\ UNCHANGED <<pc, lock, recorded, simTime, sim, fRun, buttons, closed>>

notifyClose ==
  /\ edt = "notifyClose"
  /\ pc' = Notified
  /\ edt' = "idle" /\ closed' = TRUE
  /\ UNCHANGED <<state, lock, recorded, simTime, sim, fRun, buttons>>

\* The SimTime of the run before is kept.
FaultyPressReset ==
  /\ Idle /\ enabled["reset"]
  /\ sim' = NoRun /\ fRun' = TRUE
  /\ todo' = [todo EXCEPT ![EDT] = resetButton]
  /\ UNCHANGED <<thread, simTime, edt, enabled, closed>>

\* resetSimulation.
PressReset ==
  /\ Idle /\ enabled["reset"]
  /\ sim' = NoRun /\ fRun' = TRUE
  /\ time' = 0 /\ loop' = 0
  /\ todo' = [todo EXCEPT ![EDT] = resetButton]
  /\ UNCHANGED <<thread, edt, enabled, closed>>

-----------------------------------------------------------------------------
\* The window's constructor ends with resetSimulation.
Init ==
  /\ pc = [r \in Run |-> "new"]
  /\ state = [r \in Run |-> TRUE]
  /\ lock = [r \in Run |-> FALSE]
  /\ recorded = [r \in Run |-> <<>>]
  /\ time = 0 /\ loop = 0
  /\ sim = NoRun /\ fRun = TRUE
  /\ enabled = [b \in Button |-> b = "run"]
  /\ edt = "idle"
  /\ todo = [a \in Actor |-> <<>>]
  /\ closed = FALSE

\* What the user does.
Press ==
  \/ PressRun \/ PressRunAgain \/ PressPause \/ PressStop \/ PressClose \/ PressReset

\* What the EDT does next in a handler.
Handler == startSetup \/ notifyStop \/ notifyClose

Next ==
  \/ Press \/ Handler
  \/ \E r \in Run : SimThreadStep(r) \/ SpuriousWakeup(r)
  \/ \E a \in Actor : SetEnabled(a)

\* Both threads keep running; the user need not press anything.
Fairness ==
  /\ WF_vars(Handler)
  /\ \A r \in Run : WF_vars(SimThreadStep(r))
  /\ \A a \in Actor : WF_vars(SetEnabled(a))

Spec == Init /\ [][Next]_vars /\ Fairness

-----------------------------------------------------------------------------
(* Properties                                                              *)

\* What a recorder writes of the SimTime each time it records.
Row == [time : 0..T, loop : Nat]

Types ==
  /\ pc \in [Run -> PC]
  /\ state \in [Run -> BOOLEAN]
  /\ lock \in [Run -> BOOLEAN]
  /\ recorded \in [Run -> Seq(Row)]
  /\ time \in Int /\ loop \in Int
  /\ sim \in Run \cup {NoRun}
  /\ fRun \in BOOLEAN
  /\ enabled \in [Button -> BOOLEAN]
  /\ edt \in {"idle", "startSetup", "notifyStop", "notifyClose"}
  /\ todo \in [Actor -> Seq(Button \X BOOLEAN)]
  /\ closed \in BOOLEAN

\* Every variable has its type, and a run records at most once for each time: a step
\* of more than half a hundredth takes the rounded time of simulationCicle on.
TypeOK == Types /\ \A r \in Run : Len(recorded[r]) <= T+1

\* The threads that may still read or write the window's SimTime.
UsesTime(r) == pc[r] \notin {"new", "simEnd", "done"}

\* All the runs of a window share one SimTime and Reset sets it back: no run's
\* thread may still use it when Reset can be pressed, and no two threads at once.
TimeHasOneUser ==
  /\ enabled["reset"] => \A r \in Run : ~UsesTime(r)
  /\ \A q, r \in Run : UsesTime(q) /\ UsesTime(r) => q = r

\* Whatever the user presses, in this run or the ones before, a run's recorders
\* record at the loops 0, 1, 2, ... without a gap or a repetition, first at time 0
\* and then a step, rounded, after the time before.
RecordedInOrder ==
  \A r \in Run : \A n \in 1 .. Len(recorded[r]) :
    /\ recorded[r][n].loop = n - 1
    /\ n = 1 => recorded[r][n].time = 0
    /\ n > 1 => recorded[r][n].time \in setTime(10 * recorded[r][n-1].time + Dt)

\* The comment in simulationCicle (SimThread.java:234), "Rimetto a posto il tempo":
\* however the cycle ended, the recorders close with the time and the loop of their
\* last record, so downTime has to undo the last upTime.  (It does unless the step is
\* a tie of the rounding.)  Stopped before it recorded anything, a run has no upTime to
\* undo, and its files close a step before the start.
ClosedAtLastRecord ==
  \A r \in Run : pc[r] = "close" =>
    IF recorded[r] = <<>>
    THEN time \in setTime(-Dt) /\ loop = -1
    ELSE [time |-> time, loop |-> loop] = Last(recorded[r])

Ended(r) == pc[r] = "done" /\ todo[r] = <<>>

\* A simulation that nobody pauses ends, and its recorders are closed.
EndsUnlessPaused == \A r \in Run : (pc[r] = "setup") ~> (Ended(r) \/ lock[r])

\* Stop and Close end a simulation for which no pause is asked or in force.
StopEndsUnlessPaused == \A r \in Run : (~state[r] /\ ~lock[r]) ~> Ended(r)

\* The comment in actionPerformed (SimulationWnd.java:435), "Se e' in simulazione
\* ferma tutto": a closed window leaves no simulation behind.
CloseStopsEverything == closed ~> \A r \in Run : pc[r] = "new" \/ Ended(r)

\* The comment in simulationCicle (SimThread.java:229), "Blocco il trhead se premuto
\* pause": while the window shows that Pause was pressed, a thread at work in its
\* cycle has the order to block.
PauseBlocksThread ==
  \A r \in Run :
    /\ sim = r /\ edt = "idle" /\ todo[EDT] = <<>>
    /\ pc[r] \in {"record", "animate", "ctrlLock"}
    /\ enabled["run"] /\ ~enabled["pause"]
    => lock[r]
=============================================================================
