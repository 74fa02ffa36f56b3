-------------------------- MODULE SimThreadProofs --------------------------
(***************************************************************************)
(* Proofs about SimThread, for any duration and number of runs: at most    *)
(* one thread is at work, Reset is only possible when none is, and so the  *)
(* one SimTime of a window serves each run as if it were its own.          *)
(***************************************************************************)
EXTENDS SimThread, SequenceTheorems, TLAPS

-----------------------------------------------------------------------------
(* The inductive invariant                                                 *)

\* The thread of run r has something left to do.
Busy(r) == pc[r] \notin {"new", "done"} \/ todo[r] # <<>>

\* A simulation has been started since the window was opened or reset.
Started == ~fRun \/ edt = "startSetup"

\* At most one thread is busy, the window's, from Run until after simEnd.
OneBusy == \A r \in Run : Busy(r) => sim = r /\ Started

ResetWhenQuiet == enabled["reset"] => \A r \in Run : ~Busy(r)

\* Enabling the reset button is the last thing a thread does, and the EDT
\* never does.
ResetComesLast ==
  \A r \in Run : \A i \in 1 .. Len(todo[r]) :
    todo[r][i][1] = "reset" /\ todo[r][i][2] => i = Len(todo[r]) /\ pc[r] = "done"

NoResetByEDT ==
  \A i \in 1 .. Len(todo[EDT]) : todo[EDT][i][1] = "reset" => ~todo[EDT][i][2]

\* After a reset, the handler still has to disable the button.
Restarted ==
  ~Started =>
    /\ time = 0 /\ loop = 0
    /\ enabled["reset"] =>
         /\ todo[EDT] # <<>>
         /\ todo[EDT][Len(todo[EDT])][1] = "reset"

\* Between two iterations.
Between == {"while", "record", "ctrlLock", "wait", "waiting", "notified", "downTime"}

\* Once the cycle is over, downTime included.
Closing == {"endSimCicle", "startSimClose", "close"}

\* The time t is due for the row after the first l ones of rec.
Due(rec, t, l) ==
  IF l = 0 THEN t = 0 ELSE t \in setTime(10 * rec[l].time + Dt)

\* What a run recorded, when it is at p, at the time t and the loop l.
Fits(p, rec, t, l) ==
  /\ p = "new" => rec = <<>>
  /\ p \in {"setup", "startSimCicle"} => t = 0 /\ l = 0 /\ rec = <<>>
  /\ p \in Between => Len(rec) = l /\ Due(rec, t, l)
  /\ p \in {"record", "animate"} => t <= T
  /\ p = "animate" => l >= 0 /\ Len(rec) = l + 1 /\ rec[l + 1].time = t
  /\ p \in Closing => Len(rec) = l + 1

Timed == \A r \in Run : Fits(pc[r], recorded[r], time, loop)

Control == OneBusy /\ ResetWhenQuiet /\ ResetComesLast /\ NoResetByEDT /\ Restarted

IInv == Types /\ Control /\ Timed /\ RecordedInOrder

-----------------------------------------------------------------------------
(* Init and the setEnabled calls                                           *)

LEMMA InitIInv == Init => IInv
<1>. SUFFICES ASSUME Init PROVE IInv
  OBVIOUS
<1>. USE ConfigAssumption DEF Init, Run, NoRun, EDT, Actor
<1>0. ~enabled["reset"] /\ enabled \in [Button -> BOOLEAN]
  BY DEF Button
<1>1. Types
  <2>1. recorded \in [Run -> Seq(Row)]
    OBVIOUS
  <2>2. todo \in [Actor -> Seq(Button \X BOOLEAN)]
    OBVIOUS
  <2>3. pc \in [Run -> PC]
    BY DEF PC
  <2>4. time \in Int /\ loop \in Int /\ edt \in {"idle", "startSetup", "notifyStop", "notifyClose"}
    OBVIOUS
  <2>. QED
    BY <1>0, <2>1, <2>2, <2>3, <2>4 DEF Types
<1>2. Control
  BY <1>0 DEF Control, OneBusy, ResetWhenQuiet, ResetComesLast, NoResetByEDT, Restarted,
         Started, Busy
<1>3. Timed /\ RecordedInOrder
  BY DEF Timed, Fits, Between, Closing, RecordedInOrder
<1>. QED
  BY <1>1, <1>2, <1>3 DEF IInv

\* The lists of calls the button methods make, and what they do to Reset.
LEMMA ButtonCalls ==
  ASSUME NEW r \in BOOLEAN, NEW s \in BOOLEAN, NEW p \in BOOLEAN, NEW x \in BOOLEAN
  PROVE  /\ SetButtons(r, s, p, x) \in Seq(Button \X BOOLEAN)
         /\ Len(SetButtons(r, s, p, x)) = 4
         /\ \A i \in 1 .. 4 : SetButtons(r, s, p, x)[i][1] = "reset" => i = 4
         /\ SetButtons(r, s, p, x)[4][1] = "reset"
         /\ SetButtons(r, s, p, x)[4][2] = x
BY DEF SetButtons, Button

LEMMA SetEnabledTypes ==
  ASSUME Types, NEW a \in Actor, SetEnabled(a)
  PROVE  Types'
<1>1. todo[a] \in Seq(Button \X BOOLEAN) /\ todo[a] # <<>>
  BY DEF Types, SetEnabled
<1>2. Head(todo[a]) \in Button \X BOOLEAN /\ Tail(todo[a]) \in Seq(Button \X BOOLEAN)
  BY <1>1, HeadTailProperties
<1>3. enabled' \in [Button -> BOOLEAN] /\ todo' \in [Actor -> Seq(Button \X BOOLEAN)]
  BY <1>2 DEF Types, SetEnabled
<1>. QED
  BY <1>3 DEF Types, SetEnabled, window, simTime

\* A call leaves the reset button as it was, unless it is the last one of an
\* idle thread, or turns it off.
LEMMA SetEnabledControl ==
  ASSUME IInv, NEW a \in Actor, SetEnabled(a)
  PROVE  Control'
<1>. DEFINE h == todo[a][1]
<1>1. /\ todo[a] \in Seq(Button \X BOOLEAN) /\ todo[a] # <<>> /\ Len(todo[a]) \in Nat \ {0}
      /\ h \in Button \X BOOLEAN
      /\ todo \in [Actor -> Seq(Button \X BOOLEAN)]
      /\ enabled \in [Button -> BOOLEAN]
  BY DEF IInv, Types, SetEnabled
<1>2. /\ enabled' = [enabled EXCEPT ![h[1]] = h[2]]
      /\ \A b \in Actor : b # a => todo'[b] = todo[b]
      /\ UNCHANGED <<pc, time, loop, sim, fRun, edt>>
      /\ todo'[a] = Tail(todo[a])
  BY <1>1, HeadTailProperties DEF SetEnabled, window, simTime
<1>tail. /\ todo'[a] \in Seq(Button \X BOOLEAN)
       /\ Len(todo'[a]) = Len(todo[a]) - 1
       /\ \A i \in 1 .. Len(todo'[a]) : i + 1 \in 1 .. Len(todo[a]) /\ todo'[a][i] = todo[a][i + 1]
  <2>1. Len(Tail(todo[a])) = Len(todo[a]) - 1 /\ Tail(todo[a]) \in Seq(Button \X BOOLEAN)
    BY <1>1, HeadTailProperties
  <2>2. \A i \in 1 .. Len(Tail(todo[a])) : Tail(todo[a])[i] = todo[a][i + 1]
    BY <1>1, HeadTailProperties
  <2>3. \A i \in 1 .. Len(Tail(todo[a])) : i + 1 \in 1 .. Len(todo[a])
    BY <1>1, <2>1
  <2>. QED
    BY <1>2, <2>1, <2>2, <2>3
<1>. HIDE DEF h
<1>3. h[1] # "reset" => enabled'["reset"] = enabled["reset"]
  BY <1>1, <1>2 DEF Button
<1>4. h[1] = "reset" => enabled'["reset"] = h[2]
  BY <1>1, <1>2 DEF Button
<1>5. \A r \in Run : Busy(r)' => Busy(r)
  BY <1>1, <1>2, <1>tail DEF Busy, Run, EDT, Actor
<1>6. OneBusy'
  BY <1>2, <1>5 DEF IInv, Control, OneBusy, Started
<1>7. ResetComesLast'
  <2>1. SUFFICES ASSUME NEW r \in Run, NEW i \in 1 .. Len(todo'[r]),
                        todo'[r][i][1] = "reset", todo'[r][i][2]
                 PROVE  i = Len(todo'[r]) /\ pc'[r] = "done"
    BY DEF ResetComesLast
  <2>2. CASE r = a
    <3>1. i + 1 \in 1 .. Len(todo[r]) /\ todo'[r][i] = todo[r][i + 1]
      BY <1>tail, <2>2
    <3>2. i + 1 = Len(todo[r]) /\ pc[r] = "done"
      BY <2>1, <3>1 DEF IInv, Control, ResetComesLast
    <3>. QED
      BY <1>1, <1>2, <1>tail, <2>2, <3>2
  <2>3. CASE r # a
    <3>1. todo'[r] = todo[r]
      BY <1>2, <2>3 DEF Actor
    <3>. QED
      BY <1>2, <2>1, <3>1 DEF IInv, Control, ResetComesLast
  <2>. QED
    BY <2>2, <2>3
<1>8. NoResetByEDT'
  <2>1. SUFFICES ASSUME NEW i \in 1 .. Len(todo'[EDT]), todo'[EDT][i][1] = "reset"
                 PROVE  ~todo'[EDT][i][2]
    BY DEF NoResetByEDT
  <2>2. CASE a = EDT
    <3>1. i + 1 \in 1 .. Len(todo[EDT]) /\ todo'[EDT][i] = todo[EDT][i + 1]
      BY <1>tail, <2>2
    <3>. QED
      BY <2>1, <3>1 DEF IInv, Control, NoResetByEDT
  <2>3. CASE a # EDT
    <3>1. todo'[EDT] = todo[EDT]
      BY <1>2, <2>3 DEF Actor
    <3>. QED
      BY <2>1, <3>1 DEF IInv, Control, NoResetByEDT
  <2>. QED
    BY <2>2, <2>3
<1>9. CASE a = EDT
  <2>1. h[1] = "reset" => ~h[2]
    BY <1>1, <1>9 DEF h, IInv, Control, NoResetByEDT
  <2>2. enabled'["reset"] => enabled["reset"]
    BY <1>3, <1>4, <2>1
  <2>3. ResetWhenQuiet'
    BY <1>2, <1>5, <2>2 DEF IInv, Control, ResetWhenQuiet
  <2>4. ASSUME ~Started, enabled'["reset"] PROVE todo'[EDT] # <<>>
    <3>1. todo[EDT][Len(todo[EDT])][1] = "reset"
      BY <2>2, <2>4 DEF IInv, Control, Restarted
    <3>2. h[1] # "reset"
      BY <1>4, <2>1, <2>4
    <3>3. Len(todo[a]) # 1
      BY <1>9, <3>1, <3>2 DEF h
    <3>4. Len(todo[a]) \in Nat \ {0} /\ Len(todo'[a]) = Len(todo[a]) - 1
      BY <1>1, <1>tail
    <3>5. Len(todo'[a]) # 0
      BY <3>3, <3>4
    <3>. QED
      BY <1>9, <3>5
  <2>5. ASSUME ~Started', enabled'["reset"]
        PROVE  todo'[EDT] # <<>> /\ todo'[EDT][Len(todo'[EDT])][1] = "reset"
    <3>1. ~Started
      BY <1>2, <2>5 DEF Started
    <3>2. todo[EDT][Len(todo[EDT])][1] = "reset"
      BY <2>2, <2>5, <3>1 DEF IInv, Control, Restarted
    <3>3. todo'[EDT] # <<>>
      BY <2>4, <2>5, <3>1
    <3>4. Len(todo'[EDT]) \in 1 .. Len(todo'[EDT])
      BY <1>tail, <1>9, <3>3
    <3>5. todo'[EDT][Len(todo'[EDT])] = todo[EDT][Len(todo[EDT])]
      BY <1>1, <1>tail, <1>9, <3>4
    <3>. QED
      BY <3>2, <3>3, <3>5
  <2>6. ~Started' => time' = 0 /\ loop' = 0
    BY <1>2 DEF IInv, Control, Restarted, Started
  <2>7. Restarted'
    BY <2>5, <2>6 DEF Restarted
  <2>. QED
    BY <1>6, <1>7, <1>8, <2>3, <2>7 DEF Control
<1>10. CASE a \in Run
  <2>1. Busy(a) /\ sim = a /\ Started /\ ~enabled["reset"]
    BY <1>1, <1>10 DEF IInv, Control, OneBusy, ResetWhenQuiet, Busy
  <2>2. Restarted'
    BY <1>2, <2>1 DEF Restarted, Started
  <2>3. ASSUME enabled'["reset"] PROVE \A r \in Run : ~Busy(r)'
    <3>1. h[1] = "reset" /\ h[2]
      BY <1>1, <1>3, <1>4, <2>1, <2>3
    <3>2. 1 \in 1 .. Len(todo[a])
      BY <1>1
    <3>3. Len(todo[a]) = 1 /\ pc[a] = "done"
      BY <1>10, <3>1, <3>2 DEF h, IInv, Control, ResetComesLast
    <3>4. Len(todo'[a]) = 0
      BY <1>tail, <3>3
    <3>5. todo'[a] = <<>>
      BY <1>tail, <3>4, EmptySeq
    <3>6. ~Busy(a)'
      BY <1>2, <3>3, <3>5 DEF Busy
    <3>. QED
      BY <1>5, <2>1, <3>6 DEF IInv, Control, OneBusy
  <2>4. ResetWhenQuiet'
    BY <2>3 DEF ResetWhenQuiet
  <2>. QED
    BY <1>6, <1>7, <1>8, <2>2, <2>4 DEF Control
<1>. QED
  BY <1>9, <1>10 DEF Actor, EDT

LEMMA SetEnabledIInv ==
  ASSUME IInv, NEW a \in Actor, SetEnabled(a)
  PROVE  IInv'
<1>1. Types'
  BY SetEnabledTypes DEF IInv
<1>2. Timed' /\ RecordedInOrder'
  BY DEF IInv, Timed, RecordedInOrder, SetEnabled, simTime
<1>. QED
  BY <1>1, <1>2, SetEnabledControl DEF IInv

-----------------------------------------------------------------------------
(* SimThread's steps                                                       *)

\* A step of a thread that is at work leaves one thread busy, and only its last
\* step leaves it calls that enable the reset button.
LEMMA ThreadControl ==
  ASSUME IInv, NEW r \in Run, pc[r] \notin {"new", "done"},
         NEW to \in PC \ {"new"}, pc' = [pc EXCEPT ![r] = to],
         NEW calls, todo' = [todo EXCEPT ![r] = calls],
         \A i \in 1 .. Len(calls) :
           calls[i][1] = "reset" /\ calls[i][2] => i = Len(calls) /\ to = "done",
         UNCHANGED <<sim, fRun, edt, enabled>>
  PROVE  Control'
<1>1. Busy(r) /\ sim = r /\ Started /\ ~enabled["reset"]
  BY DEF Busy, IInv, Control, OneBusy, ResetWhenQuiet
<1>2. /\ pc \in [Run -> PC] /\ DOMAIN todo = Actor
      /\ \A q \in Run : q # r => pc'[q] = pc[q] /\ todo'[q] = todo[q]
      /\ pc'[r] = to /\ todo'[r] = calls
      /\ todo'[EDT] = todo[EDT]
  BY DEF IInv, Types, Actor, EDT, Run
<1>3. OneBusy'
  BY <1>1, <1>2 DEF IInv, Control, OneBusy, Busy, Started
<1>4. ResetWhenQuiet'
  BY <1>1 DEF ResetWhenQuiet
<1>5. ResetComesLast'
  BY <1>2 DEF IInv, Control, ResetComesLast
<1>6. NoResetByEDT'
  BY <1>2 DEF IInv, Control, NoResetByEDT
<1>7. Restarted'
  BY <1>1 DEF Restarted, Started
<1>. QED
  BY <1>3, <1>4, <1>5, <1>6, <1>7 DEF Control

\* The same for a step without calls.
LEMMA QuietControl ==
  ASSUME IInv, NEW r \in Run, pc[r] \notin {"new", "done"}, todo[r] = <<>>,
         NEW to \in PC \ {"new"}, pc' = [pc EXCEPT ![r] = to],
         UNCHANGED <<sim, fRun, edt, enabled, todo>>
  PROVE  Control'
<1>1. todo' = [todo EXCEPT ![r] = <<>>]
  BY DEF IInv, Types, Actor
<1>2. \A i \in 1 .. Len(<<>>) : FALSE
  OBVIOUS
<1>. QED
  BY <1>1, <1>2, ThreadControl

\* What the runs recorded stays in order whatever the time is set to, as long as
\* what the thread at work recorded fits its new place.
LEMMA OthersTimed ==
  ASSUME IInv, NEW r \in Run, pc[r] \notin {"new", "done"},
         NEW to \in PC \ {"new"}, pc' = [pc EXCEPT ![r] = to],
         \A q \in Run \ {r} : recorded'[q] = recorded[q],
         Fits(to, recorded'[r], time', loop')
  PROVE  Timed'
<1>1. Busy(r) /\ sim = r
  BY DEF Busy, IInv, Control, OneBusy
<1>2. \A q \in Run \ {r} : pc'[q] = pc[q] /\ pc[q] \in {"new", "done"}
  BY <1>1 DEF IInv, Control, OneBusy, Busy, Types
<1>3. pc'[r] = to
  BY DEF IInv, Types
<1>4. \A q \in Run \ {r} : pc[q] = "new" => recorded'[q] = <<>>
  BY DEF IInv, Timed, Fits
<1>5. \A q \in Run \ {r} : Fits(pc'[q], recorded'[q], time', loop')
  BY <1>2, <1>4 DEF Fits, Between, Closing
<1>. QED
  BY <1>3, <1>5 DEF Timed

\* A run's records go on fitting as it goes from one place to the next.
LEMMA StillFits ==
  ASSUME NEW p, NEW q, NEW rec, NEW t, NEW l, Fits(p, rec, t, l),
         \/ p \in Between /\ q \in Between \ {"record"}
         \/ p \in Closing /\ q \in Closing
         \/ p = "setup" /\ q = "startSimCicle"
         \/ q = "done" \/ q = "simEnd"
  PROVE  Fits(q, rec, t, l)
BY DEF Fits, Between, Closing

\* Frame: what a step that records nothing and calls nothing leaves alone.
LEMMA QuietStep ==
  ASSUME IInv, NEW r \in Run, pc[r] \notin {"new", "done"}, todo[r] = <<>>,
         NEW to \in PC \ {"new", "setup"}, pc' = [pc EXCEPT ![r] = to],
         time' \in Int, loop' \in Int, lock' \in [Run -> BOOLEAN],
         UNCHANGED <<state, recorded, enabled, todo, window>>,
         Fits(to, recorded[r], time', loop')
  PROVE  IInv'
<1>1. Types'
  BY DEF IInv, Types, window
<1>2. Control'
  BY QuietControl DEF window
<1>3. Timed'
  BY OthersTimed
<1>4. RecordedInOrder'
  BY DEF IInv, RecordedInOrder
<1>. QED
  BY <1>1, <1>2, <1>3, <1>4 DEF IInv

\* A step that ends with a button method does not move the time.
LEMMA ButtonStepIInv ==
  ASSUME IInv, NEW r \in Run, NEW from \in PC \ {"new", "done"}, NEW to \in PC \ {"new"},
         NEW p \in BOOLEAN, NEW q \in BOOLEAN, NEW s \in BOOLEAN, NEW x \in BOOLEAN,
         x => to = "done",
         ButtonStep(r, from, to, SetButtons(p, q, s, x)),
         Fits(to, recorded[r], time, loop)
  PROVE  IInv'
<1>. DEFINE calls == SetButtons(p, q, s, x)
<1>1. /\ pc[r] = from /\ pc' = [pc EXCEPT ![r] = to]
      /\ todo' = [todo EXCEPT ![r] = calls]
      /\ UNCHANGED <<state, lock, recorded, time, loop, enabled, sim, fRun, edt, closed>>
  BY DEF ButtonStep, Step, window, simTime
<1>2. calls \in Seq(Button \X BOOLEAN)
  BY ButtonCalls
<1>3. \A i \in 1 .. Len(calls) :
        calls[i][1] = "reset" /\ calls[i][2] => i = Len(calls) /\ to = "done"
  <2>1. Len(calls) = 4
    BY ButtonCalls
  <2>2. \A i \in 1 .. 4 : calls[i][1] = "reset" => i = 4
    BY DEF SetButtons
  <2>3. calls[4][2] = x
    BY DEF SetButtons
  <2>. QED
    BY <2>1, <2>2, <2>3
<1>. HIDE DEF calls
<1>4. Types'
  <2>1. todo' \in [Actor -> Seq(Button \X BOOLEAN)]
    BY <1>1, <1>2 DEF IInv, Types
  <2>. QED
    BY <1>1, <2>1 DEF IInv, Types
<1>5. Control'
  BY <1>1, <1>3, ThreadControl
<1>6. Timed'
  BY <1>1, OthersTimed
<1>7. RecordedInOrder'
  BY <1>1 DEF IInv, RecordedInOrder
<1>. QED
  BY <1>4, <1>5, <1>6, <1>7 DEF IInv

\* setTime yields hundredths, and a step never takes the time below zero.
LEMMA SetTimeType ==
  ASSUME NEW x \in Int, NEW t \in setTime(x)
  PROVE  t \in Int /\ (x >= 0 => t >= 0)
BY DEF setTime

LEMMA recordIInv ==
  ASSUME IInv, NEW r \in Run, record(r)
  PROVE  IInv'
<1>. USE ConfigAssumption
<1>. DEFINE row == [time |-> time, loop |-> loop]
<1>1. /\ pc[r] = "record" /\ todo[r] = <<>> /\ pc' = [pc EXCEPT ![r] = "animate"]
      /\ recorded' = [recorded EXCEPT ![r] = Append(recorded[r], row)]
      /\ UNCHANGED <<state, lock, time, loop, enabled, todo, sim, fRun, edt, closed>>
  BY DEF record, Step, buttons, window, simTime
<1>2. /\ recorded \in [Run -> Seq(Row)]
      /\ recorded[r] \in Seq(Row) /\ Len(recorded[r]) \in Nat
      /\ time \in Int /\ loop = Len(recorded[r]) /\ time <= T /\ Due(recorded[r], time, loop)
  BY <1>1 DEF IInv, Types, Timed, Fits, Between
<1>3. ASSUME loop > 0
      PROVE  /\ recorded[r][loop].time \in 0..T
             /\ time \in setTime(10 * recorded[r][loop].time + Dt)
             /\ time >= 0
  <2>1. recorded[r][loop] \in Row
    BY <1>2, <1>3, ElementOfSeq
  <2>2. time \in setTime(10 * recorded[r][loop].time + Dt)
    BY <1>2, <1>3 DEF Due
  <2>3. 10 * recorded[r][loop].time + Dt \in Int /\ 10 * recorded[r][loop].time + Dt >= 0
    BY <2>1 DEF Row
  <2>. QED
    BY <2>1, <2>2, <2>3, SetTimeType DEF Row
<1>4. time \in 0..T /\ (loop = 0 => time = 0)
  BY <1>2, <1>3 DEF Due
<1>5. row \in Row /\ row.time = time /\ row.loop = loop
  BY <1>2, <1>4 DEF Row
<1>. HIDE DEF row
<1>6. /\ recorded'[r] = Append(recorded[r], row)
      /\ recorded'[r] \in Seq(Row)
      /\ Len(recorded'[r]) = loop + 1
      /\ recorded'[r][loop + 1] = row
      /\ \A n \in 1 .. loop : recorded'[r][n] = recorded[r][n]
  BY <1>1, <1>2, <1>5, AppendProperties
<1>7. \A q \in Run \ {r} : recorded'[q] = recorded[q]
  BY <1>1, <1>2
<1>8. Types'
  <2>1. recorded' \in [Run -> Seq(Row)]
    BY <1>1, <1>2, <1>6
  <2>2. pc' \in [Run -> PC]
    BY <1>1 DEF IInv, Types, PC
  <2>. QED
    BY <1>1, <2>1, <2>2 DEF IInv, Types
<1>9. Control'
  BY <1>1, QuietControl DEF PC
<1>10. Timed'
  <2>1. Fits("animate", recorded'[r], time', loop')
    BY <1>1, <1>2, <1>5, <1>6 DEF Fits, Between, Closing
  <2>. QED
    BY <1>1, <1>7, <2>1, OthersTimed DEF PC
<1>11. RecordedInOrder'
  <2>. DEFINE Ordered(rec, n) ==
         /\ rec[n].loop = n - 1
         /\ n = 1 => rec[n].time = 0
         /\ n > 1 => rec[n].time \in setTime(10 * rec[n-1].time + Dt)
  <2>1. \A n \in 1 .. loop : Ordered(recorded'[r], n)
    <3>1. \A n \in 1 .. loop : Ordered(recorded[r], n)
      BY <1>2 DEF IInv, RecordedInOrder
    <3>2. \A n \in 1 .. loop : n > 1 => n - 1 \in 1 .. loop
      BY <1>2
    <3>. QED
      BY <1>6, <3>1, <3>2
  <2>2. Ordered(recorded'[r], loop + 1)
    BY <1>2, <1>3, <1>4, <1>5, <1>6
  <2>3. \A n \in 1 .. Len(recorded'[r]) : n \in 1 .. loop \/ n = loop + 1
    BY <1>2, <1>6
  <2>4. \A n \in 1 .. Len(recorded'[r]) : Ordered(recorded'[r], n)
    BY <2>1, <2>2, <2>3
  <2>5. \A q \in Run \ {r} : \A n \in 1 .. Len(recorded'[q]) : Ordered(recorded'[q], n)
    BY <1>7 DEF IInv, RecordedInOrder
  <2>. QED
    BY <2>4, <2>5 DEF RecordedInOrder
<1>. QED
  BY <1>8, <1>9, <1>10, <1>11 DEF IInv

\* upTime makes the time due for the next row, whatever it was.
LEMMA animateIInv ==
  ASSUME IInv, NEW r \in Run, animate(r)
  PROVE  IInv'
<1>. USE ConfigAssumption
<1>1. /\ pc[r] = "animate" /\ todo[r] = <<>> /\ pc' = [pc EXCEPT ![r] = "ctrlLock"]
      /\ time' \in setTime(10 * time + Dt) /\ loop' = loop + 1
      /\ UNCHANGED <<state, lock, recorded, enabled, todo, window>>
  BY DEF animate, Step, buttons
<1>2. /\ Len(recorded[r]) = loop + 1 /\ recorded[r][loop + 1].time = time
      /\ time \in Int /\ loop \in Nat /\ Len(recorded[r]) \in Nat
      /\ lock' \in [Run -> BOOLEAN]
  BY <1>1 DEF IInv, Types, Timed, Fits
<1>3. time' \in Int /\ loop' \in Int /\ loop' # 0
  <2>1. 10 * time + Dt \in Int
    BY <1>2
  <2>. QED
    BY <1>1, <1>2, <2>1, SetTimeType
<1>4. Fits("ctrlLock", recorded[r], time', loop')
  BY <1>1, <1>2, <1>3 DEF Fits, Between, Closing, Due
<1>. QED
  BY <1>1, <1>2, <1>3, <1>4, QuietStep DEF PC

LEMMA downTimeIInv ==
  ASSUME IInv, NEW r \in Run, downTime(r)
  PROVE  IInv'
<1>. USE ConfigAssumption
<1>1. /\ pc[r] = "downTime" /\ todo[r] = <<>> /\ pc' = [pc EXCEPT ![r] = "endSimCicle"]
      /\ time' \in setTime(10 * time - Dt) /\ loop' = loop - 1
      /\ UNCHANGED <<state, lock, recorded, enabled, todo, window>>
  BY DEF downTime, Step, buttons
<1>2. /\ Len(recorded[r]) = loop /\ time \in Int /\ loop \in Int
      /\ lock' \in [Run -> BOOLEAN]
  BY <1>1 DEF IInv, Types, Timed, Fits, Between
<1>3. time' \in Int /\ loop' \in Int
  BY <1>1, <1>2, SetTimeType
<1>4. Fits("endSimCicle", recorded[r], time', loop')
  BY <1>1, <1>2 DEF Fits, Between, Closing
<1>. QED
  BY <1>1, <1>2, <1>3, <1>4, QuietStep DEF PC

LEMMA ThreadIInv ==
  ASSUME IInv, NEW r \in Run, SimThreadStep(r) \/ SpuriousWakeup(r)
  PROVE  IInv'
<1>. USE ConfigAssumption DEF Step, buttons, PC
<1>1. /\ lock \in [Run -> BOOLEAN] /\ time \in Int /\ loop \in Int
      /\ Fits(pc[r], recorded[r], time, loop)
  BY DEF IInv, Types, Timed
<1>still. ASSUME NEW q \in PC,
                 \/ pc[r] \in Between /\ q \in Between \ {"record"}
                 \/ pc[r] \in Closing /\ q \in Closing
                 \/ pc[r] = "setup" /\ q = "startSimCicle"
                 \/ q = "done" \/ q = "simEnd"
          PROVE  Fits(q, recorded[r], time, loop)
  BY <1>1, <1>still, StillFits, Zenon
<1>2. CASE setup(r)
  <2>1. Fits("startSimCicle", recorded[r], time, loop)
    BY <1>2, <1>still DEF setup
  <2>. QED
    BY <1>1, <1>2, <2>1, QuietStep DEF setup, simTime
<1>3. CASE startSimCicle(r)
  <2>1. Fits("while", recorded[r], time, loop)
    BY <1>1, <1>3 DEF startSimCicle, ButtonStep, Fits, Between, Closing, Due
  <2>. QED
    BY <1>3, <2>1, ButtonStepIInv DEF startSimCicle, cicleButtons
<1>4. CASE While(r)
  <2>. DEFINE to == IF time <= T /\ state[r] THEN "record" ELSE "downTime"
  <2>1. to \in {"record", "downTime"} /\ (to = "record" => time <= T)
    OBVIOUS
  <2>2. pc[r] = "while" /\ todo[r] = <<>> /\ pc' = [pc EXCEPT ![r] = to]
        /\ UNCHANGED <<state, lock, recorded, time, loop, enabled, todo, window>>
    BY <1>4 DEF While, simTime
  <2>. HIDE DEF to
  <2>3. Fits(to, recorded[r], time, loop)
    BY <1>1, <2>1, <2>2 DEF Fits, Between, Closing
  <2>. QED
    BY <1>1, <2>1, <2>2, <2>3, QuietStep
<1>5. CASE record(r)
  BY <1>5, recordIInv
<1>6. CASE animate(r)
  BY <1>6, animateIInv
<1>7. CASE ctrlLock(r)
  <2>. DEFINE to == IF lock[r] THEN "wait" ELSE "while"
  <2>1. to \in {"wait", "while"} /\ to \in PC \ {"new"}
    OBVIOUS
  <2>2. pc[r] = "ctrlLock" /\ todo[r] = <<>> /\ pc' = [pc EXCEPT ![r] = to]
        /\ UNCHANGED <<state, lock, recorded, time, loop, enabled, todo, window>>
    BY <1>7 DEF ctrlLock, simTime
  <2>. HIDE DEF to
  <2>3. Fits(to, recorded[r], time, loop)
    BY <1>still, <2>1, <2>2 DEF Between
  <2>. QED
    BY <1>1, <2>1, <2>2, <2>3, QuietStep
<1>8. CASE Wait(r)
  <2>1. Fits("waiting", recorded[r], time, loop)
    BY <1>8, <1>still DEF Wait, Between
  <2>. QED
    BY <1>1, <1>8, <2>1, QuietStep DEF Wait, simTime
<1>9. CASE Unlock(r)
  <2>1. Fits("while", recorded[r], time, loop)
    BY <1>9, <1>still DEF Unlock, Between
  <2>. QED
    BY <1>1, <1>9, <2>1, QuietStep DEF Unlock, simTime
<1>10. CASE downTime(r)
  BY <1>10, downTimeIInv
<1>11. CASE endSimCicle(r)
  <2>1. Fits("startSimClose", recorded[r], time, loop)
    BY <1>11, <1>still DEF endSimCicle, ButtonStep, Closing
  <2>. QED
    BY <1>11, <2>1, ButtonStepIInv DEF endSimCicle, disableAllButtons
<1>12. CASE startSimClose(r)
  <2>1. Fits("close", recorded[r], time, loop)
    BY <1>12, <1>still DEF startSimClose, ButtonStep, Closing
  <2>. QED
    BY <1>12, <2>1, ButtonStepIInv DEF startSimClose, disableAllButtons
<1>13. CASE CloseRecorders(r)
  <2>1. Fits("simEnd", recorded[r], time, loop)
    BY <1>still
  <2>. QED
    BY <1>1, <1>13, <2>1, QuietStep DEF CloseRecorders, simTime
<1>14. CASE simEnd(r)
  <2>1. Fits("done", recorded[r], time, loop)
    BY <1>still
  <2>. QED
    BY <1>14, <2>1, ButtonStepIInv DEF simEnd, onlyResetButton
<1>15. CASE SpuriousWakeup(r)
  <2>1. Fits("notified", recorded[r], time, loop)
    BY <1>15, <1>still DEF SpuriousWakeup, Between
  <2>. QED
    BY <1>1, <1>15, <2>1, QuietStep DEF SpuriousWakeup, simTime
<1>. QED
  BY <1>2, <1>3, <1>4, <1>5, <1>6, <1>7, <1>8, <1>9, <1>10, <1>11, <1>12, <1>13, <1>14,
     <1>15 DEF SimThreadStep

-----------------------------------------------------------------------------
(* The EDT's handlers                                                      *)

\* A handler may wake the window's thread, which stays as busy as it was.
LEMMA NotifiedKeepsBusy ==
  ASSUME Types, pc' = pc \/ pc' = Notified
  PROVE  /\ pc' \in [Run -> PC]
         /\ \A r \in Run : pc'[r] = pc[r] \/ (pc[r] = "waiting" /\ pc'[r] = "notified")
<1>1. pc \in [Run -> PC] /\ "notified" \in PC
  BY DEF Types, PC
<1>2. CASE pc' = pc
  BY <1>1, <1>2
<1>3. CASE pc' = Notified
  BY <1>1, <1>3 DEF Notified
<1>. QED
  BY <1>2, <1>3

\* The lists of calls of a handler turn the reset button off in the end.
LEMMA HandlerCalls ==
  ASSUME NEW r \in BOOLEAN, NEW s \in BOOLEAN, NEW p \in BOOLEAN
  PROVE  LET calls == SetButtons(r, s, p, FALSE)
         IN  /\ calls \in Seq(Button \X BOOLEAN)
             /\ \A i \in 1 .. Len(calls) : calls[i][1] = "reset" => ~calls[i][2]
             /\ calls # <<>> /\ calls[Len(calls)][1] = "reset"
<1>. DEFINE calls == SetButtons(r, s, p, FALSE)
<1>1. calls \in Seq(Button \X BOOLEAN) /\ Len(calls) = 4
  <2>1. \A x \in BOOLEAN : SetButtons(r, s, p, x) \in Seq(Button \X BOOLEAN)
    BY ButtonCalls, Zenon
  <2>2. calls \in Seq(Button \X BOOLEAN)
    BY <2>1, Zenon
  <2>3. Len(calls) = 4
    BY DEF SetButtons
  <2>. QED
    BY <2>2, <2>3
<1>2. calls[4][1] = "reset" /\ calls[4][2] = FALSE
  BY DEF SetButtons
<1>3. \A i \in 1 .. 4 : calls[i][1] = "reset" => i = 4
  BY DEF SetButtons
<1>. HIDE DEF calls
<1>4. calls # <<>>
  BY <1>1
<1>5. \A i \in 1 .. Len(calls) : calls[i][1] = "reset" => ~calls[i][2]
  BY <1>1, <1>2, <1>3
<1>6. calls[Len(calls)][1] = "reset"
  BY <1>1, <1>2
<1>. QED
  BY <1>1, <1>4, <1>5, <1>6 DEF calls

\* A handler that starts no run and leaves the time alone.
LEMMA HandlerIInv ==
  ASSUME IInv, pc' = pc \/ pc' = Notified,
         NEW calls \in Seq(Button \X BOOLEAN), todo' = [todo EXCEPT ![EDT] = calls],
         \A i \in 1 .. Len(calls) : calls[i][1] = "reset" => ~calls[i][2],
         calls = todo[EDT] \/ (calls # <<>> /\ calls[Len(calls)][1] = "reset"),
         state' \in [Run -> BOOLEAN], lock' \in [Run -> BOOLEAN],
         fRun' \in BOOLEAN, closed' \in BOOLEAN,
         edt' \in {"idle", "startSetup", "notifyStop", "notifyClose"},
         Started' <=> Started,
         UNCHANGED <<recorded, time, loop, sim, enabled>>
  PROVE  IInv'
<1>. USE ConfigAssumption
<1>1. /\ todo \in [Actor -> Seq(Button \X BOOLEAN)] /\ EDT \in Actor
      /\ todo'[EDT] = calls /\ \A r \in Run : todo'[r] = todo[r]
  <2>1. todo \in [Actor -> Seq(Button \X BOOLEAN)] /\ EDT \in Actor
    BY DEF IInv, Types, Actor
  <2>2. \A r \in Run : r \in Actor /\ r # EDT
    BY DEF Actor, EDT, Run
  <2>. QED
    BY <2>1, <2>2
<1>2. /\ pc' \in [Run -> PC]
      /\ \A r \in Run : pc'[r] = pc[r] \/ (pc[r] = "waiting" /\ pc'[r] = "notified")
  BY NotifiedKeepsBusy DEF IInv
<1>3. \A r \in Run : Busy(r)' <=> Busy(r)
  BY <1>1, <1>2 DEF Busy
<1>4. OneBusy'
  BY <1>3 DEF IInv, Control, OneBusy
<1>5. ResetWhenQuiet'
  BY <1>3 DEF IInv, Control, ResetWhenQuiet
<1>6. ResetComesLast'
  <2>1. ResetComesLast /\ \A r \in Run : pc[r] = "done" => pc'[r] = "done"
    BY <1>2 DEF IInv, Control
  <2>2. \A r \in Run : todo'[r] = todo[r]
    BY <1>1
  <2>3. SUFFICES ASSUME NEW r \in Run, NEW i \in 1 .. Len(todo'[r]),
                        todo'[r][i][1] = "reset", todo'[r][i][2]
                 PROVE  i = Len(todo'[r]) /\ pc'[r] = "done"
    BY DEF ResetComesLast
  <2>. QED
    BY <2>1, <2>2, <2>3 DEF ResetComesLast
<1>7. NoResetByEDT'
  BY <1>1 DEF NoResetByEDT
<1>8. Restarted'
  BY <1>1 DEF IInv, Control, Restarted
<1>9. Types'
  <2>1. todo' \in [Actor -> Seq(Button \X BOOLEAN)]
    BY <1>1
  <2>. QED
    BY <1>2, <2>1 DEF IInv, Types
<1>10. Timed'
  BY <1>2 DEF IInv, Timed, Fits, Between, Closing
<1>11. RecordedInOrder'
  BY DEF IInv, RecordedInOrder
<1>. QED
  BY <1>4, <1>5, <1>6, <1>7, <1>8, <1>9, <1>10, <1>11 DEF IInv, Control

\* Run is pressed when nothing is busy and the time is zero.
LEMMA PressRunIInv ==
  ASSUME IInv, PressRun
  PROVE  IInv'
<1>1. PICK r \in Run : pc[r] = "new" /\ sim' = r /\ pc' = [pc EXCEPT ![r] = "setup"]
  BY DEF PressRun
<1>2. /\ fRun /\ edt = "idle" /\ todo[EDT] = <<>> /\ edt' = "startSetup"
      /\ UNCHANGED <<state, lock, recorded, time, loop, fRun, enabled, todo, closed>>
  BY DEF PressRun, Idle, buttons, simTime
<1>3. ~Started /\ \A q \in Run : ~Busy(q)
  BY <1>2 DEF Started, IInv, Control, OneBusy
<1>4. time = 0 /\ loop = 0 /\ ~enabled["reset"]
  BY <1>2, <1>3 DEF IInv, Control, Restarted
<1>5. Started'
  BY <1>2 DEF Started
<1>6. /\ pc'[r] = "setup" /\ \A q \in Run \ {r} : pc'[q] = pc[q]
      /\ \A q \in Run : pc[q] \in {"new", "done"} /\ todo[q] = <<>>
  BY <1>1, <1>3 DEF Busy, IInv, Types
<1>7. OneBusy'
  BY <1>1, <1>2, <1>5, <1>6 DEF OneBusy, Busy
<1>8. ResetWhenQuiet'
  BY <1>2, <1>4 DEF ResetWhenQuiet
<1>9. ResetComesLast'
  BY <1>2, <1>6 DEF ResetComesLast
<1>10. NoResetByEDT' /\ Restarted'
  BY <1>2, <1>5 DEF IInv, Control, NoResetByEDT, Restarted
<1>11. Types'
  BY <1>1, <1>2 DEF IInv, Types, PC
<1>12. Timed' /\ RecordedInOrder'
  BY <1>1, <1>2, <1>4, <1>6 DEF IInv, Timed, RecordedInOrder, Fits, Between, Closing
<1>. QED
  BY <1>7, <1>8, <1>9, <1>10, <1>11, <1>12 DEF IInv, Control

\* Reset is pressed when nothing is busy, so nobody misses the time.
LEMMA PressResetIInv ==
  ASSUME IInv, PressReset
  PROVE  IInv'
<1>. USE ConfigAssumption
<1>1. /\ enabled["reset"] /\ edt = "idle" /\ sim' = NoRun /\ fRun' = TRUE /\ time' = 0 /\ loop' = 0
      /\ todo' = [todo EXCEPT ![EDT] = resetButton]
      /\ UNCHANGED <<pc, state, lock, recorded, edt, enabled, closed>>
  BY DEF PressReset, Idle, thread
<1>2. /\ resetButton \in Seq(Button \X BOOLEAN)
      /\ \A i \in 1 .. Len(resetButton) : resetButton[i][1] = "reset" => ~resetButton[i][2]
      /\ resetButton # <<>> /\ resetButton[Len(resetButton)][1] = "reset"
  BY HandlerCalls DEF resetButton
<1>3. /\ todo \in [Actor -> Seq(Button \X BOOLEAN)] /\ EDT \in Actor
      /\ todo'[EDT] = resetButton /\ \A r \in Run : todo'[r] = todo[r]
  BY <1>1 DEF IInv, Types, Actor, EDT, Run
<1>4. \A r \in Run : ~Busy(r) /\ pc[r] \in {"new", "done"}
  BY <1>1 DEF IInv, Control, ResetWhenQuiet, Busy
<1>5. \A r \in Run : ~Busy(r)'
  BY <1>1, <1>3, <1>4 DEF Busy
<1>6. OneBusy' /\ ResetWhenQuiet'
  BY <1>5 DEF OneBusy, ResetWhenQuiet
<1>7. ResetComesLast'
  BY <1>1, <1>3 DEF IInv, Control, ResetComesLast
<1>8. NoResetByEDT' /\ Restarted'
  BY <1>1, <1>2, <1>3 DEF NoResetByEDT, Restarted
<1>9. Types'
  <2>1. todo' \in [Actor -> Seq(Button \X BOOLEAN)]
    BY <1>1, <1>2, <1>3
  <2>. QED
    BY <1>1, <2>1 DEF IInv, Types
<1>10. Timed' /\ RecordedInOrder'
  BY <1>1, <1>4 DEF IInv, Timed, RecordedInOrder, Fits, Between, Closing
<1>. QED
  BY <1>6, <1>7, <1>8, <1>9, <1>10 DEF IInv, Control

LEMMA EDTIInv ==
  ASSUME IInv, Press \/ Handler
  PROVE  IInv'
<1>1. CASE PressRun
  BY <1>1, PressRunIInv
<1>2. CASE PressReset
  BY <1>2, PressResetIInv
<1>. USE DEF Idle, thread, window, buttons, simTime, Started
<1>3. /\ Types /\ state \in [Run -> BOOLEAN] /\ lock \in [Run -> BOOLEAN]
      /\ fRun \in BOOLEAN /\ closed \in BOOLEAN
      /\ todo[EDT] \in Seq(Button \X BOOLEAN) /\ todo = [todo EXCEPT ![EDT] = todo[EDT]]
      /\ \A i \in 1 .. Len(todo[EDT]) : todo[EDT][i][1] = "reset" => ~todo[EDT][i][2]
  BY DEF IInv, Types, Control, NoResetByEDT, Actor
<1>4. CASE startSetup
  <2>. DEFINE calls == disableAllButtons
  <2>1. /\ calls \in Seq(Button \X BOOLEAN)
        /\ \A i \in 1 .. Len(calls) : calls[i][1] = "reset" => ~calls[i][2]
        /\ calls # <<>> /\ calls[Len(calls)][1] = "reset"
    BY HandlerCalls DEF disableAllButtons
  <2>. HIDE DEF calls
  <2>2. /\ pc' = pc /\ todo' = [todo EXCEPT ![EDT] = calls]
        /\ state' = state /\ lock' = lock /\ fRun' = FALSE /\ edt' = "idle"
        /\ Started /\ Started' /\ UNCHANGED <<recorded, time, loop, sim, enabled, closed>>
    BY <1>4 DEF startSetup, calls
  <2>. QED
    BY <1>3, <2>1, <2>2, HandlerIInv
<1>5. CASE PressRunAgain
  <2>. DEFINE calls == cicleButtons
  <2>1. /\ calls \in Seq(Button \X BOOLEAN)
        /\ \A i \in 1 .. Len(calls) : calls[i][1] = "reset" => ~calls[i][2]
        /\ calls # <<>> /\ calls[Len(calls)][1] = "reset"
    BY HandlerCalls DEF cicleButtons
  <2>. HIDE DEF calls
  <2>2. /\ pc' = Notified /\ todo' = [todo EXCEPT ![EDT] = calls]
        /\ UNCHANGED <<state, lock, recorded, time, loop, sim, fRun, edt, closed, enabled>>
    BY <1>5 DEF PressRunAgain, calls
  <2>. QED
    BY <1>3, <2>1, <2>2, HandlerIInv DEF Types
<1>6. CASE PressPause
  <2>. DEFINE calls == pauseCicleButtons
  <2>1. /\ calls \in Seq(Button \X BOOLEAN)
        /\ \A i \in 1 .. Len(calls) : calls[i][1] = "reset" => ~calls[i][2]
        /\ calls # <<>> /\ calls[Len(calls)][1] = "reset"
    BY HandlerCalls DEF pauseCicleButtons
  <2>. HIDE DEF calls
  <2>2. /\ pc' = pc /\ todo' = [todo EXCEPT ![EDT] = calls]
        /\ UNCHANGED <<state, recorded, time, loop, sim, fRun, edt, closed, enabled>>
    BY <1>6 DEF PressPause, calls
  <2>3. lock' \in [Run -> BOOLEAN]
    BY <1>3, <1>6 DEF PressPause
  <2>. QED
    BY <1>3, <2>1, <2>2, <2>3, HandlerIInv DEF Types
<1>7. CASE PressStop \/ PressClose
  <2>1. /\ pc' = pc /\ todo' = [todo EXCEPT ![EDT] = todo[EDT]]
        /\ edt = "idle" /\ edt' \in {"notifyStop", "notifyClose"}
        /\ UNCHANGED <<lock, recorded, time, loop, sim, fRun, closed, enabled>>
    BY <1>3, <1>7 DEF PressStop, PressClose
  <2>2. state' \in [Run -> BOOLEAN]
    BY <1>3, <1>7 DEF PressStop, PressClose, ferma
  <2>. QED
    BY <1>3, <2>1, <2>2, HandlerIInv
<1>8. CASE notifyStop
  <2>. DEFINE calls == disableAllButtons
  <2>1. /\ calls \in Seq(Button \X BOOLEAN)
        /\ \A i \in 1 .. Len(calls) : calls[i][1] = "reset" => ~calls[i][2]
        /\ calls # <<>> /\ calls[Len(calls)][1] = "reset"
    BY HandlerCalls DEF disableAllButtons
  <2>. HIDE DEF calls
  <2>2. /\ pc' = Notified /\ todo' = [todo EXCEPT ![EDT] = calls]
        /\ edt = "notifyStop" /\ edt' = "idle"
        /\ UNCHANGED <<state, lock, recorded, time, loop, sim, fRun, closed, enabled>>
    BY <1>8 DEF notifyStop, calls
  <2>. QED
    BY <1>3, <2>1, <2>2, HandlerIInv
<1>9. CASE notifyClose
  <2>1. /\ pc' = Notified /\ todo' = [todo EXCEPT ![EDT] = todo[EDT]]
        /\ edt = "notifyClose" /\ edt' = "idle" /\ closed' = TRUE
        /\ UNCHANGED <<state, lock, recorded, time, loop, sim, fRun, enabled>>
    BY <1>3, <1>9 DEF notifyClose
  <2>. QED
    BY <1>3, <2>1, HandlerIInv
<1>. QED
  BY <1>1, <1>2, <1>4, <1>5, <1>6, <1>7, <1>8, <1>9 DEF Press, Handler

-----------------------------------------------------------------------------
(* The theorems                                                            *)

LEMMA NextIInv ==
  ASSUME IInv, [Next]_vars
  PROVE  IInv'
<1>1. CASE Next
  BY <1>1, EDTIInv, ThreadIInv, SetEnabledIInv DEF Next
<1>2. CASE UNCHANGED vars
  BY <1>2 DEF vars, IInv, Types, Control, OneBusy, ResetWhenQuiet, ResetComesLast,
     NoResetByEDT, Restarted, Started, Busy, Timed, RecordedInOrder
<1>. QED
  BY <1>1, <1>2

\* The inductive invariant holds in every reachable state.
THEOREM Invariance == Spec => []IInv
<1>1. Init => IInv
  BY InitIInv
<1>2. IInv /\ [Next]_vars => IInv'
  BY NextIInv
<1>. QED
  BY <1>1, <1>2, PTL DEF Spec

\* No thread uses the window's SimTime when Reset can be pressed, and no two
\* threads use it at once (resetSimulation, upTime, downTime).
THEOREM TimeAlwaysHasOneUser == Spec => []TimeHasOneUser
<1>1. \A r \in Run : UsesTime(r) => Busy(r)
  BY DEF UsesTime, Busy
<1>2. IInv => TimeHasOneUser
  BY <1>1 DEF IInv, Control, OneBusy, ResetWhenQuiet, TimeHasOneUser
<1>. QED
  BY <1>2, Invariance, PTL

\* Every run records at the loops 0, 1, 2, ..., each a rounded step after the one
\* before, however often the window is reset (simulationCicle, upTime).
THEOREM AlwaysRecordedInOrder == Spec => []RecordedInOrder
<1>1. IInv => RecordedInOrder
  BY DEF IInv
<1>. QED
  BY <1>1, Invariance, PTL

-----------------------------------------------------------------------------
(* Rounding: how often a run records, and the time it closes with          *)

\* Row n comes n - 1 hundredths after the start, or later.
Advancing ==
  \A r \in Run : \A n \in 1 .. Len(recorded[r]) : recorded[r][n].time >= n - 1

\* A step of more than half a hundredth takes the time on.
LEMMA UpTimeAdvances ==
  ASSUME NEW t \in Nat, Dt > 5, NEW u \in setTime(10 * t + Dt)
  PROVE  u >= t + 1
BY ConfigAssumption DEF setTime

LEMMA NextAdvancing ==
  ASSUME IInv, Advancing, Dt > 5, [Next]_vars
  PROVE  Advancing'
<1>1. ASSUME NEW r \in Run, record(r)
      PROVE  Advancing'
  <2>1. /\ pc[r] = "record"
        /\ recorded' = [recorded EXCEPT ![r] =
                           Append(recorded[r], [time |-> time, loop |-> loop])]
    BY <1>1 DEF record, Step
  <2>2. /\ recorded \in [Run -> Seq(Row)]
        /\ recorded[r] \in Seq(Row) /\ Len(recorded[r]) \in Nat
        /\ loop = Len(recorded[r]) /\ Due(recorded[r], time, loop)
    BY <2>1 DEF IInv, Types, Timed, Fits, Between
  <2>3. time >= loop
    <3>1. CASE loop = 0
      BY <2>2, <3>1 DEF Due
    <3>2. CASE loop > 0
      <4>. DEFINE t == recorded[r][loop].time
      <4>1. recorded[r][loop] \in Row
        BY <2>2, <3>2, ElementOfSeq
      <4>2. t \in Nat
        BY <4>1 DEF Row
      <4>3. t >= loop - 1
        BY <2>2, <3>2 DEF Advancing
      <4>4. time \in setTime(10 * t + Dt)
        BY <2>2, <3>2 DEF Due
      <4>5. time \in Int
        BY DEF IInv, Types
      <4>. HIDE DEF t
      <4>. QED
        BY <2>2, <4>2, <4>3, <4>4, <4>5, UpTimeAdvances
    <3>. QED
      BY <2>2, <3>1, <3>2
  <2>4. /\ Len(recorded'[r]) = loop + 1 /\ recorded'[r][loop + 1].time = time
        /\ \A n \in 1 .. loop : recorded'[r][n] = recorded[r][n]
        /\ \A q \in Run \ {r} : recorded'[q] = recorded[q]
    BY <2>1, <2>2
  <2>5. \A n \in 1 .. Len(recorded'[r]) : n \in 1 .. loop \/ n = loop + 1
    BY <2>2, <2>4
  <2>6. \A n \in 1 .. Len(recorded'[r]) : recorded'[r][n].time >= n - 1
    BY <2>2, <2>3, <2>4, <2>5 DEF Advancing
  <2>. QED
    BY <2>4, <2>6 DEF Advancing
<1>2. CASE UNCHANGED recorded
  BY <1>2 DEF Advancing
<1>3. \/ UNCHANGED recorded
      \/ \E r \in Run : record(r)
  BY DEF Next, Press, Handler, SimThreadStep, SetEnabled, vars, thread,
     PressRun, PressRunAgain, PressPause, PressStop, PressClose, PressReset,
     startSetup, notifyStop, notifyClose, ButtonStep, setup, startSimCicle, While,
     animate, ctrlLock, Wait, Unlock, downTime, endSimCicle, startSimClose,
     CloseRecorders, simEnd, SpuriousWakeup
<1>. QED
  BY <1>1, <1>2, <1>3

\* Threads, window and buttons keep their types, and no run records more often
\* than the duration allows, if a step takes the rounded time on (simulationCicle,
\* actionPerformed).
THEOREM TypeCorrect == ASSUME Dt > 5 PROVE Spec => []TypeOK
<1>1. Init => IInv /\ Advancing
  BY InitIInv DEF Init, Advancing
<1>2. IInv /\ Advancing /\ [Next]_vars => IInv' /\ Advancing'
  BY NextIInv, NextAdvancing
<1>3. IInv /\ Advancing => TypeOK
  <2>. SUFFICES ASSUME IInv, Advancing, NEW r \in Run
                PROVE  Len(recorded[r]) <= T+1
    BY DEF IInv, TypeOK
  <2>1. recorded[r] \in Seq(Row) /\ Len(recorded[r]) \in Nat
    BY DEF IInv, Types
  <2>2. CASE Len(recorded[r]) > 0
    <3>1. Len(recorded[r]) \in 1 .. Len(recorded[r])
      BY <2>1, <2>2
    <3>2. recorded[r][Len(recorded[r])] \in Row
      BY <2>1, <3>1, ElementOfSeq
    <3>3. recorded[r][Len(recorded[r])].time >= Len(recorded[r]) - 1
      BY <3>1 DEF Advancing
    <3>. QED
      BY <2>1, <3>2, <3>3, ConfigAssumption DEF Row
  <2>. QED
    BY <2>1, <2>2, ConfigAssumption
<1>. QED
  BY <1>1, <1>2, <1>3, PTL DEF Spec

\* A run that has recorded closes at the time of its last row, any other below zero.
LastRow ==
  \A r \in Run : pc[r] \in Closing =>
    /\ loop >= 0 => recorded[r][loop + 1].time = time
    /\ loop < 0 => time \in setTime(-Dt)

\* Without a tie, upTime adds the same number of hundredths at any time, and
\* downTime takes them back.
LEMMA DownTimeUndoes ==
  ASSUME NEW t \in Nat, Dt % 10 # 5,
         NEW u \in setTime(10 * t + Dt), NEW v \in setTime(10 * u - Dt)
  PROVE  v = t
<1>. USE ConfigAssumption
<1>1. (10 * t + Dt) % 10 # 5
  OBVIOUS
<1>2. u = t + ((Dt + 5) \div 10)
  BY <1>1 DEF setTime
<1>3. (10 * u - Dt) % 10 # 5
  BY <1>2
<1>4. v = (10 * u - Dt + 5) \div 10
  BY <1>3 DEF setTime
<1>. QED
  BY <1>2, <1>4

LEMMA NextLastRow ==
  ASSUME IInv, LastRow, Dt % 10 # 5, [Next]_vars
  PROVE  LastRow'
<1>1. ASSUME NEW r \in Run, downTime(r)
      PROVE  LastRow'
  <2>1. /\ pc[r] = "downTime" /\ pc' = [pc EXCEPT ![r] = "endSimCicle"]
        /\ time' \in setTime(10 * time - Dt) /\ loop' = loop - 1
        /\ UNCHANGED recorded
    BY <1>1 DEF downTime, Step
  <2>2. /\ recorded[r] \in Seq(Row)
        /\ loop = Len(recorded[r]) /\ Len(recorded[r]) \in Nat
        /\ Due(recorded[r], time, loop)
    BY <2>1 DEF IInv, Types, Timed, Fits, Between
  <2>3. ASSUME loop > 0 PROVE recorded[r][loop].time = time'
    <3>. DEFINE t == recorded[r][loop].time
    <3>1. recorded[r][loop] \in Row
      BY <2>2, <2>3, ElementOfSeq
    <3>2. t \in Nat /\ time \in setTime(10 * t + Dt)
      BY <2>2, <2>3, <3>1, ConfigAssumption DEF Due, Row
    <3>. HIDE DEF t
    <3>3. time' = t
      BY <2>1, <3>2, DownTimeUndoes
    <3>. QED
      BY <3>3 DEF t
  <2>4. loop = 0 => time' \in setTime(-Dt)
    <3>1. loop = 0 => 10 * time - Dt = -Dt
      BY <2>2, ConfigAssumption DEF Due
    <3>. QED
      BY <2>1, <3>1
  <2>5. \A q \in Run \ {r} : pc'[q] \notin Closing
    <3>1. Busy(r)
      BY <2>1 DEF Busy
    <3>2. \A q \in Run \ {r} : ~Busy(q)
      BY <3>1 DEF IInv, Control, OneBusy
    <3>3. \A q \in Run \ {r} : pc'[q] = pc[q]
      BY <2>1 DEF IInv, Types
    <3>. QED
      BY <3>2, <3>3 DEF Busy, Closing
  <2>. QED
    BY <2>1, <2>2, <2>3, <2>4, <2>5 DEF LastRow
<1>2. ASSUME NEW r \in Run, animate(r) \/ record(r)
      PROVE  LastRow'
  <2>1. pc[r] \in {"animate", "record"} /\ pc' = [pc EXCEPT ![r] =
                     IF pc[r] = "animate" THEN "ctrlLock" ELSE "animate"]
    BY <1>2 DEF animate, record, Step
  <2>2. Busy(r) /\ \A q \in Run \ {r} : ~Busy(q)
    BY <2>1 DEF Busy, IInv, Control, OneBusy
  <2>3. \A q \in Run : pc'[q] \notin Closing
    BY <2>1, <2>2 DEF Busy, Closing, IInv, Types
  <2>. QED
    BY <2>3 DEF LastRow
<1>3. CASE PressReset
  <2>1. \A q \in Run : ~Busy(q) /\ pc'[q] = pc[q]
    BY <1>3 DEF PressReset, thread, IInv, Control, ResetWhenQuiet
  <2>. QED
    BY <2>1 DEF LastRow, Busy, Closing
<1>4. CASE /\ UNCHANGED <<recorded, time, loop>>
           /\ \A q \in Run : pc'[q] \in Closing => pc[q] \in Closing
  BY <1>4 DEF LastRow
<1>5. ASSUME NEW r \in Run, SimThreadStep(r) \/ SpuriousWakeup(r),
             ~downTime(r), ~animate(r), ~record(r)
      PROVE  /\ UNCHANGED <<recorded, time, loop>>
             /\ \A q \in Run : pc'[q] \in Closing => pc[q] \in Closing
  BY <1>5 DEF SimThreadStep, setup, startSimCicle, While, ctrlLock, Wait, Unlock,
     endSimCicle, startSimClose, CloseRecorders, simEnd, SpuriousWakeup, ButtonStep,
     Step, simTime, Closing, IInv, Types
<1>6. ASSUME (Press /\ ~PressReset) \/ Handler \/ UNCHANGED vars
               \/ \E a \in Actor : SetEnabled(a)
      PROVE  /\ UNCHANGED <<recorded, time, loop>>
             /\ \A q \in Run : pc'[q] \in Closing => pc[q] \in Closing
  BY <1>6 DEF Press, Handler, SetEnabled, vars, thread, simTime, Notified,
     PressRun, PressRunAgain, PressPause, PressStop, PressClose,
     startSetup, notifyStop, notifyClose, Closing, IInv, Types
<1>. QED
  BY <1>1, <1>2, <1>3, <1>4, <1>5, <1>6 DEF Next

\* If the step is not a tie of the rounding, the recorders of a run close with the
\* time and the loop of its last record, or a step before the start (downTime).
THEOREM AlwaysClosedAtLastRecord ==
  ASSUME Dt % 10 # 5
  PROVE  Spec => []ClosedAtLastRecord
<1>1. Init => IInv /\ LastRow
  BY InitIInv DEF Init, LastRow, Closing
<1>2. IInv /\ LastRow /\ [Next]_vars => IInv' /\ LastRow'
  BY NextIInv, NextLastRow
<1>3. IInv /\ LastRow => ClosedAtLastRecord
  <2>. SUFFICES ASSUME IInv, LastRow, NEW r \in Run, pc[r] = "close"
                PROVE  IF recorded[r] = <<>>
                       THEN time \in setTime(-Dt) /\ loop = -1
                       ELSE [time |-> time, loop |-> loop] = Last(recorded[r])
    BY DEF ClosedAtLastRecord
  <2>1. /\ recorded[r] \in Seq(Row) /\ Len(recorded[r]) = loop + 1
        /\ Len(recorded[r]) \in Nat /\ loop \in Int
    BY DEF IInv, Types, Timed, Fits, Closing
  <2>2. CASE recorded[r] = <<>>
    <3>1. loop = -1
      BY <2>1, <2>2, EmptySeq
    <3>. QED
      BY <2>2, <3>1 DEF LastRow, Closing
  <2>3. CASE recorded[r] # <<>>
    <3>1. loop \in Nat
      BY <2>1, <2>3, EmptySeq
    <3>2. Last(recorded[r]) = recorded[r][loop + 1]
      BY <2>1 DEF Last
    <3>3. recorded[r][loop + 1] \in Row
      BY <2>1, <3>1, ElementOfSeq
    <3>4. recorded[r][loop + 1].loop = loop
      BY <2>1, <3>1 DEF IInv, RecordedInOrder
    <3>5. recorded[r][loop + 1].time = time
      BY <3>1 DEF LastRow, Closing
    <3>. QED
      BY <2>3, <3>2, <3>3, <3>4, <3>5 DEF Row
  <2>. QED
    BY <2>2, <2>3
<1>. QED
  BY <1>1, <1>2, <1>3, PTL DEF Spec
=============================================================================
