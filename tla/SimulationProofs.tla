-------------------------- MODULE SimulationProofs --------------------------
(***************************************************************************)
(* Proofs about Simulation, for any duration, recorders and step times     *)
(* that the rounding to hundredths does not swallow: a step of less than   *)
(* six thousandths may leave the time where it is, and then the loop       *)
(* records one time again and again.                                       *)
(***************************************************************************)
EXTENDS Simulation, SequenceTheorems, TLAPS

\* A step time that is refused, or that always moves the time.
StepsAdvance == \A d \in StepTimes : d = 0 \/ d > 5

\* No step time is rounded on a tie, so that downTime undoes upTime.
NoTies == \A d \in StepTimes : d % 10 # 5

-----------------------------------------------------------------------------
(* The inductive invariant                                                 *)

Starting == {"createSimulation", "signal", "setupModels", "setupRecorders"}

Iterating == {"record", "animate", "upTime"}

Types ==
  /\ pc \in PC
  /\ k \in 1 .. NumRecorders + 1
  /\ dt \in StepTimes
  /\ time \in Int /\ loops \in Nat \cup {-1}
  /\ loop \in BOOLEAN /\ handled \in BOOLEAN
  /\ world \in Nat
  /\ rows \in [Recorder -> Seq(Row)]
  /\ file \in [Recorder -> File]
  /\ sigLoops \in Nat \cup {-1}

\* How far time and counters are, by program counter.
Progress ==
  /\ pc \in Starting => time = 0 /\ loops = 0 /\ world = 0
  /\ pc \notin Over \cup {"createSimulation"} => dt > 0
  /\ pc \in {"while", "downTime"} \cup Iterating => time >= 0 /\ loops >= 0
  /\ pc \in Iterating => time <= T
  /\ pc \in {"while", "record", "animate"} => (time <= T => world = loops)
  /\ pc = "upTime" => (time < T => world = loops + 1)

\* How many rows a recorder has.
Rows(r) ==
  IF pc \in Starting THEN 0
  ELSE IF pc \in {"while", "downTime"} \/ (pc = "record" /\ r >= k) THEN loops
  ELSE loops + 1

Counted == pc \notin Over => \A r \in Recorder : Len(rows[r]) = Rows(r)

\* Rows are numbered, and agree among the recorders as far as they go.
Numbered ==
  \A r \in Recorder : \A n \in 1 .. Len(rows[r]) :
    rows[r][n].loops = n - 1 /\ rows[r][n].world = n - 1

Alike ==
  \A q, r \in Recorder : \A n \in 1 .. Len(rows[q]) :
    n <= Len(rows[r]) => rows[q][n] = rows[r][n]

\* The rows of earlier iterations are earlier, that of the current is current.
Dated ==
  \A r \in Recorder : \A n \in 1 .. Len(rows[r]) :
    /\ pc \in {"while", "downTime"} => rows[r][n].time < time
    /\ pc \in Iterating => IF n = loops + 1 THEN rows[r][n].time = time
                                            ELSE rows[r][n].time < time

Stopped ==
  sigLoops # -1 =>
    /\ ~loop
    /\ pc \in Iterating => loops <= sigLoops
    /\ pc \in {"while", "downTime"} => loops <= sigLoops + 1

IInv ==
  /\ Types /\ Progress /\ Counted /\ Numbered /\ Alike /\ Dated
  /\ TimesIncrease /\ Stopped /\ StopsPromptly

-----------------------------------------------------------------------------
(* Rounding                                                                *)

LEMMA SetTimeInt ==
  ASSUME NEW x \in Int, NEW t \in setTime(x)
  PROVE  t \in Int
BY DEF setTime, ToInt

\* A step that is long enough takes the time forward.
LEMMA UpTimeAdvances ==
  ASSUME NEW t \in Nat, NEW d \in Nat, d > 5, NEW u \in setTime(10 * t + d)
  PROVE  u \in Nat /\ u > t
<1>1. CASE (10 * t + d) % 10 = 5
  <2>1. u = ToInt(10 * t + d + 4) \/ u = ToInt(10 * t + d + 6)
    BY <1>1 DEF setTime
  <2>2. u = (10 * t + d + 4) \div 10 \/ u = (10 * t + d + 6) \div 10
    BY <2>1 DEF ToInt
  <2>. QED
    BY <2>2
<1>2. CASE (10 * t + d) % 10 # 5
  <2>1. u = ToInt(10 * t + d + 5)
    BY <1>2 DEF setTime
  <2>2. u = (10 * t + d + 5) \div 10
    BY <2>1 DEF ToInt
  <2>. QED
    BY <2>2
<1>. QED
  BY <1>1, <1>2

\* Without ties, it does so by the same number of hundredths each time, and
\* downTime takes them back.
LEMMA UpTimeWithoutTie ==
  ASSUME NEW t \in Nat, NEW d \in Nat, d % 10 # 5
  PROVE  setTime(10 * t + d) = {t + ((d + 5) \div 10)}
<1>1. (10 * t + d) % 10 # 5
  OBVIOUS
<1>2. setTime(10 * t + d) = {ToInt(10 * t + d + 5)}
  BY <1>1 DEF setTime
<1>3. ToInt(10 * t + d + 5) = t + ((d + 5) \div 10)
  BY DEF ToInt
<1>. QED
  BY <1>2, <1>3

LEMMA DownTimeUndoes ==
  ASSUME NEW t \in Nat, NEW d \in Nat, d % 10 # 5
  PROVE  setTime(10 * (t + ((d + 5) \div 10)) - d) = {t}
<1>. DEFINE x == 10 * (t + ((d + 5) \div 10)) - d
<1>1. x % 10 # 5 /\ x >= -4 /\ (x + 5) \div 10 = t /\ x + 5 >= 0
  OBVIOUS
<1>2. setTime(x) = {ToInt(x + 5)}
  BY <1>1 DEF setTime
<1>. QED
  BY <1>1, <1>2 DEF ToInt

-----------------------------------------------------------------------------
(* The invariant is inductive                                              *)

LEMMA TypesHelp ==
  ASSUME IInv
  PROVE  /\ dt \in Nat /\ T \in Nat /\ NumRecorders \in Nat
         /\ \A r \in Recorder : rows[r] \in Seq(Row) /\ Len(rows[r]) \in Nat
BY ConfigAssumption, LenProperties DEF IInv, Types

LEMMA InitIInv ==
  ASSUME Init
  PROVE  IInv
<1>1. \A r \in Recorder : rows[r] = <<>> /\ Len(rows[r]) = 0
  BY DEF Init
<1>2. Types
  <2>1. rows \in [Recorder -> Seq(Row)]
    BY EmptySeq DEF Init
  <2>2. k \in 1 .. NumRecorders + 1
    BY ConfigAssumption DEF Init
  <2>3. file \in [Recorder -> File]
    BY DEF Init, File
  <2>. QED
    <3>1. pc \in PC /\ dt \in StepTimes /\ loop \in BOOLEAN /\ handled \in BOOLEAN
      BY DEF Init, PC
    <3>2. time \in Int /\ loops \in Nat \cup {-1} /\ world \in Nat /\ sigLoops \in Nat \cup {-1}
      BY DEF Init
    <3>. QED
      BY <2>1, <2>2, <2>3, <3>1, <3>2 DEF Types
<1>3. Progress /\ Counted /\ Stopped
  BY <1>1 DEF Init, Progress, Counted, Rows, Stopped, Starting, Iterating, Over
<1>4. Numbered /\ Alike /\ Dated /\ TimesIncrease /\ StopsPromptly
  BY <1>1 DEF Init, Numbered, Alike, Dated, TimesIncrease, StopsPromptly
<1>. QED
  BY <1>2, <1>3, <1>4 DEF IInv

\* What is said of the rows alone stays true while nothing is recorded.
LEMMA RowsKept ==
  ASSUME IInv, UNCHANGED rows
  PROVE  /\ rows' \in [Recorder -> Seq(Row)]
         /\ Numbered' /\ Alike' /\ TimesIncrease'
BY DEF IInv, Types, Numbered, Alike, TimesIncrease

LEMMA StartIInv ==
  ASSUME IInv,
         \/ createSimulation \/ InstallHandler \/ setupModels \/ setupRecorder \/ endSetup
  PROVE  IInv'
<1>1. UNCHANGED <<dt, time, loops, loop, sigLoops, world, rows>>
  BY DEF createSimulation, InstallHandler, setupModels, setupRecorder, endSetup,
         simTime, signals, output
<1>2. pc \in Starting /\ pc' \in Starting \cup {"while", "exit"}
  BY DEF createSimulation, InstallHandler, setupModels, setupRecorder, endSetup,
         Goto, Starting
<1>3. pc' = "while" => pc = "setupRecorders"
  BY DEF createSimulation, InstallHandler, setupModels, setupRecorder, endSetup,
         Goto
<1>4. pc' \in (Starting \ {"createSimulation"}) \cup {"while"} => dt > 0
  BY <1>2, TypesHelp DEF createSimulation, InstallHandler, setupModels, setupRecorder,
         endSetup, Goto, IInv, Progress, Over, Starting
<1>5. pc' # "createSimulation"
  BY DEF createSimulation, InstallHandler, setupModels, setupRecorder, endSetup,
         Goto
<1>6. k' \in 1 .. NumRecorders + 1 /\ handled' \in BOOLEAN /\ file' \in [Recorder -> File]
  <2>1. CASE createSimulation \/ InstallHandler \/ endSetup
    BY <2>1 DEF createSimulation, InstallHandler, endSetup, signals, output, IInv, Types
  <2>2. CASE setupModels
    BY <2>2, ConfigAssumption DEF setupModels, signals, output, IInv, Types
  <2>3. CASE setupRecorder
    <3>1. k \in 1 .. NumRecorders /\ (k' = k \/ k' = k + 1) /\ handled' = handled
      BY <2>3 DEF setupRecorder, Recorder, signals
    <3>2. file' \in [Recorder -> File]
      BY <2>3 DEF setupRecorder, File, IInv, Types
    <3>. QED
      BY <3>1, <3>2, ConfigAssumption DEF IInv, Types
  <2>. QED
    BY <2>1, <2>2, <2>3
<1>7. Types'
  BY <1>1, <1>2, <1>6, RowsKept DEF IInv, Types, PC, Starting, Over
<1>8. Progress'
  <2>1. time' = 0 /\ loops' = 0 /\ world' = 0
    BY <1>1, <1>2 DEF IInv, Progress
  <2>2. pc' \notin Over \cup {"createSimulation"} => dt' > 0
    <3>1. pc' \notin Over \cup {"createSimulation"}
            => pc' \in (Starting \ {"createSimulation"}) \cup {"while"}
      BY <1>2 DEF Over, Starting
    <3>2. dt' = dt
      BY <1>1
    <3>. QED
      BY <1>4, <3>1, <3>2
  <2>3. pc' \notin Iterating
    BY <1>2 DEF Starting, Iterating
  <2>. QED
    BY <2>1, <2>2, <2>3 DEF Progress, Iterating
<1>9. Counted' /\ Dated'
  <2>1. \A r \in Recorder : Len(rows'[r]) = 0 /\ loops' = 0
    BY <1>1, <1>2 DEF IInv, Progress, Counted, Rows, Starting, Over
  <2>. QED
    BY <1>2, <2>1 DEF Counted, Dated, Rows, Starting, Over
<1>10. Stopped' /\ StopsPromptly'
  BY <1>1, <1>2 DEF IInv, Types, Progress, Stopped, StopsPromptly, Starting, Iterating
<1>. QED
  BY <1>1, <1>7, <1>8, <1>9, <1>10, RowsKept DEF IInv

LEMMA WhileIInv ==
  ASSUME IInv, While
  PROVE  IInv'
<1>1. /\ UNCHANGED <<dt, time, loops, loop, handled, sigLoops, world, rows, file>>
      /\ pc = "while" /\ k' = 1
      /\ pc' = IF time <= T /\ loop THEN "record" ELSE "downTime"
  BY DEF While, Goto, simTime, signals, output
<1>2. Types'
  BY <1>1, RowsKept, ConfigAssumption DEF IInv, Types, PC
<1>3. Progress'
  BY <1>1 DEF IInv, Progress, Starting, Iterating, Over
<1>4. loops \in Nat /\ \A r \in Recorder : Len(rows[r]) = loops
  BY <1>1 DEF IInv, Types, Progress, Counted, Rows, Starting, Over
<1>5. Counted'
  BY <1>1, <1>4 DEF Counted, Rows, Recorder, Starting
<1>6. Dated'
  BY <1>1, <1>4 DEF IInv, Dated, Iterating
<1>7. Stopped' /\ StopsPromptly'
  BY <1>1 DEF IInv, Stopped, StopsPromptly, Iterating
<1>. QED
  BY <1>1, <1>2, <1>3, <1>5, <1>6, <1>7, RowsKept DEF IInv

LEMMA RecordIInv ==
  ASSUME IInv, RecordNext
  PROVE  IInv'
<1>. DEFINE row == [time |-> time, loops |-> loops, world |-> world]
<1>1. /\ UNCHANGED <<dt, time, loops, loop, handled, sigLoops, world, file>>
      /\ pc = "record" /\ pc' = "record" /\ k \in Recorder /\ k' = k + 1
      /\ rows' = [rows EXCEPT ![k] = Append(@, row)]
  BY DEF RecordNext, Goto, simTime, signals
<1>2. /\ time \in 0 .. T /\ loops \in Nat /\ world = loops
      /\ \A r \in Recorder : Len(rows[r]) = IF r < k THEN loops + 1 ELSE loops
  <2>1. k \in Int /\ \A r \in Recorder : r \in Int
    BY <1>1 DEF Recorder
  <2>2. time >= 0 /\ loops >= 0 /\ time <= T /\ world = loops
    BY <1>1 DEF IInv, Progress, Iterating
  <2>3. \A r \in Recorder : Len(rows[r]) = IF r < k THEN loops + 1 ELSE loops
    BY <1>1, <2>1 DEF IInv, Counted, Rows, Starting, Over
  <2>. QED
    BY <2>2, <2>3, ConfigAssumption DEF IInv, Types
<1>3. row \in Row
  BY <1>2 DEF Row
<1>4. /\ rows[k] \in Seq(Row) /\ rows'[k] = Append(rows[k], row)
      /\ rows'[k] \in Seq(Row) /\ Len(rows'[k]) = loops + 1
      /\ \A n \in 1 .. loops : rows'[k][n] = rows[k][n]
      /\ rows'[k][loops + 1] = row
  <2>1. rows[k] \in Seq(Row) /\ Len(rows[k]) = loops
    BY <1>1, <1>2, TypesHelp DEF Recorder
  <2>2. rows'[k] = Append(rows[k], row)
    BY <1>1 DEF IInv, Types
  <2>. QED
    BY <1>3, <2>1, <2>2, AppendProperties
<1>5. \A r \in Recorder \ {k} : rows'[r] = rows[r]
  BY <1>1 DEF IInv, Types
<1>6. Types'
  <2>1. rows' \in [Recorder -> Seq(Row)]
    BY <1>1, <1>4 DEF IInv, Types
  <2>2. k' \in 1 .. NumRecorders + 1
    BY <1>1, ConfigAssumption DEF Recorder
  <2>. QED
    BY <1>1, <2>1, <2>2 DEF IInv, Types
<1>7. Progress'
  BY <1>1 DEF IInv, Progress, Starting, Iterating
<1>8. Counted'
  <2>1. \A r \in Recorder : r \in Int /\ k \in Int
    BY <1>1 DEF Recorder
  <2>2. \A r \in Recorder : Len(rows'[r]) = IF r < k + 1 THEN loops + 1 ELSE loops
    BY <1>2, <1>4, <1>5, <2>1
  <2>. QED
    BY <1>1, <2>1, <2>2 DEF Counted, Rows, Starting
<1>9. Numbered'
  <2>. SUFFICES ASSUME NEW r \in Recorder, NEW n \in 1 .. Len(rows'[r])
                PROVE  rows'[r][n].loops = n - 1 /\ rows'[r][n].world = n - 1
    BY DEF Numbered
  <2>1. CASE r = k /\ n = loops + 1
    BY <1>2, <1>4, <2>1
  <2>2. CASE r = k /\ n # loops + 1
    <3>1. n \in 1 .. Len(rows[k]) /\ rows'[k][n] = rows[k][n]
      BY <1>1, <1>2, <1>4, <2>2 DEF Recorder
    <3>. QED
      BY <1>1, <2>2, <3>1 DEF IInv, Numbered
  <2>3. CASE r # k
    BY <1>5, <2>3 DEF IInv, Numbered
  <2>. QED
    BY <2>1, <2>2, <2>3
<1>10. \A r \in Recorder : loops + 1 <= Len(rows'[r]) => rows'[r][loops + 1] = row
  <2>. SUFFICES ASSUME NEW r \in Recorder, r # k, loops + 1 <= Len(rows[r])
                PROVE  rows[r][loops + 1] = row
    BY <1>4, <1>5
  <2>1. loops + 1 \in 1 .. Len(rows[r]) /\ rows[r] \in Seq(Row)
    BY <1>2, TypesHelp
  <2>2. rows[r][loops + 1].time = time
    BY <1>1, <2>1 DEF IInv, Dated, Iterating
  <2>3. rows[r][loops + 1].loops = loops /\ rows[r][loops + 1].world = world
    BY <1>2, <2>1 DEF IInv, Numbered
  <2>4. rows[r][loops + 1] \in Row
    BY <2>1, ElementOfSeq
  <2>. QED
    BY <2>2, <2>3, <2>4 DEF Row
<1>11. \A r \in Recorder : \A n \in 1 .. Len(rows'[r]) :
         n # loops + 1 => n \in 1 .. Len(rows[r]) /\ n <= loops /\ rows'[r][n] = rows[r][n]
  <2>. SUFFICES ASSUME NEW r \in Recorder, NEW n \in 1 .. Len(rows'[r]), n # loops + 1
                PROVE  n \in 1 .. Len(rows[r]) /\ n <= loops /\ rows'[r][n] = rows[r][n]
    OBVIOUS
  <2>1. CASE r = k
    <3>1. Len(rows[k]) = loops
      BY <1>1, <1>2 DEF Recorder
    <3>. QED
      BY <1>2, <1>4, <2>1, <3>1
  <2>2. CASE r # k
    BY <1>2, <1>5, <2>2
  <2>. QED
    BY <2>1, <2>2
<1>12. Alike'
  <2>. SUFFICES ASSUME NEW q \in Recorder, NEW r \in Recorder, NEW n \in 1 .. Len(rows'[q]),
                       n <= Len(rows'[r])
                PROVE  rows'[q][n] = rows'[r][n]
    BY DEF Alike
  <2>1. CASE n = loops + 1
    BY <1>10, <2>1
  <2>2. CASE n # loops + 1
    <3>1. n \in 1 .. Len(rows'[r])
      OBVIOUS
    <3>2. n \in 1 .. Len(rows[q]) /\ rows'[q][n] = rows[q][n]
      BY <1>11, <2>2
    <3>3. n \in 1 .. Len(rows[r]) /\ rows'[r][n] = rows[r][n]
      BY <1>11, <2>2, <3>1
    <3>. QED
      BY <3>2, <3>3 DEF IInv, Alike
  <2>. QED
    BY <2>1, <2>2
<1>13. \A r \in Recorder : \A n \in 1 .. Len(rows'[r]) :
         IF n = loops + 1 THEN rows'[r][n].time = time ELSE rows'[r][n].time < time
  <2>. SUFFICES ASSUME NEW r \in Recorder, NEW n \in 1 .. Len(rows'[r]), n # loops + 1
                PROVE  rows'[r][n].time < time
    BY <1>10
  <2>1. n \in 1 .. Len(rows[r]) /\ rows'[r][n] = rows[r][n]
    BY <1>11
  <2>. QED
    BY <1>1, <2>1 DEF IInv, Dated, Iterating
<1>14. Dated'
  BY <1>1, <1>13 DEF Dated
<1>15. TimesIncrease'
  <2>. SUFFICES ASSUME NEW r \in Recorder, NEW m \in 1 .. Len(rows'[r]),
                       NEW n \in 1 .. Len(rows'[r])
                PROVE  /\ m < n => rows'[r][m].time < rows'[r][n].time
                       /\ rows'[r][n].time <= T
    BY DEF TimesIncrease
  <2>1. Len(rows'[r]) <= loops + 1
    BY <1>2, <1>4, <1>5
  <2>2. CASE n = loops + 1
    BY <1>2, <1>13, <2>2
  <2>3. CASE n # loops + 1
    <3>1. n \in 1 .. Len(rows[r]) /\ n <= loops /\ rows'[r][n] = rows[r][n]
      BY <1>11, <2>3
    <3>2. m < n => m \in 1 .. Len(rows[r]) /\ rows'[r][m] = rows[r][m]
      BY <1>2, <1>11, <3>1
    <3>. QED
      BY <3>1, <3>2 DEF IInv, TimesIncrease
  <2>. QED
    BY <2>2, <2>3
<1>16. Stopped' /\ StopsPromptly'
  <2>1. Stopped'
    BY <1>1 DEF IInv, Stopped, Iterating
  <2>2. sigLoops # -1 => loops <= sigLoops /\ sigLoops \in Int
    BY <1>1 DEF IInv, Types, Stopped, Iterating
  <2>3. \A r \in Recorder : Len(rows'[r]) <= loops + 1
    BY <1>2, <1>4, <1>5
  <2>4. \A r \in Recorder : Len(rows'[r]) \in Nat
    BY <1>2, <1>4, <1>5
  <2>. QED
    BY <1>1, <1>2, <2>1, <2>2, <2>3, <2>4 DEF StopsPromptly
<1>. QED
  BY <1>6, <1>7, <1>8, <1>9, <1>12, <1>14, <1>15, <1>16 DEF IInv

LEMMA EndRecordIInv ==
  ASSUME IInv, endRecord \/ animate
  PROVE  IInv'
<1>1. /\ UNCHANGED <<k, dt, time, loops, loop, handled, sigLoops, rows, file>>
      /\ \/ pc = "record" /\ k \notin Recorder /\ pc' = "animate" /\ world' = world
         \/ pc = "animate" /\ pc' = "upTime" /\ world' = IF time < T THEN world + 1 ELSE world
  BY DEF endRecord, animate, Goto, simTime, signals, output
<1>2. time \in 0 .. T /\ loops \in Nat /\ world = loops
  BY <1>1, ConfigAssumption DEF IInv, Types, Progress, Iterating
<1>3. Types'
  BY <1>1, RowsKept DEF IInv, Types, PC
<1>4. Progress'
  BY <1>1, <1>2 DEF IInv, Progress, Starting, Iterating, Over
<1>5. Counted'
  <2>1. pc = "record" => \A r \in Recorder : r < k
    BY <1>1, ConfigAssumption DEF IInv, Types, Recorder
  <2>2. \A r \in Recorder : r \in Int /\ k \in Int
    BY DEF IInv, Types, Recorder
  <2>3. \A r \in Recorder : Len(rows[r]) = loops + 1
    BY <1>1, <2>1, <2>2 DEF IInv, Counted, Rows, Starting, Over
  <2>. QED
    BY <1>1, <2>3 DEF Counted, Rows, Starting
<1>6. Dated' /\ Stopped' /\ StopsPromptly'
  BY <1>1 DEF IInv, Dated, Stopped, StopsPromptly, Iterating
<1>. QED
  BY <1>1, <1>3, <1>4, <1>5, <1>6, RowsKept DEF IInv

LEMMA UpTimeIInv ==
  ASSUME IInv, StepsAdvance, upTime
  PROVE  IInv'
<1>1. /\ UNCHANGED <<k, dt, loop, handled, sigLoops, world, rows, file>>
      /\ pc = "upTime" /\ pc' = "while"
      /\ time' \in setTime(10 * time + dt) /\ loops' = loops + 1
  BY DEF upTime, Goto, signals, output
<1>2. time \in 0 .. T /\ loops \in Nat /\ dt > 5 /\ (time < T => world = loops + 1)
  BY <1>1, ConfigAssumption
  DEF IInv, Types, Progress, Iterating, Over, StepsAdvance
<1>3. time' \in Nat /\ time' > time
  <2>1. time \in Nat /\ dt \in Nat /\ dt > 5
    BY <1>2, TypesHelp, ConfigAssumption
  <2>. QED
    BY <1>1, <2>1, UpTimeAdvances
<1>4. Types'
  BY <1>1, <1>2, <1>3, RowsKept DEF IInv, Types, PC
<1>5. Progress'
  BY <1>1, <1>2, <1>3, ConfigAssumption DEF IInv, Progress, Starting, Iterating, Over
<1>6. \A r \in Recorder : Len(rows[r]) = loops + 1
  BY <1>1 DEF IInv, Counted, Rows, Starting, Over
<1>7. Counted'
  BY <1>1, <1>6 DEF Counted, Rows, Starting
<1>8. Dated'
  <2>. SUFFICES ASSUME NEW r \in Recorder, NEW n \in 1 .. Len(rows[r])
                PROVE  rows[r][n].time < time'
    BY <1>1 DEF Dated, Iterating
  <2>1. rows[r][n].time \in Int
    <3>1. rows[r][n] \in Row
      BY TypesHelp, ElementOfSeq
    <3>. QED
      BY <3>1, TypesHelp, SMTT(40) DEF Row
  <2>2. rows[r][n].time <= time
    BY <1>1, <1>2, <2>1 DEF IInv, Dated, Iterating
  <2>. QED
    BY <1>2, <1>3, <2>1, <2>2
<1>9. Stopped' /\ StopsPromptly'
  BY <1>1, <1>2 DEF IInv, Types, Stopped, StopsPromptly, Iterating
<1>. QED
  BY <1>1, <1>4, <1>5, <1>7, <1>8, <1>9, RowsKept DEF IInv

LEMMA CloseIInv ==
  ASSUME IInv, downTime \/ closeNext \/ closeAndExec \/ endMain
  PROVE  IInv'
<1>1. /\ UNCHANGED <<dt, loop, handled, sigLoops, world, rows>>
      /\ \/ pc = "downTime" /\ pc' = "close" /\ loops' = loops - 1
         \/ pc = "close" /\ pc' \in {"close", "gzip", "end"} /\ loops' = loops
  BY DEF downTime, closeNext, closeAndExec, endMain, Goto, simTime, signals, output
<1>2. pc = "downTime" => loops \in Nat
  BY DEF IInv, Types, Progress
<1>3. Types'
  <2>1. time' \in Int
    <3>1. CASE downTime
      BY <3>1, SetTimeInt, TypesHelp DEF downTime, IInv, Types
    <3>2. CASE closeNext \/ closeAndExec \/ endMain
      BY <3>2 DEF closeNext, closeAndExec, endMain, simTime, IInv, Types
    <3>. QED
      BY <3>1, <3>2
  <2>2. k' \in 1 .. NumRecorders + 1
    BY ConfigAssumption
    DEF downTime, closeNext, closeAndExec, endMain, Recorder, IInv, Types
  <2>3. file' \in [Recorder -> File]
    BY DEF downTime, closeNext, closeAndExec, endMain, output, File, IInv, Types
  <2>. QED
    BY <1>1, <1>2, <2>1, <2>2, <2>3, RowsKept DEF IInv, Types, PC, Over
<1>4. Progress'
  BY <1>1 DEF IInv, Progress, Starting, Iterating, Over
<1>5. \A r \in Recorder : Len(rows[r]) = loops' + 1
  <2>1. CASE pc = "downTime"
    BY <1>1, <1>2, <2>1 DEF IInv, Counted, Rows, Starting, Over
  <2>2. CASE pc = "close"
    BY <1>1, <2>2 DEF IInv, Counted, Rows, Starting, Over
  <2>. QED
    BY <1>1, <2>1, <2>2
<1>6. Counted'
  BY <1>1, <1>5 DEF Counted, Rows, Starting, Over
<1>7. Dated' /\ Stopped' /\ StopsPromptly'
  BY <1>1 DEF IInv, Dated, Stopped, StopsPromptly, Iterating
<1>. QED
  BY <1>1, <1>3, <1>4, <1>6, <1>7, RowsKept DEF IInv

LEMMA SigIInv ==
  ASSUME IInv, sigHandler
  PROVE  IInv'
<1>1. /\ UNCHANGED <<k, dt, time, loops, handled, world, rows, file>>
      /\ pc \notin Over
      /\ \/ pc' = pc /\ loop' = FALSE /\ sigLoops' = IF loop THEN loops ELSE sigLoops
         \/ pc' = "killed" /\ UNCHANGED <<loop, sigLoops>>
  BY DEF sigHandler, simTime, output
<1>2. Types'
  BY <1>1, RowsKept DEF IInv, Types, PC, Over
<1>3. Progress' /\ Counted' /\ Dated'
  BY <1>1 DEF IInv, Progress, Counted, Rows, Dated, Starting, Iterating, Over
<1>4. Stopped'
  BY <1>1 DEF IInv, Types, Stopped, Iterating
<1>5. StopsPromptly'
  <2>1. CASE sigLoops' = sigLoops
    BY <1>1, <2>1 DEF IInv, StopsPromptly
  <2>2. CASE pc' = pc /\ sigLoops' = loops
    <3>1. \A r \in Recorder : Len(rows[r]) <= loops + 1
      BY <1>1 DEF IInv, Types, Progress, Counted, Rows
    <3>. QED
      BY <1>1, <2>2, <3>1 DEF StopsPromptly
  <2>. QED
    BY <1>1, <2>1, <2>2
<1>. QED
  BY <1>1, <1>2, <1>3, <1>4, <1>5, RowsKept DEF IInv

LEMMA StutterIInv ==
  ASSUME IInv, UNCHANGED vars
  PROVE  IInv'
<1>1. UNCHANGED <<pc, k, dt, time, loops, loop, handled, world, rows, file, sigLoops>>
  BY DEF vars
<1>. QED
  BY <1>1 DEF IInv, Types, Progress, Counted, Rows, Numbered, Alike, Dated,
              TimesIncrease, Stopped, StopsPromptly

LEMMA NextIInv ==
  ASSUME IInv, StepsAdvance, [Next]_vars
  PROVE  IInv'
BY StartIInv, WhileIInv, RecordIInv, EndRecordIInv, UpTimeIInv, CloseIInv, SigIInv, StutterIInv
DEF Next, Main

-----------------------------------------------------------------------------
(* The theorems                                                            *)

THEOREM Invariance == ASSUME StepsAdvance PROVE Spec => []IInv
<1>1. Init => IInv
  BY InitIInv
<1>2. IInv /\ [Next]_vars => IInv'
  BY NextIInv
<1>. QED
  BY <1>1, <1>2, PTL DEF Spec

\* Every variable of a run has its type, whatever signals come.
THEOREM TypeCorrect == ASSUME StepsAdvance PROVE Spec => []TypeOK
<1>1. IInv => TypeOK
  BY DEF IInv, Types, TypeOK
<1>. QED
  BY <1>1, Invariance, PTL

\* Outside the record loop, all recorders have the same rows, one for each timestep.
THEOREM RowsAlwaysAgree == ASSUME StepsAdvance PROVE Spec => []RowsAgree
<1>1. IInv => RowsAgree
  <2>. SUFFICES ASSUME IInv, pc \notin {"record"} \cup Over, NEW r \in Recorder
                PROVE  /\ rows[r] = rows[1]
                       /\ \A n \in 1 .. Len(rows[r]) :
                            rows[r][n].loops = n - 1 /\ rows[r][n].world = n - 1
    BY DEF RowsAgree
  <2>1. 1 \in Recorder
    BY ConfigAssumption DEF Recorder
  <2>2. Len(rows[r]) = Len(rows[1])
    BY <2>1 DEF IInv, Counted, Rows, Over
  <2>3. \A n \in 1 .. Len(rows[r]) : rows[r][n] = rows[1][n]
    BY <2>1, <2>2, TypesHelp DEF IInv, Alike
  <2>4. rows[r] = rows[1]
    BY <2>1, <2>2, <2>3, TypesHelp, SeqEqual
  <2>. QED
    BY <2>4 DEF IInv, Numbered
<1>. QED
  BY <1>1, Invariance, PTL

\* The times of a recorder's rows increase and stay within the duration.
THEOREM TimesAlwaysIncrease == ASSUME StepsAdvance PROVE Spec => []TimesIncrease
<1>1. IInv => TimesIncrease
  BY DEF IInv
<1>. QED
  BY <1>1, Invariance, PTL

\* After SIGINT no new iteration begins.
THEOREM AlwaysStopsPromptly == ASSUME StepsAdvance PROVE Spec => []StopsPromptly
<1>1. IInv => StopsPromptly
  BY DEF IInv
<1>. QED
  BY <1>1, Invariance, PTL

-----------------------------------------------------------------------------
(* The time to close with                                                  *)

\* Between the iterations, the time is one step after the last row; when the
\* recorders close, it is that row's.
LastRow ==
  \A r \in Recorder :
    /\ pc \in {"while", "downTime"} /\ loops > 0 =>
         time = rows[r][loops].time + ((dt + 5) \div 10)
    /\ pc = "close" /\ loops >= 0 => rows[r][loops + 1].time = time

LEMMA UpTimeLastRow ==
  ASSUME IInv, NoTies, upTime
  PROVE  LastRow'
<1>1. /\ UNCHANGED <<dt, rows>> /\ pc = "upTime" /\ pc' = "while"
      /\ time' \in setTime(10 * time + dt) /\ loops' = loops + 1
  BY DEF upTime, Goto, signals, output
<1>2. time \in Nat /\ loops \in Nat /\ dt \in Nat /\ dt % 10 # 5
  BY <1>1, TypesHelp DEF IInv, Types, Progress, Iterating, NoTies
<1>3. time' = time + ((dt + 5) \div 10)
  BY <1>1, <1>2, UpTimeWithoutTie
<1>4. \A r \in Recorder : Len(rows[r]) = loops + 1
  BY <1>1 DEF IInv, Counted, Rows, Starting, Over
<1>5. \A r \in Recorder : rows[r][loops + 1].time = time
  BY <1>1, <1>2, <1>4 DEF IInv, Dated, Iterating
<1>. QED
  BY <1>1, <1>3, <1>5 DEF LastRow

LEMMA DownTimeLastRow ==
  ASSUME IInv, LastRow, NoTies, downTime
  PROVE  LastRow'
<1>1. /\ UNCHANGED <<dt, rows>> /\ pc = "downTime" /\ pc' = "close"
      /\ time' \in setTime(10 * time - dt) /\ loops' = loops - 1
  BY DEF downTime, Goto, signals, output
<1>2. loops \in Nat /\ dt \in Nat /\ dt % 10 # 5
  BY <1>1, TypesHelp DEF IInv, Types, Progress, NoTies
<1>. SUFFICES ASSUME NEW r \in Recorder, loops > 0
              PROVE  rows[r][loops].time = time'
  BY <1>1, <1>2 DEF LastRow
<1>. DEFINE t == rows[r][loops].time
<1>3. t \in Nat
  <2>1. Len(rows[r]) = loops
    BY <1>1 DEF IInv, Counted, Rows, Starting, Over
  <2>2. rows[r][loops] \in Row
    BY <1>2, <2>1, TypesHelp, ElementOfSeq
  <2>. QED
    BY <2>2, ConfigAssumption DEF Row
<1>4. time = t + ((dt + 5) \div 10)
  BY <1>1 DEF LastRow
<1>. HIDE DEF t
<1>5. setTime(10 * time - dt) = {t}
  BY <1>2, <1>3, <1>4, DownTimeUndoes
<1>. QED
  BY <1>1, <1>5 DEF t

LEMMA NextLastRow ==
  ASSUME IInv, LastRow, NoTies, [Next]_vars
  PROVE  LastRow'
<1>1. CASE \/ createSimulation \/ InstallHandler \/ setupModels \/ setupRecorder \/ endSetup
  <2>1. loops' = 0 /\ pc' # "close"
    BY <1>1 DEF createSimulation, InstallHandler, setupModels, setupRecorder, endSetup,
                simTime, Goto, IInv, Progress, Starting
  <2>. QED
    BY <2>1 DEF LastRow
<1>2. CASE While
  BY <1>2 DEF While, Goto, simTime, output, LastRow
<1>3. CASE RecordNext \/ endRecord \/ animate
  BY <1>3 DEF RecordNext, endRecord, animate, Goto, LastRow
<1>4. CASE closeNext \/ closeAndExec \/ endMain
  BY <1>4 DEF closeNext, closeAndExec, endMain, Goto, simTime, output, LastRow
<1>5. CASE sigHandler
  BY <1>5 DEF sigHandler, simTime, output, LastRow
<1>6. CASE UNCHANGED vars
  BY <1>6 DEF vars, LastRow
<1>. QED
  BY <1>1, <1>2, <1>3, <1>4, <1>5, <1>6, UpTimeLastRow, DownTimeLastRow DEF Next, Main

\* If no step time is rounded on a tie, the recorders close at the time and the
\* loop of the last row: downTime undoes the last upTime, in rounded arithmetic.
THEOREM AlwaysClosedAtLastRow ==
  ASSUME StepsAdvance, NoTies
  PROVE  Spec => []ClosedAtLastRow
<1>1. Init => IInv /\ LastRow
  BY InitIInv DEF Init, LastRow
<1>2. IInv /\ LastRow /\ [Next]_vars => IInv' /\ LastRow'
  BY NextIInv, NextLastRow
<1>3. IInv /\ LastRow => ClosedAtLastRow
  <2>. SUFFICES ASSUME IInv, LastRow, NEW r \in Recorder, pc = "close", rows[r] # <<>>
                PROVE  time = Last(rows[r]).time /\ loops = Last(rows[r]).loops
    BY DEF ClosedAtLastRow
  <2>1. Len(rows[r]) = loops + 1 /\ rows[r] \in Seq(Row) /\ Len(rows[r]) \in Nat \ {0}
    BY TypesHelp, EmptySeq DEF IInv, Counted, Rows, Starting, Over
  <2>2. Last(rows[r]) = rows[r][loops + 1] /\ loops >= 0
    BY <2>1 DEF Last, IInv, Types
  <2>. QED
    BY <2>1, <2>2 DEF IInv, Types, LastRow, Numbered
<1>. QED
  BY <1>1, <1>2, <1>3, PTL DEF Spec
=============================================================================
