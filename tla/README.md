# A verification project for MOMOSE and momosecpp

`src/` holds two mobility simulators that share one design. **MOMOSE**
(`src/momose/src`, Java) is a simulator with a Swing front end and a trace
viewer. **momosecpp** (`src/momosecpp/src`, C++) is the command-line port used
for the experiments, extended with *message models*: nodes that mint messages,
push them to whoever is in range and record the latency of what they receive,
with or without adversaries and friendships. Both read an XML configuration,
move nodes through a scenario in fixed timesteps and hand every timestep to a
list of data recorders.

This directory models in TLA+ the message exchange, the movement of the nodes
with its physics, the life of a momosecpp process, the threads of the Java
simulator, the way of a configuration from momose's window into momosecpp, and
the way of a run from momosecpp's recorder onto momose's screen. TLC checks
small instances. TLAPS proves almost all of the safety properties for every
value of the constants: all of those of the message exchange, of the process, of
the threads, of the trace and of the configuration, and the types, roles and hot
spots of movement.

## Inventory

### momosecpp (C++)

| component | state | operations | what makes it correct |
|---|---|---|---|
| `MessageModel`, `MessageNode`, `MessageData` | per node: `messages` (list, newest last), `message_map` (uuid to data), `temp_messages` (in flight), `nextMessageId`, type | `think`: create loop, push loop (`pushMessagesTo`, `assignTempMessages`), merge loop (`mergeMessages`, `ReceiveMessage`) | list and map agree; identities are unique and provenance is true; one hop per timestep; the first receipt is the one recorded; the push policy; nothing in flight survives a timestep; what is pushed arrives |
| `Simulation`, `main`, `SimTime` | `loop`, `dt`, `time`, loop counter, recorder list | `setup`, `simulationCicle`, `endSimulation`, `sigHandler` | all recorders see the same timesteps; they close at the last of them; SIGINT ends the run after the iteration in progress; a run ends |
| `SimulationManager`, parsers (`XMLParser`, `BaseParser`, `ConfigSimParser`, ...) | builder lists, element handlers on a stack | SAX callbacks, one builder per configured model or recorder | every configured section reaches its own builder; ranges are clamped |
| `ViewerRecorder` | previous position and orientation of each node, XML buffer | `setup`, `record`, `close`, gzip | the trace decodes to the positions recorded |
| `MessageRecorder` | nodes of all models, thresholds | `setup`, `record` (nothing), `close` writes the latencies | each message in the time window counted once, by type of its sender |
| `AiManager`, `PhysicEngine`, `ScenRectangle`, `ScenCircle`, `Ray2D`, `Vector2D` | positions, borders, obstacles | `animateAI`, `animatePhysic`, `collisionDetection`, `borderCollision` | a node stays inside the border and outside obstacles |
| mobility models: RandomWalk, RandomWaypoint, HotSpot, Era, Nomadic, Pursue | per node state machine (target, pause, arrival), per model roles | `think` | a pause ends; a target is replaced when reached; Era's first role is a maximal independent set |

### MOMOSE (Java)

| component | state | operations | what makes it correct |
|---|---|---|---|
| `SimThread`, `SimulationWnd` | thread: `state`, `lock`, its monitor; window: `sim`, `fRun`, buttons, one `SimTime` for all its runs | `run`, `simulationCicle`, `ctrlLock`; `actionPerformed` (run, pause, stop, reset, close) on the event dispatch thread | a run that is not paused ends; Stop and Close end it; one run uses the `SimTime` at a time; every run records 0, 1, 2, ... |
| `SimVisualization`, `Player`, `Viewer`, `ViewerParser` | play position, `wait`/`notify` pair, loaded trace | play, pause, seek, load | a paused player resumes; a seek shows the frame asked for |
| `btgRecorder` (`BTGraph`, `BTGVert`, `IntQueue`) | Bluetooth topology: neighbours N, connections C of bounded degree, BFS marks | `calcNgraph`, `calcCgraph`, `bfsSearch`, `bfsVisit` | C has bounded degree; components, largest component and diameter are those of the graph |
| other data recorders (ecra, scram, ns2, viewer, debug, real time) | output files | `setup`, `record`, `close` | format |
| mobility models, `messageModel`, `ecraModel` | as in C++, and clusters | `think` | as in C++ |
| parsers, `SimLoader`, `SimSaver`, configuration dialogs, scenario generator, compressor | builder lists, form fields | load, save, edit | what is saved is what is loaded |

Beside these: `src/expat-2.1.0` and `src/momosecpp/extlibs` (expat, tclap)
are vendored; `src/plotting` post-processes traces; the `run_simulation*`
scripts are shell loops.

### How they interact

`main` builds a `Simulation` through `SimulationManager` and the parsers and
installs `sigHandler`. `Simulation::simulationCicle` calls, per timestep and in
this order, every recorder's `record`, `AiManager::animateAI` (each model's
`think`, which for message models is the exchange, then each node's `think`),
`PhysicEngine::animatePhysic` and `SimTime::upTime`. The models hand the nodes
to the recorders by pointer, so a recorder reads node state directly. In Java
the same cycle runs on a `SimThread`; `SimulationWnd` steers it from the event
dispatch thread through unguarded fields and one monitor, and the thread calls
back into the window to enable and disable its buttons.

### What is hard here

- *The loops of `think`.* Three passes over the nodes share the lists, and a
  message can be pushed to a node by several others, come back to its sender,
  and be merged in a random order; the temporary buffer exists so that a
  message does not travel several hops in a timestep.
- *The push policy.* Two loops share one budget, and the second runs only for
  collaborators with friendships in use.
- *Float arithmetic at a boundary.* `((float) rand()) / RAND_MAX` can be
  `1.0f`; `SimTime` rounds to hundredths.
- *Asynchrony.* SIGINT at any point of the C++ run; two Java threads that share
  fields without a lock and test outside the monitor.
- *Process replacement.* A recorder that compresses calls `execl` while other
  recorders are still open.

The list `hazards` of PROJECT.json gives the line at which each one bites.

## Plan

Modules in order of importance.

1. Written: `Gossip` (abstract), `MessageModel` with `MessageModelProofs` and
   `MessageModelCounts`; `SimThread` with `SimThreadProofs`; `Simulation` with
   `SimulationProofs`.
2. Written: `Plane`, `Obstacle`, `Mobility` with `MobilityProofs`: the movement
   models and the physics, in millimetres.
3. Written: `Trace` with `TraceProofs`: the scenario, the delta encoding of
   frames and the viewer that decodes them.
4. Written: `Configuration` with `ConfigurationProofs`: `SimSaver`, the parsers
   and `SimulationManager`. `Induction` holds the lemmas about recursive functions
   and sequences that the proof modules share.
5. Left: `MessageRecorder`, what the latency file counts, over several message
   models (it composes two instances of the state of `MessageModel`).
6. Left: the Bluetooth graph of `btgRecorder` (`calcCgraph`, `bfsSearch`)
   against components and distances of the graph as reference; ECRA's clusters.
7. Left: `SimVisualization` and `Player`, the second wait/notify pair.

## The modules

### MessageModel: the message exchange (C++)

One action per iteration of a loop of `MessageModel::think`
(`createNewMessage`/`SkipCreation`, `PushToNeighbour`/`NoPotentials`/
`PushPastTheEnd`), one per `ReceiveMessage` inside a merge, one for the end of a
merge, and `Move` for what happens between two calls of `think` (nodes move,
time advances). `phase` and `i` are the program counter: which loop, which
node. The program is single-threaded; what interleaves is the *data*: any
neighbourhood in any timestep (`near` is any symmetric relation, as distances
are symmetric), any draw of the creation probability, any receiver in range, any
merge order (`random_shuffle`).

| TLA+ | C++ |
|---|---|
| `messages`, `message_map`, `temp_messages`, `nextMessageId` | the fields of `MessageNode` with these names |
| `near` | the pairs with `distanceTo <= EXCHANGE_DISTANCE`, which is all the exchange reads of the positions |
| `SendPass`, `SentBefore`, `Sent` | the two loops of `pushMessagesTo` with their budget `sent < msg_exchange_num` |
| `ReceiveMessage`, `WithoutUuid`, `insertMessage` | erase of a held uuid from the list, `push_back`, `map::insert` |
| `EndMerge` | the loop of `mergeMessages` runs while `i > 0`, then deletes the vector |
| `PushPastTheEnd` | `potentials[potentials.size()]` when the draw is `1.0f`: undefined, so either a stale node of an earlier vector or a crash |

`msg.from` in a message in flight is not in the code: it keeps copies apart that
different nodes pushed to one receiver, where the code has two pointers.

`Gossip` is the abstract specification: what each node knows, what it may hand
on in this timestep, who is in range. A node learns only what a node in range
of it offered when the exchange began. `MessageModel` instantiates it with
`known` = the domain of each map and `offered` = own messages and receipts of
earlier timesteps, and the property `OneHopPerTimestep` is that refinement. A
chained push, or a message that appears from nowhere, breaks it.

### Simulation: one momosecpp process

One action per call that main, `Simulation::run` and their callees make:
creation (exits on a step that is not positive), handler installation, setup
of models, of each recorder (which may fail to open its file and exit), then
the cycle (`While`, `RecordNext` per recorder, `animate`, `upTime`), `downTime`,
and `close` of each recorder, of which a compressing one may replace the
process (`closeAndExec`). `sigHandler` is enabled between any two. Time is a
number of hundredths and `dt` of thousandths, so that `SimTime::setTime`'s
rounding is part of the model; on a tie the float product may fall on either
side and the model takes both. `world` counts the calls that animate the nodes,
which is what a row must agree on.

### SimThread: the Java threads

The simulator thread and the event dispatch thread, one action per access to
what they share. The synchronized blocks (`wait`, `notify`) are atomic; the test
of `lock` before `wait`, and `lock = false` after it, are outside the block and
are actions of their own. Each button method is four `setEnabled` calls, which
the two threads interleave (`todo`). A press needs an enabled button and an idle
EDT; Close is the window's and always possible. `wait` may return without a
notify if `SpuriousWakeups` is set (`pause_lost` does without). A second run (`MaxRuns`) matters as Reset
reuses the `SimTime`. That is a number of hundredths and a loop counter:
`setTime` rounds the sum or difference with the step, which is in thousandths,
and a tie goes either way, as in `Simulation`. So `downTime` need not undo
`upTime`, and it runs even if no `upTime` did.

### Mobility, Obstacle, Plane: movement and physics (C++)

One timestep is `ThinkModels` (the models that think: Era and Nomadic), then
for each node in order one action for the branch that its `think` takes, then
for each node in order `MoveNode` (`PhysicEngine::animatePhysic`). `phase` and
`turn` are the program counter. The six mobility models and the two message
models share their machines in the code by copying, in the model by an action
for each branch, guarded by `Behaviour` (an Era node behaves by its role):

| TLA+ | C++ |
|---|---|
| `Bounce` | `resolveCollision`, of a walking, following or pausing node |
| `NewHeading`, `KeepHeading` | the timer and `randomMove` of random walks |
| `Rest`, `SetOff`, `Walk`, `MoveToTarget` | pause, new target, `moveToTarget` of random waypoints |
| `SetOffToSpot`, `WalkToSpot`, `DeadEnd`, `NextSpot` | the same with hot spots, where there may be none to go to |
| `Follow`, `MoveReferencePoint` | Nomadic and Pursue nodes, the walk of the reference point |
| `RoleAssignament`, `GenerateIndMaximalSet`, `EraThink` | Era's roles and when they are given again |
| `Collide`, `Meet`, `Pushed`, `Contact` | `collisionDetection`: push out of what is touched, nearest contact, stop 0.01 before it |
| `Walls`, `BorderCollision`, `OtherNodes` | `setBorder`, `borderCollision`, `addPhysicalNodes` |

The unit is the millimetre, to which `Node::roundMM` rounds every position, and
the part t of a velocity that can be travelled is kept in hundredths, rounded
up, as the engine compares t with 0, 1 and 0.01 and steps back by 0.01. `dt` is
one second, so a speed is a step. A draw of `rand()` over a range is one of the
two ends of the range, with both signs where the code draws a sign: the extreme
speeds and directions. Rectangles are not rotated. The order of the nodes
matters, and is the code's: a node is moved against the others where they are
by then. `CalcShift` of a point strictly inside a rectangle is
`DefaultVector`, as none of its cases assigns the vector that `Vector2D`'s
constructor made (0,1): such a node is pushed a metre up, whatever is there.

### Trace: from the run to the screen (C++ and Java)

`LoadElement` is one callback of momosecpp's `ScenarioParser`; `Setup`,
`Record` and `Close` are `ViewerRecorder`'s; `Open` and the `Read` actions are
momose's `Player` and `ViewerParser`, one per callback, and run at the same
time: a file may be opened while it is written, the attempt fails at the end of
what there is (`ReadUnfinished`), and may be repeated. `lasts` is `LastInfo`,
from which `NT` decides what a frame leaves out. `Printed` is `operator<<` of a
float with its six digits. The looks of a node are position, antenna radius and
colour. `frames` is history, what `record` was given. Names, texts and sizes of
scenario elements pass unchanged and are left out. momosecpp's `getColor` swaps
green and blue, and momose's does not: the model has that, and what is shown is
what the simulation ran with.

### Configuration: from the window to the simulation (Java and C++)

`SaveCnfFile`, `SaveFile` and `SaveFails` are momose's `SimSaver`, a file per
step, over files that are there already; from `OpenMain` on it is momosecpp's
`SimulationManager`, a callback of expat per step. A file is what expat reports
of it, so that one that is not well-formed just ends, and a text may come in
pieces. `parsers` is the state of the parser in each builder: `actTag` and the
values assigned so far. Two configured models of one name share a builder, and
the file is read into it twice. What a constructor leaves uninitialised is drawn
from `Garbage` when a getter reads it, and a float may be `NaN` as well, which no
comparison of the getters stops: `TypeOK` says which fields can be. Numbers are in
thousandths; `operator>>`
of an int cuts at the decimal point. `ConfigurationAssumption` says what a file
and a dialog are: elements and texts in any order and number, and dialogs whose
spinners keep to the ranges of the getters. A path left empty in a dialog has no
text in the file, so that the first text the parser gets is the line break after
the element, which becomes the path: `SavedIsLoaded` says so. `toXml` writes a
path without escaping; `Markup` has the paths of which expat reports something
else than the text, in which pieces, and whether the file is cut off there (`R&D`
is no well-formed reference). `PrintStream` keeps write errors to itself, so that
`SaveFile` may also leave a part of the file (`Remnants`: some of its elements,
and of a text a `Scrap`) and go on; `lost` remembers it, as history.

## The runs

| run | instance | shows |
|---|---|---|
| `gossip` | 3 nodes, 1 adversary, friendships, 2 messages exchanged at most, 3 timesteps, 1 message minted per node: 134,565 states | all properties of the exchange, the refinement of `Gossip`, and that a run reaches its last timestep |
| `gossip_rounded` | no friendships, budget 1, the draw may be `1.0f`, 2 timesteps | list/map agreement and the push policy survive a read past the end that happens to find a node |
| `merge_loss` | as `gossip`, 2 timesteps | violation: a merge drops the last message pushed |
| `push_out_of_range` | as `gossip`, draw may be `1.0f` | violation: a push can reach a node that is not in range |
| `simthread` | 2 runs of 2 iterations (0.02 s in steps of 0.016 s): 41,691 states | one user of the `SimTime`, records in order, files closed at the last record, runs end unless paused |
| `close_leaves_thread` | 1 run | violation: Close can leave the thread waiting for ever |
| `pause_lost` | 1 run, no spurious wakeups | violation: a second Pause can be overwritten |
| `simulation` | 9 hundredths, steps of 0, 8, 10, 12, 16 and 20 thousandths, 2 recorders, the second compresses | rows agree and increase, prompt stop, termination, what is recorded is written |
| `gzip_replaces` | both recorders compress | violation: only the first output is written |
| `mobility` | each of the eight models, 1 to 3 nodes, 3 to 8 timesteps, a bounded scenario with two rectangles, a circle and two hot spots: 301,256 states | hot spots are known, nodes stay inside and pass through nothing, Era's roles are maximal independent sets, the middle point is the centre |
| `trace` | 2 nodes, 3 looks, 3 frames, 4 scenario files: 103,353 states | the viewer has the frames, the scenario and the length that were recorded |
| `configuration` | 7 main files, 6 files for one model, 4 contents of the window, saves that fail or are cut off anywhere: 543,976 states | what is written, or saved, is what is simulated, in range, or loading is refused |

Why the bounds are enough. With three nodes a message can be pushed by two nodes
to a third in one timestep, come back to its sender, and be chained over two
hops; one adversary and two collaborators exercise every branch of
`SendPass`; with three messages in all and a budget of 2 the budget cuts both
loops. Three timesteps let a message go out, travel on and return. Two
iterations of a Java run reach every program point with the loop taken and
left, two runs the reset. The durations of `simulation` give every `dt` at
least five iterations, with exact, rounded-up and rounded-down steps; 0 covers
the early exit. `dt` below 5 thousandths is left out: it rounds to a step of
zero, and the loop of such a configuration never ends. So are steps that end in
5 thousandths: the rounding of a tie may make `downTime` not undo `upTime`.

The step of 16 thousandths is rounded up in `simthread`, and down again by
`downTime`. A tie is left out there too: with `T = 1` and `Dt = 15`, TLC finds a run
that records at 0 only, goes on to 0.02 and closes at 0.01, which is what Java's
floats do.

In `mobility` a step is up to eight node radii, several obstacles lie on one way,
nodes start next to a building, inside one and in two
corners, the second hot spot has no connection (a dead end), and colouring comes
round within the run, with nodes in and out of sight. The timesteps are as many
as a pause, a way, an arrival and a second way take. In `trace` the looks differ
in position, radius and colour, so that a frame can leave out either, both or
none, and their coordinates are of the three magnitudes that are printed
differently; three frames are a first one, one that leaves something out and
one that follows on it. The scenario files have a connection before its hot
spot, two hot spots of one ID, a second scenario, none at all, and colours that
are missing, default and other. In `configuration` every parser is used and every
range is left on both sides; there are a text in two pieces, an empty field, a
field twice, a file that ends in the middle, a name twice and one that only
momose knows; the window has an ordinary path, an empty one, one in pieces and
one that cuts its file off; write errors leave nothing, a piece from the middle,
and all but the last elements.

### Mutants

Definitions named `Faulty...` are plausible mistakes in the definition that
follows them, and PROJECT.json's `mutants` pairs each with a property of a run
that notices it. They are not part of the model.

### Fairness

`MessageModel` and `Simulation`: weak fairness of the program's own next step,
as the single thread keeps running; none for a signal. `SimThread`: weak fairness of
each simulator thread, of the handler the EDT is in and of the `setEnabled`
calls, as the JVM runs both threads; none for a button, so `EndsUnlessPaused`
does not depend on a user, and a paused run may stay paused for ever. The
monitor is free whenever neither thread is in one of its short blocks, so weak
fairness of `notified` is enough for re-acquiring it. `Mobility`, `Trace` and
`Configuration` state no liveness, and no fairness.

### Disagreements between code and comments

1. `mergeMessages` (MessageNode.cpp:172) loops `while i > 0` from the last index,
   so the entry at index 0 after the shuffle is never received; a node that was
   pushed one message in a timestep receives none. The comment at line 147 says
   they are received at the end of the timestep (`merge_loss`).
2. `think` (MessageModel.cpp:162) scales a draw in [0, 1] to an index; 1.0 is one
   past the end of `potentials` (`push_out_of_range`).
3. `ctrlLock` (SimThread.java:271) tests `lock` outside the monitor: a Close or
   Stop between the test and `wait` notifies nobody, and the thread waits on
   (`close_leaves_thread`).
4. `ctrlLock` clears `lock` outside the monitor (SimThread.java:280): Run
   notifies a paused thread, Pause is pressed again before the assignment, and is
   lost (`pause_lost`).
5. `ViewerRecorder::close` (ViewerRecorder.cpp:193) calls `execl` in the simulator's
   own process: recorders after it are never closed, so never written
   (`gzip_replaces`).

`PROJECT.json` lists these under `findings`. Others the models have and their
properties name, without a run of their own:

- `downTime` (SimThread.java:235, "Rimetto a posto il tempo") subtracts and
  rounds again (SimTime.java:52-56), which takes a step like 0.015 not back to
  where it started, and is called even if the loop was never entered: the files of such
  a run close a step below zero, at loop -1 (`ClosedAtLastRecord`).
- `ViewerRecorderBuilder.toXml` (ViewerRecorderBuilder.java:32) does not escape
  the path, so that momosecpp gets the first piece of it (`SavedIsLoaded`).
- `SimSaver` writes through `PrintStream` (SimSaver.java:64, 129) and never asks it
  for errors: "Saving aborted!" (SimSaver.java:173-174) is only said if a
  file cannot be created or closed, and `SavedIsLoaded` needs `~lost`.
- A node created strictly inside a rectangle is pushed a metre up
  (ScenRectangle.cpp:266), which `Roomy` has to leave room for.

## The proofs

`MessageModelProofs` proves, for every number of nodes, adversaries, messages
and timesteps that meets `ConfigAssumption`, that the exchange keeps `TypeOK`,
`ListMatchesMap`, `MintedByItsSender`, `LatencyInThePast`, `PushedIsHeld`, and, as
an action property, `FirstReceiptKept`.

None but the type is inductive alone. The inductive invariant `IInv` is their
conjunction, and each part leans on the others: an entry created by
`ReceiveMessage` copies sender and creation time of a message in flight, so that
`MintedByItsSender` needs `PushedIsHeld` for the pusher, which needs the pusher's
own entry to be minted; a fresh uuid is fresh only because every held uuid was
minted below its sender's counter (`NewUuidIsFresh`, with the arithmetic lemma
`UuidInjective`: n * MAX + k determines n and k for k < MAX); the list stays
injective only because a uuid is held exactly when the list has it
(`WithoutUuidProperties`, from `RemoveAtProperties` and `AppendFresh`). The proof
has one lemma per action that changes the maps (`CreateIInv`, `ReceiveIInv`),
one for pushes (`PushIInv`), one for the steps that change no map (`QuietIInv`),
and `NextIInv` puts them together. `FirstReceiptKept` follows from `IInv` and the
rule of `map::insert` (`EntriesKept`).

It also proves `Spec => OneHopPerTimestep` (`Refinement`), that the exchange
implements `Gossip`, from the assumption `~RoundedDraw`: a push past the end
breaks it. Its invariant `RInv` adds to `IInv` that every entry of an earlier
timestep is offered, that what is in flight was offered by its pusher, and
that it was pushed within range. Creations map to `Originate`, receipts to
`Learn`, `Move` to `NextTimestep`, everything else stutters.

Assumptions: `ConfigAssumption` of `MessageModel`, in particular
`MaxCreated <= MAX_MESSAGES`. The code reserves `INT_MAX` identifiers per
node and tests nothing; beyond that, identifiers collide and none of this
holds. TLC evaluates the assumption in every run.

`MessageModelProofs` also has `NothingInFlightLater`, inductive with `TypeOK`: `EndMerge` of node n
empties its buffer, and pushes are over when the first merge begins.

`MessageModelCounts` proves what needs counting. `PushPolicy`: the positions a
node sends are those with fewer than `msg_exchange_num` eligible ones before
them. Numbering the eligible positions by how many come before is a bijection
onto 0 .. N - 1 (`SentBefore` is a strict total order), so exactly the smaller of N
and the budget are sent, and nothing unsent comes before something sent. That
the uuids in flight from a node are those it sent in this timestep, to one
receiver (`PushedOnce`), connects this with the invariant. `HoldersAtMostDouble`:
`Spread` says that at most 2^age nodes hold a message, and after the pushes of a
timestep at most 2^(age + 1) hold it or have it in flight to them, as every
holder has pushed it to one node at most; merges only turn the second into the
first. That 2^(n+1) is
2^n + 2^n is derived from the library's count of subsets (`FS_SUBSET`).

`SimThreadProofs` proves, for any duration, step and number of runs,
`TimeHasOneUser` and `RecordedInOrder`; `TypeOK`, for steps of more than half a
hundredth (`Dt > 5`: a smaller one may round to none, and a run then records without
end); and `ClosedAtLastRecord`, for steps that are no tie of the rounding
(`Dt % 10 # 5`), on which `DownTimeUndoes` rests. The argument: at
most one simulator thread is busy (`OneBusy`); Reset is enabled only when none
is (`ResetWhenQuiet`), since only a thread that is done with the time enables
it, as its last call (`ResetComesLast`), and no method of the event dispatch
thread enables it (`NoResetByEDT`); after a reset the time is 0 and the last call
of the handler still disables the button (`Restarted`). So one run at a time moves the `SimTime`, and its
counter is the number of its records, its time a rounded step after the last one
(`Timed`, by program counter). A late call cannot
break this, as it can only disable Reset.

`SimulationProofs` proves, for any duration, recorders, step times and
interrupts, `TypeOK`, `RowsAgree`, `TimesIncrease`, `StopsPromptly` and
`ClosedAtLastRow`. The invariant says how far time, loop counter and world are
at each program counter, and how many rows each recorder has against the one
the loop is at. All need `StepsAdvance` (a step is 0, and refused, or above
five thousandths, so that it moves the rounded time); `ClosedAtLastRow` needs
`NoTies` as well (no step ends in five thousandths, so that `downTime` takes
back what `upTime` added: `DownTimeUndoes`).

`MobilityProofs` proves `TypeOK`, `SpotKnown`, `RolesIndependent` and
`MiddleIsCentre` for any scenario, number of nodes, speeds and pauses. The
invariant is the type of a node and that a node of a class that uses hot spots has
one unless it pauses (`NodeOK`); each branch of each `think` keeps it
(`ThinkInv`), in particular as no role change touches `pause` or `spot`
(`RolesOK`), and the physics touches neither. Positions are part of it: a node is
a pair of integers wherever walls and buildings push it (`CollideOK`, on lemmas of
geometry: the integer length of a vector exists, a contact is
between 0 and 101 hundredths), so that seeing each other is symmetric
(`NearSymmetric`) and the greedy pass over the nodes takes a maximal independent
set (`GenerateOK`). `RolesInv` adds that the colouring's clock is at zero before
the first timestep only. On the diagonal each node extends the bounding box
by its own coordinates alone, so the comparison of y with xMin never lowers yMin
(`MiddleOK`).

`NeverLeaves` proves `InScenario` for every *roomy* scenario, `Roomy(M)` of
`Mobility`: nodes are created inside, none is smaller than `Clearance`, M is above
every speed drawn, no step crosses the scenario, between a building and
the border a node has room (in a narrower gap the building pushes a node into the
wall and beyond, which the code does nothing against), and a rectangle ends a metre
or more before the border in y, as far as a node strictly inside it is pushed
(`DefaultVector`). The invariant `HeldInv`
is that no velocity exceeds M, whatever bounced or drew it, that the reference
point and its target are inside, and that the nodes are when the scenario is bounded.
The steps of the argument are those of the code. A wall or a building tells of a
contact no later than the node is in it, in hundredths of the step (`Knows`), and a
node that stays out of the four walls, as they have pushed it, is inside
(`InsideOrInWall`), so it stops inside (`WallsHold`). A building pushes at most by
the radius and the clearance, or by that metre, which keeps the node in the room that `Roomy` leaves
(`PushStays`), as does the millimetre of the border (`BorderStays`).

`NeverTunnels` proves `NoTunnelling` for roomy scenarios, bounded or not,
in which no node travels half of its radius in a hundredth of a step
(`Unhurried`: contacts are computed to the hundredth in the model, where the code has
floats). A node that touches nothing is pushed by nothing (`NothingPushes`), so it
moves by its velocity alone. Any tenth of that way is close to where the velocity has
the node after some whole number of hundredths (`WayPassed`). Were it inside a
rectangle or a circle there, the ray test would have told of a contact no later
(`RectPassed`, `CirclePassed`, which rest on `Triangle` and on `MovesCloser`: a node
that comes near a centre was moving towards it), of all obstacles the nearest
contact is kept (`NearestKept`), and the node stops before it (`StopsBefore`).

The instance of the run meets both hypotheses, with M = 9000: TLC evaluates
`MCRoomy` of `MCMobility`.

The loops over nodes and obstacles (`Taken`, `Box`, `Hit`) are recursive
functions on 0 .. n. That they exist and what they keep is shown by least
counterexample (`Least`, `IterateExists`, `Upto`, in the module `Induction`), from
the well-foundedness of the order of the natural numbers.

`TraceProofs` proves `TypeOK`, `FramesRestored`, `WholeRun` and `ScenarioRestored`
for any looks, nodes and scenario files. For the frames, the invariant relates three places: `lasts` is the last frame,
each frame in the file decodes against the one before it to the looks recorded
(`Decodes`), and the viewer's frames are those of the file as far as it has read.
Recording while the viewer reads changes nothing it has read (`RecordedStable`,
`ViewedStable`).

For the scenario, the invariant says what momose's parser has after the first n
elements of what `toXml` wrote: the buildings, then the hot spots without
connections, then the ends of the first hot spots and a part of the next one's.
It holds for scenarios as momosecpp's own parser leaves them (colours with their
defaults, attenuations within bounds, ends that name a hot spot), an invariant
of loading. Where an element is in a `FlattenSeq` is given by the running sum of
the lengths (`Offsets`, `FlattenRuns`, `Flattened` in `Induction`): the community
modules define it by a recursive function, of which the same least-counterexample
argument says all that is needed. `FilesAssumption` says what a scenario file is:
any sequence of elements, whose colours have components of 0 to 255.

`ConfigurationProofs` proves `TypeOK`, `WrittenIsLoaded` and `SavedIsLoaded`, for
any files, dialogs, write errors and values of uninitialised numbers. The invariant
`ConfigurationInv` follows a value on its way. `SavedSoFar`: the files that a save
is through with are on the disk as the dialog has them, if nothing was lost. `MainSoFar`: the main
file's parser has the names of the elements seen. `ReadSoFar`: in the file being
read, the parser has the tag of a field right after it, and its value from the
text that follows on, if no later tag of that field comes (`LastAt`). `Finished`:
what has been read once stays so when other files are read, and when the same
file is read again. `AllRead`: each known name is in the queue, being read, or
finished, so all are finished when the queue is empty. `OnlyWritten`: a parser has no value of a
field that its file lacks, which is why a default survives. `CreatedRight` says the
same of what has been created, which nothing changes afterwards. `ParametersRight` is the
step from parsers to parameters (`GetTyped`: what a getter returns is in its range
for any number, the garbage included; `GetNaN`: it returns NaN as it is). For a save the lemmas `MainFileNames` and
`BuilderFileAt` say what the files written contain (a builder's, if no path cuts it
off), `ReadAgain` that a value that was printed is read again as it was, and
`ReadBack` that of a path it is the first piece (`FirstText`). `Known` and `NamesIn` are recursive
functions too, which pick elements of a sequence in order (`Picks`). The parameter
`Strings` is `STRING` in the run; it is a parameter since the provers do not
know that a text in quotation marks belongs to `STRING`.

Only model-checked: the liveness properties (`ReachesT`, `EndsUnlessPaused`,
`StopEndsUnlessPaused`, `Terminates`, `RecordedIsWritten`), as
liveness under fairness is beyond the prover. Every invariant and action property
of the passing runs is the subject of a theorem.

## Not modelled, and why

- `MessageModel` does not use the positions of `Mobility`: the exchange reads only
  who is in range, and the model allows every way that can change, more than the
  movement would.
- Rotated rectangles, texts and images of a scenario; speeds and directions
  between the ends of their ranges.
- Of paths that are written without escaping, those that hold whole elements
  (`<compressOutput>true</compressOutput>`): `Markup` gives a path pieces of text, and an
  end of what is reported.
- The width of integers in uuids: the bound `MaxCreated <= MAX_MESSAGES` stands for
  it (see above). Two message models in one simulation reuse the same uuids; the
  models do not exchange messages, but `MessageRecorder` sees both.
- What `MessageRecorder` counts (see the plan). It takes the first
  `num_adversaries` of all nodes for the adversaries, which only holds with one
  message model configured.
- The Bluetooth graph, ECRA, the tourist models, the scenario generator and the
  compressor (Java): sequential computations on one frame or one file.
- The Java engine, message models and mobility models are the originals of the
  C++ code that is modelled; where the two differ the model is of the C++ code.
- The play thread of the viewer (`SimVisualization`), which waits as `SimThread`
  does.
- Friendships other than those of `initFriendships` (same type 1, different type
  -1, itself 0): the calls of `setFriendship` and of the graph algorithms of
  `MessageModel` (`computeTrustDistances`, the diameter) are commented out, so
  `trustDistance` depends on the two types alone.
- Swing itself, dialogs, plotting scripts, and the vendored libraries (expat,
  tclap), which are most of the source lines of the repository and external to
  this development: of expat the model has what the parsers see of it, of tclap
  (the command line) nothing.
- In `SimThread`, that a late button method can leave a wrong set of buttons
  enabled (for instance Reset not enabled after a Pause pressed just before the end)
  is part of the behaviour; no property forbids it, as no text of the repository
  says which set is right.

## Running the checks

    tlc -workers 2 -config MCMessageModel.cfg MCMessageModel.tla
    tlc -workers 2 -config MCMobility.cfg MCMobility.tla
    tlc -workers 2 -config MCTrace.cfg MCTrace.tla
    tlc -workers 2 -config MCConfiguration.cfg MCConfiguration.tla
    tlapm MessageModelProofs.tla

The other configurations run with the module whose name they begin with
(`MCMessageModel*.cfg`, `MCSimThread*.cfg`, `MCSimulation*.cfg`), and the other
proof modules (`Induction`, `MessageModelCounts`, `SimThreadProofs`,
`SimulationProofs`, `MobilityProofs`, `TraceProofs`, `ConfigurationProofs`) with
`tlapm` in the same way.
