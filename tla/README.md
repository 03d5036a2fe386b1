# Verification of jetson-robot

TLA+ models of the programs that make this robot drive on a spoken sentence and
stop in time: what is modelled, what TLC checks on small instances, what TLAPS
proves for every instance. Source lines are cited as `file:line`; the modules
cite them in the comments of their properties, and `PROJECT.json` maps every
definition to the lines it stands for.

## 1. The system

    sentence -> nl2cmdvel.sh -> infer.py -> llama-server
                     |  (one TCP line)
                     v
     obstacle_guard.py -> cmd_vel_bridge.py -> /cmd_vel -> agent -> ESP32 -> wheels
           ^                                                |
     cam_stream.py (frames)            /wheel_ticks <-------+

| Component | State it keeps | Operations | Hard behaviour | Correct when |
|---|---|---|---|---|
| Bridge, `firmware/cmd_vel_bridge.py` | motion, its end, next publication, stops left, block flag, under one lock | `tick` every 20 ms; `serve`: drive, stop, block, unblock, status | both threads read the clock before they have the lock; `tick` publishes after it has left it; replies fail; the process dies and comes back | a block ends forward motion; durations are kept; stops follow |
| Motor node, `firmware/motor_uros` | PWM channels, last command's time, `stopped` | Twist callback, watchdog, setup | channels are written one by one; the clock wraps; the agent goes away; resets | no bridge is driven both ways; silence stops the wheels |
| Encoders, same program | hardware counters, totals, publication time | read and clear, publish | pulses between reading and clearing; a 16-bit counter, a 32-bit total | totals drift by no more than that gap allows |
| Obstacle guard, `vision/obstacle_guard.py` | streaks of frames, its own block flag | grab, ask the speed, decide, block, unblock | its flag and the bridge's are two; calls time out while their request waits; either process dies; the camera freezes, goes, comes back | the two agree; what is close is blocked |
| Sentence to motion, `nl2cmdvel.sh`, `infer.py`, `pub_cmd_vel.py` | nothing between calls | stop words, model, checks, bridge, slow path | several calls at once; an answer that is any text; a late reply; a bridge held by a silent connection or without its serve thread; a call killed while it drives | a stop holds; only sound commands drive; calls return; in the end the robot is at rest |
| Camera server, `vision/cam_stream.py` | latest frame and its number | capture thread, snapshot and stream handlers | markers cut by a read; two variables of two threads; timed waits | frames are whole and numbered right; viewers keep up |
| Serial firmware, `firmware/motor_ctrl` | speeds, PWM, `stopped_by_timeout` | L, R, S, V, ?, watchdog | the sweep of V holds the loop | no wheel turns unseen by the watchdog |
| Model server script, `scripts/llama_server.sh` | GPU clock | start, signals, cleanup | a signal at any line, cleanup included | the clock is put back |
| Training, `finetune/run_1p5b.sh`, `train_lora.py` | adapters, memory trace, results | train and score for each seed; the memory guard | the guard races the memory; pipes hide failures; the board is reset; the script is run again | memory is low for a moment only; the trace survives; results are of what was trained |
| Data and scoring, `finetune/` | data sets, totals | `gen_data.py`, `evaluate.py`, `report_reject.py`, `analyze_confidence.py` | random draws; tables that run out; tolerances; ranks | splits are apart; scores say what the robot does |

The components meet at three places: the bridge's single-threaded TCP port
(guard, sentences), the topic `/cmd_vel` (bridge or slow path to board), and the
snapshot port (camera to guard). `PROJECT.json` lists under `hazards` what can
go wrong at which line, and which property would notice.

## 2. The modules

| Module | What it is |
|---|---|
| `DriveLatch` | the promise of the bridge: one motion, cut by a block, never resumed, lost with the process |
| `CmdVelBridge` | the bridge; implements `DriveLatch` |
| `Wheels` | arithmetic from a Twist to PWM writes |
| `DeadMan` | the promise of the board: follow within Lag, hold for Hold, stop by Limit |
| `MotorNode` | the board; implements `DeadMan` |
| `DriveChain` | `CmdVelBridge`, a link that delays and loses, `DeadMan` |
| `ObstacleGuard` | the guard beside `DriveLatch` |
| `NlDrive` | sentences beside `DriveLatch`, the slow path beside both |
| `WheelTicks`, `CamStream`, `MotorCtrl`, `LlamaServer` | one program each |
| `GenData`, `Training`, `Evaluate`, `Confidence` | one script each; `Finetune` starts any one of them |
| `DriveChainProofs` (bridge and chain), `MotorNodeProofs`, `ObstacleGuardProofs`, `NlDriveProofs`, `WheelTicksProofs`, `MotorCtrlProofs`, `ServicesProofs` (camera, model server), `FinetuneProofs` (training, data, scores) | theorems |
| `MC*` | instances for TLC |

So the two halves of a chain are each checked against a small promise, and what
is built on them uses the promise: the guard and the sentences face `DriveLatch`
and not the interleavings of `tick` and `serve`.

How state and steps correspond to the code:

- **`CmdVelBridge`.** The fields of `Bridge` keep their names. The executor
  thread (`tpc`, `tnow`, `out`) has a step for reading the clock, one for what it
  does under the lock, one for the publication; the serve thread (`spc`, `req`,
  `snow`) has one for `accept`, one for `readline` with parsing and dispatch, one
  for `set` or `set_block` under the lock, one for the reply. A unit of time is a
  tick. `TickGap` and `ServeGap` bound how late a thread may be. `log` is history.
- **`MotorNode`.** A step is one `ledcWrite` or one test of `loop`; `ms` counts
  modulo `Wrap`. `silence` is history. What the wheels do is read off the channels
  and the enable pins (`Left`, `Right`), not off the command.
- **`DriveChain`.** The bridge's own steps; a topic; `Lose`. `quiet` and `steady`
  are history clocks: since the bridge drove, since anything changed.
- **`ObstacleGuard`.** `gpc` is the place in the loop of lines 113-171; every
  `send` is a request in the bridge's queue that is answered, or abandoned while
  it stays there (a second), or never accepted. What a frame shows is one of
  three distances: the colour model is data. `Start` is taken with nothing in
  front of the robot, the condition `obstacle_guard.py:6-8` states for starting.
  `cam` is the camera server: delivering, serving its last frame for ever
  (`cam_stream.py:44`), or gone, and any of them can follow the other.
- **`NlDrive`.** `pc[c]` is the place in the script of call `c`; the model's
  answer is any of the kinds `infer.py` tells apart; `Bridge` is how the bridge
  is during the run: it serves, it falters, or it is absent. One that falters may
  be late; be held by a connection that sends no line (`Hold`, line 101); lose
  its serve thread to a reply that cannot be sent while its timer goes on
  (`ServeEnds`, line 115); die and be started again. `port` says which. `DriveLatch`
  publishes nothing, so the two halves of `tick` are here: what it decides on under
  the lock is in `out` (`TickDrive`, `TickStop`), until it is published outside it
  (`BridgePublish`, lines 87-89), and anything may come in between. A call on
  the slow path may be killed (`Killed`). `Watchdog` is the board's. `slipped` is
  history: the forward messages since the way was blocked.
- **`CamStream`.** Bytes are markers and a picture; `Read` takes any part of what
  is in the pipe, so that every cut occurs.
- **`MotorCtrl`.** One step per line; the sweep takes a unit of time per duty,
  in which `loop` does not run.
- **`WheelTicks`.** Quadrature of two sensors, `Counted` as the PCNT unit is set
  up; `Read` and `Clear` are two steps, and a wheel may step between them. A total
  is an `int32_t` that comes round at its limits; `carried` is history, what it has
  lost by that.
- **`LlamaServer`.** The lines of the script, a signal between any two. Bash does
  not run an EXIT trap again while it runs: `SignalAgain`.
- **`Training`.** `place` is where the script is, in which container and how far;
  `Cut` is every end of a container but its own, after which the script stops or
  goes on, as the status of a pipe is that of its `grep`; `Halves` is what that
  leaves of an adapter. `avail` may be anything at the end of each second. `watch`
  and `since` are the guard: in its `sleep`, in `docker ps`, in `docker stop`, or
  gone. `docker ps` names what runs when it is asked, which may be the next
  container, with memory enough; or its answer may be out of date when `docker
  stop` comes, and then the guard ends (section 6). `low` is history: how long
  memory has been low.
- **`GenData`, `Evaluate`, `Confidence`.** Sets and records: what may be drawn for
  a split, the metrics of an answer, the element at a rank. Words are English
  glosses of the Korean ones.

## 3. What TLC checks

Each run explores every interleaving within its bounds. Each property of a
passing run has a mutant in `PROJECT.json`: a definition marked `Bug` in the
module, with which TLC finds the property violated.

| Run | Shows | Bounds and why they are enough |
|---|---|---|
| `CmdVelBridge_drive` | types; `NeverTooFew`, `NeverTooMany` (messages per motion), `StopsOnTime`, `BlockedStopsForward`, `OneForwardAfterBlock`; implements `DriveLatch` | speeds -1..1 and a turn; durations 0, 4, 8 and 9, which are none, a period, two periods and too long; period 4, two stops, ticks up to 4 apart of which up to 2 is in time, so that some are late, and a wait of 1 for the lock, so that a tick in time and the wait are just short of a period |
| `MotorNode_watchdog` | `OneDirection`, `StoppedIsStill`; implements `DeadMan` | speeds both ways and beyond the maximum; a timeout of 3 against a round of 2; a clock of 10, wrapping in the middle of everything |
| `DriveChain_drive` | `WheelsStop`, `WheelsFollow` | the board's promise for a timeout of 6 and rounds of 1; one motion of 10, so that `WheelsFollow`, whose bound is 7, speaks of the last ticks of the drive too and not of the rest alone; one loss in a row counts as few, more as many; two stops; a message that is not lost arrives within a tick, in whatever order with the other steps of that tick |
| `ObstacleGuard_watch` | `Agree`, `DeathKeepsBlock`; `CloseIsBlocked`, `FrozenKeepsBlock` (liveness) | 3 frames to block as in the code, 4 instead of 6 to unblock; a queue of 2, so that the guard's request finds another before it or no room; the bridge dies once, guard and camera as often as they like |
| `NlDrive_sentences` | `StopIsTheLastWord`, `BlockedIsObeyed`, `OnlySoundCommands`; `ComesToRest`, `EveryCallReturns` (liveness) | two calls; forward, back and stop (what a block tells apart); one stop, the fewest after which the robot must be at rest; a queue of two; faults as often as they like |
| `CamStream_frames` | `LatestIsWhole`, `NumberAndFrameAgree`, `ViewersKeepUp` (liveness) | three frames, two of them in the pipe at once; a viewer and a snapshot |
| `MotorCtrl_watchdog` | `DrivenAsTold`, `WatchdogStops` | nine duties as in the code, longer than the timeout of 6 |
| `WheelTicks_count` | `DriftIsBounded`, and in `TypeOK` that the counter stays off its limits | a clock that wraps, several publications, both wheels both ways; totals that overflow at 4 |
| `LlamaServer_starts` | `ClockRestored`, `PinnedWhileServing` | eight clocks to find at the first start; starts without end |
| `Finetune_scripts` | `NoSentenceTwice`, `HoldoutInItsHalf`; `ScoreTellsTheDrive`; `ThresholdLetsThrough`; `LowIsShort`, `TraceSurvives`, `ScoredIsTrained` | small tables with every kind of sentence; splits of 1, 1 and 2 rows; every answer over five speeds and five durations with NaN, infinities, text and missing keys; up to 3 rows of confidences with ties; two seeds of two steps, the script run twice; memory that is enough or low, as it likes; a sleep of 1, a `docker ps` of up to 1, a grace of 2, after which `LowIsShort` is met with nothing to spare |
| `ObstacleGuard_restart` | violated: `CloseIsBlockedAgain` | finding 1 |
| `NlDrive_late` | violated: `CarriedOutOnce` | finding 2 |

Named bounds: `MaxTime` (the clock of `CmdVelBridge`, `DriveChain` and
`WheelTicks`), `MaxCrashes`, `Backlog`, `MaxFrames`, `PipeSize`, `MaxValid`,
`MaxRuns`, `Rows`, `Tries`; counters of history stop one past the last value a property
asks for. `MaxTime` bounds nothing in the first two: `MCCmdVelBridge` and
`MCDriveChain` give TLC a `VIEW` in which times are relative to the clock and
stop counting where neither the code nor a property tells the difference (a
motion that is over for both threads; a publication overdue by more than a
period); sending a reply and sending an error are one place, and `MCDriveChain`
leaves out the history its properties do not read. The views drop no more, and
an action or an invariant only compares times with the clock, so two states with
one view have the same successors up to it. The view of `MCWheelTicks` shows
positions only through what the totals are off by, for the same reason.

Deadlock is checked in every run but `Finetune_scripts`, whose scripts end.

## 4. Fairness

Only the runs with a liveness property state any.

- `ObstacleGuard`: the guard's loop runs on, a camera that is live delivers,
  `serve` takes its connections (each of this project's clients sends its line at
  once and closes, so no connection stays open). Nothing is assumed of the other
  clients, of objects moving, of a dead process or a failed camera being started
  again. `CloseIsBlocked` excuses a camera while it has failed, and not after;
  `FrozenKeepsBlock` is about one that never delivers again.
- `NlDrive`: each call's process runs on. All its waits are bounded in the code:
  the model 30 s (`infer.py`), the socket 1 s, a subscriber 3 s, a duration 10 s.
  `serve` takes its connections, unless it is held or gone, and nothing is assumed
  to let it go. The end of a motion (`Expire`, the bridge's timer, which no
  connection holds) and the board's watchdog happen in time. No fault has to
  happen and none has to be repaired; `ComesToRest` needs no more, as the calls
  are finitely many: it says of every fault that what drove before it stops.
- `CamStream`: the capture thread and the handlers run on; the timed wait ends.
  The camera is not assumed to deliver.

## 5. What is proved

With tlapm, for every value of the constants that satisfies the assumptions below.
Every safety invariant and every action property that a passing run checks is the
conclusion of a theorem, and so are the two refinements. `PROJECT.json` lists the
theorems; the argument of each is the inductive invariant named here.

The bridge and the chain, `DriveChainProofs`:

- `TypeCorrect`: `TypeOK` is inductive; besides types it says at which program
  points a request is held and that it is one `set` or `set_block` may see.
- `BlockSafety`, `OneForward`: no forward motion is in force while blocked; one
  forward message at most comes after a block. Neither is inductive: `tick` may
  hold a decision, or a clock, from before the block. `BlockInv` adds that a block
  shuts (blocked implies shut), that nothing is counted while open, that no
  forward motion is in force while shut, and that one forward message has been
  counted only when `tick` holds none and cannot decide on one any more.
- `LatchRefinement`: `Spec => LatchSpec`. The motion of `DriveLatch` is the motion
  while its time runs, else no motion. A tick's step is a stutter, `SetDrive` is
  `Drive` (or `Halt`, when the clock it read is so old that the motion is over
  before it began), the clock's step is `Halt` when it reaches the end, `SetBlock`
  is `Block` or `Unblock`, a crash and a restart are `Fail`.
- `NotTooMany`, `NotTooFew`, `StopsInTime`: the messages of a motion and the stops
  after it. `OrderInv` holds however late the ticks are: every publication has put
  `next_pub` a period later at least, so that the messages of a motion fit into
  the time it has run. `PunctualInv` holds while every tick has been in time: each
  has put it exactly a period later, and `next_pub` is not overdue by more than the
  lateness of a tick and the wait of `serve` for the lock. The attempt found two
  errors of the properties as they were. A motion of exactly one period may go unpublished when a tick that is in time and the wait
  of `serve` for the lock take a whole period together: hence
  `PunctualAssumption`, and durations of one and two periods in the run.
  And the bound of `StopsOnTime` had left out the wait for the lock.
- `ChainStops`: `WheelsStop`, from `StopInv`. `LinkInTime`: a message in the topic
  is no older than `Latency`, and none overtakes another. `Behind`: a message that
  drives is older than the bridge has been quiet, and an order that drives was
  heard no longer after. `Turning`: wheels that turn were last spoken to within
  `Limit`, and if to be stopped then within `Lag`, with the age of the order they
  still carry out in the sum. That needs a board that takes up an order before it
  gives up waiting for one (`Lag <= Hold` in `ChainAssumption`): without it a stop
  repeated in time would start the silence anew for ever and never be taken up.
- `ChainFollows`: `WheelsFollow`, from `FollowInv`, a counting argument. In a time
  in which nothing has changed the bridge decides on one message in each
  period; `Counted(c, n)` says that `c` ticks are no more than the periods of `n`
  messages lost, of those in the topic and of the one about to be published, and
  one more. With at most `MaxLost` lost in a row
  the board therefore has heard within `OrderBound` (`Heard`), for messages older
  than the change stand before the younger ones (`Ahead`, `Decided`); it
  takes up what it heard within `Lag` (`Settles`) and has not yet gone silent, as
  `FollowBound <= Hold + Lag` (`Follow`). `Ticking` says when the next message is
  due. The attempt found the premise `TickGap + ServeGap <= PubPeriod`, without
  which the property is false: TLC refutes it with a period of 2, ticks up to 5
  apart and a motion of 2.

The board, `MotorNodeProofs`:

- `TypeCorrect`: every duty is within the width of the PWM whatever the Twist.
- `OneDirectionAlways`, `StoppedFlagIsTrue`: from `PwmInv`, which says for each
  step of the write sequence which channels are at rest by then: before the
  second write of a pair the other channel is 0, so that a reversal never
  overlaps; after the last write of a stop all are.
- `DeadManRefinement`: `Spec => BoardSpec`, the board writing channel by channel
  under a clock that wraps implements `DeadMan`. `BoardInv` adds to the above
  `Ages`, the difference of two readings of the wrapping clock is the true age of
  the last command, as long as it is needed (the board stops before the clock can
  come round, `Timeout + 2 * LoopGap < Wrap`); and `Obeying`, the wheels do what
  was last heard from the end of the callback to the watchdog's first write.

The guard, `ObstacleGuardProofs`:

- `TypeCorrect`, from `TypeInv`: one request at most is live, and only while the
  guard waits for its reply.
- `GuardAndBridgeAgree`: `Agree`, from `WordInv`. A request that was abandoned is
  still served, so that older words may lie before the one the guard waits for.
  While it waits, its word is the last in the queue, or has been taken and no
  word is left (and then the bridge did as told, if it has not died since);
  between exchanges no word is left at all.
- `DeadGuardBlocks`: `DeathKeepsBlock`, the action property: with a guard that died
  blocked nothing that lifts the block is on its way.

The sentences, `NlDriveProofs`, for any number of calls:

- `TypeCorrect`, from `NlTypeInv`: a call is in the queue at most once, and only
  while it waits for its reply or has given that up.
- `OnlySoundIsDriven`, from `SoundInv`: from the check of `infer.py` on, what a
  call carries passed it, at every place it can be.
- `StopHasTheLastWord`: from `ServedInv`: with a bridge that serves, a call that
  waits is in the queue, so none is refused or gives up, none takes the slow path,
  and only the bridge is heard. Once a stop was carried out last, the bridge has no
  motion, and one of three holds (`StopIsSure`): it has stops to send; the one
  that `tick` has decided on is a stop; or it has decided on nothing and the last
  message the board heard was a stop. A drive in `out` from before the stop is of
  the first kind, as the stop has armed the burst.
- `BlockIsObeyed`: `BlockedIsObeyed`, from `BlockInv`: while blocked no forward
  motion is in force, so that `tick` cannot decide on one (`Latched`); and as long
  as it still holds one from before the block, none has been published since
  (`Slipped`). So one at most ever is.
- `OnceUnlessItFalters`: `Bridge # "falters" => CarriedOutOnce`, from `OnceInv`: a
  call that has given up on the bridge is not in its queue. Finding 2 is therefore
  a matter of the faltering bridge alone.

The encoders, `WheelTicksProofs`: `TypeCorrect` from `CounterInv` (how many steps a
counter can have made since it was cleared, from the time since), that is where
`CounterAssumption` is used; `DriftBounded` from `DriftInv` (position, total,
counter and the steps between reading and clearing add up, for each wheel).

The serial firmware, `MotorCtrlProofs`, from `CtrlInv`: `Types`, the duties
included (`DutiesFit`); `LoopObeys`, each channel does what the speed of its wheel
says or nothing, the one of the sweep outside a sweep; `Fresh`, speeds that are not
0 are no older than the timeout and a round.
`SweepLeavesNothing` and `StopsUnattended` are `DrivenAsTold` and `WatchdogStops`.

Camera and model server, `ServicesProofs`:

- `FrameIsWhole`, `NumberTellsTheFrame`: from `CamInv`. `InPipe` says that
  buffer and pipe, one after the other, are the bytes of the pictures after the
  `seq`-th in order, and all of them while GStreamer runs. What is cut is then
  the first five of them as soon as they are there, however they came (`Cut`);
  `Added`, `LeftOff`, `Moved` and `Dropped` say what a step of the camera or of
  the capture thread does to a sequence.
- `PutsTheClockBack`, `ServesPinned`: from `ClockInv`, for one terminal
  (`OneTerminal`), as the run: of two scripts at a time the second notes the
  pinned clock, see section 6.

Training, data and scores, `FinetuneProofs`:

- `GuardIsInTime`: `LowIsShort`, from `WatchInv`, which assumes nothing of the
  memory: while the guard sleeps, memory has been low for no longer than it has
  slept; in `docker ps`, for that and a sleep; in `docker stop`, for that and both.
  A look that finds enough finds that memory has not been low; a container that
  ends gives back what it had, so whatever `docker ps` names is stopped in time or
  has not been low for longer than `since`.
- `TraceIsThere`: `TraceSurvives`, from `TraceInv`: while a step is trained, every
  step before it is on the disk.
- `ResultsAreTrue`: `ScoredIsTrained`, from `AdapterInv`: in the first run a seed
  has no adapter before its training is saved, and never another than its own;
  a container that dies while it saves leaves none or a whole one.
- `TestIsUnseen`: `NoSentenceTwice`, from `DataInv`: no two rows have one text
  (`Distinct`), what a new sentence is compared with is all there is (`Made`,
  `Unmade`), and the refusals are drawn from lists that are apart (`Apart`).
- `HoldoutIsHeldOut`: `HoldoutInItsHalf`, from `HeldOut`, which is `TableAssumption`
  carried through `Sample`.
- `ScoreIsTrue`: `ScoreTellsTheDrive`, for any answer. The attempt found a pair of
  overlapping CASE arms in `Score`, whose value TLA+ leaves open; they are apart
  now.
- `ThresholdIsFair`: `ThresholdLetsThrough`. That the element at a rank has as many
  below it as the rank says goes by the least confidence with enough rows up to
  it, which exists because confidences are natural numbers: no induction.

The assumptions, and what in the code justifies them:

| Assumption | Says | Because |
|---|---|---|
| `SpeedAssumption`, `LatchAssumption`, `WheelAssumption`, `CtrlAssumption` | speeds are integers, 0 among them; maximum and duty positive | units are an abstraction; the code's constants are positive |
| `TimeAssumption` (bridge) | a period and a stop at least; a tick that is in time is no later than a period | `cmd_vel_bridge.py:27-29` |
| `PunctualAssumption` | a tick in time and a wait for the lock are shorter than a period | 20 ms and the lock's few lines against 100 ms |
| `TimeAssumption` (board) | timeout and two rounds are less than the clock's range | 500 ms against 2^32 ms |
| `ChainAssumption` | `Lag <= Hold <= Limit`; a tick's gap and a wait for the lock within a period; fewer lost in a row than stops are sent; `FollowBound <= Hold + Lag` | a round of `loop` is far below the timeout; 20 ms and 100 ms; `STOP_REPEAT`; 100 ms against 500 ms. `WheelsStop` uses the first of these only: it holds however bad the link is |
| `GuardAssumption`, `NlAssumption` | streaks and backlog positive | `obstacle_guard.py`, `listen(4)` |
| `TicksAssumption`, `CounterAssumption` | the counter cannot reach its limit between two readings; `loop` keeps up with its period; a total holds what a counter does | 4300 counts a second (`main.cpp:135`) against 32767; 32 bits against 16 |
| `CamAssumption`, `ClockAssumption` | a connection is to one path; the highest clock is a clock | |
| `TrainingAssumption` | counts positive; the guard's limit is not above all there is; its sleep takes time | `run_1p5b.sh:20-24`. That `docker ps` takes `Listing` at most is docker's |
| `OfftopicAssumption`, `TableAssumption`, `ArgsAssumption` | the lists of refusals are apart; held-out words are in the held-out phrases and nowhere else | `offtopic.py`, the tables of `gen_data.py:18-50` |
| `ScoreAssumption`, `RefusalAssumption`, `NumberAssumption`, `GoldAssumption`, `ConfAssumption` | right answers are numbers, each 0 or beyond the tolerance; confidences are counted in steps | `gen_data.py` draws no smaller ones |

Only model-checked: `CloseIsBlocked`, `FrozenKeepsBlock`, `ComesToRest`,
`EveryCallReturns` and `ViewersKeepUp`, which are liveness and need fairness and
ENABLED, beyond the prover; the two findings of section 6, which are
counterexamples. What recursion over data computes for all inputs is not proved
anywhere; no module uses RECURSIVE.

## 6. Findings

1. **A bridge restarted in front of an obstacle stays unblocked**
   (`ObstacleGuard_restart`). `blocked` lives in the bridge's memory
   (`cmd_vel_bridge.py:42`), and the guard sends a block only when its own flag
   changes (`obstacle_guard.py:151`).
2. **A command may be carried out twice** (`NlDrive_late`). A bridge that carries
   it out but replies after more than a second is taken for no bridge
   (`nl2cmdvel.sh:33-38`), and the slow path drives it again.

Met while modelling, and present in the models (the properties above are stated
so as to hold beside them):

- Without a bridge each call publishes by itself: a drive said earlier goes on
  after a stop said later has returned (`nl2cmdvel.sh:53`; `README.md:44, 152` say
  a stop replaces the command in progress, `nl2cmdvel.sh:14` restricts that to the
  bridge). Hence the premise of `StopIsTheLastWord`.
- The slow path does not know of the block. Hence that of `BlockedIsObeyed`; and
  `tick` publishes outside the lock, hence the one message it allows.
- The guard of `run_1p5b.sh` is a part of a script with `set -e` (line 8), which its
  subshell inherits: when the container that `docker ps` named has ended by itself
  before `docker stop` gets to it, that fails, and with it the pipe of line 24. The
  guard is gone, without a message, and the trainings after it run unguarded. Hence
  the premise of `LowIsShort`.
- A stream handler that waits five seconds in vain sends its last frame again
  (`cam_stream.py:88`, against the comment at 32).
- When the camera's pipeline ends, `SystemExit` is raised in a daemon thread and
  ends only that: the server goes on with the last frame (`cam_stream.py:44`), and
  the guard sees a floor that no longer changes. With something close on that
  frame the robot stays blocked (`FrozenKeepsBlock`); with nothing close on it
  the robot is not protected any more, and the model says nothing else.
- A connection that sends no line keeps all others out of the bridge for as long
  as it stays open, a stop and the guard among them (`cmd_vel_bridge.py:101`); a
  reply that cannot be sent ends the serve thread for good (line 115). What drives
  then ends with its duration, and the calls return on the slow path:
  `ComesToRest`, `EveryCallReturns`.
- `run_1p5b.sh` goes on to score a seed whose training was stopped, the guard's
  stop among the causes: without `pipefail` the status of line 35 is that of
  `grep`, which may have seen its word before. In a clean directory there is
  nothing to score and the script ends; in a second run the adapter of the first
  lies there, and its scores are reported as this run's. Hence `runs = 1` in
  `ScoredIsTrained`.
- The sweep of V takes at least 720 ms, in which the watchdog of 500 ms does not
  run and the right wheel goes on (`motor_ctrl/src/main.cpp:38, 114, 142`). Hence
  "outside a sweep" in `WatchdogStops`.
- `/wheel_ticks` starts with a burst: its timer starts at boot, `loop` two seconds
  later (`motor_uros/src/main.cpp:58, 74, 164, 197`).
- A second signal while `llama_server.sh` waits for its server skips the restore;
  so does a second start before the first has restored, which notes the pinned
  clock as the one to restore (`llama_server.sh:16-21`). Hence `rushed`, and one
  terminal in the run.
- An answer may be exact, by the tolerance, and have the wrong sign where the
  right speed is 0 (`evaluate.py:87-90`). `ExactIsNoWrongWay`, a part of
  `ScoreTellsTheDrive`, says so.
- `gen_data.py` keeps the splits of one run apart. Over two runs it cannot: the
  set made with `--rich` holds 11 of the 150 test sentences of the plain run; and
  with `--reject` the refusals of validation are drawn from the pool training
  draws from (lines 176-180).

## 7. Not modelled

- The numerics: colour model of the floor, what a step of the training computes,
  text generation, confidence of a token (so `build` of `train_lora.py`,
  `save_merged.py`); `benchmark.py` and the scripts that print tables, which
  measure and keep no state; `make_chassis.py`, a drawing.
- How fast memory goes. Nothing in the code bounds it (`train_lora.py:106` caps how
  much the GPU takes), and the model does not: `LowIsShort` says for how long it may
  be low, not how low. The board was reset at about 170 MB
  (`finetune/README.md:285`), the guard acts below 300 MB; it saves the board if
  the 130 MB between them last a sleep of 1 s, a `docker ps`, and the 2 s of the
  grace, which is about 40 MB a second.
- That a bridge told again and again keeps publishing: every command puts the next
  publication at its own clock (`cmd_vel_bridge.py:65`); the counts of messages are
  of one motion.
- The other `run_*.sh`, which start one tool after another; `run_1p5b.sh` after the
  loop (conversion, timing).
- DDS discovery and the micro-ROS agent beyond losing and delaying messages.
- `infer.py --local` (`generate_local`), used for comparison.
- NaN speeds at the bridge's port: `infer.py` refuses them, and speeds are
  integers in `CmdVelBridge`.
- Build scripts, manual test programs.

## 8. Plan

Done: the models of sections 2 and 3; every safety invariant, action property and
refinement they check is proved (section 5).

Next:

1. Two terminals at the model server script: state which of the two starts spoils
   the clock, in place of the hypothesis `OneTerminal`.
2. The guard, the sentences and the full bridge composed, in place of one of the
   smaller runs: today the guard and the sentences each face `DriveLatch`, which
   `LatchRefinement` justifies one at a time.
3. The steps under the liveness properties that need no fairness (how long the
   guard's loop takes to a verdict, how long a call can take), as invariants.
