# Qermesse in TLA+

Qermesse runs roller races: up to four bicycles on rollers, a box (an Arduino
running the OpenSprints firmware) that counts wheel ticks, a PC that referees
and a screen for the public. This directory models the program in TLA+,
model-checks the models with TLC and proves their main results with TLAPS.
Paths below are relative to the root of the repository; `src/` is left out.

## 1. Inventory

| part | code | state | operations |
|---|---|---|---|
| race engine | `core/race_engine.gd` | state machine IDLE, ARMING, COUNTDOWN, RUNNING, FINISHED, RESULTS; configuration, race, filter, rule, result, arming time | `arm`, `tick`, `on_countdown`, `on_progress`, `on_false_start`, `on_rider_finish`, `abort`, `on_link_lost_beyond_grace`, `show_results`, `acknowledge_results` |
| race state | `core/race_state.gd`, `core/speed_smoother.gd` | per lane: ticks, distance, peak, arrival, elimination, rank, handicap, false start | `reset`, `apply_sample`, `leader`, `trailer`, `by_distance`, next ranks |
| rules | `core/rules/*.gd` | target (distance), gap and exit order (pursuit), limit (time) | `evaluate`, `note_hardware_finish`, `final_ranking` |
| tick filter | `core/tick_filter.gd` | accepted ticks, last time | `accept` |
| configuration, physics | `core/race_config.gd`, `core/physics.gd` | none | `validate`, `arming_commands`, conversions |
| frame and command rings | `addons/serial_link/src/ring_buffer.h` | slots, head, tail, dropped | `push`, `try_push`, `pop` |
| link driver | `addons/serial_link/src/link_driver.*` | link state, deadlines, blacklist, watchdog | `tick`, `queue_command`, `start`, `stop`, `set_race_active` |
| line parser | `addons/serial_link/src/line_parser.*` | the line begun | `feed`, `reset`, `parse_line` |
| serial ports | `serial_port_posix.cpp`, `serial_port_win.cpp`, `port_selection.cpp` | the open port | `enumerate_ports`, `open`, `read`, `write`, `still_present`, `close` |
| link node | `addons/serial_link/src/serial_link.*` | thread, last state announced | `_process`, `start_autoconnect`, `stop`, `send_command`, `_exit_tree` |
| application controller | `scenes/app_controller.gd` | lost-link date, sensor test, demonstration | `start_race`, `stop_race`, `restart_race`, `apply_backend`, sensor test, `shutdown`, frame and link handlers |
| attract mode | `scenes/attract_mode.gd` | wait, elapsed, saved settings | `start`, `stop`, `_process`, `_next_race` |
| recorder, result, replay | `core/recorder.gd`, `core/race_result.gd`, `core/replay.gd` | trace of the race, day's log | `begin_race`, `record_*`, `finish_race`, `replay` |
| files | `core/json_store.gd`, `settings.gd`, `roster.gd`, `app_paths.gd` | files on disk | `write`, `read` |
| link facade | `hardware/link*.gd` | the backend in place, simulated box | `use_serial`, `use_simulator`, `start` |
| firmware | `tools/ss_emu/src/firmware_sim.cpp` (faithful emulator of the box) | counts, countdown, race clock | `tick`, serial commands |
| emulator front end | `tools/ss_emu/src/main.cpp`, `port_pty.cpp`, `rider_model.cpp`, `faults.cpp` | wheels, faults, freeze, delay, terminal | the loop of `main` |
| display | `scenes/`, `audio/` | none the referee reads | rendering, sound, panels |

**How they interact.** The box sends text lines (`CD:`, `R:`, `FS:`, `<r>F:`,
`V:`, `L:`). A native thread ticks the link driver every half millisecond: it
reads the port, parses frames and pushes them into a lock-free ring; commands
come back through a second ring. The Godot thread drains the frame ring on
every image, announces link states, and calls the engine's handlers from the
controller. The engine emits signals and the commands `d l g x t60 s`; the
controller forwards them to the link and records the race. Everything the
referee decides happens on the Godot thread; what crosses threads is the two
rings, some atomics and three published strings.

**What is hard.** Late, lost, refused and repeated frames; the firmware stops
sending `R:` in the very pass where the last tick is counted; the operator,
a false start, the lost link and a silent box may each end a race between any
two frames; ranks are announced live and computed again at the end; sorts are
not stable; two threads share memory without a lock; the link reconnects in
the middle of a race. `PROJECT.json` lists each hazard at its line.

**What makes each part correct.** Engine: stays in step with the box, referees
the active lanes and only them, ends every race, freezes who is classified,
publishes a complete ranking that agrees with what it announced. Rings: a
bounded queue, no data race, losses counted. Driver: finds the box, never
stops a race it recovers, reports an interruption once. Parser and ports: no
measure the box has not printed, one path for one open port. Node: one thread,
over when `stop` returns. Box: races what it was asked, counts what turns.
Controller: one race at a time over engine, link and recorder, nothing left
running at the box, nothing of a demonstration kept. Replay: the trace gives
the result that was published. Files: a crash leaves the old file or the new.

## 2. Modules

| module | what it is |
|---|---|
| `RaceEngine` | the engine with race state, rules and filter |
| `MCRaceEngine` | races to check it on |
| `Orders` | lemmas on least numbers, intervals and places in a ranking |
| `RaceEngineProofs` | types of every operator; the inductive invariants of the referee, of what is announced and of the order of arrivals |
| `FrameQueue` | abstract bounded queue |
| `SpscRing` | the lock-free ring, implementing `FrameQueue` |
| `LinkDriver`, `MCLinkDriver` | the thread that finds, greets, watches and finds again the box; ports to check it on |
| `LinkDriverProofs` | its inductive invariant, safety and types, and `choose_best`; the same under the controllers of `GracePeriod` and `RaceWatch` |
| `RaceWatch`, `MCRaceWatch` | `LinkDriver` under a controller that starts, ends and restarts races |
| `GracePeriod`, `MCGracePeriod` | `LinkDriver` under the poll of the node and the grace of the controller |
| `SerialNode` | the node and its thread |
| `SerialLinkProofs` | the invariant of the ring and its refinement; the invariant of the node and its thread |
| `Decimals`, `LineParser` | digits; bytes into lines and lines into frames |
| `PortList` | the ports of each system, their identifiers and their order |
| `SerialPath`, `MCSerialPath` | a port, the reads of the thread and the parser, over a bad line |
| `SerialPathProofs` | what is open, the order of trying, the line and its account: their invariants |
| `AvrTypes`, `Firmware` | the arithmetic of the box with the driver's check of commands; the box |
| `Emulator`, `MCEmulator` | the loop of the emulator around `Firmware`, and a client |
| `EmulatorProofs` | false starts, ticks, the terminal of the emulator, the order of what it sends and the race it is asked for |
| `RaceNight`, `RaceNightProofs` | controller, demonstration and both links over a whole evening; their invariants |
| `UserFiles`, `UserFilesProofs` | the save of the operator's files; its invariant |

`EXTENDS` composes: `RaceWatch` and `GracePeriod` extend `LinkDriver`,
`Emulator` extends `Firmware` (on `AvrTypes`, on `Decimals`), `SerialPath`
extends `LineParser` and `PortList`. `SpscRing` instantiates `FrameQueue`.
`RaceNight` keeps of engine, driver and box only their states, so that it can
follow all three.

### RaceEngine

One action is one handler, with everything it calls: `OnProgress` is
`on_progress` with the filter, the sample, the verdict of the rule, the
eliminations and arrivals it announces, the final ranking and the `s`. The
handlers run on one thread, so a handler is one step; what interleaves is the
order in which frames, deadlines and the operator call them.

| code | model |
|---|---|
| `_state`, `_config`, `_filter`, `_result` | `state`, `config`, `filter`, `result` |
| `_race_state` and `RulePursuit._elimination_order` | `race`; the order is `race.exit`, 1 for the first out |
| `_armed_at_ms` and the clock of the PC | `armAge`, calls of `tick` since arming |
| `command_requested` | `command`, the last command emitted |
| rank argument of `rider_finished`, `rider_eliminated` | `announced` |
| `Verdict` | record of lanes out, lanes arrived, reason |
| `final_ranking` (a sort) | `Ahead`, the order; `Place` counts who is ahead |

Abstractions:
- Lengths are integers in units of which a tick is `Circumference`, so that the
  floor of `metres_to_ticks` and the ceiling of `max_plausible_ticks` are the
  code's. The code compares floats with `is_equal_approx`; here lengths are
  equal or not.
- The smoothed peak speed, read only by the ranking of a time race, is any
  value of `PeakLevels` once two samples have different times.
- The active lanes are a set: the roster hands them in lane order, and ranks of
  one frame depend on that order, which `Finish`, `Leader` and `Trailer` use.
- `distance_timeout_s`, `pursuit_time_cap_s` and `duration_s` are one field,
  `limit`, and `distance_m` and `gap_m` one field, `metres`: a mode reads one
  of each.
- A frame may carry any counts up to `MaxTicks` at any time up to `MaxMs`: the
  line has no checksum. Idle lanes always carry the largest count, as a loose
  wire does. A frame of time 0 leaves the firmware in the pass that starts the
  race, which counts one edge of a racing lane at most. Whether the clock may go
  back is the constant `ClockMayRecede`.

### SpscRing

`push` is `Offer` (load of `tail_`, full or not), `WriteFirst`, `WriteSecond`
(the copy of a frame takes time, so it is two halves), `Publish` (store of
`head_`), or `Drop`; `pop` is `Poll`, `ReadFirst`, `ReadSecond`, `Free`. The
memory order of the code is acquire and release: a load may give a value the
other thread has since replaced. `seenTail` and `seenHead` are what each
thread would load now; `SeeTail` and `SeeHead` let a store reach the other
side at any later time. `FrameQueue` says what is promised under that: the
producer may refuse a frame the queue has just got room for, but never
accepts one without room; frames come out whole, in order, once.

### LinkDriver

A tick is two steps, `BeginTick` and one branch of the switch, because it
loads `race_active_` again after the main thread may have changed it. Each
branch has the name of what comes of it and contains every call it makes:
`CloseSilentPort` closes, blacklists and searches at once, as the code does.

| code | model |
|---|---|
| `state_`, `port_`, `version_`, `blacklist_`, `handshake_attempt_` | `state`, `port`, `version`, `blacklist`, `attempt` |
| `link_down_`, `interrupted_reported_` | `linkDown`, `reported` |
| `race_was_active_` | `seen` |
| dates in milliseconds | `age`, up to the largest a comparison can tell apart |
| `last_progress_ms_ >= race_active_since_ms_` | `progressed` |
| bytes in flight | `wire` (to the box), `line` (kinds of frames from it) |
| `start`, `stop`, `set_race_active`, `queue_command` | `SetRunning`, `SetRaceActive`, `QueueCommand`, at any time |

The box and its cable are the environment: it is pulled out and put back, under
another path if it has one, reads its commands, sends frames when it likes. A
read of an open port gives an error, or nothing, once the box has left
(`serial_port_posix.cpp:88-109`), and `CanMisread` lets open and read fail with the
box in place. The operator's port is a constant. The 32-bit dates start with the
program and wrap after 49 days, which is left out, as are statistics and the
text of commands.

`RaceWatch` sets `race_active_` as the controller does: it starts only when
the driver allows it. A unit of time, hundreds of ticks, does not pass before
the driver has read what waits.

`GracePeriod` adds the two clocks of a cut: `Image` is `_process` of the
controller and the poll of the node under it, `told` the state last polled,
`lostFor` the age of `_link_lost_since_ms`. A race there is past its armament,
and starts from a link the operator has been shown identified. An image falls
in every unit of time.

### Firmware and Emulator

A box is a record, `FirmwareSim`, and each of its functions an operator from
box to box (`CheckSerial`, `Countdown`, `UpdateRacerTicks`, `CheckDistanceBased`,
`CheckTimeBased`, `PrintRacerUpdate`); `Tick` is one pass. Dates are ages. `Mul`,
`Atoi` and the two comparisons wrap as the 16-bit box does; the width is a
constant, `IntSize`, 2^4 in the run, where a second has 3 ms, so that all the
boundaries of the check (`Valid`, `validate_command`) are within two digits.

`Emulator` is the loop of `main`: `Input` (read, rearm, faults due), `Iters`
times `Pass` (`RiderModel.update` and `tick`), `Output` (freeze, latency,
`pump_tx`). A wheel advances by 0 or 1 in a pass in place of its speed, and the
credit of the line counts frames in place of bytes, the queue of the latency too. A terminal may refuse at
any step of its opening and may be full. Faults are a constant sequence.

### LineParser, PortList and SerialPath

`LineAssembler.feed` is `Fed` over bytes, `parse_line` is `Parse`; the limits of
the code (line, digits, text) are constants. `PortList` has the lists of Linux,
macOS and Windows: how each finds the two USB identifiers (`Climbed`, five or
eight levels up; `ParseHardwareId`, tokens of a text) and `rank_candidates`.
`SerialPath` puts a box at the end of the port: it prints lines of its
repertoire, noise comes in between, devices are exchanged under one path. The
thread does any of its operations when its port allows it: their order and
delays are `LinkDriver`'s. `account` is a history: the lines owed and the lines
noise may cost. A failed setting of a port is the failure of its `open`.

### SerialNode

The thread is where it may wait: `loop`, `tick`, `pump`, and `write`, whose loop
on a full terminal (POSIX) or single try (Windows) is `Posix`. `Stop(FALSE)` is
`stop`, which tells the driver; `Stop(running)` is `_exit_tree` and the
destructor, which do not. Of a read only what comes of it is kept: any state,
a frame more or none.

### RaceNight

| code | model |
|---|---|
| `RaceEngine._state` | `engine` |
| `demo_mode`, `_sensor_test_active`, `_link_lost_since_ms >= 0` | `demo`, `test`, `lost` |
| the values the demonstration borrows, `_saved` | `settings` ("ours" or "show"), `saved` |
| the backend in place and `use_simulator`; what the operator chose | `backend`; `chosen` |
| driver, ring and box | `link`, `told`, `active`, `port`, `commands`, `frames`, `box` |
| simulated box | `sim` |
| recorder | `fate` of the last race, and its `owner` |

A handler of the main thread is one step. `Tell` sends: what does not fit in the
queue is refused and the handler goes on, but for a sensor test, which is given up.
`Pumps` and `Greets` write: nobody looks at the result of `write`, so that any of
the commands may be lost (`Written` are the places of those that are not). The
history `unheard` remembers that the last `s` was refused or lost; one that is
accepted, the `s` of a handshake with nothing in the queue, or another driver clears
it. Nothing is timed: a delay may run out at any moment of the state it is watched
in, which allows more than the code does. A run of a box and each command carry the race they
belong to ("race", "test", or "old" once another has started); the code cannot
read that mark, the properties do. `Crash` and `Close` launch the program anew
from the disk, with the box as it was left; on `Close` the thread may have
written what waited, a part of it, or nothing.

### UserFiles

One action for each call `write` makes to the system, any of which may fail.
`store_string` may leave a file cut short, whose result is not looked at; a
rename may be refused. `read` gives the default values for a file that is
absent or broken. The system keeps what it was told when the program dies: a
loss of power with writes still in its caches is left out.

## 3. Runs

| run | instance | what it shows |
|---|---|---|
| `engine_safety` | 3 lanes, 8 configurations (3 modes, 4 policies, 3 refused), 5 counts, 4 times | the properties of the engine below, and that armament and race end |
| `engine_clock` | 2 lanes, the clock may recede | finding: the race clock goes back |
| `engine_ranks` | 2 lanes, a time race | finding: the rank written to the log is not the rank of the result |
| `frame_ring` | 4 slots, 9 frames: more than twice round | the ring is the queue; accepted frames are handled |
| `link_outages` | one port, the operator's, the box on it or not, open and read that fail, a grace of 1 | an identification belongs to the open port; an outage is dated and reported once; no hasty cancellation, and a plain cut cancels |
| `link_found` | two ports, the first a modem that never answers or does not open | the box is found, and again after each loss |
| `link_watchdog` | one port, races that restart | finding: the countdown of a restarted race trips the watchdog |
| `serial_path` | two devices that may take one path and a modem, Linux, macOS and Windows, 6 repertoires of two lines, 3 noises | nothing forged, one line lost per noise, ports known for what they are |
| `serial_node` | POSIX, commands of 2 bytes, a terminal of 3, queues of 2, 2 frames an image | `stop` returns with the thread gone; states shown; commands leave |
| `emulator` | 2 lanes, both wired, 6 faults, 3 commands of 8 | the box races what it was asked and counts what turns; output in order |
| `race_night` | a queue of 3 commands, 2 frames under way | one race, watched over, kept if it is ours; the box runs on only when its `s` was refused or lost |
| `user_files` | 2 edits of each file | what was saved stays, whole |

Engine properties: `BoxFollowsEngine` (the box has last heard `g` exactly while
a race is on), `FrozenOnceClassified` (nothing moves the figures of a lane that
has arrived or gone out), `NeverRunningWithoutRacer`, `RankingIsComplete`
(places 1 to n for any result, complete or partial), `EliminationRankIsFinal`
(a pursuit announces from the bottom and keeps its word),
`OnlyPhotoFinishReorders` (announced and final order of arrivals differ only on
the same time), `LeaderTopsTheUnfinished` (the leader on the screen is the
first of the unfinished in the ranking), `PenaltyIsPaid`, `EveryRaceEnds`.

Ring properties: `NeverSameSlot` (no data race), `ImplementsQueue` (refinement
of `FrameQueue`), `AcceptedIsHandled`.

Driver properties: `StartIsAuthorised` (IDENTIFIED means the open port has
answered `V:`), `OneOutage` (losing the link again before it is back neither
restarts its clock nor counts it twice), `OutageIsReported`, `BoxIsFound`.
With the controller: `NoHastyVerdict` (a race is cancelled only after a whole
grace without the link), `PlainCutEnds` (a cut that stays in LINK_LOST cancels).

Line properties: `NothingForged`, `NoiseCostsOneLine`, `PortAgrees` (path, state
and descriptor), `BoxIsTriedFirst` (on the three systems: before any port but the operator's and
those where a known identifier is found too), `GoneIsTold`. Node:
`ThreadIsOver`, `StopReturns`, `StateIsShown`, `CommandsLeave`. Box:
`RaceIsTheOneAsked` (no accepted length or duration becomes another in 16
bits), `TicksFollowTurns`, `FalseStartIsEarned`; around it `PortIsWhole`,
`PipelineInOrder`, `FreezeEnds`.

Evening: `WatchIsOn` (the driver watches exactly while a race is on), `TestAlone`,
`OnlyOursAreKept`, `NoneLeftRunning` (a race over for the program goes on in an
identified box, once the queue has left, only when the last `s` was refused by a
full queue or lost by its write), `DiskIsOurs` (a demonstration never reaches the disk).
Files: `LastSaveIsKept`.

The types of ring, driver and node are no properties of runs: they are proved
for all constants (section 5).

**Bounds.** Three lanes: two may race with an idle one between them, three make
a pursuit with an elimination that does not end it. A tick of length 2 and a
distance of 7 make the floor matter, a penalty of 2 costs one tick, a unit of
time allows two ticks (and one of tolerance), so plausible and implausible
jumps both occur; the limit of 3 with times up to 3 lets a race end by arrival
and by cap. Longer races repeat these frames. The ring of 4 slots goes through
empty, partly full, full and wrapped, with each index seen late by up to its
whole way round. Deadlock is not checked for the ring: it stops when its
`MaxFrames` frames have been offered. The delays of the driver are 1 and 2 units,
in the order of the real ones where two race (an outage is reported after its
port is given up); two handshakes make the retry and the failure, a backoff
after one failure makes both cadences, two ports make a blacklist that fills
and is emptied. Ages saturate one past the last comparison, so the search is
complete for these delays. `MaxPending` bounds the commands on their way; one
is enough for a queue of one to be pumped. `MaxBlacklist` is 2: the clearing at
its limit, 16 in the code, needs more ports than these. `link_outages` has one
cadence of scan (backoff from the start), `link_found` both; a grace as long as
the watchdog is enough to tell a grace that was restarted from one that was not.

`serial_path`: a port is opened anywhere in a line, a line of 8 bytes is overrun
by the noise that joins two lines, 14 bytes wait at most (`MaxWaiting`): two
lines, or one behind the cut one, one noise per opening (`MaxNoise`); a second
noise only costs a second line. Digits 0, 1, 2, 5 of the models are those the
limits are written with. `emulator`: a clock of 3 ms (`MaxClock`) is past the
length tried; 3 commands (`MaxSent`) make a race, a stop and a race again, or a
mode, a length and a race. Rider 0 leaves too early and rider 1 does not, so
that a lane with a false start and one that must have none are both on a wheel;
a millisecond has 2 passes, a turn 2, a pulse 1, and three ticks make a false
start: with two, an innocent rider whose race has just been stopped is charged.
`race_night`: a queue of 3 commands (`MaxCommands`, 64 in the code) holds a test's
`s` and the two of a restart, and is full at the next start or stop, which is then
refused in whole or in part; 2 frames (`MaxFrames`) are an old one and a new one.
`user_files`: an edit saved and one that is not (`MaxEdits`).

**Fairness.** `FairSpec` of the engine: `_process` of the controller calls
`tick` on every image (`app_controller.gd:237-239`), and a running box sends
`R:` frames whose clock advances (`firmware_sim.cpp:180-190`). Nothing is asked
of the riders or the operator. A box that falls silent while RUNNING is a lost
link: the grace period that ends it is in the controller and the driver. Of the
driver: `thread_main` ticks for as long as it runs and time passes, and in
`BoxIsFound` the box reads what it is sent (`AnsweringSpec`) within a unit of
time (`PromptBox`); ports, operator and races do as they like. Of the
ring: the node drains on every image, and an atomic store becomes visible in
finite time; nothing is asked of the serial thread. `GraceSpec`: the thread
ticks, images are drawn, time passes. `SerialPath`: the driver looks the open
device up at intervals (`link_driver.cpp:332-337`), and a Windows read of a
device that left fails. `SerialNode`: the thread runs, `join` returns when it is
over, the frames of an image are popped, the device reads its terminal or
leaves, and images come again between calls of `stop` and `start` (strong, as
such a call may disable one for a moment). `Emulator`: `main` never waits, so
its next step always comes. `RaceNight` and `UserFiles` need none.

## 4. Findings

- **`engine_clock`.** `docs/01` §6.3 counts a receding clock among what the
  filter catches. The filter refuses the ticks of such a frame, but
  `on_progress` passes its time to `apply_sample` all the same, and the race
  clock goes back (`core/race_state.gd:99`).
- **`engine_ranks`.** `_finish` says live ranks only serve the display and are
  reconciled there. They are also written to the day's CSV with RIDER_FINISH
  (`core/recorder.gd:180`), whose rows `docs/02` wants readable one by one; in a
  time race they are the lane order.
- **`link_watchdog`.** The watchdog is to wait for a first `R:` after START.
  The driver dates START by an edge of `race_active_` between two of its ticks
  (`link_driver.cpp:360-366`). `restart_race` clears and sets the flag in one
  call: when no tick falls in between, the `R:` of the race before arm the
  watchdog, and half a second into the countdown the link is declared lost with
  the box in place.

Met while modelling and read in traces of the module named, when the sentence
quoted was stated as a property; not kept as runs:

- `GracePeriod`: any state but LINK_LOST lifts the grace
  (`app_controller.gd:629`), and a search that opens a port and gives it up
  leaves LINK_LOST (`link_driver.cpp:263`, `403`): the race is then never
  cancelled, where `docs/01:370-372` says "Au-delà : course annulée".
- `RaceNight`: the switch of the link is enabled between two races of the
  demonstration (`panel_hardware.gd:325`), and the next starts on the real box;
  `attract_mode.gd:113` says "LE SIMULATEUR, TOUJOURS".
- `RaceNight`: a sensor test goes on after a change to the simulator, as the link
  taken away says nothing more (`link.gd:58-61`); `app_controller.gd:613` says "UN
  TEST CAPTEURS NE SURVIT PAS AU LIEN".
- `RaceNight`: the `g` of a test begun on a link not identified waits in the
  queue (`link_driver.cpp:169-175`, `409`), outlives the test and starts the box;
  `docs/DEPANNAGE.md:413` says that race no longer exists.
- `RaceNight`: an `s` refused by a full queue (`link_driver.cpp:171-174`), or whose
  write fails or, on Windows, times out (`274`), leaves the box racing with the link
  identified and the engine idle: only a notice is given (`app_controller.gd:606-607`,
  none in the second case) and no `s` is sent again before the next handshake or
  race. A queue fills when, say, the thread is held in `write` while the operator
  starts and stops. `serial_link.cpp:104-106` calls a refused command "une erreur de programmation", never an incident of the
  hardware. `NoneLeftRunning` names this condition, in `unheard`.
- `RaceNight`: the `CD:0` of a countdown just stopped starts the race armed after
  it (`race_engine.gd:147-154`); `docs/01:95` calls `CD:0` the start.
- `SerialPath`: `list_ports` ranks with the open port for the chosen one
  (`serial_link.cpp:123-125`), so that its reason reads "chosen by the operator"
  for whatever port is open; `port_selection.h:32` says what it should mean.
- `UserFiles`: a rename refused for a reason of its own makes `write` remove the
  good file (`json_store.gd:50-58`), where `tests/unit/test_settings.gd:551` says
  "un echec ne detruit rien"; and a file cut short by a full disk replaces it
  while `write` returns true (`json_store.gd:28-29`). `LastSaveIsKept` holds
  outside these two, which it names.

Seen while reading, not modelled: the recovered-link fault is lost when the race
ends during the cut (`main.cpp:313`, against `docs/07:170`); a partial write on
Windows is taken for whole (`serial_port_win.cpp:139-143`); `stop` may leave a
port open and IDENTIFIED when no tick follows it (`serial_link.cpp:86-89`); the
relaxed bytes of a published string may be read torn (`link_driver.h:82-108`);
`begin_race` empties the recorder before `arm` may refuse
(`app_controller.gd:378`); the guard of the demonstration cannot move a stuck
race on (`attract_mode.gd:152`).

## 5. Proofs

Proved with TLAPS for all values of the constants allowed by the named
assumptions of each module: `EngineConstants` (any lanes, configurations, bounds
of ticks and time), `RingConstants` (any ring of at least two slots),
`LinkConstants` and `GraceConstants` (any ports, reasons, delays and limits),
`NodeConstants` (any sizes of queues and terminal), `PortListConstants` and
`SerialPathConstants` (any devices, paths, climbs, lines and size of a read),
`NightConstants` (a queue of any size),
`FilesConstants` (any number of edits), `FirmwareConstants` and
`EmulatorConstants` (any widths, lanes, scenario and speeds). What a theorem
asks beyond these is in its statement and below.

| theorem | statement |
|---|---|
| `TypeCorrect`, `BoxObeys`, `Invariant` | the engine: its types, `[]BoxFollowsEngine`, `[]IInv` |
| `NeverEmpty`, `ResultsAreRanked`, `ClassifiedIsFrozen` | `[]NeverRunningWithoutRacer`, `[]RankingIsComplete`, `FrozenOnceClassified` |
| `AnnouncementInvariant` | `[]AnnouncementInv` |
| `EliminationsAreFinal`, `LeadersLead`, `PenaltiesArePaid` | `[]EliminationRankIsFinal`, `[]LeaderTopsTheUnfinished`, `[]PenaltyIsPaid` |
| `PhotoFinishOnly` | under `LongRaces` and a clock that does not recede, `[]OnlyPhotoFinishReorders` |
| `PlacesAreABijection` | places under a strict total order of a finite set are 1 to its size |
| `RingTypeCorrect`, `RingInvariant`, `ThreadsApart`, `RingIsAQueue` | the ring: types, invariant, no shared slot, `Spec => ImplementsQueue` |
| `LinkInvariant`, `StartAuthorised`, `OutageKeepsItsDate` | the driver: `[]LinkInv`, `[]StartIsAuthorised`, `OneOutage` |
| `LinkTypeCorrect`, `BestIsFirst` | its types; `choose_best` finds the first of any candidates |
| `GraceIsLink`, `GraceKeepsLink`, `VerdictIsNotHasty` | `GraceSpec => Spec` of the driver, and so what holds of it; `GraceSpec => NoHastyVerdict` |
| `PortsAgree` | `[]PortAgrees` |
| `TriedFirst` | under `BoxesAreKnown`, `[]BoxIsTriedFirst` |
| `NoMeasureForged`, `OneLineAtMost` | under `LinesArePrinted` and `NoiseIsNoMeasure`, `[]NothingForged`, `[]NoiseCostsOneLine` |
| `WatchIsLink`, `WatchKeepsLink` | `WatchSpec => Spec` of the driver, and so what holds of it |
| `NodeInvariant`, `NodeTypeCorrect`, `NoThreadLeft` | the node: `[]NodeInv`, its types, `[]ThreadIsOver` |
| `NightInvariant`, `RaceIsWatched`, `TestsAreAlone`, `OursAreKept`, `NothingRunsOn`, `DiskStaysOurs` | the evening: its invariant and its five properties |
| `LastCommandCounts` | a box that reads a queue of any length is what the last command makes of it |
| `FilesInvariant`, `SavesAreKept` | the files: `[]FilesInv`, `LastSaveIsKept` |
| `FalseStartsAreEarned` | under `SlowWheels`, `[]FalseStartIsEarned` |
| `TicksFollow` | under `SteadyWheels`, `[]TicksFollowTurns` |
| `PortStaysWhole`, `PipelineStaysInOrder` | `[]PortIsWhole`, `[]PipelineInOrder` |
| `RaceStaysTheOneAsked` | under `SmallNumbers`, `RaceIsTheOneAsked` |

**Argument for the engine.** `NeverRunningWithoutRacer` and `RankingIsComplete`
are not inductive: that a pursuit still has two racers after a frame depends on
who may be out, and that its ranking is a total order depends on how exits are
numbered. `IInv` adds what is missing. `ExitsNumbered`: the eliminated lanes
carry distinct exits, from 1 to their number. `OnlyPursuitEliminates`: in the
other modes nobody is out, and in a pursuit nobody has arrived before it is
over. `IdleUnranked`: idle lanes have no rank. `Contested`: while a race is on,
enough lanes are still racing. `Ranked`: a result carries a complete ranking.
The step follows the code: a sample changes no classification; a verdict that
does not end the race leaves it contested; one that does, and an abort, rank by
an order that `AheadIsOrder` shows strict and total, and `PlacesAreABijection`
turns into places 1 to n.

`AnnouncementInv` goes on from there. A rank announced at an elimination is
final because the rank and the exit it will be sorted by are one number seen
from both ends: it is the number of active lanes less the exits before it, and
later exits and arrivals only fill the places left between. The penalty is paid
because a lane arrives by its own count or by a finish frame that completes it
by no more than the tolerance, and both look at `TargetFor` of that lane. The
leader is the first of the unfinished because both sorts compare the same
figures, and a frame moves neither without the other.

`PhotoFinishOnly` adds `OrderInv`. In a distance race the arrivals told so far have
the first places and their dates grow with the places (`Dated`): a new arrival
gets a place after all of them and the date of now, which is no earlier because
the clock does not go back. Date 0 is the mark of a lane that has not arrived, so
nobody may arrive at time 0: a frame of time 0 carries one tick at most
(`Clocks`, `Early`), and `LongRaces` says that a distance is more than the
tolerance and that tick, and a duration more than nothing; `validate` wants 50 m
and 10 s (`race_config.gd:64`, `72`). In a timed race all arrive at once; a pursuit
tells the places of those who go out, which are final, and that of the winner.
With a clock that recedes (finding `engine_clock`) dates are in no order, and the
theorem does not hold. This proof found that the model let no frame of time 0 in
where a lane was idle: `FrameAt` now binds the racing lanes only.

**Argument for the ring.** Going round the ring from `seenTail` one meets
`tail`, `seenHead`, `head`, in this order, and the way round is shorter than
the ring (`InOrder`). A writer has seen room, a reader has seen a frame, so
they are apart. The refinement then takes one lemma per kind of step: `Publish`
accepts, the failing `Offer` refuses, `Free` takes, `SeeTail` notices, the rest
leave the queue as it is.

**Argument for the driver.** `StartIsAuthorised` is not inductive: an `R:` brings a
lost link back without a new `V:`. `LinkInv` adds `LostPortAnswered` (a port kept
open in LINK_LOST has answered), `GreetsAPort` and that ages are numbers. A search
either leaves the port closed and the state alone or opens a port and greets
(`ScanKeeps`); `enter` touches the date of an outage only when there is none
(`EnterKeeps`). The step then goes branch by branch. For the types, `Best` needs a
first candidate: `BestIsFirst`, as its order is strict and total on a finite set.

**Argument for the node.** `ThreadIsOver` needs that a main thread that is in
`join` has told the thread to stop, and that a thread exists only when it was
not told to or is being waited for: `NodeInv`, kept because `Start` makes a
thread only where `stopping` says there is none.

**Argument for the grace.** Every step of `GracePeriod` is a step of `LinkDriver` or
leaves it alone, so that the theorems of the driver hold under the controller
without a new proof; so is every step of `RaceWatch`, the cut of a countdown
included. `NoHastyVerdict` is about steps: the controller ends a race
when `lostFor` is past the grace, and `GraceInv` says that `lostFor` never runs ahead of
`back`, the time since an image was last told of an identified link.

**Argument for the ports.** `PortAgrees` is inductive with `Wired`, the types of
what is plugged and open and that no two devices plugged in have one path. For
`BoxIsTriedFirst`, the order of candidates is then strict and total, so that the
k-th of the sorted list is the one with k - 1 before it (`PlacesAreABijection`);
`BoxesAreKnown` says that a box is listed and carries a known identifier within
the climb (Linux, macOS) or in the text (Windows), and the climb and the reading
of the text are shown to find it.

**Argument for the line.** The parser and the account of what has been read are
two folds, of bytes into lines and of lines into measures. Each is given its
value by a run, which `FoldExists` builds and which can be cut anywhere, since a
read may stop anywhere. The invariant `Heard` looks ahead: at what the assembler
will have made of all the bytes that wait, and at the account once those frames
too are settled. In that account no measure comes that is not owed, and the
lines missing, with the one that noise may have begun, are no more than the
noises. A read then leaves both as they are; a printed line adds its frame at
both ends; a noise adds what it may cost; an opening and a closing empty all of
it, but for what is left of a line when the port is opened in the middle of it
(`LeftOf`, any end of any line). Two things are supposed. `LinesArePrinted`: a
box prints lines that fit, that end as `println` ends them and that parse to
what is meant, while no proper end of one is a measure (the `R:` of an `ERROR:`
has no numbers behind it in the firmware). `NoiseIsNoMeasure`: a noise is a line
or the beginning of one, and what such beginnings add up to (`begun`), with an
end or a printed line behind, is too long or no measure. The protocol has no
checksum, so that without the second a spoilt digit is another measure. TLC
evaluates both, and `BoxesAreKnown`, on the constants of the run (`MCSupposed`),
with a noise that cuts a line in its number, which a printed line then
overflows, one with a byte that is no digit and one that is not text.

**Argument for the evening.** Four of the five properties are about what the main
thread keeps between its own variables (`Control`): the driver watches as long as
a race is on, a show has put the operator's link aside, a race in progress is the
show's exactly while the show is on. `NoneLeftRunning` follows the stop of a race
to the box (`Stopping`). With no race in progress there are three cases
(`StopIsKnown`): an `s` waits in the queue with nothing but tests of the sensors
behind it (`StopsIn`); or nothing but tests waits, and a box whose port is open runs
nothing but a test; or `unheard` says that the last `s` was refused or lost, and
nothing is claimed. A command sent keeps them apart by whether it fits
(`StopIsQueued`, `TestIsQueued`). The queue leaves whole but any of its writes may
be lost: when that of the last `s` is not, the last command the box hears is that `s` or a
test behind it (`AllHeard`). What a box makes of the commands it hears is a
fold; `LastCommandCounts` gives the value of that fold for any queue. The
induction theorems of the library cannot be used here, so the proof looks at the
least prefix at which the box would differ (`LeastNumber`, `StepByStep` of `Orders`)
and finds none.

**Argument for the files.** A rename replaces a file by the temporary one, so that
what counts is what is known of the temporary one at each call: whole from
`store_string` on, unless the system has cut it short and is known to have. What
is removed is spoilt already, because a file is only removed after a rename the
system refused. `LastSaveIsKept` is part of the invariant.

**Argument for the emulator.** A box has twenty fields and its functions follow one
another in a pass; each is first said as a relation of the box before and after
(`Same`, `Recounts`, `CountedDown`, `Raced`, `Ticked`), and a pass is reasoned about
by `Ticked` and the wheels alone. The commands a box reads in a pass are a fold too,
whose value is found step by step as above (`Stricken`, `ForEach`).

- `FalseStartIsEarned`. A stop leaves wheels turning and pulses in the filters of
  the sensors; the next countdown counts them. `Innocence` bounds what they come to:
  the ticks counted, a pulse under way and a turn about to end are two at most for
  a rider who has not left early. That takes `SlowWheels`: no wheel ends two turns
  in a millisecond, after which the riders know the race is stopped, and three
  ticks make a false start (four in the code).
- `TicksFollowTurns`. A turn is counted when its pulse ends. `InRace` keeps the two
  inequalities with the pulse under way; `AtStart` says that at most one pulse
  crosses the start, `Wearing` that a pulse of the race before is over before the
  countdown is. `SteadyWheels`: a pulse ends before the next turn does, even with
  a millisecond between them, and lasts less than a step of the countdown; and
  nobody sends `m`, whose ticks are no turns (the application never does). In the
  code a pass is a tenth of a ms, a pulse 20 passes, a turn of the default roller
  more than 200 at the speed of any profile, a step of the countdown a second. A
  rebound may also hide a tick, when it joins two pulses: a first form of the
  property, where it could only add one, was false.
- `PortIsWhole` is inductive with what the record of a terminal is made of: each way
  of opening it either completes or closes what it has opened.
- `PipelineInOrder` is about the terminal, the latency, the freeze and the buffer of
  the box laid end to end. `PipelineInv` adds why the next sample fits (`Timely`):
  all those of the race under way, after the last frame of a countdown, are no later
  than the last update, which is due again only when the clock has moved on. Each
  stage is then one of three things: the box adds behind (`Tells`, `GoesOnFrom`), a
  queue passes on what it holds (`Then`), the line and the faults take from the
  front and add what is no sample (`LeftOf`).
- `RaceIsTheOneAsked`. `Follows` says what the bytes still to come are to the box:
  the end of a command or one without an argument (`Brief`), one with its argument
  (`WithArgument`), or the digits left of an argument whose first are in the buffer
  (`InArgument`); the number is always that of the digits received and to come
  together, which the check has put in range, so that no digit is looked at. A
  command lost with a terminal is never half lost, because main reads before it
  closes. `SmallNumbers`: the emulator's buffer (64) holds the firmware's (8), the
  default duration (60 s) overflows like those sent, and no race lasts 49 days, when
  the clock of the box would reach the huge limit a negative product becomes.

**Only model-checked.** Every invariant and every property of steps of the
passing runs is stated by a theorem. What is left to TLC is liveness and what
asks for ENABLED, outside the prover's reach: `EveryRaceEnds`,
`AcceptedIsHandled`, `OutageIsReported`, `PlainCutEnds`, `BoxIsFound`,
`FreezeEnds`, `GoneIsTold`, `StopReturns`, `StateIsShown`, `CommandsLeave`.
Outside it too is what `Parse` computes of each line, an induction over its
characters: the proofs of the line take its result as a value, which
`LinesArePrinted` and `NoiseIsNoMeasure` speak of. No module uses a RECURSIVE
operator.

## 6. Plan

1. `RaceOverWire`: `RaceEngine` and `Firmware` through queues that delay and
   lose: `F:` after the last `R:`, a penalty shorter than the tolerance, the jump
   of a first frame, the box that dies in the countdown. Both are too fine for
   one state space at the bounds that matter; an abstract referee (who races,
   who is placed, who won), which `RaceEngine` implements, would make room.
2. `Replay`: a race recorded, then the same rules on the trace.
3. `PublishedString`, the sequence counter and its relaxed bytes.

## 7. Not modelled

Rendering, sound, panels and texts: they read the engine and decide nothing.
The trace, the CSV, the history and the replay (`RaceNight` keeps only whether a
race is kept); the fields of settings and roster and their corrections; the
speed curves of the riders, options, profiles, `--stdio`, trace and status line
of the emulator; labels and error texts of the ports; scenarios and camera of
the demonstration; the warnings on silent lanes; vendored code. Of `RaceNight` in
particular: a program built without the native module, which never leaves the
simulator (`app_controller.gd:264-276`); a write cut short, of which the box would
hear a part; the thread taking a command from a full queue while a handler is
still sending, which lets a later command of that handler in after a refused one.
`PROJECT.json`
says of each component what of it is in a model.
