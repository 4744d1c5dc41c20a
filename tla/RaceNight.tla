----------------------------- MODULE RaceNight ------------------------------
(***************************************************************************)
(* An evening with the application: scenes/app_controller.gd, which brings *)
(* the engine, the link and the recorder together, the demonstration of    *)
(* attract_mode.gd that borrows all three, and the two links it may have,  *)
(* hardware/link.gd: the simulated box and the real one behind the driver. *)
(*                                                                         *)
(* The engine is its states, the driver its verdicts on the port, the box  *)
(* its two ways of running; RaceEngine, LinkDriver and Firmware have their *)
(* details.  Nothing is timed: a delay may run out at any moment of the    *)
(* state it is watched in.  A handler of the main thread is a step, in     *)
(* which the thread of the driver takes nothing from the queue.  Of the    *)
(* commands only those that start and stop the box are followed: a queue   *)
(* that is full refuses them, and a write of theirs may be lost.           *)
(***************************************************************************)
EXTENDS Naturals, SequencesExt

CONSTANTS
    MaxCommands,  \* kCommandQueue: commands the queue of the driver can hold
    MaxFrames,    \* bound: frames on their way from the box
    SensorTests   \* whether the operator tests the sensors

ASSUME NightConstants ==
    /\ {MaxCommands, MaxFrames} \subseteq Nat
    /\ SensorTests \in BOOLEAN

VARIABLES
    engine,    \* RaceEngine._state
    demo,      \* demo_mode, and _running of AttractMode
    test,      \* _sensor_test_active
    lost,      \* _link_lost_since_ms >= 0
    backend,   \* _backend and settings.use_simulator
    settings,  \* whose mode, distance, lanes and names: "ours" or "show"
    saved,     \* _saved["simulated"], or "none"
    disk,      \* settings.json and roster.json
    link,      \* get_link_state of the link in place
    told,      \* last_state_ of the node
    active,    \* race_active_ of the driver
    port,      \* whether the driver holds the port of the box
    commands,  \* commands_ of the driver
    frames,    \* kinds of the frames the main thread has not read
    sim,       \* the simulated box
    box,       \* the real one
    owner,     \* history: who has started the last race
    fate,      \* history: what has become of it
    chosen,    \* history: the link the operator has chosen
    unheard    \* history: the last `s` for the real box was refused, or its write lost

engineVars == <<engine, owner, fate>>
showVars == <<demo, settings, saved>>
linkVars == <<backend, link, told, active, port, commands, unheard, frames>>
vars == <<engineVars, showVars, linkVars, test, lost, disk, sim, box, chosen>>

Backends == {"sim", "serial"}
InProgress == engine \in {"ARMING", "COUNTDOWN", "RUNNING"}

-----------------------------------------------------------------------------
(* The boxes.  A run of a box is known by the `g` that started it: that of   *)
(* the "race" of the engine, of the sensor "test", or of an "old" race.      *)

Resting == [phase |-> "rest", of |-> "old"]
Off == [phase |-> "off", of |-> "old"]
Runs(b) == b.phase \in {"counting", "racing"}

\* `s`, and the `g` of a race or a test, as Firmware and link_sim.gd obey them.
Obeys(b, c) ==
    IF b.phase = "off" THEN b
    ELSE IF c = "s" THEN Resting ELSE [phase |-> "counting", of |-> c]

\* A box that reads what waits for it, command after command.
ObeysAll(b, cs) == FoldLeft(Obeys, b, cs)

\* A race that starts makes those before it old.
Aged(c) == IF c = "s" THEN c ELSE "old"
AgedRun(b) == [b EXCEPT !.of = "old"]

\* What a box that runs may send, and what it then is.  CD0 stands for CD:0.
Sends(b, kind, after) ==
    \/ b.phase = "counting" /\ kind \in {"CD", "FS"} /\ after = b
    \/ b.phase = "counting" /\ kind = "CD0" /\ after = [b EXCEPT !.phase = "racing"]
    \/ b.phase = "racing" /\ kind = "R" /\ after = b

Kinds == {"CD", "CD0", "FS", "R"}

\* queue_command, for each command of cs: a queue that is full refuses it.
Fitting(q, cs) ==
    IF Len(q) + Len(cs) <= MaxCommands THEN cs ELSE SubSeq(cs, 1, MaxCommands - Len(q))

\* send_command: the driver queues what fits behind q, the simulator b obeys at once.
Queued(q, cs) == IF backend = "serial" THEN q \o Fitting(q, cs) ELSE q
Obeyed(b, cs) == IF backend = "sim" THEN ObeysAll(b, cs) ELSE b

\* Whether the last `s` is refused, once cs have been sent.
Unheard(q, cs) ==
    LET stops == {i \in DOMAIN cs : cs[i] = "s"}
    IN  IF backend = "sim" \/ stops = {} THEN unheard
        ELSE \E i \in stops : Len(q) + i > MaxCommands

\* The handler goes on after a refusal: _on_command_requested has a notice for it.
Tell(q, b, cs) ==
    /\ commands' = Queued(q, cs)
    /\ unheard' = Unheard(q, cs)
    /\ sim' = Obeyed(b, cs)

\* The commands that are written of the n that leave the queue, by their places:
\* nobody reads the result of write, which a device may refuse or let time out.
Written(n) ==
    UNION {{w \in [1 .. k -> 1 .. n] : \A i, j \in 1 .. k : i < j => w[i] < w[j]} :
             k \in 0 .. n}

\* What the box makes of them, and whether the last `s` is not among them.
Heard(b, cs, w) == ObeysAll(b, [i \in DOMAIN w |-> cs[w[i]]])
LosesStop(cs, w) ==
    \E i \in DOMAIN cs \ Range(w) :
        cs[i] = "s" /\ \A j \in DOMAIN cs : j > i => cs[j] # "s"

-----------------------------------------------------------------------------
(* The end of a race. *)

\* A race that has run is kept, unless the recorder is muted.
Outcome(ran) == IF ~ran THEN "none" ELSE IF demo THEN "dropped" ELSE "kept"

\* Mutant: the race that ends leaves the box running.
EndsUntold(to, ran, b) ==
    /\ engine' = to
    /\ fate' = Outcome(ran)
    /\ active' = FALSE
    /\ UNCHANGED <<commands, unheard>>
    /\ sim' = b

\* Mutant: the watch over the link outlives the race.
EndsWatched(to, ran, b) ==
    /\ engine' = to
    /\ fate' = Outcome(ran)
    /\ UNCHANGED active
    /\ Tell(commands, b, <<"s">>)

\* _finish, abort and _fail_arming with the handlers of the controller: the box
\* is told and the watch over the link is lifted.
Ends(to, ran, b) ==
    /\ engine' = to
    /\ fate' = Outcome(ran)
    /\ active' = FALSE
    /\ Tell(commands, b, <<"s">>)

\* abort, from any state it does not ignore.
Aborts(b) == InProgress /\ Ends("IDLE", engine = "RUNNING", b)

\* Mutant: a race of the demonstration saves the settings it has borrowed.
SavesAlways == disk' = [of |-> settings, backend |-> backend]

\* save_preferences.
Saves == disk' = IF demo THEN disk ELSE [of |-> settings, backend |-> backend]

-----------------------------------------------------------------------------
(* The frames of the box, _on_frame; b is the simulator that has sent one.   *)

Becomes(state, b) ==
    /\ engine' = state
    /\ sim' = b
    /\ UNCHANGED <<owner, fate, active, commands, unheard, disk>>

Counts(kind, b) ==
    /\ kind \in {"CD", "CD0"}
    /\ engine \in {"ARMING", "COUNTDOWN"}
    /\ Becomes(IF kind = "CD" THEN "COUNTDOWN" ELSE "RUNNING", b)

\* A false start is warned of, punished, or ends the race.
FalseStart(kind, b) ==
    /\ kind = "FS"
    /\ engine \in {"ARMING", "COUNTDOWN"}
    /\ Aborts(b)
    /\ UNCHANGED <<owner, disk>>

\* The R: of a sensor test go to the panel.
Progresses(kind, b) ==
    /\ kind = "R"
    /\ ~test
    /\ engine \in {"COUNTDOWN", "RUNNING"}
    /\ \/ Becomes("RUNNING", b)
       \/ Ends("RESULTS", TRUE, b) /\ Saves /\ UNCHANGED owner

Ignored(kind) ==
    \/ kind \in {"CD", "CD0"} /\ engine \notin {"ARMING", "COUNTDOWN"}
    \/ kind = "FS"
    \/ kind = "R" /\ (test \/ engine \notin {"COUNTDOWN", "RUNNING"})

OnFrame(kind, b) ==
    \/ Counts(kind, b) \/ FalseStart(kind, b) \/ Progresses(kind, b)
    \/ Ignored(kind) /\ Becomes(engine, b)

-----------------------------------------------------------------------------
(* The operator's races. *)

\* Mutant: a race starts over the sensor test.
StartsOver(by, first) ==
    /\ engine' = "ARMING"
    /\ owner' = by
    /\ fate' = "none"
    /\ active' = (backend = "serial")
    /\ UNCHANGED frames
    /\ box' = AgedRun(box)
    /\ test' = test
    /\ Tell([i \in DOMAIN commands |-> Aged(commands[i])], AgedRun(sim), first \o <<"race">>)

\* start_race, past its refusals, after the commands of first: a sensor test ends.
Starts(by, first) ==
    /\ engine' = "ARMING"
    /\ owner' = by
    /\ fate' = "none"
    /\ active' = (backend = "serial")
    /\ UNCHANGED frames
    /\ box' = AgedRun(box)
    /\ test' = FALSE
    /\ Tell([i \in DOMAIN commands |-> Aged(commands[i])], AgedRun(sim),
            first \o (IF test THEN <<"s">> ELSE <<>>) \o <<"race">>)

\* Mutant: the operator may start a race between two of the demonstration.
MayStartAnyway(fromDemo) == link = "Identified" /\ ~InProgress

\* start_blocked_reason.
MayStart(fromDemo) == (demo => fromDemo) /\ link = "Identified" /\ ~InProgress

StartRace ==
    /\ MayStart(FALSE)
    /\ Starts("operator", <<>>)
    /\ UNCHANGED <<showVars, backend, link, told, port, lost, disk, chosen>>

StopRace ==
    /\ Aborts(sim)
    /\ UNCHANGED <<owner, showVars, backend, link, told, port, frames, test, lost, disk,
                   box, chosen>>

\* restart_race: the race that is stopped is kept like any other.  When its start
\* is refused only StopRace is left of it.
RestartRace ==
    /\ InProgress
    /\ ~demo
    /\ link = "Identified"
    /\ Starts("operator", <<"s">>)
    /\ UNCHANGED <<showVars, backend, link, told, port, lost, disk, chosen>>

\* tick, two seconds after an armament the box has not answered.
ArmingTimeout ==
    /\ engine = "ARMING"
    /\ StopRace

\* _process, when the delay of a lost link runs out.
GraceRunsOut ==
    /\ lost
    /\ lost' = FALSE
    /\ IF engine \in {"COUNTDOWN", "RUNNING"} THEN Aborts(sim)
       ELSE UNCHANGED <<engine, fate, active, commands, unheard, sim>>
    /\ UNCHANGED <<owner, showVars, backend, link, told, port, frames, test, disk, box,
                   chosen>>

-----------------------------------------------------------------------------
(* The sensor test: a race of the box that the engine does not referee. *)

\* A `g` that is refused gives the test up.
BeginTest ==
    /\ SensorTests
    /\ ~InProgress
    /\ ~demo
    /\ ~test
    /\ test' = (backend = "sim" \/ Len(commands) < MaxCommands)
    /\ Tell(commands, sim, <<"test">>)
    /\ UNCHANGED <<engineVars, showVars, backend, link, told, active, port, frames, lost,
                   disk, box, chosen>>

EndTest ==
    /\ test
    /\ test' = FALSE
    /\ Tell(commands, sim, <<"s">>)
    /\ UNCHANGED <<engineVars, showVars, backend, link, told, active, port, frames, lost,
                   disk, box, chosen>>

-----------------------------------------------------------------------------
(* The link is replaced, or started again. *)

\* on_link_state.
OnLinkState(state, tested) ==
    /\ test' = (tested /\ state \notin {"LinkLost", "Disconnected"})
    /\ lost' = (state = "LinkLost")

\* A simulator starts with its port open, also when it is started again.
OpensSimulator(b) ==
    /\ OnLinkState("PortOpen", test)
    /\ link' = "PortOpen"
    /\ sim' = IF backend = "sim" THEN b ELSE Resting
    /\ UNCHANGED told

\* A simulator that is replaced says so.  A driver in place goes on.
OpensDriver(b) ==
    IF backend = "sim"
    THEN /\ OnLinkState("Disconnected", test)
         /\ link' = "Disconnected"
         /\ told' = "Disconnected"
         /\ sim' = Off
    ELSE sim' = b /\ UNCHANGED <<test, lost, link, told>>

\* apply_backend, past its refusal, with b, q and u what is left of the link in place.
Applies(to, b, q, u) ==
    /\ backend' = to
    /\ IF to = "sim" THEN OpensSimulator(b) ELSE OpensDriver(b)
    /\ IF backend = to THEN commands' = q /\ unheard' = u /\ UNCHANGED <<port, frames>>
       ELSE commands' = <<>> /\ unheard' = FALSE /\ port' = FALSE /\ frames' = <<>>

\* The switch of the panel, disabled while a race is on.
Toggle(to) ==
    /\ ~InProgress
    /\ to # backend
    /\ Applies(to, sim, commands, unheard)
    /\ chosen' = IF demo THEN chosen ELSE to
    /\ UNCHANGED <<engineVars, showVars, active, disk, box>>

-----------------------------------------------------------------------------
(* The demonstration, attract_mode.gd. *)

\* start.  The simulator it starts is not identified yet: its first race waits.
StartShow ==
    /\ ~demo
    /\ ~InProgress
    /\ demo' = TRUE
    /\ settings' = "show"
    /\ saved' = backend
    /\ Applies("sim", sim, commands, unheard)
    /\ UNCHANGED <<engineVars, active, disk, box, chosen>>

\* _next_race, after the pause, a refusal, or the delay of a race that is stuck,
\* which start_race refuses to replace.
NextRace ==
    /\ demo
    /\ settings' = "show"
    /\ IF MayStart(TRUE) THEN Starts("show", <<>>)
       ELSE UNCHANGED <<engineVars, active, commands, unheard, frames, test, sim, box>>
    /\ UNCHANGED <<demo, saved, backend, link, told, port, lost, disk, chosen>>

\* _restore, of the values.
Restores == settings' = "ours"

\* stop: the race of the demonstration ends with it, and the link is given back.
StopShow ==
    /\ demo
    /\ demo' = FALSE
    /\ Restores
    /\ IF InProgress THEN engine' = "IDLE" /\ fate' = Outcome(engine = "RUNNING")
       ELSE UNCHANGED <<engine, fate>>
    /\ active' = FALSE
    /\ LET last == IF InProgress THEN <<"s">> ELSE <<>>
       IN  Applies(saved, Obeyed(sim, last), Queued(commands, last),
                   Unheard(commands, last))
    /\ saved' = "none"
    /\ UNCHANGED <<owner, disk, box, chosen>>

-----------------------------------------------------------------------------
(* The program ends, and is launched again. *)

\* A new program: what it knows is on the disk.
Launched ==
    /\ engine' = "IDLE"
    /\ fate' = "none"
    /\ demo' = FALSE
    /\ settings' = disk'.of
    /\ backend' = disk'.backend
    /\ chosen' = disk'.backend
    /\ link' = IF backend' = "sim" THEN "PortOpen" ELSE "Disconnected"
    /\ sim' = IF backend' = "sim" THEN Resting ELSE Off
    /\ told' = "Disconnected"
    /\ commands' = <<>>
    /\ unheard' = FALSE
    /\ frames' = <<>>
    /\ active' = FALSE
    /\ port' = FALSE
    /\ test' = FALSE
    /\ lost' = FALSE
    /\ saved' = "none"
    /\ UNCHANGED owner

Crash == UNCHANGED <<disk, box>> /\ Launched

\* The close of the window: the show has been stopped, shutdown sends `s` and saves.
\* The thread may write what waits, or a part of it, before the program is gone.
Close ==
    /\ ~demo
    /\ Saves
    /\ \/ UNCHANGED box
       \/ /\ port
          /\ link = "Identified"
          /\ LET cs == Queued(commands, IF test \/ InProgress THEN <<"s">> ELSE <<>>)
             IN  \E w \in Written(Len(cs)) : box' = Heard(box, cs, w)
    /\ Launched

-----------------------------------------------------------------------------
(* The simulator, in the main thread. *)

SimConnects ==
    /\ backend = "sim"
    /\ link = "PortOpen"
    /\ link' = "Identified"
    /\ OnLinkState("Identified", test)
    /\ UNCHANGED <<engineVars, showVars, backend, told, active, port, commands, unheard,
                   frames, disk, sim, box, chosen>>

SimSends ==
    /\ backend = "sim"
    /\ \E kind \in Kinds, after \in {sim, [sim EXCEPT !.phase = "racing"]} :
          Sends(sim, kind, after) /\ OnFrame(kind, after)
    /\ UNCHANGED <<showVars, backend, link, told, port, frames, test, lost, box, chosen>>

-----------------------------------------------------------------------------
(* The node of the serial link, in the main thread. *)

Poll ==
    /\ backend = "serial"
    /\ told # link
    /\ told' = link
    /\ OnLinkState(link, test)
    /\ UNCHANGED <<engineVars, showVars, backend, link, active, port, commands, unheard,
                   frames, disk, sim, box, chosen>>

Pop ==
    /\ frames # <<>>
    /\ OnFrame(Head(frames), sim)
    /\ frames' = Tail(frames)
    /\ UNCHANGED <<showVars, backend, link, told, port, test, lost, box, chosen>>

-----------------------------------------------------------------------------
(* The driver, in its thread, and the box. *)

mainVars == <<engineVars, showVars, backend, told, active, test, lost, disk, sim, chosen>>

\* begin_handshake: no race is stopped.  The `s` that greets the box stands for the
\* last one, until what still waits in the queue is written; or it is lost in its turn.
Greets ==
    IF active THEN UNCHANGED <<box, unheard>>
    ELSE \/ box' = Obeys(box, "s") /\ unheard' = (unheard /\ commands # <<>>)
         \/ UNCHANGED box /\ unheard' = (unheard \/ ~Contains(commands, "s"))

\* A port is opened: the box's, or another.
OpensPort ==
    /\ backend = "serial"
    /\ ~port
    /\ link \in {"Disconnected", "LinkLost"}
    /\ link' = "PortOpen"
    /\ \/ box.phase # "off" /\ port' = TRUE /\ Greets
       \/ UNCHANGED <<port, box, unheard>>
    /\ UNCHANGED <<mainVars, commands, frames>>

\* A handshake without an answer is tried again.
GreetsAgain ==
    /\ port
    /\ link = "PortOpen"
    /\ Greets
    /\ UNCHANGED <<mainVars, link, port, commands, frames>>

GivesUp ==
    /\ backend = "serial"
    /\ link = "PortOpen"
    /\ link' = "Disconnected"
    /\ port' = FALSE
    /\ UNCHANGED <<mainVars, commands, unheard, frames, box>>

\* V: from the port that is open, or R: from a box that had fallen silent.
Identifies ==
    /\ port
    /\ \/ link = "PortOpen" /\ box.phase # "off"
       \/ link = "LinkLost" /\ box.phase = "racing"
    /\ link' = "Identified"
    /\ UNCHANGED <<mainVars, port, commands, unheard, frames, box>>

\* pump_commands, until the queue is empty: the box obeys what is written, if it is there.
Pumps ==
    /\ backend = "serial"
    /\ link = "Identified"
    /\ commands # <<>>
    /\ commands' = <<>>
    /\ \E w \in Written(Len(commands)) :
          /\ box' = Heard(box, commands, w)
          /\ unheard' = (unheard \/ LosesStop(commands, w))
    /\ UNCHANGED <<mainVars, link, port, frames>>

\* The watchdog: a box at work falls silent.
FallsSilent ==
    /\ port
    /\ link = "Identified"
    /\ active
    /\ link' = "LinkLost"
    /\ UNCHANGED <<mainVars, port, commands, unheard, frames, box>>

\* The port is lost, or closed after its silence.
LosesPort ==
    /\ port
    /\ port' = FALSE
    /\ link' = IF active THEN "LinkLost" ELSE "Disconnected"
    /\ UNCHANGED <<mainVars, commands, unheard, frames, box>>

\* A read of no port, when the race is over.
StopsWaiting ==
    /\ backend = "serial"
    /\ link = "LinkLost"
    /\ ~port
    /\ ~active
    /\ link' = "Disconnected"
    /\ UNCHANGED <<mainVars, port, commands, unheard, frames, box>>

BoxSends ==
    /\ \E kind \in Kinds, after \in {box, [box EXCEPT !.phase = "racing"]} :
          /\ Sends(box, kind, after)
          /\ box' = after
          /\ frames' = IF port THEN Append(frames, kind) ELSE frames
    /\ Len(frames) < MaxFrames
    /\ UNCHANGED <<mainVars, link, port, commands, unheard>>

PlugOrPull ==
    /\ box' = IF box.phase = "off" THEN Resting ELSE Off
    /\ box.phase = "off" => ~port
    /\ UNCHANGED <<mainVars, link, port, commands, unheard, frames>>

-----------------------------------------------------------------------------

Init ==
    /\ engine = "IDLE"
    /\ owner = "operator"
    /\ fate = "none"
    /\ demo = FALSE
    /\ test = FALSE
    /\ lost = FALSE
    /\ backend \in Backends
    /\ chosen = backend
    /\ saved = "none"
    /\ settings = "ours"
    /\ disk = [of |-> "ours", backend |-> backend]
    /\ link = IF backend = "sim" THEN "PortOpen" ELSE "Disconnected"
    /\ told = "Disconnected"
    /\ active = FALSE
    /\ port = FALSE
    /\ commands = <<>>
    /\ unheard = FALSE
    /\ frames = <<>>
    /\ sim = IF backend = "sim" THEN Resting ELSE Off
    /\ box = Resting

Operator ==
    \/ StartRace \/ StopRace \/ RestartRace
    \/ BeginTest \/ EndTest
    \/ \E to \in Backends : Toggle(to)
    \/ StartShow \/ StopShow
    \/ Close

Image == ArmingTimeout \/ GraceRunsOut \/ NextRace \/ SimConnects \/ SimSends \/ Poll \/ Pop

Thread ==
    \/ OpensPort \/ GreetsAgain \/ GivesUp
    \/ Identifies \/ Pumps \/ FallsSilent \/ LosesPort \/ StopsWaiting

Next == Operator \/ Image \/ Thread \/ BoxSends \/ PlugOrPull \/ Crash

Spec == Init /\ [][Next]_vars

-----------------------------------------------------------------------------
(* Properties. *)

\* docs/01 6.2: the driver watches over the link of the real box as long as a race
\* is on and no longer, through refusals, timeouts, shows and relaunches.
WatchIsOn == backend = "serial" => (active <=> InProgress)

\* No race runs under a sensor test, which would take its R: away.
TestAlone == test => ~InProgress

\* What the operator's riders have ridden is kept, and nothing of a demonstration
\* is, whatever starts, stops or ends the one or the other.
OnlyOursAreKept ==
    /\ fate = "kept" => owner = "operator"
    /\ fate = "dropped" => owner = "show"

\* Once the link is identified and its commands have left, a race that is over for the
\* program goes on in the box only when the last `s` was refused by a full queue or lost
\* by its write (queue_command, pump_commands), cuts, shows and crashes included.
NoneLeftRunning ==
    (/\ backend = "serial" /\ link = "Identified" /\ commands = <<>> /\ ~InProgress
     /\ Runs(box) /\ box.of # "test") => unheard

\* What the disk holds for the next launch is the operator's.
DiskIsOurs == [][disk' # disk => disk' = [of |-> "ours", backend |-> chosen]]_vars
=============================================================================
