----------------------------- MODULE LinkDriver -----------------------------
(***************************************************************************)
(* The state machine of the serial link, addons/serial_link/src/           *)
(* link_driver.cpp: a thread that finds the box among the serial ports,    *)
(* identifies it, watches over it while a race is on and finds it again    *)
(* when it is lost.  The main thread sets flags and queues commands while  *)
(* the driver is anywhere in a tick; the box is plugged, unplugged, hangs  *)
(* and answers when it likes.                                              *)
(*                                                                         *)
(* A tick is two steps, because it loads race_active_ twice: BeginTick,    *)
(* up to the verdict of interruption, and the branch of the switch.        *)
(*                                                                         *)
(* The driver keeps dates in milliseconds and compares their distance to   *)
(* now.  The model keeps the distance, the age of each date, up to the     *)
(* largest value a comparison can tell apart.  The dates have 32 bits and  *)
(* start with the program: their wrap, after 49 days, is left out.         *)
(***************************************************************************)
EXTENDS Naturals, FiniteSets, SequencesExt

CONSTANTS
    Ports,             \* serial ports, numbered in the order of their paths
    BoxPorts,          \* those a box may come up as; the others are always there
    Reason,            \* why a port may be tried: SelectionReason, 1 .. 3
    Preferred,         \* preferred_path_: the operator's port, or NoPort
    CanMisread,        \* whether open and read may fail with the box in place
    PromptBox,         \* whether the box reads a command within a unit of time
    MaxPending,        \* bound: commands on their way when another is queued
    HandshakeTimeout,  \* LinkConfig, from here on
    HandshakeAttempts,
    WatchdogTime,
    CloseAfterSilence,
    ReconnectGrace,
    ScanInterval,
    BackoffMax,
    BackoffAfterFailures,
    MaxBlacklist,      \* 16 in note_failure
    CommandQueue       \* kCommandQueue

NoPort == 0

ASSUME LinkConstants ==
    /\ Ports \subseteq Nat \ {NoPort}
    /\ IsFiniteSet(Ports)
    /\ BoxPorts \subseteq Ports
    /\ Reason \in [Ports -> 1 .. 3]
    /\ Preferred \in Ports \cup {NoPort}
    /\ CanMisread \in BOOLEAN
    /\ PromptBox \in BOOLEAN
    /\ HandshakeAttempts # 0
    /\ {MaxPending, HandshakeTimeout, HandshakeAttempts, WatchdogTime,
        CloseAfterSilence, ReconnectGrace, ScanInterval, BackoffMax,
        BackoffAfterFailures, MaxBlacklist, CommandQueue} \subseteq Nat

VARIABLES
    state,       \* state_
    running,     \* running_
    raceActive,  \* race_active_
    commands,    \* commands_
    port,        \* port_ and current_path_: the open port, or NoPort
    version,     \* whether version_ holds an answer
    seen,        \* race_was_active_, the race_active of the tick too
    progressed,  \* last_progress_ms_ >= race_active_since_ms_
    attempt,     \* handshake_attempt_
    blacklist,   \* blacklist_
    failures,    \* consecutive_failures_, up to BackoffAfterFailures
    linkDown,    \* link_down_
    reported,    \* interrupted_reported_
    age,         \* the age of each date
    phase,       \* where the thread is in a tick
    boxAt,       \* the port of the box, or NoPort
    wire,        \* commands the box has received and not read
    line         \* kinds of frames that wait in the open port

driverVars == <<state, port, version, seen, progressed, attempt, blacklist,
                failures, linkDown, reported, age, phase>>
boxVars == <<boxAt, wire, line>>
mainVars == <<running, raceActive, commands>>

vars == <<driverVars, boxVars, mainVars>>

LinkStates == {"Disconnected", "PortOpen", "Identified", "LinkLost"}
Commands == {"s", "g"}
FrameKinds == {"V", "R", "CD"}   \* those that matter to someone
Clocks == {"scan", "presence", "handshake", "progress", "lost"}

\* The largest age of each date a comparison tells from the next.
Limit(c) ==
    CASE c = "scan" -> Max({ScanInterval, BackoffMax})
      [] c = "presence" -> ScanInterval
      [] c = "handshake" -> HandshakeTimeout
      [] c = "progress" -> WatchdogTime + 1
      [] c = "lost" -> Max({CloseAfterSilence, ReconnectGrace}) + 1

\* A date is stamped again before it is compared in any other state.
Read(c) ==
    CASE c = "handshake" -> state = "PortOpen"
      [] c = "progress" -> state = "Identified"
      [] c = "lost" -> linkDown
      [] OTHER -> TRUE

-----------------------------------------------------------------------------
(* Choosing a port. *)

Present == (Ports \ BoxPorts) \cup ({boxAt} \ {NoPort})

\* Mutant: a port that has failed stays a candidate.
CandidatesAlways(black) ==
    {p \in Present : Reason[p] < 3} \cup ({Preferred} \ {NoPort})

\* The operator's port is tried even when it is not enumerated.
Candidates(black) ==
    ({p \in Present : Reason[p] < 3} \cup ({Preferred} \ {NoPort})) \ black

Rank(p) == IF p = Preferred THEN 0 ELSE Reason[p]

Before(p, q) == Rank(p) < Rank(q) \/ (Rank(p) = Rank(q) /\ p < q)

Best(ports) == CHOOSE p \in ports : \A q \in ports \ {p} : Before(p, q)

Interval(fails) == IF fails >= BackoffAfterFailures THEN BackoffMax ELSE ScanInterval

-----------------------------------------------------------------------------
(* What the branches of a tick are made of. *)

\* Mutant: each loss dates the outage anew.
EnterDatesAnew(s, fails, ages) ==
    LET identifies == s = "Identified" /\ state # s
        loses == s = "LinkLost" /\ state # s
    IN  /\ state' = s
        /\ linkDown' = ((linkDown \/ loses) /\ ~identifies)
        /\ reported' = (reported /\ ~loses)
        /\ progressed' = (progressed \/ identifies)
        /\ failures' = IF identifies THEN 0 ELSE fails
        /\ age' = IF loses THEN [ages EXCEPT !["lost"] = 0]
                  ELSE IF identifies THEN [ages EXCEPT !["progress"] = 0]
                  ELSE ages

\* enter, with the failures and the ages the rest of the step leaves.
Enter(s, fails, ages) ==
    LET identifies == s = "Identified" /\ state # s
        loses == s = "LinkLost" /\ state # s /\ ~linkDown
    IN  /\ state' = s
        /\ linkDown' = ((linkDown \/ loses) /\ ~identifies)
        /\ reported' = (reported /\ ~loses)
        /\ progressed' = (progressed \/ identifies)
        /\ failures' = IF identifies THEN 0 ELSE fails
        /\ age' = IF loses THEN [ages EXCEPT !["lost"] = 0]
                  ELSE IF identifies THEN [ages EXCEPT !["progress"] = 0]
                  ELSE ages

\* close_port.
ClosePort ==
    /\ port' = NoPort
    /\ version' = FALSE
    /\ line' = {}

\* note_failure.
Failing(fails) == IF fails < BackoffAfterFailures THEN fails + 1 ELSE fails

Blacklisting(black, p) ==
    IF Cardinality(black \cup {p}) > MaxBlacklist THEN {} ELSE black \cup {p}

\* begin_handshake, on port p.  A handshake that follows one the box has not
\* read adds nothing: the box would answer the two alike.
Greeting == IF raceActive THEN <<"v">> ELSE <<"s", "v">>

Greet(p) ==
    wire' = IF p # boxAt \/ IsSuffix(Greeting, wire) THEN wire ELSE wire \o Greeting

\* What a lost port means, at the second load of race_active_.
Verdict == IF raceActive THEN "LinkLost" ELSE "Disconnected"

\* port_vanished polls at the cadence of the scan.
Polls == port # NoPort /\ age["presence"] >= ScanInterval
Polled == IF Polls THEN [age EXCEPT !["presence"] = 0] ELSE age
Vanished == Polls /\ port \notin Present

\* port_->read fails on a closed port, may fail on a port the box has left, and
\* on the box's own only when CanMisread.
MayMisread == port = NoPort \/ (port \in BoxPorts /\ (CanMisread \/ port # boxAt))

\* pump_commands.  What is written to another port than the box's is lost.
PumpCommands ==
    /\ commands' = <<>>
    /\ wire' = IF port = boxAt THEN wire \o commands ELSE wire

\* What try_scan_and_open leaves of a closed port.
StayClosed(fails, ages) ==
    /\ ClosePort
    /\ Enter(state, fails, ages)
    /\ UNCHANGED <<attempt, wire>>

\* Mutant: handshakes are counted over all ports.
OpenKeepsAttempt(p, fails, ages) ==
    /\ port' = p
    /\ version' = FALSE
    /\ line' = {}
    /\ UNCHANGED attempt
    /\ Enter("PortOpen", fails, [ages EXCEPT !["handshake"] = 0])
    /\ Greet(p)

\* Mutant: a port opened while the link is lost is awaited like the old one.
OpenStaysLost(p, fails, ages) ==
    /\ port' = p
    /\ version' = FALSE
    /\ line' = {}
    /\ attempt' = 1
    /\ Enter(IF state = "LinkLost" THEN state ELSE "PortOpen", fails,
             [ages EXCEPT !["handshake"] = 0])
    /\ Greet(p)

Open(p, fails, ages) ==
    /\ port' = p
    /\ version' = FALSE
    /\ line' = {}
    /\ attempt' = 1
    /\ Enter("PortOpen", fails, [ages EXCEPT !["handshake"] = 0])
    /\ Greet(p)

\* try_scan_and_open.  A port that is absent does not open, another device's may
\* be refused, and the box's only when CanMisread.
Scan(black, fails, ages) ==
    LET due == ages["scan"] >= Interval(fails)
        best == Best(Candidates(black))
        scanned == [ages EXCEPT !["scan"] = 0]
    IN  \/ /\ ~due
           /\ blacklist' = black
           /\ StayClosed(fails, ages)
        \/ /\ due
           /\ Candidates(black) = {}
           /\ blacklist' = {}
           /\ StayClosed(fails, scanned)
        \/ /\ due
           /\ Candidates(black) # {}
           /\ best # boxAt \/ CanMisread
           /\ blacklist' = Blacklisting(black, best)
           /\ StayClosed(Failing(fails), scanned)
        \/ /\ due
           /\ Candidates(black) # {}
           /\ best \in Present
           /\ blacklist' = black
           /\ Open(best, fails, scanned)

-----------------------------------------------------------------------------
(* A tick of the thread. *)

\* Mutant: the verdict of interruption is given in LINK_LOST only.
BeginTickLost ==
    /\ phase = "idle"
    /\ running
    /\ phase' = "acting"
    /\ seen' = raceActive
    /\ progressed' = IF raceActive /\ ~seen THEN age["progress"] = 0 ELSE progressed
    /\ reported' = (reported \/ (state = "LinkLost" /\ raceActive
                                  /\ age["lost"] > ReconnectGrace))
    /\ UNCHANGED <<state, port, version, attempt, blacklist, failures, linkDown, age,
                   boxVars, mainVars>>

\* The loads of running_ and race_active_, and the verdict of interruption.
BeginTick ==
    /\ phase = "idle"
    /\ running
    /\ phase' = "acting"
    /\ seen' = raceActive
    /\ progressed' = IF raceActive /\ ~seen THEN age["progress"] = 0 ELSE progressed
    /\ reported' = (reported \/ (linkDown /\ raceActive /\ age["lost"] > ReconnectGrace))
    /\ UNCHANGED <<state, port, version, attempt, blacklist, failures, linkDown, age,
                   boxVars, mainVars>>

\* A tick after stop; the thread may end without it.
StoppedTick ==
    /\ phase = "idle"
    /\ ~running
    /\ port # NoPort
    /\ ClosePort
    /\ Enter("Disconnected", failures, age)
    /\ UNCHANGED <<seen, attempt, blacklist, phase, boxAt, wire, mainVars>>

\* What every branch of the switch has in common.
Act ==
    /\ phase = "acting"
    /\ phase' = "idle"
    /\ UNCHANGED <<seen, boxAt, running, raceActive>>

Branch(s) == Act /\ ~Vanished /\ state = s

Listen ==
    /\ version' = (version \/ "V" \in line)
    /\ line' = {}

PortVanishes ==
    /\ Act
    /\ Vanished
    /\ ClosePort
    /\ Enter(Verdict, failures, Polled)
    /\ UNCHANGED <<attempt, blacklist, wire, commands>>

ScanPorts ==
    /\ Branch("Disconnected")
    /\ Scan(blacklist, failures, Polled)
    /\ UNCHANGED commands

\* A failed read of an open port that is not identified, or not in a race.
ReadFails ==
    /\ \/ Branch("PortOpen") /\ UNCHANGED <<wire, commands>>
       \/ Branch("Identified") /\ PumpCommands
       \/ Branch("LinkLost") /\ ~raceActive /\ UNCHANGED <<wire, commands>>
    /\ MayMisread
    /\ ClosePort
    /\ Enter(Verdict, failures, Polled)
    /\ UNCHANGED <<attempt, blacklist>>

\* PORT_OPEN.  An R: does not identify; its date is overwritten before it is used.
IsIdentified ==
    /\ Branch("PortOpen")
    /\ "V" \in line
    /\ Listen
    /\ Enter("Identified", failures, Polled)
    /\ UNCHANGED <<port, attempt, blacklist, wire, commands>>

AwaitVersion ==
    /\ Branch("PortOpen")
    /\ "V" \notin line
    /\ age["handshake"] < HandshakeTimeout
    /\ Listen
    /\ Enter(state, failures, Polled)
    /\ UNCHANGED <<port, attempt, blacklist, wire, commands>>

GreetAgain ==
    /\ Branch("PortOpen")
    /\ "V" \notin line
    /\ age["handshake"] >= HandshakeTimeout
    /\ attempt < HandshakeAttempts
    /\ attempt' = attempt + 1
    /\ Listen
    /\ Enter(state, failures, [Polled EXCEPT !["handshake"] = 0])
    /\ Greet(port)
    /\ UNCHANGED <<port, blacklist, commands>>

GiveUp ==
    /\ Branch("PortOpen")
    /\ "V" \notin line
    /\ age["handshake"] >= HandshakeTimeout
    /\ attempt >= HandshakeAttempts
    /\ attempt' = attempt + 1
    /\ ClosePort
    /\ blacklist' = Blacklisting(blacklist, port)
    /\ Enter("Disconnected", Failing(failures), Polled)
    /\ UNCHANGED <<wire, commands>>

\* IDENTIFIED.
Silent == "R" \notin line /\ seen /\ progressed /\ age["progress"] > WatchdogTime

Serve ==
    /\ Branch("Identified")
    /\ port # NoPort
    /\ ~Silent
    /\ PumpCommands
    /\ Listen
    /\ progressed' = (progressed \/ "R" \in line)
    /\ age' = IF "R" \in line THEN [Polled EXCEPT !["progress"] = 0] ELSE Polled
    /\ UNCHANGED <<state, port, attempt, blacklist, failures, linkDown, reported>>

WatchdogTrips ==
    /\ Branch("Identified")
    /\ port # NoPort
    /\ Silent
    /\ PumpCommands
    /\ Listen
    /\ Enter("LinkLost", failures, Polled)
    /\ UNCHANGED <<port, attempt, blacklist>>

\* LINK_LOST.  Either frame brings the link back.
LinkReturns ==
    /\ Branch("LinkLost")
    /\ port # NoPort
    /\ line \cap {"V", "R"} # {}
    /\ Listen
    /\ Enter("Identified", failures, Polled)
    /\ UNCHANGED <<port, attempt, blacklist, wire, commands>>

AwaitReturn ==
    /\ Branch("LinkLost")
    /\ port # NoPort
    /\ line \cap {"V", "R"} = {}
    /\ age["lost"] <= CloseAfterSilence
    /\ Listen
    /\ Enter(state, failures, Polled)
    /\ UNCHANGED <<port, attempt, blacklist, wire, commands>>

\* A silent port is closed, and the search starts in the same tick.
CloseSilentPort ==
    /\ Branch("LinkLost")
    /\ port # NoPort
    /\ line \cap {"V", "R"} = {}
    /\ age["lost"] > CloseAfterSilence
    /\ Scan(Blacklisting(blacklist, port), Failing(failures), Polled)
    /\ UNCHANGED commands

\* The read fails, on a port closed before or just lost, and the race is on.
SearchAgain ==
    /\ Branch("LinkLost")
    /\ MayMisread
    /\ raceActive
    /\ Scan(blacklist, failures, Polled)
    /\ UNCHANGED commands

\* The branches that read, and hand every frame on to the main thread.
ReadsFrames ==
    \/ IsIdentified \/ AwaitVersion \/ GreetAgain \/ GiveUp
    \/ Serve \/ WatchdogTrips
    \/ LinkReturns \/ AwaitReturn \/ CloseSilentPort

ReadsNothing == BeginTick \/ PortVanishes \/ ScanPorts \/ ReadFails \/ SearchAgain

Tick == ReadsFrames \/ ReadsNothing

-----------------------------------------------------------------------------
(* The main thread. *)

\* start and stop; the node stops the driver before it joins its thread.
SetRunning(b) ==
    /\ running' = b
    /\ UNCHANGED <<driverVars, boxVars, raceActive, commands>>

SetRaceActive(b) ==
    /\ raceActive' = b
    /\ UNCHANGED <<driverVars, boxVars, running, commands>>

\* queue_command of a valid command; the full queue refuses.
QueueCommand(c) ==
    /\ Len(wire) + Len(commands) < MaxPending
    /\ commands' = IF Len(commands) < CommandQueue THEN Append(commands, c) ELSE commands
    /\ UNCHANGED <<driverVars, boxVars, running, raceActive>>

-----------------------------------------------------------------------------
(* Time and the box. *)

\* The date of a tick is taken before it.
Advance ==
    /\ phase = "idle"
    /\ PromptBox => wire = <<>>
    /\ age' = [c \in Clocks |->
                 IF Read(c) /\ age[c] < Limit(c) THEN age[c] + 1 ELSE age[c]]
    /\ UNCHANGED <<state, port, version, seen, progressed, attempt, blacklist, failures,
                   linkDown, reported, phase, boxVars, mainVars>>

\* The next command, checkSerial of the firmware.
BoxReads ==
    /\ wire # <<>>
    /\ wire' = Tail(wire)
    /\ line' = IF Head(wire) = "v" /\ port = boxAt THEN line \cup {"V"} ELSE line
    /\ UNCHANGED <<driverVars, boxAt, mainVars>>

\* A frame of a race, whichever race it belongs to.
BoxSends(kind) ==
    /\ boxAt # NoPort
    /\ line' = IF port = boxAt THEN line \cup {kind} ELSE line
    /\ UNCHANGED <<driverVars, boxAt, wire, mainVars>>

\* A box without power forgets what it has received.
Unplug ==
    /\ boxAt # NoPort
    /\ boxAt' = NoPort
    /\ wire' = <<>>
    /\ UNCHANGED <<driverVars, line, mainVars>>

\* The system gives the box no path that is still open.
Plug(p) ==
    /\ boxAt = NoPort
    /\ p # port
    /\ boxAt' = p
    /\ UNCHANGED <<driverVars, wire, line, mainVars>>

-----------------------------------------------------------------------------

Init ==
    /\ state = "Disconnected"
    /\ running = FALSE
    /\ raceActive = FALSE
    /\ commands = <<>>
    /\ port = NoPort
    /\ version = FALSE
    /\ seen = FALSE
    /\ progressed = TRUE
    /\ attempt = 0
    /\ blacklist = {}
    /\ failures = 0
    /\ linkDown = FALSE
    /\ reported = FALSE
    /\ age = [c \in Clocks |-> Limit(c)]
    /\ phase = "idle"
    /\ boxAt \in BoxPorts \cup {NoPort}
    /\ wire = <<>>
    /\ line = {}

MainThread ==
    \/ \E b \in BOOLEAN : SetRunning(b) \/ SetRaceActive(b)
    \/ \E c \in Commands : QueueCommand(c)

Environment ==
    \/ Advance \/ BoxReads \/ BoxSends("R") \/ Unplug
    \/ \E p \in BoxPorts : Plug(p)

Next == Tick \/ StoppedTick \/ MainThread \/ Environment

Spec == Init /\ [][Next]_vars

\* The thread ticks every half millisecond and time passes.
FairSpec == Spec /\ WF_vars(Tick) /\ SF_vars(Advance)

\* The box is alive: it reads what it is sent.
AnsweringSpec == FairSpec /\ WF_vars(BoxReads)

-----------------------------------------------------------------------------
(* Properties. *)

TypeOK ==
    /\ state \in LinkStates
    /\ running \in BOOLEAN
    /\ raceActive \in BOOLEAN
    /\ commands \in Seq(Commands)
    /\ Len(commands) <= CommandQueue
    /\ port \in Ports \cup {NoPort}
    /\ version \in BOOLEAN
    /\ seen \in BOOLEAN
    /\ progressed \in BOOLEAN
    /\ attempt \in 0 .. HandshakeAttempts + 1
    /\ blacklist \subseteq Ports
    /\ failures \in 0 .. BackoffAfterFailures
    /\ linkDown \in BOOLEAN
    /\ reported \in BOOLEAN
    /\ age \in [Clocks -> Nat]
    /\ phase \in {"idle", "acting"}
    /\ boxAt \in BoxPorts \cup {NoPort}
    /\ wire \in Seq(Commands \cup {"v"})
    /\ line \subseteq FrameKinds

\* IDENTIFIED, the only state where START is allowed, is earned on the port that
\* is open now: it is open and has answered V: since it was opened, whatever
\* outage, silence, search or verdict came between.
StartIsAuthorised == state = "Identified" => port # NoPort /\ version

\* Losing the link again before it is back, from any state, neither restarts
\* the clock of the outage nor lets its interruption be counted twice.
OneOutage ==
    [][linkDown /\ linkDown' => age'["lost"] >= age["lost"] /\ (reported => reported')]_vars

\* An outage during a race is reported unless something ends it, though the
\* driver may be opening or greeting other ports all the time.
OutageIsReported ==
    (linkDown /\ raceActive /\ running)
        ~> (reported \/ ~linkDown \/ ~raceActive \/ ~running)

\* A box that stays plugged and answers is identified, again after each loss,
\* behind ports that are silent or cannot be opened.
BoxIsFound ==
    <>[](running /\ boxAt # NoPort) => []<>(state = "Identified")
=============================================================================
