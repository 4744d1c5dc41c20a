---------------------------- MODULE GracePeriod -----------------------------
(***************************************************************************)
(* LinkDriver under the controller that cancels a race whose link is not   *)
(* back in time, scenes/app_controller.gd: it knows the state of the link  *)
(* from the polls of the node, once an image, and dates the loss it was    *)
(* told of.                                                                *)
(*                                                                         *)
(* A race of this module is past its armament, which has a delay of its    *)
(* own.  Its commands are left out: the driver does not look at them, and  *)
(* the frames of the box come as they like.                                *)
(***************************************************************************)
EXTENDS LinkDriver, Integers

CONSTANT LinkGrace   \* LINK_GRACE_MS

ASSUME GraceConstants == LinkGrace \in Nat

VARIABLES
    told,    \* _last_link_state, and last_state_ of the node
    lostFor, \* the age of _link_lost_since_ms, or NoDate
    back     \* history: time since the controller was last told the link is up

graceVars == <<vars, told, lostFor, back>>

NoDate == -1
GraceLimit == LinkGrace + 1

-----------------------------------------------------------------------------

\* Mutant: a link that comes back leaves the date of its loss.
OnLinkStateKeeps(date) ==
    lostFor' = IF state # told /\ state = "LinkLost" THEN 0 ELSE date

\* Mutant: the loss is dated anew at each poll.
OnLinkStatePolls(date) ==
    lostFor' = IF state = "LinkLost" THEN 0 ELSE NoDate

\* on_link_state, when the poll of the node finds another state.
OnLinkState(date) ==
    lostFor' = IF state = told THEN date
               ELSE IF state = "LinkLost" THEN 0 ELSE NoDate

Poll(date) ==
    /\ told' = state
    /\ OnLinkState(date)
    /\ back' = IF state = "Identified" THEN 0 ELSE back
    /\ UNCHANGED <<driverVars, boxVars, running, commands>>

\* An image: _process of the controller, then that of the node below it.
Image ==
    /\ lostFor <= LinkGrace
    /\ Poll(lostFor)
    /\ UNCHANGED raceActive

\* An image that finds the grace over: on_link_lost_beyond_grace.
GraceRunsOut ==
    /\ lostFor > LinkGrace
    /\ raceActive' = FALSE
    /\ Poll(NoDate)

Controller == Image \/ GraceRunsOut

\* start_race asks the driver, but whoever starts has been shown the link.
StartRace ==
    /\ state = "Identified"
    /\ told = "Identified"
    /\ ~raceActive
    /\ SetRaceActive(TRUE)
    /\ UNCHANGED <<told, lostFor, back>>

EndRace ==
    /\ raceActive
    /\ SetRaceActive(FALSE)
    /\ UNCHANGED <<told, lostFor, back>>

\* Images follow each other much faster than the delays run: one has seen the
\* state before a unit of time passes.
TimePasses ==
    /\ Advance
    /\ told = state
    /\ lostFor' = IF lostFor \in 0 .. LinkGrace THEN lostFor + 1 ELSE lostFor
    /\ back' = IF back < GraceLimit THEN back + 1 ELSE back
    /\ UNCHANGED told

\* The driver, the box and the application's start and stop of the link.
Others ==
    /\ \/ Tick \/ StoppedTick \/ BoxReads \/ BoxSends("R") \/ Unplug
       \/ \E p \in BoxPorts : Plug(p)
       \/ \E b \in BOOLEAN : SetRunning(b)
    /\ UNCHANGED <<told, lostFor, back>>

GraceInit ==
    /\ Init
    /\ told = state
    /\ lostFor = NoDate
    /\ back = GraceLimit

GraceNext == Controller \/ StartRace \/ EndRace \/ TimePasses \/ Others

\* The thread ticks, images are drawn, time passes.
GraceSpec ==
    /\ GraceInit
    /\ [][GraceNext]_graceVars
    /\ WF_graceVars(Tick /\ UNCHANGED <<told, lostFor, back>>)
    /\ WF_graceVars(Controller)
    /\ SF_graceVars(TimePasses)

-----------------------------------------------------------------------------

\* A race is cancelled only when the operator has been shown a lost link for the
\* whole grace: no loss of an earlier race, and none the link has come back from,
\* counts against it.
NoHastyVerdict == [][GraceRunsOut /\ raceActive => back > LinkGrace]_graceVars

\* A cut without an end, which leaves the driver nothing to open, ends the race.
PlainCutEnds ==
    (raceActive /\ running) ~> (state # "LinkLost" \/ ~raceActive \/ ~running)
=============================================================================
