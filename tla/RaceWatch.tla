----------------------------- MODULE RaceWatch ------------------------------
(***************************************************************************)
(* LinkDriver under a controller that starts a race only when the driver   *)
(* allows it, ends it and starts the next: what the watchdog of the link   *)
(* has heard of the race it watches.                                       *)
(***************************************************************************)
EXTENDS LinkDriver

VARIABLE heard   \* history: an R: has been read since the race was started

watchVars == <<vars, heard>>

\* start_race: can_start_race, then set_race_active.  The link has been
\* identified for a moment when somebody starts.
StartWatched ==
    /\ state = "Identified"
    /\ age["progress"] > 0
    /\ ~raceActive
    /\ SetRaceActive(TRUE)
    /\ heard' = FALSE

\* The race is over or aborted; restart_race goes on with StartWatched.
EndWatched ==
    /\ raceActive
    /\ SetRaceActive(FALSE)
    /\ UNCHANGED heard

\* The driver reads what the box sends, of this race or of the last.
WatchThread ==
    \/ ReadsFrames /\ heard' = (heard \/ "R" \in line)
    \/ ReadsNothing /\ UNCHANGED heard

\* The thread ticks many times in a unit of time: none passes before it has read
\* what waits and seen race_active as it is.
WatchOthers ==
    /\ SetRunning(TRUE) \/ Environment
    /\ age' # age /\ running => line = {} /\ seen = raceActive
    /\ UNCHANGED heard

WatchInit == Init /\ heard = FALSE

WatchNext == StartWatched \/ EndWatched \/ WatchThread \/ WatchOthers

WatchSpec == WatchInit /\ [][WatchNext]_watchVars

-----------------------------------------------------------------------------

\* The comment of the watchdog and docs/01 6.2: it is armed by the first R: after
\* START, never by the START itself, so that the silence of the countdown is no
\* loss of the link.
SilentCountdownIsNoLoss == [][WatchdogTrips => heard]_watchVars
=============================================================================
