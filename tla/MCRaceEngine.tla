---------------------------- MODULE MCRaceEngine ----------------------------
(***************************************************************************)
(* Instances of RaceEngine for TLC: three hardware lanes, ticks of length  *)
(* 2, so that a distance of 7 is three ticks and a penalty of 2 one more.  *)
(* A unit of firmware time allows two ticks: a jump of three is refused.   *)
(***************************************************************************)
EXTENDS RaceEngine

Race(mode, active, metres, limit, policy, penalty) ==
    [mode |-> mode, active |-> active, metres |-> metres, limit |-> limit,
     distanceCap |-> 7, policy |-> policy, penalty |-> penalty]

\* A lane between the active ones is idle; the four policies; configurations
\* arm must refuse (no rider, pursuit alone, penalty as long as the gap).
AllModes ==
    {Race("distance", {0, 2}, 7, 3, "PENALTY", 2),
     Race("distance", {1, 2}, 6, 3, "RESTART", 0),
     Race("time", {0, 2}, 0, 2, "PENALTY", 1),
     Race("pursuit", {0, 1, 2}, 4, 3, "RESTART", 0),
     Race("pursuit", {0, 1}, 4, 3, "PENALTY", 2),
     Race("distance", {}, 7, 3, "WARN", 0),
     Race("pursuit", {1}, 4, 3, "IGNORE", 0),
     Race("pursuit", {0, 2}, 4, 3, "PENALTY", 4)}

DistanceOnly == {Race("distance", {0, 1}, 6, 3, "WARN", 0)}

TimeOnly == {Race("time", {0, 1}, 0, 2, "WARN", 0)}
=============================================================================
