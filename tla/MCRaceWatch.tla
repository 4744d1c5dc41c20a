---------------------------- MODULE MCRaceWatch ----------------------------
(***************************************************************************)
(* The ports LinkDriver is checked on: the box comes up as port 2, and     *)
(* port 1, tried before it, is a modem that never answers.                 *)
(***************************************************************************)
EXTENDS RaceWatch

MCReason == [p \in Ports |-> 2]
=============================================================================
