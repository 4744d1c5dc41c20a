---------------------------- MODULE MCLinkDriver ----------------------------
(***************************************************************************)
(* The ports LinkDriver is checked on: the box comes up as port 2, and     *)
(* port 1, tried before it, is a modem that never answers.                 *)
(***************************************************************************)
EXTENDS LinkDriver

MCReason == [p \in Ports |-> 2]
=============================================================================
