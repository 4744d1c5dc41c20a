--------------------------- MODULE MCGracePeriod ----------------------------
(***************************************************************************)
(* The ports GracePeriod is checked on.                                    *)
(***************************************************************************)
EXTENDS GracePeriod

MCReason == [p \in Ports |-> 2]
=============================================================================
