----------------------------- MODULE MCEmulator -----------------------------
(***************************************************************************)
(* A scenario of Emulator and the commands its client may want to send;    *)
(* with ints of 4 bits and 3 ms in a second, l12, l002 and t1 are those    *)
(* the check of the driver must refuse.  Rider 0 leaves too early; rider 1 *)
(* does not, and its sensor trembles once.                                 *)
(***************************************************************************)
EXTENDS Emulator

Fault(kind, at, rider, param) == [kind |-> kind, at |-> at, rider |-> rider, param |-> param]

MCFaults == <<Fault("FalseStart", 0, 0, 0), Fault("PhantomTick", 1, 1, 0),
              Fault("Freeze", 0, -1, 2), Fault("LinkLoss", 2, -1, 0),
              Fault("LinkReturn", 3, -1, 0), Fault("TruncatedLine", 3, -1, 0)>>

MCTried == {<<"g">>, <<"s">>, <<"x">>, <<"l", "2">>, <<"l", "1", "2">>, <<"l", "0", "0", "2">>,
            <<"t", "1">>, <<"t", "5">>}

MCMockRate == [i \in Lanes |-> 1]
=============================================================================
