---------------------------- MODULE MCSerialPath ----------------------------
(***************************************************************************)
(* A box, another that takes its path, and a port of the machine that is   *)
(* none.                                                                   *)
(***************************************************************************)
EXTENDS SerialPath

OnEach(linux, mac, windows) == [linux |-> linux, mac |-> mac, windows |-> windows]
Name(stem, numbered) == [stem |-> stem, numbered |-> numbered, arduino |-> FALSE]

Uno ==
    [attached |-> TRUE,
     path |-> OnEach(2, 2, 2),
     name |-> OnEach(Name("ttyACM", TRUE), Name("cu.usbmodem", TRUE), Name("COM", TRUE)),
     ids |-> OnEach(<<NoIds, NoIds, "2341:0043">>, <<NoIds, NoIds, NoIds, "2341:0043">>,
                    <<"USB", "VID_", "2341", "PID_", "0043", "REV_">>)]

Modem ==
    [attached |-> TRUE,
     path |-> OnEach(1, 1, 1),
     name |-> OnEach(Name("ttyUSB", TRUE), Name("cu.Bluetooth", FALSE), Name("COM", TRUE)),
     ids |-> OnEach(<<NoIds>>, <<NoIds>>, <<"BTHENUM", "VID">>)]

MCDevices == {"uno", "other", "modem"}
MCAbout == [d \in MCDevices |-> IF d = "modem" THEN Modem ELSE Uno]
MCBoxes == {"uno", "other"}
MCKnownIds == {"2341:0043"}

Says(frame, bytes) == [frame |-> frame, bytes |-> bytes \o <<"\r", "\n">>]

R112 == Says(<<"R", <<1>>, 12>>, <<"R", ":", "1", ",", "1", "2">>)
R11 == Says(<<"R", <<1>>, 1>>, <<"R", ":", "1", ",", "1">>)
CD == Says(<<"CD", -1>>, <<"C", "D", ":", "-", "1">>)
F01 == Says(<<"F", 0, 1>>, <<"0", "F", ":", "1">>)
FS == Says(<<"FS", 0>>, <<"F", "S", ":", "0">>)
L12 == Says(<<"L", 12>>, <<"L", ":", "1", "2">>)
ON == Says(<<"M", TRUE>>, <<"M", ":", "O", "N">>)
V5 == Says(<<"V", <<"5">>>>, <<"V", ":", "5">>)
ERROR == Says(<<"ERROR", <<"E", "R", "R", "O", "R", ":", "0">>>>,
              <<"E", "R", "R", "O", "R", ":", "0">>)

MCRunning == {"linux", "mac", "windows"}

MCRepertoires == {{R112, V5}, {R112, R11}, {R11, F01}, {CD, L12}, {FS, ON}, {ERROR, R11}}

\* A line without its end, one with a byte that is no digit, one that is not text.
MCNoises ==
    {<<"R", ":", "1", ",", "1">>, <<"R", ":", "1", "NUL", ",", "2", "\r", "\n">>,
     <<"xFF", "xFF", "\n">>}

\* What the theorems suppose of the box and of the noise holds here.  The cut line
\* is the only beginning: two of them are too long.
ASSUME MCSupposed ==
    LinesArePrinted /\ NoiseIsNoMeasure({<<"R", ":", "1", ",", "1">>}) /\ BoxesAreKnown
=============================================================================
