------------------------------ MODULE PortList ------------------------------
(***************************************************************************)
(* The serial ports of the machine, as each system lists them, and why one *)
(* may be tried: enumerate_ports of addons/serial_link/src/                *)
(* serial_port_posix.cpp and serial_port_win.cpp, and port_selection.cpp.  *)
(*                                                                         *)
(* What is known of a device: the path of its port, numbered in the order  *)
(* of paths and NoPath when there is none, its name and what tells its     *)
(* identifiers, on each system.  Linux and macOS climb from the port to    *)
(* the USB device it belongs to: ids is what each level carries.  Windows  *)
(* reads a text: ids is its tokens.                                        *)
(***************************************************************************)
EXTENDS Integers, SequencesExt

CONSTANTS
    Devices,      \* the devices of the machine
    About,        \* what is known of each
    KnownIds,     \* known_usb_ids
    LinuxDepth,   \* 5
    MacDepth      \* 8

ASSUME PortListConstants == {LinuxDepth, MacDepth} \subseteq Nat

Systems == {"linux", "mac", "windows"}
NoIds == "none"
NoPath == 0

\* Mutant: the port and its parent only.
ClimbedShort(levels, depth) ==
    LET n == SelectInSubSeq(levels, 1, Min({2, Len(levels)}), LAMBDA id : id # NoIds)
    IN  IF n = 0 THEN NoIds ELSE levels[n]

\* The first level with both identifiers, as far as the climb goes.
Climbed(levels, depth) ==
    LET n == SelectInSubSeq(levels, 1, Min({depth, Len(levels)}), LAMBDA id : id # NoIds)
    IN  IF n = 0 THEN NoIds ELSE levels[n]

FillUsbIds(d) == Climbed(About[d].ids["linux"], LinuxDepth)

FindUsbIds(d) == Climbed(About[d].ids["mac"], MacDepth)

\* parse_hardware_id: each mark with the four digits behind it, wherever it is.
ParseHardwareId(d) ==
    LET text == About[d].ids["windows"]
        v == SelectInSeq(text, LAMBDA t : t = "VID_")
        p == SelectInSeq(text, LAMBDA t : t = "PID_")
    IN  IF v = 0 \/ p = 0 \/ v + 1 > Len(text) \/ p + 1 > Len(text) THEN NoIds
        ELSE text[v + 1] \o ":" \o text[p + 1]

Ids(os, d) ==
    CASE os = "linux" -> FillUsbIds(d)
      [] os = "mac" -> FindUsbIds(d)
      [] os = "windows" -> ParseHardwareId(d)

\* enumerate_impl of Linux: a terminal with a device behind it and a path.
OnLinux(devices) == {d \in devices : About[d].attached /\ About[d].path["linux"] # NoPath}

\* enumerate_impl of macOS: a serial service that has a path.
OnMac(devices) == {d \in devices : About[d].path["mac"] # NoPath}

\* enumerate_ports of Windows: a device with a name in its key.
OnWindows(devices) == {d \in devices : About[d].path["windows"] # NoPath}

Listed(os, devices) ==
    CASE os = "linux" -> OnLinux(devices)
      [] os = "mac" -> OnMac(devices)
      [] os = "windows" -> OnWindows(devices)

Stems == {"ttyUSB", "ttyACM", "cu.usbmodem", "cu.usbserial", "tty.usbmodem", "tty.usbserial"}

\* name_looks_like_serial.
LooksLikeSerial(name) ==
    name.stem \in Stems \/ (name.stem = "COM" /\ name.numbered) \/ name.arduino

Reasons == [Preferred |-> 1, UsbId |-> 2, NamePattern |-> 3, Nothing |-> 4]

\* Why a device is a candidate: the reason of rank_candidates, or none.
ReasonOf(os, d, preferred) ==
    IF preferred # NoPath /\ About[d].path[os] = preferred THEN "Preferred"
    ELSE IF Ids(os, d) \in KnownIds THEN "UsbId"
    ELSE IF LooksLikeSerial(About[d].name[os]) THEN "NamePattern"
    ELSE "Nothing"

\* Candidates are tried by reason, then by path, by which they are listed.
Before(os, preferred, d, e) ==
    LET r == Reasons[ReasonOf(os, d, preferred)]
        q == Reasons[ReasonOf(os, e, preferred)]
    IN  r < q \/ (r = q /\ About[d].path[os] < About[e].path[os])

\* The listed ports there is a reason to try, those of black excluded.
Candidates(os, devices, preferred, black) ==
    {d \in Listed(os, devices) : /\ About[d].path[os] \notin black
                                /\ ReasonOf(os, d, preferred) # "Nothing"}

\* stable_sort: the k-th has k - 1 before it.
Sorted(os, preferred, chosen) ==
    [k \in 1 .. Cardinality(chosen) |->
        CHOOSE d \in chosen : Cardinality({e \in chosen : Before(os, preferred, e, d)}) = k - 1]

\* rank_candidates: paths.  The operator's port is tried even when it is not listed.
Ranked(os, devices, preferred, black) ==
    LET forced == /\ preferred \notin black \cup {NoPath}
                  /\ \A d \in Listed(os, devices) : About[d].path[os] # preferred
        order == Sorted(os, preferred, Candidates(os, devices, preferred, black))
    IN  (IF forced THEN <<preferred>> ELSE <<>>)
        \o [k \in DOMAIN order |-> About[order[k]].path[os]]
=============================================================================
