----------------------------- MODULE SerialPath -----------------------------
(***************************************************************************)
(* The way of a line from the box to the queue of frames: a serial port of *)
(* the system, what the reading thread does to it and the lines it makes   *)
(* of the bytes.  The thread and the node around it are in SerialNode.     *)
(*                                                                         *)
(* Sources: addons/serial_link/src/serial_port_posix.cpp,                  *)
(* serial_port_win.cpp and what link_driver.cpp does to its port.  Which   *)
(* operation a tick calls, and when, is the matter of LinkDriver: here the *)
(* thread may call any that its port allows, so that what holds here does  *)
(* not rest on the driver's delays.                                        *)
(***************************************************************************)
EXTENDS LineParser, PortList

CONSTANTS
    Boxes,          \* those that are the box, or its emulator
    Running,        \* the systems it runs on
    Chosen,         \* preferred_path_
    Repertoires,    \* what a box may print: sets of records of a frame and its bytes
    Noises,         \* what else may come out of the line
    ReadMax,        \* the size of read_buf_
    MaxWaiting,     \* bound: bytes that wait in the port
    MaxNoise        \* bound: noises since it was opened

VARIABLES
    os,         \* the system
    lines,      \* the repertoire of the boxes
    plugged,    \* the devices that are there
    fd,         \* fd_ or handle_: the device it was opened on, or Closed
    current,    \* current_path_
    wire,       \* bytes that wait in the open port
    asm,        \* assembler_
    frames,     \* the frames of the last read
    state,      \* state_
    account     \* what the box has printed into the open port and is not read

vars == <<os, lines, plugged, fd, current, wire, asm, frames, state, account>>

Closed == "closed"

ASSUME SerialPathConstants ==
    /\ IsFiniteSet(Devices)
    /\ Closed \notin Devices
    /\ Boxes \subseteq Devices
    /\ Running \subseteq Systems
    /\ \A d \in Devices, sys \in Systems : About[d].path[sys] \in Nat
    /\ ReadMax \in Nat

\* A history: the measures owed, the lines noise may still cost, and whether a
\* measure has come that was not owed.
NothingOwed == [owed |-> <<>>, spoilt |-> 0, forged |-> FALSE]

Measures == {"R", "CD", "FS", "F", "L", "M"}

Settled(acc, f) ==
    LET n == SelectInSeq(acc.owed, LAMBDA g : g = f) IN
    IF f[1] \notin Measures THEN acc
    ELSE IF n = 0 THEN [acc EXCEPT !.forged = TRUE]
    ELSE [acc EXCEPT !.owed = Rest(@, n), !.spoilt = @ - (n - 1)]

States == {"Disconnected", "PortOpen", "Identified", "LinkLost"}

Posix == os \in {"linux", "mac"}
PathOf(d) == About[d].path[os]

-----------------------------------------------------------------------------
(* The port of the system. *)

At(path) == {d \in plugged : PathOf(d) = path}

\* Mutant: a setting that fails leaves the port open.
OpenedKept(path) ==
    {[ok |-> FALSE, on |-> Closed]}
        \cup {[ok |-> ok, on |-> d] : ok \in BOOLEAN, d \in At(path)}

\* open: without a device, or when any of its settings fails, nothing stays open.
Opened(path) ==
    {[ok |-> FALSE, on |-> Closed]} \cup {[ok |-> TRUE, on |-> d] : d \in At(path)}

\* Mutant: an open port is a port that is there.
StillOpen == TRUE

\* still_present: POSIX looks the path up, Windows does not know.
StillPresent == Posix => At(PathOf(fd)) # {}

-----------------------------------------------------------------------------
(* What the driver does to it in a tick. *)

\* close_port, with the state it leads to.
Close(s) ==
    /\ fd' = Closed
    /\ current' = NoPath
    /\ wire' = <<>>
    /\ asm' = Reset(asm)
    /\ account' = NothingOwed
    /\ state' = s
    /\ frames' = <<>>

Verdict == {"LinkLost", "Disconnected"}

\* port_vanished.
Vanished ==
    /\ fd # Closed
    /\ ~StillPresent
    /\ \E s \in Verdict : Close(s)
    /\ UNCHANGED <<os, lines, plugged>>

\* A tick after stop, and a port that is given up.
GivesUp ==
    /\ fd # Closed
    /\ \E s \in Verdict : Close(s)
    /\ UNCHANGED <<os, lines, plugged>>

\* The end of a line that was being printed.
LeftOf(bytes) == {Rest(bytes, n) : n \in 1 .. Len(bytes)}

\* try_scan_and_open.  The blacklist may leave any candidate the best.  What
\* waited is flushed, so that the first line may lack its beginning.
TryOpen ==
    /\ current = NoPath
    /\ \E path \in Range(Ranked(os, plugged, Chosen, {})) : \E o \in Opened(path) :
        /\ fd' = o.on
        /\ current' = IF o.ok THEN path ELSE NoPath
        /\ asm' = IF o.ok THEN Reset(asm) ELSE asm
        /\ state' = IF o.ok THEN "PortOpen" ELSE state
        /\ wire' \in {<<>>} \cup (IF o.ok /\ o.on \in Boxes
                                  THEN UNION {LeftOf(p.bytes) : p \in lines} ELSE {})
    /\ account' = NothingOwed
    /\ frames' = <<>>
    /\ UNCHANGED <<os, lines, plugged>>

\* on_frame, for the frames of one read.
StateAfter(read) ==
    LET back == IF state = "LinkLost" THEN {"V", "R"} ELSE {"V"} IN
    IF \E k \in DOMAIN read : read[k][1] \in back THEN "Identified" ELSE state

\* pump_reads, when something waits: all of it, or the beginning.
Read ==
    /\ fd \in plugged
    /\ wire # <<>>
    /\ \E n \in {Min({ReadMax, Len(wire)}), Min({3, Len(wire)})} :
        LET fed == Feed(asm, SubSeq(wire, 1, n)) IN
        /\ wire' = Rest(wire, n)
        /\ asm' = [fed EXCEPT !.frames = <<>>]
        /\ frames' = fed.frames
        /\ state' = StateAfter(fed.frames)
        /\ account' = FoldLeft(Settled, account, fed.frames)
    /\ UNCHANGED <<os, lines, plugged, fd, current>>

\* A read of a port whose device is gone: Windows fails; POSIX fails or says that
\* nothing waits.
ReadFails ==
    /\ fd \notin plugged \cup {Closed}
    /\ \E s \in Verdict : Close(s)
    /\ UNCHANGED <<os, lines, plugged>>

\* The watchdog, which leaves the port open.
FallsSilent ==
    /\ state = "Identified"
    /\ state' = "LinkLost"
    /\ frames' = <<>>
    /\ UNCHANGED <<os, lines, plugged, fd, current, wire, asm, account>>

-----------------------------------------------------------------------------
(* The world. *)

\* A box prints a line; nobody hears it when its port is not open.
Prints(p) ==
    /\ fd \in plugged \cap Boxes
    /\ Len(wire \o p.bytes) <= MaxWaiting
    /\ wire' = wire \o p.bytes
    /\ account' = IF p.frame[1] \in Measures
                  THEN [account EXCEPT !.owed = Append(@, p.frame)] ELSE account
    /\ UNCHANGED <<os, lines, plugged, fd, current, asm, frames, state>>

\* Bytes no box has printed, or a line cut short.
Noise(bytes) ==
    /\ fd \in plugged
    /\ account.spoilt < MaxNoise
    /\ Len(wire \o bytes) <= MaxWaiting
    /\ wire' = wire \o bytes
    /\ account' = [account EXCEPT !.spoilt = @ + 1]
    /\ UNCHANGED <<os, lines, plugged, fd, current, asm, frames, state>>

\* Two devices are never at one path.
Plug(d) ==
    /\ d \notin plugged
    /\ At(PathOf(d)) = {}
    /\ plugged' = plugged \cup {d}
    /\ UNCHANGED <<os, lines, fd, current, wire, asm, frames, state, account>>

Unplug(d) ==
    /\ d \in plugged
    /\ plugged' = plugged \ {d}
    /\ UNCHANGED <<os, lines, fd, current, wire, asm, frames, state, account>>

-----------------------------------------------------------------------------

Init ==
    /\ os \in Running
    /\ lines \in Repertoires
    /\ plugged \in SUBSET Devices
    /\ \A d \in plugged : At(PathOf(d)) = {d}
    /\ Devices \ Boxes \subseteq plugged
    /\ fd = Closed
    /\ current = NoPath
    /\ wire = <<>>
    /\ asm = EmptyLine
    /\ frames = <<>>
    /\ state = "Disconnected"
    /\ account = NothingOwed

Thread == Vanished \/ GivesUp \/ TryOpen \/ Read \/ ReadFails \/ FallsSilent

World ==
    \/ \E d \in Boxes : Plug(d) \/ Unplug(d)
    \/ \E p \in lines : Prints(p)
    \/ \E bytes \in Noises : Noise(bytes)

Next == Thread \/ World

Spec == Init /\ [][Next]_vars

\* A tick reads what waits and, at times, looks the device up.
FairSpec == Spec /\ WF_vars(Vanished) /\ WF_vars(os = "windows" /\ ReadFails)

-----------------------------------------------------------------------------
(* What the box and the noise are. *)

\* A measure is told from what is not by its kind.
IsMeasure(f) == f[1] \in Measures

\* What a line of the repertoire says, without its end.
Body(p) == SubSeq(p.bytes, 1, Len(p.bytes) - 2)

\* A box prints lines that fit, that end as println ends them and that say what
\* they are meant to, where the end of one, alone, says no measure.
LinesArePrinted ==
    /\ MaxLine > 0
    /\ \A r \in Repertoires : \A p \in r :
        /\ Body(p) \in Seq(STRING)
        /\ Len(Body(p)) \in 1 .. MaxLine
        /\ \A i \in DOMAIN Body(p) : Body(p)[i] \notin {"\r", "\n"}
        /\ p.bytes = Body(p) \o <<"\r", "\n">>
        /\ p.frame = Parse(Body(p))
        /\ \A n \in 1 .. Len(Body(p)) - 1 : ~IsMeasure(Parse(Rest(Body(p), n)))

\* A line that is too long, or that says no measure.
Harmless(line) == Len(line) > MaxLine \/ ~IsMeasure(Parse(line))

\* Noise is a line or the beginning of one; begun holds what such beginnings may
\* add up to.  With an end behind it, or a line of the box, none is a measure.
NoiseIsNoMeasure(begun) ==
    /\ begun \subseteq Seq(STRING) \ {<<>>}
    /\ \A bytes \in Noises :
        /\ bytes \in Seq(STRING) \ {<<>>}
        /\ \E n \in 0 .. Len(bytes) :
            /\ \A i \in 1 .. n : bytes[i] \notin {"\r", "\n"}
            /\ \A i \in n + 1 .. Len(bytes) : bytes[i] \in {"\r", "\n"}
            /\ \A b \in begun \cup {<<>>} :
                LET line == b \o SubSeq(bytes, 1, n) IN
                IF n = Len(bytes) THEN Len(line) > MaxLine \/ line \in begun
                ELSE line = <<>> \/ Harmless(line)
    /\ \A b \in begun : \A r \in Repertoires : \A p \in r : Harmless(b \o Body(p))

\* A box is listed, and carries a known identifier: the first one of the climb, or
\* the one that is written in the text.
BoxesAreKnown ==
    \A d \in Boxes, sys \in Running :
        /\ d \in Listed(sys, {d})
        /\ About[d].ids[sys] \in Seq(STRING)
        /\ LET ids == About[d].ids[sys] IN
           IF sys = "windows"
           THEN \E v, p \in DOMAIN ids :
                    /\ ids[v] = "VID_" /\ \A i \in 1 .. v - 1 : ids[i] # "VID_"
                    /\ ids[p] = "PID_" /\ \A i \in 1 .. p - 1 : ids[i] # "PID_"
                    /\ {v + 1, p + 1} \subseteq DOMAIN ids
                    /\ ids[v + 1] \o ":" \o ids[p + 1] \in KnownIds
           ELSE \E k \in DOMAIN ids :
                    /\ ids[k] \in KnownIds \ {NoIds}
                    /\ \A i \in 1 .. k - 1 : ids[i] = NoIds
                    /\ k <= IF sys = "linux" THEN LinuxDepth ELSE MacDepth

-----------------------------------------------------------------------------
(* Properties. *)

\* Cut, spoilt or joined lines, on a port opened in the middle of one or lost and
\* opened again, never make a measure the box has not printed, nor one twice, nor
\* two in another order.
NothingForged == ~account.forged

\* Noise costs at most the line that follows it, however long the line it makes:
\* once the open port is silent, every other line has become a frame.
NoiseCostsOneLine ==
    wire = <<>> /\ asm.bytes = <<>> => Len(account.owed) <= account.spoilt

\* Whatever fails in opening, the driver and the system agree on what is open.
PortAgrees ==
    /\ fd # Closed <=> current # NoPath
    /\ state \in {"PortOpen", "Identified"} => fd # Closed
    /\ state = "Disconnected" => fd = Closed

\* A box, which carries a known identifier, is tried on every system, and before
\* any port but the operator's and those where such an identifier is found too.
BoxIsTriedFirst ==
    LET ranked == Ranked(os, plugged, Chosen, {})
        known == {d \in plugged : Ids(os, d) \in KnownIds}
    IN  \A d \in plugged \cap Boxes : \E k \in DOMAIN ranked :
            /\ ranked[k] = PathOf(d)
            /\ \A j \in 1 .. k - 1 : ranked[j] \in {Chosen} \cup {PathOf(e) : e \in known}

\* A device that leaves under an open port is noticed, though its reads may only
\* fall silent, unless another comes to its place.
GoneIsTold ==
    \A d \in Devices :
        fd = d /\ At(PathOf(d)) = {} ~> fd # d \/ At(PathOf(d)) # {}
=============================================================================
