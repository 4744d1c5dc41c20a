----------------------------- MODULE UserFiles ------------------------------
(***************************************************************************)
(* The files of the operator, core/json_store.gd: the settings and the     *)
(* roster, saved one after the other by save_preferences in steps that may *)
(* fail and that the program may die between, read again when it is        *)
(* launched.                                                               *)
(*                                                                         *)
(* What is in memory is numbered by its edits; 0 is the default values.    *)
(* The system keeps what it has been told when the program dies.           *)
(***************************************************************************)
EXTENDS Integers, Sequences

CONSTANT MaxEdits  \* bound: edits of a file

ASSUME FilesConstants == MaxEdits \in Nat

VARIABLES
    memory,   \* the settings and the roster of the program
    disk,     \* settings.json and roster.json
    temp,     \* the same with .tmp
    pc,       \* where the program is in write, "rest" or "off"
    left,     \* the files save_preferences has still to write, the current one first
    last,     \* history: what the last write that succeeded has saved, or a launch has found
    spoilt    \* history: the files the system has cut short or refused to rename since then

vars == <<memory, disk, temp, pc, left, last, spoilt>>

Files == {"settings", "roster"}
Edits == 0 .. MaxEdits
NoFile == -1
Broken == -2

File == Head(left)

-----------------------------------------------------------------------------
(* write, a step for each call to the system. *)

\* The next of the two files, whatever has become of this one.
Done ==
    /\ left' = Tail(left)
    /\ pc' = IF Len(left) = 1 THEN "rest" ELSE "open"

\* write returns false.
Fails == Done /\ UNCHANGED <<memory, disk, last, spoilt>>

Open ==
    /\ pc = "open"
    /\ temp' = [temp EXCEPT ![File] = Broken]
    /\ pc' = "store"
    /\ UNCHANGED <<memory, disk, left, last, spoilt>>

CannotOpen ==
    /\ pc = "open"
    /\ Fails
    /\ UNCHANGED temp

\* What store_string leaves: its result is not looked at, and the disk may be full.
Stores ==
    \/ temp' = [temp EXCEPT ![File] = memory[File]] /\ UNCHANGED spoilt
    \/ UNCHANGED temp /\ spoilt' = spoilt \cup {File}

\* Mutant: what is there is removed before the rename, as an older version did.
StoreThenRemove ==
    /\ pc = "store"
    /\ Stores
    /\ pc' = "remove"
    /\ UNCHANGED <<memory, disk, left, last>>

\* The file is closed, and the directory opens.
Store ==
    /\ pc = "store"
    /\ Stores
    /\ pc' = "rename"
    /\ UNCHANGED <<memory, disk, left, last>>

\* The directory does not open.
NoDirectory ==
    /\ pc = "store"
    /\ temp' = [temp EXCEPT ![File] = memory[File]]
    /\ Fails

Renames ==
    /\ disk' = [disk EXCEPT ![File] = temp[File]]
    /\ temp' = [temp EXCEPT ![File] = NoFile]
    /\ last' = [last EXCEPT ![File] = memory[File]]
    /\ spoilt' = IF temp[File] = Broken THEN spoilt ELSE spoilt \ {File}
    /\ Done
    /\ UNCHANGED memory

\* The rename, which some systems refuse over a file that is there.
Rename ==
    /\ pc = "rename"
    /\ \/ Renames
       \/ /\ pc' = "remove"
          /\ spoilt' = spoilt \cup {File}
          /\ UNCHANGED <<memory, disk, temp, left, last>>

\* The removal may fail too, which is not looked at.
Remove ==
    /\ pc = "remove"
    /\ \/ disk' = [disk EXCEPT ![File] = NoFile]
       \/ UNCHANGED disk
    /\ pc' = "rename again"
    /\ UNCHANGED <<memory, temp, left, last, spoilt>>

RenameAgain ==
    /\ pc = "rename again"
    /\ \/ Renames
       \/ Fails /\ UNCHANGED temp

-----------------------------------------------------------------------------

Edit(f) ==
    /\ pc = "rest"
    /\ memory[f] < MaxEdits
    /\ memory' = [memory EXCEPT ![f] = @ + 1]
    /\ UNCHANGED <<disk, temp, pc, left, last, spoilt>>

\* save_preferences: the roster is written even if the settings are not.
SavePreferences ==
    /\ pc = "rest"
    /\ pc' = "open"
    /\ left' = <<"settings", "roster">>
    /\ UNCHANGED <<memory, disk, temp, last, spoilt>>

Crash ==
    /\ pc # "off"
    /\ pc' = "off"
    /\ UNCHANGED <<memory, disk, temp, left, last, spoilt>>

\* read: the default values for a file that is absent or is not JSON.
Read(f) == IF disk[f] \in Edits THEN disk[f] ELSE 0

Launch ==
    /\ pc = "off"
    /\ pc' = "rest"
    /\ memory' = [f \in Files |-> Read(f)]
    /\ last' = disk
    /\ left' = <<>>
    /\ spoilt' = {}
    /\ UNCHANGED <<disk, temp>>

Init ==
    /\ memory = [f \in Files |-> 0]
    /\ disk = [f \in Files |-> NoFile]
    /\ temp = [f \in Files |-> NoFile]
    /\ pc = "rest"
    /\ left = <<>>
    /\ last = disk
    /\ spoilt = {}

Write == Open \/ CannotOpen \/ Store \/ NoDirectory \/ Rename \/ Remove \/ RenameAgain

Next == (\E f \in Files : Edit(f)) \/ SavePreferences \/ Write \/ Crash \/ Launch

Spec == Init /\ [][Next]_vars

-----------------------------------------------------------------------------
(* Properties. *)

\* The program may die, or a step of a save fail, at any moment: each file holds,
\* whole, what was last saved, unless the system has cut its new text short or
\* refused to rename it.
LastSaveIsKept == \A f \in Files \ spoilt : disk[f] = last[f]
=============================================================================
