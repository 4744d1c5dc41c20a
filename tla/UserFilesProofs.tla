--------------------------- MODULE UserFilesProofs ---------------------------
(***************************************************************************)
(* Proofs about UserFiles, for any number of edits: a file holds what was  *)
(* last saved because the text that is renamed over it is either whole or  *)
(* one the system is known to have spoilt, and because what is removed is  *)
(* always spoilt already.                                                  *)
(***************************************************************************)
EXTENDS UserFiles, SequenceTheorems, TLAPS

-----------------------------------------------------------------------------
(* The inductive invariant. *)

\* Where the program is while it writes a file.
Writing == {"open", "store", "rename", "remove", "rename again"}

\* What may be read of a file.
Contents == Edits \cup {NoFile, Broken}

FilesTypes ==
    /\ memory \in [Files -> Edits]
    /\ disk \in [Files -> Contents]
    /\ temp \in [Files -> Contents]
    /\ last \in [Files -> Contents]
    /\ pc \in Writing \cup {"rest", "off"}
    /\ left \in Seq(Files)
    /\ spoilt \in SUBSET Files

\* Who writes has a file to write.
OneIsWritten == pc \in Writing => left # <<>>

\* The temporary file is empty until it is stored; then it is whole, or spoilt.
TempIsKnown ==
    /\ pc = "store" => temp[File] = Broken
    /\ pc \in {"rename", "remove", "rename again"} =>
          \/ temp[File] = memory[File]
          \/ temp[File] = Broken /\ File \in spoilt

\* Nothing is removed before a rename has been refused.
RemovedIsSpoilt == pc \in {"remove", "rename again"} => File \in spoilt

FilesInv ==
    /\ FilesTypes
    /\ OneIsWritten
    /\ TempIsKnown
    /\ RemovedIsSpoilt
    /\ LastSaveIsKept

-----------------------------------------------------------------------------
(* What the parts of a save keep. *)

\* No text is taken for a file that is absent or broken.
LEMMA EditsAreNumbers == 0 \in Edits /\ NoFile \notin Edits /\ Broken \notin Edits
  BY FilesConstants DEF Edits, NoFile, Broken

\* The file being written.
LEMMA FileIsOne ==
    ASSUME FilesInv, pc \in Writing
    PROVE  File \in Files
<1>1. left \in Seq(Files) /\ left # <<>>
  BY DEF FilesInv, FilesTypes, OneIsWritten
<1> QED
  BY <1>1, HeadTailProperties DEF File

\* After it comes the next file, or none.
LEMMA DoneTypes ==
    ASSUME FilesInv, pc \in Writing, Done
    PROVE  /\ left' \in Seq(Files)
           /\ pc' \in {"rest", "open"}
           /\ pc' = "open" => left' # <<>>
<1>1. left \in Seq(Files) /\ left # <<>>
  BY DEF FilesInv, FilesTypes, OneIsWritten
<1>2. left' \in Seq(Files) /\ Len(left') = Len(left) - 1 /\ Len(left) \in Nat
  BY <1>1, HeadTailProperties, LenProperties DEF Done
<1>3. pc' \in {"rest", "open"} /\ (pc' = "open" => Len(left) # 1)
  BY DEF Done
<1>4. pc' = "open" => Len(left') # 0
  BY <1>2, <1>3
<1> QED
  BY <1>2, <1>3, <1>4, EmptySeq

\* A save of a file that ends without a rename loses nothing.
LEMMA FailsKeeps ==
    ASSUME FilesInv, pc \in Writing, Fails,
           temp' \in [Files -> Contents]
    PROVE  FilesInv'
<1>1. /\ left' \in Seq(Files)
      /\ pc' \in {"rest", "open"}
      /\ pc' = "open" => left' # <<>>
  BY DoneTypes DEF Fails
<1>2. FilesTypes'
  BY <1>1 DEF FilesInv, FilesTypes, Fails, Writing
<1>3. OneIsWritten' /\ TempIsKnown' /\ RemovedIsSpoilt'
  BY <1>1 DEF OneIsWritten, TempIsKnown, RemovedIsSpoilt, Writing
<1>4. LastSaveIsKept'
  BY DEF FilesInv, LastSaveIsKept, Fails
<1> QED
  BY <1>2, <1>3, <1>4 DEF FilesInv

\* A rename keeps what the file holds and what has been saved in step.
LEMMA RenamesKeeps ==
    ASSUME FilesInv, pc \in {"rename", "rename again"}, Renames
    PROVE  FilesInv'
<1>0. pc \in Writing
  BY DEF Writing
<1>1. File \in Files
  BY <1>0, FileIsOne
<1> HIDE DEF File
<1>2. \/ temp[File] = memory[File] /\ temp[File] # Broken
      \/ temp[File] = Broken /\ File \in spoilt
  <2>1. memory[File] \in Edits /\ Broken \notin Edits
    BY <1>1, EditsAreNumbers DEF FilesInv, FilesTypes
  <2> QED
    BY <2>1 DEF FilesInv, TempIsKnown
<1>3. /\ left' \in Seq(Files)
      /\ pc' \in {"rest", "open"}
      /\ pc' = "open" => left' # <<>>
  BY <1>0, DoneTypes DEF Renames
<1>4. FilesTypes'
  <2>1. temp[File] \in Contents /\ NoFile \in Contents /\ memory[File] \in Contents
    BY <1>1 DEF FilesInv, FilesTypes, Contents
  <2> QED
    BY <1>1, <1>3, <2>1 DEF FilesInv, FilesTypes, Renames, Writing
<1>5. LastSaveIsKept'
  <2> SUFFICES ASSUME NEW f \in Files, f \notin spoilt' PROVE disk'[f] = last'[f]
    BY DEF LastSaveIsKept
  <2>1. disk \in [Files -> Contents]
        /\ last \in [Files -> Contents]
    BY DEF FilesInv, FilesTypes
  <2>2. CASE f = File
    BY <1>1, <1>2, <2>1, <2>2 DEF Renames
  <2>3. CASE f # File
    BY <1>1, <2>1, <2>3 DEF Renames, FilesInv, LastSaveIsKept
  <2> QED
    BY <2>2, <2>3
<1>6. OneIsWritten' /\ TempIsKnown' /\ RemovedIsSpoilt'
  BY <1>3 DEF OneIsWritten, TempIsKnown, RemovedIsSpoilt, Writing
<1> QED
  BY <1>4, <1>5, <1>6 DEF FilesInv

\* No file is there before the first save.
LEMMA InitFiles == Init => FilesInv
<1> SUFFICES ASSUME Init PROVE FilesInv
  OBVIOUS
<1>1. FilesTypes
  BY EditsAreNumbers DEF Init, FilesTypes, Contents
<1> QED
  BY <1>1 DEF Init, FilesInv, OneIsWritten, TempIsKnown, RemovedIsSpoilt, LastSaveIsKept,
              Writing

\* Each call to the system, whether it succeeds or fails.
LEMMA WriteKeeps == FilesInv /\ Write => FilesInv'
<1> SUFFICES ASSUME FilesInv, Write PROVE FilesInv'
  OBVIOUS
<1> USE DEF FilesInv
<1>0. pc \in Writing
  BY DEF Write, Open, CannotOpen, Store, NoDirectory, Rename, Remove, RenameAgain, Writing
<1>1. /\ File \in Files
      /\ temp \in [Files -> Contents] /\ disk \in [Files -> Contents]
      /\ memory[File] \in Contents /\ NoFile \in Contents /\ Broken \in Contents
  BY <1>0, FileIsOne DEF FilesTypes, Contents
<1>2. CASE Open
  <2>1. FilesTypes'
    BY <1>1, <1>2 DEF Open, FilesTypes, Writing
  <2> QED
    BY <1>1, <1>2, <2>1 DEF Open, OneIsWritten, TempIsKnown, RemovedIsSpoilt, LastSaveIsKept,
                            Writing, File
<1>3. CASE CannotOpen
  BY <1>0, <1>1, <1>3, FailsKeeps DEF CannotOpen
<1>4. CASE Store
  <2>1. FilesTypes'
    BY <1>1, <1>4 DEF Store, Stores, FilesTypes, Writing
  <2> QED
    BY <1>1, <1>4, <2>1 DEF Store, Stores, FilesTypes, OneIsWritten, TempIsKnown,
                            RemovedIsSpoilt, LastSaveIsKept, Writing, File
<1>5. CASE NoDirectory
  <2>1. temp' \in [Files -> Contents]
    BY <1>1, <1>5 DEF NoDirectory
  <2> QED
    BY <1>0, <1>5, <2>1, FailsKeeps DEF NoDirectory
<1>6. CASE Rename
  <2>1. CASE Renames
    BY <1>6, <2>1, RenamesKeeps DEF Rename
  <2>2. CASE /\ pc' = "remove"
             /\ spoilt' = spoilt \cup {File}
             /\ UNCHANGED <<memory, disk, temp, left, last>>
    BY <1>1, <1>6, <2>2 DEF Rename, FilesTypes, OneIsWritten, TempIsKnown, RemovedIsSpoilt,
                            LastSaveIsKept, Writing, File
  <2> QED
    BY <1>6, <2>1, <2>2 DEF Rename
<1>7. CASE Remove
  <2>1. FilesTypes'
    BY <1>1, <1>7 DEF Remove, FilesTypes, Writing
  <2>2. LastSaveIsKept'
    BY <1>1, <1>7 DEF Remove, RemovedIsSpoilt, LastSaveIsKept, FilesTypes
  <2> QED
    BY <1>1, <1>7, <2>1, <2>2 DEF Remove, OneIsWritten, TempIsKnown, RemovedIsSpoilt, Writing,
                                  File
<1>8. CASE RenameAgain
  BY <1>0, <1>1, <1>8, FailsKeeps, RenamesKeeps DEF RenameAgain
<1> QED
  BY <1>2, <1>3, <1>4, <1>5, <1>6, <1>7, <1>8 DEF Write

\* Edits, saves, deaths and launches.
LEMMA NextFiles == FilesInv /\ [Next]_vars => FilesInv'
<1> SUFFICES ASSUME FilesInv, [Next]_vars PROVE FilesInv'
  OBVIOUS
<1> USE DEF FilesInv, FilesTypes, OneIsWritten, TempIsKnown, RemovedIsSpoilt, LastSaveIsKept,
            Writing, File, Contents
<1>1. CASE UNCHANGED vars
  BY <1>1 DEF vars
<1>2. ASSUME NEW f \in Files, Edit(f) PROVE FilesInv'
  <2>1. memory[f] + 1 \in Edits
    BY <1>2, FilesConstants DEF Edit, Edits
  <2> QED
    BY <1>2, <2>1 DEF Edit
<1>3. CASE SavePreferences
  BY <1>3 DEF SavePreferences, Files
<1>4. CASE Crash
  BY <1>4 DEF Crash
<1>5. CASE Launch
  <2>1. \A f \in Files : Read(f) \in Edits
    BY EditsAreNumbers DEF Read
  <2> QED
    BY <1>5, <2>1 DEF Launch
<1> QED
  BY <1>1, <1>2, <1>3, <1>4, <1>5, WriteKeeps DEF Next

-----------------------------------------------------------------------------
(* The theorems. *)

\* The invariant of a save: at each step of JsonStore.write what is renamed or removed
\* is known.
THEOREM FilesInvariant == Spec => []FilesInv
  BY InitFiles, NextFiles, PTL DEF Spec

\* Whenever the program dies or the system fails, each file is whole and holds what was
\* last saved, but for those the system itself has spoilt.
THEOREM SavesAreKept == Spec => []LastSaveIsKept
<1>1. FilesInv => LastSaveIsKept
  BY DEF FilesInv
<1> QED
  BY <1>1, FilesInvariant, PTL
=============================================================================
