----------------------------- MODULE SerialNode -----------------------------
(***************************************************************************)
(* The node SerialLink, addons/serial_link/src/serial_link.cpp, and the    *)
(* reading thread it keeps: started, told to stop and waited for by the    *)
(* main thread, which on every image shows the state of the link and hands *)
(* on the frames of the queue.                                             *)
(*                                                                         *)
(* Of the driver: its state, where a tick waits for the system, in write,  *)
(* and its two queues, by how much they hold.  The bytes are in            *)
(* SerialPath, the order of its operations in LinkDriver.                  *)
(***************************************************************************)
EXTENDS Integers, FiniteSetsExt

CONSTANTS
    Posix,          \* whether write tries again, as on POSIX, or gives up
    Size,           \* bytes of a command
    Room,           \* bytes the terminal takes before the device reads them
    FrameQueue,     \* kFrameQueue
    CommandQueue,   \* kCommandQueue
    Budget          \* frames _process takes in an image

ASSUME NodeConstants ==
    /\ Posix \in BOOLEAN
    /\ {Size, Room, FrameQueue, CommandQueue, Budget} \subseteq Nat \ {0}

VARIABLES
    running,     \* running_ of the driver
    stopping,    \* thread_stop_
    joining,     \* whether the main thread waits in join
    thread,      \* where the thread is
    state,       \* state_
    there,       \* whether the device is there
    left,        \* bytes write has still to write
    full,        \* bytes of the terminal the device has not read
    commands,    \* how many commands_ holds
    frames,      \* how many frames_ holds
    shown,       \* last_state_
    take         \* frames _process may still take in this image

mainVars == <<running, stopping, joining, shown, take>>
linkVars == <<state, left, full, commands, frames>>
vars == <<mainVars, thread, there, linkVars>>

States == {"Disconnected", "PortOpen", "Identified", "LinkLost"}

-----------------------------------------------------------------------------
(* The thread. *)

\* thread_main looks at the flag before each tick.
Loop ==
    /\ thread = "loop"
    /\ thread' = IF stopping THEN "none" ELSE "tick"
    /\ UNCHANGED <<mainVars, there, linkVars>>

Ticks ==
    /\ thread = "tick"
    /\ UNCHANGED <<mainVars, there, full, commands>>

\* A tick after stop of the driver; the thread may end without it.  A lost link
\* whose port is closed already stays lost.
StoppedTick ==
    /\ Ticks
    /\ ~running
    /\ thread' = "loop"
    /\ state' \in {"Disconnected"} \cup ({state} \cap {"LinkLost"})
    /\ UNCHANGED <<left, frames>>

\* A port that vanishes.
Vanishes ==
    /\ Ticks
    /\ running
    /\ thread' = "loop"
    /\ state' \in {"LinkLost", "Disconnected"}
    /\ UNCHANGED <<left, frames>>

\* A frame may be queued or, when the queue is full, dropped.
MayQueue == frames' \in {frames, Min({frames + 1, FrameQueue})}

\* A handshake, on the port open, that was read first, or on another.
Greets ==
    /\ Ticks
    /\ running
    /\ state # "Identified"
    /\ state' = "PortOpen"
    /\ left' = Size
    /\ thread' = "greet"
    /\ IF state = "PortOpen" THEN MayQueue ELSE UNCHANGED frames

\* Mutant: commands are sent to a port that has not answered, and to no other.
MayPumpEarly == state = "PortOpen"

MayPump == state = "Identified"

\* pump_commands takes the commands one by one.
Pumps ==
    /\ Ticks
    /\ running
    /\ MayPump
    /\ thread' = "pump"
    /\ UNCHANGED <<state, left, frames>>

StartWrite ==
    /\ thread = "pump"
    /\ commands > 0
    /\ commands' = commands - 1
    /\ left' = Size
    /\ thread' = "write"
    /\ UNCHANGED <<mainVars, there, state, full, frames>>

\* pump_reads, and what the tick makes of it: the state may change, unless no port
\* is open.
Reads ==
    /\ \/ thread = "tick" /\ running /\ ~MayPump
       \/ thread = "pump" /\ commands = 0
    /\ thread' = "loop"
    /\ IF state = "Disconnected" THEN UNCHANGED <<state, frames>>
       ELSE state' \in States /\ MayQueue
    /\ UNCHANGED <<mainVars, there, left, full, commands>>

\* Mutant: a full terminal is waited for though its device is gone.
TriesOn == Posix

\* Whether write goes on with what the terminal has not taken.
TriesAgain == Posix /\ there

\* port_->write, then the pump or the tick goes on.  POSIX takes a full terminal
\* for a reason to try again, Windows gives up after half a second.
Write ==
    /\ thread \in {"write", "greet"}
    /\ \E n \in IF there THEN 0 .. Min({left, Room - full}) ELSE {0} :
        /\ TriesAgain => n > 0
        /\ full' = full + n
        /\ left' = IF TriesAgain THEN left - n ELSE 0
    /\ thread' = IF left' > 0 THEN thread ELSE IF thread = "write" THEN "pump" ELSE "loop"
    /\ UNCHANGED <<mainVars, there, state, commands, frames>>

-----------------------------------------------------------------------------
(* The main thread. *)

Idle == ~joining /\ take = 0 /\ UNCHANGED <<there, linkVars>>

\* start_autoconnect.
Start ==
    /\ Idle
    /\ running' = TRUE
    /\ stopping' = FALSE
    /\ thread' = IF stopping THEN "loop" ELSE thread
    /\ UNCHANGED <<joining, shown, take>>

\* Mutant: the thread is told to stop and not waited for.
StopDetached(run) ==
    /\ Idle
    /\ running' = run
    /\ stopping' = TRUE
    /\ joining' = FALSE
    /\ UNCHANGED <<thread, shown, take>>

\* stop, which tells the driver too, or _exit_tree and the destructor, which do not.
Stop(run) ==
    /\ Idle
    /\ running' = run
    /\ stopping' = TRUE
    /\ joining' = ~stopping
    /\ UNCHANGED <<thread, shown, take>>

Join ==
    /\ joining
    /\ thread = "none"
    /\ joining' = FALSE
    /\ UNCHANGED <<running, stopping, shown, take, thread, there, linkVars>>

\* try_push: a full queue refuses.
Accepted == Min({commands + 1, CommandQueue})

\* send_command of a command the check accepts.
SendCommand ==
    /\ ~joining
    /\ take = 0
    /\ commands' = Accepted
    /\ UNCHANGED <<mainVars, thread, there, state, left, full, frames>>

\* Mutant: an image without a frame shows nothing.
ImageOfFrames ==
    /\ Idle
    /\ frames > 0
    /\ shown' = state
    /\ take' = Budget
    /\ UNCHANGED <<running, stopping, joining, thread>>

\* _process: the state first,
Image ==
    /\ Idle
    /\ shown' = state
    /\ take' = Budget
    /\ UNCHANGED <<running, stopping, joining, thread>>

\* then the frames, while the thread may queue others.
Pop ==
    /\ take > 0
    /\ take' = IF frames = 0 THEN 0 ELSE take - 1
    /\ frames' = Max({0, frames - 1})
    /\ UNCHANGED <<running, stopping, joining, shown, thread, there, state, left, full,
                   commands>>

-----------------------------------------------------------------------------
(* The device. *)

Drains ==
    /\ there
    /\ full > 0
    /\ full' = 0
    /\ UNCHANGED <<mainVars, thread, there, state, left, commands, frames>>

\* Plugged or unplugged.
Plug(b) ==
    /\ there' = b /\ b # there
    /\ full' = 0
    /\ UNCHANGED <<mainVars, thread, state, left, commands, frames>>

-----------------------------------------------------------------------------

Init ==
    /\ running = FALSE
    /\ stopping = TRUE
    /\ joining = FALSE
    /\ thread = "none"
    /\ state = "Disconnected"
    /\ there \in BOOLEAN
    /\ left = 0
    /\ full = 0
    /\ commands = 0
    /\ frames = 0
    /\ shown = "none"
    /\ take = 0

Thread ==
    \/ Loop \/ StoppedTick \/ Vanishes \/ Greets \/ Pumps \/ StartWrite \/ Reads \/ Write

Main ==
    \/ Start \/ Stop(FALSE) \/ Stop(running) \/ Join \/ SendCommand \/ Image \/ Pop

Next == Thread \/ Main \/ Drains \/ \E b \in BOOLEAN : Plug(b)

Spec == Init /\ [][Next]_vars

\* The thread runs, an image comes between two calls of stop and start now and then,
\* the device reads what it is sent or is unplugged.
FairSpec ==
    /\ Spec
    /\ WF_vars(Thread) /\ WF_vars(Join) /\ SF_vars(Image) /\ WF_vars(Pop) /\ WF_vars(Drains)

-----------------------------------------------------------------------------
(* Properties. *)

TypeOK ==
    /\ running \in BOOLEAN /\ stopping \in BOOLEAN /\ joining \in BOOLEAN /\ there \in BOOLEAN
    /\ thread \in {"none", "loop", "tick", "pump", "write", "greet"}
    /\ state \in States
    /\ left \in 0 .. Size
    /\ full \in 0 .. Room
    /\ commands \in 0 .. CommandQueue
    /\ frames \in 0 .. FrameQueue
    /\ shown \in States \cup {"none"}
    /\ take \in 0 .. Budget

\* Once stop or _exit_tree has returned no thread touches the driver, which the
\* destructor is about to free, and a new start runs no second one.
ThreadIsOver == stopping /\ ~joining => thread = "none"

\* The main thread never waits for ever: wherever its stop finds the thread, full
\* terminal or pulled cable, the thread ends.
StopReturns == joining ~> ~joining

\* The last state of the link is shown, with or without frames.
StateIsShown == \A s \in States : <>[](state = s) => <>[](shown = s)

\* As long as the link is identified commands leave, however many frames come.
CommandsLeave ==
    <>[](state = "Identified" /\ running /\ ~stopping)
        => []<>(commands = 0 \/ thread = "write")
=============================================================================
