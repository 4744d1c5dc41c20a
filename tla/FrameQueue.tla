----------------------------- MODULE FrameQueue -----------------------------
(***************************************************************************)
(* What the ring of ring_buffer.h promises its two threads: a bounded      *)
(* queue.  A frame offered to a full queue is refused and counted, a frame *)
(* taken is the oldest one, whole, and none is taken twice.                *)
(*                                                                         *)
(* The producer hears of a place freed some time after it is: until then   *)
(* it may refuse a frame the queue would have room for, never accept one   *)
(* it has no room for.                                                     *)
(*                                                                         *)
(* Frames are numbered in the order they are offered.  A frame is a pair   *)
(* of halves so that a frame read while it is being written can be told    *)
(* from a whole one.                                                       *)
(***************************************************************************)
EXTENDS Naturals, Sequences

CONSTANTS
    Capacity,    \* how many frames the queue holds, a positive number
    MaxFrames    \* bound: how many frames are offered

VARIABLES
    queue,       \* the frames accepted and not yet taken
    taken,       \* the frames taken, oldest first
    occupied,    \* the places the producer holds for occupied
    refused,     \* how many frames found the queue full
    offered      \* how many frames have been offered

queueVars == <<queue, taken, occupied, refused, offered>>

Whole(n) == <<n, n>>

QueueInit ==
    /\ queue = <<>>
    /\ taken = <<>>
    /\ occupied = 0
    /\ refused = 0
    /\ offered = 0

Accept ==
    /\ offered < MaxFrames
    /\ occupied < Capacity
    /\ queue' = Append(queue, Whole(offered))
    /\ occupied' = occupied + 1
    /\ offered' = offered + 1
    /\ UNCHANGED <<taken, refused>>

Refuse ==
    /\ offered < MaxFrames
    /\ occupied = Capacity
    /\ refused' = refused + 1
    /\ offered' = offered + 1
    /\ UNCHANGED <<queue, taken, occupied>>

Take ==
    /\ queue # <<>>
    /\ taken' = Append(taken, Head(queue))
    /\ queue' = Tail(queue)
    /\ UNCHANGED <<occupied, refused, offered>>

Notice ==
    /\ occupied > Len(queue)
    /\ occupied' = occupied - 1
    /\ UNCHANGED <<queue, taken, refused, offered>>

QueueNext == Accept \/ Refuse \/ Take \/ Notice

QueueSpec == QueueInit /\ [][QueueNext]_queueVars
=============================================================================
