------------------------------ MODULE SpscRing ------------------------------
(***************************************************************************)
(* The lock-free ring of addons/serial_link/src/ring_buffer.h, between one *)
(* producer and one consumer: the serial thread and the game thread for    *)
(* frames.  (For commands the roles are swapped and the producer calls     *)
(* try_push: what is refused is not counted but returned.)                 *)
(*                                                                         *)
(* Every access to memory the other thread uses is a step of its own: the  *)
(* load of the other's index, the copy of the slot, half by half, and the  *)
(* store of one's own index.                                               *)
(*                                                                         *)
(* The indices are stored with release and loaded with acquire: a thread   *)
(* that loads the other's index gets a value it has held, never an older   *)
(* one than the last it got, with every slot access made before that value *)
(* was stored, but not always the latest.  seenTail and seenHead are what  *)
(* each thread would load now; they follow tail and head one store after   *)
(* the other, at any time.                                                 *)
(***************************************************************************)
EXTENDS Naturals, Sequences, Functions

CONSTANTS
    N,           \* slots of the ring, one of which stays empty
    MaxFrames    \* bound: how many frames the producer offers

ASSUME RingConstants ==
    /\ N \in Nat
    /\ N >= 2
    /\ MaxFrames \in Nat

VARIABLES
    slots,       \* slots_
    head,        \* head_, written by the producer only
    tail,        \* tail_, written by the consumer only
    dropped,     \* dropped_
    seenTail,    \* the store of tail_ the producer's loads have reached
    seenHead,    \* the store of head_ the consumer's loads have reached
    frame,       \* the frame the producer is offering, or the next one
    producer,    \* where the producer is in push
    consumer,    \* where the consumer is in pop
    out,         \* what the consumer has copied so far
    handled      \* the frames pop has returned, oldest first

ringVars == <<slots, head, tail, dropped, seenTail, seenHead, frame, producer,
              consumer, out, handled>>

producerVars == <<head, dropped, seenTail, frame, producer>>
consumerVars == <<tail, seenHead, consumer, out, handled>>

Slots == 0 .. N - 1

\* Mutant: the mask forgotten.
AfterUnmasked(i) == i + 1

\* (i + 1) & (N - 1), N being a power of two.
After(i) == IF i = N - 1 THEN 0 ELSE i + 1

\* Mutant: no room kept between head and tail.
FullNever == FALSE

Full == After(head) = seenTail

\* Mutant: the last frame waits for the next one.
EmptyButOne == seenHead \in {tail, After(tail)}

Empty == seenHead = tail

-----------------------------------------------------------------------------
(* The producer, in push. *)

\* The load of tail_: the outcome of try_push is decided.
Offer ==
    /\ producer = "idle"
    /\ frame < MaxFrames
    /\ producer' = IF Full THEN "refused" ELSE "first"
    /\ UNCHANGED <<slots, head, dropped, seenTail, frame, consumerVars>>

WriteFirst ==
    /\ producer = "first"
    /\ slots' = [slots EXCEPT ![head] = <<frame, @[2]>>]
    /\ producer' = "second"
    /\ UNCHANGED <<head, dropped, seenTail, frame, consumerVars>>

WriteSecond ==
    /\ producer = "second"
    /\ slots' = [slots EXCEPT ![head] = <<@[1], frame>>]
    /\ producer' = "publish"
    /\ UNCHANGED <<head, dropped, seenTail, frame, consumerVars>>

Publish ==
    /\ producer = "publish"
    /\ head' = After(head)
    /\ frame' = frame + 1
    /\ producer' = "idle"
    /\ UNCHANGED <<slots, dropped, seenTail, consumerVars>>

\* Mutant: make room by moving the consumer's index, which the comment of
\* try_push rules out.
OverwriteOldest ==
    /\ producer = "refused"
    /\ tail' = After(tail)
    /\ producer' = "first"
    /\ UNCHANGED <<slots, head, dropped, seenTail, seenHead, frame, consumer, out, handled>>

\* The serial thread cannot wait: the frame is lost, and counted.
Drop ==
    /\ producer = "refused"
    /\ dropped' = dropped + 1
    /\ frame' = frame + 1
    /\ producer' = "idle"
    /\ UNCHANGED <<slots, head, seenTail, consumerVars>>

-----------------------------------------------------------------------------
(* The consumer, in pop. *)

\* The load of head_: an empty ring ends the call, and the drain.
Poll ==
    /\ consumer = "idle"
    /\ ~Empty
    /\ consumer' = "first"
    /\ UNCHANGED <<slots, producerVars, tail, seenHead, out, handled>>

ReadFirst ==
    /\ consumer = "first"
    /\ out' = <<slots[tail][1], out[2]>>
    /\ consumer' = "second"
    /\ UNCHANGED <<slots, producerVars, tail, seenHead, handled>>

ReadSecond ==
    /\ consumer = "second"
    /\ out' = <<out[1], slots[tail][2]>>
    /\ consumer' = "free"
    /\ UNCHANGED <<slots, producerVars, tail, seenHead, handled>>

Free ==
    /\ consumer = "free"
    /\ tail' = After(tail)
    /\ handled' = Append(handled, out)
    /\ consumer' = "idle"
    /\ UNCHANGED <<slots, producerVars, seenHead, out>>

-----------------------------------------------------------------------------
(* A store of an index reaches the other thread. *)

SeeTail ==
    /\ seenTail # tail
    /\ seenTail' = After(seenTail)
    /\ UNCHANGED <<slots, head, dropped, frame, producer, consumerVars>>

SeeHead ==
    /\ seenHead # head
    /\ seenHead' = After(seenHead)
    /\ UNCHANGED <<slots, producerVars, tail, consumer, out, handled>>

-----------------------------------------------------------------------------

RingInit ==
    /\ slots = [i \in Slots |-> <<0, 0>>]
    /\ head = 0
    /\ tail = 0
    /\ dropped = 0
    /\ seenTail = 0
    /\ seenHead = 0
    /\ frame = 0
    /\ producer = "idle"
    /\ consumer = "idle"
    /\ out = <<0, 0>>
    /\ handled = <<>>

Produce == Offer \/ WriteFirst \/ WriteSecond \/ Publish \/ Drop
Consume == Poll \/ ReadFirst \/ ReadSecond \/ Free

RingNext == Produce \/ Consume \/ SeeTail \/ SeeHead

RingSpec == RingInit /\ [][RingNext]_ringVars

\* SerialLink._process drains the ring on every image, and an atomic store
\* reaches the other thread in a finite time.  Nothing is asked of the serial
\* thread.
FairRingSpec == RingSpec /\ WF_ringVars(Consume) /\ WF_ringVars(SeeHead)

-----------------------------------------------------------------------------
(* Properties. *)

Frames == Nat \X Nat

\* Indices stay within the ring, which they address without a test.
RingTypeOK ==
    /\ slots \in [Slots -> Frames]
    /\ head \in Slots
    /\ tail \in Slots
    /\ dropped \in Nat
    /\ seenTail \in Slots
    /\ seenHead \in Slots
    /\ frame \in Nat
    /\ producer \in {"idle", "refused", "first", "second", "publish"}
    /\ consumer \in {"idle", "first", "second", "free"}
    /\ out \in Frames
    /\ handled \in Seq(Frames)

Writing == producer \in {"first", "second", "publish"}
Reading == consumer \in {"first", "second", "free"}

\* The two threads are never in the same slot: that would be a data race on
\* a plain object, undefined in C++.
NeverSameSlot == Writing /\ Reading => head # tail

\* How many stores lead from index i to index j, as SpscRing.size computes
\* it, and the slot of the frame at place k of the queue.
Distance(i, j) == IF j >= i THEN j - i ELSE j + N - i
At(k) == IF tail + k <= N THEN tail + k - 1 ELSE tail + k - 1 - N

Pending == [k \in 1 .. Distance(tail, head) |-> slots[At(k)]]

\* A refused frame is refused for good once tail_ is loaded.
Refused == IF producer = "refused" THEN 1 ELSE 0

Queue == INSTANCE FrameQueue WITH
    Capacity <- N - 1,
    queue <- Pending,
    taken <- handled,
    occupied <- Distance(seenTail, head),
    refused <- dropped + Refused,
    offered <- frame + Refused

\* The ring is the bounded queue it stands for: whole frames, in order, each
\* once, refused only when the producer sees it full and counted when it is.
ImplementsQueue == Queue!QueueSpec

\* An accepted frame reaches the game thread, the last one of a race too.
AcceptedIsHandled ==
    \A n \in 0 .. MaxFrames - 1 :
        <<n, n>> \in Range(Pending) ~> <<n, n>> \in Range(handled)
=============================================================================
