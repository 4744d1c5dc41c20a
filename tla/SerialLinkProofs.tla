-------------------------- MODULE SerialLinkProofs --------------------------
(***************************************************************************)
(* Proofs about the two threads of the serial link: the node that starts,  *)
(* stops and waits for the reading thread (SerialNode), for queues,        *)
(* budgets and terminals of any size, and the ring between them (SpscRing),*)
(* for a ring of any size and any number of frames.  No step of one model  *)
(* is a step of the other: they share no variable.                         *)
(*                                                                         *)
(* The argument for the ring is the order in which one meets, going round  *)
(* it, the producer's knowledge of tail_, tail_, the consumer's knowledge  *)
(* of head_ and head_.  Each thread acts on knowledge that is old, and old *)
(* on the safe side.                                                       *)
(***************************************************************************)
EXTENDS SpscRing, SerialNode, Orders

-----------------------------------------------------------------------------
(* The ring: arithmetic of its indices. *)

\* An index stays in the ring.
LEMMA AfterType ==
    ASSUME NEW i \in Slots
    PROVE  After(i) \in Slots
  BY RingConstants DEF After, Slots

\* The stores from one index to another, and how one more store on either
\* side changes their number.
LEMMA DistanceType ==
    ASSUME NEW i \in Slots, NEW j \in Slots
    PROVE  /\ Distance(i, j) \in 0 .. N - 1
           /\ Distance(i, j) = 0 <=> i = j
           /\ Distance(i, j) = N - 1 <=> After(j) = i
  BY RingConstants DEF Distance, After, Slots

\* One more store at the far end makes the stores between one more.
LEMMA OneMoreStore ==
    ASSUME NEW i \in Slots, NEW j \in Slots, After(j) # i
    PROVE  Distance(i, After(j)) = Distance(i, j) + 1
  BY RingConstants DEF Distance, After, Slots

\* One more store at the near end makes the stores between one fewer.
LEMMA OneStoreSeen ==
    ASSUME NEW i \in Slots, NEW j \in Slots, i # j
    PROVE  Distance(After(i), j) = Distance(i, j) - 1
  BY RingConstants DEF Distance, After, Slots

-----------------------------------------------------------------------------
(* The ring: the inductive invariant. *)

\* Going round the ring one meets what the producer knows freed, what is
\* freed, what the consumer knows published and what is published.
InOrder ==
    Distance(seenTail, tail) + Distance(tail, seenHead) + Distance(seenHead, head)
        = Distance(seenTail, head)

\* The producer writes where it has seen room.
RoomToWrite == Writing => Distance(seenTail, head) < N - 1

\* The consumer reads where it has seen a frame.
FrameToRead == Reading => tail # seenHead

\* How much of its slot each thread has copied.
Copied ==
    /\ producer \in {"second", "publish"} => slots[head][1] = frame
    /\ producer = "publish" => slots[head][2] = frame
    /\ consumer \in {"second", "free"} => out[1] = slots[tail][1]
    /\ consumer = "free" => out[2] = slots[tail][2]

\* A call of push is for a frame still to be offered.
Offering == producer # "idle" => frame < MaxFrames

IInv == RingTypeOK /\ InOrder /\ RoomToWrite /\ FrameToRead /\ Copied /\ Offering

\* The invariant keeps the two threads apart.
LEMMA Apart == RingTypeOK /\ InOrder /\ RoomToWrite /\ FrameToRead => NeverSameSlot
<1> SUFFICES ASSUME RingTypeOK, InOrder, RoomToWrite, FrameToRead,
                    Writing, Reading, head = tail
             PROVE  FALSE
  BY DEF NeverSameSlot
<1>1. /\ head \in Slots /\ tail \in Slots /\ seenHead \in Slots /\ seenTail \in Slots
  BY DEF RingTypeOK
<1>2. Distance(tail, seenHead) + Distance(seenHead, head) = N
  BY <1>1, RingConstants DEF Distance, Slots, FrameToRead
<1>3. Distance(seenTail, tail) \in 0 .. N - 1 /\ Distance(seenTail, head) < N - 1
  BY <1>1, DistanceType DEF RoomToWrite
<1> QED
  BY <1>1, <1>2, <1>3, DistanceType, RingConstants DEF InOrder

-----------------------------------------------------------------------------

\* The empty ring satisfies the invariant.
LEMMA InitInv == RingInit => IInv
<1> SUFFICES ASSUME RingInit PROVE IInv
  OBVIOUS
<1>1. 0 \in Slots
  BY RingConstants DEF Slots
<1>2. RingTypeOK
  BY <1>1 DEF RingInit, RingTypeOK, Frames
<1> QED
  BY <1>1, <1>2, DistanceType DEF RingInit, IInv, InOrder, RoomToWrite, FrameToRead, Copied,
      Offering, Writing, Reading

\* No step of either thread takes an index out of the ring.
LEMMA TypeStep == RingTypeOK /\ [RingNext]_ringVars => RingTypeOK'
<1> SUFFICES ASSUME RingTypeOK, [RingNext]_ringVars PROVE RingTypeOK'
  OBVIOUS
<1> USE DEF RingTypeOK, Frames
<1>1. CASE Offer
  BY <1>1 DEF Offer, consumerVars
<1>2. CASE WriteFirst
  BY <1>2 DEF WriteFirst, consumerVars
<1>3. CASE WriteSecond
  BY <1>3 DEF WriteSecond, consumerVars
<1>4. CASE Publish
  BY <1>4, AfterType DEF Publish, consumerVars
<1>5. CASE Drop
  BY <1>5 DEF Drop, consumerVars
<1>6. CASE Poll
  BY <1>6 DEF Poll, producerVars
<1>7. CASE ReadFirst
  BY <1>7 DEF ReadFirst, producerVars
<1>8. CASE ReadSecond
  BY <1>8 DEF ReadSecond, producerVars
<1>9. CASE Free
  BY <1>9, AfterType DEF Free, producerVars
<1>10. CASE SeeTail
  BY <1>10, AfterType DEF SeeTail, consumerVars
<1>11. CASE SeeHead
  BY <1>11, AfterType DEF SeeHead, producerVars
<1>12. CASE UNCHANGED ringVars
  BY <1>12 DEF ringVars
<1> QED
  BY <1>1, <1>2, <1>3, <1>4, <1>5, <1>6, <1>7, <1>8, <1>9, <1>10, <1>11, <1>12
     DEF RingNext, Produce, Consume

\* A call of push is under way for a frame still to be offered.
LEMMA OfferingStep == Offering /\ [RingNext]_ringVars => Offering'
  BY DEF Offering, RingNext, Produce, Consume, ringVars, producerVars, Offer, WriteFirst,
      WriteSecond, Publish, Drop, Poll, ReadFirst, ReadSecond, Free, SeeTail, SeeHead

\* Each step of either thread keeps the invariant.
LEMMA InvStep == IInv /\ [RingNext]_ringVars => IInv'
<1> SUFFICES ASSUME IInv, [RingNext]_ringVars PROVE IInv'
  OBVIOUS
<1>0. RingTypeOK /\ RingTypeOK' /\ Offering'
  BY TypeStep, OfferingStep DEF IInv
<1>a. NeverSameSlot
  BY Apart DEF IInv
<1>b. /\ head \in Slots /\ tail \in Slots /\ seenHead \in Slots /\ seenTail \in Slots
      /\ slots \in [Slots -> Nat \X Nat] /\ frame \in Nat
  BY <1>0 DEF RingTypeOK, Frames
<1> USE DEF IInv, Copied
<1>1. CASE Offer
  <2>1. InOrder' /\ FrameToRead'
    BY <1>1 DEF Offer, consumerVars, InOrder, FrameToRead, Reading
  <2>2. RoomToWrite'
    <3>1. ~Full => Distance(seenTail, head) < N - 1
      BY <1>b, DistanceType, RingConstants DEF Full
    <3> QED
      BY <1>1, <3>1 DEF Offer, consumerVars, RoomToWrite, Writing
  <2>3. Copied'
    BY <1>1 DEF Offer, consumerVars
  <2> QED
    BY <1>0, <2>1, <2>2, <2>3
<1>2. CASE WriteFirst
  <2>1. InOrder' /\ RoomToWrite' /\ FrameToRead'
    BY <1>2 DEF WriteFirst, consumerVars, InOrder, RoomToWrite, FrameToRead,
        Writing, Reading, Distance
  <2>2. slots'[head] = <<frame, slots[head][2]>>
    BY <1>b, <1>2 DEF WriteFirst
  <2>3. Reading => slots'[tail] = slots[tail]
    BY <1>a, <1>b, <1>2 DEF WriteFirst, NeverSameSlot, Writing
  <2>4. Copied'
    BY <1>2, <2>2, <2>3 DEF WriteFirst, consumerVars, Reading
  <2> QED
    BY <1>0, <2>1, <2>4
<1>3. CASE WriteSecond
  BY <1>0, <1>a, <1>b, <1>3
     DEF WriteSecond, consumerVars, InOrder, RoomToWrite, FrameToRead, Writing, Reading,
         NeverSameSlot
<1>4. CASE Publish
  <2>1. Distance(seenTail, After(head)) = Distance(seenTail, head) + 1
    BY <1>b, <1>4, DistanceType, OneMoreStore DEF Publish, RoomToWrite, Writing
  <2>2. After(head) # seenHead
    BY <1>b, <2>1, DistanceType, RingConstants, <1>4
       DEF InOrder, RoomToWrite, Writing, Publish
  <2>3. Distance(seenHead, After(head)) = Distance(seenHead, head) + 1
    BY <1>b, <2>2, OneMoreStore
  <2> QED
    BY <1>0, <1>b, <1>4, <2>1, <2>3, DistanceType
       DEF Publish, consumerVars, InOrder, RoomToWrite, FrameToRead, Writing, Reading
<1>5. CASE Drop
  BY <1>0, <1>5 DEF Drop, consumerVars, InOrder, RoomToWrite, FrameToRead, Writing, Reading
<1>6. CASE Poll
  BY <1>0, <1>6
     DEF Poll, producerVars, InOrder, RoomToWrite, FrameToRead, Writing, Reading, Empty
<1>7. CASE ReadFirst
  BY <1>0, <1>7
     DEF ReadFirst, producerVars, InOrder, RoomToWrite, FrameToRead, Writing, Reading
<1>8. CASE ReadSecond
  BY <1>0, <1>8
     DEF ReadSecond, producerVars, InOrder, RoomToWrite, FrameToRead, Writing, Reading
<1>9. CASE Free
  <2>1. Distance(After(tail), seenHead) = Distance(tail, seenHead) - 1
    BY <1>b, <1>9, OneStoreSeen DEF Free, FrameToRead, Reading
  <2>a. Distance(tail, seenHead) > 0
    <3>1. tail # seenHead
      BY <1>9 DEF Free, FrameToRead, Reading
    <3> QED
      BY <1>b, <3>1, DistanceType, RingConstants
  <2>b. /\ Distance(seenTail, tail) < N - 1
        /\ Distance(seenTail, tail) \in Nat
    BY <1>b, <2>a, DistanceType, RingConstants DEF InOrder
  <2>2. After(tail) # seenTail
    BY <1>b, <2>b, DistanceType
  <2>3. Distance(seenTail, After(tail)) = Distance(seenTail, tail) + 1
    BY <1>b, <2>2, OneMoreStore
  <2>4. InOrder'
    <3>1. /\ tail' = After(tail)
          /\ UNCHANGED <<head, seenTail, seenHead>>
      BY <1>9 DEF Free, producerVars
    <3> QED
      BY <1>b, <2>1, <2>3, <3>1, DistanceType DEF InOrder
  <2>5. RoomToWrite' /\ FrameToRead'
    BY <1>9 DEF Free, producerVars, RoomToWrite, FrameToRead, Writing, Reading
  <2>6. Copied'
    BY <1>9 DEF Free, producerVars
  <2> QED
    BY <1>0, <2>4, <2>5, <2>6
<1>10. CASE SeeTail
  <2>1. Distance(After(seenTail), tail) = Distance(seenTail, tail) - 1
    BY <1>b, <1>10, OneStoreSeen DEF SeeTail
  <2>2. seenTail # head
    BY <1>b, <1>10, DistanceType DEF SeeTail, InOrder
  <2>3. Distance(After(seenTail), head) = Distance(seenTail, head) - 1
    BY <1>b, <2>2, OneStoreSeen
  <2>4. InOrder'
    <3>1. /\ seenTail' = After(seenTail)
          /\ UNCHANGED <<head, tail, seenHead>>
      BY <1>10 DEF SeeTail, consumerVars
    <3> QED
      BY <1>b, <2>1, <2>3, <3>1, DistanceType DEF InOrder
  <2>5. RoomToWrite'
    BY <1>b, <1>10, <2>3, DistanceType, RingConstants
       DEF SeeTail, consumerVars, RoomToWrite, Writing
  <2>6. FrameToRead' /\ Copied'
    BY <1>10 DEF SeeTail, consumerVars, FrameToRead, Reading
  <2> QED
    BY <1>0, <2>4, <2>5, <2>6
<1>11. CASE SeeHead
  <2>1. Distance(After(seenHead), head) = Distance(seenHead, head) - 1
    BY <1>b, <1>11, OneStoreSeen DEF SeeHead
  <2>2. After(seenHead) # tail
    BY <1>b, <1>11, <2>1, DistanceType, RingConstants DEF InOrder, SeeHead
  <2>3. Distance(tail, After(seenHead)) = Distance(tail, seenHead) + 1
    BY <1>b, <2>2, OneMoreStore
  <2>4. After(seenHead) \in Slots
    BY <1>b, AfterType
  <2> QED
    BY <1>0, <1>b, <1>11, <2>1, <2>2, <2>3, <2>4, DistanceType
       DEF SeeHead, producerVars, InOrder, RoomToWrite, FrameToRead, Writing, Reading
<1>12. CASE UNCHANGED ringVars
  BY <1>0, <1>12 DEF ringVars, InOrder, RoomToWrite, FrameToRead, Writing, Reading
<1> QED
  BY <1>1, <1>2, <1>3, <1>4, <1>5, <1>6, <1>7, <1>8, <1>9, <1>10, <1>11, <1>12
     DEF RingNext, Produce, Consume

\* The ring is type correct: no index leaves it, whatever its size.
THEOREM RingTypeCorrect == RingSpec => []RingTypeOK
<1>1. RingInit => RingTypeOK
  BY InitInv DEF IInv
<1> QED
  BY <1>1, TypeStep, PTL DEF RingSpec

\* The invariant holds of every reachable state of push and pop.
THEOREM RingInvariant == RingSpec => []IInv
  BY InitInv, InvStep, PTL DEF RingSpec

\* The two threads never touch the same slot: no data race on a frame.
THEOREM ThreadsApart == RingSpec => []NeverSameSlot
<1>1. IInv => NeverSameSlot
  BY Apart DEF IInv
<1> QED
  BY <1>1, RingInvariant, PTL

-----------------------------------------------------------------------------
(* The ring implements the queue. *)

\* Where the frames of the queue lie.
LEMMA QueuePlaces ==
    ASSUME RingTypeOK, InOrder
    PROVE  /\ Distance(tail, head) = Distance(tail, seenHead) + Distance(seenHead, head)
           /\ Distance(tail, head) = Distance(seenTail, head) - Distance(seenTail, tail)
           /\ \A k \in 1 .. Distance(tail, head) : At(k) \in Slots /\ At(k) # head
           /\ At(Distance(tail, head) + 1) = head
<1>1. /\ head \in Slots /\ tail \in Slots /\ seenHead \in Slots /\ seenTail \in Slots
  BY DEF RingTypeOK
<1>2. Distance(tail, seenHead) + Distance(seenHead, head) \in 0 .. N - 1
  BY <1>1, DistanceType, RingConstants DEF InOrder
<1>3. Distance(tail, head) = Distance(tail, seenHead) + Distance(seenHead, head)
  BY <1>1, <1>2, RingConstants DEF Distance, Slots
<1>4. Distance(tail, head) = Distance(seenTail, head) - Distance(seenTail, tail)
  BY <1>1, <1>3, DistanceType, RingConstants DEF InOrder
<1>5. \A k \in 1 .. Distance(tail, head) : At(k) \in Slots /\ At(k) # head
  BY <1>1, RingConstants DEF Distance, Slots, At
<1>6. At(Distance(tail, head) + 1) = head
  BY <1>1, RingConstants DEF Distance, Slots, At
<1> QED
  BY <1>3, <1>4, <1>5, <1>6

\* The queue is a sequence as long as the indices are apart.
LEMMA PendingType ==
    ASSUME RingTypeOK, InOrder
    PROVE  /\ Pending \in Seq(Frames)
           /\ Len(Pending) = Distance(tail, head)
<1>1. Distance(tail, head) \in Nat
  BY DistanceType, RingConstants DEF RingTypeOK
<1>2. \A k \in 1 .. Distance(tail, head) : slots[At(k)] \in Frames
  BY QueuePlaces DEF RingTypeOK
<1> QED
  BY <1>1, <1>2 DEF Pending

\* The empty ring is the empty queue.
LEMMA InitImplements == RingInit => Queue!QueueInit
<1> SUFFICES ASSUME RingInit PROVE Queue!QueueInit
  OBVIOUS
<1>1. Distance(0, 0) = 0
  BY RingConstants DEF Distance
<1>2. Pending = <<>>
  BY <1>1 DEF RingInit, Pending
<1> QED
  BY <1>1, <1>2 DEF RingInit, Queue!QueueInit, Refused

\* A write to the slot at head leaves the queue as it is.
LEMMA WriteKeepsQueue ==
    ASSUME RingTypeOK, InOrder, UNCHANGED <<head, tail>>,
           \A i \in Slots \ {head} : slots'[i] = slots[i]
    PROVE  Pending' = Pending
<1>1. \A k \in 1 .. Distance(tail, head) : slots'[At(k)] = slots[At(k)]
  BY QueuePlaces
<1> QED
  BY <1>1 DEF Pending, At

\* The store of head_ is what puts a frame in the queue, whole and last.
LEMMA PublishAccepts ==
    ASSUME IInv, IInv', Publish
    PROVE  Queue!Accept
<1>1. /\ head \in Slots /\ tail \in Slots /\ seenHead \in Slots /\ seenTail \in Slots
      /\ slots \in [Slots -> Frames] /\ frame \in Nat /\ dropped \in Nat
  BY DEF IInv, RingTypeOK
<1>2. /\ producer = "publish"
      /\ head' = After(head)
      /\ frame' = frame + 1
      /\ producer' = "idle"
      /\ UNCHANGED <<slots, dropped, seenTail, tail, seenHead, handled>>
  BY DEF Publish, consumerVars
<1>3. Distance(seenTail, head) < N - 1 /\ frame < MaxFrames
  BY <1>2 DEF IInv, RoomToWrite, Writing, Offering
<1>4. Distance(seenTail, head') = Distance(seenTail, head) + 1
  BY <1>1, <1>2, <1>3, DistanceType, OneMoreStore
<1>5. slots[head] = <<frame, frame>>
  BY <1>1, <1>2 DEF IInv, Copied, Frames
<1>6. Distance(tail, head') = Distance(tail, head) + 1
  <2>1. Distance(tail, head) < N - 1
    BY <1>1, <1>3, QueuePlaces, DistanceType, RingConstants DEF IInv
  <2> QED
    BY <1>1, <1>2, <2>1, DistanceType, OneMoreStore
<1>7. Pending' = Append(Pending, <<frame, frame>>)
  <2>1. \A k \in 1 .. Distance(tail, head) + 1 : slots'[At(k)'] = slots[At(k)]
    BY <1>2 DEF At
  <2>2. slots[At(Distance(tail, head) + 1)] = <<frame, frame>>
    BY <1>5, QueuePlaces DEF IInv
  <2>3. Distance(tail, head) \in Nat
    BY <1>1, DistanceType
  <2>4. Pending' = [k \in 1 .. Distance(tail, head) + 1 |-> slots[At(k)]]
    BY <1>2, <1>6, <2>1 DEF Pending
  <2>5. Pending \in Seq(Frames) /\ Len(Pending) = Distance(tail, head)
    BY PendingType DEF IInv
  <2>6. \A k \in 1 .. Distance(tail, head) : Pending[k] = slots[At(k)]
    BY DEF Pending
  <2>7. Append(Pending, <<frame, frame>>) =
            [k \in 1 .. Distance(tail, head) + 1 |->
                IF k = Distance(tail, head) + 1 THEN <<frame, frame>> ELSE Pending[k]]
    BY <2>3, <2>5
  <2> QED
    BY <2>2, <2>3, <2>4, <2>6, <2>7
<1> QED
  BY <1>1, <1>2, <1>3, <1>4, <1>7, <1>5, PendingType
     DEF Queue!Accept, Queue!Whole, Refused

\* The tail of a sequence, as a function.
LEMMA TailOfSeq ==
    ASSUME NEW S, NEW s \in Seq(S), Len(s) >= 1
    PROVE  Tail(s) = [k \in 1 .. Len(s) - 1 |-> s[k + 1]]
<1>1. /\ Tail(s) \in Seq(S)
      /\ Len(Tail(s)) = Len(s) - 1
      /\ \A k \in 1 .. Len(s) - 1 : Tail(s)[k] = s[k + 1]
  OBVIOUS
<1> DEFINE t == Tail(s)
<1>2. t = [k \in 1 .. Len(t) |-> t[k]]
  <2> HIDE DEF t
  <2> SUFFICES ASSUME t \in Seq(S) PROVE t = [k \in 1 .. Len(t) |-> t[k]]
    BY <1>1 DEF t
  <2> QED
    OBVIOUS
<1> QED
  BY <1>1, <1>2

\* The load of tail_ is what refuses a frame, the queue seen full.
LEMMA OfferRefuses ==
    ASSUME IInv, Offer, Full
    PROVE  Queue!Refuse
<1>1. /\ head \in Slots /\ seenTail \in Slots /\ frame \in Nat /\ dropped \in Nat
  BY DEF IInv, RingTypeOK
<1>2. /\ producer = "idle"
      /\ producer' = "refused"
      /\ frame < MaxFrames
      /\ UNCHANGED <<slots, head, dropped, seenTail, frame, tail, handled>>
  BY DEF Offer, consumerVars
<1>3. Distance(seenTail, head) = N - 1
  BY <1>1, DistanceType DEF Full
<1>4. Pending' = Pending /\ UNCHANGED <<handled, Distance(seenTail, head)>>
  BY <1>2 DEF Pending, At
<1> QED
  BY <1>1, <1>2, <1>3, <1>4 DEF Queue!Refuse, Refused

\* The store of tail_ is what takes the oldest frame, as it was copied.
LEMMA FreeTakes ==
    ASSUME IInv, IInv', Free
    PROVE  Queue!Take
<1>1. /\ head \in Slots /\ tail \in Slots /\ seenHead \in Slots /\ seenTail \in Slots
      /\ slots \in [Slots -> Frames] /\ out \in Frames
  BY DEF IInv, RingTypeOK
<1>2. /\ consumer = "free"
      /\ tail' = After(tail)
      /\ handled' = Append(handled, out)
      /\ UNCHANGED <<slots, head, dropped, seenTail, frame, producer, seenHead>>
  BY DEF Free, producerVars
<1>3. tail # seenHead
  BY <1>2 DEF IInv, FrameToRead, Reading
<1>4. Distance(tail, head) >= 1 /\ Distance(tail, head) \in Nat
  BY <1>1, <1>3, QueuePlaces, DistanceType, RingConstants DEF IInv
<1>5. Distance(tail', head) = Distance(tail, head) - 1
  <2>1. tail # head
    BY <1>1, <1>4, DistanceType
  <2> QED
    BY <1>1, <1>2, <2>1, OneStoreSeen
<1>6. out = slots[tail]
  <2>1. out[1] = slots[tail][1] /\ out[2] = slots[tail][2]
    BY <1>2 DEF IInv, Copied
  <2> QED
    BY <1>1, <2>1 DEF Frames
<1>7. Pending \in Seq(Frames) /\ Len(Pending) = Distance(tail, head)
  BY PendingType DEF IInv
<1>8. Head(Pending) = out
  <2>1. At(1) = tail
    BY <1>1, RingConstants DEF At, Slots
  <2> QED
    BY <1>4, <1>6, <1>7, <2>1 DEF Pending
<1>9. Pending' = Tail(Pending)
  <2>1. \A k \in 1 .. Distance(tail, head) - 1 : At(k)' = At(k + 1)
    BY <1>1, <1>2, <1>4, RingConstants DEF At, After, Slots, Distance
  <2>2. Pending' = [k \in 1 .. Distance(tail, head) - 1 |-> slots[At(k + 1)]]
    BY <1>2, <1>5, <2>1 DEF Pending
  <2>3. \A k \in 1 .. Distance(tail, head) : Pending[k] = slots[At(k)]
    BY DEF Pending
  <2>4. Tail(Pending) = [k \in 1 .. Distance(tail, head) - 1 |-> Pending[k + 1]]
    BY <1>4, <1>7, TailOfSeq
  <2> QED
    BY <1>4, <2>2, <2>3, <2>4
<1>10. UNCHANGED Distance(seenTail, head)
  BY <1>2
<1> QED
  BY <1>2, <1>4, <1>7, <1>8, <1>9, <1>10 DEF Queue!Take, Refused

\* A store of tail_ reaching the producer is a place it learns to be free.
LEMMA SeeTailNotices ==
    ASSUME IInv, SeeTail
    PROVE  Queue!Notice
<1>1. /\ head \in Slots /\ tail \in Slots /\ seenHead \in Slots /\ seenTail \in Slots
  BY DEF IInv, RingTypeOK
<1>2. /\ seenTail # tail
      /\ seenTail' = After(seenTail)
      /\ UNCHANGED <<slots, head, dropped, frame, producer, tail, handled>>
  BY DEF SeeTail, consumerVars
<1>3. /\ Distance(seenTail, head) > Distance(tail, head)
      /\ seenTail # head
  BY <1>1, <1>2, QueuePlaces, DistanceType, RingConstants DEF IInv
<1>4. Distance(seenTail', head) = Distance(seenTail, head) - 1
  BY <1>1, <1>2, <1>3, OneStoreSeen
<1>5. Pending' = Pending
  BY <1>2 DEF Pending, At
<1> QED
  BY <1>2, <1>3, <1>4, <1>5, PendingType DEF IInv, Queue!Notice, Refused

\* Every step is one of the queue or leaves the queue as it is.
LEMMA StepImplements ==
    ASSUME IInv, IInv', [RingNext]_ringVars
    PROVE  [Queue!QueueNext]_(Queue!queueVars)
<1> USE DEF Queue!queueVars
<1>1. CASE Offer /\ Full
  BY <1>1, OfferRefuses DEF Queue!QueueNext
<1>2. CASE Offer /\ ~Full
  BY <1>2 DEF Offer, consumerVars, Pending, At, Refused
<1>3. CASE WriteFirst
  <2>1. Pending' = Pending
    BY <1>3, WriteKeepsQueue DEF IInv, RingTypeOK, WriteFirst, consumerVars
  <2> QED
    BY <1>3, <2>1 DEF WriteFirst, consumerVars, Refused
<1>4. CASE WriteSecond
  <2>1. Pending' = Pending
    BY <1>4, WriteKeepsQueue DEF IInv, RingTypeOK, WriteSecond, consumerVars
  <2> QED
    BY <1>4, <2>1 DEF WriteSecond, consumerVars, Refused
<1>5. CASE Publish
  BY <1>5, PublishAccepts DEF Queue!QueueNext
<1>6. CASE Drop
  <2>1. frame \in Nat /\ dropped \in Nat
    BY DEF IInv, RingTypeOK
  <2> QED
    BY <1>6, <2>1 DEF Drop, consumerVars, Pending, At, Refused
<1>7. CASE Poll
  BY <1>7 DEF Poll, producerVars, Pending, At, Refused
<1>8. CASE ReadFirst
  BY <1>8 DEF ReadFirst, producerVars, Pending, At, Refused
<1>9. CASE ReadSecond
  BY <1>9 DEF ReadSecond, producerVars, Pending, At, Refused
<1>10. CASE Free
  BY <1>10, FreeTakes DEF Queue!QueueNext
<1>11. CASE SeeTail
  BY <1>11, SeeTailNotices DEF Queue!QueueNext
<1>12. CASE SeeHead
  BY <1>12 DEF SeeHead, producerVars, Pending, At, Refused
<1>13. CASE UNCHANGED ringVars
  BY <1>13 DEF ringVars, Pending, At, Refused
<1> QED
  BY <1>1, <1>2, <1>3, <1>4, <1>5, <1>6, <1>7, <1>8, <1>9, <1>10, <1>11, <1>12, <1>13
     DEF RingNext, Produce, Consume

\* The ring is a bounded queue, for every size: frames come out whole, in
\* order, each once, and a loss is counted.
THEOREM RingIsAQueue == RingSpec => ImplementsQueue
<1>1. RingInit => Queue!QueueInit
  BY InitImplements
<1>2. IInv /\ IInv' /\ [RingNext]_ringVars => [Queue!QueueNext]_(Queue!queueVars)
  BY StepImplements
<1> QED
  BY <1>1, <1>2, RingInvariant, PTL DEF RingSpec, ImplementsQueue, Queue!QueueSpec

-----------------------------------------------------------------------------
(* The node: its inductive invariant, the types, who waits has told the thread to *)
(* stop, and a thread told to stop that nobody waits for has ended.               *)

WaiterHasTold == joining => stopping

NodeInv == TypeOK /\ WaiterHasTold /\ ThreadIsOver

LEMMA InitNode == Init => NodeInv
<1> SUFFICES ASSUME Init PROVE NodeInv
    OBVIOUS
<1>1. /\ left \in 0 .. Size /\ full \in 0 .. Room
      /\ commands \in 0 .. CommandQueue /\ frames \in 0 .. FrameQueue
      /\ take \in 0 .. Budget
    BY NodeConstants DEF Init
<1>2. TypeOK
    BY <1>1 DEF Init, TypeOK, States
<1> QED  BY <1>2 DEF Init, NodeInv, WaiterHasTold, ThreadIsOver

\* A frame queued or dropped leaves the queue within its size.
LEMMA QueueKeeps ==
    ASSUME TypeOK, MayQueue
    PROVE  frames' \in 0 .. FrameQueue
<1>1. Min({frames + 1, FrameQueue}) \in 0 .. FrameQueue
    <2>1. frames + 1 \in Nat /\ FrameQueue \in Nat
        BY NodeConstants DEF TypeOK
    <2> DEFINE m == Min({frames + 1, FrameQueue})
    <2>2. m \in {frames + 1, FrameQueue} /\ m <= FrameQueue
        BY <2>1, MinOfTwo
    <2> HIDE DEF m
    <2>3. m \in 0 .. FrameQueue
        BY <2>1, <2>2
    <2> QED  BY <2>3 DEF m
<1>2. CASE frames' = frames  BY <1>2 DEF TypeOK
<1>3. CASE frames' = Min({frames + 1, FrameQueue})  BY <1>1, <1>3
<1> QED  BY <1>2, <1>3 DEF MayQueue

\* A write puts in the terminal what there is room for, and of the command no more
\* than is left of it.
LEMMA WriteKeeps ==
    ASSUME TypeOK, Write
    PROVE  left' \in 0 .. Size /\ full' \in 0 .. Room
<1>1. PICK n \in IF there THEN 0 .. Min({left, Room - full}) ELSE {0} :
        /\ full' = full + n
        /\ left' = IF TriesAgain THEN left - n ELSE 0
    BY DEF Write
<1>2. /\ left \in 0 .. Size /\ full \in 0 .. Room
      /\ Size \in Nat /\ Room \in Nat
    BY NodeConstants DEF TypeOK
<1>3. n \in Nat /\ n <= left /\ n <= Room - full
    <2>1. left \in Int /\ Room - full \in Int
        BY <1>2
    <2>2. /\ Min({left, Room - full}) \in Int
          /\ Min({left, Room - full}) <= left
          /\ Min({left, Room - full}) <= Room - full
        BY <2>1, MinOfTwo
    <2>3. CASE there  BY <2>1, <2>2, <2>3
    <2>4. CASE ~there  BY <1>2, <2>4
    <2> QED  BY <2>3, <2>4
<1> QED  BY <1>1, <1>2, <1>3

\* No step of the thread, the main thread or the device leaves the types.
LEMMA TypesStep ==
    ASSUME NodeInv, [Next]_vars
    PROVE  TypeOK'
<1> USE DEF NodeInv
<1>1. CASE Loop  BY <1>1 DEF Loop, TypeOK, mainVars, linkVars
<1>2. CASE StoppedTick  BY <1>2 DEF StoppedTick, Ticks, TypeOK, mainVars, States
<1>3. CASE Vanishes  BY <1>3 DEF Vanishes, Ticks, TypeOK, mainVars, States
<1>4. CASE Greets
    <2>1. frames' \in 0 .. FrameQueue
        BY <1>4, QueueKeeps DEF Greets, TypeOK
    <2>2. left' \in 0 .. Size
        BY <1>4, NodeConstants DEF Greets
    <2> QED  BY <1>4, <2>1, <2>2 DEF Greets, Ticks, TypeOK, mainVars, States
<1>5. CASE Pumps  BY <1>5 DEF Pumps, Ticks, TypeOK, mainVars
<1>6. CASE StartWrite
    <2>1. commands' \in 0 .. CommandQueue
        BY <1>6, NodeConstants DEF StartWrite, TypeOK
    <2>2. left' \in 0 .. Size
        BY <1>6, NodeConstants DEF StartWrite
    <2> QED  BY <1>6, <2>1, <2>2 DEF StartWrite, TypeOK, mainVars
<1>7. CASE Reads
    <2>1. frames' \in 0 .. FrameQueue /\ state' \in States
        BY <1>7, QueueKeeps DEF Reads, TypeOK
    <2> QED  BY <1>7, <2>1 DEF Reads, TypeOK, mainVars
<1>8. CASE Write
    <2>1. left' \in 0 .. Size /\ full' \in 0 .. Room
        BY <1>8, WriteKeeps
    <2> QED  BY <1>8, <2>1 DEF Write, TypeOK, mainVars
<1>9. CASE Start  BY <1>9 DEF Start, Idle, TypeOK, linkVars
<1>10. CASE \E run \in {FALSE, running} : Stop(run)
    <2>1. running' \in BOOLEAN /\ stopping' \in BOOLEAN /\ joining' \in BOOLEAN
        BY <1>10 DEF Stop, TypeOK
    <2> QED  BY <1>10, <2>1 DEF Stop, Idle, TypeOK, linkVars
<1>11. CASE Join  BY <1>11 DEF Join, TypeOK, linkVars
<1>12. CASE SendCommand
    <2>1. commands + 1 \in Nat /\ CommandQueue \in Nat
        BY NodeConstants DEF TypeOK
    <2>2. Min({commands + 1, CommandQueue}) \in 0 .. CommandQueue
        BY <2>1, MinOfTwo
    <2> QED  BY <1>12, <2>2 DEF SendCommand, Accepted, TypeOK, mainVars
<1>13. CASE Image
    BY <1>13, NodeConstants DEF Image, Idle, TypeOK, linkVars
<1>14. CASE Pop
    <2>1. /\ 0 \in Int /\ frames - 1 \in Int /\ frames - 1 <= FrameQueue
          /\ frames \in 0 .. FrameQueue /\ FrameQueue \in Nat
        BY NodeConstants DEF TypeOK
    <2>2. Max({0, frames - 1}) \in 0 .. FrameQueue
        <3> DEFINE m == Max({0, frames - 1})
        <3>1. m \in {0, frames - 1} /\ 0 <= m
            BY <2>1, MaxOfTwo
        <3> HIDE DEF m
        <3>2. m \in 0 .. FrameQueue
            BY <2>1, <3>1
        <3> QED  BY <3>2 DEF m
    <2>3. take' \in 0 .. Budget
        BY <1>14, NodeConstants DEF Pop, TypeOK
    <2> QED  BY <1>14, <2>2, <2>3 DEF Pop, TypeOK
<1>15. CASE Drains  BY <1>15, NodeConstants DEF Drains, TypeOK, mainVars
<1>16. CASE \E b \in BOOLEAN : Plug(b)
    BY <1>16, NodeConstants DEF Plug, TypeOK, mainVars
<1>17. CASE UNCHANGED vars  BY <1>17 DEF vars, mainVars, linkVars, TypeOK
<1> QED
    BY <1>1, <1>2, <1>3, <1>4, <1>5, <1>6, <1>7, <1>8, <1>9, <1>10, <1>11, <1>12, <1>13,
       <1>14, <1>15, <1>16, <1>17
    DEF Next, Thread, Main

\* Only start, from a thread that has ended, sets one going, and only the end of
\* the thread ends the wait.
LEMMA ThreadStep ==
    ASSUME NodeInv, [Next]_vars
    PROVE  WaiterHasTold' /\ ThreadIsOver'
<1> USE DEF NodeInv, WaiterHasTold, ThreadIsOver
<1>1. CASE Loop  BY <1>1 DEF Loop, mainVars
<1>2. CASE StoppedTick \/ Vanishes \/ Greets \/ Pumps
    BY <1>2 DEF StoppedTick, Vanishes, Greets, Pumps, Ticks, mainVars
<1>3. CASE StartWrite \/ Reads  BY <1>3 DEF StartWrite, Reads, mainVars
<1>4. CASE Write  BY <1>4 DEF Write, mainVars
<1>5. CASE Start  BY <1>5 DEF Start, Idle
<1>6. CASE \E run \in {FALSE, running} : Stop(run)
    BY <1>6 DEF Stop, Idle, TypeOK
<1>7. CASE Join  BY <1>7 DEF Join
<1>8. CASE SendCommand  BY <1>8 DEF SendCommand, mainVars
<1>9. CASE Image \/ Pop  BY <1>9 DEF Image, Idle, Pop
<1>10. CASE Drains \/ \E b \in BOOLEAN : Plug(b)
    BY <1>10 DEF Drains, Plug, mainVars
<1>11. CASE UNCHANGED vars  BY <1>11 DEF vars, mainVars
<1> QED
    BY <1>1, <1>2, <1>3, <1>4, <1>5, <1>6, <1>7, <1>8, <1>9, <1>10, <1>11
    DEF Next, Thread, Main

-----------------------------------------------------------------------------
(* The node: theorems. *)

\* The types, that a waiter has told the thread to stop, and that a thread told to
\* stop and not waited for is no more: serial_link.cpp, start_autoconnect and stop.
THEOREM NodeInvariant == Spec => []NodeInv
<1>1. Init => NodeInv
    BY InitNode
<1>2. NodeInv /\ [Next]_vars => NodeInv'
    BY TypesStep, ThreadStep DEF NodeInv
<1> QED  BY <1>1, <1>2, PTL DEF Spec

\* The queues hold no more than their size, however commands, frames and images fall.
THEOREM NodeTypeCorrect == Spec => []TypeOK
<1>1. NodeInv => TypeOK
    BY DEF NodeInv
<1> QED  BY <1>1, NodeInvariant, PTL

\* Once stop has returned, or the node has left the tree, the driver it frees is
\* touched by no thread, whatever calls of start, stop and _exit_tree came before.
THEOREM NoThreadLeft == Spec => []ThreadIsOver
<1>1. NodeInv => ThreadIsOver
    BY DEF NodeInv
<1> QED  BY <1>1, NodeInvariant, PTL
=============================================================================
