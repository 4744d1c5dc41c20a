--------------------------- MODULE EmulatorProofs ---------------------------
(***************************************************************************)
(* Proofs about Emulator: the false starts the box tells of, the ticks it  *)
(* counts, the terminal it is reached at and the order of what is read     *)
(* there, for any number of lanes, any scenario of faults and any speed of *)
(* the riders.                                                             *)
(*                                                                         *)
(* A box is a record of twenty fields, and what an operator of Firmware    *)
(* makes of it is first said as a relation of the boxes before and after   *)
(* (Same, Recounts, CountedDown, Raced, Ticked); a pass of the loop is     *)
(* then reasoned about by Ticked and the wheels alone.                     *)
(*                                                                         *)
(* SlowWheels and SteadyWheels are what the two counts need of the         *)
(* constants.  In the code a pass is a tenth of a ms, a pulse 20 passes, a *)
(* turn of the default roller more than 200 at the speed of any profile,   *)
(* the step of a countdown a second and the limit of a false start four    *)
(* ticks.                                                                  *)
(*                                                                         *)
(* SmallNumbers is what the length and the duration of a race need: that   *)
(* the box can hold an argument the driver's check lets through, and that  *)
(* no race lasts the 49 days the clock of the box can tell.                *)
(*                                                                         *)
(* The order of the samples is proved stage by stage: each (the firmware,  *)
(* the freeze, the latency, the terminal and the line) is shown to add     *)
(* behind what it was given (Tells, GoesOnFrom), to pass it on in order    *)
(* (Then) or to drop some of its front (LeftOf).                           *)
(***************************************************************************)
EXTENDS Emulator, Orders, SequenceTheorems

-----------------------------------------------------------------------------
(* Sequences of frames. *)

\* A sequence, of whatever.
IsSeq(s) == s \in Seq(Range(s))

\* Frames whose false starts are of lanes of P.
Just(P, s) ==
    /\ IsSeq(s)
    /\ \A k \in DOMAIN s : s[k][1] = "FS" => s[k][2] \in P

\* A sequence over any set is one over its own elements.
LEMMA SeqIsSeq ==
    ASSUME NEW S, NEW s \in Seq(S)
    PROVE  IsSeq(s)
<1>1. DOMAIN s = 1 .. Len(s) /\ Len(s) \in Nat /\ s = [k \in 1 .. Len(s) |-> s[k]]
  OBVIOUS
<1>2. \A k \in 1 .. Len(s) : s[k] \in Range(s)
  BY <1>1 DEF Range
<1>3. s \in [1 .. Len(s) -> Range(s)]
  BY <1>1, <1>2
<1> QED
  BY <1>1, <1>3, SeqDef DEF IsSeq

\* What is printed after just frames, if just itself, leaves them so.
LEMMA JoinIsJust ==
    ASSUME NEW P, NEW s, Just(P, s), NEW t, Just(P, t)
    PROVE  Just(P, s \o t)
<1> DEFINE S == Range(s) \cup Range(t)
<1>1. s \in Seq(S) /\ t \in Seq(S)
  BY DEF Just, IsSeq
<1> HIDE DEF S
<1>2. s \o t \in Seq(S) /\ DOMAIN (s \o t) = 1 .. Len(s) + Len(t)
  BY <1>1
<1>3. ASSUME NEW k \in DOMAIN (s \o t)
      PROVE  (k \in DOMAIN s /\ (s \o t)[k] = s[k])
             \/ (k - Len(s) \in DOMAIN t /\ (s \o t)[k] = t[k - Len(s)])
  BY <1>1, <1>2
<1> QED
  BY <1>2, <1>3, SeqIsSeq DEF Just

\* A frame of any other kind is just.
LEMMA OneIsJust ==
    ASSUME NEW P, NEW frame, frame[1] # "FS"
    PROVE  Just(P, <<frame>>)
<1>1. <<frame>> \in Seq({frame}) /\ DOMAIN <<frame>> = {1} /\ <<frame>>[1] = frame
  OBVIOUS
<1> QED
  BY <1>1, SeqIsSeq DEF Just

\* So is silence.
LEMMA NoneIsJust ==
    ASSUME NEW P
    PROVE  Just(P, <<>>)
<1>1. <<>> \in Seq({}) /\ DOMAIN <<>> = {}
  OBVIOUS
<1> QED
  BY <1>1, SeqIsSeq DEF Just

-----------------------------------------------------------------------------
(* A box, and what the commands of the client make of it. *)

\* A record with the fields of a box.
IsBox(f) == DOMAIN f = DOMAIN Boot

\* The fields of a box, named once for all the EXCEPT of the firmware.
LEMMA BoxFields ==
    ASSUME NEW f, IsBox(f)
    PROVE  DOMAIN f = {"rx", "tx", "starting", "started", "clock", "count", "countAge",
                       "lastUpdate", "distance", "mock", "length", "seconds", "receiving",
                       "buff", "overflow", "pin", "previous", "values", "ticks", "finish"}
  BY DEF Boot, IsBox

\* From f to g: the counts, the samples and the phase of the race are as they were.
Same(f, g) ==
    /\ DOMAIN g = DOMAIN f
    /\ g.starting = f.starting /\ g.started = f.started
    /\ g.clock = f.clock /\ g.count = f.count /\ g.countAge = f.countAge
    /\ g.pin = f.pin /\ g.previous = f.previous /\ g.values = f.values
    /\ g.ticks = f.ticks

\* The countdown or the race has been stopped.
Stopped(f, g) ==
    /\ DOMAIN g = DOMAIN f
    /\ ~g.starting /\ ~g.started
    /\ g.clock = f.clock /\ g.count = f.count /\ g.countAge = f.countAge
    /\ g.pin = f.pin /\ g.previous = f.previous /\ g.values = f.values
    /\ g.ticks = f.ticks

\* The countdown starts again.
Recounts(f, g) ==
    /\ DOMAIN g = DOMAIN f
    /\ g.starting /\ ~g.started
    /\ g.clock = f.clock /\ g.count = CountFrom /\ g.countAge = 0
    /\ g.pin = f.pin /\ g.previous = f.previous /\ g.values = f.values
    /\ g.ticks = Zero

\* A command restarts the countdown, stops all, or touches no count.
LEMMA ObeyEffect ==
    ASSUME NEW P, NEW f, IsBox(f), Just(P, f.tx), NEW c
    PROVE  /\ c = "g" => Recounts(f, Obey(f, c))
           /\ c = "s" => Stopped(f, Obey(f, c))
           /\ c \notin {"g", "s"} => Same(f, Obey(f, c))
           /\ c # "m" => Obey(f, c).mock = f.mock
           /\ Obey(f, c).rx = f.rx
           /\ Just(P, Obey(f, c).tx)
<1>1. CASE c = "l"
  <2>1. Obey(f, c) = [f EXCEPT !.receiving = "length", !.buff = <<>>]
    BY <1>1, Zenon DEF Obey
  <2> QED
    BY <1>1, <2>1, BoxFields, Zenon DEF Same
<1>2. CASE c = "t"
  <2>1. Obey(f, c) = [f EXCEPT !.receiving = "time", !.buff = <<>>]
    BY <1>2, Zenon DEF Obey
  <2> QED
    BY <1>2, <2>1, BoxFields, Zenon DEF Same
<1>3. CASE c = "v"
  <2>1. Obey(f, c) = [f EXCEPT !.tx = @ \o <<<<"V">>>>]
    BY <1>3, Zenon DEF Obey, Say
  <2>2. Just(P, f.tx \o <<<<"V">>>>)
    BY JoinIsJust, OneIsJust
  <2> QED
    BY <1>3, <2>1, <2>2, BoxFields, Zenon DEF Same
<1>4. CASE c = "g"
  <2>1. Obey(f, c) = CountAgain(f)
    BY <1>4, Zenon DEF Obey
  <2> QED
    BY <1>4, <2>1, BoxFields, Zenon DEF Recounts, CountAgain
<1>5. CASE c = "m"
  <2>1. Obey(f, c) = Say([f EXCEPT !.mock = ~@], <<<<"M", ~f.mock>>>>)
    BY <1>5, Zenon DEF Obey
  <2> DEFINE frame == <<"M", ~f.mock>>
  <2>2. Just(P, f.tx \o <<frame>>)
    BY JoinIsJust, OneIsJust
  <2> HIDE DEF frame
  <2>3. Obey(f, c) = [[f EXCEPT !.mock = ~@] EXCEPT !.tx = f.tx \o <<frame>>]
    BY <2>1, BoxFields DEF Say, frame
  <2> QED
    BY <1>5, <2>3, <2>2, BoxFields, Zenon DEF Same
<1>6. CASE c = "s"
  <2>1. Obey(f, c) = [f EXCEPT !.started = FALSE, !.starting = FALSE]
    BY <1>6, Zenon DEF Obey
  <2> QED
    BY <1>6, <2>1, BoxFields, Zenon DEF Stopped
<1>7. CASE c = "x"
  <2>1. Obey(f, c) = [f EXCEPT !.distance = FALSE]
    BY <1>7, Zenon DEF Obey
  <2> QED
    BY <1>7, <2>1, BoxFields, Zenon DEF Same
<1>8. CASE c = "d"
  <2>1. Obey(f, c) = [f EXCEPT !.distance = TRUE]
    BY <1>8, Zenon DEF Obey
  <2> QED
    BY <1>8, <2>1, BoxFields, Zenon DEF Same
<1>9. CASE c \notin {"l", "t", "v", "g", "m", "s", "x", "d"}
  <2>1. Obey(f, c) = [f EXCEPT !.tx = @ \o <<<<"ERROR", c>>>>]
    BY <1>9, Zenon DEF Obey, Say
  <2>2. Just(P, f.tx \o <<<<"ERROR", c>>>>)
    BY JoinIsJust, OneIsJust
  <2> QED
    BY <1>9, <2>1, <2>2, BoxFields, Zenon DEF Same
<1> QED
  BY <1>1, <1>2, <1>3, <1>4, <1>5, <1>6, <1>7, <1>8, <1>9

\* Printing changes the output only.
LEMMA SayEffect ==
    ASSUME NEW f, IsBox(f), NEW frames, NEW g, g = Say(f, frames)
    PROVE  /\ Same(f, g)
           /\ g.mock = f.mock /\ g.rx = f.rx
           /\ g.tx = f.tx \o frames
  BY BoxFields, Zenon DEF Say, Same

\* The end of an argument sets a length or a duration, and no count.
LEMMA EndOfLineEffect ==
    ASSUME NEW P, NEW f, IsBox(f), Just(P, f.tx)
    PROVE  /\ Same(f, EndOfLine(f))
           /\ EndOfLine(f).mock = f.mock /\ EndOfLine(f).rx = f.rx
           /\ Just(P, EndOfLine(f).tx)
<1>1. CASE f.receiving = "length"
  <2> DEFINE frame == <<"L", Atoi(f.buff)>>
             k == [f EXCEPT !.receiving = "none", !.length = Atoi(f.buff)]
             g == Say(k, <<frame>>)
  <2>1. EndOfLine(f) = g
    BY <1>1, Zenon DEF EndOfLine
  <2>2. Just(P, f.tx \o <<frame>>)
    BY JoinIsJust, OneIsJust
  <2>3. k.tx = f.tx /\ k.mock = f.mock /\ k.rx = f.rx /\ Same(f, k)
    BY BoxFields, Zenon DEF Same
  <2> HIDE DEF frame, k
  <2>4. IsBox(k)
    BY <2>3 DEF IsBox, Same
  <2>5. Same(k, g) /\ g.mock = k.mock /\ g.rx = k.rx /\ g.tx = k.tx \o <<frame>>
    BY <2>4, SayEffect, Zenon
  <2> HIDE DEF g
  <2> QED
    BY <2>1, <2>2, <2>3, <2>5 DEF Same
<1>2. CASE f.receiving = "time"
  <2> DEFINE g == [f EXCEPT !.receiving = "none", !.seconds = Atoi(f.buff)]
  <2>1. EndOfLine(f) = g
    BY <1>2, Zenon DEF EndOfLine
  <2>2. g.tx = f.tx /\ g.mock = f.mock /\ g.rx = f.rx /\ Same(f, g)
    BY BoxFields, Zenon DEF Same
  <2> HIDE DEF g
  <2> QED
    BY <2>1, <2>2
<1>3. CASE f.receiving \notin {"length", "time"}
  <2>1. EndOfLine(f) = f
    BY <1>3, Zenon DEF EndOfLine
  <2> QED
    BY <2>1 DEF Same
<1> QED
  BY <1>1, <1>2, <1>3

\* What one byte of the client may have done; only m changes the mock mode.
Served(P, f, g) ==
    /\ Same(f, g) \/ Recounts(f, g) \/ Stopped(f, g)
    /\ f.rx = <<>> \/ Head(f.rx) # "m" => g.mock = f.mock
    /\ g.rx = IF f.rx = <<>> THEN f.rx ELSE Tail(f.rx)
    /\ Just(P, g.tx)

\* checkSerial reads one byte at most.
LEMMA SerialEffect ==
    ASSUME NEW P, NEW f, IsBox(f), Just(P, f.tx)
    PROVE  Served(P, f, CheckSerial(f))
<1> DEFINE g == CheckSerial(f)
<1>1. ASSUME f.rx = <<>> PROVE Served(P, f, g)
  <2>1. g = f
    BY <1>1, Zenon DEF CheckSerial
  <2> HIDE DEF g
  <2> QED
    BY <1>1, <2>1, Zenon DEF Same, Served
<1>2. ASSUME f.rx # <<>> PROVE Served(P, f, g)
  <2> DEFINE c == Head(f.rx)
             h == [f EXCEPT !.rx = Tail(@)]
  <2>1. g = IF c = "\n" THEN EndOfLine(h)
            ELSE IF h.receiving # "none" THEN Receive(h, c) ELSE Obey(h, c)
    BY <1>2, BoxFields, Zenon DEF CheckSerial
  <2>2. Same(f, h) /\ h.mock = f.mock /\ h.tx = f.tx /\ h.rx = Tail(f.rx) /\ IsBox(h)
    BY BoxFields, Zenon DEF Same, IsBox
  <2> HIDE DEF h, c, g
  <2>6. Just(P, h.tx)
    BY <2>2
  <2>3. CASE c = "\n"
    <3>1. g = EndOfLine(h)
      BY <2>1, <2>3
    <3>2. Same(h, g) /\ g.mock = h.mock /\ g.rx = h.rx /\ Just(P, g.tx)
      BY <2>2, <2>6, <3>1, EndOfLineEffect
    <3> QED
      BY <1>2, <2>2, <3>2, Zenon DEF Same, Served
  <2>4. CASE c # "\n" /\ h.receiving # "none"
    <3>1. g = Receive(h, c)
      BY <2>1, <2>4
    <3>2. g.tx = h.tx /\ g.mock = h.mock /\ g.rx = h.rx /\ Same(h, g)
      BY <2>2, <3>1, BoxFields, Zenon DEF Same, Receive
    <3> QED
      BY <1>2, <2>2, <3>2, Zenon DEF Same, Served
  <2>5. CASE c # "\n" /\ h.receiving = "none"
    <3>1. g = Obey(h, c)
      BY <2>1, <2>5
    <3>5. IsBox(h)
      BY <2>2
    <3>6. /\ c = "g" => Recounts(h, Obey(h, c))
          /\ c = "s" => Stopped(h, Obey(h, c))
          /\ c \notin {"g", "s"} => Same(h, Obey(h, c))
          /\ c # "m" => Obey(h, c).mock = h.mock
          /\ Obey(h, c).rx = h.rx
          /\ Just(P, Obey(h, c).tx)
      BY <3>5, <2>6, ObeyEffect
    <3> HIDE DEF Obey
    <3>2. CASE c = "g"
      <4>1. Recounts(h, g) /\ g.mock = h.mock /\ g.rx = h.rx /\ Just(P, g.tx)
        BY <3>1, <3>2, <3>6
      <4> QED
        BY <1>2, <2>2, <4>1 DEF Same, Recounts, Served
    <3>3. CASE c = "s"
      <4>1. Stopped(h, g) /\ g.mock = h.mock /\ g.rx = h.rx /\ Just(P, g.tx)
        BY <3>1, <3>3, <3>6
      <4> QED
        BY <1>2, <2>2, <4>1 DEF Same, Stopped, Served
    <3>4. CASE c \notin {"g", "s"}
      <4>1. Same(h, g) /\ (c # "m" => g.mock = h.mock) /\ g.rx = h.rx /\ Just(P, g.tx)
        BY <3>1, <3>4, <3>6
      <4>2. c = Head(f.rx)
        BY DEF c
      <4> QED
        BY <1>2, <2>2, <4>1, <4>2 DEF Same, Served
    <3> QED
      BY <3>2, <3>3, <3>4
  <2> QED
    BY <2>3, <2>4, <2>5
<1> QED
  BY <1>1, <1>2

-----------------------------------------------------------------------------
(* Frames for several lanes. *)

\* A finite set of numbers has an ascending order.
LEMMA AscendingOrder ==
    ASSUME NEW S \in SUBSET Int, IsFiniteSet(S)
    PROVE  /\ Ascending(S) \in [1 .. Cardinality(S) -> S]
           /\ \A j, k \in 1 .. Cardinality(S) : j < k => Ascending(S)[j] < Ascending(S)[k]
<1> DEFINE R == {p \in S \X S : p[1] < p[2]}
           n == Cardinality(S)
           order == [k \in 1 .. n |-> CHOOSE r \in S : PlaceIn(R, S, r) = k]
<1>1. \A a, b \in S : <<a, b>> \in R <=> a < b
  OBVIOUS
<1>2. StrictTotalOrder(R, S)
  <2>1. \A a \in S : ~(a < a)
    OBVIOUS
  <2>2. \A a, b, c \in S : a < b /\ b < c => a < c
    OBVIOUS
  <2>3. \A a, b \in S : a = b \/ a < b \/ b < a
    OBVIOUS
  <2> HIDE DEF R
  <2> QED
    BY <1>1, <2>1, <2>2, <2>3 DEF StrictTotalOrder
<1> HIDE DEF R
<1>3. \A k \in 1 .. n : \E r \in S : PlaceIn(R, S, r) = k
  BY <1>2, PlacesAreABijection DEF n
<1>4. \A k \in 1 .. n : order[k] \in S /\ PlaceIn(R, S, order[k]) = k
  BY <1>3
<1>5. order \in [1 .. n -> S]
  BY <1>4
<1>6. ASSUME NEW j \in 1 .. n, NEW k \in 1 .. n, j < k
      PROVE  order[j] < order[k]
  <2> DEFINE a == order[j]
             b == order[k]
  <2>1. a \in S /\ b \in S /\ PlaceIn(R, S, a) = j /\ PlaceIn(R, S, b) = k
    BY <1>4
  <2> HIDE DEF a, b, order
  <2>2. <<b, a>> \notin R
    <3>1. CASE <<b, a>> \in R
      <4>1. PlaceIn(R, S, b) < PlaceIn(R, S, a)
        BY <3>1, <1>2, <2>1, PlacesFollowOrder
      <4> QED
        BY <1>6, <2>1, <4>1
    <3> QED
      BY <3>1
  <2>3. a # b
    BY <1>6, <2>1
  <2>4. <<a, b>> \in R
    BY <1>2, <2>1, <2>2, <2>3 DEF StrictTotalOrder
  <2> QED
    BY <1>1, <2>1, <2>4 DEF a, b
<1>7. DOMAIN order = 1 .. n
  OBVIOUS
<1> HIDE DEF order
<1>8. \E o \in [1 .. n -> S] : \A j, k \in DOMAIN o : j < k => o[j] < o[k]
  BY <1>5, <1>6, <1>7
<1>9. /\ Ascending(S) \in [1 .. n -> S]
      /\ \A j, k \in DOMAIN Ascending(S) : j < k => Ascending(S)[j] < Ascending(S)[k]
  BY <1>8 DEF Ascending, n
<1> QED
  BY <1>9 DEF n

\* Sets of lanes are finite sets of numbers.
LEMMA LanesAreFinite ==
    ASSUME NEW S \in SUBSET Lanes
    PROVE  S \in SUBSET Int /\ IsFiniteSet(S) /\ Cardinality(S) \in Nat
<1>1. IsFiniteSet(Lanes) /\ Lanes \in SUBSET Int
  <2>1. 0 \in Int /\ MaxRacers - 1 \in Int
    BY FirmwareConstants
  <2> QED
    BY <2>1, FS_Interval DEF Lanes
<1> QED
  BY <1>1, FS_Subset, FS_CardinalityType

\* The frames a box prints for some of its lanes.
LEMMA FramesOfLanes ==
    ASSUME NEW P, NEW S \in SUBSET Lanes,
           NEW frames, DOMAIN frames = DOMAIN Ascending(S),
           frames = [k \in DOMAIN Ascending(S) |-> frames[k]],
           \A k \in DOMAIN frames :
               frames[k][1] = "FS" => Ascending(S)[k] \in P /\ frames[k][2] = Ascending(S)[k]
    PROVE  Just(P, frames)
<1>1. DOMAIN frames = 1 .. Cardinality(S) /\ Cardinality(S) \in Nat
  BY LanesAreFinite, AscendingOrder
<1>2. \A k \in DOMAIN frames : frames[k] \in Range(frames)
  BY DEF Range
<1>3. frames \in [1 .. Cardinality(S) -> Range(frames)]
  BY <1>1, <1>2
<1> QED
  BY <1>1, <1>3, SeqDef DEF Just, IsSeq

-----------------------------------------------------------------------------
(* The countdown. *)

\* A second has gone by since the last frame of the countdown.
CountIsDue(f) == f.countAge > CountdownMs

NextCount(f) == IF CountIsDue(f) THEN f.count - 1 ELSE f.count

\* A pass of the countdown: at 0 the race starts, with every count at 0.
CountedDown(P, f, g) ==
    /\ DOMAIN g = DOMAIN f
    /\ Just(P, g.tx)
    /\ g.rx = f.rx /\ g.mock = f.mock
    /\ g.pin = f.pin /\ g.previous = f.pin /\ g.values = f.pin
    /\ g.count = NextCount(f) /\ g.countAge = IF CountIsDue(f) THEN 0 ELSE f.countAge
    /\ NextCount(f) = 0 => ~g.starting /\ g.started /\ g.clock = 0 /\ g.ticks = Zero
    /\ NextCount(f) # 0 =>
          /\ g.starting = f.starting /\ g.started = f.started
          /\ g.clock = f.clock
          /\ g.ticks = [i \in Lanes |-> IF i \in Pedalled(f) THEN f.ticks[i] + 1
                                                          ELSE f.ticks[i]]

\* The countdown: who is charged with a false start belongs to P, if no other lane
\* can come to the limit.
LEMMA CountdownEffect ==
    ASSUME NEW P, NEW f, IsBox(f), Just(P, f.tx), f.starting,
           \A i \in Pedalled(f) : f.ticks[i] + 1 = FalseStartTicks => i \in P
    PROVE  CountedDown(P, f, Countdown(f))
<1> DEFINE guilty == {i \in Pedalled(f) : f.ticks[i] + 1 = FalseStartTicks}
           h == [f EXCEPT !.values = f.pin, !.previous = f.pin,
                          !.ticks = [i \in Lanes |-> IF i \in Pedalled(f) THEN @[i] + 1 ELSE @[i]],
                          !.count = NextCount(f),
                          !.countAge = IF CountIsDue(f) THEN 0 ELSE @]
           fs == [k \in DOMAIN Ascending(guilty) |-> <<"FS", Ascending(guilty)[k]>>]
           cd == IF CountIsDue(f) THEN <<<<"CD", NextCount(f)>>>> ELSE <<>>
           told == [h EXCEPT !.tx = @ \o (fs \o cd)]
           g == Countdown(f)
<1>1. g = IF NextCount(f) = 0 THEN RaceStart(told) ELSE told
  BY Zenon DEF Countdown, Say, ForEach, CountIsDue, NextCount
<1>2. Just(P, fs)
  <2>1. guilty \in SUBSET Lanes
    BY DEF Pedalled
  <2>2. \A i \in guilty : i \in P
    OBVIOUS
  <2>3. \A k \in DOMAIN Ascending(guilty) : Ascending(guilty)[k] \in guilty
    BY <2>1, LanesAreFinite, AscendingOrder
  <2> HIDE DEF guilty
  <2>4. DOMAIN fs = DOMAIN Ascending(guilty) /\ fs = [k \in DOMAIN Ascending(guilty) |-> fs[k]]
    OBVIOUS
  <2>5. \A k \in DOMAIN fs : fs[k][2] = Ascending(guilty)[k]
    OBVIOUS
  <2> HIDE DEF fs
  <2> QED
    BY <2>1, <2>2, <2>3, <2>4, <2>5, FramesOfLanes
<1>3. Just(P, cd)
  BY OneIsJust, NoneIsJust
<1> HIDE DEF fs, cd
<1>4. Just(P, f.tx \o (fs \o cd))
  BY <1>2, <1>3, JoinIsJust
<1>5. /\ h.tx = f.tx /\ h.rx = f.rx /\ h.mock = f.mock /\ h.pin = f.pin
      /\ h.previous = f.pin /\ h.values = f.pin
      /\ h.count = NextCount(f) /\ h.countAge = IF CountIsDue(f) THEN 0 ELSE f.countAge
      /\ h.starting = f.starting /\ h.started = f.started /\ h.clock = f.clock
      /\ DOMAIN h = DOMAIN f
  BY BoxFields, Zenon
<1>6. h.ticks = [i \in Lanes |-> IF i \in Pedalled(f) THEN f.ticks[i] + 1 ELSE f.ticks[i]]
  BY BoxFields, Zenon
<1> HIDE DEF h
<1>7. IsBox(h)
  BY <1>5 DEF IsBox
<1>8. /\ told.tx = f.tx \o (fs \o cd)
      /\ told.rx = h.rx /\ told.mock = h.mock /\ told.pin = h.pin
      /\ told.previous = h.previous /\ told.values = h.values
      /\ told.count = h.count /\ told.countAge = h.countAge
      /\ told.starting = h.starting /\ told.started = h.started /\ told.clock = h.clock
      /\ told.ticks = h.ticks
      /\ DOMAIN told = DOMAIN h
  BY <1>5, <1>7, BoxFields, Zenon
<1> HIDE DEF told
<1> HIDE DEF g
<1>9. ASSUME NextCount(f) # 0 PROVE CountedDown(P, f, g)
  <2>1. g = told
    BY <1>1, <1>9
  <2> QED
    BY <1>4, <1>5, <1>6, <1>8, <1>9, <2>1 DEF CountedDown
<1>10. ASSUME NextCount(f) = 0 PROVE CountedDown(P, f, g)
  <2>1. g = RaceStart(told)
    BY <1>1, <1>10
  <2>2. IsBox(told)
    BY <1>7, <1>8 DEF IsBox
  <2>3. /\ g.tx = told.tx /\ g.rx = told.rx /\ g.mock = told.mock /\ g.pin = told.pin
        /\ g.previous = told.previous /\ g.values = told.values
        /\ g.count = told.count /\ g.countAge = told.countAge
        /\ ~g.starting /\ g.started /\ g.clock = 0 /\ g.ticks = Zero
        /\ DOMAIN g = DOMAIN told
    BY <2>1, <2>2, BoxFields, Zenon DEF RaceStart
  <2> QED
    BY <1>4, <1>5, <1>8, <1>10, <2>3 DEF CountedDown
<1>11. CountedDown(P, f, g)
  BY <1>9, <1>10
<1> QED
  BY <1>11 DEF g

-----------------------------------------------------------------------------
(* The race. *)

\* All but what the race prints, the ends of the lanes and whether it goes on.
Abides(P, f, g) ==
    /\ DOMAIN g = DOMAIN f
    /\ Just(P, g.tx)
    /\ g.rx = f.rx /\ g.mock = f.mock
    /\ g.clock = f.clock /\ g.count = f.count /\ g.countAge = f.countAge
    /\ g.pin = f.pin /\ g.previous = f.previous /\ g.values = f.values
    /\ g.ticks = f.ticks
    /\ ~g.starting

\* The end of a race over a distance.
LEMMA DistanceEffect ==
    ASSUME NEW P, NEW f, IsBox(f), Just(P, f.tx), ~f.starting
    PROVE  Abides(P, f, CheckDistanceBased(f))
<1> DEFINE arriving == {i \in Lanes : f.finish[i] = 0 /\ GeInt(f.ticks[i], f.length)}
           finish == [i \in Lanes |-> IF i \in arriving THEN f.clock ELSE f.finish[i]]
           finished == \A i \in Lanes : finish[i] # 0
           h == [f EXCEPT !.finish = finish,
                          !.starting = @ /\ ~finished, !.started = @ /\ ~finished]
           frames == [k \in DOMAIN Ascending(arriving) |-> <<"F", Ascending(arriving)[k], f.clock>>]
           g == CheckDistanceBased(f)
<1>1. g = [h EXCEPT !.tx = @ \o frames]
  BY Zenon DEF CheckDistanceBased, Say, ForEach
<1>2. Just(P, frames)
  <2>1. arriving \in SUBSET Lanes
    OBVIOUS
  <2> HIDE DEF arriving
  <2>2. DOMAIN frames = DOMAIN Ascending(arriving)
        /\ frames = [k \in DOMAIN Ascending(arriving) |-> frames[k]]
    OBVIOUS
  <2>3. \A k \in DOMAIN frames : frames[k][1] # "FS"
    OBVIOUS
  <2> HIDE DEF frames
  <2> QED
    BY <2>1, <2>2, <2>3, FramesOfLanes
<1> HIDE DEF frames, finish, finished
<1>3. /\ h.tx = f.tx /\ h.rx = f.rx /\ h.mock = f.mock /\ h.pin = f.pin
      /\ h.previous = f.previous /\ h.values = f.values
      /\ h.count = f.count /\ h.countAge = f.countAge /\ h.clock = f.clock
      /\ h.ticks = f.ticks
      /\ ~h.starting
      /\ DOMAIN h = DOMAIN f
  BY BoxFields, Zenon
<1> HIDE DEF h
<1>4. IsBox(h)
  BY <1>3 DEF IsBox
<1>5. /\ g.tx = h.tx \o frames /\ g.rx = h.rx /\ g.mock = h.mock /\ g.pin = h.pin
      /\ g.previous = h.previous /\ g.values = h.values
      /\ g.count = h.count /\ g.countAge = h.countAge /\ g.clock = h.clock
      /\ g.ticks = h.ticks
      /\ g.starting = h.starting
      /\ DOMAIN g = DOMAIN h
  BY <1>1, <1>4, BoxFields, Zenon
<1>6. Just(P, f.tx \o frames)
  BY <1>2, JoinIsJust
<1> HIDE DEF g
<1>7. Abides(P, f, g)
  BY <1>3, <1>5, <1>6 DEF Abides
<1> QED
  BY <1>7 DEF g

\* The end of a race against time.
LEMMA TimeEffect ==
    ASSUME NEW P, NEW f, IsBox(f), Just(P, f.tx), ~f.starting
    PROVE  Abides(P, f, CheckTimeBased(f))
<1> DEFINE limit == Mul(f.seconds, MsPerSecond)
           h == [f EXCEPT !.starting = FALSE, !.started = FALSE]
           frames == [k \in DOMAIN Ascending(Lanes) |-> <<"F", Ascending(Lanes)[k], limit>>]
           g == CheckTimeBased(f)
<1>1. g = IF GtInt(f.clock, limit) THEN [h EXCEPT !.tx = @ \o frames] ELSE f
  BY Zenon DEF CheckTimeBased, Say, ForEach
<1>2. Just(P, frames)
  <2>2. DOMAIN frames = DOMAIN Ascending(Lanes)
        /\ frames = [k \in DOMAIN Ascending(Lanes) |-> frames[k]]
    OBVIOUS
  <2>3. \A k \in DOMAIN frames : frames[k][1] # "FS"
    OBVIOUS
  <2> HIDE DEF frames
  <2> QED
    BY <2>2, <2>3, FramesOfLanes
<1> HIDE DEF frames, limit
<1>3. /\ h.tx = f.tx /\ h.rx = f.rx /\ h.mock = f.mock /\ h.pin = f.pin
      /\ h.previous = f.previous /\ h.values = f.values
      /\ h.count = f.count /\ h.countAge = f.countAge /\ h.clock = f.clock
      /\ h.ticks = f.ticks
      /\ ~h.starting
      /\ DOMAIN h = DOMAIN f
  BY BoxFields, Zenon
<1> HIDE DEF h
<1>4. IsBox(h)
  BY <1>3 DEF IsBox
<1>5. CASE GtInt(f.clock, limit)
  <2>1. g = [h EXCEPT !.tx = @ \o frames]
    BY <1>1, <1>5
  <2>2. /\ g.tx = h.tx \o frames /\ g.rx = h.rx /\ g.mock = h.mock /\ g.pin = h.pin
        /\ g.previous = h.previous /\ g.values = h.values
        /\ g.count = h.count /\ g.countAge = h.countAge /\ g.clock = h.clock
        /\ g.ticks = h.ticks
        /\ g.starting = h.starting
        /\ DOMAIN g = DOMAIN h
    BY <2>1, <1>4, BoxFields, Zenon
  <2>3. Just(P, f.tx \o frames)
    BY <1>2, JoinIsJust
  <2> HIDE DEF g
  <2>4. Abides(P, f, g)
    BY <1>3, <2>2, <2>3 DEF Abides
  <2> QED
    BY <2>4 DEF g
<1>6. CASE ~GtInt(f.clock, limit)
  <2>1. g = f
    BY <1>1, <1>6
  <2>2. Abides(P, f, f)
    BY DEF Abides
  <2> QED
    BY <2>1, <2>2
<1> QED
  BY <1>5, <1>6

\* The update of a race.
LEMMA UpdateEffect ==
    ASSUME NEW P, NEW f, IsBox(f), Just(P, f.tx), ~f.starting
    PROVE  Abides(P, f, PrintRacerUpdate(f))
<1> DEFINE h == [f EXCEPT !.lastUpdate = f.clock]
           frame == <<"R", f.ticks, f.clock>>
           g == PrintRacerUpdate(f)
<1>1. g = IF f.lastUpdate = Absolute \/ f.clock - f.lastUpdate > UpdateInterval
          THEN [h EXCEPT !.tx = @ \o <<frame>>] ELSE f
  BY Zenon DEF PrintRacerUpdate, Say
<1>2. Just(P, f.tx \o <<frame>>)
  BY OneIsJust, JoinIsJust
<1> HIDE DEF frame
<1>3. /\ h.tx = f.tx /\ h.rx = f.rx /\ h.mock = f.mock /\ h.pin = f.pin
      /\ h.previous = f.previous /\ h.values = f.values
      /\ h.count = f.count /\ h.countAge = f.countAge /\ h.clock = f.clock
      /\ h.ticks = f.ticks
      /\ ~h.starting
      /\ DOMAIN h = DOMAIN f
  BY BoxFields, Zenon
<1> HIDE DEF h
<1>4. IsBox(h)
  BY <1>3 DEF IsBox
<1>5. CASE g = [h EXCEPT !.tx = @ \o <<frame>>]
  <2>2. /\ g.tx = h.tx \o <<frame>> /\ g.rx = h.rx /\ g.mock = h.mock /\ g.pin = h.pin
        /\ g.previous = h.previous /\ g.values = h.values
        /\ g.count = h.count /\ g.countAge = h.countAge /\ g.clock = h.clock
        /\ g.ticks = h.ticks
        /\ g.starting = h.starting
        /\ DOMAIN g = DOMAIN h
    BY <1>5, <1>4, BoxFields, Zenon
  <2> HIDE DEF g
  <2>4. Abides(P, f, g)
    BY <1>2, <1>3, <2>2 DEF Abides
  <2> QED
    BY <2>4 DEF g
<1>6. CASE g = f
  <2>2. Abides(P, f, f)
    BY DEF Abides
  <2> QED
    BY <1>6, <2>2
<1> QED
  BY <1>1, <1>5, <1>6

\* The count of a lane before the edge of this pass.
Rolled(f, i) == IF f.mock THEN f.clock * MockRate[i] ELSE f.ticks[i]

\* A pass of the race.
Raced(P, f, g) ==
    /\ DOMAIN g = DOMAIN f
    /\ Just(P, g.tx)
    /\ g.rx = f.rx /\ g.mock = f.mock
    /\ g.clock = f.clock /\ g.count = f.count /\ g.countAge = f.countAge
    /\ g.pin = f.pin /\ g.values = f.pin
    /\ g.ticks = [i \in Lanes |-> IF i \in Rising(f) THEN Rolled(f, i) + 1 ELSE Rolled(f, i)]
    /\ ~g.starting

\* The race: a rising edge is a tick.
LEMMA RaceEffect ==
    ASSUME NEW P, NEW f, IsBox(f), Just(P, f.tx), f.started, ~f.starting
    PROVE  Raced(P, f, Race(f))
<1> DEFINE u == UpdateRacerTicks(f)
           c == IF u.distance THEN CheckDistanceBased(u) ELSE CheckTimeBased(u)
           T == [i \in Lanes |-> IF i \in Rising(f) THEN Rolled(f, i) + 1 ELSE Rolled(f, i)]
           g == Race(f)
<1>1. g = PrintRacerUpdate(c)
  BY Zenon DEF Race
<1>2. u = [f EXCEPT !.previous = f.values, !.values = f.pin, !.ticks = T]
  BY Zenon DEF UpdateRacerTicks, Rolled
<1> HIDE DEF T
<1>3. /\ u.tx = f.tx /\ u.rx = f.rx /\ u.mock = f.mock /\ u.pin = f.pin
      /\ u.previous = f.values /\ u.values = f.pin
      /\ u.count = f.count /\ u.countAge = f.countAge /\ u.clock = f.clock
      /\ u.ticks = T
      /\ ~u.starting
      /\ DOMAIN u = DOMAIN f
  BY <1>2, BoxFields, Zenon
<1> HIDE DEF u
<1>4. IsBox(u) /\ Just(P, u.tx) /\ ~u.starting
  BY <1>3 DEF IsBox
<1>5. Abides(P, u, c)
  BY <1>4, DistanceEffect, TimeEffect
<1> HIDE DEF c
<1>6. IsBox(c) /\ Just(P, c.tx) /\ ~c.starting
  BY <1>4, <1>5 DEF IsBox, Abides
<1>7. Abides(P, c, g)
  BY <1>1, <1>6, UpdateEffect
<1> HIDE DEF g
<1>8. Raced(P, f, g)
  BY <1>3, <1>5, <1>7 DEF Abides, T, Raced
<1> QED
  BY <1>8 DEF g

-----------------------------------------------------------------------------
(* A pass of the loop of the firmware. *)

\* The types of the fields the counts depend on.
Typed(f) ==
    /\ IsBox(f)
    /\ f.clock \in Nat /\ f.count \in Nat
    /\ f.countAge \in 0 .. CountdownMs + 1
    /\ f.ticks \in [Lanes -> Nat]

\* A box between two passes: it counts down or races, not both.
Ready(f) ==
    /\ Typed(f)
    /\ ~(f.starting /\ f.started)
    /\ f.starting => f.count > 0

\* The next edge of a lane out of P is not yet a false start.
Harmless(P, f) ==
    \A i \in Lanes \ P :
        /\ FalseStartTicks > 1
        /\ f.starting /\ f.pin[i] /\ ~f.previous[i] => f.ticks[i] + 1 < FalseStartTicks

\* What a pass may do: nothing, go on counting down, start the countdown again,
\* start the race, race.
Waits(g) == ~g.starting /\ ~g.started

Counts(f, base, g) ==
    /\ g.starting /\ ~g.started
    /\ g.values = f.pin /\ g.previous = f.pin
    /\ g.count > 0
    /\ base \in [Lanes -> Nat]
    /\ g.ticks = [i \in Lanes |->
                     IF base[i] < FalseStartTicks /\ f.pin[i] /\ ~f.previous[i]
                     THEN base[i] + 1 ELSE base[i]]

CountsOn(f, g) ==
    /\ f.starting
    /\ Counts(f, f.ticks, g)
    /\ g.countAge = IF CountIsDue(f) THEN 0 ELSE f.countAge

CountsAgain(f, g) == Counts(f, Zero, g) /\ g.countAge = 0

Starts(f, g) ==
    /\ f.starting /\ CountIsDue(f)
    /\ ~g.starting
    /\ g.values = f.pin
    /\ ~g.mock => g.ticks = Zero

Races(f, g) ==
    /\ f.started /\ ~g.starting
    /\ g.values = f.pin
    /\ ~g.mock => g.ticks = [i \in Lanes |-> IF f.pin[i] /\ ~f.values[i] THEN f.ticks[i] + 1
                                                                     ELSE f.ticks[i]]

\* In mock mode too a count of ticks is a number.
LEMMA RolledIsTyped ==
    ASSUME NEW f, Typed(f), NEW i \in Lanes
    PROVE  Rolled(f, i) \in Nat
<1>1. MockRate[i] \in Nat /\ f.clock \in Nat
  BY FirmwareConstants DEF Typed
<1>2. f.clock * MockRate[i] \in Nat
  <2> DEFINE a == f.clock
             b == MockRate[i]
  <2>1. a \in Nat /\ b \in Nat
    BY <1>1
  <2> HIDE DEF a, b
  <2>2. a * b \in Nat
    BY <2>1
  <2> QED
    BY <2>2 DEF a, b
<1>3. f.ticks[i] \in Nat
  BY DEF Typed
<1> QED
  BY <1>2, <1>3 DEF Rolled

\* A race under way.
LEMMA RaceIsTyped ==
    ASSUME NEW P, NEW f, Typed(f), Just(P, f.tx), f.started, ~f.starting
    PROVE  /\ Typed(Race(f)) /\ Just(P, Race(f).tx)
           /\ Race(f).rx = f.rx /\ Race(f).mock = f.mock /\ Race(f).pin = f.pin
           /\ Race(f).values = f.pin /\ ~Race(f).starting
           /\ Race(f).ticks = [i \in Lanes |-> IF i \in Rising(f) THEN Rolled(f, i) + 1
                                                                 ELSE Rolled(f, i)]
<1> DEFINE g == Race(f)
<1>1. IsBox(f)
  BY DEF Typed
<1>2. Raced(P, f, g)
  BY <1>1, RaceEffect
<1> HIDE DEF g
<1>3. g.ticks \in [Lanes -> Nat]
  <2>1. \A i \in Lanes : Rolled(f, i) \in Nat
    BY RolledIsTyped
  <2> QED
    BY <1>2, <2>1 DEF Raced
<1>4. Typed(g)
  BY <1>1, <1>2, <1>3 DEF Typed, IsBox, Raced
<1> QED
  BY <1>2, <1>4 DEF g, Raced

\* What is read of the client leaves a box that can go on.
LEMMA ServedIsReady ==
    ASSUME NEW P, NEW f, Ready(f), NEW s, Served(P, f, s)
    PROVE  Ready(s) /\ s.pin = f.pin /\ s.values = f.values /\ s.previous = f.previous
<1>1. Same(f, s) \/ Recounts(f, s) \/ Stopped(f, s)
  BY DEF Served
<1>2. CountFrom \in Nat /\ CountFrom > 0 /\ CountdownMs \in Nat
  BY FirmwareConstants
<1>3. Zero \in [Lanes -> Nat]
  BY DEF Zero
<1>4. CASE Same(f, s)
  BY <1>4 DEF Ready, Typed, IsBox, Same
<1>5. CASE Recounts(f, s)
  BY <1>2, <1>3, <1>5 DEF Ready, Typed, IsBox, Recounts
<1>6. CASE Stopped(f, s)
  BY <1>6 DEF Ready, Typed, IsBox, Stopped
<1> QED
  BY <1>1, <1>4, <1>5, <1>6

\* The countdown, of a box that is starting.
LEMMA CountdownKeeps ==
    ASSUME NEW P, NEW s, Ready(s), Just(P, s.tx), s.starting,
           \A i \in Pedalled(s) : s.ticks[i] + 1 = FalseStartTicks => i \in P,
           NEW c, c = Countdown(s)
    PROVE  /\ Ready(c) /\ Just(P, c.tx) /\ c.rx = s.rx /\ c.mock = s.mock
           /\ c.pin = s.pin /\ c.values = s.pin /\ c.previous = s.pin
           /\ \/ /\ Counts(s, s.ticks, c)
                 /\ c.countAge = IF CountIsDue(s) THEN 0 ELSE s.countAge
              \/ ~c.starting /\ c.started /\ c.ticks = Zero /\ NextCount(s) = 0
<1>1. IsBox(s)
  BY DEF Ready, Typed
<1>2. CountedDown(P, s, c)
  BY <1>1, CountdownEffect
<1>3. NextCount(s) \in Nat /\ s.count \in Nat /\ CountdownMs \in Nat
  BY FirmwareConstants DEF Ready, Typed, NextCount
<1>4. Zero \in [Lanes -> Nat]
  BY DEF Zero
<1>5. CASE NextCount(s) = 0
  <2>1. Typed(c)
    BY <1>1, <1>2, <1>3, <1>4, <1>5 DEF CountedDown, Typed, Ready, IsBox
  <2> QED
    BY <1>2, <1>5, <2>1 DEF CountedDown, Ready
<1>6. CASE NextCount(s) # 0
  <2>1. c.ticks \in [Lanes -> Nat]
    BY <1>2, <1>6 DEF CountedDown, Ready, Typed
  <2>2. Typed(c)
    BY <1>1, <1>2, <1>3, <1>6, <2>1 DEF CountedDown, Typed, Ready, IsBox
  <2>3. Counts(s, s.ticks, c)
    <3>1. s.ticks \in [Lanes -> Nat] /\ s.starting /\ ~s.started
      BY DEF Ready, Typed
    <3>2. c.ticks = [i \in Lanes |->
                     IF s.ticks[i] < FalseStartTicks /\ s.pin[i] /\ ~s.previous[i]
                     THEN s.ticks[i] + 1 ELSE s.ticks[i]]
      BY <1>2, <1>6 DEF CountedDown, Pedalled
    <3>3. c.starting = s.starting /\ c.started = s.started
      BY <1>2, <1>6 DEF CountedDown
    <3>4. c.starting /\ ~c.started
      BY <3>1, <3>3, Zenon
    <3> QED
      BY <1>2, <1>3, <1>6, <3>1, <3>2, <3>4 DEF CountedDown, Counts
  <2> QED
    BY <1>2, <1>3, <1>6, <2>2, <2>3 DEF CountedDown, Ready
<1> QED
  BY <1>3, <1>5, <1>6

\* A pass of the loop.
Ticked(P, f, g) ==
    /\ Ready(g) /\ Just(P, g.tx) /\ g.pin = f.pin
    /\ g.rx = IF f.rx = <<>> THEN f.rx ELSE Tail(f.rx)
    /\ f.rx = <<>> \/ Head(f.rx) # "m" => g.mock = f.mock
    /\ Waits(g) \/ CountsOn(f, g) \/ CountsAgain(f, g) \/ Starts(f, g) \/ Races(f, g)

\* A pass waits, counts down, starts the countdown again, starts the race or races.
LEMMA TickEffect ==
    ASSUME NEW P, NEW f, Ready(f), Just(P, f.tx), Harmless(P, f)
    PROVE  Ticked(P, f, Tick(f))
<1> DEFINE s == CheckSerial(f)
           c == Countdown(s)
           g == Race(c)
<1>1. Tick(f) = g
  BY Zenon DEF Tick
<1>2. IsBox(f)
  BY DEF Ready, Typed
<1>3. Served(P, f, s)
  BY <1>2, SerialEffect
<1>4. Ready(s) /\ s.pin = f.pin /\ s.values = f.values /\ s.previous = f.previous /\ Just(P, s.tx)
  BY <1>3, ServedIsReady DEF Served
<1>5. ~s.starting => c = s
  BY Zenon DEF Countdown
<1>6. ~c.started => g = c
  BY Zenon DEF Race
<1>7. s.starting => \A i \in Pedalled(s) : s.ticks[i] + 1 = FalseStartTicks => i \in P
  <2> SUFFICES ASSUME s.starting, NEW i \in Pedalled(s), i \notin P
               PROVE  s.ticks[i] + 1 # FalseStartTicks
    OBVIOUS
  <2> HIDE DEF s
  <2>1. i \in Lanes \ P /\ s.pin[i] /\ ~s.previous[i]
    BY DEF Pedalled
  <2>2. CASE Same(f, s)
    <3>1. f.starting = s.starting /\ s.ticks = f.ticks
      BY <2>2 DEF Same
    <3>2. f.starting
      BY <3>1, Zenon
    <3>3. f.ticks[i] + 1 < FalseStartTicks /\ f.ticks[i] \in Nat /\ FalseStartTicks \in Nat
      BY <1>4, <2>1, <3>2, FirmwareConstants DEF Harmless, Ready, Typed
    <3> QED
      BY <3>1, <3>3
  <2>3. CASE Recounts(f, s)
    <3>1. s.ticks[i] = 0
      BY <2>1, <2>3 DEF Recounts, Zero
    <3>2. FalseStartTicks > 1 /\ FalseStartTicks \in Nat
      BY <2>1, FirmwareConstants DEF Harmless
    <3> QED
      BY <3>1, <3>2
  <2>4. CASE Stopped(f, s)
    BY <2>4 DEF Stopped
  <2> QED
    BY <1>3, <2>2, <2>3, <2>4 DEF Served
<1> HIDE DEF s
<1>8. CASE ~s.starting
  <2>1. c = s
    BY <1>5, <1>8
  <2> HIDE DEF c, g
  <2>2. CASE ~s.started
    <3>1. g = s
      BY <1>6, <2>1, <2>2
    <3> QED
      BY <1>1, <1>3, <1>4, <1>8, <2>2, <3>1 DEF Ticked, Served, Waits
  <2>3. CASE s.started
    <3>1. Same(f, s)
      BY <1>3, <1>8, <2>3 DEF Served, Recounts, Stopped
    <3>2. f.started = s.started /\ f.ticks = s.ticks
      BY <3>1 DEF Same
    <3>3. f.started
      BY <3>2, <2>3, Zenon
    <3>4. Typed(s)
      BY <1>4 DEF Ready
    <3>5. /\ Typed(g) /\ Just(P, g.tx) /\ g.rx = s.rx /\ g.mock = s.mock /\ g.pin = s.pin
          /\ g.values = s.pin /\ ~g.starting
          /\ g.ticks = [i \in Lanes |-> IF i \in Rising(s) THEN Rolled(s, i) + 1 ELSE Rolled(s, i)]
      BY <1>4, <1>8, <2>1, <2>3, <3>4, RaceIsTyped DEF g
    <3>6. ~g.mock => g.ticks = [i \in Lanes |-> IF f.pin[i] /\ ~f.values[i] THEN f.ticks[i] + 1
                                                                        ELSE f.ticks[i]]
      BY <1>4, <3>2, <3>5 DEF Rising, Rolled
    <3>7. Races(f, g)
      BY <1>4, <3>3, <3>5, <3>6 DEF Races
    <3> QED
      BY <1>1, <1>3, <1>4, <3>5, <3>7 DEF Ticked, Served, Ready
  <2> QED
    BY <2>2, <2>3
<1>9. CASE s.starting
  <2>1. /\ Ready(c) /\ Just(P, c.tx) /\ c.rx = s.rx /\ c.mock = s.mock
        /\ c.pin = s.pin /\ c.values = s.pin /\ c.previous = s.pin
        /\ \/ /\ Counts(s, s.ticks, c)
              /\ c.countAge = IF CountIsDue(s) THEN 0 ELSE s.countAge
           \/ ~c.starting /\ c.started /\ c.ticks = Zero /\ NextCount(s) = 0
    BY <1>4, <1>7, <1>9, CountdownKeeps
  <2> HIDE DEF c, g
  <2>2. CASE Counts(s, s.ticks, c) /\ c.countAge = IF CountIsDue(s) THEN 0 ELSE s.countAge
    <3>1. g = c
      BY <1>6, <2>2 DEF Counts
    <3>2. CASE Same(f, s)
      <4>1. f.starting = s.starting /\ s.ticks = f.ticks /\ s.countAge = f.countAge
        BY <3>2 DEF Same
      <4>2. f.starting
        BY <1>9, <4>1, Zenon
      <4>3. CountsOn(f, g)
        BY <1>4, <2>2, <3>1, <4>1, <4>2 DEF CountsOn, Counts, CountIsDue
      <4> QED
        BY <1>1, <1>3, <1>4, <2>1, <3>1, <4>3 DEF Ticked, Served
    <3>3. CASE Recounts(f, s)
      <4>1. s.ticks = Zero /\ s.countAge = 0
        BY <3>3 DEF Recounts
      <4>2. CountsAgain(f, g)
        BY <1>4, <2>2, <3>1, <4>1 DEF CountsAgain, Counts
      <4> QED
        BY <1>1, <1>3, <1>4, <2>1, <3>1, <4>2 DEF Ticked, Served
    <3>4. CASE Stopped(f, s)
      BY <1>9, <3>4 DEF Stopped
    <3> QED
      BY <1>3, <3>2, <3>3, <3>4 DEF Served
  <2>3. CASE ~c.starting /\ c.started /\ c.ticks = Zero /\ NextCount(s) = 0
    <3>1. Same(f, s)
      <4>1. ~Recounts(f, s)
        <5> SUFFICES ASSUME Recounts(f, s) PROVE FALSE
          OBVIOUS
        <5>1. s.count = CountFrom /\ s.countAge = 0
          BY DEF Recounts
        <5>2. ~CountIsDue(s)
          BY <5>1, FirmwareConstants DEF CountIsDue
        <5> QED
          BY <2>3, <5>1, <5>2, FirmwareConstants DEF NextCount
      <4> QED
        BY <1>3, <1>9, <4>1 DEF Served, Stopped
    <3>2. f.starting = s.starting /\ s.countAge = f.countAge /\ s.count = f.count
      BY <3>1 DEF Same
    <3>3. f.starting
      BY <1>9, <3>2, Zenon
    <3>4. CountIsDue(f)
      <4>1. f.count > 0 /\ f.count \in Nat
        BY <3>3 DEF Ready, Typed
      <4> QED
        BY <2>3, <3>2, <4>1 DEF NextCount, CountIsDue
    <3>5. Typed(c)
      BY <2>1 DEF Ready
    <3>6. /\ Typed(g) /\ Just(P, g.tx) /\ g.rx = c.rx /\ g.mock = c.mock /\ g.pin = c.pin
          /\ g.values = c.pin /\ ~g.starting
          /\ g.ticks = [i \in Lanes |-> IF i \in Rising(c) THEN Rolled(c, i) + 1 ELSE Rolled(c, i)]
      BY <2>1, <2>3, <3>5, RaceIsTyped DEF g
    <3>7. Rising(c) = {}
      BY <2>1 DEF Rising
    <3>8. ~g.mock => g.ticks = Zero
      BY <2>3, <3>6, <3>7 DEF Rolled, Zero
    <3>9. Starts(f, g)
      BY <1>4, <2>1, <3>3, <3>4, <3>6, <3>8 DEF Starts
    <3> QED
      BY <1>1, <1>3, <1>4, <2>1, <3>6, <3>9 DEF Ticked, Served, Ready
  <2> QED
    BY <2>1, <2>2, <2>3
<1> QED
  BY <1>8, <1>9

-----------------------------------------------------------------------------
(* The wheels and the sensors. *)

\* The ranges of the wheels and of the pulses.
WheelTypes ==
    /\ step \in 0 .. Iters + 1
    /\ left \in [Lanes -> 1 .. Turn]
    /\ low \in [Lanes -> 0 .. PulseLow]
    /\ early \subseteq PreRace

\* A LOW sample has its pulse, and a box that counts has sampled what the pins say.
Samples ==
    /\ \A i \in Lanes : fw.pin[i] \/ low[i] > 0
    /\ fw.starting \/ fw.started => fw.values = fw.pin
    /\ fw.starting => fw.previous = fw.pin

\* What both proofs about the box start from; P may be charged with false starts.
BaseInv(P) == WheelTypes /\ Ready(fw) /\ Just(P, fw.tx) /\ Samples

ConstantRanges ==
    /\ MaxRacers \in Nat /\ FalseStartTicks \in Nat \ {0} /\ CountdownMs \in Nat
    /\ Turn \in Nat \ {0} /\ PulseLow \in Nat \ {0} /\ Iters \in Nat \ {0}
    /\ CountFrom \in Nat \ {0} /\ MaxClock \in Nat

\* The assumptions of the two modules, in the form the proofs use.
LEMMA ConstantTypes == ConstantRanges
  BY FirmwareConstants, EmulatorConstants DEF ConstantRanges

\* What a pass does to a wheel: it ends a turn, or goes on.
EndsTurn(i) ==
    /\ 1 \in Speeds(i)
    /\ left[i] = 1 /\ left'[i] = Turn
    /\ low'[i] = PulseLow
    /\ turns'[i] = IF running THEN turns[i] + 1 ELSE turns[i]

GoesOn(i) ==
    /\ \/ left'[i] = left[i]
       \/ left[i] > 1 /\ left'[i] = left[i] - 1 /\ 1 \in Speeds(i)
    /\ low'[i] = IF low[i] = 0 THEN 0 ELSE low[i] - 1
    /\ turns'[i] = turns[i]

\* A pass moves each wheel by at most a step.
LEMMA WheelStep ==
    ASSUME WheelTypes, Pass, NEW i \in Lanes
    PROVE  EndsTurn(i) \/ GoesOn(i)
<1>1. PICK speed \in [Lanes -> {0, 1}] :
          /\ \A j \in Lanes : speed[j] \in Speeds(j)
          /\ left' = [j \in Lanes |-> (left[j] - speed[j])
                         + (IF j \in {k \in Lanes : left[k] <= speed[k]} THEN Turn ELSE 0)]
          /\ turns' = [j \in Lanes |-> IF j \in {k \in Lanes : left[k] <= speed[k]} /\ running
                                       THEN turns[j] + 1 ELSE turns[j]]
          /\ low' = [j \in Lanes |-> IF j \in {k \in Lanes : left[k] <= speed[k]} THEN PulseLow
                                     ELSE Max({0, low[j] - 1})]
  BY Zenon DEF Pass
<1>2. speed[i] \in {0, 1} /\ speed[i] \in Speeds(i)
  BY <1>1
<1>3. left[i] \in 1 .. Turn /\ low[i] \in 0 .. PulseLow /\ Turn \in Nat /\ PulseLow \in Nat
  BY ConstantTypes DEF WheelTypes, ConstantRanges
<1>4. CASE left[i] <= speed[i]
  <2>1. speed[i] = 1 /\ left[i] = 1
    BY <1>2, <1>3, <1>4
  <2>2. left'[i] = (left[i] - speed[i]) + Turn
    BY <1>1, <1>4
  <2>3. low'[i] = PulseLow /\ turns'[i] = IF running THEN turns[i] + 1 ELSE turns[i]
    BY <1>1, <1>4
  <2>4. left'[i] = Turn
    BY <1>3, <2>1, <2>2
  <2> QED
    BY <1>2, <2>1, <2>3, <2>4 DEF EndsTurn
<1>5. CASE ~(left[i] <= speed[i])
  <2>1. left'[i] = (left[i] - speed[i]) + 0
    BY <1>1, <1>5
  <2>2. low'[i] = Max({0, low[i] - 1}) /\ turns'[i] = turns[i]
    BY <1>1, <1>5
  <2>3. low'[i] = IF low[i] = 0 THEN 0 ELSE low[i] - 1
    BY <1>3, <2>2, MaxOfTwo
  <2>4. left'[i] = left[i] \/ (left[i] > 1 /\ left'[i] = left[i] - 1 /\ speed[i] = 1)
    BY <1>2, <1>3, <1>5, <2>1
  <2> QED
    BY <1>2, <2>2, <2>3, <2>4 DEF GoesOn
<1> QED
  BY <1>4, <1>5

\* The wheels and the pulses stay in their ranges.
LEMMA WheelsKept ==
    ASSUME WheelTypes, Pass
    PROVE  /\ WheelTypes' /\ step \in 1 .. Iters /\ step' = step + 1
           /\ running' = running /\ early' = early
<1>1. step \in 1 .. Iters /\ step' = step + 1 /\ running' = running /\ early' = early
  BY DEF Pass
<1>2. \A i \in Lanes : left'[i] \in 1 .. Turn /\ low'[i] \in 0 .. PulseLow
  <2> TAKE i \in Lanes
  <2>1. left[i] \in 1 .. Turn /\ low[i] \in 0 .. PulseLow /\ Turn \in Nat \ {0} /\ PulseLow \in Nat
    BY ConstantTypes DEF WheelTypes, ConstantRanges
  <2>2. EndsTurn(i) \/ GoesOn(i)
    BY WheelStep
  <2> QED
    BY <2>1, <2>2 DEF EndsTurn, GoesOn
<1>3. /\ left' = [i \in Lanes |-> left'[i]]
      /\ low' = [i \in Lanes |-> low'[i]]
  BY DEF Pass
<1> QED
  BY <1>1, <1>2, <1>3, ConstantTypes DEF WheelTypes, ConstantRanges

-----------------------------------------------------------------------------
(* A pass of the box. *)

\* The levels of the pins are all that has changed.
Sampled(f, g, pins) ==
    /\ DOMAIN g = DOMAIN f
    /\ g.pin = pins
    /\ g.tx = f.tx /\ g.rx = f.rx /\ g.mock = f.mock
    /\ g.starting = f.starting /\ g.started = f.started
    /\ g.clock = f.clock /\ g.count = f.count /\ g.countAge = f.countAge
    /\ g.previous = f.previous /\ g.values = f.values
    /\ g.ticks = f.ticks

\* The sensors are sampled before the pass of the firmware.
LEMMA SampleEffect ==
    ASSUME NEW f, IsBox(f), NEW pins
    PROVE  Sampled(f, [f EXCEPT !.pin = pins], pins)
  BY BoxFields, Zenon DEF Sampled

\* The levels of the sensors in this pass.
Pins == [i \in Lanes |-> low'[i] = 0]

\* A pass is one of the firmware on the levels the wheels have just set.
LEMMA PassEffect ==
    ASSUME NEW P, BaseInv(P), Pass,
           \A i \in Lanes \ P :
               /\ FalseStartTicks > 1
               /\ fw.starting /\ low'[i] = 0 /\ ~fw.previous[i] =>
                      fw.ticks[i] + 1 < FalseStartTicks
    PROVE  \E f : Sampled(fw, f, Pins) /\ Ticked(P, f, fw')
<1> DEFINE f == [fw EXCEPT !.pin = Pins]
<1>1. fw' = Tick(f)
  BY Zenon DEF Pass, Pins
<1>2. IsBox(fw) /\ Ready(fw) /\ Just(P, fw.tx)
  BY DEF BaseInv, Ready, Typed
<1>3. Sampled(fw, f, Pins)
  BY <1>2, SampleEffect
<1> HIDE DEF f
<1>4. Ready(f)
  BY <1>2, <1>3 DEF Ready, Typed, IsBox, Sampled
<1>5. Just(P, f.tx)
  BY <1>2, <1>3 DEF Sampled
<1>6. Harmless(P, f)
  <2>1. \A i \in Lanes : f.pin[i] <=> low'[i] = 0
    BY <1>3 DEF Sampled, Pins
  <2>2. f.starting = fw.starting /\ f.previous = fw.previous /\ f.ticks = fw.ticks
    BY <1>3 DEF Sampled
  <2>3. f.starting <=> fw.starting
    BY <2>2, Zenon
  <2> QED
    BY <2>1, <2>2, <2>3 DEF Harmless
<1>7. Ticked(P, f, fw')
  BY <1>1, <1>4, <1>5, <1>6, TickEffect
<1> QED
  BY <1>3, <1>7

\* A pass keeps the base.
LEMMA BasePass ==
    ASSUME NEW P, BaseInv(P), Pass, NEW f, Sampled(fw, f, Pins), Ticked(P, f, fw')
    PROVE  BaseInv(P)'
<1>1. WheelTypes'
  BY WheelsKept DEF BaseInv
<1>2. Ready(fw)' /\ Just(P, fw'.tx) /\ fw'.pin = Pins
  BY DEF Ticked, Sampled
<1>3. \A i \in Lanes : fw'.pin[i] \/ low'[i] > 0
  <2> TAKE i \in Lanes
  <2>1. low'[i] \in 0 .. PulseLow
    BY <1>1 DEF WheelTypes
  <2>2. fw'.pin[i] <=> low'[i] = 0
    BY <1>2 DEF Pins
  <2> QED
    BY <2>1, <2>2
<1>4. /\ fw'.starting \/ fw'.started => fw'.values = fw'.pin
      /\ fw'.starting => fw'.previous = fw'.pin
  BY DEF Ticked, Waits, CountsOn, CountsAgain, Counts, Starts, Races
<1> QED
  BY <1>1, <1>2, <1>3, <1>4 DEF BaseInv, Samples

-----------------------------------------------------------------------------
(* The head and the tail of the loop. *)

\* The box after a millisecond.
Elapsed(f, g) ==
    /\ DOMAIN g = DOMAIN f
    /\ g.tx = <<>> /\ g.rx = f.rx /\ g.mock = f.mock
    /\ g.starting = f.starting /\ g.started = f.started
    /\ g.clock = IF f.started /\ f.clock < MaxClock THEN f.clock + 1 ELSE f.clock
    /\ g.countAge = IF f.starting /\ f.countAge <= CountdownMs THEN f.countAge + 1 ELSE f.countAge
    /\ g.count = f.count
    /\ g.pin = f.pin /\ g.previous = f.previous /\ g.values = f.values
    /\ g.ticks = f.ticks

\* A millisecond that goes by only moves the two ages.
LEMMA ElapseEffect ==
    ASSUME NEW f, IsBox(f)
    PROVE  Elapsed(f, Elapse([f EXCEPT !.tx = <<>>]))
<1> DEFINE h == [f EXCEPT !.tx = <<>>]
           g == Elapse(h)
<1>1. /\ DOMAIN h = DOMAIN f
      /\ h.tx = <<>> /\ h.rx = f.rx /\ h.mock = f.mock
      /\ h.starting = f.starting /\ h.started = f.started
      /\ h.clock = f.clock /\ h.count = f.count /\ h.countAge = f.countAge
      /\ h.pin = f.pin /\ h.previous = f.previous /\ h.values = f.values
      /\ h.ticks = f.ticks
  BY BoxFields, Zenon
<1> HIDE DEF h
<1>2. IsBox(h)
  BY <1>1 DEF IsBox
<1> DEFINE clock == IF h.started /\ h.clock < MaxClock THEN h.clock + 1 ELSE h.clock
           age == IF h.starting /\ h.countAge <= CountdownMs THEN h.countAge + 1 ELSE h.countAge
<1>3. g = [h EXCEPT !.clock = clock, !.countAge = age]
  BY Zenon DEF Elapse
<1> HIDE DEF clock, age, g
<1>4. /\ DOMAIN g = DOMAIN h
      /\ g.tx = h.tx /\ g.rx = h.rx /\ g.mock = h.mock
      /\ g.starting = h.starting /\ g.started = h.started
      /\ g.clock = clock /\ g.count = h.count /\ g.countAge = age
      /\ g.pin = h.pin /\ g.previous = h.previous /\ g.values = h.values
      /\ g.ticks = h.ticks
  BY <1>2, <1>3, BoxFields, Zenon
<1>5. clock = IF f.started /\ f.clock < MaxClock THEN f.clock + 1 ELSE f.clock
  BY <1>1 DEF clock
<1>6. age = IF f.starting /\ f.countAge <= CountdownMs THEN f.countAge + 1 ELSE f.countAge
  BY <1>1 DEF age
<1>7. Elapsed(f, g)
  BY <1>1, <1>4, <1>5, <1>6 DEF Elapsed
<1> QED
  BY <1>7 DEF g, h

\* What Input does to the box, whether or not the client reaches it.
Fed(f, g) ==
    /\ Same(f, g)
    /\ g.tx = f.tx /\ g.mock = f.mock

\* The head of the loop feeds the box and touches no count.
LEMMA InputEffect ==
    ASSUME Input, IsBox(fw)
    PROVE  /\ Fed(fw, fw')
           /\ fw'.rx = IF pty.master THEN fw.rx \o line ELSE fw.rx
<1>1. fw' = IF pty.master THEN [fw EXCEPT !.rx = @ \o line] ELSE fw
  BY Zenon DEF Input
<1>2. CASE pty.master
  <2>1. fw' = [fw EXCEPT !.rx = @ \o line]
    BY <1>1, <1>2
  <2>2. Fed(fw, [fw EXCEPT !.rx = @ \o line])
    BY BoxFields, Zenon DEF Fed, Same
  <2>3. [fw EXCEPT !.rx = @ \o line].rx = fw.rx \o line
    BY BoxFields, Zenon
  <2> QED
    BY <1>2, <2>1, <2>2, <2>3
<1>3. CASE ~pty.master
  <2>1. fw' = fw
    BY <1>1, <1>3
  <2>2. Fed(fw, fw)
    BY DEF Fed, Same
  <2> QED
    BY <1>3, <2>1, <2>2
<1> QED
  BY <1>2, <1>3

\* The wheels in Input: a race that begins puts them at the start of a turn, and a
\* rebound, which only a race has, lowers a sensor.
LEMMA InputWheels ==
    ASSUME Input, WheelTypes
    PROVE  /\ WheelTypes'
           /\ step = 0 /\ step' = 1
           /\ running' = fw.started
           /\ \A i \in Lanes :
                 /\ left'[i] = IF fw.started /\ ~running THEN Turn ELSE left[i]
                 /\ low'[i] = low[i] \/ (fw.started /\ low'[i] = PulseLow)
<1>1. /\ step = 0 /\ step' = 1 /\ running' = fw.started
      /\ left' = IF fw.started /\ ~running THEN [i \in Lanes |-> Turn] ELSE left
      /\ early' \subseteq early \cup PreRace
      /\ \E S : low' = [i \in Lanes |-> IF i \in S THEN PulseLow ELSE low[i]]
                /\ (~fw.started => S = Rollers({}))
  <2>1. step = 0 /\ step' = 1 /\ running' = fw.started
    BY Zenon DEF Input
  <2>2. left' = IF fw.started /\ ~running THEN [i \in Lanes |-> Turn] ELSE left
    BY Zenon DEF Input
  <2>3. early' \in {{}, early \cup PreRace, early}
    BY Zenon DEF Input
  <2> DEFINE ks == IF fw.started THEN Due(raceMs', Rearmed(fw.started /\ ~wasRacing)) ELSE {}
  <2>4. low' = [i \in Lanes |-> IF i \in Rollers(ks) THEN PulseLow ELSE low[i]]
    BY Zenon DEF Input
  <2>5. ~fw.started => ks = {}
    OBVIOUS
  <2> HIDE DEF ks
  <2> QED
    BY <2>1, <2>2, <2>3, <2>4, <2>5
<1>2. Rollers({}) = {}
  BY DEF Rollers
<1>3. left' \in [Lanes -> 1 .. Turn]
  BY <1>1, ConstantTypes DEF WheelTypes, ConstantRanges
<1>4. low' \in [Lanes -> 0 .. PulseLow]
  BY <1>1, ConstantTypes DEF WheelTypes, ConstantRanges
<1>5. step' \in 0 .. Iters + 1 /\ early' \subseteq PreRace
  BY <1>1, ConstantTypes DEF WheelTypes, ConstantRanges
<1>6. \A i \in Lanes :
                 /\ left'[i] = IF fw.started /\ ~running THEN Turn ELSE left[i]
                 /\ low'[i] = low[i] \/ (fw.started /\ low'[i] = PulseLow)
  BY <1>1, <1>2, <1>3, <1>4
<1> QED
  BY <1>1, <1>3, <1>4, <1>5, <1>6 DEF WheelTypes

\* The head of the loop keeps the base.
LEMMA BaseInput ==
    ASSUME NEW P, BaseInv(P), Input
    PROVE  BaseInv(P)'
<1>1. IsBox(fw) /\ WheelTypes
  BY DEF BaseInv, Ready, Typed
<1>2. Fed(fw, fw')
  BY <1>1, InputEffect
<1>3. /\ WheelTypes' /\ running' = fw.started
      /\ \A i \in Lanes : low'[i] = low[i] \/ (fw.started /\ low'[i] = PulseLow)
  BY <1>1, InputWheels
<1>4. Ready(fw')
  BY <1>2 DEF BaseInv, Ready, Typed, IsBox, Fed, Same
<1>5. Just(P, fw'.tx)
  BY <1>2 DEF BaseInv, Fed
<1>6. \A i \in Lanes : fw'.pin[i] \/ low'[i] > 0
  <2> TAKE i \in Lanes
  <2>1. fw.pin[i] \/ low[i] > 0
    BY DEF BaseInv, Samples
  <2>2. PulseLow > 0
    BY ConstantTypes DEF ConstantRanges
  <2>3. fw'.pin = fw.pin
    BY <1>2 DEF Fed, Same
  <2> QED
    BY <1>3, <2>1, <2>2, <2>3
<1>7. Samples'
  BY <1>2, <1>6 DEF BaseInv, Samples, Fed, Same
<1> QED
  BY <1>3, <1>4, <1>5, <1>7 DEF BaseInv

\* So does its tail.
LEMMA BaseOutput ==
    ASSUME NEW P, BaseInv(P), Output
    PROVE  BaseInv(P)' /\ Elapsed(fw, fw') /\ step = Iters + 1 /\ step' = 0
<1>1. fw' = Elapse([fw EXCEPT !.tx = <<>>])
  BY Zenon DEF Output
<1>2. IsBox(fw)
  BY DEF BaseInv, Ready, Typed
<1>3. Elapsed(fw, fw')
  BY <1>1, <1>2, ElapseEffect
<1>4. step = Iters + 1 /\ step' = 0 /\ UNCHANGED <<left, low, early, running>>
  BY Zenon DEF Output, riderVars
<1>5. WheelTypes'
  BY <1>4, ConstantTypes DEF BaseInv, WheelTypes, ConstantRanges
<1>6. Typed(fw')
  <2>1. fw'.clock \in Nat /\ fw'.countAge \in 0 .. CountdownMs + 1
    BY <1>3, ConstantTypes DEF BaseInv, Ready, Typed, Elapsed, ConstantRanges
  <2> QED
    BY <1>3, <2>1 DEF BaseInv, Ready, Typed, IsBox, Elapsed
<1>7. Ready(fw')
  BY <1>3, <1>6 DEF BaseInv, Ready, Elapsed
<1>8. Just(P, fw'.tx)
  BY <1>3, NoneIsJust DEF Elapsed
<1>9. Samples'
  BY <1>3, <1>4 DEF BaseInv, Samples, Elapsed
<1> QED
  BY <1>3, <1>4, <1>5, <1>7, <1>8, <1>9 DEF BaseInv

\* The emulator starts with it.
LEMMA BaseInit ==
    ASSUME NEW P, Init
    PROVE  BaseInv(P)
<1>1. /\ fw = Boot /\ step = 0 /\ early = {} /\ running = FALSE
      /\ left = [i \in Lanes |-> Turn] /\ low = Zero /\ turns = Zero
  BY DEF Init
<1>2. WheelTypes
  BY <1>1, ConstantTypes DEF WheelTypes, ConstantRanges, Zero
<1>3. Ready(fw)
  BY <1>1, ConstantTypes DEF Ready, Typed, IsBox, Boot, ConstantRanges
<1>4. Just(P, fw.tx)
  <2>1. fw.tx = <<>>
    BY <1>1 DEF Boot
  <2> QED
    BY <2>1, NoneIsJust
<1>5. Samples
  BY <1>1 DEF Samples, Boot
<1> QED
  BY <1>2, <1>3, <1>4, <1>5 DEF BaseInv

\* What touches neither the box nor the wheels keeps it.
LEMMA BaseStill ==
    ASSUME NEW P, BaseInv(P), UNCHANGED <<fw, riderVars, step>>
    PROVE  BaseInv(P)'
  BY DEF BaseInv, WheelTypes, Samples, riderVars

-----------------------------------------------------------------------------
(* False starts. *)

\* Those the scenario has leave too early.
Guilty == PreRace \cap Wired

\* No wheel ends two turns in a millisecond, and three ticks are not two.
SlowWheels == Iters <= Turn /\ FalseStartTicks >= 3

One(b) == IF b THEN 1 ELSE 0

\* The passes left in this millisecond.
Rest == IF step = 0 THEN 0 ELSE Iters + 1 - step

\* The wheel of a race that has just been stopped, if it may still end its turn.
Coasting(i) == running /\ i \in Wired /\ left[i] <= Rest

\* What a rider who does nothing wrong may still be charged with in a countdown.
Innocence ==
    fw.starting =>
        \A i \in Lanes \ Guilty : fw.ticks[i] + One(low[i] > 0) + One(Coasting(i)) <= 2

EarnedInv == BaseInv(Guilty) /\ Innocence

\* A wheel of somebody who does nothing wrong turns in a race only.
LEMMA InnocentSpeed ==
    ASSUME WheelTypes, NEW i \in Lanes \ Guilty, 1 \in Speeds(i)
    PROVE  running /\ i \in Wired
  BY DEF WheelTypes, Speeds, Guilty

\* An innocent rider has no edge left to be charged with.
LEMMA InnocentEdge ==
    ASSUME EarnedInv, SlowWheels, Pass, NEW i \in Lanes \ Guilty,
           fw.starting, low'[i] = 0, ~fw.previous[i]
    PROVE  low[i] > 0 /\ fw.ticks[i] \in Nat /\ fw.ticks[i] <= 1
<1>1. fw.previous = fw.pin /\ fw.ticks \in [Lanes -> Nat]
  BY DEF EarnedInv, BaseInv, Samples, Ready, Typed
<1>2. low[i] > 0
  BY <1>1 DEF EarnedInv, BaseInv, Samples
<1>3. fw.ticks[i] + One(low[i] > 0) + One(Coasting(i)) <= 2
  BY DEF EarnedInv, Innocence
<1>4. One(Coasting(i)) \in {0, 1} /\ One(low[i] > 0) = 1
  BY <1>2 DEF One
<1> QED
  BY <1>1, <1>2, <1>3, <1>4

\* A pass charges the innocent with nothing more than they were due: the end of a
\* turn under way, a pulse under way.
LEMMA InnocencePass ==
    ASSUME EarnedInv, SlowWheels, Pass
    PROVE  EarnedInv'
<1>1. WheelTypes /\ BaseInv(Guilty)
  BY DEF EarnedInv, BaseInv
<1>2. \A i \in Lanes \ Guilty :
          /\ FalseStartTicks > 1
          /\ fw.starting /\ low'[i] = 0 /\ ~fw.previous[i] => fw.ticks[i] + 1 < FalseStartTicks
  BY InnocentEdge, ConstantTypes DEF SlowWheels, ConstantRanges
<1>3. PICK f : Sampled(fw, f, Pins) /\ Ticked(Guilty, f, fw')
  BY <1>1, <1>2, PassEffect
<1>4. BaseInv(Guilty)'
  BY <1>1, <1>3, BasePass
<1>5. step \in 1 .. Iters /\ step' = step + 1 /\ running' = running /\ WheelTypes'
  BY <1>1, WheelsKept
<1>6. ASSUME NEW i \in Lanes \ Guilty
      PROVE  /\ low'[i] > 0 <=> ~(low'[i] = 0)
             /\ f.pin[i] <=> low'[i] = 0
             /\ \/ low'[i] > 0 /\ Coasting(i) /\ ~Coasting(i)'
                \/ (Coasting(i)' => Coasting(i)) /\ (low'[i] > 0 => low[i] > 0)
  <2>1. EndsTurn(i) \/ GoesOn(i)
    BY <1>1, WheelStep
  <2>2. /\ left[i] \in 1 .. Turn /\ low[i] \in 0 .. PulseLow
        /\ left'[i] \in 1 .. Turn /\ low'[i] \in 0 .. PulseLow
    BY <1>1, <1>5 DEF WheelTypes
  <2>3. Rest = Iters + 1 - step /\ Rest' = Iters - step
    BY <1>5, ConstantTypes DEF Rest, ConstantRanges
  <2>4. f.pin[i] <=> low'[i] = 0
    BY <1>3 DEF Sampled, Pins
  <2>5. CASE EndsTurn(i)
    <3>1. running /\ i \in Wired
      BY <1>1, <2>5, InnocentSpeed DEF EndsTurn
    <3>2. Coasting(i)
      BY <3>1, <1>5, <2>3, <2>5, ConstantTypes DEF Coasting, EndsTurn, ConstantRanges
    <3>3. ~Coasting(i)'
      BY <1>5, <2>3, <2>5, ConstantTypes DEF Coasting, EndsTurn, ConstantRanges, SlowWheels
    <3> QED
      BY <2>2, <2>4, <2>5, <3>2, <3>3, ConstantTypes DEF EndsTurn, ConstantRanges
  <2>6. CASE GoesOn(i)
    <3>1. Coasting(i)' => Coasting(i)
      BY <1>5, <2>2, <2>3, <2>6, ConstantTypes DEF Coasting, GoesOn, ConstantRanges
    <3>2. low'[i] > 0 => low[i] > 0
      BY <2>2, <2>6 DEF GoesOn
    <3> QED
      BY <2>2, <2>4, <3>1, <3>2
  <2> QED
    BY <2>1, <2>5, <2>6
<1>7. Innocence'
  <2> SUFFICES ASSUME fw'.starting, NEW i \in Lanes \ Guilty
               PROVE  fw'.ticks[i] + One(low'[i] > 0) + One(Coasting(i)') <= 2
    BY DEF Innocence
  <2>1. /\ One(low'[i] > 0) \in {0, 1} /\ One(Coasting(i)') \in {0, 1}
        /\ One(low[i] > 0) \in {0, 1} /\ One(Coasting(i)) \in {0, 1}
    BY DEF One
  <2>2. CountsOn(f, fw') \/ CountsAgain(f, fw')
    BY <1>3 DEF Ticked, Waits, Starts, Races
  <2>3. f.previous = fw.previous /\ f.ticks = fw.ticks /\ f.starting = fw.starting
    BY <1>3 DEF Sampled
  <2>4. low'[i] > 0 => One(low'[i] > 0) = 1 /\ ~f.pin[i]
    BY <1>6 DEF One
  <2>5. ~(low'[i] > 0) => One(low'[i] > 0) = 0 /\ low'[i] = 0
    BY <1>6 DEF One
  <2>6. CASE CountsAgain(f, fw')
    <3>1. fw'.ticks[i] = IF 0 < FalseStartTicks /\ f.pin[i] /\ ~f.previous[i] THEN 0 + 1 ELSE 0
      BY <2>6 DEF CountsAgain, Counts, Zero
    <3>2. fw'.ticks[i] + One(low'[i] > 0) <= 1 /\ fw'.ticks[i] \in Nat
      BY <2>4, <2>5, <3>1
    <3> QED
      BY <2>1, <3>2
  <2>7. CASE CountsOn(f, fw')
    <3>1. fw.starting
      <4>1. f.starting
        BY <2>7 DEF CountsOn
      <4> QED
        BY <2>3, <4>1, Zenon
    <3>2. fw.ticks[i] + One(low[i] > 0) + One(Coasting(i)) <= 2 /\ fw.ticks[i] \in Nat
      BY <3>1 DEF EarnedInv, Innocence, BaseInv, Ready, Typed
    <3>3. fw'.ticks[i] = IF fw.ticks[i] < FalseStartTicks /\ f.pin[i] /\ ~fw.previous[i]
                         THEN fw.ticks[i] + 1 ELSE fw.ticks[i]
      BY <2>3, <2>7 DEF CountsOn, Counts
    <3>4. CASE low'[i] > 0 /\ Coasting(i) /\ ~Coasting(i)'
      <4>1. One(Coasting(i)) = 1 /\ One(Coasting(i)') = 0 /\ One(low'[i] > 0) = 1
        BY <3>4 DEF One
      <4>2. fw'.ticks[i] = fw.ticks[i]
        BY <2>4, <3>3, <3>4
      <4> QED
        BY <2>1, <3>2, <4>1, <4>2
    <3>5. CASE (Coasting(i)' => Coasting(i)) /\ (low'[i] > 0 => low[i] > 0)
      <4>1. One(Coasting(i)') <= One(Coasting(i))
        BY <3>5 DEF One
      <4>2. CASE low'[i] > 0
        <5>1. fw'.ticks[i] = fw.ticks[i] /\ One(low'[i] > 0) = 1 /\ One(low[i] > 0) = 1
          BY <2>4, <3>3, <3>5, <4>2 DEF One
        <5> QED
          BY <2>1, <3>2, <4>1, <5>1
      <4>3. CASE ~(low'[i] > 0) /\ f.pin[i] /\ ~fw.previous[i]
        <5>1. low[i] > 0
          BY <2>5, <3>1, <4>3, InnocentEdge
        <5>2. One(low[i] > 0) = 1 /\ One(low'[i] > 0) = 0
          BY <2>5, <4>3, <5>1 DEF One
        <5> QED
          BY <2>1, <3>2, <3>3, <4>1, <5>2
      <4>4. CASE ~(low'[i] > 0) /\ ~(f.pin[i] /\ ~fw.previous[i])
        <5>1. fw'.ticks[i] = fw.ticks[i] /\ One(low'[i] > 0) = 0
          BY <2>5, <3>3, <4>4
        <5> QED
          BY <2>1, <3>2, <4>1, <5>1
      <4> QED
        BY <4>2, <4>3, <4>4
    <3> QED
      BY <1>6, <3>4, <3>5
  <2> QED
    BY <2>2, <2>6, <2>7
<1> QED
  BY <1>4, <1>7 DEF EarnedInv

\* The head of the loop lowers no sensor out of a race, and ends the coasting.
LEMMA InnocenceInput ==
    ASSUME EarnedInv, Input
    PROVE  EarnedInv'
<1>1. BaseInv(Guilty) /\ IsBox(fw) /\ WheelTypes
  BY DEF EarnedInv, BaseInv, Ready, Typed
<1>2. BaseInv(Guilty)'
  BY <1>1, BaseInput
<1>3. Fed(fw, fw')
  BY <1>1, InputEffect
<1>4. /\ running' = fw.started
      /\ \A i \in Lanes : low'[i] = low[i] \/ (fw.started /\ low'[i] = PulseLow)
  BY <1>1, InputWheels
<1>5. Innocence'
  <2> SUFFICES ASSUME fw'.starting, NEW i \in Lanes \ Guilty
               PROVE  fw'.ticks[i] + One(low'[i] > 0) + One(Coasting(i)') <= 2
    BY DEF Innocence
  <2>1. fw'.starting = fw.starting /\ fw'.ticks = fw.ticks
    BY <1>3 DEF Fed, Same
  <2>2. fw.starting
    BY <2>1, Zenon
  <2>3. ~fw.started
    BY <1>1, <2>2 DEF BaseInv, Ready
  <2>4. low'[i] = low[i] /\ ~running'
    BY <1>4, <2>3
  <2>5. One(Coasting(i)') = 0 /\ One(low'[i] > 0) = One(low[i] > 0)
    BY <2>4 DEF One, Coasting
  <2>6. fw.ticks[i] + One(low[i] > 0) + One(Coasting(i)) <= 2 /\ fw.ticks[i] \in Nat
    BY <2>2 DEF EarnedInv, Innocence, BaseInv, Ready, Typed
  <2>7. One(Coasting(i)) \in {0, 1} /\ One(low[i] > 0) \in {0, 1}
    BY DEF One
  <2> QED
    BY <2>1, <2>5, <2>6, <2>7
<1> QED
  BY <1>2, <1>5 DEF EarnedInv

\* Its tail moves no wheel.
LEMMA InnocenceOutput ==
    ASSUME EarnedInv, Output
    PROVE  EarnedInv'
<1>1. BaseInv(Guilty) /\ WheelTypes
  BY DEF EarnedInv, BaseInv
<1>2. BaseInv(Guilty)' /\ Elapsed(fw, fw') /\ step = Iters + 1 /\ step' = 0
  BY <1>1, BaseOutput
<1>3. UNCHANGED <<left, low, running>>
  BY Zenon DEF Output, riderVars
<1>4. Rest = 0 /\ Rest' = 0
  BY <1>2, ConstantTypes DEF Rest, ConstantRanges
<1>5. \A i \in Lanes : Coasting(i)' = Coasting(i)
  BY <1>3, <1>4 DEF Coasting
<1>6. fw'.starting = fw.starting /\ fw'.ticks = fw.ticks
  BY <1>2 DEF Elapsed
<1>7. fw'.starting <=> fw.starting
  BY <1>6, Zenon
<1>8. Innocence'
  BY <1>3, <1>5, <1>6, <1>7 DEF EarnedInv, Innocence, One
<1> QED
  BY <1>2, <1>8 DEF EarnedInv

\* Every step keeps the invariant.
LEMMA EarnedStep ==
    ASSUME EarnedInv, SlowWheels, [Next]_vars
    PROVE  EarnedInv'
<1>1. CASE UNCHANGED <<fw, riderVars, step>>
  BY <1>1, BaseStill DEF EarnedInv, Innocence, Coasting, Rest, riderVars
<1> QED
  BY <1>1, InnocencePass, InnocenceInput, InnocenceOutput DEF Next, Turns, Send, vars

\* A false start is told of a wired rider of the scenario only, whatever the race
\* before has left in the samples (FirmwareSim::loop, RiderModel::update).
THEOREM FalseStartsAreEarned ==
    ASSUME SlowWheels
    PROVE  Spec => []FalseStartIsEarned
<1>1. Init => EarnedInv
  <2>1. Init => ~fw.starting
    BY DEF Init, Boot
  <2> QED
    BY <2>1, BaseInit DEF EarnedInv, Innocence
<1>2. EarnedInv /\ [Next]_vars => EarnedInv'
  BY EarnedStep
<1>3. EarnedInv => FalseStartIsEarned
  BY DEF EarnedInv, BaseInv, Just, FalseStartIsEarned, Guilty
<1> QED
  BY <1>1, <1>2, <1>3, PTL DEF Spec

-----------------------------------------------------------------------------
(* Mock mode. *)

\* Bytes among which no m asks for the mock mode.
MockFree(s) == IsSeq(s) /\ \A k \in DOMAIN s : s[k] # "m"

NoMock == ~fw.mock /\ MockFree(fw.rx) /\ MockFree(line)

\* Bytes without an m, joined.
LEMMA MockFreeJoin ==
    ASSUME NEW s, MockFree(s), NEW t, MockFree(t)
    PROVE  MockFree(s \o t)
<1> DEFINE S == Range(s) \cup Range(t)
<1>1. s \in Seq(S) /\ t \in Seq(S)
  BY DEF MockFree, IsSeq
<1> HIDE DEF S
<1>2. s \o t \in Seq(S) /\ DOMAIN (s \o t) = 1 .. Len(s) + Len(t)
  BY <1>1
<1>3. ASSUME NEW k \in DOMAIN (s \o t)
      PROVE  \/ k \in DOMAIN s /\ (s \o t)[k] = s[k]
             \/ k - Len(s) \in DOMAIN t /\ (s \o t)[k] = t[k - Len(s)]
  BY <1>1, <1>2
<1> QED
  BY <1>2, <1>3, SeqIsSeq DEF MockFree

\* Bytes without an m, read.
LEMMA MockFreeTail ==
    ASSUME NEW s, MockFree(s), s # <<>>
    PROVE  MockFree(Tail(s)) /\ Head(s) # "m"
<1> DEFINE S == Range(s)
<1>1. s \in Seq(S)
  BY DEF MockFree, IsSeq
<1> HIDE DEF S
<1>2. Tail(s) \in Seq(S) /\ Head(s) = s[1] /\ 1 \in DOMAIN s
  BY <1>1
<1>3. \A k \in DOMAIN Tail(s) : k + 1 \in DOMAIN s /\ Tail(s)[k] = s[k + 1]
  BY <1>1
<1> QED
  BY <1>2, <1>3, SeqIsSeq DEF MockFree

\* One byte that is no m.
LEMMA MockFreeOne ==
    ASSUME NEW c, c # "m"
    PROVE  MockFree(<<c>>)
<1>1. <<c>> \in Seq({c}) /\ DOMAIN <<c>> = {1} /\ <<c>>[1] = c
  OBVIOUS
<1> QED
  BY <1>1, SeqIsSeq DEF MockFree

\* No command the driver lets through asks for the mock mode but that which is its name.
LEMMA MockFreeCommand ==
    ASSUME <<"m">> \notin Tried, NEW cmd \in Tried, Valid(cmd)
    PROVE  MockFree(Append(cmd, "\n"))
<1>1. cmd \in Seq(STRING)
  BY EmulatorConstants
<1>2. \A k \in DOMAIN cmd : cmd[k] # "m"
  <2>1. CASE Len(cmd) = 1 /\ cmd[1] \in Bare
    <3>1. cmd = <<cmd[1]>>
      BY <1>1, <2>1
    <3>2. cmd[1] # "m"
      BY <3>1
    <3>3. DOMAIN cmd = {1}
      BY <1>1, <2>1
    <3> QED
      BY <3>2, <3>3
  <2>2. CASE /\ Len(cmd) > 1 /\ cmd[1] \in {"l", "t"}
             /\ \A i \in DOMAIN Tail(cmd) : IsDigit(Tail(cmd)[i])
    <3>1. \A c : IsDigit(c) => c # "m"
      BY DEF IsDigit, Digit
    <3> SUFFICES ASSUME NEW k \in DOMAIN cmd PROVE cmd[k] # "m"
      OBVIOUS
    <3>2. CASE k = 1
      BY <2>2, <3>2
    <3>3. CASE k # 1
      <4>1. k - 1 \in DOMAIN Tail(cmd) /\ Tail(cmd)[k - 1] = cmd[k]
        BY <1>1, <3>3
      <4> QED
        BY <2>2, <3>1, <4>1
    <3> QED
      BY <3>2, <3>3
  <2> QED
    BY <2>1, <2>2, Zenon DEF Valid
<1>3. MockFree(cmd)
  BY <1>1, <1>2, SeqIsSeq DEF MockFree
<1>4. MockFree(<<"\n">>)
  BY MockFreeOne
<1>5. Append(cmd, "\n") = cmd \o <<"\n">>
  BY <1>1
<1> QED
  BY <1>3, <1>4, <1>5, MockFreeJoin

-----------------------------------------------------------------------------
(* Ticks and turns: what every step keeps. *)

\* A pulse ends before the next turn does, even when a millisecond comes between;
\* a step of the countdown is longer than a pulse; nobody asks for the mock mode,
\* whose ticks are no turns.
SteadyWheels ==
    /\ PulseLow < Turn /\ PulseLow + Iters <= Turn + 1
    /\ PulseLow <= CountdownMs * Iters + 1
    /\ <<"m">> \notin Tried

\* The passes gone in this millisecond.
Done == IF step = 0 THEN 0 ELSE step - 1

\* The sensor is low for another pulse than that of the last turn of its wheel.
Dirty(i) == low[i] > 0 /\ low[i] + Turn - left[i] > PulseLow

\* The scenario follows the riders.
Scene ==
    /\ wasRacing = running
    /\ fired \subseteq DOMAIN Faults
    /\ turns \in [Lanes -> Nat]

\* A race just stopped has its countdown still at its first moment, and a frame of
\* the countdown that is due leaves with the next pass.
Phases ==
    fw.starting =>
        /\ running /\ step # 0 => fw.countAge = 0
        /\ CountIsDue(fw) => step \in {0, 1}

\* The passes of the countdown in whole milliseconds.
Since == (fw.countAge - 1) * Iters

\* Another pulse is wearing out since before the countdown.
Wearing ==
    fw.starting => \A i \in Lanes : Dirty(i) => low[i] + 1 + Since + Done <= PulseLow

\* A rider who leaves early may end a turn in this millisecond.
Early(i) == i \in early /\ i \in Wired /\ left[i] <= Rest

\* Before the riders know of the race, at most the pulse of a rider who left early.
AtStart ==
    fw.started /\ ~running =>
        \A i \in Lanes : fw.ticks[i] + One(low[i] > 0) + One(Early(i)) <= 1

\* A turn is counted when its pulse ends; what is lost or gained is a pulse of the
\* start or a rebound.
InRace ==
    fw.started /\ running =>
        \A i \in Lanes :
            /\ fw.ticks[i] + One(low[i] > 0) <= turns[i] + Phantoms(i) + 1
            /\ turns[i] + One(Dirty(i)) <= fw.ticks[i] + One(~fw.values[i]) + Phantoms(i)

\* What holds whatever the counts are.
Quiet == BaseInv(Lanes) /\ NoMock /\ Scene

Tally == Phases /\ Wearing /\ AtStart /\ InRace

TallyInv == Quiet /\ Tally

\* Rebounds can be counted.
LEMMA PhantomsAreFinite ==
    ASSUME Scene, NEW i
    PROVE  /\ Phantoms(i) \in Nat
           /\ IsFiniteSet({k \in fired : Faults[k].kind = "PhantomTick" /\ Faults[k].rider = i})
<1>1. IsFiniteSet(DOMAIN Faults)
  <2>1. DOMAIN Faults = 1 .. Len(Faults) /\ Len(Faults) \in Nat
    BY EmulatorConstants
  <2> QED
    BY <2>1, FS_Interval
<1>2. {k \in fired : Faults[k].kind = "PhantomTick" /\ Faults[k].rider = i} \subseteq DOMAIN Faults
  BY DEF Scene
<1> QED
  BY <1>1, <1>2, FS_Subset, FS_CardinalityType DEF Phantoms

\* A pass keeps the base, and the mock mode off.
LEMMA QuietPass ==
    ASSUME Quiet, Pass
    PROVE  /\ Quiet'
           /\ \E f : Sampled(fw, f, Pins) /\ Ticked(Lanes, f, fw')
           /\ ~fw'.mock /\ wasRacing' = wasRacing /\ fired' = fired
<1>1. PICK f : Sampled(fw, f, Pins) /\ Ticked(Lanes, f, fw')
  BY PassEffect DEF Quiet
<1>2. BaseInv(Lanes)' /\ step \in 1 .. Iters /\ WheelTypes
  BY <1>1, BasePass, WheelsKept DEF Quiet, BaseInv
<1>3. NoMock' /\ ~fw'.mock
  <2>1. f.rx = fw.rx /\ f.mock = fw.mock /\ line' = line
    BY <1>1 DEF Sampled, Pass, clientVars
  <2>2. fw.rx # <<>> => MockFree(Tail(fw.rx)) /\ Head(fw.rx) # "m"
    BY MockFreeTail DEF Quiet, NoMock
  <2>3. fw'.mock = fw.mock
    BY <1>1, <2>1, <2>2 DEF Ticked
  <2>4. MockFree(fw'.rx)
    BY <1>1, <2>1, <2>2 DEF Ticked, Quiet, NoMock
  <2>5. ~fw'.mock
    BY <2>3, Zenon DEF Quiet, NoMock
  <2> QED
    BY <2>1, <2>4, <2>5 DEF Quiet, NoMock
<1>4. wasRacing' = wasRacing /\ fired' = fired /\ running' = running
  BY DEF Pass, sceneVars
<1>5. turns' \in [Lanes -> Nat]
  <2>1. turns' = [i \in Lanes |-> turns'[i]]
    BY DEF Pass
  <2>2. \A i \in Lanes : turns'[i] \in Nat
    BY <1>2, WheelStep DEF Quiet, Scene, EndsTurn, GoesOn
  <2> QED
    BY <2>1, <2>2
<1>6. Scene'
  BY <1>4, <1>5 DEF Quiet, Scene
<1> QED
  BY <1>1, <1>2, <1>3, <1>4, <1>6 DEF Quiet

\* So does the head of the loop.
LEMMA QuietInput ==
    ASSUME Quiet, Input
    PROVE  Quiet'
<1>1. BaseInv(Lanes)' /\ IsBox(fw)
  BY BaseInput DEF Quiet, BaseInv, Ready, Typed
<1>2. Fed(fw, fw') /\ fw'.rx = IF pty.master THEN fw.rx \o line ELSE fw.rx
  BY <1>1, InputEffect
<1>3. NoMock'
  <2>1. MockFree(fw'.rx)
    BY <1>2, MockFreeJoin DEF Quiet, NoMock
  <2>2. line' = <<>>
    BY Zenon DEF Input
  <2>3. MockFree(<<>>)
    <3>1. <<>> \in Seq({}) /\ DOMAIN <<>> = {}
      OBVIOUS
    <3> QED
      BY <3>1, SeqIsSeq DEF MockFree
  <2>4. ~fw'.mock
    BY <1>2, Zenon DEF Fed, Quiet, NoMock
  <2> QED
    BY <2>1, <2>2, <2>3, <2>4 DEF NoMock
<1>4. Scene'
  <2>1. /\ wasRacing' = fw.started /\ running' = fw.started
        /\ turns' = IF fw.started /\ ~running THEN Zero ELSE turns
    BY Zenon DEF Input
  <2>2. fired' \subseteq DOMAIN Faults
    <3> DEFINE starts == fw.started /\ ~wasRacing
               ks == IF fw.started THEN Due(raceMs', Rearmed(starts)) ELSE {}
    <3>1. fired' = Rearmed(starts) \cup ks
      BY Zenon DEF Input
    <3>2. Rearmed(starts) \subseteq DOMAIN Faults
      BY DEF Quiet, Scene, Rearmed
    <3>3. ks \subseteq DOMAIN Faults
      BY DEF Due
    <3> QED
      BY <3>1, <3>2, <3>3
  <2>3. Zero \in [Lanes -> Nat]
    BY DEF Zero
  <2> QED
    BY <2>1, <2>2, <2>3 DEF Quiet, Scene
<1> QED
  BY <1>1, <1>3, <1>4 DEF Quiet

\* So does its tail.
LEMMA QuietOutput ==
    ASSUME Quiet, Output
    PROVE  Quiet' /\ Elapsed(fw, fw') /\ step = Iters + 1 /\ step' = 0
<1>1. BaseInv(Lanes)' /\ Elapsed(fw, fw') /\ step = Iters + 1 /\ step' = 0
  BY BaseOutput DEF Quiet
<1>2. UNCHANGED <<riderVars, fired, wasRacing, clientVars>>
  BY Zenon DEF Output
<1>3. NoMock'
  <2>1. fw'.mock = fw.mock /\ fw'.rx = fw.rx
    BY <1>1 DEF Elapsed
  <2>2. ~fw'.mock
    BY <2>1, Zenon DEF Quiet, NoMock
  <2> QED
    BY <1>2, <2>1, <2>2 DEF Quiet, NoMock, clientVars
<1> QED
  BY <1>1, <1>2, <1>3 DEF Quiet, Scene, riderVars

\* So does a command of the client.
LEMMA QuietSend ==
    ASSUME Quiet, SteadyWheels, NEW cmd \in Tried, Send(cmd)
    PROVE  Quiet'
<1>1. UNCHANGED <<fw, riderVars, step, wasRacing, fired>> /\ line' = Append(cmd, "\n") /\ Valid(cmd)
  BY Zenon DEF Send, sceneVars
<1>2. NoMock'
  BY <1>1, MockFreeCommand DEF Quiet, NoMock, SteadyWheels
<1> QED
  BY <1>1, <1>2, BaseStill DEF Quiet, Scene, riderVars

\* The emulator starts so.
LEMMA QuietInit ==
    ASSUME Init
    PROVE  Quiet
<1>1. NoMock
  <2>1. fw.mock = FALSE /\ fw.rx = <<>> /\ line = <<>>
    BY DEF Init, Boot
  <2>2. MockFree(<<>>)
    <3>1. <<>> \in Seq({}) /\ DOMAIN <<>> = {}
      OBVIOUS
    <3> QED
      BY <3>1, SeqIsSeq DEF MockFree
  <2> QED
    BY <2>1, <2>2 DEF NoMock
<1>2. Scene
  BY DEF Init, Scene, Zero
<1> QED
  BY <1>1, <1>2, BaseInit DEF Quiet

-----------------------------------------------------------------------------
(* Ticks and turns: a pulse, pass by pass. *)

\* A pulse begins with the end of a turn.
Begun(i) ==
    /\ 1 \in Speeds(i) /\ left[i] <= Rest
    /\ low[i] > 0 => Dirty(i)
    /\ low'[i] > 0 /\ ~Dirty(i)' /\ ~(left'[i] <= Rest')
    /\ turns'[i] = IF running THEN turns[i] + 1 ELSE turns[i]

\* The wheel goes on and the pulse wears.
Worn(i) ==
    /\ low'[i] > 0 => low[i] > 0 /\ low'[i] = low[i] - 1
    /\ Dirty(i)' => Dirty(i)
    /\ left'[i] <= Rest' => left[i] <= Rest
    /\ left'[i] >= left[i] - 1
    /\ turns'[i] = turns[i]

\* A pass begins a pulse, or wears the one under way.
LEMMA PulseStep ==
    ASSUME WheelTypes, Pass, SteadyWheels, NEW i \in Lanes
    PROVE  Begun(i) \/ Worn(i)
<1>1. step \in 1 .. Iters /\ step' = step + 1 /\ WheelTypes'
  BY WheelsKept
<1>2. /\ left[i] \in 1 .. Turn /\ low[i] \in 0 .. PulseLow
      /\ left'[i] \in 1 .. Turn /\ low'[i] \in 0 .. PulseLow
  BY <1>1 DEF WheelTypes
<1>3. Rest = Iters + 1 - step /\ Rest' = Iters - step
  BY <1>1, ConstantTypes DEF Rest, ConstantRanges
<1>4. /\ Turn \in Nat /\ PulseLow \in Nat \ {0} /\ Iters \in Nat \ {0}
      /\ PulseLow < Turn /\ PulseLow + Iters <= Turn + 1
  BY ConstantTypes DEF ConstantRanges, SteadyWheels
<1>5. CASE EndsTurn(i)
  BY <1>1, <1>2, <1>3, <1>4, <1>5 DEF Begun, EndsTurn, Dirty
<1>6. CASE GoesOn(i)
  BY <1>1, <1>2, <1>3, <1>4, <1>6 DEF Worn, GoesOn, Dirty
<1> QED
  BY <1>5, <1>6, WheelStep

\* One more millisecond is one more set of passes.
LEMMA SinceIsInt ==
    ASSUME NEW a \in Int
    PROVE  (a - 1) * Iters \in Int /\ a * Iters = (a - 1) * Iters + Iters
  BY ConstantTypes DEF ConstantRanges

\* What a pass finds and leaves.
PassFacts(f) ==
    /\ Sampled(fw, f, Pins) /\ Ticked(Lanes, f, fw')
    /\ Quiet' /\ ~fw'.mock /\ wasRacing' = wasRacing /\ fired' = fired
    /\ step \in 1 .. Iters /\ step' = step + 1 /\ running' = running /\ early' = early
    /\ \A i \in Lanes :
          /\ Begun(i) \/ Worn(i)
          /\ left[i] \in 1 .. Turn /\ low[i] \in 0 .. PulseLow
          /\ left'[i] \in 1 .. Turn /\ low'[i] \in 0 .. PulseLow
          /\ f.pin[i] <=> ~(low'[i] > 0)

\* Every pass has these facts.
LEMMA PassFactsHold ==
    ASSUME Quiet, Pass, SteadyWheels
    PROVE  \E f : PassFacts(f)
<1>1. PICK f : Sampled(fw, f, Pins) /\ Ticked(Lanes, f, fw')
  BY QuietPass
<1>2. Quiet' /\ ~fw'.mock /\ wasRacing' = wasRacing /\ fired' = fired
  BY QuietPass
<1>3. WheelTypes /\ WheelTypes'
  BY <1>2 DEF Quiet, BaseInv
<1>4. step \in 1 .. Iters /\ step' = step + 1 /\ running' = running /\ early' = early
  BY <1>3, WheelsKept
<1>5. ASSUME NEW i \in Lanes
      PROVE  /\ left[i] \in 1 .. Turn /\ low[i] \in 0 .. PulseLow
             /\ left'[i] \in 1 .. Turn /\ low'[i] \in 0 .. PulseLow
             /\ f.pin[i] <=> ~(low'[i] > 0)
  <2>1. /\ left[i] \in 1 .. Turn /\ low[i] \in 0 .. PulseLow
        /\ left'[i] \in 1 .. Turn /\ low'[i] \in 0 .. PulseLow
    BY <1>3 DEF WheelTypes
  <2>2. f.pin[i] <=> low'[i] = 0
    BY <1>1 DEF Sampled, Pins
  <2>3. low'[i] = 0 <=> ~(low'[i] > 0)
    BY <2>1
  <2> QED
    BY <2>1, <2>2, <2>3
<1> QED
  BY <1>1, <1>2, <1>3, <1>4, <1>5, PulseStep DEF PassFacts

\* A pulse of before the countdown wears out with it.
LEMMA CountdownPass ==
    ASSUME TallyInv, SteadyWheels, NEW f, PassFacts(f)
    PROVE  Phases' /\ Wearing'
<1>1. CASE ~fw'.starting
  BY <1>1 DEF Phases, Wearing
<1>2. CASE fw'.starting
  <2>1. CountsOn(f, fw') \/ CountsAgain(f, fw')
    BY <1>2 DEF PassFacts, Ticked, Waits, Starts, Races
  <2>2. /\ fw.countAge \in Nat /\ fw'.countAge \in Nat /\ CountdownMs \in Nat
        /\ step \in 1 .. Iters /\ step' = step + 1 /\ running' = running
        /\ Iters \in Nat /\ PulseLow \in Nat
    BY ConstantTypes DEF TallyInv, Quiet, BaseInv, Ready, Typed, ConstantRanges, PassFacts
  <2>3. f.countAge = fw.countAge /\ (CountIsDue(f) <=> CountIsDue(fw))
    BY DEF PassFacts, Sampled, CountIsDue
  <2>4. CountsOn(f, fw') => fw.starting
    <3> SUFFICES ASSUME CountsOn(f, fw') PROVE fw.starting
      OBVIOUS
    <3>1. f.starting /\ f.starting = fw.starting
      BY DEF CountsOn, PassFacts, Sampled
    <3> QED
      BY <3>1, Zenon
  <2>5. \/ fw'.countAge = 0
        \/ fw.starting /\ fw'.countAge = fw.countAge /\ ~CountIsDue(fw)
    BY <2>1, <2>3, <2>4 DEF CountsOn, CountsAgain
  <2>6. Phases'
    BY <2>2, <2>5 DEF TallyInv, Tally, Phases, CountIsDue
  <2>7. Wearing'
    <3> SUFFICES ASSUME NEW i \in Lanes, Dirty(i)'
                 PROVE  low'[i] + 1 + Since' + Done' <= PulseLow
      BY <1>2 DEF Wearing
    <3>1. low'[i] = low[i] - 1 /\ Dirty(i) /\ low[i] \in 0 .. PulseLow
      BY DEF PassFacts, Begun, Worn, Dirty
    <3>2. Done = step - 1 /\ Done' = step
      BY <2>2 DEF Done
    <3>3. CASE fw.starting /\ fw'.countAge = fw.countAge
      <4>1. low[i] + 1 + Since + Done <= PulseLow
        BY <3>1, <3>3 DEF TallyInv, Tally, Wearing
      <4>2. Since' = Since /\ Since \in Int
        BY <2>2, <3>3, SinceIsInt DEF Since
      <4> QED
        BY <2>2, <3>1, <3>2, <4>1, <4>2
    <3>4. CASE fw'.countAge = 0
      <4>1. Since' = 0 - Iters
        <5>1. (0 - 1) * Iters \in Int /\ 0 * Iters = (0 - 1) * Iters + Iters /\ 0 * Iters = 0
          BY <2>2, SinceIsInt
        <5> QED
          BY <2>2, <3>4, <5>1 DEF Since
      <4> QED
        BY <2>2, <3>1, <3>2, <4>1
    <3> QED
      BY <2>5, <3>3, <3>4
  <2> QED
    BY <2>6, <2>7
<1> QED
  BY <1>1, <1>2

\* When a race starts no pulse is left of before the countdown.
LEMMA StartIsClean ==
    ASSUME TallyInv, SteadyWheels, NEW f, PassFacts(f), Starts(f, fw')
    PROVE  ~running /\ step = 1 /\ \A i \in Lanes : ~Dirty(i)
<1>1. fw.starting /\ CountIsDue(fw)
  <2>1. f.starting /\ f.starting = fw.starting /\ CountIsDue(f) /\ f.countAge = fw.countAge
    BY DEF Starts, PassFacts, Sampled
  <2>2. fw.starting
    BY <2>1, Zenon
  <2> QED
    BY <2>1, <2>2 DEF CountIsDue
<1>2. /\ fw.countAge \in 0 .. CountdownMs + 1 /\ CountdownMs \in Nat
      /\ step \in 1 .. Iters /\ Iters \in Nat /\ PulseLow \in Nat
  BY ConstantTypes DEF TallyInv, Quiet, BaseInv, Ready, Typed, ConstantRanges, PassFacts
<1>3. fw.countAge = CountdownMs + 1 /\ ~running /\ step = 1
  BY <1>1, <1>2 DEF TallyInv, Tally, Phases, CountIsDue
<1>4. Since = CountdownMs * Iters /\ CountdownMs * Iters \in Int
  <2>1. fw.countAge - 1 = CountdownMs
    BY <1>2, <1>3
  <2>2. (CountdownMs + 1 - 1) * Iters \in Int
    BY <1>2, SinceIsInt
  <2>3. CountdownMs + 1 - 1 = CountdownMs
    BY <1>2
  <2> QED
    BY <2>1, <2>2, <2>3 DEF Since
<1>5. ASSUME NEW i \in Lanes, Dirty(i) PROVE FALSE
  <2>1. low[i] + 1 + Since + Done <= PulseLow /\ low[i] > 0 /\ low[i] \in Nat
    BY <1>1, <1>5 DEF TallyInv, Tally, Wearing, Dirty, PassFacts
  <2>2. Done = 0
    BY <1>3 DEF Done
  <2>3. PulseLow <= CountdownMs * Iters + 1
    BY DEF SteadyWheels
  <2> QED
    BY <1>2, <1>4, <2>1, <2>2, <2>3
<1> QED
  BY <1>3, <1>5

-----------------------------------------------------------------------------
(* Ticks and turns: in a race. *)

\* Out of a race only those who leave early end a turn.
LEMMA EarlySpeed ==
    ASSUME NEW i \in Lanes, Begun(i), ~running
    PROVE  Early(i)
  BY DEF Begun, Speeds, Early

\* The pass that starts a race finds at most a pulse of the wheels of now.
LEMMA StartPass ==
    ASSUME TallyInv, SteadyWheels, NEW f, PassFacts(f), Starts(f, fw')
    PROVE  AtStart' /\ InRace'
<1>1. ~running /\ step = 1 /\ \A i \in Lanes : ~Dirty(i)
  BY StartIsClean
<1>2. running' = running /\ ~fw'.mock /\ step' = 2
  BY <1>1 DEF PassFacts
<1>3. /\ Turn \in Nat /\ PulseLow \in Nat \ {0} /\ Iters \in Nat \ {0}
      /\ PulseLow < Turn /\ PulseLow + Iters <= Turn + 1
  BY ConstantTypes DEF ConstantRanges, SteadyWheels
<1>4. ASSUME NEW i \in Lanes
      PROVE  fw'.ticks[i] + One(low'[i] > 0) + One(Early(i)') <= 1
  <2>1. /\ One(low'[i] > 0) \in {0, 1} /\ One(Early(i)') \in {0, 1}
        /\ (~(low'[i] > 0) => One(low'[i] > 0) = 0) /\ (~Early(i)' => One(Early(i)') = 0)
    BY DEF One
  <2>2. fw'.ticks[i] = 0
    BY <1>2 DEF Starts, Zero
  <2>3. Rest' = Iters - 1
    BY <1>2, <1>3 DEF Rest
  <2>4. /\ left[i] \in 1 .. Turn /\ low[i] \in 0 .. PulseLow
        /\ left'[i] \in 1 .. Turn /\ low'[i] \in 0 .. PulseLow
    BY DEF PassFacts
  <2>5. ~(low'[i] > 0) \/ ~Early(i)'
    <3>1. CASE Begun(i)
      BY <3>1 DEF Begun, Early
    <3>2. CASE Worn(i) /\ low'[i] > 0
      <4>1. low[i] > 1 /\ left'[i] >= left[i] - 1
        BY <2>4, <3>2 DEF Worn
      <4>2. low[i] + Turn - left[i] <= PulseLow
        BY <1>1, <1>3, <2>4, <4>1 DEF Dirty
      <4>3. ~(left'[i] <= Rest')
        BY <1>3, <2>3, <2>4, <4>1, <4>2
      <4> QED
        BY <4>3 DEF Early
    <3> QED
      BY <3>1, <3>2 DEF PassFacts
  <2> QED
    BY <2>1, <2>2, <2>5
<1> QED
  BY <1>1, <1>2, <1>4 DEF AtStart, InRace

\* What a race that goes on makes of a lane.
LaneRaces(i) ==
    /\ fw.ticks[i] \in Nat
    /\ ~fw.values[i] => low[i] > 0
    /\ fw'.ticks[i] = IF ~(low'[i] > 0) /\ ~fw.values[i] THEN fw.ticks[i] + 1 ELSE fw.ticks[i]
    /\ fw'.values[i] <=> ~(low'[i] > 0)

\* What a pass of a race makes of each lane.
LEMMA LanesRace ==
    ASSUME TallyInv, NEW f, PassFacts(f), Races(f, fw')
    PROVE  fw.started /\ \A i \in Lanes : LaneRaces(i)
<1>1. fw.started
  <2>1. f.started /\ f.started = fw.started
    BY DEF Races, PassFacts, Sampled
  <2> QED
    BY <2>1, Zenon
<1>2. ASSUME NEW i \in Lanes
      PROVE  LaneRaces(i)
  <2>1. fw.ticks[i] \in Nat
    BY DEF TallyInv, Quiet, BaseInv, Ready, Typed
  <2>2. fw.values = fw.pin /\ (fw.pin[i] \/ low[i] > 0)
    BY <1>1 DEF TallyInv, Quiet, BaseInv, Samples
  <2>3. /\ fw'.values = f.pin /\ f.values = fw.values /\ f.ticks = fw.ticks
        /\ f.pin[i] <=> ~(low'[i] > 0)
    BY DEF Races, PassFacts, Sampled
  <2>4. fw'.ticks = [j \in Lanes |-> IF f.pin[j] /\ ~f.values[j] THEN f.ticks[j] + 1
                                                                ELSE f.ticks[j]]
    BY DEF Races, PassFacts
  <2> QED
    BY <2>1, <2>2, <2>3, <2>4 DEF LaneRaces
<1> QED
  BY <1>1, <1>2

\* A pass of a race keeps ticks and turns together: a pulse that begins has a turn
\* for it, one that ends a tick.
LEMMA RacePass ==
    ASSUME TallyInv, SteadyWheels, NEW f, PassFacts(f), Races(f, fw')
    PROVE  AtStart' /\ InRace'
<1>1. fw.started /\ \A i \in Lanes : LaneRaces(i)
  BY LanesRace
<1>2. running' = running /\ fired' = fired /\ early' = early
  BY DEF PassFacts
<1>3. ASSUME NEW i \in Lanes
      PROVE  /\ Begun(i) \/ Worn(i)
             /\ One(low'[i] > 0) \in {0, 1} /\ One(low[i] > 0) \in {0, 1}
             /\ (low'[i] > 0 => One(low'[i] > 0) = 1) /\ (~(low'[i] > 0) => One(low'[i] > 0) = 0)
             /\ (low[i] > 0 => One(low[i] > 0) = 1) /\ (~(low[i] > 0) => One(low[i] > 0) = 0)
  BY DEF One, PassFacts
<1>4. ASSUME ~running, NEW i \in Lanes
      PROVE  fw'.ticks[i] + One(low'[i] > 0) + One(Early(i)') <= 1
  <2>1. fw.ticks[i] + One(low[i] > 0) + One(Early(i)) <= 1
    BY <1>1, <1>4 DEF TallyInv, Tally, AtStart
  <2>2. /\ One(Early(i)') \in {0, 1} /\ One(Early(i)) \in {0, 1}
        /\ (~Early(i)' => One(Early(i)') = 0) /\ (Early(i) => One(Early(i)) = 1)
    BY DEF One
  <2>3. CASE Begun(i)
    <3>1. Early(i) /\ ~Early(i)' /\ low'[i] > 0
      BY <1>4, <2>3, EarlySpeed DEF Begun, Early
    <3>2. One(Early(i)) = 1 /\ One(Early(i)') = 0
      BY <3>1 DEF One
    <3>3. fw'.ticks[i] = fw.ticks[i] /\ fw.ticks[i] \in Nat
      BY <1>1, <3>1 DEF LaneRaces
    <3> QED
      BY <1>3, <2>1, <3>2, <3>3
  <2>4. CASE Worn(i)
    <3>1. (Early(i)' => Early(i)) /\ (low'[i] > 0 => low[i] > 0)
      BY <1>2, <2>4 DEF Worn, Early
    <3>2. One(Early(i)') <= One(Early(i))
      BY <3>1 DEF One
    <3>3. fw'.ticks[i] + One(low'[i] > 0) <= fw.ticks[i] + One(low[i] > 0)
      BY <1>1, <1>3, <3>1 DEF LaneRaces
    <3>4. fw.ticks[i] \in Nat /\ fw'.ticks[i] \in Nat
      BY <1>1 DEF LaneRaces
    <3> QED
      BY <1>3, <2>1, <2>2, <3>2, <3>3, <3>4
  <2> QED
    BY <1>3, <2>3, <2>4
<1>5. ASSUME running, NEW i \in Lanes
      PROVE  /\ fw'.ticks[i] + One(low'[i] > 0) <= turns'[i] + Phantoms(i)' + 1
             /\ turns'[i] + One(Dirty(i)') <= fw'.ticks[i] + One(~fw'.values[i]) + Phantoms(i)'
  <2>1. Phantoms(i)' = Phantoms(i) /\ Phantoms(i) \in Nat /\ turns[i] \in Nat
    BY <1>2, PhantomsAreFinite DEF Phantoms, TallyInv, Quiet, Scene
  <2>2. /\ fw.ticks[i] + One(low[i] > 0) <= turns[i] + Phantoms(i) + 1
        /\ turns[i] + One(Dirty(i)) <= fw.ticks[i] + One(~fw.values[i]) + Phantoms(i)
    BY <1>1, <1>5 DEF TallyInv, Tally, InRace
  <2>3. /\ One(Dirty(i)') \in {0, 1} /\ One(Dirty(i)) \in {0, 1}
        /\ (~Dirty(i)' => One(Dirty(i)') = 0) /\ (Dirty(i) => One(Dirty(i)) = 1)
        /\ One(~fw'.values[i]) \in {0, 1} /\ One(~fw.values[i]) \in {0, 1}
        /\ (fw.values[i] => One(~fw.values[i]) = 0) /\ (fw'.values[i] => One(~fw'.values[i]) = 0)
        /\ (~fw.values[i] => One(~fw.values[i]) = 1) /\ (~fw'.values[i] => One(~fw'.values[i]) = 1)
    BY DEF One
  <2>4. CASE Begun(i)
    <3>1. low'[i] > 0 /\ ~Dirty(i)' /\ turns'[i] = turns[i] + 1 /\ (low[i] > 0 => Dirty(i))
      BY <1>5, <2>4 DEF Begun
    <3> QED
      BY <1>1, <1>3, <2>1, <2>2, <2>3, <3>1 DEF LaneRaces
  <2>5. CASE Worn(i)
    <3>1. /\ turns'[i] = turns[i] /\ (Dirty(i)' => Dirty(i)) /\ (low'[i] > 0 => low[i] > 0)
          /\ (Dirty(i)' => low'[i] > 0)
      BY <2>5 DEF Worn, Dirty
    <3> QED
      BY <1>1, <1>3, <2>1, <2>2, <2>3, <3>1 DEF LaneRaces
  <2> QED
    BY <1>3, <2>4, <2>5
<1> QED
  BY <1>2, <1>4, <1>5 DEF AtStart, InRace

\* A pass keeps the whole invariant.
LEMMA TallyPass ==
    ASSUME TallyInv, SteadyWheels, Pass
    PROVE  TallyInv'
<1>1. PICK f : PassFacts(f)
  BY PassFactsHold DEF TallyInv
<1>2. Phases' /\ Wearing'
  BY <1>1, CountdownPass
<1>3. CASE ~fw'.started
  <2>1. AtStart' /\ InRace'
    BY <1>3 DEF AtStart, InRace
  <2> QED
    BY <1>1, <1>2, <2>1 DEF TallyInv, Tally, PassFacts
<1>4. CASE fw'.started
  <2>1. Starts(f, fw') \/ Races(f, fw')
    BY <1>1, <1>4 DEF PassFacts, Ticked, Waits, CountsOn, CountsAgain, Counts
  <2>2. AtStart' /\ InRace'
    BY <1>1, <2>1, StartPass, RacePass
  <2> QED
    BY <1>1, <1>2, <2>2 DEF TallyInv, Tally, PassFacts
<1> QED
  BY <1>3, <1>4

-----------------------------------------------------------------------------
(* Ticks and turns: between the milliseconds. *)

\* The rebounds of a lane among the faults S.
Rebounds(S, i) == {k \in S : Faults[k].kind = "PhantomTick" /\ Faults[k].rider = i}

\* A sensor that a fault lowers is one more rebound of the race under way.
LEMMA PhantomsGrow ==
    ASSUME Scene, Scene', Input, fw.started, NEW i \in Lanes
    PROVE  LET before == IF running THEN Phantoms(i) ELSE 0 IN
           /\ Phantoms(i)' \in Nat /\ Phantoms(i)' >= before
           /\ low'[i] # low[i] => Phantoms(i)' >= before + 1
<1> DEFINE base == IF running THEN fired ELSE {}
           ks == Due(raceMs', base)
<1>1. /\ fired' = base \cup ks
      /\ low' = [j \in Lanes |-> IF j \in Rollers(ks) THEN PulseLow ELSE low[j]]
  <2>1. Rearmed(fw.started /\ ~wasRacing) = base
    BY DEF Rearmed, Scene
  <2> QED
    BY <2>1, Zenon DEF Input
<1>2. base \cap ks = {}
  BY DEF Due
<1> HIDE DEF ks, base
<1>3. Rebounds(base, i) \subseteq Rebounds(fired', i)
  BY <1>1 DEF Rebounds
<1>4. IsFiniteSet(Rebounds(fired', i)) /\ Phantoms(i)' = Cardinality(Rebounds(fired', i))
  <2>1. IsFiniteSet(Rebounds(fired, i)) /\ Phantoms(i) = Cardinality(Rebounds(fired, i))
    BY PhantomsAreFinite DEF Rebounds, Phantoms
  <2>2. IsFiniteSet(DOMAIN Faults)
    <3>1. DOMAIN Faults = 1 .. Len(Faults) /\ Len(Faults) \in Nat
      BY EmulatorConstants
    <3> QED
      BY <3>1, FS_Interval
  <2>3. Rebounds(fired', i) \subseteq DOMAIN Faults
    BY DEF Scene, Rebounds
  <2> QED
    BY <2>2, <2>3, FS_Subset DEF Phantoms, Rebounds
<1>5. Cardinality(Rebounds(base, i)) = IF running THEN Phantoms(i) ELSE 0
  <2>1. Rebounds({}, i) = {}
    BY DEF Rebounds
  <2> QED
    BY <2>1, FS_EmptySet DEF base, Rebounds, Phantoms
<1>6. /\ Cardinality(Rebounds(base, i)) \in Nat /\ Cardinality(Rebounds(fired', i)) \in Nat
      /\ Cardinality(Rebounds(base, i)) <= Cardinality(Rebounds(fired', i))
  BY <1>3, <1>4, FS_Subset, FS_CardinalityType
<1>7. low'[i] # low[i] => Cardinality(Rebounds(fired', i)) >= Cardinality(Rebounds(base, i)) + 1
  <2> SUFFICES ASSUME low'[i] # low[i]
               PROVE  Cardinality(Rebounds(fired', i)) > Cardinality(Rebounds(base, i))
    BY <1>6
  <2>1. i \in Rollers(ks)
    BY <1>1
  <2>2. PICK k \in ks : Faults[k].kind = "PhantomTick" /\ Faults[k].rider = i
    BY <2>1 DEF Rollers
  <2>3. k \in Rebounds(fired', i) /\ k \notin Rebounds(base, i)
    BY <1>1, <1>2, <2>2 DEF Rebounds
  <2> QED
    BY <1>3, <1>4, <1>6, <2>3, FS_Subset
<1> QED
  BY <1>4, <1>5, <1>6, <1>7

\* The head of the loop: the count of the turns starts with the race, one pulse late
\* at most, and what it lowers is counted among the rebounds.
LEMMA TallyInput ==
    ASSUME TallyInv, SteadyWheels, Input
    PROVE  TallyInv'
<1>1. Quiet' /\ WheelTypes /\ IsBox(fw) /\ Scene /\ Scene'
  BY QuietInput DEF TallyInv, Quiet, BaseInv, Ready, Typed
<1>2. Fed(fw, fw') /\ step = 0 /\ step' = 1 /\ running' = fw.started
  BY <1>1, InputEffect, InputWheels
<1>3. /\ fw'.starting = fw.starting /\ fw'.started = fw.started /\ fw'.countAge = fw.countAge
      /\ fw'.ticks = fw.ticks /\ fw'.values = fw.values
  BY <1>2 DEF Fed, Same
<1>4. (fw'.starting <=> fw.starting) /\ (fw'.started <=> fw.started)
  BY <1>3, Zenon
<1>5. fw.starting => ~fw.started
  BY DEF TallyInv, Quiet, BaseInv, Ready
<1>6. Phases'
  BY <1>2, <1>3, <1>4, <1>5 DEF TallyInv, Tally, Phases, CountIsDue
<1>7. Wearing'
  <2> SUFFICES ASSUME fw.starting, NEW i \in Lanes, Dirty(i)'
               PROVE  low'[i] + 1 + Since' + Done' <= PulseLow
    BY <1>4 DEF Wearing
  <2>1. low'[i] = low[i] /\ left'[i] = left[i]
    BY <1>1, <1>5, InputWheels
  <2>2. Done = 0 /\ Done' = 0 /\ Since' = Since
    BY <1>2, <1>3 DEF Done, Since
  <2> QED
    BY <2>1, <2>2 DEF TallyInv, Tally, Wearing, Dirty
<1>8. AtStart'
  BY <1>2, <1>4 DEF AtStart
<1>9. InRace'
  <2> SUFFICES ASSUME fw.started, NEW i \in Lanes
               PROVE  /\ fw.ticks[i] + One(low'[i] > 0) <= turns'[i] + Phantoms(i)' + 1
                      /\ turns'[i] + One(Dirty(i)') <= fw.ticks[i] + One(~fw.values[i]) + Phantoms(i)'
    BY <1>3, <1>4 DEF InRace
  <2>1. /\ low'[i] = low[i] \/ low'[i] # low[i]
        /\ left'[i] = IF ~running THEN Turn ELSE left[i]
    BY <1>1, InputWheels
  <2>2. /\ low[i] \in 0 .. PulseLow /\ low'[i] \in 0 .. PulseLow /\ left[i] \in 1 .. Turn
        /\ fw.ticks[i] \in Nat /\ turns[i] \in Nat /\ Turn \in Nat /\ PulseLow \in Nat
    BY <1>1, ConstantTypes
       DEF TallyInv, Quiet, BaseInv, Ready, Typed, WheelTypes, Scene, ConstantRanges
  <2>3. Phantoms(i) \in Nat /\ Phantoms(i)' \in Nat
    BY <1>1, PhantomsAreFinite, PhantomsGrow
  <2>4. /\ One(low'[i] > 0) \in {0, 1} /\ One(low[i] > 0) \in {0, 1}
        /\ One(Dirty(i)') \in {0, 1} /\ One(Dirty(i)) \in {0, 1} /\ One(~fw.values[i]) \in {0, 1}
    BY DEF One
  <2>5. turns' = IF ~running THEN Zero ELSE turns
    BY Zenon DEF Input
  <2>6. CASE running
    <3>1. /\ fw.ticks[i] + One(low[i] > 0) <= turns[i] + Phantoms(i) + 1
          /\ turns[i] + One(Dirty(i)) <= fw.ticks[i] + One(~fw.values[i]) + Phantoms(i)
      BY <2>6 DEF TallyInv, Tally, InRace
    <3>2. Phantoms(i)' >= Phantoms(i) /\ (low'[i] # low[i] => Phantoms(i)' >= Phantoms(i) + 1)
      BY <1>1, <2>6, PhantomsGrow
    <3>3. low'[i] = low[i] => One(low'[i] > 0) = One(low[i] > 0) /\ One(Dirty(i)') = One(Dirty(i))
      BY <2>1, <2>6 DEF Dirty
    <3>4. turns'[i] = turns[i]
      BY <2>5, <2>6
    <3> QED
      BY <2>2, <2>3, <2>4, <3>1, <3>2, <3>3, <3>4
  <2>7. CASE ~running
    <3>1. fw.ticks[i] + One(low[i] > 0) + One(Early(i)) <= 1 /\ One(Early(i)) \in {0, 1}
      BY <2>7 DEF TallyInv, Tally, AtStart, One
    <3>2. low'[i] # low[i] => Phantoms(i)' >= 1
      BY <1>1, <2>7, PhantomsGrow
    <3>3. low'[i] = low[i] => One(low'[i] > 0) = One(low[i] > 0)
      OBVIOUS
    <3>4. turns'[i] = 0
      BY <2>5, <2>7 DEF Zero
    <3>5. ~Dirty(i)'
      BY <2>1, <2>2, <2>7, ConstantTypes DEF Dirty, ConstantRanges
    <3>6. One(Dirty(i)') = 0
      BY <3>5 DEF One
    <3> QED
      BY <2>2, <2>3, <2>4, <3>1, <3>2, <3>3, <3>4, <3>6
  <2> QED
    BY <2>6, <2>7
<1> QED
  BY <1>1, <1>6, <1>7, <1>8, <1>9 DEF TallyInv, Tally

\* Its tail: a millisecond more of a countdown wears a pulse by Iters passes.
LEMMA TallyOutput ==
    ASSUME TallyInv, SteadyWheels, Output
    PROVE  TallyInv'
<1>1. Quiet' /\ Elapsed(fw, fw') /\ step = Iters + 1 /\ step' = 0
  BY QuietOutput DEF TallyInv
<1>2. UNCHANGED <<left, low, turns, early, running, fired>>
  BY Zenon DEF Output, riderVars
<1>3. /\ fw'.starting = fw.starting /\ fw'.started = fw.started
      /\ fw'.ticks = fw.ticks /\ fw'.values = fw.values
  BY <1>1 DEF Elapsed
<1>4. (fw'.starting <=> fw.starting) /\ (fw'.started <=> fw.started)
  BY <1>3, Zenon
<1>5. Iters \in Nat \ {0} /\ fw.countAge \in Nat /\ CountdownMs \in Nat /\ PulseLow \in Nat
  BY ConstantTypes DEF ConstantRanges, TallyInv, Quiet, BaseInv, Ready, Typed
<1>6. Rest' = Rest /\ Done = Iters /\ Done' = 0
  BY <1>1, <1>5 DEF Rest, Done
<1>7. \A i \in Lanes : Dirty(i)' = Dirty(i) /\ Early(i)' = Early(i) /\ Phantoms(i)' = Phantoms(i)
  BY <1>2, <1>6 DEF Dirty, Early, Phantoms
<1>8. Phases'
  BY <1>1 DEF Phases
<1>9. Wearing'
  <2> SUFFICES ASSUME fw.starting, NEW i \in Lanes, Dirty(i)
               PROVE  low[i] + 1 + Since' + Done' <= PulseLow
    BY <1>2, <1>4, <1>7 DEF Wearing
  <2>1. fw'.countAge = fw.countAge + 1
    <3>1. ~CountIsDue(fw)
      BY <1>1, <1>5 DEF TallyInv, Tally, Phases
    <3> QED
      BY <1>1, <1>5, <3>1 DEF Elapsed, CountIsDue
  <2>2. Since \in Int /\ Since' = Since + Iters
    <3>1. fw'.countAge - 1 = fw.countAge
      BY <1>5, <2>1
    <3> QED
      BY <1>5, <3>1, SinceIsInt DEF Since
  <2>3. low[i] + 1 + Since + Done <= PulseLow /\ low[i] \in Nat
    BY DEF TallyInv, Tally, Wearing, Quiet, BaseInv, WheelTypes
  <2> QED
    BY <1>5, <1>6, <2>2, <2>3
<1>10. AtStart'
  BY <1>2, <1>3, <1>4, <1>7 DEF TallyInv, Tally, AtStart, One
<1>11. InRace'
  BY <1>2, <1>3, <1>4, <1>7 DEF TallyInv, Tally, InRace, One
<1> QED
  BY <1>1, <1>8, <1>9, <1>10, <1>11 DEF TallyInv, Tally

\* What touches neither the box nor the wheels keeps it.
LEMMA TallyStill ==
    ASSUME Tally, UNCHANGED <<fw, riderVars, fired, step>>
    PROVE  Tally'
  BY DEF Tally, Phases, Wearing, AtStart, InRace, riderVars, CountIsDue, Dirty, Since, Done,
         Early, Rest, One, Phantoms

\* Every step keeps the invariant.
LEMMA TallyStep ==
    ASSUME TallyInv, SteadyWheels, [Next]_vars
    PROVE  TallyInv'
<1>1. CASE \E cmd \in Tried : Send(cmd)
  <2>1. PICK cmd \in Tried : Send(cmd)
    BY <1>1
  <2>2. UNCHANGED <<fw, riderVars, fired, step>>
    BY <2>1, Zenon DEF Send, sceneVars
  <2> QED
    BY <2>1, <2>2, QuietSend, TallyStill DEF TallyInv
<1>2. CASE UNCHANGED vars
  <2>1. UNCHANGED <<fw, riderVars, fired, step, wasRacing, line>>
    BY <1>2 DEF vars, riderVars, sceneVars, clientVars
  <2>2. Quiet'
    BY <2>1, BaseStill DEF TallyInv, Quiet, NoMock, Scene, riderVars
  <2> QED
    BY <2>1, <2>2, TallyStill DEF TallyInv
<1> QED
  BY <1>1, <1>2, TallyPass, TallyInput, TallyOutput DEF Next, Turns

\* Through stops, restarts and rebounds the box counts the turns of the rollers
\* (RiderModel::update, FirmwareSim::update_racer_ticks).
THEOREM TicksFollow ==
    ASSUME SteadyWheels
    PROVE  Spec => []TicksFollowTurns
<1>1. Init => TallyInv
  <2>1. Init => ~fw.starting /\ ~fw.started
    BY DEF Init, Boot
  <2> QED
    BY <2>1, QuietInit DEF TallyInv, Tally, Phases, Wearing, AtStart, InRace
<1>2. TallyInv /\ [Next]_vars => TallyInv'
  BY TallyStep
<1>3. TallyInv => TicksFollowTurns
  <2> SUFFICES ASSUME TallyInv, fw.started, running, NEW i \in Lanes
               PROVE  fw.ticks[i] \in turns[i] - Phantoms(i) - 1 .. turns[i] + Phantoms(i) + 1
    BY DEF TicksFollowTurns
  <2>1. /\ fw.ticks[i] + One(low[i] > 0) <= turns[i] + Phantoms(i) + 1
        /\ turns[i] + One(Dirty(i)) <= fw.ticks[i] + One(~fw.values[i]) + Phantoms(i)
    BY DEF TallyInv, Tally, InRace
  <2>2. fw.ticks[i] \in Nat /\ turns[i] \in Nat /\ Phantoms(i) \in Nat
    BY PhantomsAreFinite DEF TallyInv, Quiet, BaseInv, Ready, Typed, Scene
  <2>3. One(low[i] > 0) \in {0, 1} /\ One(Dirty(i)) \in {0, 1} /\ One(~fw.values[i]) \in {0, 1}
    BY DEF One
  <2> QED
    BY <2>1, <2>2, <2>3
<1> QED
  BY <1>1, <1>2, <1>3, PTL DEF Spec

-----------------------------------------------------------------------------
(* The order of the samples. *)

\* Samples of a race follow its clock.
Chronicle(q) ==
    /\ IsSeq(q)
    /\ \A k \in DOMAIN q : q[k][1] = "R" => q[k][3] \in Nat
    /\ \A j, k \in DOMAIN q :
          j < k /\ q[j][1] = "R" /\ q[k][1] = "R" =>
              q[j][3] < q[k][3] \/ \E c \in j .. k : q[c][1] = "CD"

\* Those of the race under way, all after the last frame of a countdown, are no
\* later than last.
UpTo(q, last) ==
    \A k \in DOMAIN q :
        q[k][1] = "R" => q[k][3] <= last \/ \E c \in k .. Len(q) : q[c][1] = "CD"

\* t goes on from s, with no sample.
GoesOnFrom(s, t) ==
    /\ IsSeq(t)
    /\ Len(s) <= Len(t)
    /\ \A k \in 1 .. Len(s) : t[k] = s[k]
    /\ \A k \in Len(s) + 1 .. Len(t) : t[k][1] # "R"

\* t is what is left of s, and then no sample.
LeftOf(s, t) ==
    /\ IsSeq(t)
    /\ \E n \in 0 .. Len(s) :
          /\ Len(s) - n <= Len(t)
          /\ \A k \in 1 .. Len(s) - n : t[k] = s[k + n]
          /\ \A k \in (Len(s) - n) + 1 .. Len(t) : t[k][1] # "R"

\* What IsSeq says.
LEMMA SeqFacts ==
    ASSUME NEW s, IsSeq(s)
    PROVE  Len(s) \in Nat /\ DOMAIN s = 1 .. Len(s)
  BY DEF IsSeq

\* The places of a concatenation.
LEMMA JoinFacts ==
    ASSUME NEW s, IsSeq(s), NEW t, IsSeq(t)
    PROVE  /\ IsSeq(s \o t) /\ Len(s \o t) = Len(s) + Len(t)
           /\ DOMAIN (s \o t) = 1 .. Len(s) + Len(t)
           /\ \A k \in 1 .. Len(s) : (s \o t)[k] = s[k]
           /\ \A k \in Len(s) + 1 .. Len(s) + Len(t) : (s \o t)[k] = t[k - Len(s)]
<1> DEFINE S == Range(s) \cup Range(t)
<1>1. s \in Seq(S) /\ t \in Seq(S)
  BY DEF IsSeq
<1> HIDE DEF S
<1>2. s \o t \in Seq(S) /\ Len(s \o t) = Len(s) + Len(t)
      /\ DOMAIN (s \o t) = 1 .. Len(s) + Len(t)
  BY <1>1
<1>3. \A k \in 1 .. Len(s) + Len(t) : (s \o t)[k] = IF k <= Len(s) THEN s[k] ELSE t[k - Len(s)]
  BY <1>1
<1>4. Len(s) \in Nat /\ Len(t) \in Nat
  BY SeqFacts
<1>5. IsSeq(s \o t)
  BY <1>2, SeqIsSeq
<1> DEFINE x == s \o t
<1> HIDE DEF x
<1>6. /\ \A k \in 1 .. Len(s) : x[k] = s[k]
      /\ \A k \in Len(s) + 1 .. Len(s) + Len(t) : x[k] = t[k - Len(s)]
  BY <1>3, <1>4 DEF x
<1> QED
  BY <1>2, <1>5, <1>6 DEF x

\* Where the elements of a concatenation are.
LEMMA JoinPlaces ==
    ASSUME NEW s, IsSeq(s), NEW t, IsSeq(t)
    PROVE  /\ Len(s \o t) = Len(s) + Len(t)
           /\ \A k \in 1 .. Len(s) : (s \o t)[k] = s[k]
           /\ \A k \in Len(s) + 1 .. Len(s) + Len(t) : (s \o t)[k] = t[k - Len(s)]
  BY JoinFacts

\* A concatenation is a sequence.
LEMMA JoinIsSeq ==
    ASSUME NEW s, IsSeq(s), NEW t, IsSeq(t)
    PROVE  IsSeq(s \o t)
  BY JoinFacts

\* Concatenation is associative.
LEMMA JoinAgain ==
    ASSUME NEW s, IsSeq(s), NEW t, IsSeq(t), NEW u, IsSeq(u)
    PROVE  (s \o t) \o u = s \o (t \o u)
<1> DEFINE S == (Range(s) \cup Range(t)) \cup Range(u)
<1>1. s \in Seq(S) /\ t \in Seq(S) /\ u \in Seq(S)
  BY DEF IsSeq
<1> HIDE DEF S
<1> QED
  BY <1>1, ConcatAssociative

\* One frame, and none, are sequences.
LEMMA OneIsSeq ==
    ASSUME NEW frame
    PROVE  IsSeq(<<frame>>) /\ Len(<<frame>>) = 1 /\ <<frame>>[1] = frame
<1>1. <<frame>> \in Seq({frame}) /\ Len(<<frame>>) = 1 /\ <<frame>>[1] = frame
  OBVIOUS
<1> QED
  BY <1>1, SeqIsSeq

\* So is none.
LEMMA NoneIsSeq == IsSeq(<<>>) /\ Len(<<>>) = 0
<1>1. <<>> \in Seq({}) /\ Len(<<>>) = 0
  OBVIOUS
<1> QED
  BY <1>1, SeqIsSeq

\* Frames that are no samples.
Plain(t) == IsSeq(t) /\ \A k \in DOMAIN t : t[k][1] # "R"

\* To go on with them is to go on.
LEMMA PlainGoesOn ==
    ASSUME NEW s, IsSeq(s), NEW t, Plain(t)
    PROVE  GoesOnFrom(s, s \o t)
<1>1. Len(s) \in Nat /\ Len(t) \in Nat /\ DOMAIN t = 1 .. Len(t)
  BY SeqFacts DEF Plain
<1>2. /\ IsSeq(s \o t) /\ Len(s \o t) = Len(s) + Len(t)
      /\ \A k \in 1 .. Len(s) : (s \o t)[k] = s[k]
      /\ \A k \in Len(s) + 1 .. Len(s) + Len(t) : (s \o t)[k] = t[k - Len(s)]
  BY JoinFacts DEF Plain
<1>3. ASSUME NEW k \in Len(s) + 1 .. Len(s) + Len(t) PROVE (s \o t)[k][1] # "R"
  <2>1. k - Len(s) \in DOMAIN t
    BY <1>1
  <2> QED
    BY <1>2, <2>1 DEF Plain
<1> QED
  BY <1>1, <1>2, <1>3 DEF GoesOnFrom

\* Nothing more goes on.
LEMMA GoesOnStill ==
    ASSUME NEW s, IsSeq(s)
    PROVE  GoesOnFrom(s, s)
  BY SeqFacts DEF GoesOnFrom

\* What goes on may go on again.
LEMMA GoesOnTwice ==
    ASSUME NEW s, IsSeq(s), NEW t, GoesOnFrom(s, t), NEW u, GoesOnFrom(t, u)
    PROVE  GoesOnFrom(s, u)
<1>1. Len(s) \in Nat /\ Len(t) \in Nat /\ Len(u) \in Nat
  BY SeqFacts DEF GoesOnFrom
<1>2. ASSUME NEW k \in 1 .. Len(s) PROVE u[k] = s[k]
  BY <1>1, <1>2 DEF GoesOnFrom
<1>3. ASSUME NEW k \in Len(s) + 1 .. Len(u) PROVE u[k][1] # "R"
  <2>1. CASE k <= Len(t)
    <3>1. u[k] = t[k] /\ t[k][1] # "R"
      BY <1>1, <2>1 DEF GoesOnFrom
    <3> QED
      BY <3>1
  <2>2. CASE k > Len(t)
    BY <1>1, <2>2 DEF GoesOnFrom
  <2> QED
    BY <1>1, <2>1, <2>2
<1> QED
  BY <1>1, <1>2, <1>3 DEF GoesOnFrom

\* Whatever comes before.
LEMMA GoesOnBehind ==
    ASSUME NEW a, IsSeq(a), NEW s, IsSeq(s), NEW t, GoesOnFrom(s, t)
    PROVE  GoesOnFrom(a \o s, a \o t)
<1>1. Len(a) \in Nat /\ Len(s) \in Nat /\ Len(t) \in Nat /\ IsSeq(t)
  BY SeqFacts DEF GoesOnFrom
<1> DEFINE x == a \o s
           y == a \o t
<1>2. /\ IsSeq(x) /\ Len(x) = Len(a) + Len(s)
      /\ \A k \in 1 .. Len(a) : x[k] = a[k]
      /\ \A k \in Len(a) + 1 .. Len(a) + Len(s) : x[k] = s[k - Len(a)]
  BY JoinFacts
<1>3. /\ IsSeq(y) /\ Len(y) = Len(a) + Len(t)
      /\ \A k \in 1 .. Len(a) : y[k] = a[k]
      /\ \A k \in Len(a) + 1 .. Len(a) + Len(t) : y[k] = t[k - Len(a)]
  BY <1>1, JoinFacts
<1> HIDE DEF x, y
<1>4. ASSUME NEW k \in 1 .. Len(x) PROVE y[k] = x[k]
  <2>1. CASE k <= Len(a)
    BY <1>1, <1>2, <1>3, <2>1
  <2>2. CASE k > Len(a)
    <3>1. k - Len(a) \in 1 .. Len(s)
      BY <1>1, <1>2, <2>2
    <3>2. Len(s) <= Len(t) /\ t[k - Len(a)] = s[k - Len(a)]
      BY <3>1 DEF GoesOnFrom
    <3> QED
      BY <1>1, <1>2, <1>3, <2>2, <3>1, <3>2
  <2> QED
    BY <1>1, <1>2, <2>1, <2>2
<1>5. ASSUME NEW k \in Len(x) + 1 .. Len(y) PROVE y[k][1] # "R"
  <2>1. k - Len(a) \in Len(s) + 1 .. Len(t)
    BY <1>1, <1>2, <1>3
  <2>2. y[k] = t[k - Len(a)]
    BY <1>1, <1>2, <1>3
  <2> QED
    BY <2>1, <2>2 DEF GoesOnFrom
<1>6. Len(x) <= Len(y)
  BY <1>1, <1>2, <1>3 DEF GoesOnFrom
<1>7. GoesOnFrom(x, y)
  BY <1>3, <1>4, <1>5, <1>6 DEF GoesOnFrom
<1> QED
  BY <1>7 DEF x, y

\* What goes on without a sample stays in order.
LEMMA GoesOnInOrder ==
    ASSUME NEW s, Chronicle(s), NEW t, GoesOnFrom(s, t)
    PROVE  /\ Chronicle(t)
           /\ \A last : UpTo(s, last) => UpTo(t, last)
<1>1. /\ Len(s) \in Nat /\ Len(t) \in Nat /\ IsSeq(t)
      /\ DOMAIN s = 1 .. Len(s) /\ DOMAIN t = 1 .. Len(t) /\ Len(s) <= Len(t)
  BY SeqFacts DEF GoesOnFrom, Chronicle
<1>2. ASSUME NEW k \in DOMAIN t, t[k][1] = "R"
      PROVE  k \in DOMAIN s /\ t[k] = s[k] /\ s[k][1] = "R"
  <2>1. k \in DOMAIN s
    BY <1>1, <1>2 DEF GoesOnFrom
  <2>2. t[k] = s[k]
    BY <1>1, <2>1 DEF GoesOnFrom
  <2> QED
    BY <1>2, <2>1, <2>2
<1>3. ASSUME NEW j \in DOMAIN s, NEW k \in DOMAIN s, NEW c \in j .. k
      PROVE  t[c] = s[c]
  BY <1>1 DEF GoesOnFrom
<1>4. \A k \in DOMAIN t : t[k][1] = "R" => t[k][3] \in Nat
  BY <1>2 DEF Chronicle
<1>5. ASSUME NEW j \in DOMAIN t, NEW k \in DOMAIN t, j < k, t[j][1] = "R", t[k][1] = "R"
      PROVE  t[j][3] < t[k][3] \/ \E c \in j .. k : t[c][1] = "CD"
  <2>1. j \in DOMAIN s /\ k \in DOMAIN s /\ t[j] = s[j] /\ t[k] = s[k]
    BY <1>2, <1>5
  <2>2. s[j][3] < s[k][3] \/ \E c \in j .. k : s[c][1] = "CD"
    BY <1>5, <2>1 DEF Chronicle
  <2> QED
    BY <1>3, <2>1, <2>2
<1>6. ASSUME NEW last, UpTo(s, last)
      PROVE  UpTo(t, last)
  <2> SUFFICES ASSUME NEW k \in DOMAIN t, t[k][1] = "R"
               PROVE  t[k][3] <= last \/ \E c \in k .. Len(t) : t[c][1] = "CD"
    BY DEF UpTo
  <2>1. k \in DOMAIN s /\ t[k] = s[k] /\ s[k][1] = "R"
    BY <1>2
  <2>2. s[k][3] <= last \/ \E c \in k .. Len(s) : s[c][1] = "CD"
    BY <1>6, <2>1 DEF UpTo
  <2>3. \A c \in k .. Len(s) : c \in k .. Len(t) /\ t[c] = s[c]
    BY <1>1, <2>1 DEF GoesOnFrom
  <2> QED
    BY <2>1, <2>2, <2>3
<1> QED
  BY <1>1, <1>4, <1>5, <1>6 DEF Chronicle

\* So does a sample later than those of its race.
LEMMA SampleInOrder ==
    ASSUME NEW s, Chronicle(s), NEW last \in Int, UpTo(s, last),
           NEW frame, frame[1] = "R", frame[3] \in Nat, frame[3] > last
    PROVE  Chronicle(s \o <<frame>>) /\ UpTo(s \o <<frame>>, frame[3])
<1> DEFINE t == s \o <<frame>>
           n == Len(s) + 1
<1>1. IsSeq(s) /\ Len(s) \in Nat /\ DOMAIN s = 1 .. Len(s)
  BY SeqFacts DEF Chronicle
<1>2. IsSeq(<<frame>>) /\ Len(<<frame>>) = 1 /\ <<frame>>[1] = frame
  BY OneIsSeq
<1>3. /\ IsSeq(t) /\ Len(t) = n /\ DOMAIN t = 1 .. n
      /\ \A k \in 1 .. Len(s) : t[k] = s[k]
      /\ t[n] = frame
  <2>1. /\ IsSeq(t) /\ Len(t) = Len(s) + Len(<<frame>>)
        /\ DOMAIN t = 1 .. Len(s) + Len(<<frame>>)
        /\ \A k \in 1 .. Len(s) : t[k] = s[k]
        /\ \A k \in Len(s) + 1 .. Len(s) + Len(<<frame>>) : t[k] = <<frame>>[k - Len(s)]
    BY <1>1, <1>2, JoinFacts
  <2> HIDE DEF t
  <2>2. n \in Len(s) + 1 .. Len(s) + Len(<<frame>>) /\ n - Len(s) = 1
    BY <1>1, <1>2
  <2> QED
    BY <1>2, <2>1, <2>2
<1> HIDE DEF t
<1>4. ASSUME NEW k \in DOMAIN t, k # n PROVE k \in DOMAIN s
  BY <1>1, <1>3, <1>4
<1>5. \A k \in DOMAIN t : t[k][1] = "R" => t[k][3] \in Nat
  BY <1>1, <1>3, <1>4 DEF Chronicle
<1>6. ASSUME NEW k \in DOMAIN s, s[k][1] = "R"
      PROVE  s[k][3] \in Nat /\ (s[k][3] < frame[3] \/ \E c \in k .. n : t[c][1] = "CD")
  <2>1. s[k][3] <= last \/ \E c \in k .. Len(s) : s[c][1] = "CD"
    BY <1>6 DEF UpTo
  <2>2. s[k][3] \in Nat
    BY <1>6 DEF Chronicle
  <2>3. \A c \in k .. Len(s) : c \in k .. n /\ t[c] = s[c]
    BY <1>1, <1>3
  <2> QED
    BY <2>1, <2>2, <2>3
<1>7. ASSUME NEW j \in DOMAIN t, NEW k \in DOMAIN t, j < k, t[j][1] = "R", t[k][1] = "R"
      PROVE  t[j][3] < t[k][3] \/ \E c \in j .. k : t[c][1] = "CD"
  <2>1. j \in DOMAIN s /\ t[j] = s[j]
    BY <1>1, <1>3, <1>7
  <2>2. CASE k = n
    BY <1>3, <1>6, <1>7, <2>1, <2>2
  <2>3. CASE k # n
    <3>1. k \in DOMAIN s /\ t[k] = s[k]
      BY <1>1, <1>3, <1>4, <2>3
    <3>2. s[j][3] < s[k][3] \/ \E c \in j .. k : s[c][1] = "CD"
      BY <1>7, <2>1, <3>1 DEF Chronicle
    <3>3. \A c \in j .. k : t[c] = s[c]
      BY <1>1, <1>3, <2>1, <3>1
    <3> QED
      BY <2>1, <3>1, <3>2, <3>3
  <2> QED
    BY <2>2, <2>3
<1>8. UpTo(t, frame[3])
  <2> SUFFICES ASSUME NEW k \in DOMAIN t, t[k][1] = "R"
               PROVE  t[k][3] <= frame[3] \/ \E c \in k .. Len(t) : t[c][1] = "CD"
    BY DEF UpTo
  <2>1. CASE k = n
    BY <1>3, <2>1
  <2>2. CASE k # n
    <3>1. k \in DOMAIN s /\ t[k] = s[k]
      BY <1>1, <1>3, <1>4, <2>2
    <3> QED
      BY <1>3, <1>6, <3>1
  <2> QED
    BY <2>1, <2>2
<1>9. Chronicle(t)
  BY <1>3, <1>5, <1>7 DEF Chronicle
<1> QED
  BY <1>8, <1>9 DEF t

\* After a frame of a countdown there is no sample yet.
LEMMA CountIsNew ==
    ASSUME NEW s, IsSeq(s), Len(s) > 0, s[Len(s)][1] = "CD", NEW last
    PROVE  UpTo(s, last)
<1>1. Len(s) \in Nat /\ DOMAIN s = 1 .. Len(s)
  BY SeqFacts
<1>2. \A k \in DOMAIN s : Len(s) \in k .. Len(s)
  BY <1>1
<1> QED
  BY <1>2 DEF UpTo

\* By how much has left.
LEMMA LeftFrom ==
    ASSUME NEW s, NEW t, IsSeq(t), NEW n \in 0 .. Len(s),
           Len(s) - n <= Len(t),
           \A k \in 1 .. Len(s) - n : t[k] = s[k + n],
           \A k \in (Len(s) - n) + 1 .. Len(t) : t[k][1] # "R"
    PROVE  LeftOf(s, t)
  BY Zenon DEF LeftOf

\* All of a sequence is left of it, or none.
LEMMA LeftWhole ==
    ASSUME NEW s, IsSeq(s)
    PROVE  LeftOf(s, s) /\ LeftOf(s, <<>>)
<1>1. Len(s) \in Nat
  BY SeqFacts
<1>2. LeftOf(s, s)
  <2>1. 0 \in 0 .. Len(s) /\ \A k \in 1 .. Len(s) - 0 : s[k] = s[k + 0]
    BY <1>1
  <2> QED
    BY <1>1, <2>1 DEF LeftOf
<1>3. LeftOf(s, <<>>)
  <2> DEFINE t == <<>>
  <2>1. IsSeq(t) /\ Len(t) = 0
    BY NoneIsSeq
  <2> HIDE DEF t
  <2>2. Len(s) \in 0 .. Len(s) /\ Len(s) - Len(s) = 0
    BY <1>1
  <2>3. LeftOf(s, t)
    BY <1>1, <2>1, <2>2 DEF LeftOf
  <2> QED
    BY <2>3 DEF t
<1> QED
  BY <1>2, <1>3

\* A part of a sequence.
LEMMA CutFacts ==
    ASSUME NEW t, IsSeq(t), NEW m \in 0 .. Len(t), NEW n \in m .. Len(t)
    PROVE  /\ IsSeq(SubSeq(t, m + 1, n)) /\ Len(SubSeq(t, m + 1, n)) = n - m
           /\ \A k \in 1 .. n - m : SubSeq(t, m + 1, n)[k] = t[k + m]
<1> DEFINE u == SubSeq(t, m + 1, n)
           S == Range(t)
<1>1. t \in Seq(S) /\ Len(t) \in Nat
  BY SeqFacts DEF IsSeq
<1> HIDE DEF S
<1>2. m + 1 \in Int /\ n \in Int /\ 1 <= m + 1 /\ n <= Len(t) /\ m <= n
  BY <1>1
<1>3. \A k \in (m + 1) .. n : t[k] \in S
  BY <1>1
<1>4. Len(u) = IF m + 1 <= n THEN n - (m + 1) + 1 ELSE 0
  BY <1>1, <1>2, <1>3
<1>5. u \in Seq(S)
  BY <1>1, <1>2, <1>3
<1>6. \A k \in 1 .. n - m : u[k] = t[(m + 1) + k - 1]
  BY <1>1, <1>2, <1>3
<1>7. IsSeq(u)
  BY <1>5, SeqIsSeq
<1> HIDE DEF u
<1>8. Len(u) = n - m
  BY <1>1, <1>2, <1>4
<1>9. \A k \in 1 .. n - m : u[k] = t[k + m]
  BY <1>1, <1>2, <1>6
<1> QED
  BY <1>7, <1>8, <1>9 DEF u

\* More of it may leave.
LEMMA LeftAfterCut ==
    ASSUME NEW s, IsSeq(s), NEW t, LeftOf(s, t), NEW m \in 0 .. Len(t)
    PROVE  LeftOf(s, SubSeq(t, m + 1, Len(t)))
<1> DEFINE u == SubSeq(t, m + 1, Len(t))
<1>1. Len(s) \in Nat /\ Len(t) \in Nat /\ IsSeq(t)
  BY SeqFacts DEF LeftOf
<1>2. /\ IsSeq(u) /\ Len(u) = Len(t) - m
      /\ \A k \in 1 .. Len(u) : u[k] = t[k + m]
  <2>1. Len(t) \in m .. Len(t)
    BY <1>1
  <2> QED
    BY <1>1, <2>1, CutFacts
<1> HIDE DEF u
<1>3. PICK n \in 0 .. Len(s) :
          /\ Len(s) - n <= Len(t)
          /\ \A k \in 1 .. Len(s) - n : t[k] = s[k + n]
          /\ \A k \in (Len(s) - n) + 1 .. Len(t) : t[k][1] # "R"
  BY DEF LeftOf
<1>4. ASSUME m <= Len(s) - n PROVE LeftOf(s, u)
  <2>1. n + m \in 0 .. Len(s) /\ Len(s) - (n + m) <= Len(u)
    BY <1>1, <1>2, <1>3, <1>4
  <2>2. ASSUME NEW k \in 1 .. Len(s) - (n + m) PROVE u[k] = s[k + (n + m)]
    <3>1. k \in 1 .. Len(u) /\ k + m \in 1 .. Len(s) - n /\ (k + m) + n = k + (n + m)
      BY <1>1, <1>2, <1>3, <1>4
    <3> QED
      BY <1>2, <1>3, <3>1
  <2>3. ASSUME NEW k \in (Len(s) - (n + m)) + 1 .. Len(u) PROVE u[k][1] # "R"
    <3>1. k \in 1 .. Len(u) /\ k + m \in (Len(s) - n) + 1 .. Len(t)
      BY <1>1, <1>2, <1>3, <1>4
    <3> QED
      BY <1>2, <1>3, <3>1
  <2> DEFINE d == n + m
  <2>4. /\ d \in 0 .. Len(s) /\ Len(s) - d <= Len(u)
        /\ \A k \in 1 .. Len(s) - d : u[k] = s[k + d]
        /\ \A k \in (Len(s) - d) + 1 .. Len(u) : u[k][1] # "R"
    BY <2>1, <2>2, <2>3
  <2> HIDE DEF d
  <2> QED
    BY <1>2, <2>4, LeftFrom
<1>5. ASSUME m > Len(s) - n PROVE LeftOf(s, u)
  <2> DEFINE d == Len(s)
  <2>1. d \in 0 .. Len(s) /\ Len(s) - d = 0 /\ 0 <= Len(u)
    <3>1. Len(t) - m >= 0
      BY <1>1
    <3> QED
      BY <1>1, <1>2, <3>1
  <2>2. ASSUME NEW k \in 1 .. Len(u) PROVE u[k][1] # "R"
    <3>1. k + m \in (Len(s) - n) + 1 .. Len(t)
      BY <1>1, <1>2, <1>3, <1>5
    <3> QED
      BY <1>2, <1>3, <3>1
  <2> HIDE DEF d
  <2>3. Len(s) - d <= Len(u)
    BY <2>1
  <2>4. \A k \in 1 .. Len(s) - d : u[k] = s[k + d]
    BY <2>1
  <2>5. \A k \in (Len(s) - d) + 1 .. Len(u) : u[k][1] # "R"
    BY <2>1, <2>2
  <2> QED
    BY <1>2, <2>1, <2>3, <2>4, <2>5, LeftFrom
<1>6. LeftOf(s, u)
  <2>1. m <= Len(s) - n \/ m > Len(s) - n
    BY <1>1
  <2> QED
    BY <2>1, <1>4, <1>5
<1> QED
  BY <1>6 DEF u

\* Frames that are no samples may follow.
LEMMA LeftAndPlain ==
    ASSUME NEW s, IsSeq(s), NEW t, LeftOf(s, t), NEW u, Plain(u)
    PROVE  LeftOf(s, t \o u)
<1> DEFINE v == t \o u
<1>1. Len(s) \in Nat /\ Len(t) \in Nat /\ Len(u) \in Nat /\ IsSeq(t)
  BY SeqFacts DEF LeftOf, Plain
<1>2. GoesOnFrom(t, v)
  BY <1>1, PlainGoesOn
<1> HIDE DEF v
<1>3. PICK n \in 0 .. Len(s) :
          /\ Len(s) - n <= Len(t)
          /\ \A k \in 1 .. Len(s) - n : t[k] = s[k + n]
          /\ \A k \in (Len(s) - n) + 1 .. Len(t) : t[k][1] # "R"
  BY DEF LeftOf
<1>4. Len(v) \in Nat /\ IsSeq(v) /\ Len(t) <= Len(v)
  BY <1>2, SeqFacts DEF GoesOnFrom
<1>5. ASSUME NEW k \in 1 .. Len(s) - n PROVE v[k] = s[k + n]
  <2>1. k \in 1 .. Len(t)
    BY <1>1, <1>3
  <2> QED
    BY <1>2, <1>3, <2>1 DEF GoesOnFrom
<1>6. ASSUME NEW k \in (Len(s) - n) + 1 .. Len(v) PROVE v[k][1] # "R"
  <2>1. CASE k <= Len(t)
    <3>1. k \in 1 .. Len(t) /\ k \in (Len(s) - n) + 1 .. Len(t)
      BY <1>1, <1>3, <1>4, <2>1
    <3>2. v[k] = t[k] /\ t[k][1] # "R"
      BY <1>2, <1>3, <3>1 DEF GoesOnFrom
    <3> QED
      BY <3>2
  <2>2. CASE k > Len(t)
    <3>1. k \in Len(t) + 1 .. Len(v)
      BY <1>1, <1>3, <1>4, <2>2
    <3> QED
      BY <1>2, <3>1 DEF GoesOnFrom
  <2> QED
    BY <1>1, <1>3, <1>4, <2>1, <2>2
<1>7. LeftOf(s, v)
  <2>1. Len(s) - n <= Len(v)
    BY <1>1, <1>3, <1>4
  <2> QED
    BY <1>4, <1>5, <1>6, <2>1, LeftFrom
<1> QED
  BY <1>7 DEF v

\* What leaves the front of a line, and frames that are no samples, leave it in order.
LEMMA LeftInOrder ==
    ASSUME NEW s, IsSeq(s), NEW b, IsSeq(b), Chronicle(s \o b), NEW t, LeftOf(s, t)
    PROVE  /\ Chronicle(t \o b)
           /\ \A last : UpTo(s \o b, last) => UpTo(t \o b, last)
<1> DEFINE q == s \o b
           r == t \o b
<1>1. Len(s) \in Nat /\ Len(t) \in Nat /\ Len(b) \in Nat /\ IsSeq(t)
  BY SeqFacts DEF LeftOf
<1>2. /\ Len(q) = Len(s) + Len(b) /\ DOMAIN q = 1 .. Len(s) + Len(b)
      /\ \A k \in 1 .. Len(s) : q[k] = s[k]
      /\ \A k \in Len(s) + 1 .. Len(s) + Len(b) : q[k] = b[k - Len(s)]
  BY JoinFacts
<1>3. /\ IsSeq(r) /\ Len(r) = Len(t) + Len(b) /\ DOMAIN r = 1 .. Len(t) + Len(b)
      /\ \A k \in 1 .. Len(t) : r[k] = t[k]
      /\ \A k \in Len(t) + 1 .. Len(t) + Len(b) : r[k] = b[k - Len(t)]
  BY <1>1, JoinFacts
<1>4. Chronicle(q)
  OBVIOUS
<1> HIDE DEF q, r
<1>5. PICK n \in 0 .. Len(s) :
          /\ Len(s) - n <= Len(t)
          /\ \A k \in 1 .. Len(s) - n : t[k] = s[k + n]
          /\ \A k \in (Len(s) - n) + 1 .. Len(t) : t[k][1] # "R"
  BY DEF LeftOf
\* Where the frame k of r was in q, and where that of c in q is in r.
<1> DEFINE Was(k) == IF k <= Len(s) - n THEN k + n ELSE (k - Len(t)) + Len(s)
           Now(c) == IF c <= Len(s) THEN c - n ELSE (c - Len(s)) + Len(t)
<1>6. ASSUME NEW k \in DOMAIN r, r[k][1] = "R"
      PROVE  /\ k <= Len(s) - n \/ k > Len(t)
             /\ Was(k) \in DOMAIN q /\ q[Was(k)] = r[k]
  <2>1. CASE k <= Len(s) - n
    <3>1. k \in 1 .. Len(s) - n /\ k \in 1 .. Len(t) /\ Was(k) = k + n /\ k + n \in 1 .. Len(s)
      BY <1>1, <1>3, <1>5, <2>1
    <3>2. r[k] = t[k] /\ t[k] = s[k + n] /\ q[k + n] = s[k + n] /\ k + n \in DOMAIN q
      BY <1>1, <1>2, <1>3, <1>5, <3>1
    <3> QED
      BY <2>1, <3>1, <3>2
  <2>2. CASE k > Len(s) - n
    <3>1. k > Len(t)
      <4>1. CASE k <= Len(t)
        <5>1. k \in (Len(s) - n) + 1 .. Len(t) /\ k \in 1 .. Len(t)
          BY <1>1, <1>3, <1>5, <2>2, <4>1
        <5>2. r[k] = t[k] /\ t[k][1] # "R"
          BY <1>3, <1>5, <5>1
        <5> QED
          BY <1>6, <5>2
      <4> QED
        BY <1>1, <1>3, <4>1
    <3>2. /\ Was(k) = (k - Len(t)) + Len(s)
          /\ k \in Len(t) + 1 .. Len(t) + Len(b)
          /\ Was(k) \in Len(s) + 1 .. Len(s) + Len(b)
          /\ Was(k) - Len(s) = k - Len(t)
      BY <1>1, <1>3, <1>5, <2>2, <3>1
    <3>3. r[k] = b[k - Len(t)] /\ q[Was(k)] = b[k - Len(t)] /\ Was(k) \in DOMAIN q
      BY <1>1, <1>2, <1>3, <3>2
    <3> QED
      BY <3>1, <3>3
  <2> QED
    BY <1>1, <1>3, <1>5, <2>1, <2>2
<1>7. ASSUME NEW j \in DOMAIN r, r[j][1] = "R", NEW c \in Was(j) .. Len(q)
      PROVE  /\ Now(c) \in j .. Len(r) /\ r[Now(c)] = q[c]
             /\ \A k \in DOMAIN r : r[k][1] = "R" /\ c <= Was(k) => Now(c) <= k
  <2>1. /\ j <= Len(s) - n \/ j > Len(t)
        /\ j \in 1 .. Len(t) + Len(b)
    BY <1>3, <1>6, <1>7
  <2>2. \A k \in DOMAIN r : r[k][1] = "R" => k <= Len(s) - n \/ k > Len(t)
    BY <1>6
  <2>3. CASE c <= Len(s)
    <3>1. /\ c \in 1 .. Len(s) /\ c - n \in 1 .. Len(s) - n /\ c - n \in 1 .. Len(t)
          /\ Now(c) = c - n /\ (c - n) + n = c
          /\ Now(c) \in j .. Len(r)
      BY <1>1, <1>2, <1>3, <1>5, <1>7, <2>1, <2>3
    <3>2. r[c - n] = t[c - n] /\ t[c - n] = s[c] /\ q[c] = s[c]
      BY <1>2, <1>3, <1>5, <3>1
    <3>3. \A k \in DOMAIN r : r[k][1] = "R" /\ c <= Was(k) => Now(c) <= k
      BY <1>1, <1>3, <1>5, <2>2, <3>1
    <3> QED
      BY <3>1, <3>2, <3>3
  <2>4. CASE c > Len(s)
    <3>1. /\ c \in Len(s) + 1 .. Len(s) + Len(b)
          /\ Now(c) = (c - Len(s)) + Len(t)
          /\ Now(c) \in Len(t) + 1 .. Len(t) + Len(b)
          /\ Now(c) - Len(t) = c - Len(s)
      BY <1>1, <1>2, <1>5, <1>7, <2>1, <2>4
    <3>2. r[Now(c)] = b[c - Len(s)] /\ q[c] = b[c - Len(s)]
      BY <1>2, <1>3, <3>1
    <3>3. Now(c) \in j .. Len(r)
      BY <1>1, <1>3, <1>5, <1>7, <2>1, <2>4, <3>1
    <3>4. \A k \in DOMAIN r : r[k][1] = "R" /\ c <= Was(k) => Now(c) <= k
      BY <1>1, <1>3, <1>5, <2>2, <2>4, <3>1
    <3> QED
      BY <3>2, <3>3, <3>4
  <2> QED
    BY <1>1, <1>2, <1>3, <1>5, <1>7, <2>1, <2>3, <2>4
<1>8. ASSUME NEW j \in DOMAIN r, NEW k \in DOMAIN r, j < k, r[j][1] = "R", r[k][1] = "R"
      PROVE  Was(j) < Was(k)
  <2>1. /\ j <= Len(s) - n \/ j > Len(t)
        /\ k <= Len(s) - n \/ k > Len(t)
    BY <1>6, <1>8
  <2> QED
    BY <1>1, <1>3, <1>5, <1>8, <2>1
<1> HIDE DEF Was, Now
<1>9. \A k \in DOMAIN r : r[k][1] = "R" => r[k][3] \in Nat
  BY <1>4, <1>6 DEF Chronicle
<1>10. ASSUME NEW j \in DOMAIN r, NEW k \in DOMAIN r, j < k, r[j][1] = "R", r[k][1] = "R"
       PROVE  r[j][3] < r[k][3] \/ \E c \in j .. k : r[c][1] = "CD"
  <2>1. Was(j) \in DOMAIN q /\ Was(k) \in DOMAIN q /\ q[Was(j)] = r[j] /\ q[Was(k)] = r[k]
    BY <1>6, <1>10
  <2>2. Was(j) < Was(k)
    BY <1>8, <1>10
  <2>3. r[j][3] < r[k][3] \/ \E c \in Was(j) .. Was(k) : q[c][1] = "CD"
    BY <1>4, <1>10, <2>1, <2>2 DEF Chronicle
  <2>4. ASSUME NEW c \in Was(j) .. Was(k), q[c][1] = "CD"
        PROVE  \E d \in j .. k : r[d][1] = "CD"
    <3>1. c \in Was(j) .. Len(q) /\ c <= Was(k)
      BY <1>1, <1>2, <2>1, <2>4
    <3>2. Now(c) \in j .. Len(r) /\ r[Now(c)] = q[c] /\ Now(c) <= k
      BY <1>7, <1>10, <3>1
    <3>3. Now(c) \in j .. k
      BY <1>1, <1>3, <3>2
    <3> QED
      BY <2>4, <3>2, <3>3
  <2> QED
    BY <2>3, <2>4
<1>11. ASSUME NEW last, UpTo(q, last)
       PROVE  UpTo(r, last)
  <2> SUFFICES ASSUME NEW k \in DOMAIN r, r[k][1] = "R"
               PROVE  r[k][3] <= last \/ \E c \in k .. Len(r) : r[c][1] = "CD"
    BY DEF UpTo
  <2>1. Was(k) \in DOMAIN q /\ q[Was(k)] = r[k]
    BY <1>6
  <2>2. r[k][3] <= last \/ \E c \in Was(k) .. Len(q) : q[c][1] = "CD"
    BY <1>11, <2>1 DEF UpTo
  <2>3. ASSUME NEW c \in Was(k) .. Len(q), q[c][1] = "CD"
        PROVE  \E d \in k .. Len(r) : r[d][1] = "CD"
    BY <1>7, <2>3
  <2> QED
    BY <2>2, <2>3
<1>12. Chronicle(r)
  BY <1>3, <1>9, <1>10 DEF Chronicle
<1> QED
  BY <1>11, <1>12 DEF q, r

\* From f to g the clock has not moved, no sample was printed and no race began.
Tells(f, g) ==
    /\ DOMAIN g = DOMAIN f
    /\ g.clock = f.clock /\ g.lastUpdate = f.lastUpdate
    /\ g.started = f.started \/ ~g.started
    /\ GoesOnFrom(f.tx, g.tx)

\* A box that does nothing tells nothing.
LEMMA TellsStill ==
    ASSUME NEW f, IsSeq(f.tx)
    PROVE  Tells(f, f)
  BY GoesOnStill DEF Tells

\* Two stages that tell no sample tell none together.
LEMMA TellsTwice ==
    ASSUME NEW f, IsSeq(f.tx), NEW g, Tells(f, g), NEW h, Tells(g, h)
    PROVE  Tells(f, h)
<1>1. GoesOnFrom(f.tx, h.tx)
  BY GoesOnTwice DEF Tells
<1>2. h.started = f.started \/ ~h.started
  BY DEF Tells
<1> QED
  BY <1>1, <1>2 DEF Tells

\* A frame of any other kind is no sample.
LEMMA OneIsPlain ==
    ASSUME NEW frame, frame[1] # "R"
    PROVE  Plain(<<frame>>)
<1>1. IsSeq(<<frame>>) /\ DOMAIN <<frame>> = {1} /\ <<frame>>[1] = frame
  BY OneIsSeq
<1> QED
  BY <1>1 DEF Plain

\* To print it tells.
LEMMA SayTells ==
    ASSUME NEW f, IsBox(f), IsSeq(f.tx), NEW t, Plain(t), NEW g, g = Say(f, t)
    PROVE  Tells(f, g)
<1>1. /\ DOMAIN g = DOMAIN f
      /\ g.clock = f.clock /\ g.lastUpdate = f.lastUpdate /\ g.started = f.started
      /\ g.tx = f.tx \o t
  BY BoxFields, Zenon DEF Say
<1>2. GoesOnFrom(f.tx, g.tx)
  BY <1>1, PlainGoesOn
<1> QED
  BY <1>1, <1>2 DEF Tells

\* What changes none of the fields of Tells, tells.
LEMMA QuietTells ==
    ASSUME NEW f, IsSeq(f.tx), NEW g, DOMAIN g = DOMAIN f, g.tx = f.tx,
           g.clock = f.clock, g.lastUpdate = f.lastUpdate, g.started = f.started \/ ~g.started
    PROVE  Tells(f, g)
  BY GoesOnStill DEF Tells

\* No command prints a sample or begins a race.
LEMMA ObeyTells ==
    ASSUME NEW f, IsBox(f), IsSeq(f.tx), NEW c
    PROVE  Tells(f, Obey(f, c))
<1> DEFINE g == Obey(f, c)
<1>1. CASE c = "l"
  <2>1. g = [f EXCEPT !.receiving = "length", !.buff = <<>>]
    BY <1>1, Zenon DEF Obey
  <2>2. /\ DOMAIN g = DOMAIN f /\ g.tx = f.tx /\ g.clock = f.clock
        /\ g.lastUpdate = f.lastUpdate /\ g.started = f.started
    BY <2>1, BoxFields, Zenon
  <2> QED
    BY <2>2, QuietTells, Zenon
<1>2. CASE c = "t"
  <2>1. g = [f EXCEPT !.receiving = "time", !.buff = <<>>]
    BY <1>2, Zenon DEF Obey
  <2>2. /\ DOMAIN g = DOMAIN f /\ g.tx = f.tx /\ g.clock = f.clock
        /\ g.lastUpdate = f.lastUpdate /\ g.started = f.started
    BY <2>1, BoxFields, Zenon
  <2> QED
    BY <2>2, QuietTells, Zenon
<1>3. CASE c = "v"
  <2> DEFINE frame == <<"V">>
  <2>1. frame[1] # "R"
    OBVIOUS
  <2>2. g = Say(f, <<frame>>)
    BY <1>3, Zenon DEF Obey
  <2> HIDE DEF frame, g
  <2>3. Tells(f, g)
    BY <2>1, <2>2, OneIsPlain, SayTells
  <2> QED
    BY <2>3 DEF g
<1>4. CASE c = "g"
  <2>1. g = CountAgain(f)
    BY <1>4, Zenon DEF Obey
  <2>2. /\ DOMAIN g = DOMAIN f /\ g.tx = f.tx /\ g.clock = f.clock
        /\ g.lastUpdate = f.lastUpdate /\ ~g.started
    BY <2>1, BoxFields, Zenon DEF CountAgain
  <2> QED
    BY <2>2, QuietTells, Zenon
<1>5. CASE c = "m"
  <2> DEFINE frame == <<"M", ~f.mock>>
             k == [f EXCEPT !.mock = ~@]
  <2>1. frame[1] # "R"
    OBVIOUS
  <2>2. g = Say(k, <<frame>>)
    BY <1>5, Zenon DEF Obey
  <2>3. /\ DOMAIN k = DOMAIN f /\ k.tx = f.tx /\ k.clock = f.clock
        /\ k.lastUpdate = f.lastUpdate /\ k.started = f.started
    BY BoxFields, Zenon
  <2> HIDE DEF frame, g, k
  <2>4. Tells(f, k)
    BY <2>3, QuietTells, Zenon
  <2>5. IsBox(k) /\ IsSeq(k.tx)
    BY <2>3 DEF IsBox
  <2>6. Tells(k, g)
    BY <2>1, <2>2, <2>5, OneIsPlain, SayTells
  <2>7. Tells(f, g)
    BY <2>4, <2>6, TellsTwice
  <2> QED
    BY <2>7 DEF g
<1>6. CASE c = "s"
  <2>1. g = [f EXCEPT !.started = FALSE, !.starting = FALSE]
    BY <1>6, Zenon DEF Obey
  <2>2. /\ DOMAIN g = DOMAIN f /\ g.tx = f.tx /\ g.clock = f.clock
        /\ g.lastUpdate = f.lastUpdate /\ ~g.started
    BY <2>1, BoxFields, Zenon
  <2> QED
    BY <2>2, QuietTells, Zenon
<1>7. CASE c = "x" \/ c = "d"
  <2>1. \E b : g = [f EXCEPT !.distance = b]
    BY <1>7, Zenon DEF Obey
  <2>2. /\ DOMAIN g = DOMAIN f /\ g.tx = f.tx /\ g.clock = f.clock
        /\ g.lastUpdate = f.lastUpdate /\ g.started = f.started
    BY <2>1, BoxFields, Zenon
  <2> QED
    BY <2>2, QuietTells, Zenon
<1>8. CASE c \notin {"l", "t", "v", "g", "m", "s", "x", "d"}
  <2> DEFINE frame == <<"ERROR", c>>
  <2>1. frame[1] # "R"
    OBVIOUS
  <2>2. g = Say(f, <<frame>>)
    BY <1>8, Zenon DEF Obey
  <2> HIDE DEF frame, g
  <2>3. Tells(f, g)
    BY <2>1, <2>2, OneIsPlain, SayTells
  <2> QED
    BY <2>3 DEF g
<1> QED
  BY <1>1, <1>2, <1>3, <1>4, <1>5, <1>6, <1>7, <1>8

\* Nor does the end of an argument.
LEMMA EndOfLineTells ==
    ASSUME NEW f, IsBox(f), IsSeq(f.tx)
    PROVE  Tells(f, EndOfLine(f))
<1> DEFINE g == EndOfLine(f)
<1>1. CASE f.receiving = "length"
  <2> DEFINE frame == <<"L", Atoi(f.buff)>>
             k == [f EXCEPT !.receiving = "none", !.length = Atoi(f.buff)]
  <2>1. frame[1] # "R"
    OBVIOUS
  <2>2. g = Say(k, <<frame>>)
    BY <1>1, Zenon DEF EndOfLine
  <2>3. /\ DOMAIN k = DOMAIN f /\ k.tx = f.tx /\ k.clock = f.clock
        /\ k.lastUpdate = f.lastUpdate /\ k.started = f.started
    BY BoxFields, Zenon
  <2> HIDE DEF frame, g, k
  <2>4. Tells(f, k)
    BY <2>3, QuietTells, Zenon
  <2>5. IsBox(k) /\ IsSeq(k.tx)
    BY <2>3 DEF IsBox
  <2>6. Tells(k, g)
    BY <2>1, <2>2, <2>5, OneIsPlain, SayTells
  <2>7. Tells(f, g)
    BY <2>4, <2>6, TellsTwice
  <2> QED
    BY <2>7 DEF g
<1>2. CASE f.receiving = "time"
  <2>1. g = [f EXCEPT !.receiving = "none", !.seconds = Atoi(f.buff)]
    BY <1>2, Zenon DEF EndOfLine
  <2>2. /\ DOMAIN g = DOMAIN f /\ g.tx = f.tx /\ g.clock = f.clock
        /\ g.lastUpdate = f.lastUpdate /\ g.started = f.started
    BY <2>1, BoxFields, Zenon
  <2> QED
    BY <2>2, QuietTells, Zenon
<1>3. CASE f.receiving \notin {"length", "time"}
  <2>1. g = f
    BY <1>3, Zenon DEF EndOfLine
  <2> QED
    BY <2>1, TellsStill
<1> QED
  BY <1>1, <1>2, <1>3

\* Nor does any byte of the client.
LEMMA SerialTells ==
    ASSUME NEW f, IsBox(f), IsSeq(f.tx)
    PROVE  Tells(f, CheckSerial(f))
<1> DEFINE g == CheckSerial(f)
<1>1. ASSUME f.rx = <<>> PROVE Tells(f, g)
  <2>1. g = f
    BY <1>1, Zenon DEF CheckSerial
  <2> QED
    BY <2>1, TellsStill
<1>2. ASSUME f.rx # <<>> PROVE Tells(f, g)
  <2> DEFINE c == Head(f.rx)
             h == [f EXCEPT !.rx = Tail(@)]
  <2>1. g = IF c = "\n" THEN EndOfLine(h)
            ELSE IF h.receiving # "none" THEN Receive(h, c) ELSE Obey(h, c)
    BY <1>2, BoxFields, Zenon DEF CheckSerial
  <2>2. /\ DOMAIN h = DOMAIN f /\ h.tx = f.tx /\ h.clock = f.clock
        /\ h.lastUpdate = f.lastUpdate /\ h.started = f.started
    BY BoxFields, Zenon
  <2> HIDE DEF h, c, g
  <2>3. Tells(f, h)
    BY <2>2, QuietTells, Zenon
  <2>4. IsBox(h) /\ IsSeq(h.tx)
    BY <2>2 DEF IsBox
  <2>5. Tells(h, Receive(h, c))
    <3> DEFINE r == Receive(h, c)
    <3>1. /\ DOMAIN r = DOMAIN h /\ r.tx = h.tx /\ r.clock = h.clock
          /\ r.lastUpdate = h.lastUpdate /\ r.started = h.started
      BY <2>4, BoxFields, Zenon DEF Receive
    <3> HIDE DEF r
    <3>2. Tells(h, r)
      BY <2>4, <3>1, QuietTells, Zenon
    <3> QED
      BY <3>2 DEF r
  <2>6. Tells(h, g)
    BY <2>1, <2>4, <2>5, ObeyTells, EndOfLineTells
  <2> QED
    BY <2>3, <2>6, TellsTwice
<1> QED
  BY <1>1, <1>2

-----------------------------------------------------------------------------
(* The order of the samples: the countdown. *)

\* The frames a box prints for some of its lanes are no samples, if none is.
LEMMA LanesArePlain ==
    ASSUME NEW S \in SUBSET Lanes,
           NEW frames, DOMAIN frames = DOMAIN Ascending(S),
           frames = [k \in DOMAIN Ascending(S) |-> frames[k]],
           \A k \in DOMAIN frames : frames[k][1] \in {"FS", "F"},
           \A k \in DOMAIN frames : frames[k][1] = "FS" => frames[k][2] = Ascending(S)[k]
    PROVE  Plain(frames)
<1>1. \A k \in DOMAIN Ascending(S) : Ascending(S)[k] \in Lanes
  BY LanesAreFinite, AscendingOrder
<1>2. Just(Lanes, frames)
  BY <1>1, FramesOfLanes
<1> QED
  BY <1>2 DEF Just, Plain

\* A race begins right after the frame of the countdown that says so, with its
\* update due.
Begins(f, g) ==
    /\ DOMAIN g = DOMAIN f
    /\ g.clock = 0 /\ g.lastUpdate = Absolute
    /\ GoesOnFrom(f.tx, g.tx)
    /\ Len(g.tx) > 0 /\ g.tx[Len(g.tx)][1] = "CD"

\* A pass of the countdown prints no sample, and may begin a race.
LEMMA CountdownTells ==
    ASSUME NEW f, Ready(f), IsSeq(f.tx), f.starting
    PROVE  Tells(f, Countdown(f)) \/ Begins(f, Countdown(f))
<1> DEFINE guilty == {i \in Pedalled(f) : f.ticks[i] + 1 = FalseStartTicks}
           h == [f EXCEPT !.values = f.pin, !.previous = f.pin,
                          !.ticks = [i \in Lanes |-> IF i \in Pedalled(f) THEN @[i] + 1 ELSE @[i]],
                          !.count = NextCount(f),
                          !.countAge = IF CountIsDue(f) THEN 0 ELSE @]
           fs == [k \in DOMAIN Ascending(guilty) |-> <<"FS", Ascending(guilty)[k]>>]
           frame == <<"CD", NextCount(f)>>
           cd == IF CountIsDue(f) THEN <<frame>> ELSE <<>>
           told == [h EXCEPT !.tx = @ \o (fs \o cd)]
           g == Countdown(f)
<1>1. g = IF NextCount(f) = 0 THEN RaceStart(told) ELSE told
  BY Zenon DEF Countdown, Say, ForEach, CountIsDue, NextCount
<1>2. Plain(fs)
  <2>1. guilty \in SUBSET Lanes
    BY DEF Pedalled
  <2> HIDE DEF guilty
  <2>4. DOMAIN fs = DOMAIN Ascending(guilty) /\ fs = [k \in DOMAIN Ascending(guilty) |-> fs[k]]
    OBVIOUS
  <2>5. \A k \in DOMAIN fs : fs[k][1] = "FS" /\ fs[k][2] = Ascending(guilty)[k]
    OBVIOUS
  <2> HIDE DEF fs
  <2> QED
    BY <2>1, <2>4, <2>5, LanesArePlain
<1>3. frame[1] = "CD"
  OBVIOUS
<1> HIDE DEF fs, frame
<1>4. /\ h.tx = f.tx /\ h.clock = f.clock /\ h.lastUpdate = f.lastUpdate
      /\ h.started = f.started /\ DOMAIN h = DOMAIN f
  BY BoxFields, Zenon DEF Ready, Typed
<1> HIDE DEF h
<1>5. IsBox(h)
  BY <1>4 DEF IsBox, Ready, Typed
<1>6. /\ told.tx = f.tx \o (fs \o cd)
      /\ told.clock = f.clock /\ told.lastUpdate = f.lastUpdate
      /\ told.started = f.started /\ DOMAIN told = DOMAIN f
  BY <1>4, <1>5, BoxFields, Zenon
<1> HIDE DEF told, g
<1>7. IsSeq(fs) /\ Len(fs) \in Nat /\ DOMAIN fs = 1 .. Len(fs)
  BY <1>2, SeqFacts DEF Plain
<1>8. Plain(fs \o cd)
  <2>1. Plain(cd)
    <3>1. Plain(<<frame>>)
      BY <1>3, OneIsPlain
    <3>2. Plain(<<>>)
      BY NoneIsSeq DEF Plain
    <3> QED
      BY <3>1, <3>2
  <2> HIDE DEF cd
  <2>2. GoesOnFrom(fs, fs \o cd)
    BY <1>7, <2>1, PlainGoesOn
  <2> DEFINE x == fs \o cd
  <2> HIDE DEF x
  <2>3. GoesOnFrom(fs, x)
    BY <2>2 DEF x
  <2>4. IsSeq(x) /\ Len(x) \in Nat /\ DOMAIN x = 1 .. Len(x)
    BY <2>3, SeqFacts DEF GoesOnFrom
  <2>5. ASSUME NEW k \in DOMAIN x PROVE x[k][1] # "R"
    <3>1. CASE k \in 1 .. Len(fs)
      BY <1>2, <1>7, <2>3, <3>1 DEF GoesOnFrom, Plain
    <3>2. CASE k \in Len(fs) + 1 .. Len(x)
      BY <2>3, <3>2 DEF GoesOnFrom
    <3> QED
      BY <1>7, <2>4, <3>1, <3>2
  <2> QED
    BY <2>4, <2>5 DEF Plain, x
<1>9. GoesOnFrom(f.tx, told.tx)
  BY <1>6, <1>8, PlainGoesOn
<1>10. ASSUME NextCount(f) # 0 PROVE Tells(f, g)
  <2>1. g = told
    BY <1>1, <1>10
  <2> QED
    BY <1>6, <1>9, <2>1 DEF Tells
<1>11. ASSUME NextCount(f) = 0 PROVE Begins(f, g)
  <2>1. CountIsDue(f)
    BY <1>11 DEF Ready, Typed, NextCount
  <2>2. IsBox(told)
    BY <1>6 DEF IsBox, Ready, Typed
  <2>3. g = RaceStart(told)
    BY <1>1, <1>11
  <2>4. DOMAIN g = DOMAIN told /\ g.clock = 0 /\ g.lastUpdate = Absolute /\ g.tx = told.tx
    BY <2>2, <2>3, BoxFields, Zenon DEF RaceStart
  <2>5. cd = <<frame>>
    BY <2>1
  <2> HIDE DEF cd
  <2>6. IsSeq(cd) /\ Len(cd) = 1 /\ cd[1] = frame
    BY <2>5, OneIsSeq
  <2> DEFINE x == fs \o cd
             z == f.tx
             y == z \o x
  <2>7. /\ IsSeq(x) /\ Len(x) = Len(fs) + Len(cd)
        /\ \A k \in Len(fs) + 1 .. Len(fs) + Len(cd) : x[k] = cd[k - Len(fs)]
    BY <1>7, <2>6, JoinFacts
  <2> HIDE DEF x
  <2>8. x[Len(x)] = frame /\ Len(x) \in Nat /\ Len(x) > 0
    BY <1>7, <2>6, <2>7
  <2>9. IsSeq(z)
    OBVIOUS
  <2> HIDE DEF z
  <2>10. /\ IsSeq(y) /\ Len(y) = Len(z) + Len(x)
         /\ \A k \in Len(z) + 1 .. Len(z) + Len(x) : y[k] = x[k - Len(z)]
    BY <2>7, <2>9, JoinFacts
  <2> HIDE DEF y
  <2>11. y[Len(y)] = frame /\ Len(y) > 0
    <3>1. Len(z) \in Nat
      BY <2>9, SeqFacts
    <3>2. Len(y) \in Len(z) + 1 .. Len(z) + Len(x) /\ Len(y) - Len(z) = Len(x)
      BY <2>8, <2>10, <3>1
    <3> QED
      BY <2>8, <2>10, <3>1, <3>2
  <2>12. g.tx = y
    BY <1>6, <2>4 DEF x, y, z
  <2> QED
    BY <1>3, <1>6, <1>9, <2>4, <2>11, <2>12 DEF Begins
<1>12. Tells(f, g) \/ Begins(f, g)
  BY <1>10, <1>11
<1> QED
  BY <1>12 DEF g

-----------------------------------------------------------------------------
(* The order of the samples: the race. *)

\* The end of a race tells the arrivals.
LEMMA ArrivalsTell ==
    ASSUME NEW f, IsBox(f), IsSeq(f.tx)
    PROVE  Tells(f, CheckDistanceBased(f)) /\ Tells(f, CheckTimeBased(f))
<1>1. Tells(f, CheckDistanceBased(f))
  <2> DEFINE arriving == {i \in Lanes : f.finish[i] = 0 /\ GeInt(f.ticks[i], f.length)}
             finish == [i \in Lanes |-> IF i \in arriving THEN f.clock ELSE f.finish[i]]
             finished == \A i \in Lanes : finish[i] # 0
             h == [f EXCEPT !.finish = finish,
                            !.starting = @ /\ ~finished, !.started = @ /\ ~finished]
             frames == [k \in DOMAIN Ascending(arriving) |-> <<"F", Ascending(arriving)[k], f.clock>>]
             g == CheckDistanceBased(f)
  <2>1. g = Say(h, frames)
    BY Zenon DEF CheckDistanceBased, ForEach
  <2>2. Plain(frames)
    <3>1. arriving \in SUBSET Lanes
      OBVIOUS
    <3> HIDE DEF arriving
    <3>2. DOMAIN frames = DOMAIN Ascending(arriving)
          /\ frames = [k \in DOMAIN Ascending(arriving) |-> frames[k]]
      OBVIOUS
    <3>3. \A k \in DOMAIN frames : frames[k][1] = "F"
      OBVIOUS
    <3> HIDE DEF frames
    <3> QED
      BY <3>1, <3>2, <3>3, LanesArePlain
  <2> HIDE DEF frames, finish
  <2>3. /\ DOMAIN h = DOMAIN f /\ h.tx = f.tx /\ h.clock = f.clock
        /\ h.lastUpdate = f.lastUpdate
        /\ h.started = (f.started /\ ~finished)
    BY BoxFields, Zenon
  <2>4. h.started = f.started \/ ~h.started
    <3>1. IsBox(f)
      OBVIOUS
    <3>2. CASE finished
      BY <2>3, <3>2, Zenon
    <3>3. CASE ~finished
      <4>1. h.started = f.started \/ ~h.started
        BY <2>3, Zenon
      <4> QED
        BY <4>1
    <3> QED
      BY <3>2, <3>3
  <2> HIDE DEF h, g, finished
  <2>5. Tells(f, h)
    BY <2>3, <2>4, QuietTells, Zenon
  <2>6. IsBox(h) /\ IsSeq(h.tx)
    BY <2>3 DEF IsBox
  <2>7. Tells(h, g)
    BY <2>1, <2>2, <2>6, SayTells
  <2>8. Tells(f, g)
    BY <2>5, <2>7, TellsTwice
  <2> QED
    BY <2>8 DEF g
<1>2. Tells(f, CheckTimeBased(f))
  <2> DEFINE limit == Mul(f.seconds, MsPerSecond)
             h == [f EXCEPT !.starting = FALSE, !.started = FALSE]
             frames == [k \in DOMAIN Ascending(Lanes) |-> <<"F", Ascending(Lanes)[k], limit>>]
             g == CheckTimeBased(f)
  <2>1. g = IF GtInt(f.clock, limit) THEN Say(h, frames) ELSE f
    BY Zenon DEF CheckTimeBased, ForEach
  <2>2. Plain(frames)
    <3>2. DOMAIN frames = DOMAIN Ascending(Lanes)
          /\ frames = [k \in DOMAIN Ascending(Lanes) |-> frames[k]]
      OBVIOUS
    <3>3. \A k \in DOMAIN frames : frames[k][1] = "F"
      OBVIOUS
    <3> HIDE DEF frames
    <3> QED
      BY <3>2, <3>3, LanesArePlain
  <2> HIDE DEF frames, limit
  <2>3. /\ DOMAIN h = DOMAIN f /\ h.tx = f.tx /\ h.clock = f.clock
        /\ h.lastUpdate = f.lastUpdate /\ ~h.started
    BY BoxFields, Zenon
  <2> HIDE DEF h, g
  <2>4. Tells(f, h)
    BY <2>3, QuietTells, Zenon
  <2>5. IsBox(h) /\ IsSeq(h.tx)
    BY <2>3 DEF IsBox
  <2>6. Tells(h, Say(h, frames))
    BY <2>2, <2>5, SayTells
  <2>7. Tells(f, Say(h, frames)) /\ Tells(f, f)
    BY <2>4, <2>6, TellsTwice, TellsStill
  <2>8. Tells(f, g)
    BY <2>1, <2>7
  <2> QED
    BY <2>8 DEF g
<1> QED
  BY <1>1, <1>2

\* The samples of the box behind what has left it.
InTime(a, f) ==
    /\ IsSeq(f.tx)
    /\ Chronicle(a \o f.tx)
    /\ f.lastUpdate \in Nat \cup {Absolute}

\* A pass of the race prints one sample at most, of its clock.
LEMMA RaceTells ==
    ASSUME NEW a, IsSeq(a), NEW f, IsBox(f), f.clock \in Nat, InTime(a, f), f.started,
           UpTo(a \o f.tx, f.lastUpdate)
    PROVE  LET g == Race(f) IN
               InTime(a, g) /\ UpTo(a \o g.tx, g.lastUpdate)
<1> DEFINE u == UpdateRacerTicks(f)
           c == IF u.distance THEN CheckDistanceBased(u) ELSE CheckTimeBased(u)
           h == [c EXCEPT !.lastUpdate = c.clock]
           frame == <<"R", c.ticks, c.clock>>
           g == Race(f)
<1>1. g = PrintRacerUpdate(c)
  BY Zenon DEF Race
<1>2. /\ DOMAIN u = DOMAIN f /\ u.tx = f.tx /\ u.clock = f.clock
      /\ u.lastUpdate = f.lastUpdate /\ u.started = f.started
  BY BoxFields, Zenon DEF UpdateRacerTicks
<1> HIDE DEF u
<1>3. IsBox(u) /\ IsSeq(u.tx)
  BY <1>2 DEF IsBox, InTime
<1>4. Tells(u, c)
  BY <1>3, ArrivalsTell
<1>5. g = IF c.lastUpdate = Absolute \/ c.clock - c.lastUpdate > UpdateInterval
          THEN Say(h, <<frame>>) ELSE c
  BY <1>1, Zenon DEF PrintRacerUpdate
<1>6. frame[1] = "R" /\ frame[3] = c.clock
  OBVIOUS
<1> HIDE DEF c, frame
<1>7. /\ DOMAIN c = DOMAIN f /\ c.clock = f.clock /\ c.lastUpdate = f.lastUpdate
      /\ GoesOnFrom(f.tx, c.tx) /\ IsSeq(c.tx) /\ IsBox(c)
  BY <1>2, <1>4 DEF Tells, IsBox, GoesOnFrom
<1>8. GoesOnFrom(a \o f.tx, a \o c.tx)
  BY <1>7, GoesOnBehind DEF InTime
<1>9. Chronicle(a \o c.tx) /\ UpTo(a \o c.tx, c.lastUpdate)
  BY <1>7, <1>8, GoesOnInOrder DEF InTime
<1> HIDE DEF g
<1>10. ASSUME g = c PROVE InTime(a, g) /\ UpTo(a \o g.tx, g.lastUpdate)
  BY <1>7, <1>9, <1>10 DEF InTime
<1>11. ASSUME g = Say(h, <<frame>>),
              c.lastUpdate = Absolute \/ c.clock - c.lastUpdate > UpdateInterval
       PROVE  InTime(a, g) /\ UpTo(a \o g.tx, g.lastUpdate)
  <2>1. DOMAIN h = DOMAIN c /\ h.tx = c.tx /\ h.lastUpdate = c.clock
    BY <1>7, BoxFields, Zenon
  <2> HIDE DEF h
  <2>2. IsBox(h)
    BY <1>7, <2>1 DEF IsBox
  <2>3. g.tx = c.tx \o <<frame>> /\ g.lastUpdate = c.clock
    BY <1>11, <2>1, <2>2, BoxFields, Zenon DEF Say
  <2>4. c.lastUpdate \in Int /\ c.clock \in Nat /\ c.clock > c.lastUpdate
    BY <1>7, <1>11, FirmwareConstants DEF InTime, Absolute
  <2> DEFINE t == <<frame>>
  <2>5. Chronicle((a \o c.tx) \o t) /\ UpTo((a \o c.tx) \o t, c.clock)
    BY <1>6, <1>9, <2>4, SampleInOrder
  <2>6. IsSeq(t)
    BY OneIsSeq
  <2>7. IsSeq(g.tx)
    BY <1>7, <2>3, <2>6, JoinFacts
  <2> HIDE DEF t
  <2>8. (a \o c.tx) \o t = a \o (c.tx \o t)
    <3> DEFINE d == c.tx
    <3>1. IsSeq(d)
      BY <1>7
    <3> HIDE DEF d
    <3>2. (a \o d) \o t = a \o (d \o t)
      BY <2>6, <3>1, JoinAgain
    <3> QED
      BY <3>2 DEF d
  <2>9. a \o g.tx = (a \o c.tx) \o t
    BY <2>3, <2>8 DEF t
  <2> QED
    BY <2>3, <2>4, <2>5, <2>7, <2>9 DEF InTime
<1>12. InTime(a, g) /\ UpTo(a \o g.tx, g.lastUpdate)
  BY <1>5, <1>10, <1>11
<1> QED
  BY <1>12 DEF g

\* The samples of the box behind a, those of its race no later than its last update.
Timely(a, f) ==
    /\ InTime(a, f)
    /\ f.started => UpTo(a \o f.tx, f.lastUpdate)

\* To tell keeps it.
LEMMA TellsTimely ==
    ASSUME NEW a, IsSeq(a), NEW f, Timely(a, f), NEW g, Tells(f, g)
    PROVE  Timely(a, g)
<1>1. GoesOnFrom(a \o f.tx, a \o g.tx)
  BY GoesOnBehind DEF Tells, Timely, InTime
<1>2. Chronicle(a \o g.tx) /\ \A last : UpTo(a \o f.tx, last) => UpTo(a \o g.tx, last)
  BY <1>1, GoesOnInOrder DEF Timely, InTime
<1>3. IsSeq(g.tx) /\ g.lastUpdate = f.lastUpdate /\ (g.started = f.started \/ ~g.started)
  BY DEF Tells, GoesOnFrom
<1>4. ASSUME g.started PROVE f.started
  BY <1>3, <1>4, Zenon
<1>5. InTime(a, g)
  BY <1>2, <1>3 DEF Timely, InTime
<1>6. ASSUME g.started PROVE UpTo(a \o g.tx, g.lastUpdate)
  <2>1. UpTo(a \o f.tx, f.lastUpdate)
    BY <1>4, <1>6 DEF Timely
  <2>2. UpTo(a \o g.tx, f.lastUpdate)
    BY <1>2, <2>1, Zenon
  <2> QED
    BY <1>3, <2>2
<1> QED
  BY <1>5, <1>6 DEF Timely

\* So does the beginning of a race.
LEMMA BeginsTimely ==
    ASSUME NEW a, IsSeq(a), NEW f, Timely(a, f), NEW g, Begins(f, g)
    PROVE  Timely(a, g)
<1> DEFINE t == g.tx
           q == a \o t
<1>1. IsSeq(f.tx) /\ Chronicle(a \o f.tx) /\ GoesOnFrom(f.tx, t) /\ IsSeq(t)
  BY DEF Begins, Timely, InTime, GoesOnFrom
<1>2. GoesOnFrom(a \o f.tx, q)
  BY <1>1, GoesOnBehind
<1>3. Chronicle(q)
  BY <1>1, <1>2, GoesOnInOrder
<1>4. Len(t) > 0 /\ t[Len(t)][1] = "CD" /\ g.lastUpdate = Absolute
  BY DEF Begins
<1> HIDE DEF t
<1>5. /\ Len(q) = Len(a) + Len(t) /\ Len(a) \in Nat /\ Len(t) \in Nat
      /\ \A k \in Len(a) + 1 .. Len(a) + Len(t) : q[k] = t[k - Len(a)]
  BY <1>1, JoinFacts, SeqFacts
<1> HIDE DEF q
<1>6. q[Len(q)] = t[Len(t)]
  <2>1. Len(q) \in Len(a) + 1 .. Len(a) + Len(t) /\ Len(q) - Len(a) = Len(t)
    BY <1>4, <1>5
  <2> QED
    BY <1>5, <2>1
<1>7. UpTo(q, Absolute)
  <2>1. IsSeq(q) /\ Len(q) > 0 /\ q[Len(q)][1] = "CD"
    BY <1>3, <1>4, <1>5, <1>6 DEF Chronicle
  <2> QED
    BY <2>1, CountIsNew
<1> QED
  BY <1>1, <1>3, <1>4, <1>7 DEF Timely, InTime, q, t

\* A pass of the loop of the firmware keeps it.
LEMMA TickTimely ==
    ASSUME NEW a, IsSeq(a), NEW f, Ready(f), Just(Lanes, f.tx), Timely(a, f)
    PROVE  Timely(a, Tick(f))
<1> DEFINE s == CheckSerial(f)
           c == Countdown(s)
           g == Race(c)
<1>1. Tick(f) = g
  BY Zenon DEF Tick
<1>2. IsBox(f) /\ IsSeq(f.tx)
  BY DEF Ready, Typed, Timely, InTime
<1>3. Served(Lanes, f, s) /\ Tells(f, s)
  BY <1>2, SerialEffect, SerialTells
<1>4. ~s.starting => c = s
  BY Zenon DEF Countdown
<1>5. ~c.started => g = c
  BY Zenon DEF Race
<1> HIDE DEF s
<1>6. Ready(s) /\ Just(Lanes, s.tx)
  BY <1>3, ServedIsReady DEF Served
<1>7. Timely(a, s)
  BY <1>3, TellsTimely
<1>8. s.starting => /\ Ready(c)
                    /\ Tells(s, c) \/ Begins(s, c)
  <2> SUFFICES ASSUME s.starting
               PROVE  Ready(c) /\ (Tells(s, c) \/ Begins(s, c))
    OBVIOUS
  <2>1. \A i \in Pedalled(s) : i \in Lanes
    BY DEF Pedalled
  <2>2. Ready(c)
    BY <1>6, <2>1, CountdownKeeps
  <2>3. IsSeq(s.tx)
    BY <1>7 DEF Timely, InTime
  <2> QED
    BY <1>6, <2>2, <2>3, CountdownTells
<1> HIDE DEF c
<1>9. Ready(c) /\ Timely(a, c)
  BY <1>4, <1>6, <1>7, <1>8, TellsTimely, BeginsTimely
<1>10. CASE c.started
  <2>1. IsBox(c) /\ c.clock \in Nat /\ InTime(a, c) /\ UpTo(a \o c.tx, c.lastUpdate)
    BY <1>9, <1>10 DEF Ready, Typed, Timely
  <2>2. InTime(a, g) /\ UpTo(a \o g.tx, g.lastUpdate)
    BY <1>10, <2>1, RaceTells
  <2> HIDE DEF g
  <2> QED
    BY <1>1, <2>2 DEF Timely
<1>11. CASE ~c.started
  BY <1>1, <1>5, <1>9, <1>11
<1> QED
  BY <1>10, <1>11

-----------------------------------------------------------------------------
(* The queues between the box and the line. *)

\* Sequences of the same length and elements are the same.
LEMMA SameElements ==
    ASSUME NEW s, IsSeq(s), NEW t, IsSeq(t), Len(s) = Len(t),
           \A k \in 1 .. Len(s) : s[k] = t[k]
    PROVE  s = t
<1>1. s = [k \in 1 .. Len(s) |-> s[k]] /\ t = [k \in 1 .. Len(t) |-> t[k]]
  BY DEF IsSeq
<1> QED
  BY <1>1

\* A function of the places of a sequence is one.
LEMMA MappedIsSeq ==
    ASSUME NEW s, IsSeq(s), NEW t, DOMAIN t = DOMAIN s, t = [k \in DOMAIN s |-> t[k]]
    PROVE  IsSeq(t) /\ Len(t) = Len(s)
<1>1. DOMAIN t = 1 .. Len(s) /\ Len(s) \in Nat
  BY SeqFacts
<1>2. \A k \in 1 .. Len(s) : t[k] \in Range(t)
  BY <1>1 DEF Range
<1>3. t \in [1 .. Len(s) -> Range(t)]
  BY <1>1, <1>2
<1>4. t \in Seq(Range(t)) /\ Len(t) = Len(s)
  BY <1>1, <1>3, SeqDef
<1> QED
  BY <1>4 DEF IsSeq

\* Frames without their delay are as many, in the same places.
LEMMA ToldFacts ==
    ASSUME NEW q, IsSeq(q)
    PROVE  /\ IsSeq(Told(q)) /\ Len(Told(q)) = Len(q)
           /\ \A k \in 1 .. Len(q) : Told(q)[k] = q[k].frame
<1> DEFINE t == Told(q)
<1>1. DOMAIN t = DOMAIN q /\ t = [k \in DOMAIN q |-> t[k]] /\ \A k \in DOMAIN q : t[k] = q[k].frame
  BY DEF Told
<1> HIDE DEF t
<1>2. IsSeq(t) /\ Len(t) = Len(q)
  BY <1>1, MappedIsSeq
<1>3. DOMAIN q = 1 .. Len(q)
  BY SeqFacts
<1> QED
  BY <1>1, <1>2, <1>3 DEF t

\* The front of the queue is a front.
LEMMA RipeIsAFront ==
    ASSUME NEW q, IsSeq(q)
    PROVE  Ripe(q) \in 0 .. Len(q)
<1> DEFINE S == {k \in DOMAIN q : \A j \in 1 .. k : q[j].ms <= 0}
<1>1. Len(q) \in Nat /\ DOMAIN q = 1 .. Len(q)
  BY SeqFacts
<1>2. IsFiniteSet(1 .. Len(q)) /\ Cardinality(1 .. Len(q)) = Len(q)
  <2> DEFINE n == Len(q)
  <2>1. n \in Int /\ 1 \in Int /\ n >= 0
    BY <1>1
  <2> HIDE DEF n
  <2>2. IsFiniteSet(1 .. n) /\ Cardinality(1 .. n) = IF 1 > n THEN 0 ELSE n - 1 + 1
    BY <2>1, FS_Interval, Zenon
  <2>3. Cardinality(1 .. n) = n
    BY <2>1, <2>2
  <2> QED
    BY <2>2, <2>3 DEF n
<1>3. S \in SUBSET (1 .. Len(q))
  BY <1>1
<1> HIDE DEF S
<1>4. IsFiniteSet(S) /\ Cardinality(S) <= Cardinality(1 .. Len(q)) /\ Cardinality(S) \in Nat
  BY <1>2, <1>3, FS_Subset, FS_CardinalityType
<1>5. Ripe(q) = Cardinality(S)
  BY Zenon DEF Ripe, S
<1> QED
  BY <1>1, <1>2, <1>4, <1>5

\* The queue of the latency with what enters it, what leaves it and what stays.
Entered(d, out) == d \o [k \in DOMAIN out |-> [ms |-> Latency, frame |-> out[k]]]

Leaving(queue) == Told(SubSeq(queue, 1, Ripe(queue)))

Staying(queue) ==
    LET rest == SubSeq(queue, Ripe(queue) + 1, Len(queue))
    IN  [k \in DOMAIN rest |-> [ms |-> rest[k].ms - 1, frame |-> rest[k].frame]]

\* What leaves the queue of the latency and what stays is what was there and what
\* enters it.
LEMMA QueueInOrder ==
    ASSUME NEW d, IsSeq(d), NEW out, IsSeq(out)
    PROVE  LET queue == Entered(d, out) IN
               /\ IsSeq(Staying(queue)) /\ IsSeq(Leaving(queue))
               /\ Leaving(queue) \o Told(Staying(queue)) = Told(d) \o out
<1> DEFINE queue == Entered(d, out)
           rest == SubSeq(queue, Ripe(queue) + 1, Len(queue))
           e == Staying(queue)
           gone == Leaving(queue)
           new == [k \in DOMAIN out |-> [ms |-> Latency, frame |-> out[k]]]
<1>1. IsSeq(new) /\ Len(new) = Len(out) /\ \A k \in 1 .. Len(out) : new[k].frame = out[k]
  <2>1. DOMAIN new = DOMAIN out /\ new = [k \in DOMAIN out |-> new[k]]
        /\ \A k \in DOMAIN out : new[k].frame = out[k]
    OBVIOUS
  <2> HIDE DEF new
  <2> QED
    BY <2>1, MappedIsSeq, SeqFacts
<1>2. queue = d \o new
  BY Zenon DEF Entered
<1>3. e = [k \in DOMAIN rest |-> [ms |-> rest[k].ms - 1, frame |-> rest[k].frame]]
  BY Zenon DEF Staying
<1>4. gone = Told(SubSeq(queue, 1, Ripe(queue)))
  BY Zenon DEF Leaving
<1> HIDE DEF new, e, gone, queue
<1>5. Len(d) \in Nat /\ Len(out) \in Nat
  BY SeqFacts
<1>6. /\ IsSeq(queue) /\ Len(queue) = Len(d) + Len(out)
      /\ \A k \in 1 .. Len(d) : queue[k] = d[k]
      /\ \A k \in Len(d) + 1 .. Len(d) + Len(out) : queue[k] = new[k - Len(d)]
  <2>1. IsSeq(queue)
    BY <1>1, <1>2, JoinIsSeq
  <2>2. /\ Len(d \o new) = Len(d) + Len(new)
        /\ \A k \in 1 .. Len(d) : (d \o new)[k] = d[k]
        /\ \A k \in Len(d) + 1 .. Len(d) + Len(new) : (d \o new)[k] = new[k - Len(d)]
    BY <1>1, JoinPlaces, Zenon
  <2> QED
    BY <1>1, <1>2, <2>1, <2>2
<1> DEFINE r == Ripe(queue)
           front == SubSeq(queue, 1, r)
<1>7. r \in 0 .. Len(queue) /\ rest = SubSeq(queue, r + 1, Len(queue)) /\ gone = Told(front)
  BY <1>6, <1>4, RipeIsAFront
<1> HIDE DEF r, rest
<1>8. IsSeq(front) /\ Len(front) = r /\ \A k \in 1 .. r : front[k] = queue[k]
  <2>1. 0 \in 0 .. Len(queue) /\ 0 + 1 = 1 /\ r - 0 = r
    BY <1>5, <1>6, <1>7
  <2>2. /\ IsSeq(SubSeq(queue, 0 + 1, r)) /\ Len(SubSeq(queue, 0 + 1, r)) = r - 0
        /\ \A k \in 1 .. r - 0 : SubSeq(queue, 0 + 1, r)[k] = queue[k + 0]
    BY <1>6, <1>7, <2>1, CutFacts
  <2>3. \A k \in 1 .. r : k + 0 = k
    BY <1>7
  <2> QED
    BY <2>1, <2>2, <2>3
<1> HIDE DEF front
<1>9. IsSeq(rest) /\ Len(rest) = Len(queue) - r /\ \A k \in 1 .. Len(queue) - r : rest[k] = queue[k + r]
  <2>1. Len(queue) \in r .. Len(queue)
    BY <1>5, <1>6, <1>7
  <2> QED
    BY <1>6, <1>7, <2>1, CutFacts
<1>10. IsSeq(e) /\ Len(e) = Len(rest) /\ \A k \in 1 .. Len(rest) : e[k].frame = rest[k].frame
  <2>1. DOMAIN e = DOMAIN rest /\ e = [k \in DOMAIN rest |-> e[k]]
        /\ \A k \in DOMAIN rest : e[k].frame = rest[k].frame
    BY <1>3
  <2>2. DOMAIN rest = 1 .. Len(rest)
    BY <1>9, SeqFacts
  <2> QED
    BY <1>9, <2>1, <2>2, MappedIsSeq
<1>11. IsSeq(gone) /\ Len(gone) = r /\ \A k \in 1 .. r : gone[k] = queue[k].frame
  BY <1>7, <1>8, ToldFacts
<1> DEFINE x == gone \o Told(e)
           y == Told(d) \o out
<1>12. /\ IsSeq(x) /\ Len(x) = Len(queue)
       /\ \A k \in 1 .. Len(queue) : x[k] = queue[k].frame
  <2> DEFINE t == Told(e)
  <2>1. IsSeq(t) /\ Len(t) = Len(queue) - r
        /\ \A k \in 1 .. Len(queue) - r : t[k] = queue[k + r].frame
    BY <1>9, <1>10, ToldFacts
  <2> HIDE DEF t
  <2>2. /\ IsSeq(x) /\ Len(x) = r + (Len(queue) - r)
        /\ \A k \in 1 .. r : x[k] = gone[k]
        /\ \A k \in r + 1 .. r + (Len(queue) - r) : x[k] = t[k - r]
    BY <1>11, <2>1, JoinFacts DEF t
  <2> HIDE DEF x
  <2>3. ASSUME NEW k \in 1 .. Len(queue) PROVE x[k] = queue[k].frame
    <3>1. CASE k <= r
      BY <1>5, <1>6, <1>7, <1>11, <2>2, <3>1
    <3>2. CASE k > r
      <4>1. k - r \in 1 .. Len(queue) - r /\ k \in r + 1 .. r + (Len(queue) - r) /\ (k - r) + r = k
        BY <1>5, <1>6, <1>7, <3>2
      <4> QED
        BY <2>1, <2>2, <4>1
    <3> QED
      BY <1>5, <1>6, <1>7, <3>1, <3>2
  <2> QED
    BY <1>5, <1>6, <1>7, <2>2, <2>3
<1>13. /\ IsSeq(y) /\ Len(y) = Len(queue)
       /\ \A k \in 1 .. Len(queue) : y[k] = queue[k].frame
  <2> DEFINE t == Told(d)
  <2>1. IsSeq(t) /\ Len(t) = Len(d) /\ \A k \in 1 .. Len(d) : t[k] = d[k].frame
    BY ToldFacts
  <2> HIDE DEF t
  <2>2. /\ IsSeq(y) /\ Len(y) = Len(d) + Len(out)
        /\ \A k \in 1 .. Len(d) : y[k] = t[k]
        /\ \A k \in Len(d) + 1 .. Len(d) + Len(out) : y[k] = out[k - Len(d)]
    <3>1. y = t \o out
      BY DEF t
    <3> HIDE DEF y
    <3>2. IsSeq(y)
      BY <2>1, <3>1, JoinIsSeq
    <3>3. /\ Len(t \o out) = Len(t) + Len(out)
          /\ \A k \in 1 .. Len(t) : (t \o out)[k] = t[k]
          /\ \A k \in Len(t) + 1 .. Len(t) + Len(out) : (t \o out)[k] = out[k - Len(t)]
      BY <2>1, JoinPlaces, Zenon
    <3> QED
      BY <2>1, <3>1, <3>2, <3>3
  <2> HIDE DEF y
  <2>3. ASSUME NEW k \in 1 .. Len(queue) PROVE y[k] = queue[k].frame
    <3>1. CASE k <= Len(d)
      BY <1>5, <1>6, <2>1, <2>2, <3>1
    <3>2. CASE k > Len(d)
      <4>1. k - Len(d) \in 1 .. Len(out) /\ k \in Len(d) + 1 .. Len(d) + Len(out)
        BY <1>5, <1>6, <3>2
      <4> QED
        BY <1>1, <1>6, <2>2, <4>1
    <3> QED
      BY <1>5, <1>6, <3>1, <3>2
  <2> QED
    BY <1>5, <1>6, <2>2, <2>3
<1> HIDE DEF x, y
<1>14. x = y
  BY <1>12, <1>13, SameElements
<1> QED
  BY <1>10, <1>11, <1>14 DEF x, y, e, gone, queue

\* Concatenation, for proofs that need no more of it than to be associative.
Then(a, b) == a \o b

\* Then is associative.
LEMMA ThenAgain ==
    ASSUME NEW a, IsSeq(a), NEW b, IsSeq(b), NEW c, IsSeq(c)
    PROVE  Then(Then(a, b), c) = Then(a, Then(b, c))
  BY JoinAgain DEF Then

\* Then makes a sequence.
LEMMA ThenIsSeq ==
    ASSUME NEW a, IsSeq(a), NEW b, IsSeq(b)
    PROVE  IsSeq(Then(a, b))
  BY JoinIsSeq DEF Then

\* So all that is under way is in the order it was.
LEMMA AllInOrder ==
    ASSUME NEW o, NEW t, NEW h, NEW x, NEW gone, NEW t2, NEW h2, NEW out,
           IsSeq(o), IsSeq(t), IsSeq(h), IsSeq(x),
           IsSeq(gone), IsSeq(t2), IsSeq(h2), IsSeq(out),
           Then(gone, t2) = Then(t, out), Then(out, h2) = Then(h, x)
    PROVE  Then(Then(o, gone), Then(t2, h2)) = Then(Then(Then(o, t), h), x)
<1> DEFINE u == Then(t2, h2)
           v == Then(h, x)
           y == Then(o, t)
<1>1. IsSeq(u) /\ IsSeq(v) /\ IsSeq(y)
  BY ThenIsSeq
<1>2. Then(gone, u) = Then(Then(t, out), h2)
  BY ThenAgain
<1>3. Then(Then(t, out), h2) = Then(t, v)
  BY ThenAgain
<1>4. Then(y, v) = Then(Then(y, h), x)
  <2> HIDE DEF y
  <2> QED
    BY <1>1, ThenAgain
<1> HIDE DEF u, v
<1>5. Then(Then(o, gone), u) = Then(o, Then(gone, u))
  BY <1>1, ThenAgain
<1>6. Then(y, v) = Then(o, Then(t, v))
  BY <1>1, ThenAgain
<1>7. Then(Then(o, gone), u) = Then(Then(y, h), x)
  BY <1>2, <1>3, <1>4, <1>5, <1>6
<1> QED
  BY <1>7 DEF u, y

\* What a freeze keeps back waits for what follows it.
LEMMA FreezeInOrder ==
    ASSUME IsSeq(held), IsSeq(fw.tx), NEW out, out = Released(fw.tx),
           held' = IF out = <<>> THEN held \o fw.tx ELSE <<>>
    PROVE  IsSeq(out) /\ IsSeq(held') /\ out \o held' = held \o fw.tx
<1> DEFINE x == held \o fw.tx
           S == Range(x)
<1>1. IsSeq(x)
  BY JoinFacts
<1>2. x \in Seq(S)
  BY <1>1 DEF IsSeq
<1>3. out = <<>> \/ out = x
  BY DEF Released
<1> HIDE DEF x, S
<1>4. <<>> \o x = x /\ x \o <<>> = x
  BY <1>2
<1>5. CASE out = <<>>
  <2>1. held' = x
    BY <1>5 DEF x
  <2> QED
    BY <1>1, <1>4, <1>5, <2>1, NoneIsSeq DEF x
<1>6. CASE out # <<>>
  <2>1. out = x /\ held' = <<>>
    BY <1>3, <1>6
  <2> QED
    BY <1>1, <1>4, <2>1, NoneIsSeq DEF x
<1> QED
  BY <1>5, <1>6

-----------------------------------------------------------------------------
(* The pseudo-terminal. *)

\* PortIsWhole, of any terminal.
Whole(p) == p.master => p.slave /\ p.device # NoDevice /\ p.link = p.device

\* A terminal of the emulator, open whole or closed.
Intact(p) ==
    DOMAIN p = {"master", "slave", "device", "link", "outbox", "credit", "pumped"} /\ Whole(p)

AllIntact(ports) == \A p \in ports : Intact(p)

\* close leaves nothing open.
LEMMA ClosedIsIntact ==
    ASSUME NEW p
    PROVE  Intact(Close(p)) /\ ~Close(p).master /\ Close(p).link = p.link
  BY Zenon DEF Close, Closed, Intact, Whole

\* reopen opens whole, or closes what it had opened.
LEMMA OpeningsAreIntact ==
    ASSUME NEW p
    PROVE  AllIntact(Openings(p))
<1> DEFINE new == IF p.link = 1 THEN 2 ELSE 1
           master == [Close(p) EXCEPT !.master = TRUE, !.device = new]
           slave == [master EXCEPT !.slave = TRUE]
           whole == [slave EXCEPT !.link = new]
           tries == Tries(p)
<1>1. tries = <<Close(p), master, slave, [slave EXCEPT !.link = NoDevice], whole>>
  BY Zenon DEF Tries
<1>2. Intact(whole)
  <2>1. new # NoDevice
    BY DEF NoDevice
  <2> HIDE DEF new
  <2>2. /\ DOMAIN whole = {"master", "slave", "device", "link", "outbox", "credit", "pumped"}
        /\ whole.slave /\ whole.device = new /\ whole.link = new
    BY Zenon DEF Close, Closed
  <2> QED
    BY <2>1, <2>2, Zenon DEF Intact, Whole
<1> HIDE DEF whole, slave, master
<1>3. tries[Len(tries)] = whole
  BY <1>1
<1>4. \A q \in Openings(p) : q = tries[Len(tries)] \/ \E t : q = Close(t)
  BY DEF Openings
<1> HIDE DEF tries
<1> QED
  BY <1>2, <1>3, <1>4, ClosedIsIntact DEF AllIntact

\* What is queued changes nothing else.
LEMMA QueueIsIntact ==
    ASSUME NEW p, Intact(p), NEW frames
    PROVE  Intact(Queue(p, frames))
  BY Zenon DEF Queue, Intact, Whole

\* Neither does what the line carries.
LEMMA PumpedIsIntact ==
    ASSUME NEW p, Intact(p), NEW q \in Pumped(p)
    PROVE  Intact(q)
<1>1. \/ \E b : q = [p EXCEPT !.outbox = b]
      \/ \E a, b, c : q = [p EXCEPT !.pumped = a, !.credit = b, !.outbox = c]
  BY DEF Pumped
<1>2. ASSUME NEW b, q = [p EXCEPT !.outbox = b] PROVE Intact(q)
  BY <1>2, Zenon DEF Intact, Whole
<1>3. ASSUME NEW a, NEW b, NEW c, q = [p EXCEPT !.pumped = a, !.credit = b, !.outbox = c]
      PROVE  Intact(q)
  BY <1>3, Zenon DEF Intact, Whole
<1> QED
  BY <1>1, <1>2, <1>3, Zenon

\* A terminal that may become q keeps what is left of its output.
Later(p, q) ==
    /\ Intact(q)
    /\ IsSeq(p.outbox) /\ p.credit \in Nat =>
           LeftOf(p.outbox, q.outbox) /\ q.credit \in Nat

AllLater(p, ports) == \A q \in ports : Later(p, q)

\* Nothing is left when the output is empty.
LEMMA EmptyIsLater ==
    ASSUME NEW p, NEW q, Intact(q), q.outbox = <<>>, q.credit = 0
    PROVE  Later(p, q)
  BY LeftWhole DEF Later

\* close drops the output.
LEMMA ClosedIsLater ==
    ASSUME NEW p, NEW q
    PROVE  Later(p, Close(q))
<1>1. Intact(Close(q))
  BY ClosedIsIntact
<1>2. Close(q).outbox = <<>> /\ Close(q).credit = 0
  BY Zenon DEF Close, Closed
<1> QED
  BY <1>1, <1>2, EmptyIsLater

\* reopen begins with close.
LEMMA OpeningsAreLater ==
    ASSUME NEW p, NEW r
    PROVE  AllLater(p, Openings(r))
<1> DEFINE new == IF r.link = 1 THEN 2 ELSE 1
           master == [Close(r) EXCEPT !.master = TRUE, !.device = new]
           slave == [master EXCEPT !.slave = TRUE]
           whole == [slave EXCEPT !.link = new]
           tries == Tries(r)
<1>1. tries = <<Close(r), master, slave, [slave EXCEPT !.link = NoDevice], whole>>
  BY Zenon DEF Tries
<1>2. whole.outbox = <<>> /\ whole.credit = 0
  BY Zenon DEF Close, Closed
<1> HIDE DEF whole, slave, master
<1>3. tries[Len(tries)] = whole
  BY <1>1
<1>4. \A q \in Openings(r) : q = tries[Len(tries)] \/ \E t : q = Close(t)
  BY DEF Openings
<1> HIDE DEF tries
<1>5. ASSUME NEW q \in Openings(r) PROVE Later(p, q)
  <2>1. Intact(q)
    BY OpeningsAreIntact DEF AllIntact
  <2>2. CASE q = whole
    BY <1>2, <2>1, <2>2, EmptyIsLater
  <2>3. CASE \E t : q = Close(t)
    BY <2>3, ClosedIsLater
  <2> QED
    BY <1>3, <1>4, <2>2, <2>3
<1> QED
  BY <1>5 DEF AllLater

\* The fields a queued frame leaves alone.
LEMMA QueueFacts ==
    ASSUME NEW p, Intact(p), NEW frames
    PROVE  /\ Intact(Queue(p, frames))
           /\ Queue(p, frames).outbox = p.outbox \o frames
           /\ Queue(p, frames).credit = p.credit
<1>1. Intact(Queue(p, frames))
  BY QueueIsIntact
<1>2. Queue(p, frames).outbox = p.outbox \o frames /\ Queue(p, frames).credit = p.credit
  BY Zenon DEF Queue, Intact
<1> QED
  BY <1>1, <1>2

\* A fault cuts the line, opens it again or adds to its output what is no sample.
LEMMA StruckIsLater ==
    ASSUME NEW p, NEW r, Later(p, r), NEW fault, NEW q \in Struck(r, fault)
    PROVE  Later(p, q)
<1>1. CASE fault.kind = "LinkLoss"
  <2>1. q = Close(r)
    BY <1>1, Zenon DEF Struck
  <2> QED
    BY <2>1, ClosedIsLater
<1>2. CASE fault.kind = "LinkReturn"
  <2>1. q \in Openings(r)
    BY <1>2, Zenon DEF Struck
  <2> QED
    BY <2>1, OpeningsAreLater DEF AllLater
<1>3. CASE fault.kind \in {"CorruptFrame", "NullByte", "TruncatedLine"}
  <2> DEFINE frame == <<fault.kind>>
             t == <<frame>>
  <2>1. q = Queue(r, t)
    BY <1>3, Zenon DEF Struck
  <2>2. frame[1] # "R"
    BY <1>3
  <2> HIDE DEF frame
  <2>3. Plain(t)
    BY <2>2, OneIsPlain
  <2> HIDE DEF t
  <2>4. Intact(q) /\ q.outbox = r.outbox \o t /\ q.credit = r.credit
    BY <2>1, QueueFacts DEF Later
  <2>5. ASSUME IsSeq(p.outbox), p.credit \in Nat
        PROVE  LeftOf(p.outbox, q.outbox) /\ q.credit \in Nat
    <3>1. LeftOf(p.outbox, r.outbox) /\ r.credit \in Nat
      BY <2>5 DEF Later
    <3>2. LeftOf(p.outbox, r.outbox \o t)
      BY <2>3, <2>5, <3>1, LeftAndPlain
    <3> QED
      BY <2>4, <3>1, <3>2
  <2> QED
    BY <2>4, <2>5 DEF Later
<1>4. CASE fault.kind \notin {"LinkLoss", "LinkReturn", "CorruptFrame", "NullByte",
                               "TruncatedLine"}
  <2>1. q = r
    BY <1>4, Zenon DEF Struck
  <2> QED
    BY <2>1
<1> QED
  BY <1>1, <1>2, <1>3, <1>4

\* On any set of terminals.
LEMMA StrikeIsLater ==
    ASSUME NEW p, NEW ports, AllLater(p, ports), NEW k
    PROVE  AllLater(p, Strike(ports, k))
  BY StruckIsLater DEF AllLater, Strike

\* g is the function FoldLeft recurs on, over the subsets of D.
Strikes(g, p, order, D) ==
    g = [s \in SUBSET D |-> IF s = {} THEN {p} ELSE Strike(g[s \ {Max(s)}], order[Max(s)])]

\* There is such a function for any number of faults: one for k of them comes of
\* one for k - 1.
LEMMA StrikesExtend ==
    ASSUME NEW p, NEW order, NEW k \in Nat \ {0}, NEW g, Strikes(g, p, order, 1 .. k - 1)
    PROVE  \E h : Strikes(h, p, order, 1 .. k)
<1> DEFINE h == [s \in SUBSET (1 .. k) |-> IF k \in s THEN Strike(g[s \ {k}], order[k]) ELSE g[s]]
<1>1. \A s \in SUBSET (1 .. k - 1) : s \in SUBSET (1 .. k) /\ k \notin s
  OBVIOUS
<1>2. \A s \in SUBSET (1 .. k) : s \ {k} \in SUBSET (1 .. k - 1)
  BY IntervalWithoutLast
<1>3. \A s \in SUBSET (1 .. k - 1) : h[s] = g[s]
  BY <1>1
<1>4. ASSUME NEW s \in SUBSET (1 .. k)
      PROVE  h[s] = IF s = {} THEN {p} ELSE Strike(h[s \ {Max(s)}], order[Max(s)])
  <2>1. CASE k \in s
    <3>1. Max(s) = k
      <4>1. \A y \in s : k >= y
        OBVIOUS
      <4>2. \A x \in s : (\A y \in s : x >= y) => x = k
        BY <2>1
      <4> QED
        BY <2>1, <4>1, <4>2 DEF Max
    <3>2. h[s] = Strike(g[s \ {k}], order[k])
      BY <2>1
    <3>3. h[s \ {k}] = g[s \ {k}]
      BY <1>2, <1>3
    <3> QED
      BY <2>1, <3>1, <3>2, <3>3
  <2>2. CASE k \notin s
    <3>1. s \in SUBSET (1 .. k - 1) /\ s \ {Max(s)} \in SUBSET (1 .. k - 1)
      BY <1>2, <2>2
    <3>2. h[s] = g[s] /\ h[s \ {Max(s)}] = g[s \ {Max(s)}]
      BY <1>3, <3>1
    <3> HIDE DEF h
    <3>3. g[s] = IF s = {} THEN {p} ELSE Strike(g[s \ {Max(s)}], order[Max(s)])
      BY <3>1 DEF Strikes
    <3> QED
      BY <3>2, <3>3
  <2> QED
    BY <2>1, <2>2
<1>5. h = [s \in SUBSET (1 .. k) |-> h[s]]
  OBVIOUS
<1> HIDE DEF h
<1>6. Strikes(h, p, order, 1 .. k)
  BY <1>4, <1>5 DEF Strikes
<1> QED
  BY <1>6

\* So there is one for every number of faults: the first without would have one
\* before it.
LEMMA StrikesExist ==
    ASSUME NEW p, NEW order, NEW n \in Nat
    PROVE  \E g : Strikes(g, p, order, 1 .. n)
<1> DEFINE P(k) == \E g : Strikes(g, p, order, 1 .. k)
           T == {k \in 0 .. n : P(k)}
<1>1. P(0)
  <2> DEFINE g == [s \in SUBSET (1 .. 0) |-> {p}]
  <2>1. \A s \in SUBSET (1 .. 0) : s = {}
    OBVIOUS
  <2>2. Strikes(g, p, order, 1 .. 0)
    BY <2>1 DEF Strikes
  <2> QED
    BY <2>2
<1>2. ASSUME NEW k \in Nat \ {0}, P(k - 1) PROVE P(k)
  BY <1>2, StrikesExtend
<1> HIDE DEF P
<1>3. 0 .. n \subseteq T
  <2>1. 0 \in T /\ \A k \in 1 .. n : k - 1 \in T => k \in T
    BY <1>1, <1>2
  <2> HIDE DEF T
  <2> QED
    BY <2>1, StepByStep
<1>4. P(n)
  BY <1>3
<1> QED
  BY <1>4 DEF P

\* However many faults a turn of the loop applies, and whatever they are.
LEMMA StrickenIsLater ==
    ASSUME NEW p, Intact(p), NEW ks \in SUBSET Int, IsFiniteSet(ks)
    PROVE  AllLater(p, Stricken(p, ks))
<1> DEFINE order == Ascending(ks)
           n == Cardinality(ks)
           F(g) == [s \in SUBSET (1 .. n) |->
                      IF s = {} THEN {p} ELSE Strike(g[s \ {Max(s)}], order[Max(s)])]
           it == CHOOSE g : g = F(g)
<1>1. n \in Nat /\ DOMAIN order = 1 .. n
  BY AscendingOrder, FS_CardinalityType
<1>2. Stricken(p, ks) = it[1 .. n]
  <2>1. Stricken(p, ks) = FoldLeft(Strike, {p}, order)
    BY Zenon DEF Stricken
  <2> DEFINE G(g) == [s \in SUBSET DOMAIN order |->
                      IF s = {} THEN {p} ELSE Strike(g[s \ {Max(s)}], order[Max(s)])]
  <2>2. FoldLeft(Strike, {p}, order) = (CHOOSE g : g = G(g))[DOMAIN order]
    BY Zenon DEF FoldLeft, MapThenFoldSet
  <2> HIDE DEF order, n
  <2>3. (CHOOSE g : g = G(g))[DOMAIN order] = it[1 .. n]
    BY <1>1
  <2> QED
    BY <2>1, <2>2, <2>3
<1>3. it = F(it)
  <2>1. PICK g : Strikes(g, p, order, 1 .. n)
    BY <1>1, StrikesExist
  <2>2. g = F(g)
    BY <2>1, Zenon DEF Strikes
  <2> HIDE DEF F
  <2> QED
    BY <2>2
<1> HIDE DEF it, order, n
<1> DEFINE P(k) == AllLater(p, it[1 .. k])
           T == {k \in 0 .. n : P(k)}
<1>4. P(0)
  <2>1. 1 .. 0 = {} /\ 1 .. 0 \in SUBSET (1 .. n)
    OBVIOUS
  <2>2. it[1 .. 0] = {p}
    BY <1>3, <2>1
  <2>3. Later(p, p)
    BY LeftWhole DEF Later
  <2> QED
    BY <2>2, <2>3 DEF AllLater
<1>5. ASSUME NEW k \in 1 .. n, P(k - 1) PROVE P(k)
  <2>1. k \in Nat \ {0} /\ 1 .. k \in SUBSET (1 .. n) /\ 1 .. k # {}
    BY <1>1
  <2>2. Max(1 .. k) = k /\ (1 .. k) \ {k} = 1 .. k - 1
    BY <2>1, LargestOfInterval, IntervalWithoutLast
  <2>3. it[1 .. k] = Strike(it[1 .. k - 1], order[k])
    BY <1>3, <2>1, <2>2
  <2> QED
    BY <1>5, <2>3, StrikeIsLater
<1> HIDE DEF P
<1>6. 0 .. n \subseteq T
  <2>1. 0 \in T /\ \A k \in 1 .. n : k - 1 \in T => k \in T
    BY <1>1, <1>4, <1>5
  <2> HIDE DEF T
  <2> QED
    BY <1>1, <2>1, StepByStep
<1>7. P(n)
  BY <1>1, <1>6
<1> QED
  BY <1>2, <1>7 DEF P, n

\* What the line carries leaves the front of the output.
LEMMA PumpedIsLater ==
    ASSUME NEW p, Intact(p), NEW q \in Pumped(p)
    PROVE  Later(p, q)
<1>1. Intact(q)
  BY PumpedIsIntact
<1> SUFFICES ASSUME IsSeq(p.outbox), p.credit \in Nat
             PROVE  LeftOf(p.outbox, q.outbox) /\ q.credit \in Nat
  BY <1>1 DEF Later
<1> DEFINE s == p.outbox
           c == Credit(p)
           budget == Min({Len(s), c})
<1>2. IsSeq(s) /\ Len(s) \in Nat
  BY SeqFacts
<1>3. c \in Nat
  <2>1. CreditPerMs \in Nat /\ CreditMax \in Nat
    BY EmulatorConstants
  <2> DEFINE more == p.credit + CreditPerMs
  <2>2. more \in Nat
    BY <2>1
  <2> HIDE DEF more
  <2> DEFINE most == CreditMax
  <2>3. Min({more, most}) \in {more, most}
    <3>1. more \in Int /\ most \in Int
      BY <2>1, <2>2
    <3> HIDE DEF most
    <3> QED
      BY <3>1, MinOfTwo, Zenon
  <2>4. c = IF p.pumped THEN Min({more, CreditMax}) ELSE p.credit
    BY DEF Credit, more
  <2> QED
    BY <2>1, <2>2, <2>3, <2>4
<1> DEFINE Behind(w) == SubSeq(s, w + 1, Len(s))
           Cut(r) == SubSeq(r, Max({0, Len(r) - OutboxMax}) + 1, Len(r))
<1>4. \/ q = [p EXCEPT !.outbox = <<>>]
      \/ \E w \in {budget, 0} : \E b :
             /\ q = [p EXCEPT !.pumped = TRUE, !.credit = c - w, !.outbox = b]
             /\ b \in {Behind(w), Cut(Behind(w))}
  BY DEF Pumped
<1> HIDE DEF c, Behind, Cut
<1>5. CASE q = [p EXCEPT !.outbox = <<>>]
  <2>1. q.outbox = <<>> /\ q.credit = p.credit
    BY <1>5, Zenon DEF Intact
  <2> QED
    BY <1>2, <2>1, LeftWhole
<1>6. ASSUME NEW w \in {budget, 0}, NEW b, b \in {Behind(w), Cut(Behind(w))},
             q = [p EXCEPT !.pumped = TRUE, !.credit = c - w, !.outbox = b]
      PROVE  LeftOf(p.outbox, q.outbox) /\ q.credit \in Nat
  <2>1. q.outbox = b /\ q.credit = c - w
    BY <1>6, Zenon DEF Intact
  <2>2. w \in 0 .. Len(s) /\ c - w \in Nat
    <3> DEFINE n == Len(s)
    <3>1. Min({n, c}) \in {n, c} /\ Min({n, c}) <= n /\ Min({n, c}) <= c
      <4>1. n \in Int /\ c \in Int
        BY <1>2, <1>3
      <4> HIDE DEF n
      <4> QED
        BY <4>1, MinOfTwo, Zenon
    <3>2. budget = Min({n, c})
      OBVIOUS
    <3>3. n \in Nat /\ n = Len(s)
      BY <1>2
    <3> HIDE DEF budget, s, n
    <3> QED
      BY <1>3, <3>1, <3>2, <3>3
  <2> HIDE DEF s
  <2>3. LeftOf(s, s)
    BY <1>2, LeftWhole
  <2> DEFINE r == Behind(w)
  <2>4. LeftOf(s, r)
    BY <1>2, <2>2, <2>3, LeftAfterCut DEF Behind
  <2>5. IsSeq(r) /\ Len(r) \in Nat
    BY <2>4, SeqFacts DEF LeftOf
  <2> HIDE DEF r
  <2>6. LeftOf(s, Cut(r))
    <3>1. OutboxMax \in Nat
      BY EmulatorConstants
    <3> DEFINE n == Len(r) - OutboxMax
               m == Max({0, n})
    <3>2. n \in Int /\ n <= Len(r)
      BY <2>5, <3>1
    <3>3. m \in {0, n} /\ 0 <= m
      <4>1. 0 \in Int /\ n \in Int
        BY <3>2
      <4> HIDE DEF n
      <4> QED
        BY <4>1, MaxOfTwo, Zenon
    <3>4. m \in 0 .. Len(r)
      BY <2>5, <3>2, <3>3
    <3>5. Cut(r) = SubSeq(r, m + 1, Len(r))
      BY DEF Cut
    <3> HIDE DEF m, n
    <3> QED
      BY <1>2, <2>4, <3>4, <3>5, LeftAfterCut
  <2>7. LeftOf(s, b)
    BY <1>6, <2>4, <2>6 DEF r
  <2> QED
    BY <2>1, <2>2, <2>7 DEF s
<1> QED
  BY <1>4, <1>5, <1>6

\* The terminal the emulator starts with is whole.
LEMMA PortInit ==
    ASSUME Init
    PROVE  Intact(pty)
<1>1. pty = [Closed EXCEPT !.master = TRUE, !.slave = TRUE, !.device = 1, !.link = 1]
  BY Zenon DEF Init
<1>2. /\ DOMAIN pty = {"master", "slave", "device", "link", "outbox", "credit", "pumped"}
      /\ pty.slave /\ pty.device = 1 /\ pty.link = 1
  BY <1>1, Zenon DEF Closed
<1> QED
  BY <1>2 DEF Intact, Whole, NoDevice

\* Every step keeps it so.
LEMMA PortStep ==
    ASSUME Intact(pty), [Next]_vars
    PROVE  Intact(pty')
<1>1. CASE Input
  <2> DEFINE starts == fw.started /\ ~wasRacing
             ks == IF fw.started THEN Due(raceMs', Rearmed(starts)) ELSE {}
  <2>1. pty' \in Stricken(pty, ks)
    BY <1>1, Zenon DEF Input
  <2>2. ks \in SUBSET DOMAIN Faults
    BY DEF Due
  <2>3. DOMAIN Faults = 1 .. Len(Faults) /\ Len(Faults) \in Nat
    BY EmulatorConstants
  <2> HIDE DEF ks
  <2>4. IsFiniteSet(ks) /\ ks \in SUBSET Int
    <3>1. IsFiniteSet(DOMAIN Faults) /\ DOMAIN Faults \in SUBSET Int
      BY <2>3, FS_Interval
    <3> QED
      BY <2>2, <3>1, FS_Subset
  <2> QED
    BY <2>1, <2>4, StrickenIsLater DEF AllLater, Later
<1>2. CASE Output
  <2>1. \E frames : pty' \in Pumped(Queue(pty, frames))
    BY <1>2, Zenon DEF Output
  <2> QED
    BY <2>1, QueueIsIntact, PumpedIsIntact
<1>3. CASE pty' = pty
  BY <1>3
<1> QED
  BY <1>1, <1>2, <1>3 DEF Next, Turns, Pass, Send, outVars, vars

\* A terminal is open whole or not at all, whichever step of opening it fails and
\* however many faults a turn applies (PtyPort::create_pty, reopen, close).
THEOREM PortStaysWhole == Spec => []PortIsWhole
<1>1. Init => Intact(pty)
  BY PortInit
<1>2. Intact(pty) /\ [Next]_vars => Intact(pty)'
  BY PortStep DEF Intact, Whole
<1>3. Intact(pty) => PortIsWhole
  BY DEF Intact, Whole, PortIsWhole
<1> QED
  BY <1>1, <1>2, <1>3, PTL DEF Spec

-----------------------------------------------------------------------------
(* The order of what the client reads. *)

\* What has left the box.
Kept == (pty.outbox \o Told(delayed)) \o held

\* The invariant: what is under way is in order, and so will be what the box adds.
PipelineInv ==
    /\ BaseInv(Lanes)
    /\ Intact(pty) /\ pty.credit \in Nat
    /\ IsSeq(pty.outbox) /\ IsSeq(delayed) /\ IsSeq(held)
    /\ Timely(Kept, fw)

\* What has left the box, and what follows it, are sequences.
LEMMA KeptFacts ==
    ASSUME PipelineInv
    PROVE  /\ IsSeq(pty.outbox) /\ IsSeq(Told(delayed)) /\ IsSeq(held) /\ IsSeq(fw.tx)
           /\ IsSeq(Kept)
           /\ Kept \o fw.tx = pty.outbox \o (Told(delayed) \o (held \o fw.tx))
<1> DEFINE o == pty.outbox
           t == Told(delayed)
           x == fw.tx
<1>1. IsSeq(o) /\ IsSeq(t) /\ IsSeq(held) /\ IsSeq(x)
  BY ToldFacts DEF PipelineInv, Timely, InTime
<1> HIDE DEF o, t, x
<1>2. IsSeq(Then(Then(o, t), held))
  BY <1>1, ThenIsSeq
<1>3. Then(Then(Then(o, t), held), x) = Then(o, Then(t, Then(held, x)))
  <2>1. Then(Then(Then(o, t), held), x) = Then(Then(o, t), Then(held, x))
    BY <1>1, ThenIsSeq, ThenAgain
  <2>2. Then(Then(o, t), Then(held, x)) = Then(o, Then(t, Then(held, x)))
    BY <1>1, ThenIsSeq, ThenAgain
  <2> QED
    BY <2>1, <2>2
<1>4. IsSeq(Kept)
  BY <1>2, Zenon DEF Then, Kept, o, t
<1>5. Kept \o fw.tx = pty.outbox \o (Told(delayed) \o (held \o fw.tx))
  BY <1>3, Zenon DEF Then, Kept, o, t, x
<1> QED
  BY <1>1, <1>4, <1>5 DEF o, t, x

\* The emulator starts with nothing under way.
LEMMA PipelineInit ==
    ASSUME Init
    PROVE  PipelineInv
<1>1. BaseInv(Lanes)
  BY BaseInit
<1>2. /\ pty = [Closed EXCEPT !.master = TRUE, !.slave = TRUE, !.device = 1, !.link = 1]
      /\ held = <<>> /\ delayed = <<>> /\ fw = Boot
  BY Zenon DEF Init
<1>3. /\ DOMAIN pty = {"master", "slave", "device", "link", "outbox", "credit", "pumped"}
      /\ pty.slave /\ pty.device = 1 /\ pty.link = 1 /\ pty.outbox = <<>> /\ pty.credit = 0
  BY <1>2, Zenon DEF Closed
<1>4. Intact(pty) /\ pty.credit \in Nat
  BY <1>3 DEF Intact, Whole, NoDevice
<1>5. IsSeq(pty.outbox) /\ IsSeq(delayed) /\ IsSeq(held)
  BY <1>2, <1>3, NoneIsSeq
<1>6. fw.tx = <<>> /\ ~fw.started /\ fw.lastUpdate = 0
  BY <1>2 DEF Boot
<1>7. Kept \o fw.tx = <<>>
  <2>1. Told(<<>>) = <<>>
    BY DEF Told
  <2>2. <<>> \o <<>> = <<>>
    OBVIOUS
  <2> QED
    BY <1>2, <1>3, <1>6, <2>1, <2>2, Zenon DEF Kept
<1>8. Chronicle(Kept \o fw.tx)
  <2> DEFINE q == Kept \o fw.tx
  <2>1. IsSeq(q) /\ DOMAIN q = {}
    BY <1>7, NoneIsSeq, SeqFacts
  <2> HIDE DEF q
  <2>2. Chronicle(q)
    BY <2>1 DEF Chronicle
  <2> QED
    BY <2>2 DEF q
<1>9. Timely(Kept, fw)
  BY <1>6, <1>8, NoneIsSeq DEF Timely, InTime
<1> QED
  BY <1>1, <1>4, <1>5, <1>9 DEF PipelineInv

\* A pass adds to it what the firmware prints.
LEMMA PipelinePass ==
    ASSUME PipelineInv, Pass
    PROVE  PipelineInv'
<1>1. BaseInv(Lanes)'
  <2>1. BaseInv(Lanes)
    BY DEF PipelineInv
  <2>2. \E f : Sampled(fw, f, Pins) /\ Ticked(Lanes, f, fw')
    BY <2>1, PassEffect
  <2> QED
    BY <2>1, <2>2, BasePass
<1>2. UNCHANGED <<pty, delayed, held>>
  BY Zenon DEF Pass, outVars
<1> DEFINE f == [fw EXCEPT !.pin = Pins]
<1>3. fw' = Tick(f)
  BY Zenon DEF Pass, Pins
<1>4. Ready(fw) /\ Just(Lanes, fw.tx) /\ IsBox(fw)
  BY DEF PipelineInv, BaseInv, Ready, Typed
<1>5. Sampled(fw, f, Pins) /\ f.lastUpdate = fw.lastUpdate /\ f.tx = fw.tx
      /\ f.started = fw.started
  <2>1. Sampled(fw, f, Pins)
    BY <1>4, SampleEffect
  <2>2. f.lastUpdate = fw.lastUpdate /\ f.tx = fw.tx /\ f.started = fw.started
    BY <1>4, BoxFields, Zenon
  <2> QED
    BY <2>1, <2>2
<1> HIDE DEF f
<1>6. Ready(f) /\ Just(Lanes, f.tx)
  BY <1>4, <1>5 DEF Ready, Typed, IsBox, Sampled
<1>7. IsSeq(Kept)
  BY KeptFacts
<1>8. Timely(Kept, f)
  <2>1. Timely(Kept, fw)
    BY DEF PipelineInv
  <2>2. ASSUME f.started PROVE fw.started
    BY <1>5, <2>2, Zenon
  <2> QED
    BY <1>5, <2>1, <2>2 DEF Timely, InTime
<1> DEFINE a == Kept
<1>9. Kept' = a
  BY <1>2 DEF Kept, Told
<1> HIDE DEF a
<1>10. Timely(a, fw')
  BY <1>3, <1>6, <1>7, <1>8, TickTimely DEF a
<1>11. Timely(Kept, fw)'
  BY <1>9, <1>10, Zenon DEF Timely, InTime
<1> QED
  BY <1>1, <1>2, <1>11 DEF PipelineInv, Intact, Whole, Told

\* What the rest of a box says of its order.
LEMMA TimelyMoves ==
    ASSUME NEW a, NEW f, Timely(a, f), NEW b, NEW g, IsSeq(g.tx), Chronicle(b \o g.tx),
           \A last : UpTo(a \o f.tx, last) => UpTo(b \o g.tx, last),
           g.lastUpdate = f.lastUpdate, g.started = f.started
    PROVE  Timely(b, g)
<1>1. InTime(b, g)
  BY DEF Timely, InTime
<1>2. ASSUME g.started PROVE UpTo(b \o g.tx, g.lastUpdate)
  <2>1. f.started
    BY <1>2, Zenon
  <2>2. UpTo(a \o f.tx, f.lastUpdate)
    BY <2>1 DEF Timely
  <2> QED
    BY <2>2
<1> QED
  BY <1>1, <1>2 DEF Timely

\* The faults cut its front or add what is no sample.
LEMMA PipelineInput ==
    ASSUME PipelineInv, Input
    PROVE  PipelineInv'
<1>1. BaseInv(Lanes)'
  BY BaseInput DEF PipelineInv
<1>2. /\ DOMAIN fw' = DOMAIN fw
      /\ fw'.tx = fw.tx /\ fw'.lastUpdate = fw.lastUpdate /\ fw'.started = fw.started
  <2>1. IsBox(fw)
    BY DEF PipelineInv, BaseInv, Ready, Typed
  <2>2. fw' = IF pty.master THEN [fw EXCEPT !.rx = @ \o line] ELSE fw
    BY Zenon DEF Input
  <2>3. CASE pty.master
    <3>1. fw' = [fw EXCEPT !.rx = @ \o line]
      BY <2>2, <2>3
    <3> QED
      BY <2>1, <3>1, BoxFields, Zenon
  <2>4. CASE ~pty.master
    BY <2>2, <2>4
  <2> QED
    BY <2>3, <2>4
<1>3. UNCHANGED <<held, delayed>>
  BY Zenon DEF Input
<1>4. Later(pty, pty')
  <2> DEFINE starts == fw.started /\ ~wasRacing
             ks == IF fw.started THEN Due(raceMs', Rearmed(starts)) ELSE {}
  <2>1. pty' \in Stricken(pty, ks)
    BY Zenon DEF Input
  <2>2. ks \in SUBSET DOMAIN Faults
    BY DEF Due
  <2> HIDE DEF ks
  <2>3. DOMAIN Faults = 1 .. Len(Faults) /\ Len(Faults) \in Nat
    BY EmulatorConstants
  <2>4. IsFiniteSet(ks) /\ ks \in SUBSET Int
    <3>1. IsFiniteSet(DOMAIN Faults) /\ DOMAIN Faults \in SUBSET Int
      BY <2>3, FS_Interval
    <3> QED
      BY <2>2, <3>1, FS_Subset
  <2> QED
    BY <2>1, <2>4, StrickenIsLater DEF AllLater, PipelineInv
<1>5. /\ Intact(pty') /\ pty'.credit \in Nat
      /\ LeftOf(pty.outbox, pty'.outbox) /\ IsSeq(pty'.outbox)
  BY <1>4 DEF Later, PipelineInv, LeftOf
<1> DEFINE o == pty.outbox
           o2 == pty'.outbox
           rear == Told(delayed) \o (held \o fw.tx)
<1>6. IsSeq(o) /\ IsSeq(rear) /\ Kept \o fw.tx = o \o rear
  <2>1. IsSeq(held \o fw.tx)
    BY KeptFacts, JoinIsSeq
  <2> QED
    BY <2>1, KeptFacts, JoinIsSeq
<1>7. Chronicle(o \o rear)
  BY <1>6 DEF PipelineInv, Timely, InTime
<1>8. LeftOf(o, o2)
  BY <1>5
<1> HIDE DEF o, o2, rear
<1>9. Chronicle(o2 \o rear) /\ \A last : UpTo(o \o rear, last) => UpTo(o2 \o rear, last)
  BY <1>6, <1>7, <1>8, LeftInOrder
<1> DEFINE b == (o2 \o Told(delayed)) \o held
<1>10. Kept' = b
  BY <1>3 DEF Kept, Told, o2
<1>11. b \o fw.tx = o2 \o rear
  <2> DEFINE t == Told(delayed)
             x == fw.tx
  <2>1. IsSeq(o2) /\ IsSeq(t) /\ IsSeq(held) /\ IsSeq(x)
    BY <1>5, KeptFacts DEF o2
  <2> HIDE DEF t, x
  <2>2. Then(Then(Then(o2, t), held), x) = Then(Then(o2, t), Then(held, x))
    BY <2>1, ThenIsSeq, ThenAgain
  <2>3. Then(Then(o2, t), Then(held, x)) = Then(o2, Then(t, Then(held, x)))
    BY <2>1, ThenIsSeq, ThenAgain
  <2>4. Then(Then(Then(o2, t), held), x) = Then(o2, Then(t, Then(held, x)))
    BY <2>2, <2>3
  <2> QED
    BY <2>4, Zenon DEF Then, t, x, rear
<1>12. Timely(b, fw')
  <2>1. Timely(Kept, fw) /\ IsSeq(fw'.tx)
    BY <1>2, KeptFacts DEF PipelineInv
  <2>2. b \o fw'.tx = o2 \o rear
    BY <1>2, <1>11
  <2> HIDE DEF b
  <2>3. Chronicle(b \o fw'.tx)
    BY <1>9, <2>2
  <2>4. \A last : UpTo(Kept \o fw.tx, last) => UpTo(b \o fw'.tx, last)
    BY <1>6, <1>9, <2>2
  <2> QED
    BY <1>2, <2>1, <2>3, <2>4, TimelyMoves
<1> HIDE DEF b
<1>13. Timely(Kept, fw)'
  BY <1>10, <1>12, Zenon DEF Timely, InTime
<1> QED
  BY <1>1, <1>3, <1>5, <1>13 DEF PipelineInv, Intact, Whole

\* What leaves a queue enters the next behind what was there.
LEMMA PipelineOutput ==
    ASSUME PipelineInv, Output
    PROVE  PipelineInv'
<1>1. BaseInv(Lanes)'
  BY BaseOutput DEF PipelineInv
<1> DEFINE out == Released(fw.tx)
           queue == Entered(delayed, out)
           p == Queue(pty, Leaving(queue))
<1>2. /\ fw' = Elapse([fw EXCEPT !.tx = <<>>])
      /\ held' = IF out = <<>> THEN held \o fw.tx ELSE <<>>
      /\ delayed' = Staying(queue)
      /\ pty' \in Pumped(p)
  BY Zenon DEF Output, Entered, Leaving, Staying
<1>3. fw'.tx = <<>> /\ fw'.lastUpdate = fw.lastUpdate /\ fw'.started = fw.started
  <2> DEFINE h == [fw EXCEPT !.tx = <<>>]
  <2>1. IsBox(fw)
    BY DEF PipelineInv, BaseInv, Ready, Typed
  <2>2. DOMAIN h = DOMAIN fw /\ h.tx = <<>> /\ h.lastUpdate = fw.lastUpdate
        /\ h.started = fw.started
    BY <2>1, BoxFields, Zenon
  <2> HIDE DEF h
  <2>3. IsBox(h)
    BY <2>1, <2>2 DEF IsBox
  <2> DEFINE g == Elapse(h)
  <2>4. g.tx = h.tx /\ g.lastUpdate = h.lastUpdate /\ g.started = h.started
    BY <2>3, BoxFields, Zenon DEF Elapse
  <2>5. fw' = g
    BY <1>2 DEF h
  <2> HIDE DEF g
  <2> QED
    BY <2>2, <2>4, <2>5
<1>4. IsSeq(out) /\ IsSeq(held') /\ out \o held' = held \o fw.tx
  BY <1>2, KeptFacts, FreezeInOrder
<1> HIDE DEF out
<1>5. /\ IsSeq(delayed') /\ IsSeq(Leaving(queue))
      /\ Leaving(queue) \o Told(Staying(queue)) = Told(delayed) \o out
  <2>1. IsSeq(delayed)
    BY DEF PipelineInv
  <2> QED
    BY <1>2, <1>4, <2>1, QueueInOrder
<1> DEFINE gone == Leaving(queue)
           o == pty.outbox
           t == Told(delayed)
           t2 == Told(Staying(queue))
           x == fw.tx
           h2 == held'
<1>6. IsSeq(o) /\ IsSeq(t) /\ IsSeq(held) /\ IsSeq(x) /\ IsSeq(gone) /\ IsSeq(t2) /\ IsSeq(h2)
  BY <1>2, <1>4, <1>5, KeptFacts, ToldFacts
<1>7. Intact(p) /\ p.outbox = o \o gone /\ p.credit \in Nat
  BY QueueFacts DEF PipelineInv
<1>8. Later(p, pty')
  BY <1>2, <1>7, PumpedIsLater
<1>9. gone \o t2 = t \o out /\ out \o h2 = held \o x
  BY <1>4, <1>5
<1>10. t2 = Told(delayed')
  BY <1>2
<1>11. Kept \o fw.tx = ((o \o t) \o held) \o x
  BY Zenon DEF Kept
<1> HIDE DEF gone, o, t, t2, x, h2, p
<1>12. (o \o gone) \o (t2 \o h2) = ((o \o t) \o held) \o x
  <2>1. Then(gone, t2) = Then(t, out) /\ Then(out, h2) = Then(held, x)
    BY <1>9 DEF Then
  <2>2. Then(Then(o, gone), Then(t2, h2)) = Then(Then(Then(o, t), held), x)
    BY <1>4, <1>6, <2>1, AllInOrder
  <2> QED
    BY <2>2, Zenon DEF Then
<1> DEFINE s == o \o gone
           b == t2 \o h2
           o2 == pty'.outbox
<1>13. IsSeq(s) /\ IsSeq(b)
  BY <1>6, JoinIsSeq
<1>14. LeftOf(s, o2) /\ IsSeq(o2) /\ Intact(pty') /\ pty'.credit \in Nat
  <2>1. IsSeq(p.outbox)
    BY <1>7, <1>13
  <2>2. LeftOf(p.outbox, o2) /\ Intact(pty') /\ pty'.credit \in Nat
    BY <1>7, <1>8, <2>1 DEF Later
  <2> QED
    BY <1>7, <2>2 DEF LeftOf
<1>15. Kept \o fw.tx = s \o b
  BY <1>11, <1>12
<1>16. Chronicle(s \o b)
  BY <1>15 DEF PipelineInv, Timely, InTime
<1> HIDE DEF s, b, o2
<1>17. Chronicle(o2 \o b) /\ \A last : UpTo(s \o b, last) => UpTo(o2 \o b, last)
  BY <1>13, <1>14, <1>16, LeftInOrder
<1> DEFINE k == (o2 \o t2) \o h2
<1>18. Kept' = k
  BY <1>10 DEF Kept, Told, o2, h2
<1>19. k \o <<>> = o2 \o b
  <2>1. Then(Then(o2, t2), h2) = Then(o2, Then(t2, h2))
    BY <1>6, <1>14, ThenAgain
  <2>2. k = o2 \o b
    BY <2>1, Zenon DEF Then, b
  <2>3. IsSeq(o2 \o b)
    BY <1>13, <1>14, JoinIsSeq
  <2> HIDE DEF k
  <2>4. k \in Seq(Range(k))
    BY <2>2, <2>3 DEF IsSeq
  <2>5. k \o <<>> = k
    BY <2>4
  <2> QED
    BY <2>2, <2>5
<1>20. Timely(k, fw')
  <2>1. Timely(Kept, fw) /\ IsSeq(fw'.tx)
    BY <1>3, NoneIsSeq DEF PipelineInv
  <2> HIDE DEF k
  <2>2. k \o fw'.tx = o2 \o b
    BY <1>3, <1>19
  <2>3. Chronicle(k \o fw'.tx)
    BY <1>17, <2>2
  <2>4. \A last : UpTo(Kept \o fw.tx, last) => UpTo(k \o fw'.tx, last)
    BY <1>15, <1>17, <2>2
  <2> QED
    BY <1>3, <2>1, <2>3, <2>4, TimelyMoves
<1> HIDE DEF k
<1>21. Timely(Kept, fw)'
  BY <1>18, <1>20, Zenon DEF Timely, InTime
<1>22. IsSeq(held')
  BY <1>6 DEF h2
<1> QED
  BY <1>1, <1>5, <1>14, <1>21, <1>22 DEF PipelineInv, Intact, Whole, o2

\* A command of the client changes nothing of it.
LEMMA PipelineStill ==
    ASSUME PipelineInv, UNCHANGED <<fw, riderVars, outVars, step>>
    PROVE  PipelineInv'
<1>1. BaseInv(Lanes)'
  BY BaseStill DEF PipelineInv
<1>2. UNCHANGED <<fw, pty, delayed, held>>
  BY DEF outVars
<1> QED
  BY <1>1, <1>2 DEF PipelineInv, Intact, Whole, Kept, Told, Timely, InTime

\* No freeze, latency, cut, lost output or fault puts a sample before one of its race
\* that is older (main, PtyPort::pump_tx, printRacerUpdate).
THEOREM PipelineStaysInOrder == Spec => []PipelineInOrder
<1>1. Init => PipelineInv
  BY PipelineInit
<1>2. PipelineInv /\ [Next]_vars => PipelineInv'
  <2> SUFFICES ASSUME PipelineInv, [Next]_vars PROVE PipelineInv'
    OBVIOUS
  <2>1. CASE Input
    BY <2>1, PipelineInput
  <2>2. CASE Pass
    BY <2>2, PipelinePass
  <2>3. CASE Output
    BY <2>3, PipelineOutput
  <2>4. CASE UNCHANGED <<fw, riderVars, outVars, step>>
    BY <2>4, PipelineStill
  <2> QED
    BY <2>1, <2>2, <2>3, <2>4 DEF Next, Turns, Send, vars
<1>3. PipelineInv => PipelineInOrder
  <2> SUFFICES ASSUME PipelineInv PROVE PipelineInOrder
    OBVIOUS
  <2>1. Pipeline = Kept \o fw.tx
    BY DEF Pipeline, Kept
  <2>2. Chronicle(Pipeline)
    BY <2>1 DEF PipelineInv, Timely, InTime
  <2> QED
    BY <2>2 DEF PipelineInOrder, Chronicle
<1> QED
  BY <1>1, <1>2, <1>3, PTL DEF Spec

-----------------------------------------------------------------------------
(* The race is the one the client asked for. *)

\* A duration in seconds whose milliseconds, negative in an int, are never reached.
Endless(secs) == secs \in Int /\ Mul(secs, MsPerSecond) < 0

\* The code's numbers: the buffer the emulator guards (64) holds the one of the
\* firmware (8), a race lasts less than 49 days, and a new box has a duration whose
\* product by 1000 is negative in 16 bits (60 s).
SmallNumbers ==
    /\ BuffGuarded >= BuffSize
    /\ MaxClock <= LongSize - IntSize
    /\ Endless(DefaultSeconds)

Digits == DOMAIN Digit

\* An argument the driver lets through, for a box last asked for a length a.
IsArgument(f, kind, arg, a) ==
    /\ arg \in Seq(Digits)
    /\ Len(arg) < BuffSize
    /\ Decimal(arg) \in 1 .. IntMax
    /\ IF kind = "length" THEN Decimal(arg) = a
                          ELSE f.length = a /\ Endless(Decimal(arg))

Heads == {<<"length", "l">>, <<"time", "t">>}

\* The bytes rx end a command, or are one without an argument.
Brief(f, rx, a) ==
    /\ f.receiving = "none" /\ f.length = a
    /\ rx = <<>> \/ rx = <<"\n">> \/ \E c \in Bare : rx = <<c, "\n">>

\* They are one with an argument.
WithArgument(f, rx, a) ==
    /\ f.receiving = "none"
    /\ \E h \in Heads, arg \in Seq(Digits) :
           IsArgument(f, h[1], arg, a) /\ rx = <<h[2]>> \o Append(arg, "\n")

\* They are the rest of an argument whose front has been received.
InArgument(f, rx, a) ==
    \E rest \in Seq(Digits) :
        /\ f.receiving \in {"length", "time"}
        /\ f.buff \in Seq(Digits)
        /\ IsArgument(f, f.receiving, f.buff \o rest, a)
        /\ rx = Append(rest, "\n")

\* A box to which the bytes rx are to come, and the length a it was last asked for.
Follows(f, rx, a) ==
    /\ ~f.overflow
    /\ Endless(f.seconds)
    /\ Brief(f, rx, a) \/ WithArgument(f, rx, a) \/ InArgument(f, rx, a)

\* Nothing of what the client sends is changed on the way from f to g.
Untouched(f, g) ==
    /\ DOMAIN g = DOMAIN f
    /\ g.rx = f.rx /\ g.receiving = f.receiving /\ g.buff = f.buff
    /\ g.overflow = f.overflow /\ g.length = f.length /\ g.seconds = f.seconds
    /\ g.distance = f.distance
    /\ g.clock \in {0, f.clock}

\* What follows keeps its meaning.
LEMMA UntouchedFollows ==
    ASSUME NEW f, NEW g, Untouched(f, g), NEW rx, NEW a, Follows(f, rx, a)
    PROVE  Follows(g, rx, a)
  BY DEF Untouched, Follows, Brief, WithArgument, InArgument, IsArgument

\* The countdown touches none of it.
LEMMA CountdownUntouched ==
    ASSUME NEW f, IsBox(f)
    PROVE  Untouched(f, Countdown(f)) /\ (f.started => Countdown(f).started)
<1> DEFINE guilty == {i \in Pedalled(f) : f.ticks[i] + 1 = FalseStartTicks}
           h == [f EXCEPT !.values = f.pin, !.previous = f.pin,
                          !.ticks = [i \in Lanes |-> IF i \in Pedalled(f) THEN @[i] + 1 ELSE @[i]],
                          !.count = NextCount(f),
                          !.countAge = IF CountIsDue(f) THEN 0 ELSE @]
           fs == [k \in DOMAIN Ascending(guilty) |-> <<"FS", Ascending(guilty)[k]>>]
           cd == IF CountIsDue(f) THEN <<<<"CD", NextCount(f)>>>> ELSE <<>>
           told == [h EXCEPT !.tx = @ \o (fs \o cd)]
           g == Countdown(f)
<1>1. CASE f.starting
  <2>1. g = IF NextCount(f) = 0 THEN RaceStart(told) ELSE told
    BY <1>1, Zenon DEF Countdown, Say, ForEach, CountIsDue, NextCount
  <2> HIDE DEF fs, cd, g
  <2>2. Untouched(f, h) /\ h.started = f.started
    BY BoxFields, Zenon DEF Untouched
  <2> HIDE DEF h
  <2>3. IsBox(h)
    BY <2>2 DEF Untouched, IsBox
  <2>4. Untouched(h, told) /\ told.started = h.started
    BY <2>3, BoxFields, Zenon DEF Untouched
  <2> HIDE DEF told
  <2>5. IsBox(told)
    BY <2>3, <2>4 DEF Untouched, IsBox
  <2>6. Untouched(told, RaceStart(told)) /\ RaceStart(told).started
    BY <2>5, BoxFields, Zenon DEF RaceStart, Untouched
  <2>7. Untouched(f, g) /\ (f.started => g.started)
    BY <2>1, <2>2, <2>4, <2>6 DEF Untouched
  <2> QED
    BY <2>7 DEF g
<1>2. CASE ~f.starting
  <2>1. Countdown(f) = f
    BY <1>2, Zenon DEF Countdown
  <2> QED
    BY <2>1 DEF Untouched
<1> QED
  BY <1>1, <1>2

\* Printing touches none of it.
LEMMA SayUntouched ==
    ASSUME NEW f, IsBox(f), NEW frames
    PROVE  Untouched(f, Say(f, frames)) /\ Say(f, frames).started = f.started
  BY BoxFields, Zenon DEF Say, Untouched

\* A race touches none of it, and one against time ends after its limit.
LEMMA RaceUntouched ==
    ASSUME NEW f, IsBox(f)
    PROVE  /\ Untouched(f, Race(f))
           /\ f.started /\ ~Race(f).started /\ ~f.distance =>
                  GtInt(f.clock, Mul(f.seconds, MsPerSecond))
<1>1. CASE ~f.started
  <2>1. Race(f) = f
    BY <1>1, Zenon DEF Race
  <2> QED
    BY <1>1, <2>1 DEF Untouched
<1>2. CASE f.started
  <2> DEFINE u == UpdateRacerTicks(f)
             limit == Mul(u.seconds, MsPerSecond)
             c == IF u.distance THEN CheckDistanceBased(u) ELSE CheckTimeBased(u)
             g == Race(f)
  <2>1. g = PrintRacerUpdate(c)
    BY <1>2, Zenon DEF Race
  <2>2. Untouched(f, u) /\ u.started = f.started /\ u.clock = f.clock
    BY BoxFields, Zenon DEF UpdateRacerTicks, Untouched
  <2>3. IsBox(u)
    BY <2>2 DEF Untouched, IsBox
  <2> HIDE DEF u, g
  <2>4. ASSUME u.distance
        PROVE  Untouched(u, c)
    <3> DEFINE arriving == {i \in Lanes : u.finish[i] = 0 /\ GeInt(u.ticks[i], u.length)}
               finish == [i \in Lanes |-> IF i \in arriving THEN u.clock ELSE u.finish[i]]
               finished == \A i \in Lanes : finish[i] # 0
               h == [u EXCEPT !.finish = finish,
                              !.starting = @ /\ ~finished, !.started = @ /\ ~finished]
               frames == ForEach(arriving, LAMBDA i : <<"F", i, u.clock>>)
    <3>1. c = Say(h, frames)
      BY <2>4, Zenon DEF CheckDistanceBased
    <3> HIDE DEF finish, finished, frames
    <3>2. Untouched(u, h)
      BY <2>3, BoxFields, Zenon DEF Untouched
    <3> HIDE DEF h
    <3>3. IsBox(h)
      BY <2>3, <3>2 DEF Untouched, IsBox
    <3>4. Untouched(h, c)
      BY <3>1, <3>3, SayUntouched, Zenon
    <3> HIDE DEF c
    <3>5. Untouched(u, c)
      BY <3>2, <3>4 DEF Untouched
    <3> QED
      BY <3>5
  <2>5. ASSUME ~u.distance
        PROVE  Untouched(u, c) /\ (u.started /\ ~c.started => GtInt(u.clock, limit))
    <3> DEFINE h == [u EXCEPT !.starting = FALSE, !.started = FALSE]
               frames == ForEach(Lanes, LAMBDA i : <<"F", i, limit>>)
    <3>1. c = IF GtInt(u.clock, limit) THEN Say(h, frames) ELSE u
      BY <2>5, Zenon DEF CheckTimeBased
    <3> HIDE DEF frames
    <3>2. Untouched(u, h)
      BY <2>3, BoxFields, Zenon DEF Untouched
    <3> HIDE DEF h
    <3>3. IsBox(h)
      BY <2>3, <3>2 DEF Untouched, IsBox
    <3>4. Untouched(h, Say(h, frames))
      BY <3>3, SayUntouched, Zenon
    <3> HIDE DEF c
    <3>5. Untouched(u, c) /\ (u.started /\ ~c.started => GtInt(u.clock, limit))
      BY <3>1, <3>2, <3>4 DEF Untouched
    <3> QED
      BY <3>5
  <2>6. Untouched(u, c) /\ (u.started /\ ~c.started /\ ~u.distance => GtInt(u.clock, limit))
    BY <2>4, <2>5
  <2> HIDE DEF c
  <2>7. IsBox(c)
    BY <2>3, <2>6 DEF Untouched, IsBox
  <2>8. Untouched(c, g) /\ g.started = c.started
    <3> DEFINE h == [c EXCEPT !.lastUpdate = c.clock]
               frames == <<<<"R", c.ticks, c.clock>>>>
    <3>1. g = Say(h, frames) \/ g = c
      BY <2>1, Zenon DEF PrintRacerUpdate
    <3> HIDE DEF frames
    <3>2. Untouched(c, h) /\ h.started = c.started
      BY <2>7, BoxFields, Zenon DEF Untouched
    <3> HIDE DEF h
    <3>3. IsBox(h)
      BY <2>7, <3>2 DEF Untouched, IsBox
    <3>4. Untouched(h, Say(h, frames)) /\ Say(h, frames).started = h.started
      BY <3>3, SayUntouched, Zenon
    <3>5. Untouched(c, c)
      BY DEF Untouched
    <3> QED
      BY <3>1, <3>2, <3>4, <3>5 DEF Untouched
  <2>9. Untouched(f, g)
    BY <2>2, <2>6, <2>8 DEF Untouched
  <2>10. f.started /\ ~g.started /\ ~f.distance => GtInt(f.clock, Mul(f.seconds, MsPerSecond))
    BY <2>2, <2>6, <2>8 DEF Untouched
  <2> QED
    BY <2>9, <2>10 DEF g
<1> QED
  BY <1>1, <1>2

\* Neither does a millisecond.
LEMMA ElapseUntouched ==
    ASSUME NEW f, IsBox(f), f.clock \in 0 .. MaxClock
    PROVE  LET g == Elapse([f EXCEPT !.tx = <<>>]) IN
           /\ DOMAIN g = DOMAIN f
           /\ g.rx = f.rx /\ g.receiving = f.receiving /\ g.buff = f.buff
           /\ g.overflow = f.overflow /\ g.length = f.length /\ g.seconds = f.seconds
           /\ g.distance = f.distance /\ g.started = f.started
           /\ g.clock \in 0 .. MaxClock
<1> DEFINE h == [f EXCEPT !.tx = <<>>]
           g == Elapse(h)
<1>1. Untouched(f, h) /\ h.started = f.started /\ h.clock = f.clock
  BY BoxFields, Zenon DEF Untouched
<1> HIDE DEF h
<1>2. IsBox(h)
  BY <1>1 DEF Untouched, IsBox
<1>3. /\ DOMAIN g = DOMAIN h
      /\ g.rx = h.rx /\ g.receiving = h.receiving /\ g.buff = h.buff
      /\ g.overflow = h.overflow /\ g.length = h.length /\ g.seconds = h.seconds
      /\ g.distance = h.distance /\ g.started = h.started
      /\ g.clock = IF h.started /\ h.clock < MaxClock THEN h.clock + 1 ELSE h.clock
  BY <1>2, BoxFields, Zenon DEF Elapse
<1> HIDE DEF g
<1>4. g.clock \in 0 .. MaxClock
  BY <1>1, <1>3, ConstantTypes DEF ConstantRanges
<1> QED
  BY <1>1, <1>3, <1>4 DEF Untouched, g, h

-----------------------------------------------------------------------------
(* Bytes. *)

\* No digit ends a line.
LEMMA DigitsAreBytes == \A c \in Digits : IsDigit(c) /\ c # "\n"
  BY DEF Digits, IsDigit, Digit

\* The rest of an argument, byte by byte.
LEMMA RestOfArgument ==
    ASSUME NEW rest \in Seq(Digits), NEW rx, rx = Append(rest, "\n")
    PROVE  /\ rx # <<>>
           /\ rest = <<>> => Head(rx) = "\n" /\ Tail(rx) = <<>>
           /\ rest # <<>> =>
                  /\ Head(rx) = Head(rest) /\ Head(rest) \in Digits
                  /\ Tail(rest) \in Seq(Digits)
                  /\ Tail(rx) = Append(Tail(rest), "\n")
<1> DEFINE S == Digits \cup {"\n"}
<1>1. rest \in Seq(S) /\ "\n" \in S
  <2>1. Digits \subseteq S
    OBVIOUS
  <2> QED
    BY <2>1
<1> HIDE DEF S
<1>2. rx # <<>>
  BY <1>1
<1>3. rest = <<>> => Head(rx) = "\n" /\ Tail(rx) = <<>>
  BY <1>1
<1>4. rest # <<>> => Head(rx) = Head(rest) /\ Head(rest) \in Digits /\ Tail(rest) \in Seq(Digits)
  BY <1>1
<1>5. rest # <<>> => Tail(rx) = Append(Tail(rest), "\n")
  BY <1>1
<1> QED
  BY <1>2, <1>3, <1>4, <1>5

\* One more byte of it.
LEMMA OneByteMore ==
    ASSUME NEW buff \in Seq(Digits), NEW rest \in Seq(Digits), rest # <<>>
    PROVE  /\ Append(buff, Head(rest)) \in Seq(Digits)
           /\ Append(buff, Head(rest)) \o Tail(rest) = buff \o rest
           /\ Len(buff) < Len(buff \o rest)
<1>1. Head(rest) \in Digits /\ Tail(rest) \in Seq(Digits)
  OBVIOUS
<1>2. Append(buff, Head(rest)) \o Tail(rest) = buff \o rest
  BY <1>1
<1> QED
  BY <1>1, <1>2

\* A command with an argument.
LEMMA HeadOfCommand ==
    ASSUME NEW arg \in Seq(Digits), NEW c \in {"l", "t"}, NEW rx, rx = <<c>> \o Append(arg, "\n")
    PROVE  rx # <<>> /\ Head(rx) = c /\ Tail(rx) = Append(arg, "\n")
<1> DEFINE S == Digits \cup {"\n", "l", "t"}
<1>1. arg \in Seq(S) /\ "\n" \in S /\ c \in S
  <2>1. Digits \subseteq S
    OBVIOUS
  <2> QED
    BY <2>1
<1> HIDE DEF S
<1> DEFINE s == Append(arg, "\n")
<1>2. s \in Seq(S)
  BY <1>1
<1> HIDE DEF s
<1>3. rx = <<c>> \o s
  BY DEF s
<1>4. rx # <<>> /\ Head(rx) = c /\ Tail(rx) = s
  BY <1>1, <1>2, <1>3
<1> QED
  BY <1>4 DEF s

\* A command without.
LEMMA BareCommand ==
    ASSUME NEW c, NEW rx, rx = <<c, "\n">>
    PROVE  rx # <<>> /\ Head(rx) = c /\ Tail(rx) = <<"\n">>
  OBVIOUS

\* All digits, in the range of an int: what the box reads is the number sent.
LEMMA AtoiIsDecimal ==
    ASSUME NEW arg \in Seq(Digits), Decimal(arg) \in 1 .. IntMax
    PROVE  Atoi(arg) = Decimal(arg)
<1>1. {i \in 1 .. Len(arg) : ~IsDigit(arg[i])} = {}
  BY DigitsAreBytes
<1>2. Atoi(arg) = ToInt(Decimal(arg))
  <2> DEFINE I == {i \in 1 .. Len(arg) : ~IsDigit(arg[i])}
             n == IF I # {} THEN Min(I) ELSE 0
  <2>1. Atoi(arg) = ToInt(Decimal(IF n = 0 THEN arg ELSE SubSeq(arg, 1, n - 1)))
    BY Zenon DEF Atoi, SelectInSeq
  <2>2. n = 0
    BY <1>1
  <2> HIDE DEF n
  <2> QED
    BY <2>1, <2>2
<1> DEFINE v == Decimal(arg)
<1>3. v \in Int /\ 0 < v /\ v <= IntMax
  BY AvrConstants DEF IntMax
<1> HIDE DEF v
<1>4. v % IntSize = v
  BY <1>3, AvrConstants DEF IntMax
<1>5. ToInt(v) = v
  <2>1. IntMax \in Int
    BY AvrConstants DEF IntMax
  <2>2. ~(v > IntMax)
    BY <1>3, <2>1
  <2> QED
    BY <1>4, <2>2, Zenon DEF ToInt
<1> QED
  BY <1>2, <1>5 DEF v

-----------------------------------------------------------------------------
(* A byte of the client. *)

\* The fields no command but one of a length or a duration touches, and the mode.
Keeps(f, g) ==
    /\ DOMAIN g = DOMAIN f
    /\ g.rx = f.rx /\ g.overflow = f.overflow
    /\ g.length = f.length /\ g.seconds = f.seconds
    /\ g.clock = f.clock

\* A command of one letter keeps lengths and arguments; one with an argument begins
\* to receive it.
LEMMA ObeyKeeps ==
    ASSUME NEW f, IsBox(f), NEW c \in Bare \cup {"l", "t"}
    PROVE  LET g == Obey(f, c) IN
           /\ Keeps(f, g)
           /\ c \in Bare => g.receiving = f.receiving /\ g.buff = f.buff
           /\ c = "l" => g.receiving = "length" /\ g.buff = <<>>
           /\ c = "t" => g.receiving = "time" /\ g.buff = <<>>
           /\ c \notin {"g", "s"} => g.started = f.started
<1> DEFINE g == Obey(f, c)
<1>1. CASE c = "l"
  <2>1. g = [f EXCEPT !.receiving = "length", !.buff = <<>>]
    BY <1>1, Zenon DEF Obey
  <2> QED
    BY <1>1, <2>1, BoxFields, Zenon DEF Keeps, Bare
<1>2. CASE c = "t"
  <2>1. g = [f EXCEPT !.receiving = "time", !.buff = <<>>]
    BY <1>2, Zenon DEF Obey
  <2> QED
    BY <1>2, <2>1, BoxFields, Zenon DEF Keeps, Bare
<1>3. CASE c = "v"
  <2>1. g = [f EXCEPT !.tx = @ \o <<<<"V">>>>]
    BY <1>3, Zenon DEF Obey, Say
  <2> QED
    BY <1>3, <2>1, BoxFields, Zenon DEF Keeps
<1>4. CASE c = "g"
  <2>1. g = CountAgain(f)
    BY <1>4, Zenon DEF Obey
  <2> QED
    BY <1>4, <2>1, BoxFields, Zenon DEF Keeps, CountAgain
<1>5. CASE c = "m"
  <2> DEFINE h == [f EXCEPT !.mock = ~@]
             frames == <<<<"M", ~f.mock>>>>
  <2>1. g = Say(h, frames)
    BY <1>5, Zenon DEF Obey
  <2> HIDE DEF frames, g
  <2>2. Untouched(f, h) /\ h.started = f.started /\ h.clock = f.clock
    BY BoxFields, Zenon DEF Untouched
  <2> HIDE DEF h
  <2>3. IsBox(h)
    BY <2>2 DEF Untouched, IsBox
  <2>4. Untouched(h, g) /\ g.started = h.started /\ g.clock = h.clock
    BY <2>1, <2>3, BoxFields, Zenon DEF Say, Untouched
  <2>5. Keeps(f, g) /\ g.receiving = f.receiving /\ g.buff = f.buff /\ g.started = f.started
    BY <2>2, <2>4 DEF Keeps, Untouched
  <2> QED
    BY <1>5, <2>5 DEF g
<1>6. CASE c = "s"
  <2>1. g = [f EXCEPT !.started = FALSE, !.starting = FALSE]
    BY <1>6, Zenon DEF Obey
  <2> QED
    BY <1>6, <2>1, BoxFields, Zenon DEF Keeps
<1>7. CASE c = "x"
  <2>1. g = [f EXCEPT !.distance = FALSE]
    BY <1>7, Zenon DEF Obey
  <2> QED
    BY <1>7, <2>1, BoxFields, Zenon DEF Keeps
<1>8. CASE c = "d"
  <2>1. g = [f EXCEPT !.distance = TRUE]
    BY <1>8, Zenon DEF Obey
  <2> QED
    BY <1>8, <2>1, BoxFields, Zenon DEF Keeps
<1> QED
  BY <1>1, <1>2, <1>3, <1>4, <1>5, <1>6, <1>7, <1>8 DEF Bare

\* What one byte makes of a box that follows its client.
Heard(f, g, a) ==
    /\ DOMAIN g = DOMAIN f
    /\ g.clock = f.clock
    /\ Follows(g, g.rx, a)
    /\ f.started /\ ~g.started => f.rx # <<>> /\ Head(f.rx) \in {"s", "g"}

\* checkSerial goes on following.
LEMMA SerialFollows ==
    ASSUME SmallNumbers, NEW f, IsBox(f), NEW a, Follows(f, f.rx, a)
    PROVE  Heard(f, CheckSerial(f), a)
<1> DEFINE c == Head(f.rx)
           h == [f EXCEPT !.rx = Tail(@)]
           g == CheckSerial(f)
<1>1. ASSUME f.rx = <<>> PROVE Heard(f, g, a)
  <2>1. g = f
    BY <1>1, Zenon DEF CheckSerial
  <2> HIDE DEF g
  <2> QED
    BY <2>1 DEF Heard
<1>2. ASSUME f.rx # <<>>
      PROVE  g = IF c = "\n" THEN EndOfLine(h)
                 ELSE IF h.receiving # "none" THEN Receive(h, c) ELSE Obey(h, c)
  BY <1>2, BoxFields, Zenon DEF CheckSerial
<1>3. /\ DOMAIN h = DOMAIN f /\ h.rx = Tail(f.rx)
      /\ h.receiving = f.receiving /\ h.buff = f.buff /\ h.overflow = f.overflow
      /\ h.length = f.length /\ h.seconds = f.seconds /\ h.distance = f.distance
      /\ h.clock = f.clock /\ h.started = f.started
  BY BoxFields, Zenon
<1> HIDE DEF h, g
<1>4. IsBox(h)
  BY <1>3 DEF IsBox
<1>5. ~f.overflow /\ Endless(f.seconds)
  BY DEF Follows
<1>6. ASSUME Brief(f, f.rx, a), f.rx # <<>> PROVE Heard(f, g, a)
  <2>1. CASE f.rx = <<"\n">>
    <3>1. c = "\n" /\ Tail(f.rx) = <<>>
      BY <2>1
    <3>2. g = h
      <4>1. g = EndOfLine(h)
        BY <1>2, <1>6, <3>1
      <4>2. h.receiving = "none"
        BY <1>3, <1>6 DEF Brief
      <4> QED
        BY <4>1, <4>2, Zenon DEF EndOfLine
    <3> QED
      BY <1>3, <1>5, <1>6, <3>1, <3>2 DEF Heard, Follows, Brief
  <2>2. ASSUME NEW b \in Bare, f.rx = <<b, "\n">> PROVE Heard(f, g, a)
    <3>1. c = b /\ Tail(f.rx) = <<"\n">>
      BY <2>2, BareCommand
    <3>2. b # "\n"
      BY DEF Bare
    <3>3. h.receiving = "none" /\ h.length = a
      BY <1>3, <1>6 DEF Brief
    <3>4. g = Obey(h, b)
      BY <1>2, <1>6, <3>1, <3>2, <3>3
    <3>5. /\ Keeps(h, g) /\ g.receiving = h.receiving
          /\ b \notin {"g", "s"} => g.started = h.started
      BY <1>4, <3>4, ObeyKeeps
    <3>6. Follows(g, g.rx, a)
      BY <1>3, <1>5, <3>1, <3>3, <3>5 DEF Follows, Brief, Keeps
    <3> HIDE DEF c
    <3> QED
      BY <1>3, <1>6, <3>1, <3>5, <3>6 DEF Heard, Keeps, c
  <2> QED
    BY <1>6, <2>1, <2>2 DEF Brief
<1>7. ASSUME WithArgument(f, f.rx, a) PROVE Heard(f, g, a)
  <2>1. PICK k \in Heads, arg \in Seq(Digits) :
            IsArgument(f, k[1], arg, a) /\ f.rx = <<k[2]>> \o Append(arg, "\n")
    BY <1>7, Zenon DEF WithArgument
  <2>2. k[2] \in {"l", "t"} /\ k[1] \in {"length", "time"} /\ (k[2] = "l" <=> k[1] = "length")
    BY DEF Heads
  <2>3. f.rx # <<>> /\ c = k[2] /\ Tail(f.rx) = Append(arg, "\n")
    BY <2>1, <2>2, HeadOfCommand
  <2>4. k[2] # "\n"
    BY <2>2
  <2>5. g = Obey(h, k[2])
    BY <1>2, <1>3, <1>7, <2>3, <2>4 DEF WithArgument
  <2>6. Keeps(h, g) /\ g.receiving = k[1] /\ g.buff = <<>> /\ g.started = h.started
    BY <1>4, <2>2, <2>5, ObeyKeeps
  <2>7. <<>> \o arg = arg /\ <<>> \in Seq(Digits)
    OBVIOUS
  <2>8. InArgument(g, g.rx, a)
    BY <1>3, <2>1, <2>2, <2>3, <2>6, <2>7 DEF InArgument, Keeps, IsArgument
  <2> QED
    BY <1>3, <1>5, <2>6, <2>8 DEF Heard, Follows, Keeps
<1>8. ASSUME InArgument(f, f.rx, a) PROVE Heard(f, g, a)
  <2>1. PICK rest \in Seq(Digits) :
            /\ f.receiving \in {"length", "time"}
            /\ f.buff \in Seq(Digits)
            /\ IsArgument(f, f.receiving, f.buff \o rest, a)
            /\ f.rx = Append(rest, "\n")
    BY <1>8, Zenon DEF InArgument
  <2>2. f.rx # <<>>
    BY <2>1, RestOfArgument
  <2>3. ASSUME rest = <<>> PROVE Heard(f, g, a)
    <3>1. c = "\n" /\ Tail(f.rx) = <<>>
      BY <2>1, <2>3, RestOfArgument
    <3>2. g = EndOfLine(h)
      BY <1>2, <2>2, <3>1
    <3>3. f.buff \o rest = f.buff
      BY <2>1, <2>3
    <3> DEFINE v == Atoi(h.buff)
    <3>4. v = Decimal(f.buff)
      BY <1>3, <2>1, <3>3, AtoiIsDecimal DEF IsArgument
    <3> HIDE DEF v
    <3>5. CASE f.receiving = "length"
      <4> DEFINE m == [h EXCEPT !.receiving = "none", !.length = v]
                 frames == <<<<"L", v>>>>
      <4>1. g = Say(m, frames)
        BY <1>3, <3>2, <3>5, Zenon DEF EndOfLine, v
      <4> HIDE DEF frames
      <4>2. /\ DOMAIN m = DOMAIN h /\ m.rx = h.rx /\ m.receiving = "none"
            /\ m.overflow = h.overflow /\ m.length = v /\ m.seconds = h.seconds
            /\ m.clock = h.clock /\ m.started = h.started
        BY <1>4, BoxFields, Zenon
      <4> HIDE DEF m
      <4>3. IsBox(m)
        BY <1>4, <4>2 DEF IsBox
      <4>4. Untouched(m, g) /\ g.started = m.started /\ g.clock = m.clock
        BY <4>1, <4>3, BoxFields, Zenon DEF Say, Untouched
      <4>5. v = a
        BY <2>1, <3>3, <3>4, <3>5 DEF IsArgument
      <4> QED
        BY <1>3, <1>5, <3>1, <4>2, <4>4, <4>5 DEF Heard, Follows, Brief, Untouched
    <3>6. CASE f.receiving = "time"
      <4>1. g = [h EXCEPT !.receiving = "none", !.seconds = v]
        BY <1>3, <3>2, <3>6, Zenon DEF EndOfLine, v
      <4>2. /\ DOMAIN g = DOMAIN h /\ g.rx = h.rx /\ g.receiving = "none"
            /\ g.overflow = h.overflow /\ g.length = h.length /\ g.seconds = v
            /\ g.clock = h.clock /\ g.started = h.started
        BY <1>4, <4>1, BoxFields, Zenon
      <4>3. f.length = a /\ Endless(v)
        BY <2>1, <3>3, <3>4, <3>6 DEF IsArgument
      <4> QED
        BY <1>3, <1>5, <3>1, <4>2, <4>3 DEF Heard, Follows, Brief
    <3> QED
      BY <2>1, <3>5, <3>6
  <2>4. ASSUME rest # <<>> PROVE Heard(f, g, a)
    <3>1. /\ c = Head(rest) /\ c \in Digits
          /\ Tail(rest) \in Seq(Digits) /\ Tail(f.rx) = Append(Tail(rest), "\n")
      BY <2>1, <2>4, RestOfArgument
    <3>2. c # "\n"
      BY <3>1, DigitsAreBytes
    <3>3. g = Receive(h, c)
      BY <1>2, <1>3, <2>1, <2>2, <3>2
    <3>4. /\ Append(f.buff, c) \in Seq(Digits)
          /\ Append(f.buff, c) \o Tail(rest) = f.buff \o rest
          /\ Len(f.buff) < Len(f.buff \o rest)
      BY <2>1, <2>4, <3>1, OneByteMore
    <3>5. Len(f.buff) < BuffSize - 1 /\ Len(f.buff) < BuffGuarded - 1
      <4>1. Len(f.buff \o rest) < BuffSize
        BY <2>1 DEF IsArgument
      <4> DEFINE n == Len(f.buff)
                 m == Len(f.buff \o rest)
      <4>2. n \in Int /\ m \in Int /\ n < m /\ m < BuffSize
        BY <2>1, <3>4, <4>1
      <4> HIDE DEF n, m
      <4>3. n < BuffSize - 1 /\ n < BuffGuarded - 1
        BY <4>2, AvrConstants, FirmwareConstants DEF SmallNumbers
      <4> QED
        BY <4>3 DEF n
    <3> HIDE DEF c
    <3>6. /\ DOMAIN g = DOMAIN h /\ g.rx = h.rx /\ g.receiving = h.receiving
          /\ g.length = h.length /\ g.seconds = h.seconds
          /\ g.clock = h.clock /\ g.started = h.started
          /\ g.overflow = (h.overflow \/ Len(h.buff) >= BuffSize - 1)
          /\ g.buff = IF Len(h.buff) < BuffGuarded - 1 THEN Append(h.buff, c) ELSE h.buff
      BY <1>4, <3>3, BoxFields, Zenon DEF Receive
    <3>7. ~(Len(f.buff) >= BuffSize - 1)
      <4> DEFINE n == Len(f.buff)
      <4>1. n \in Int /\ n < BuffSize - 1
        BY <2>1, <3>5
      <4> HIDE DEF n
      <4>2. ~(n >= BuffSize - 1)
        BY <4>1, AvrConstants
      <4> QED
        BY <4>2 DEF n
    <3>8. ~g.overflow /\ g.buff = Append(f.buff, c)
      BY <1>3, <1>5, <3>5, <3>6, <3>7, Zenon
    <3>9. InArgument(g, g.rx, a)
      BY <1>3, <2>1, <3>1, <3>4, <3>6, <3>8, Zenon DEF InArgument, IsArgument
    <3> QED
      BY <1>3, <1>5, <3>6, <3>8, <3>9, Zenon DEF Heard, Follows
  <2> QED
    BY <2>3, <2>4
<1> QED
  BY <1>1, <1>6, <1>7, <1>8 DEF Follows, g

-----------------------------------------------------------------------------
(* The race of the client: the invariant. *)

\* The bytes on their way to the box, or in it.
Coming == IF line = <<>> THEN fw.rx ELSE line

AskedInv ==
    /\ IsBox(fw) /\ Intact(pty)
    /\ fw.clock \in 0 .. MaxClock
    /\ Follows(fw, Coming, asked)
    /\ line # <<>> => pty.master /\ fw.rx = <<>>

\* A race against time does not end on its own.
LEMMA EndlessRace ==
    ASSUME SmallNumbers, NEW clock \in 0 .. MaxClock, NEW secs, Endless(secs)
    PROVE  ~GtInt(clock, Mul(secs, MsPerSecond))
<1> DEFINE x == secs * MsPerSecond
           n == Mul(secs, MsPerSecond)
<1>1. x \in Int
  BY AvrConstants DEF Endless
<1>2. n = ToInt(x)
  BY Zenon DEF Mul
<1>3. n < 0
  BY DEF Endless
<1> HIDE DEF x, n
<1>4. IntMax \in Int /\ IntSize \in Nat /\ IntSize > 1
  BY AvrConstants DEF IntMax
<1> DEFINE word == x % IntSize
<1>5. word \in 0 .. IntSize - 1
  BY <1>1, <1>4
<1>6. n = IF word > IntMax THEN word - IntSize ELSE word
  BY <1>2, Zenon DEF ToInt
<1> HIDE DEF word
<1>7. n \in Int /\ -IntSize <= n
  BY <1>4, <1>5, <1>6
<1>8. LongSize \in Nat /\ LongSize > 0 /\ IntSize <= LongSize
  BY AvrConstants
<1>9. n % LongSize = n + LongSize
  BY <1>3, <1>4, <1>7, <1>8
<1>10. clock \in Int /\ clock <= LongSize - IntSize
  BY <1>4, <1>8, FirmwareConstants DEF SmallNumbers
<1>11. ~(clock > n + LongSize)
  BY <1>4, <1>7, <1>8, <1>10
<1> QED
  BY <1>9, <1>11, Zenon DEF GtInt, ToULong, n

\* What may come is a sequence, and empty only when nothing is being received.
LEMMA FollowsFacts ==
    ASSUME NEW f, NEW rx, NEW a, Follows(f, rx, a)
    PROVE  /\ rx \o <<>> = rx /\ <<>> \o rx = rx
           /\ rx # <<>> => Head(rx) = rx[1]
           /\ rx = <<>> => f.receiving = "none" /\ f.length = a
<1>1. CASE Brief(f, rx, a)
  BY <1>1 DEF Brief
<1>2. CASE WithArgument(f, rx, a)
  <2>1. PICK k \in Heads, arg \in Seq(Digits) : rx = <<k[2]>> \o Append(arg, "\n")
    BY <1>2, Zenon DEF WithArgument
  <2>2. k[2] \in {"l", "t"}
    BY DEF Heads
  <2> DEFINE S == Digits \cup {"\n", "l", "t"}
  <2>3. arg \in Seq(S) /\ "\n" \in S /\ k[2] \in S
    <3>1. Digits \subseteq S
      OBVIOUS
    <3> QED
      BY <2>2, <3>1
  <2> HIDE DEF S
  <2>4. rx \in Seq(S)
    BY <2>1, <2>3
  <2>5. rx # <<>>
    BY <2>1, <2>2, HeadOfCommand
  <2> QED
    BY <2>4, <2>5
<1>3. CASE InArgument(f, rx, a)
  <2>1. PICK rest \in Seq(Digits) : rx = Append(rest, "\n")
    BY <1>3, Zenon DEF InArgument
  <2> DEFINE S == Digits \cup {"\n"}
  <2>2. rest \in Seq(S) /\ "\n" \in S
    <3>1. Digits \subseteq S
      OBVIOUS
    <3> QED
      BY <3>1
  <2> HIDE DEF S
  <2>3. rx \in Seq(S) /\ rx # <<>>
    BY <2>1, <2>2
  <2> QED
    BY <2>3
<1> QED
  BY <1>1, <1>2, <1>3 DEF Follows

\* A byte and another.
LEMMA TwoBytes ==
    ASSUME NEW S, NEW s \in Seq(S), Len(s) = 1, NEW c \in S
    PROVE  Append(s, c) = <<s[1], c>>
<1>1. ASSUME NEW u \in Seq(S), NEW v \in Seq(S), Len(u) = 1, Len(v) = 1
      PROVE  /\ u \o v \in Seq(S) /\ Len(u \o v) = 2
             /\ (u \o v)[1] = u[1] /\ (u \o v)[2] = v[1]
  <2> DEFINE x == u \o v
  <2>1. x \in Seq(S) /\ Len(x) = Len(u) + Len(v)
    OBVIOUS
  <2>2. \A k \in 1 .. Len(u) + Len(v) : x[k] = IF k <= Len(u) THEN u[k] ELSE v[k - Len(u)]
    OBVIOUS
  <2> HIDE DEF x
  <2>3. x[1] = u[1]
    BY <1>1, <2>2
  <2>4. x[2] = v[1]
    BY <1>1, <2>2
  <2> QED
    BY <1>1, <2>1, <2>3, <2>4 DEF x
<1>2. \A t \in Seq(S) : Len(t) = 2 => t = <<t[1], t[2]>>
  OBVIOUS
<1>3. <<c>> \in Seq(S) /\ Len(<<c>>) = 1 /\ <<c>>[1] = c
  OBVIOUS
<1>4. s \o <<c>> = <<s[1], c>>
  <2> DEFINE v == <<c>>
  <2> HIDE DEF v
  <2>1. v \in Seq(S) /\ Len(v) = 1 /\ v[1] = c
    BY <1>3 DEF v
  <2>2. s \o v = <<s[1], v[1]>>
    BY <1>1, <1>2, <2>1
  <2> QED
    BY <2>1, <2>2 DEF v
<1> QED
  BY <1>4, AppendIsConcat

\* A command the driver lets through is one the box is ready for.
LEMMA ValidFollows ==
    ASSUME NEW f, NEW a, Follows(f, <<>>, a), NEW cmd \in Seq(STRING), Valid(cmd)
    PROVE  /\ Follows(f, Append(cmd, "\n"), IF cmd[1] = "l" THEN Decimal(Tail(cmd)) ELSE a)
           /\ Append(cmd, "\n") # <<>>
<1>1. f.receiving = "none" /\ f.length = a
  BY FollowsFacts
<1>2. CASE Len(cmd) = 1 /\ cmd[1] \in Bare
  <2>1. Append(cmd, "\n") = <<cmd[1], "\n">>
    <3> DEFINE S == STRING \cup {"\n"}
    <3>1. cmd \in Seq(S) /\ "\n" \in S
      <4>1. STRING \subseteq S
        OBVIOUS
      <4> QED
        BY <4>1
    <3> HIDE DEF S
    <3> QED
      BY <1>2, <3>1, TwoBytes
  <2>2. cmd[1] # "l"
    BY <1>2 DEF Bare
  <2> QED
    BY <1>1, <1>2, <2>1, <2>2 DEF Follows, Brief
<1>3. ASSUME /\ Len(cmd) > 1
             /\ cmd[1] \in {"l", "t"}
             /\ \A i \in DOMAIN Tail(cmd) : IsDigit(Tail(cmd)[i])
             /\ Len(Tail(cmd)) < BuffSize
             /\ Decimal(Tail(cmd)) \in 1 .. IntMax
             /\ cmd[1] = "t" => Mul(Decimal(Tail(cmd)), MsPerSecond) < 0
      PROVE  Follows(f, Append(cmd, "\n"), IF cmd[1] = "l" THEN Decimal(Tail(cmd)) ELSE a)
             /\ Append(cmd, "\n") # <<>>
  <2> DEFINE arg == Tail(cmd)
  <2>1. arg \in Seq(STRING) /\ cmd # <<>>
    BY <1>3
  <2>2. arg \in Seq(Digits)
    <3>1. \A c : IsDigit(c) => c \in Digits
      BY Zenon DEF IsDigit, Digits
    <3>2. \A i \in DOMAIN arg : IsDigit(arg[i])
      BY <1>3
    <3> HIDE DEF arg
    <3>3. DOMAIN arg = 1 .. Len(arg)
      BY <2>1
    <3>4. \A i \in 1 .. Len(arg) : arg[i] \in Digits
      BY <3>1, <3>2, <3>3, Zenon
    <3>5. Len(arg) \in Nat /\ arg = [i \in 1 .. Len(arg) |-> arg[i]]
      BY <2>1
    <3>6. arg \in [1 .. Len(arg) -> Digits]
      BY <3>4, <3>5
    <3> QED
      BY <3>5, <3>6, SeqDef
  <2>3. Append(cmd, "\n") = <<cmd[1]>> \o Append(arg, "\n")
    BY <1>3
  <2>4. Decimal(arg) \in 1 .. IntMax /\ Decimal(arg) \in Int
    BY <1>3, AvrConstants DEF IntMax
  <2>5. Len(arg) < BuffSize
    BY <1>3
  <2>6. cmd[1] = "t" => Endless(Decimal(arg))
    BY <1>3, <2>4, Zenon DEF Endless
  <2> HIDE DEF arg
  <2>7. CASE cmd[1] = "l"
    <3>1. IsArgument(f, "length", arg, Decimal(arg))
      BY <2>2, <2>4, <2>5 DEF IsArgument
    <3>2. <<"length", "l">> \in Heads
      BY DEF Heads
    <3>3. WithArgument(f, Append(cmd, "\n"), Decimal(arg))
      BY <1>1, <2>2, <2>3, <2>7, <3>1, <3>2 DEF WithArgument
    <3>4. Append(cmd, "\n") # <<>>
      OBVIOUS
    <3> QED
      BY <2>7, <3>3, <3>4, Zenon DEF Follows, arg
  <2>8. CASE cmd[1] = "t"
    <3>1. IsArgument(f, "time", arg, a)
      BY <1>1, <2>2, <2>4, <2>5, <2>6, <2>8 DEF IsArgument
    <3>2. <<"time", "t">> \in Heads
      BY DEF Heads
    <3>3. WithArgument(f, Append(cmd, "\n"), a)
      BY <1>1, <2>2, <2>3, <2>8, <3>1, <3>2 DEF WithArgument
    <3>4. Append(cmd, "\n") # <<>> /\ cmd[1] # "l"
      BY <2>8
    <3> QED
      BY <3>3, <3>4, Zenon DEF Follows
  <2> QED
    BY <1>3, <2>7, <2>8
<1> QED
  BY <1>2, <1>3, Zenon DEF Valid

\* A pass, and how a race may end in it.
LEMMA AskedPass ==
    ASSUME SmallNumbers, AskedInv, Pass, Intact(pty)'
    PROVE  /\ AskedInv'
           /\ fw.started /\ ~fw'.started /\ ~fw'.distance =>
                  fw.rx # <<>> /\ Head(fw.rx) \in {"s", "g"}
<1> DEFINE f == [fw EXCEPT !.pin = Pins]
           s == CheckSerial(f)
           c == Countdown(s)
           g == Race(c)
<1>1. fw' = g
  BY Zenon DEF Pass, Pins, Tick
<1>2. Untouched(fw, f) /\ f.started = fw.started /\ f.clock = fw.clock
  BY BoxFields, Zenon DEF Untouched, AskedInv
<1> HIDE DEF f
<1>3. IsBox(f) /\ f.rx = fw.rx
  BY <1>2 DEF AskedInv, IsBox, Untouched
<1>4. DOMAIN s = DOMAIN f /\ s.clock = f.clock
      /\ (f.started /\ ~s.started => f.rx # <<>> /\ Head(f.rx) \in {"s", "g"})
      /\ Follows(s, IF line = <<>> THEN s.rx ELSE line, asked)
      /\ (line # <<>> => s.rx = <<>>)
  <2>1. CASE line = <<>>
    <3>1. Follows(f, f.rx, asked)
      BY <1>2, <1>3, <2>1, UntouchedFollows DEF AskedInv, Coming
    <3>2. Heard(f, s, asked)
      BY <1>3, <3>1, SerialFollows
    <3> QED
      BY <2>1, <3>2 DEF Heard
  <2>2. CASE line # <<>>
    <3>1. f.rx = <<>>
      BY <1>3, <2>2 DEF AskedInv
    <3>2. s = f
      BY <3>1, Zenon DEF CheckSerial
    <3>3. Follows(f, line, asked)
      BY <1>2, <2>2, UntouchedFollows DEF AskedInv, Coming
    <3> QED
      BY <2>2, <3>1, <3>2, <3>3
  <2> QED
    BY <2>1, <2>2
<1> HIDE DEF s
<1>5. IsBox(s)
  BY <1>3, <1>4 DEF IsBox
<1>6. Untouched(s, c) /\ (s.started => c.started)
  BY <1>5, CountdownUntouched
<1> HIDE DEF c
<1>7. IsBox(c)
  BY <1>5, <1>6 DEF IsBox, Untouched
<1>8. Untouched(c, g)
      /\ (c.started /\ ~g.started /\ ~c.distance => GtInt(c.clock, Mul(c.seconds, MsPerSecond)))
  BY <1>7, RaceUntouched
<1> HIDE DEF g
<1>9. UNCHANGED <<pty, line, asked>>
  BY DEF Pass, outVars, clientVars
<1>10. c.clock \in 0 .. MaxClock /\ g.clock \in 0 .. MaxClock
  <2>1. s.clock \in 0 .. MaxClock /\ 0 \in 0 .. MaxClock
    BY <1>2, <1>4, FirmwareConstants DEF AskedInv
  <2> QED
    BY <1>6, <1>8, <2>1 DEF Untouched
<1> DEFINE rx == IF line = <<>> THEN s.rx ELSE line
<1>11. Follows(c, rx, asked) /\ Follows(g, rx, asked)
  <2>1. Follows(c, rx, asked)
    BY <1>4, <1>6, UntouchedFollows
  <2> QED
    BY <1>8, <2>1, UntouchedFollows
<1>12. AskedInv'
  <2>1. g.rx = s.rx /\ IsBox(g)
    BY <1>5, <1>6, <1>8 DEF IsBox, Untouched
  <2> QED
    BY <1>1, <1>4, <1>9, <1>10, <1>11, <2>1 DEF AskedInv, Coming, IsBox
<1>13. ASSUME fw.started, ~fw'.started, ~fw'.distance
       PROVE  fw.rx # <<>> /\ Head(fw.rx) \in {"s", "g"}
  <2>1. Endless(c.seconds)
    BY <1>11 DEF Follows
  <2>2. ~GtInt(c.clock, Mul(c.seconds, MsPerSecond))
    BY <1>10, <2>1, EndlessRace
  <2>3. ~c.distance
    BY <1>1, <1>8, <1>13 DEF Untouched
  <2>4. ~c.started
    BY <1>1, <1>8, <1>13, <2>2, <2>3
  <2>5. ~s.started
    BY <1>6, <2>4
  <2> QED
    BY <1>2, <1>3, <1>4, <1>13, <2>5
<1> QED
  BY <1>12, <1>13

\* Reading and elapsing.
LEMMA AskedInput ==
    ASSUME AskedInv, Input, Intact(pty)'
    PROVE  AskedInv' /\ fw'.started = fw.started
<1>1. IsBox(fw)
  BY DEF AskedInv
<1> DEFINE rx == IF pty.master THEN fw.rx \o line ELSE fw.rx
<1>2. /\ DOMAIN fw' = DOMAIN fw /\ fw'.rx = rx
      /\ fw'.receiving = fw.receiving /\ fw'.buff = fw.buff /\ fw'.overflow = fw.overflow
      /\ fw'.length = fw.length /\ fw'.seconds = fw.seconds
      /\ fw'.clock = fw.clock /\ fw'.started = fw.started
  <2>1. fw' = IF pty.master THEN [fw EXCEPT !.rx = @ \o line] ELSE fw
    BY Zenon DEF Input
  <2> QED
    BY <1>1, <2>1, BoxFields, Zenon
<1>3. line' = <<>> /\ asked' = asked
  BY Zenon DEF Input
<1>4. rx = Coming
  BY FollowsFacts DEF AskedInv, Coming
<1> HIDE DEF rx
<1>5. Follows(fw', rx, asked)
  BY <1>2, <1>4 DEF AskedInv, Follows, Brief, WithArgument, InArgument, IsArgument
<1> QED
  BY <1>2, <1>3, <1>5 DEF AskedInv, Coming, IsBox

LEMMA AskedOutput ==
    ASSUME AskedInv, Output, Intact(pty)'
    PROVE  AskedInv' /\ fw'.started = fw.started
<1>1. fw' = Elapse([fw EXCEPT !.tx = <<>>]) /\ UNCHANGED clientVars
  BY Zenon DEF Output
<1>2. pty'.master = pty.master
  <2>1. PICK frames : pty' \in Pumped(Queue(pty, frames))
    BY Zenon DEF Output
  <2> DEFINE p == Queue(pty, frames)
  <2>2. Intact(p) /\ p.master = pty.master
    BY QueueIsIntact, Zenon DEF AskedInv, Queue, Intact, Whole
  <2> HIDE DEF p
  <2>3. \/ \E b : pty' = [p EXCEPT !.outbox = b]
        \/ \E a, b, c : pty' = [p EXCEPT !.pumped = a, !.credit = b, !.outbox = c]
    BY <2>1 DEF Pumped, p
  <2>4. ASSUME NEW b, pty' = [p EXCEPT !.outbox = b] PROVE pty'.master = p.master
    BY <2>2, <2>4, Zenon DEF Intact
  <2>5. ASSUME NEW a, NEW b, NEW c,
               pty' = [p EXCEPT !.pumped = a, !.credit = b, !.outbox = c]
        PROVE  pty'.master = p.master
    BY <2>2, <2>5, Zenon DEF Intact
  <2> QED
    BY <2>2, <2>3, <2>4, <2>5, Zenon
<1>3. /\ DOMAIN fw' = DOMAIN fw /\ fw'.rx = fw.rx
      /\ fw'.receiving = fw.receiving /\ fw'.buff = fw.buff /\ fw'.overflow = fw.overflow
      /\ fw'.length = fw.length /\ fw'.seconds = fw.seconds /\ fw'.started = fw.started
      /\ fw'.clock \in 0 .. MaxClock
  BY <1>1, ElapseUntouched DEF AskedInv
<1>4. Follows(fw', Coming, asked)
  BY <1>3 DEF AskedInv, Follows, Brief, WithArgument, InArgument, IsArgument
<1> QED
  BY <1>1, <1>2, <1>3, <1>4 DEF AskedInv, Coming, IsBox, clientVars

\* The client asks: for another length, or not.
LEMMA AskedSend ==
    ASSUME AskedInv, NEW cmd \in Tried, Send(cmd)
    PROVE  AskedInv' /\ fw' = fw
<1>1. /\ pty.master /\ line = <<>> /\ fw.rx = <<>> /\ Valid(cmd)
      /\ line' = Append(cmd, "\n")
      /\ asked' = IF cmd[1] = "l" THEN Decimal(Tail(cmd)) ELSE asked
      /\ fw' = fw /\ pty' = pty
  BY Zenon DEF Send, outVars
<1>2. Follows(fw, <<>>, asked)
  BY <1>1 DEF AskedInv, Coming
<1>3. cmd \in Seq(STRING)
  BY EmulatorConstants
<1>4. Follows(fw, line', asked') /\ line' # <<>>
  BY <1>1, <1>2, <1>3, ValidFollows
<1>5. IsBox(fw) /\ Intact(pty) /\ fw.clock \in 0 .. MaxClock
  BY DEF AskedInv
<1> QED
  BY <1>1, <1>4, <1>5 DEF AskedInv, Coming, IsBox, Intact, Whole

LEMMA AskedInit ==
    ASSUME SmallNumbers, Init
    PROVE  AskedInv
<1>1. fw = Boot /\ line = <<>> /\ asked = DefaultLength
  BY Zenon DEF Init
<1>2. /\ fw.rx = <<>> /\ fw.receiving = "none" /\ ~fw.overflow /\ fw.clock = 0
      /\ fw.length = DefaultLength /\ fw.seconds = DefaultSeconds
  BY <1>1 DEF Boot
<1>3. IsBox(fw) /\ Intact(pty)
  BY <1>1, PortInit DEF IsBox
<1>4. Follows(fw, <<>>, asked)
  BY <1>1, <1>2 DEF Follows, Brief, SmallNumbers
<1>5. 0 \in 0 .. MaxClock
  BY FirmwareConstants
<1> QED
  BY <1>1, <1>2, <1>3, <1>4, <1>5 DEF AskedInv, Coming

\* The box races over the length last asked for, whichever of the commands the
\* driver's check accepts are sent and whichever are lost with the terminal, and a
\* race against time ends on the word of the client only (validate_command,
\* checkSerial, avr_types.h).
THEOREM RaceStaysTheOneAsked == SmallNumbers /\ Spec => RaceIsTheOneAsked
<1> SUFFICES ASSUME SmallNumbers PROVE Spec => RaceIsTheOneAsked
  OBVIOUS
<1> DEFINE Ends == fw.started /\ ~fw'.started /\ ~fw'.distance =>
                       fw.rx # <<>> /\ fw.rx[1] \in {"s", "g"}
<1>1. Init => AskedInv
  BY AskedInit
<1>2. AskedInv /\ [Next]_vars => AskedInv' /\ (Ends \/ UNCHANGED vars)
  <2> SUFFICES ASSUME AskedInv, [Next]_vars PROVE AskedInv' /\ (Ends \/ UNCHANGED vars)
    OBVIOUS
  <2>1. Intact(pty)'
    BY PortStep DEF AskedInv, Intact, Whole
  <2>2. ASSUME Pass PROVE AskedInv' /\ Ends
    <3>1. AskedInv' /\ (fw.started /\ ~fw'.started /\ ~fw'.distance =>
                            fw.rx # <<>> /\ Head(fw.rx) \in {"s", "g"})
      BY <2>1, <2>2, AskedPass
    <3>2. fw.rx # <<>> => Head(fw.rx) = fw.rx[1]
      BY FollowsFacts DEF AskedInv, Coming
    <3> QED
      BY <3>1, <3>2, Zenon
  <2>3. ASSUME Input \/ Output \/ \E cmd \in Tried : Send(cmd) PROVE AskedInv' /\ Ends
    BY <2>1, <2>3, AskedInput, AskedOutput, AskedSend, Zenon
  <2>4. ASSUME UNCHANGED vars PROVE AskedInv'
    <3>1. fw' = fw /\ pty' = pty /\ line' = line /\ asked' = asked
      BY <2>4 DEF vars, outVars, clientVars
    <3> QED
      BY <3>1 DEF AskedInv, Coming, IsBox, Intact, Whole
  <2> QED
    BY <2>2, <2>3, <2>4, Zenon DEF Next, Turns
<1>3. AskedInv => LengthIsTheOneAsked
  BY FollowsFacts DEF AskedInv, Coming, LengthIsTheOneAsked, Follows
<1>4. AskedInv /\ AskedInv' /\ [Next]_vars /\ (Ends \/ UNCHANGED vars)
          => [LengthIsTheOneAsked' /\ Ends]_vars
  <2>1. AskedInv' => LengthIsTheOneAsked'
    BY <1>3, PTL
  <2> QED
    BY <2>1
<1> QED
  BY <1>1, <1>2, <1>4, PTL DEF Spec, RaceIsTheOneAsked
=============================================================================
