------------------------------ MODULE Firmware ------------------------------
(***************************************************************************)
(* The box, as the emulator replays it: tools/ss_emu/src/firmware_sim.cpp. *)
(* A box is a record and each function of the firmware an operator from    *)
(* box to box; Tick is one pass of its loop.  What it prints is appended   *)
(* to tx as frames, tuples that start with their kind.                     *)
(*                                                                         *)
(* Dates are kept as ages that Elapse advances: clock is now less          *)
(* race_start_millis_, countAge is now less last_count_down_millis_.  The  *)
(* pins of the lamps are left out.                                         *)
(***************************************************************************)
EXTENDS AvrTypes

CONSTANTS
    MaxRacers,         \* kMaxRacers
    FalseStartTicks,   \* kFalseStartTicks
    CountFrom,         \* 4, where a countdown starts
    CountdownMs,       \* 1000, between two of its frames
    UpdateInterval,    \* kUpdateInterval
    BuffGuarded,       \* kCharBuffGuarded
    DefaultLength,     \* race_length_ticks_ and race_length_secs_ of a new box
    DefaultSeconds,
    MockRate,          \* ticks per ms of each lane in mock mode
    MaxClock           \* bound: a race's clock stops there

Lanes == 0 .. MaxRacers - 1

ASSUME FirmwareConstants ==
    /\ MaxRacers \in Nat
    /\ {FalseStartTicks, CountFrom} \subseteq Nat \ {0}
    /\ {CountdownMs, UpdateInterval, BuffGuarded, MaxClock} \subseteq Nat
    /\ {DefaultLength, DefaultSeconds} \subseteq AvrInt
    /\ MockRate \in [Lanes -> Nat]

\* A date of the clock since boot where one of the clock of the race is
\* expected: from it the unsigned distance to now is huge.
Absolute == -1

Boot ==
    [rx |-> <<>>, tx |-> <<>>,
     starting |-> FALSE, started |-> FALSE, clock |-> 0,
     count |-> 0, countAge |-> 0, lastUpdate |-> 0,
     distance |-> TRUE, mock |-> FALSE,
     length |-> DefaultLength, seconds |-> DefaultSeconds,
     receiving |-> "none", buff |-> <<>>, overflow |-> FALSE,
     pin |-> [i \in Lanes |-> TRUE],      \* at rest a sensor is HIGH
     previous |-> [i \in Lanes |-> TRUE],
     values |-> [i \in Lanes |-> FALSE],
     ticks |-> [i \in Lanes |-> 0], finish |-> [i \in Lanes |-> 0]]

Zero == [i \in Lanes |-> 0]

\* The numbers of a set in their order, by what makes it their order: the provers
\* know nothing of SortSeq.
Ascending(S) ==
    CHOOSE order \in [1 .. Cardinality(S) -> S] :
        \A j, k \in DOMAIN order : j < k => order[j] < order[k]

\* One frame for each lane of a set, in the order of the lanes.
ForEach(lanes, Frame(_)) ==
    LET order == Ascending(lanes) IN [k \in DOMAIN order |-> Frame(order[k])]

Say(f, frames) == [f EXCEPT !.tx = @ \o frames]

-----------------------------------------------------------------------------
(* checkSerial: one byte a pass.  While an argument is being received every
   byte is part of it. *)

CountAgain(f) ==
    [f EXCEPT !.ticks = Zero, !.finish = Zero, !.starting = TRUE, !.started = FALSE,
              !.count = CountFrom, !.countAge = 0]

Obey(f, c) ==
    CASE c = "l" -> [f EXCEPT !.receiving = "length", !.buff = <<>>]
      [] c = "t" -> [f EXCEPT !.receiving = "time", !.buff = <<>>]
      [] c = "v" -> Say(f, <<<<"V">>>>)
      [] c = "g" -> CountAgain(f)
      [] c = "m" -> Say([f EXCEPT !.mock = ~@], <<<<"M", ~f.mock>>>>)
      [] c = "s" -> [f EXCEPT !.started = FALSE, !.starting = FALSE]
      [] c = "x" -> [f EXCEPT !.distance = FALSE]
      [] c = "d" -> [f EXCEPT !.distance = TRUE]
      [] OTHER   -> Say(f, <<<<"ERROR", c>>>>)

EndOfLine(f) ==
    CASE f.receiving = "length" ->
            Say([f EXCEPT !.receiving = "none", !.length = Atoi(f.buff)],
                  <<<<"L", Atoi(f.buff)>>>>)
      [] f.receiving = "time" ->
            [f EXCEPT !.receiving = "none", !.seconds = Atoi(f.buff)]
      [] OTHER -> f

Receive(f, c) ==
    [f EXCEPT !.overflow = @ \/ Len(f.buff) >= BuffSize - 1,
              !.buff = IF Len(@) < BuffGuarded - 1 THEN Append(@, c) ELSE @]

CheckSerial(f) ==
    IF f.rx = <<>> THEN f
    ELSE LET c == Head(f.rx)
             g == [f EXCEPT !.rx = Tail(@)]
         IN  IF c = "\n" THEN EndOfLine(g)
             ELSE IF f.receiving # "none" THEN Receive(g, c)
             ELSE Obey(g, c)

-----------------------------------------------------------------------------
(* The countdown. *)

RaceStart(f) ==
    [f EXCEPT !.clock = 0, !.lastUpdate = Absolute,
              !.starting = FALSE, !.started = TRUE, !.ticks = Zero, !.finish = Zero]

\* Mutant: the level of the sensor is counted, not its edge.
PedalledLevel(f) == {i \in Lanes : f.ticks[i] < FalseStartTicks /\ f.pin[i]}

\* Lanes whose edge counts for a false start; past the limit none does.
Pedalled(f) ==
    {i \in Lanes : f.ticks[i] < FalseStartTicks /\ f.pin[i] /\ ~f.previous[i]}

\* The branch raceStarting of loop.
Countdown(f) ==
    IF ~f.starting THEN f
    ELSE LET guilty == {i \in Pedalled(f) : f.ticks[i] + 1 = FalseStartTicks}
             due == f.countAge > CountdownMs
             count == IF due THEN f.count - 1 ELSE f.count
             g == [f EXCEPT !.values = f.pin, !.previous = f.pin,
                            !.ticks = [i \in Lanes |->
                                IF i \in Pedalled(f) THEN @[i] + 1 ELSE @[i]],
                            !.count = count,
                            !.countAge = IF due THEN 0 ELSE @]
             told == Say(g, ForEach(guilty, LAMBDA i : <<"FS", i>>)
                            \o (IF due THEN <<<<"CD", count>>>> ELSE <<>>))
         IN  IF count = 0 THEN RaceStart(told) ELSE told

-----------------------------------------------------------------------------
(* The race. *)

\* Mutant: the sample before the last is compared.
RisingLate(f) == {i \in Lanes : f.pin[i] /\ ~f.previous[i]}

Rising(f) == {i \in Lanes : f.pin[i] /\ ~f.values[i]}

\* A rising edge is a tick; in mock mode the time rolls too.
UpdateRacerTicks(f) ==
    LET rolled(i) == IF f.mock THEN f.clock * MockRate[i] ELSE f.ticks[i]
    IN  [f EXCEPT !.previous = f.values, !.values = f.pin,
                  !.ticks = [i \in Lanes |->
                      IF i \in Rising(f) THEN rolled(i) + 1 ELSE rolled(i)]]

\* An arrival at 0 is not told from none.
CheckDistanceBased(f) ==
    LET arriving == {i \in Lanes : f.finish[i] = 0 /\ GeInt(f.ticks[i], f.length)}
        finish == [i \in Lanes |-> IF i \in arriving THEN f.clock ELSE f.finish[i]]
        finished == \A i \in Lanes : finish[i] # 0
    IN  Say([f EXCEPT !.finish = finish,
                        !.starting = @ /\ ~finished, !.started = @ /\ ~finished],
              ForEach(arriving, LAMBDA i : <<"F", i, f.clock>>))

CheckTimeBased(f) ==
    LET limit == Mul(f.seconds, MsPerSecond)
    IN  IF GtInt(f.clock, limit)
        THEN Say([f EXCEPT !.starting = FALSE, !.started = FALSE],
                   ForEach(Lanes, LAMBDA i : <<"F", i, limit>>))
        ELSE f

PrintRacerUpdate(f) ==
    IF f.lastUpdate = Absolute \/ f.clock - f.lastUpdate > UpdateInterval
    THEN Say([f EXCEPT !.lastUpdate = f.clock], <<<<"R", f.ticks, f.clock>>>>)
    ELSE f

\* The branch raceStarted of loop: the update is printed though the race has
\* just ended.
Race(f) ==
    IF ~f.started THEN f
    ELSE LET g == UpdateRacerTicks(f)
         IN  PrintRacerUpdate(IF g.distance THEN CheckDistanceBased(g)
                                            ELSE CheckTimeBased(g))

Tick(f) == Race(Countdown(CheckSerial(f)))

\* A millisecond goes by.
Elapse(f) ==
    [f EXCEPT !.clock = IF f.started /\ @ < MaxClock THEN @ + 1 ELSE @,
              !.countAge = IF f.starting /\ @ <= CountdownMs THEN @ + 1 ELSE @]
=============================================================================
