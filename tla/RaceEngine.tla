----------------------------- MODULE RaceEngine -----------------------------
(***************************************************************************)
(* The race engine of Qermesse: the state machine of core/race_engine.gd   *)
(* with the race state it writes (race_state.gd), the filter it puts       *)
(* before it (tick_filter.gd) and the three rules it obeys (rules/).       *)
(*                                                                         *)
(* The PC is the referee.  The box under the rollers is a sensor: it sends *)
(* cumulated ticks stamped with its own clock, paces the countdown, and    *)
(* obeys the commands the engine emits.  Every action below is a whole     *)
(* handler of RaceEngine: the filter, the sample, the verdict, the ranking *)
(* and the `s` it may send all happen in one step, as in the code, which   *)
(* runs on one thread.                                                     *)
(*                                                                         *)
(* Lengths are integers in a unit of which one tick is Circumference, so   *)
(* the floor of metres_to_ticks and the ceiling of max_plausible_ticks are *)
(* those of the code.                                                      *)
(***************************************************************************)
EXTENDS Integers, FiniteSets

CONSTANTS
    MaxRiders,      \* Protocol.MAX_RIDERS, the hardware lanes (4)
    Configs,        \* the RaceConfig records an operator can submit to arm
    MaxTicks,       \* bound: the largest tick count a frame carries
    MaxMs,          \* bound: the largest firmware time a frame carries
    Circumference,  \* length of one tick
    MaxSpeed,       \* MAX_PLAUSIBLE_KPH, as length per unit of firmware time
    Tolerance,      \* TRAILING_TOLERANCE_TICKS (8)
    ArmingTimeout,  \* ARMING_TIMEOUT_MS, in calls of tick
    PeakLevels,     \* the values a smoothed peak speed may take
    ClockMayRecede  \* whether a frame may carry an earlier time than the last

Lanes == 0 .. MaxRiders - 1

\* f with the values of g on the lanes g gives.
Over(f, g) == [r \in Lanes |-> IF r \in DOMAIN g THEN g[r] ELSE f[r]]

Modes == {"distance", "time", "pursuit"}
Policies == {"IGNORE", "WARN", "RESTART", "PENALTY"}

\* metres is the distance of a distance race, the gap of a pursuit; limit is
\* the duration of a time race, the safety cap in time of the other two.
ConfigRecords ==
    [mode : Modes, active : SUBSET Lanes, metres : Nat, limit : Nat,
     distanceCap : Nat, policy : Policies, penalty : Nat]

ASSUME EngineConstants ==
    /\ MaxRiders \in Nat \ {0}
    /\ Configs \subseteq ConfigRecords
    /\ MaxTicks \in Nat
    /\ MaxMs \in Nat
    /\ Circumference \in Nat \ {0}
    /\ MaxSpeed \in Nat
    /\ Tolerance \in Nat
    /\ ArmingTimeout \in Nat
    /\ PeakLevels \subseteq Nat
    /\ ClockMayRecede \in BOOLEAN

States == {"IDLE", "ARMING", "COUNTDOWN", "RUNNING", "FINISHED", "RESULTS"}

\* A race is on: there is something to stop and the box waits for an `s`.
Busy == {"ARMING", "COUNTDOWN", "RUNNING"}

Reasons == {"NONE", "ALL_FINISHED", "TIME_ELAPSED", "LAST_ONE_STANDING",
            "TIME_CAP", "DISTANCE_CAP"}

NoResult == [kind |-> "none", reason |-> "NONE", interrupted |-> FALSE]

\* Before the first arm the engine holds no configuration: no lane is active.
NoConfig == [mode |-> "distance", active |-> {}, metres |-> 0, limit |-> 0,
             distanceCap |-> 0, policy |-> "WARN", penalty |-> 0]

VARIABLES
    state,       \* RaceEngine._state
    config,      \* RaceEngine._config
    race,        \* RaceEngine._race_state, and the elimination order
    filter,      \* TickFilter: the accepted ticks and the last time stamp
    armAge,      \* calls of tick since _armed_at_ms
    result,      \* RaceEngine._result
    command,     \* the last command emitted to the box
    announced    \* the rank each lane was last announced with by a signal

vars == <<state, config, race, filter, armAge, result, command, announced>>

-----------------------------------------------------------------------------
(* Conversions of physics.gd. *)

TicksToMetres(t) == t * Circumference

MetresToTicks(m) == IF m <= 0 THEN 0 ELSE m \div Circumference

MaxPlausibleTicks(deltaMs) ==
    (MaxSpeed * deltaMs + Circumference - 1) \div Circumference

-----------------------------------------------------------------------------
(* RaceConfig.validate, on what the engine's behaviour depends on: the      *)
(* numeric bounds of each mode are those of the elements of Configs.        *)

Valid(c) ==
    /\ c.active # {}
    /\ c.mode = "pursuit" =>
         /\ Cardinality(c.active) >= 2
         /\ c.policy = "PENALTY" => c.penalty < c.metres

\* Mutant: go before the length.
ArmingCommandsGoEarly(c) ==
    IF c.mode = "distance" THEN <<"d", "g", "l">> ELSE <<"x", "g", "t60">>

\* The order is imposed: the mode, its argument, then go.
ArmingCommands(c) ==
    IF c.mode = "distance" THEN <<"d", "l", "g">> ELSE <<"x", "t60", "g">>

-----------------------------------------------------------------------------
(* TickFilter.accept. *)

NewFilter == [accepted |-> [r \in Lanes |-> 0], lastMs |-> -1]

Plausible(previous, proposed, deltaMs) ==
    /\ proposed > previous
    /\ deltaMs > 0 => proposed - previous <= MaxPlausibleTicks(deltaMs) + 1

\* A frame whose clock recedes is refused whole; otherwise each active lane
\* keeps its last accepted count or takes the new one.
Accept(f, frame, ms) ==
    LET deltaMs == IF f.lastMs >= 0 THEN ms - f.lastMs ELSE ms
    IN  IF f.lastMs >= 0 /\ ms < f.lastMs
        THEN f
        ELSE LET kept == {r \in config.active :
                              Plausible(f.accepted[r], frame[r], deltaMs)}
             IN  [accepted |-> Over(f.accepted, [r \in kept |-> frame[r]]),
                  lastMs |-> ms]

-----------------------------------------------------------------------------
(* RaceState. *)

Zero == [r \in Lanes |-> 0]
Never == [r \in Lanes |-> FALSE]

NewRace ==
    [elapsed |-> 0, previousMs |-> -1, ticks |-> Zero, distance |-> Zero,
     peak |-> Zero, finishedMs |-> Zero, eliminatedMs |-> Zero,
     eliminated |-> Never, exit |-> Zero, rank |-> Zero,
     handicap |-> Zero, falseStarted |-> Never]

\* 0 is the code's mark of a lane that has not arrived.
Arrived(rs, r) == rs.finishedMs[r] # 0

\* Mutant: only an arrival freezes a lane.
ClassifiedByArrival(rs, r) == Arrived(rs, r)

Classified(rs, r) == Arrived(rs, r) \/ rs.eliminated[r]
Racing(rs) == {r \in config.active : ~Classified(rs, r)}

Higher(a, b) == IF a > b THEN a ELSE b

\* RaceState.apply_sample on ticks already filtered.  A classified lane is
\* frozen.  The peak is measured on a smoothed speed, which is abstracted to
\* any member of peaks once two samples separate two times.
ApplySample(rs, accepted, ms, peaks) ==
    LET moves == Racing(rs)
        timed == rs.previousMs >= 0 /\ ms > rs.previousMs
    IN  [rs EXCEPT
           !.elapsed = ms,
           !.previousMs = ms,
           !.ticks = Over(@, [r \in moves |-> accepted[r]]),
           !.distance =
                Over(@, [r \in moves |-> TicksToMetres(accepted[r]) + rs.handicap[r]]),
           !.peak = Over(@, [r \in {q \in moves : timed} |-> Higher(rs.peak[r], peaks[r])])]

\* Mutant: the last seen among equals.
LeaderLastSeen(rs) ==
    CHOOSE r \in Racing(rs) : \A q \in Racing(rs) :
        \/ rs.distance[q] < rs.distance[r]
        \/ rs.distance[q] = rs.distance[r] /\ q <= r

\* RaceState.leader and trailer: the lowest lane among equals.
Leader(rs) ==
    CHOOSE r \in Racing(rs) : \A q \in Racing(rs) :
        \/ rs.distance[q] < rs.distance[r]
        \/ rs.distance[q] = rs.distance[r] /\ r <= q

Trailer(rs) ==
    CHOOSE r \in Racing(rs) : \A q \in Racing(rs) :
        \/ rs.distance[q] > rs.distance[r]
        \/ rs.distance[q] = rs.distance[r] /\ r <= q

\* RaceState.next_finish_rank and next_elimination_rank.
NextFinishRank(rs) == Cardinality({r \in config.active : Arrived(rs, r)}) + 1
NextEliminationRank(rs) == Cardinality({r \in config.active : rs.rank[r] = 0})

-----------------------------------------------------------------------------
(* The rules.  A verdict names the lanes going out, the lanes arriving and  *)
(* the reason the race is over, "NONE" while it is not.                     *)

NoVerdict == [out |-> {}, done |-> {}, reason |-> "NONE"]

\* Mutant: the raw target, the penalty shown and never paid.
TargetForAll(rs, r) == MetresToTicks(config.metres)

\* RuleDistance._target_for: a handicapped lane has D + P metres to cover.
TargetFor(rs, r) == MetresToTicks(config.metres - rs.handicap[r])

\* Mutant: wait for every hardware lane, as the first version did.
AwaitedEveryLane == Lanes

\* The lanes a distance race waits for: the active ones, and only them.
Awaited == config.active

\* Mutant: no cap on a distance race.
CapReachedNever(rs) == FALSE

\* The safety cap in time, of a distance race and of a pursuit.
CapReached(rs) == rs.elapsed >= config.limit

EvaluateDistance(rs) ==
    LET done == {r \in config.active :
                    ~Arrived(rs, r) /\ rs.ticks[r] >= TargetFor(rs, r)}
        over == \A r \in Awaited : Arrived(rs, r) \/ r \in done
    IN  [out |-> {}, done |-> done,
         reason |-> IF over THEN "ALL_FINISHED"
                    ELSE IF CapReached(rs) THEN "TIME_CAP"
                    ELSE "NONE"]

EvaluateTime(rs) ==
    IF rs.elapsed < config.limit
    THEN NoVerdict
    ELSE [out |-> {}, done |-> {r \in config.active : ~Arrived(rs, r)},
          reason |-> "TIME_ELAPSED"]

SafetyCap(rs) ==
    IF CapReached(rs) THEN "TIME_CAP"
    ELSE IF rs.distance[Leader(rs)] >= config.distanceCap THEN "DISTANCE_CAP"
    ELSE "NONE"

\* One elimination per frame at most; at two riders it makes the winner.
EvaluatePursuit(rs) ==
    LET left == Cardinality(Racing(rs))
        gap == rs.distance[Leader(rs)] - rs.distance[Trailer(rs)]
    IN  IF left <= 1 THEN [NoVerdict EXCEPT !.reason = "LAST_ONE_STANDING"]
        ELSE IF SafetyCap(rs) # "NONE" THEN [NoVerdict EXCEPT !.reason = SafetyCap(rs)]
        ELSE IF Leader(rs) = Trailer(rs) \/ gap < config.metres THEN NoVerdict
        ELSE [out |-> {Trailer(rs)},
              done |-> IF left = 2 THEN {Leader(rs)} ELSE {},
              reason |-> IF left = 2 THEN "LAST_ONE_STANDING" ELSE "NONE"]

Evaluate(rs) ==
    CASE config.mode = "distance" -> EvaluateDistance(rs)
      [] config.mode = "time"     -> EvaluateTime(rs)
      [] config.mode = "pursuit"  -> EvaluatePursuit(rs)

\* Mutant: no lane number between equals, the sort is not stable.
FartherUnstable(rs, a, b) == rs.distance[a] > rs.distance[b]

\* RaceState.by_distance: the farther first, the lane between equals.
Farther(rs, a, b) ==
    \/ rs.distance[a] > rs.distance[b]
    \/ rs.distance[a] = rs.distance[b] /\ a < b

\* Mutant: the arrivals sorted by lane alone.
EarlierByLane(rs, a, b) == a < b

Earlier(rs, a, b) ==
    \/ rs.finishedMs[a] < rs.finishedMs[b]
    \/ rs.finishedMs[a] = rs.finishedMs[b] /\ a < b

\* final_ranking of each rule, as the order it sorts by.
AheadDistance(rs, a, b) ==
    \/ Arrived(rs, a) /\ Arrived(rs, b) /\ Earlier(rs, a, b)
    \/ Arrived(rs, a) /\ ~Arrived(rs, b)
    \/ ~Arrived(rs, a) /\ ~Arrived(rs, b) /\ Farther(rs, a, b)

AheadTime(rs, a, b) ==
    \/ rs.distance[a] > rs.distance[b]
    \/ /\ rs.distance[a] = rs.distance[b]
       /\ rs.peak[a] > rs.peak[b] \/ (rs.peak[a] = rs.peak[b] /\ a < b)

\* The survivors, then the eliminated from the last out to the first.
AheadPursuit(rs, a, b) ==
    \/ ~rs.eliminated[a] /\ ~rs.eliminated[b] /\ Farther(rs, a, b)
    \/ ~rs.eliminated[a] /\ rs.eliminated[b]
    \/ rs.eliminated[a] /\ rs.eliminated[b] /\ rs.exit[a] > rs.exit[b]

Ahead(rs, a, b) ==
    CASE config.mode = "distance" -> AheadDistance(rs, a, b)
      [] config.mode = "time"     -> AheadTime(rs, a, b)
      [] config.mode = "pursuit"  -> AheadPursuit(rs, a, b)

\* The place of r among the active lanes in the final ranking.
Place(rs, r) == Cardinality({q \in config.active : Ahead(rs, q, r)}) + 1

FinalRanking(rs) ==
    [rs EXCEPT !.rank = Over(@, [r \in config.active |-> Place(rs, r)])]

-----------------------------------------------------------------------------
(* RaceEngine._apply_verdict: the eliminations first, then the arrivals,    *)
(* each with the rank it is announced with.                                 *)

Eliminate(rs, out) ==
    LET new == {r \in out : ~rs.eliminated[r]}
    IN  [rs EXCEPT
           !.rank = Over(@, [r \in new |-> NextEliminationRank(rs)]),
           !.eliminated = Over(@, [r \in new |-> TRUE]),
           !.eliminatedMs = Over(@, [r \in new |-> rs.elapsed]),
           !.exit = Over(@, [r \in new |->
                       Cardinality({q \in config.active : rs.eliminated[q]}) + 1])]

\* Arrivals of one frame are counted lane after lane.  An arrival at time 0
\* is not counted: 0 is the mark of a lane that has not arrived.
Finish(rs, done) ==
    LET new == {r \in done : ~Arrived(rs, r)}
        counted(r) == IF rs.elapsed = 0 THEN {} ELSE {q \in new : q < r}
    IN  [rs EXCEPT
           !.rank = Over(@, [r \in new |-> NextFinishRank(rs) + Cardinality(counted(r))]),
           !.finishedMs = Over(@, [r \in new |-> rs.elapsed])]

Capped(reason) == reason \in {"TIME_CAP", "DISTANCE_CAP"}

\* Mutant: the arrivals first.
AppliedArrivalsFirst(rs, verdict) == Eliminate(Finish(rs, verdict.done), verdict.out)

Applied(rs, verdict) == Finish(Eliminate(rs, verdict.out), verdict.done)

\* The lanes a verdict announces: those it classifies for the first time.
Told(rs, verdict) ==
    {r \in verdict.out : ~rs.eliminated[r]} \cup {r \in verdict.done : ~Arrived(rs, r)}

\* settled is rs with the verdict applied; _finish when the race is over.
Conclude(rs, verdict, settled) ==
    /\ announced' = Over(announced, [r \in Told(rs, verdict) |-> settled.rank[r]])
    /\ \/ /\ verdict.reason = "NONE"
          /\ race' = settled
          /\ state' = "RUNNING"
          /\ UNCHANGED <<result, command>>
       \/ /\ verdict.reason # "NONE"
          /\ race' = FinalRanking(settled)
          /\ state' = "FINISHED"
          /\ result' = [kind |-> "complete", reason |-> verdict.reason,
                        interrupted |-> Capped(verdict.reason)]
          /\ command' = "s"

\* _apply_verdict(evaluate(rs)), on the state the frame left.
Settle(rs) ==
    \E verdict \in {Evaluate(rs)} : \E settled \in {Applied(rs, verdict)} :
        Conclude(rs, verdict, settled)

-----------------------------------------------------------------------------
(* The handlers. *)

Init ==
    /\ state = "IDLE"
    /\ config = NoConfig
    /\ race = NewRace
    /\ filter = NewFilter
    /\ armAge = 0
    /\ result = NoResult
    /\ command = "none"
    /\ announced = Zero

\* arm.  A refused configuration emits nothing and changes nothing.
Arm(c) ==
    /\ state = "IDLE"
    /\ Valid(c)
    /\ config' = c
    /\ race' = NewRace
    /\ filter' = NewFilter
    /\ armAge' = 0
    /\ result' = NoResult
    /\ announced' = Zero
    /\ state' = "ARMING"
    /\ command' = ArmingCommands(c)[3]

\* Mutant: the arming deadline is measured from the last call.
TickFromNow ==
    /\ state = "ARMING"
    /\ armAge' = 0
    /\ UNCHANGED <<state, config, race, filter, result, command, announced>>

\* Mutant: the box is not told.
TickWithoutStop ==
    /\ state = "ARMING"
    /\ armAge' = armAge + 1
    /\ state' = IF armAge' > ArmingTimeout THEN "IDLE" ELSE "ARMING"
    /\ UNCHANGED <<config, race, filter, result, command, announced>>

\* tick, called on every frame of the application with a later PC time; it
\* calls _fail_arming once the box has stayed silent too long.
Tick ==
    /\ state = "ARMING"
    /\ armAge' = armAge + 1
    /\ \/ /\ armAge' <= ArmingTimeout
          /\ UNCHANGED <<state, command>>
       \/ /\ armAge' > ArmingTimeout
          /\ state' = "IDLE"
          /\ command' = "s"
    /\ UNCHANGED <<config, race, filter, result, announced>>

\* on_countdown, for `CD:<value>`.
OnCountdown(value) ==
    /\ state \in {"ARMING", "COUNTDOWN"}
    /\ state' = IF value <= 0 THEN "RUNNING" ELSE "COUNTDOWN"
    /\ UNCHANGED <<config, race, filter, armAge, result, command, announced>>

\* on_progress, for `R:`.  It proves the race has started, even before `CD:0`.
OnProgress(frame, ms, peaks) ==
    /\ state \in {"COUNTDOWN", "RUNNING"}
    /\ filter' = Accept(filter, frame, ms)
    /\ \E rs \in {ApplySample(race, filter'.accepted, ms, peaks)} : Settle(rs)
    /\ UNCHANGED <<config, armAge>>

\* RuleDistance.note_hardware_finish: believed within Tolerance ticks.
Missing(rs, r) == TargetFor(rs, r) - rs.ticks[r]

Completed(rs, r) ==
    [rs EXCEPT !.ticks[r] = TargetFor(rs, r),
               !.distance[r] = TicksToMetres(TargetFor(rs, r)) + rs.handicap[r]]

\* on_rider_finish, for `<r>F:`.  Only a distance race listens to it.
OnRiderFinish(r) ==
    /\ state = "RUNNING"
    /\ config.mode = "distance"
    /\ r \in Racing(race)
    /\ Missing(race, r) \in 1 .. Tolerance
    /\ \E rs \in {Completed(race, r)} : Settle(rs)
    /\ UNCHANGED <<config, filter, armAge>>

\* abort; only a race that has run keeps a partial result.
AbortFrom(rs) ==
    /\ state' = "IDLE"
    /\ command' = "s"
    /\ \/ /\ state = "RUNNING"
          /\ race' = FinalRanking(rs)
          /\ result' = [kind |-> "partial", reason |-> "NONE", interrupted |-> TRUE]
       \/ /\ state # "RUNNING"
          /\ race' = rs
          /\ result' = NoResult
    /\ UNCHANGED <<config, filter, armAge, announced>>

Abort ==
    /\ state \notin {"IDLE", "RESULTS"}
    /\ AbortFrom(race)

\* on_link_lost_beyond_grace.
OnLinkLostBeyondGrace ==
    /\ state \in {"COUNTDOWN", "RUNNING"}
    /\ AbortFrom(race)

\* on_false_start, for `FS:<r>`: once per active lane, before the start.
OnFalseStart(r) ==
    /\ state \in {"ARMING", "COUNTDOWN"}
    /\ r \in config.active
    /\ ~race.falseStarted[r]
    /\ LET noted == [race EXCEPT !.falseStarted[r] = TRUE]
       IN  \/ config.policy = "RESTART" /\ AbortFrom(noted)
           \/ /\ config.policy = "PENALTY"
              /\ race' = [noted EXCEPT !.handicap[r] = -config.penalty]
              /\ UNCHANGED <<state, config, filter, armAge, result, command, announced>>
           \/ /\ config.policy \in {"IGNORE", "WARN"}
              /\ race' = noted
              /\ UNCHANGED <<state, config, filter, armAge, result, command, announced>>

ShowResults ==
    /\ state = "FINISHED"
    /\ state' = "RESULTS"
    /\ UNCHANGED <<config, race, filter, armAge, result, command, announced>>

Acknowledge ==
    /\ state = "RESULTS"
    /\ state' = "IDLE"
    /\ UNCHANGED <<config, race, filter, armAge, result, command, announced>>

-----------------------------------------------------------------------------
(* What the box and the line may hand over.  The line has no checksum, so a *)
(* frame may carry any counts.  The frame of time 0 leaves the firmware in  *)
(* the very pass that starts the race: at most one tick can be in it.       *)

\* An idle lane is a loose wire that counts as fast as a frame can say.
Frames ==
    {Over([r \in Lanes |-> MaxTicks], f) : f \in [config.active -> 0 .. MaxTicks]}

FrameAt(frame, ms) ==
    /\ ms = 0 => \A r \in config.active : frame[r] <= 1
    /\ ClockMayRecede \/ ms >= filter.lastMs

\* The peak is read by the ranking of a time race only.
Peaks ==
    IF config.mode = "time" THEN {Over(Zero, p) : p \in [config.active -> PeakLevels]}
    ELSE {Zero}

Progress ==
    \E frame \in Frames, ms \in 0 .. MaxMs, peaks \in Peaks :
        FrameAt(frame, ms) /\ OnProgress(frame, ms, peaks)

Next ==
    \/ \E c \in Configs : Arm(c)
    \/ Tick
    \/ \E value \in 0 .. 3 : OnCountdown(value)
    \/ Progress
    \/ \E r \in Lanes : OnRiderFinish(r)
    \/ \E r \in Lanes : OnFalseStart(r)
    \/ Abort
    \/ OnLinkLostBeyondGrace
    \/ ShowResults
    \/ Acknowledge

Spec == Init /\ [][Next]_vars

\* The application calls tick on every frame it draws.  A running box sends
\* frames whose clock advances.
Fairness ==
    /\ WF_vars(Tick)
    /\ WF_vars(state = "RUNNING" /\ \E frame \in Frames, peaks \in Peaks :
                  \E ms \in 0 .. MaxMs :
                     ms > filter.lastMs /\ FrameAt(frame, ms) /\ OnProgress(frame, ms, peaks))

FairSpec == Spec /\ Fairness

-----------------------------------------------------------------------------
(* Properties. *)

PerLane(S) == [Lanes -> S]

RaceRecords ==
    [elapsed : Nat, previousMs : Int, ticks : PerLane(Nat), distance : PerLane(Int),
     peak : PerLane(Nat), finishedMs : PerLane(Nat), eliminatedMs : PerLane(Nat),
     eliminated : PerLane(BOOLEAN), exit : PerLane(Nat), rank : PerLane(Nat),
     handicap : PerLane(Int), falseStarted : PerLane(BOOLEAN)]

Filters == [accepted : PerLane(Nat), lastMs : Int]

Results ==
    [kind : {"none", "partial", "complete"}, reason : Reasons, interrupted : BOOLEAN]

\* Every variable holds a value of its type.
TypeOK ==
    /\ state \in States
    /\ config \in ConfigRecords
    /\ race \in RaceRecords
    /\ filter \in Filters
    /\ armAge \in Nat
    /\ result \in Results
    /\ command \in {"none", "g", "s"}
    /\ announced \in PerLane(Nat)

\* The box is racing exactly while the engine holds a race: whichever way a
\* race ends (verdict, operator, false start, lost link, silent box), the
\* last word the box heard is `s`.
BoxFollowsEngine == command = "g" <=> state \in Busy

\* A lane that has arrived or gone out is frozen: no later frame, arrival
\* frame, verdict or abort moves its figures before the next arm.
FrozenOnceClassified ==
    [][\A r \in Lanes :
         (race.finishedMs[r] # 0 \/ race.eliminated[r]) /\ state' # "ARMING" =>
         /\ race'.ticks[r] = race.ticks[r]
         /\ race'.distance[r] = race.distance[r]
         /\ race'.peak[r] = race.peak[r]
         /\ race'.finishedMs[r] = race.finishedMs[r]
         /\ race'.eliminatedMs[r] = race.eliminatedMs[r]
         /\ race'.eliminated[r] = race.eliminated[r]]_vars

\* The race never goes on with nobody left to referee: the defect of the
\* first version, which waited for the four hardware lanes.
NeverRunningWithoutRacer ==
    state = "RUNNING" =>
        Cardinality(Racing(race)) >= IF config.mode = "pursuit" THEN 2 ELSE 1

\* A result, complete or partial, gives each active lane one place from 1 to
\* their number, and the idle lanes none.
RankingIsComplete ==
    result.kind # "none" =>
        /\ {race.rank[r] : r \in config.active} = 1 .. Cardinality(config.active)
        /\ \A r \in Lanes \ config.active : race.rank[r] = 0

\* The place a lane is eliminated with, announced from the bottom while the
\* others race, is the place the final ranking gives it.
EliminationRankIsFinal ==
    result.kind # "none" =>
        \A r \in config.active :
            race.eliminated[r] => race.rank[r] = announced[r]

\* Between two announced arrivals the final ranking keeps the announced
\* order, unless they share their time: the photo-finish of docs/02.
OnlyPhotoFinishReorders ==
    result.kind # "none" =>
        \A a, b \in config.active :
            announced[a] # 0 /\ announced[a] < announced[b]
            /\ race.rank[a] > race.rank[b]
                => Arrived(race, a) /\ race.finishedMs[a] = race.finishedMs[b]

\* The lane the screens show in the lead, RaceState.leader, is the lane the
\* ranking by distance puts first among those still racing.
LeaderTopsTheUnfinished ==
    result.kind # "none" /\ config.mode # "time" /\ Racing(race) # {} =>
        race.rank[Leader(race)] =
            Cardinality({r \in config.active : Arrived(race, r)}) + 1

\* A penalty is paid: a lane that arrives in a distance race has been counted
\* the ticks of the distance and of the metres it started behind.
PenaltyIsPaid ==
    config.mode = "distance" =>
        \A r \in config.active : Arrived(race, r) =>
            TicksToMetres(race.ticks[r] + 1) > config.metres - race.handicap[r]

\* A box that stays silent after `g` does not hold the operator in ARMING.
ArmingResolves == state = "ARMING" ~> state # "ARMING"

\* The safety caps end every race, whatever the riders do.
RaceEnds == state = "RUNNING" ~> state # "RUNNING"

\* Neither the armament nor the race lasts for ever.
EveryRaceEnds == ArmingResolves /\ RaceEnds

\* docs/01 6.3 counts a receding clock among what the filter catches: the
\* race clock, the only one that dates the race, never goes back.
RaceClockNeverRecedes ==
    [][state = "RUNNING" /\ state' \in {"RUNNING", "FINISHED"}
         => race'.elapsed >= race.elapsed]_vars

\* The comment of _finish: the ranks seen live serve the display and are
\* reconciled at the end.  The rank announced with an arrival, which the
\* recorder writes in the day's log, is the rank of the result.
AnnouncedRankIsFinal ==
    result.kind = "complete" =>
        \A r \in config.active : announced[r] # 0 => race.rank[r] = announced[r]
=============================================================================
