-------------------------- MODULE RaceEngineProofs --------------------------
(***************************************************************************)
(* What RaceEngine promises of a race and of its result, for every value   *)
(* of its constants.  In this order:                                       *)
(*                                                                         *)
(*   the types, and the box that obeys;                                    *)
(*   the ranking is complete, the race never runs with nobody left, a      *)
(*   classified lane is frozen;                                            *)
(*   what is announced during a race and what its result says agree;       *)
(*   and the order of the arrivals announced is that of the result.        *)
(*                                                                         *)
(* The ranking of a pursuit reads the order of the eliminations, so the    *)
(* inductive invariant has to say that this order numbers each lane that   *)
(* is out exactly once; a time race calls every lane that has not arrived  *)
(* to the line, so it has to say that only a pursuit eliminates.           *)
(*                                                                         *)
(* The order of the arrivals needs more: that nobody arrives at time 0,    *)
(* the mark of a lane that has not arrived, hence that races are long, and *)
(* that the clock of the box does not go back.                             *)
(***************************************************************************)
EXTENDS RaceEngine, Orders

-----------------------------------------------------------------------------
(* Records and lanes. *)

\* Writing over a per-lane function keeps its type.
LEMMA OverType ==
    ASSUME NEW T, NEW f \in PerLane(T), NEW g, \A r \in DOMAIN g : g[r] \in T
    PROVE  Over(f, g) \in PerLane(T)
  BY DEF Over, PerLane

\* Writing one field of the race keeps its type.
LEMMA UpdateType ==
    ASSUME NEW rs \in RaceRecords
    PROVE  /\ \A v \in Nat : [rs EXCEPT !.elapsed = v] \in RaceRecords
           /\ \A v \in Int : [rs EXCEPT !.previousMs = v] \in RaceRecords
           /\ \A v \in PerLane(Nat) : [rs EXCEPT !.ticks = v] \in RaceRecords
           /\ \A v \in PerLane(Int) : [rs EXCEPT !.distance = v] \in RaceRecords
           /\ \A v \in PerLane(Nat) : [rs EXCEPT !.peak = v] \in RaceRecords
           /\ \A v \in PerLane(Nat) : [rs EXCEPT !.finishedMs = v] \in RaceRecords
           /\ \A v \in PerLane(Nat) : [rs EXCEPT !.eliminatedMs = v] \in RaceRecords
           /\ \A v \in PerLane(BOOLEAN) : [rs EXCEPT !.eliminated = v] \in RaceRecords
           /\ \A v \in PerLane(Nat) : [rs EXCEPT !.exit = v] \in RaceRecords
           /\ \A v \in PerLane(Nat) : [rs EXCEPT !.rank = v] \in RaceRecords
           /\ \A v \in PerLane(Int) : [rs EXCEPT !.handicap = v] \in RaceRecords
           /\ \A v \in PerLane(BOOLEAN) : [rs EXCEPT !.falseStarted = v] \in RaceRecords
  BY DEF RaceRecords

\* Writing several at once writes them one after the other.
LEMMA SampledType ==
    ASSUME NEW rs \in RaceRecords, NEW ms \in Nat, NEW t \in PerLane(Nat),
           NEW d \in PerLane(Int), NEW p \in PerLane(Nat)
    PROVE  [rs EXCEPT !.elapsed = ms, !.previousMs = ms, !.ticks = t,
                      !.distance = d, !.peak = p] \in RaceRecords
  <1> DEFINE s1 == [rs EXCEPT !.elapsed = ms]
             s2 == [s1 EXCEPT !.previousMs = ms]
             s3 == [s2 EXCEPT !.ticks = t]
             s4 == [s3 EXCEPT !.distance = d]
             s5 == [s4 EXCEPT !.peak = p]
  <1>1. [rs EXCEPT !.elapsed = ms, !.previousMs = ms, !.ticks = t,
                   !.distance = d, !.peak = p] = s5
    OBVIOUS
  <1>2. s1 \in RaceRecords
    BY UpdateType
  <1> HIDE DEF s1
  <1>3. s2 \in RaceRecords
    BY <1>2, UpdateType
  <1> HIDE DEF s2
  <1>4. s3 \in RaceRecords
    BY <1>3, UpdateType
  <1> HIDE DEF s3
  <1>5. s4 \in RaceRecords
    BY <1>4, UpdateType
  <1> HIDE DEF s4
  <1>6. s5 \in RaceRecords
    BY <1>5, UpdateType
  <1> HIDE DEF s5
  <1> QED
    BY <1>1, <1>6

\* Marking lanes out writes four fields of the race, each of its type.
LEMMA EliminatedType ==
    ASSUME NEW rs \in RaceRecords, NEW k \in PerLane(Nat), NEW e \in PerLane(BOOLEAN),
           NEW m \in PerLane(Nat), NEW x \in PerLane(Nat)
    PROVE  [rs EXCEPT !.rank = k, !.eliminated = e, !.eliminatedMs = m, !.exit = x]
               \in RaceRecords
  <1> DEFINE s1 == [rs EXCEPT !.rank = k]
             s2 == [s1 EXCEPT !.eliminated = e]
             s3 == [s2 EXCEPT !.eliminatedMs = m]
  <1>1. s1 \in RaceRecords
    BY UpdateType
  <1>2. s2 \in RaceRecords
    BY <1>1, UpdateType
  <1>3. s3 \in RaceRecords
    BY <1>2, UpdateType
  <1>4. [s3 EXCEPT !.exit = x] \in RaceRecords
    BY <1>3, UpdateType
  <1> QED
    BY <1>4

\* Marking lanes arrived writes two fields of the race, each of its type.
LEMMA FinishedType ==
    ASSUME NEW rs \in RaceRecords, NEW k \in PerLane(Nat), NEW m \in PerLane(Nat)
    PROVE  [rs EXCEPT !.rank = k, !.finishedMs = m] \in RaceRecords
  <1>1. [rs EXCEPT !.rank = k] \in RaceRecords
    BY UpdateType
  <1>2. [[rs EXCEPT !.rank = k] EXCEPT !.finishedMs = m] \in RaceRecords
    BY <1>1, UpdateType
  <1> QED
    BY <1>2

\* A hardware arrival corrects one lane.
LEMMA CompletedType ==
    ASSUME NEW rs \in RaceRecords, NEW r \in Lanes, NEW n \in Nat, NEW d \in Int
    PROVE  [rs EXCEPT !.ticks[r] = n, !.distance[r] = d] \in RaceRecords
  <1> DEFINE t == [rs.ticks EXCEPT ![r] = n]
             e == [rs.distance EXCEPT ![r] = d]
  <1>1. t \in PerLane(Nat) /\ e \in PerLane(Int)
    BY DEF RaceRecords, PerLane
  <1>2. [rs EXCEPT !.ticks[r] = n] = [rs EXCEPT !.ticks = t]
    OBVIOUS
  <1>3. [rs EXCEPT !.ticks = t] \in RaceRecords
    BY <1>1, UpdateType
  <1>4. [rs EXCEPT !.ticks = t].distance = rs.distance
    BY DEF RaceRecords
  <1> QED
    BY <1>1, <1>2, <1>3, <1>4, UpdateType

-----------------------------------------------------------------------------
(* Finite sets of lanes. *)

\* The hardware lanes are finitely many, so every set of lanes can be counted.
LEMMA LanesFinite ==
    ASSUME NEW S \in SUBSET Lanes
    PROVE  IsFiniteSet(S) /\ Cardinality(S) \in Nat
  <1>1. IsFiniteSet(Lanes)
    BY FS_Interval, EngineConstants DEF Lanes
  <1> QED
    BY <1>1, FS_Subset, FS_CardinalityType

\* The frame a rule decides on has the type of the race.
LEMMA ApplySampleType ==
    ASSUME config \in ConfigRecords,
           NEW rs \in RaceRecords, NEW accepted \in PerLane(Nat),
           NEW ms \in Nat, NEW peaks \in PerLane(Nat)
    PROVE  ApplySample(rs, accepted, ms, peaks) \in RaceRecords
  <1> DEFINE timed == rs.previousMs >= 0 /\ ms > rs.previousMs
             t == Over(rs.ticks, [r \in Racing(rs) |-> accepted[r]])
             d == Over(rs.distance,
                    [r \in Racing(rs) |-> TicksToMetres(accepted[r]) + rs.handicap[r]])
             p == Over(rs.peak,
                    [r \in {q \in Racing(rs) : timed} |-> Higher(rs.peak[r], peaks[r])])
  <1>1. ApplySample(rs, accepted, ms, peaks) =
            [rs EXCEPT !.elapsed = ms, !.previousMs = ms, !.ticks = t,
                       !.distance = d, !.peak = p]
    BY DEF ApplySample
  <1>2. Racing(rs) \subseteq Lanes
    BY DEF Racing, ConfigRecords
  <1>3. /\ rs.ticks \in PerLane(Nat) /\ rs.distance \in PerLane(Int)
        /\ rs.peak \in PerLane(Nat) /\ rs.handicap \in PerLane(Int)
    BY DEF RaceRecords
  <1>4. \A r \in Racing(rs) : /\ accepted[r] \in Nat
                              /\ TicksToMetres(accepted[r]) + rs.handicap[r] \in Int
                              /\ Higher(rs.peak[r], peaks[r]) \in Nat
    BY <1>2, <1>3, EngineConstants DEF PerLane, TicksToMetres, Higher
  <1>5. t \in PerLane(Nat) /\ d \in PerLane(Int) /\ p \in PerLane(Nat)
    BY <1>3, <1>4, OverType
  <1> HIDE DEF t, d, p
  <1>6. [rs EXCEPT !.elapsed = ms, !.previousMs = ms, !.ticks = t,
                   !.distance = d, !.peak = p] \in RaceRecords
    BY <1>5, SampledType
  <1> QED
    BY <1>1, <1>6

\* The lanes still racing are active lanes, and the active lanes are hardware lanes.
LEMMA RacingSubset ==
    ASSUME config \in ConfigRecords, NEW rs
    PROVE  /\ Racing(rs) \subseteq config.active
           /\ config.active \subseteq Lanes
           /\ IsFiniteSet(Racing(rs)) /\ Cardinality(Racing(rs)) \in Nat
           /\ IsFiniteSet(config.active) /\ Cardinality(config.active) \in Nat
  <1>1. Racing(rs) \subseteq config.active /\ config.active \subseteq Lanes
    BY DEF Racing, ConfigRecords
  <1> QED
    BY <1>1, LanesFinite

\* Lanes and their distances can be compared.
LEMMA DistanceType ==
    ASSUME NEW rs \in RaceRecords
    PROVE  Lanes \subseteq Int /\ \A r \in Lanes : rs.distance[r] \in Int
  <1>1. Lanes \subseteq Int
    BY EngineConstants DEF Lanes
  <1>2. rs.distance \in [Lanes -> Int]
    BY DEF RaceRecords, PerLane
  <1> QED
    BY <1>1, <1>2

\* RaceState.leader and trailer name a lane that is racing, as long as one is; no
\* lane still racing is sorted before the leader.
LEMMA LeaderIsRacing ==
    ASSUME config \in ConfigRecords, NEW rs \in RaceRecords, Racing(rs) # {}
    PROVE  /\ Leader(rs) \in Racing(rs)
           /\ \A q \in Racing(rs) : ~Farther(rs, q, Leader(rs))
  <1> DEFINE S == Racing(rs)
             R == {p \in S \X S : Farther(rs, p[1], p[2])}
  <1>1. S \subseteq Int /\ \A r \in S : rs.distance[r] \in Int
    BY RacingSubset, DistanceType
  <1>2. \A a, b \in S : <<a, b>> \in R <=> Farther(rs, a, b)
    OBVIOUS
  <1> HIDE DEF S, R
  <1>3. StrictTotalOrder(R, S)
    BY <1>1, <1>2, SMTT(30) DEF StrictTotalOrder, Farther
  <1>4. PICK r \in S : \A q \in S : <<q, r>> \notin R
    BY <1>3, RacingSubset, SomeoneIsFirst DEF S
  <1> DEFINE Leads(x) ==
               \A q \in S : \/ rs.distance[q] < rs.distance[x]
                            \/ rs.distance[q] = rs.distance[x] /\ x <= q
             leader == CHOOSE x \in S : Leads(x)
  <1>5. Leads(r)
    <2> TAKE q \in S
    <2>1. ~Farther(rs, q, r)
      BY <1>2, <1>4
    <2>2. q \in Int /\ r \in Int /\ rs.distance[q] \in Int /\ rs.distance[r] \in Int
      BY <1>1, <1>4
    <2> QED
      BY <2>1, <2>2 DEF Farther
  <1>6. Leader(rs) = leader
    BY DEF Leader, S
  <1>7. leader \in S /\ Leads(leader)
    <2> HIDE DEF Leads
    <2> QED
      BY <1>4, <1>5
  <1> HIDE DEF leader
  <1>8. \A q \in S : ~Farther(rs, q, leader)
    <2> TAKE q \in S
    <2>1. q \in Int /\ leader \in Int /\ rs.distance[q] \in Int /\ rs.distance[leader] \in Int
      BY <1>1, <1>7
    <2> QED
      BY <1>7, <2>1 DEF Farther
  <1> QED
    BY <1>6, <1>7, <1>8 DEF S

\* The lane a pursuit takes out is one of those still racing.
LEMMA TrailerIsRacing ==
    ASSUME config \in ConfigRecords, NEW rs \in RaceRecords, Racing(rs) # {}
    PROVE  Trailer(rs) \in Racing(rs)
  <1> DEFINE S == Racing(rs)
             Closer(a, b) == \/ rs.distance[a] < rs.distance[b]
                             \/ rs.distance[a] = rs.distance[b] /\ a < b
             R == {p \in S \X S : Closer(p[1], p[2])}
  <1>1. S \subseteq Int /\ \A r \in S : rs.distance[r] \in Int
    BY RacingSubset, DistanceType
  <1>2. \A a, b \in S : <<a, b>> \in R <=> Closer(a, b)
    OBVIOUS
  <1> HIDE DEF S, R
  <1>3. StrictTotalOrder(R, S)
    BY <1>1, <1>2, SMTT(30) DEF StrictTotalOrder
  <1>4. PICK r \in S : \A q \in S : <<q, r>> \notin R
    BY <1>3, RacingSubset, SomeoneIsFirst DEF S
  <1>5. \A q \in S : \/ rs.distance[q] > rs.distance[r]
                     \/ rs.distance[q] = rs.distance[r] /\ r <= q
    <2> TAKE q \in S
    <2>1. ~Closer(q, r)
      BY <1>2, <1>4
    <2>2. q \in Int /\ r \in Int /\ rs.distance[q] \in Int /\ rs.distance[r] \in Int
      BY <1>1, <1>4
    <2> QED
      BY <2>1, <2>2
  <1> QED
    BY <1>4, <1>5 DEF Trailer, S

-----------------------------------------------------------------------------
(* Verdicts. *)

\* What the engine may rely on in a verdict: it names active lanes, takes at
\* most one out, and only in a pursuit.
GoodVerdict(rs, verdict) ==
    /\ verdict.reason \in Reasons
    /\ verdict.done \subseteq config.active
    /\ verdict.out \subseteq Racing(rs)
    /\ config.mode # "pursuit" => verdict.out = {}
    /\ config.mode = "pursuit" => verdict.done \subseteq Racing(rs)
    /\ \A a, b \in verdict.out : a = b

\* Whatever the rule and the race, the verdict is one the engine may apply.
LEMMA VerdictType ==
    ASSUME config \in ConfigRecords, NEW rs \in RaceRecords
    PROVE  GoodVerdict(rs, Evaluate(rs))
  <1>1. CASE config.mode = "distance"
    <2>1. Evaluate(rs) = EvaluateDistance(rs)
      BY <1>1 DEF Evaluate
    <2> QED
      BY <1>1, <2>1 DEF EvaluateDistance, GoodVerdict, Reasons
  <1>2. CASE config.mode = "time"
    <2>1. Evaluate(rs) = EvaluateTime(rs)
      BY <1>2 DEF Evaluate
    <2> QED
      BY <1>2, <2>1 DEF EvaluateTime, NoVerdict, GoodVerdict, Reasons
  <1>3. CASE config.mode = "pursuit"
    <2>1. Evaluate(rs) = EvaluatePursuit(rs)
      BY <1>3 DEF Evaluate
    <2>2. SafetyCap(rs) \in Reasons
      BY DEF SafetyCap, Reasons
    <2>3. Cardinality(Racing(rs)) <= 1 \/ Racing(rs) # {}
      BY FS_EmptySet
    <2>4. CASE Cardinality(Racing(rs)) <= 1
      BY <1>3, <2>1, <2>4 DEF EvaluatePursuit, NoVerdict, GoodVerdict, Reasons
    <2>5. CASE ~(Cardinality(Racing(rs)) <= 1)
      <3>1. Leader(rs) \in Racing(rs) /\ Trailer(rs) \in Racing(rs)
        BY <2>3, <2>5, LeaderIsRacing, TrailerIsRacing
      <3>2. Racing(rs) \subseteq config.active
        BY RacingSubset
      <3> QED
        BY <1>3, <2>1, <2>2, <2>5, <3>1, <3>2
        DEF EvaluatePursuit, NoVerdict, GoodVerdict, Reasons
    <2> QED
      BY <2>4, <2>5
  <1> QED
    BY <1>1, <1>2, <1>3 DEF ConfigRecords, Modes

-----------------------------------------------------------------------------
(* Applying a verdict. *)

\* The lanes that have gone out.
Gone(rs) == {q \in config.active : rs.eliminated[q]}

\* Writing over a function changes the lanes it is told to.
LEMMA OverAt ==
    ASSUME NEW f, NEW g, NEW r \in Lanes
    PROVE  /\ r \in DOMAIN g => Over(f, g)[r] = g[r]
           /\ r \notin DOMAIN g => Over(f, g)[r] = f[r]
  BY DEF Over

\* The ranks and exit numbers the engine hands out are natural numbers.
LEMMA CountType ==
    ASSUME config \in ConfigRecords, NEW rs \in RaceRecords
    PROVE  /\ NextFinishRank(rs) \in Nat
           /\ NextEliminationRank(rs) \in Nat
           /\ Cardinality(Gone(rs)) \in Nat
  <1> DEFINE A == {r \in config.active : Arrived(rs, r)}
             B == {r \in config.active : rs.rank[r] = 0}
             C == Gone(rs)
  <1>1. A \in SUBSET Lanes /\ B \in SUBSET Lanes /\ C \in SUBSET Lanes
    BY RacingSubset DEF Gone
  <1>2. Cardinality(A) \in Nat /\ Cardinality(B) \in Nat /\ Cardinality(C) \in Nat
    BY <1>1, LanesFinite
  <1> QED
    BY <1>2 DEF NextFinishRank, NextEliminationRank

\* Eliminating keeps the type, touches no lane but those named and leaves the
\* arrivals alone.
LEMMA EliminateFacts ==
    ASSUME config \in ConfigRecords, NEW rs \in RaceRecords, NEW out
    PROVE  /\ Eliminate(rs, out) \in RaceRecords
           /\ Eliminate(rs, out).finishedMs = rs.finishedMs
           /\ Eliminate(rs, out).elapsed = rs.elapsed
           /\ Eliminate(rs, out).ticks = rs.ticks
           /\ Eliminate(rs, out).distance = rs.distance
           /\ Eliminate(rs, out).peak = rs.peak
           /\ Eliminate(rs, out).handicap = rs.handicap
           /\ \A r \in Lanes :
                Eliminate(rs, out).eliminated[r] <=> rs.eliminated[r] \/ r \in out
           /\ \A r \in Lanes : r \in out /\ ~rs.eliminated[r] =>
                Eliminate(rs, out).exit[r] = Cardinality(Gone(rs)) + 1
           /\ \A r \in Lanes : r \notin out \/ rs.eliminated[r] =>
                /\ Eliminate(rs, out).exit[r] = rs.exit[r]
                /\ Eliminate(rs, out).rank[r] = rs.rank[r]
                /\ Eliminate(rs, out).eliminatedMs[r] = rs.eliminatedMs[r]
  <1> DEFINE new == {r \in out : ~rs.eliminated[r]}
             count == Cardinality(Gone(rs)) + 1
             k == Over(rs.rank, [r \in new |-> NextEliminationRank(rs)])
             e == Over(rs.eliminated, [r \in new |-> TRUE])
             m == Over(rs.eliminatedMs, [r \in new |-> rs.elapsed])
             x == Over(rs.exit, [r \in new |-> count])
             after == [rs EXCEPT !.rank = k, !.eliminated = e, !.eliminatedMs = m, !.exit = x]
  <1>1. Eliminate(rs, out) = after
    BY DEF Eliminate, Gone
  <1>2. /\ rs.rank \in PerLane(Nat) /\ rs.eliminated \in PerLane(BOOLEAN)
        /\ rs.eliminatedMs \in PerLane(Nat) /\ rs.exit \in PerLane(Nat)
        /\ rs.elapsed \in Nat
    BY DEF RaceRecords
  <1>3. count \in Nat /\ NextEliminationRank(rs) \in Nat
    BY CountType
  <1> HIDE DEF count
  <1>4. k \in PerLane(Nat) /\ e \in PerLane(BOOLEAN) /\ m \in PerLane(Nat) /\ x \in PerLane(Nat)
    BY <1>2, <1>3, OverType
  <1>5. \A r \in Lanes :
          /\ r \in new => e[r] = TRUE /\ x[r] = count
          /\ r \notin new => /\ e[r] = rs.eliminated[r] /\ x[r] = rs.exit[r]
                             /\ k[r] = rs.rank[r] /\ m[r] = rs.eliminatedMs[r]
    BY OverAt
  <1> HIDE DEF k, e, m, x
  <1>6. after \in RaceRecords
    BY <1>4, EliminatedType
  <1>7. /\ after.finishedMs = rs.finishedMs /\ after.elapsed = rs.elapsed
        /\ after.ticks = rs.ticks /\ after.distance = rs.distance
        /\ after.peak = rs.peak /\ after.handicap = rs.handicap
        /\ after.rank = k /\ after.eliminated = e
        /\ after.eliminatedMs = m /\ after.exit = x
    BY DEF RaceRecords
  <1> HIDE DEF after
  <1> QED
    BY <1>1, <1>5, <1>6, <1>7 DEF count

\* Finishing keeps the type, touches no lane but those named that had not
\* arrived, and leaves the eliminations alone.
LEMMA FinishFacts ==
    ASSUME config \in ConfigRecords, NEW rs \in RaceRecords,
           NEW done \in SUBSET config.active
    PROVE  /\ Finish(rs, done) \in RaceRecords
           /\ Finish(rs, done).elapsed = rs.elapsed
           /\ Finish(rs, done).ticks = rs.ticks
           /\ Finish(rs, done).distance = rs.distance
           /\ Finish(rs, done).peak = rs.peak
           /\ Finish(rs, done).handicap = rs.handicap
           /\ Finish(rs, done).eliminated = rs.eliminated
           /\ Finish(rs, done).eliminatedMs = rs.eliminatedMs
           /\ Finish(rs, done).exit = rs.exit
           /\ \A r \in Lanes :
                \/ /\ r \in done /\ rs.finishedMs[r] = 0
                   /\ Finish(rs, done).finishedMs[r] = rs.elapsed
                \/ /\ ~(r \in done /\ rs.finishedMs[r] = 0)
                   /\ Finish(rs, done).finishedMs[r] = rs.finishedMs[r]
                   /\ Finish(rs, done).rank[r] = rs.rank[r]
  <1> DEFINE new == {r \in done : ~Arrived(rs, r)}
             counted(r) == IF rs.elapsed = 0 THEN {} ELSE {q \in new : q < r}
             k == Over(rs.rank, [r \in new |-> NextFinishRank(rs) + Cardinality(counted(r))])
             m == Over(rs.finishedMs, [r \in new |-> rs.elapsed])
             after == [rs EXCEPT !.rank = k, !.finishedMs = m]
  <1>1. Finish(rs, done) = after
    BY DEF Finish
  <1>2. rs.rank \in PerLane(Nat) /\ rs.finishedMs \in PerLane(Nat) /\ rs.elapsed \in Nat
    BY DEF RaceRecords
  <1>3. \A r \in new : NextFinishRank(rs) + Cardinality(counted(r)) \in Nat
    <2> TAKE r \in new
    <2>1. counted(r) \in SUBSET Lanes
      BY RacingSubset
    <2>2. Cardinality(counted(r)) \in Nat
      BY <2>1, LanesFinite
    <2>3. NextFinishRank(rs) \in Nat
      BY CountType
    <2> HIDE DEF counted
    <2> QED
      BY <2>2, <2>3
  <1>4. k \in PerLane(Nat) /\ m \in PerLane(Nat)
    BY <1>2, <1>3, OverType
  <1>5. \A r \in Lanes :
          /\ r \in new => m[r] = rs.elapsed
          /\ r \notin new => m[r] = rs.finishedMs[r] /\ k[r] = rs.rank[r]
    BY OverAt
  <1>6. \A r \in Lanes : r \in new <=> r \in done /\ rs.finishedMs[r] = 0
    BY DEF Arrived
  <1> HIDE DEF k, m, new
  <1>7. after \in RaceRecords
    BY <1>4, FinishedType
  <1>8. /\ after.elapsed = rs.elapsed /\ after.ticks = rs.ticks
        /\ after.distance = rs.distance /\ after.peak = rs.peak
        /\ after.handicap = rs.handicap /\ after.eliminated = rs.eliminated
        /\ after.eliminatedMs = rs.eliminatedMs /\ after.exit = rs.exit
        /\ after.rank = k /\ after.finishedMs = m
    BY DEF RaceRecords
  <1> HIDE DEF after
  <1> QED
    BY <1>1, <1>5, <1>6, <1>7, <1>8

\* The final ranking rewrites the ranks of the active lanes, nothing else.
LEMMA FinalRankingFacts ==
    ASSUME config \in ConfigRecords, NEW rs \in RaceRecords
    PROVE  /\ FinalRanking(rs) \in RaceRecords
           /\ FinalRanking(rs).elapsed = rs.elapsed
           /\ FinalRanking(rs).ticks = rs.ticks
           /\ FinalRanking(rs).distance = rs.distance
           /\ FinalRanking(rs).peak = rs.peak
           /\ FinalRanking(rs).handicap = rs.handicap
           /\ FinalRanking(rs).finishedMs = rs.finishedMs
           /\ FinalRanking(rs).eliminated = rs.eliminated
           /\ FinalRanking(rs).eliminatedMs = rs.eliminatedMs
           /\ FinalRanking(rs).exit = rs.exit
           /\ \A r \in config.active : FinalRanking(rs).rank[r] = Place(rs, r)
           /\ \A r \in Lanes \ config.active : FinalRanking(rs).rank[r] = rs.rank[r]
  <1> DEFINE k == Over(rs.rank, [r \in config.active |-> Place(rs, r)])
             after == [rs EXCEPT !.rank = k]
  <1>1. FinalRanking(rs) = after
    BY DEF FinalRanking
  <1>2. config.active \subseteq Lanes
    BY RacingSubset
  <1>3. \A r \in config.active : Place(rs, r) \in Nat
    <2> TAKE r \in config.active
    <2>1. Cardinality({q \in config.active : Ahead(rs, q, r)}) \in Nat
      BY <1>2, LanesFinite
    <2> QED
      BY <2>1 DEF Place
  <1>4. rs.rank \in PerLane(Nat)
    BY DEF RaceRecords
  <1>5. k \in PerLane(Nat)
    BY <1>3, <1>4, OverType
  <1>6. /\ \A r \in config.active : k[r] = Place(rs, r)
        /\ \A r \in Lanes \ config.active : k[r] = rs.rank[r]
    BY <1>2, OverAt
  <1> HIDE DEF k
  <1>7. after \in RaceRecords
    BY <1>5, UpdateType
  <1>8. /\ after.elapsed = rs.elapsed /\ after.ticks = rs.ticks
        /\ after.distance = rs.distance /\ after.peak = rs.peak
        /\ after.handicap = rs.handicap /\ after.finishedMs = rs.finishedMs
        /\ after.eliminated = rs.eliminated /\ after.eliminatedMs = rs.eliminatedMs
        /\ after.exit = rs.exit /\ after.rank = k
    BY DEF RaceRecords
  <1> HIDE DEF after
  <1> QED
    BY <1>1, <1>6, <1>7, <1>8

\* The frame the rule decides on keeps the classification as it was, and the
\* figures of the lanes already classified.
LEMMA ApplySampleFacts ==
    ASSUME config \in ConfigRecords,
           NEW rs \in RaceRecords, NEW accepted \in PerLane(Nat),
           NEW ms \in Nat, NEW peaks \in PerLane(Nat)
    PROVE  LET after == ApplySample(rs, accepted, ms, peaks)
           IN  /\ after.finishedMs = rs.finishedMs
               /\ after.eliminated = rs.eliminated
               /\ after.eliminatedMs = rs.eliminatedMs
               /\ after.exit = rs.exit
               /\ after.rank = rs.rank
               /\ after.handicap = rs.handicap
               /\ \A r \in Lanes \ Racing(rs) :
                    /\ after.ticks[r] = rs.ticks[r]
                    /\ after.distance[r] = rs.distance[r]
                    /\ after.peak[r] = rs.peak[r]
  <1> DEFINE timed == rs.previousMs >= 0 /\ ms > rs.previousMs
             t == Over(rs.ticks, [r \in Racing(rs) |-> accepted[r]])
             d == Over(rs.distance,
                    [r \in Racing(rs) |-> TicksToMetres(accepted[r]) + rs.handicap[r]])
             p == Over(rs.peak,
                    [r \in {q \in Racing(rs) : timed} |-> Higher(rs.peak[r], peaks[r])])
             after == [rs EXCEPT !.elapsed = ms, !.previousMs = ms, !.ticks = t,
                                 !.distance = d, !.peak = p]
  <1>1. ApplySample(rs, accepted, ms, peaks) = after
    BY DEF ApplySample
  <1>2. \A r \in Lanes \ Racing(rs) : t[r] = rs.ticks[r] /\ d[r] = rs.distance[r]
                                      /\ p[r] = rs.peak[r]
    BY OverAt
  <1> HIDE DEF t, d, p
  <1>3. /\ after.finishedMs = rs.finishedMs /\ after.eliminated = rs.eliminated
        /\ after.eliminatedMs = rs.eliminatedMs /\ after.exit = rs.exit
        /\ after.rank = rs.rank /\ after.handicap = rs.handicap
        /\ after.ticks = t /\ after.distance = d /\ after.peak = p
    BY DEF RaceRecords
  <1> HIDE DEF after
  <1> QED
    BY <1>1, <1>2, <1>3

-----------------------------------------------------------------------------
(* Types. *)

\* _apply_verdict keeps the type of the race.
LEMMA AppliedType ==
    ASSUME config \in ConfigRecords, NEW rs \in RaceRecords
    PROVE  Applied(rs, Evaluate(rs)) \in RaceRecords
  <1>1. Evaluate(rs).done \in SUBSET config.active
    BY VerdictType DEF GoodVerdict
  <1>2. Eliminate(rs, Evaluate(rs).out) \in RaceRecords
    BY EliminateFacts
  <1> QED
    BY <1>1, <1>2, FinishFacts DEF Applied

\* TickFilter.accept keeps the type of the filter.
LEMMA AcceptType ==
    ASSUME config \in ConfigRecords, NEW f \in Filters, NEW frame \in PerLane(Nat),
           NEW ms \in Nat
    PROVE  Accept(f, frame, ms) \in Filters
  <1> DEFINE kept(delta) == {r \in config.active : Plausible(f.accepted[r], frame[r], delta)}
  <1>1. f.accepted \in PerLane(Nat)
    BY DEF Filters
  <1>2. ASSUME NEW delta
        PROVE  Over(f.accepted, [r \in kept(delta) |-> frame[r]]) \in PerLane(Nat)
    <2>1. \A r \in kept(delta) : frame[r] \in Nat
      BY RacingSubset DEF PerLane
    <2> HIDE DEF kept
    <2> QED
      BY <1>1, <2>1, OverType
  <1> QED
    BY <1>2 DEF Accept, Filters

\* The end of a frame, verdict applied and race concluded or not, keeps the types.
LEMMA SettleType ==
    ASSUME TypeOK, NEW rs \in RaceRecords, Settle(rs)
    PROVE  /\ race' \in RaceRecords
           /\ state' \in {"RUNNING", "FINISHED"}
           /\ result' \in Results
           /\ command' \in {"none", "g", "s"}
           /\ announced' \in PerLane(Nat)
  <1> DEFINE verdict == Evaluate(rs)
             settled == Applied(rs, verdict)
  <1>1. Conclude(rs, verdict, settled)
    BY DEF Settle
  <1>2. config \in ConfigRecords
    BY DEF TypeOK
  <1>3. GoodVerdict(rs, verdict)
    BY <1>2, VerdictType
  <1>4. settled \in RaceRecords /\ FinalRanking(settled) \in RaceRecords
    BY <1>2, AppliedType, FinalRankingFacts
  <1> HIDE DEF verdict, settled
  <1>5. \A r \in Told(rs, verdict) : settled.rank[r] \in Nat
    <2>1. Told(rs, verdict) \subseteq Lanes
      BY <1>2, <1>3, RacingSubset DEF Told, GoodVerdict
    <2>2. settled.rank \in PerLane(Nat)
      BY <1>4 DEF RaceRecords
    <2> QED
      BY <2>1, <2>2 DEF PerLane
  <1>6. announced' \in PerLane(Nat)
    <2>1. announced \in PerLane(Nat)
      BY DEF TypeOK
    <2> QED
      BY <1>1, <1>5, <2>1, OverType DEF Conclude
  <1>7. CASE verdict.reason = "NONE"
    BY <1>1, <1>4, <1>6, <1>7 DEF TypeOK, Conclude
  <1>8. CASE verdict.reason # "NONE"
    <2>1. Capped(verdict.reason) \in BOOLEAN /\ verdict.reason \in Reasons
      BY <1>3 DEF Capped, GoodVerdict
    <2> QED
      BY <1>1, <1>4, <1>6, <1>8, <2>1 DEF Results, Conclude
  <1> QED
    BY <1>7, <1>8

\* note_hardware_finish corrects the ticks and distance of one lane, and nothing else.
LEMMA CompletedFacts ==
    ASSUME config \in ConfigRecords, NEW rs \in RaceRecords, NEW r \in Lanes
    PROVE  /\ Completed(rs, r) \in RaceRecords
           /\ Completed(rs, r).finishedMs = rs.finishedMs
           /\ Completed(rs, r).eliminated = rs.eliminated
           /\ Completed(rs, r).eliminatedMs = rs.eliminatedMs
           /\ Completed(rs, r).exit = rs.exit
           /\ Completed(rs, r).rank = rs.rank
           /\ Completed(rs, r).handicap = rs.handicap
           /\ Completed(rs, r).peak = rs.peak
           /\ \A q \in Lanes \ {r} :
                /\ Completed(rs, r).ticks[q] = rs.ticks[q]
                /\ Completed(rs, r).distance[q] = rs.distance[q]
  <1> DEFINE n == TargetFor(rs, r)
             d == TicksToMetres(n) + rs.handicap[r]
             after == [rs EXCEPT !.ticks[r] = n, !.distance[r] = d]
  <1>1. Completed(rs, r) = after
    BY DEF Completed
  <1>2. rs.handicap[r] \in Int /\ config.metres \in Int
    BY DEF RaceRecords, PerLane, ConfigRecords
  <1>3. n \in Nat
    BY <1>2, EngineConstants DEF TargetFor, MetresToTicks
  <1>4. d \in Int
    BY <1>2, <1>3, EngineConstants DEF TicksToMetres
  <1> HIDE DEF n, d
  <1>5. after \in RaceRecords
    BY <1>3, <1>4, CompletedType
  <1>6. /\ after.finishedMs = rs.finishedMs /\ after.eliminated = rs.eliminated
        /\ after.eliminatedMs = rs.eliminatedMs /\ after.exit = rs.exit
        /\ after.rank = rs.rank /\ after.handicap = rs.handicap
        /\ after.peak = rs.peak
        /\ after.ticks = [rs.ticks EXCEPT ![r] = n]
        /\ after.distance = [rs.distance EXCEPT ![r] = d]
    BY DEF RaceRecords
  <1>7. rs.ticks \in PerLane(Nat) /\ rs.distance \in PerLane(Int)
    BY DEF RaceRecords
  <1> HIDE DEF after
  <1> QED
    BY <1>1, <1>5, <1>6, <1>7 DEF PerLane

\* The values arm and the constructor put in place are of their types.
LEMMA StartType ==
    /\ NewRace \in RaceRecords
    /\ NewFilter \in Filters
    /\ NoConfig \in ConfigRecords
    /\ NoResult \in Results
    /\ Zero \in PerLane(Nat)
  BY DEF NewRace, RaceRecords, PerLane, Zero, Never, NewFilter, Filters, NoConfig,
         ConfigRecords, Modes, Policies, NoResult, Results, Reasons

\* The frames and peaks the box may hand over are of their types.
LEMMA FrameType ==
    ASSUME config \in ConfigRecords
    PROVE  /\ Frames \subseteq PerLane(Nat)
           /\ Peaks \subseteq PerLane(Nat)
           /\ 0 .. MaxMs \subseteq Nat
  <1>1. ASSUME NEW f \in [config.active -> 0 .. MaxTicks]
        PROVE  Over([r \in Lanes |-> MaxTicks], f) \in PerLane(Nat)
    <2>1. [r \in Lanes |-> MaxTicks] \in PerLane(Nat)
      BY EngineConstants DEF PerLane
    <2>2. \A r \in DOMAIN f : f[r] \in Nat
      BY <1>1, EngineConstants
    <2> QED
      BY <2>1, <2>2, OverType
  <1>2. ASSUME NEW p \in [config.active -> PeakLevels]
        PROVE  Over(Zero, p) \in PerLane(Nat)
    <2>1. \A r \in DOMAIN p : p[r] \in Nat
      BY <1>2, EngineConstants
    <2> QED
      BY <2>1, StartType, OverType
  <1> QED
    BY <1>1, <1>2, StartType, EngineConstants DEF Frames, Peaks

\* abort keeps the types, from RUNNING where it ranks and from the other states.
LEMMA AbortType ==
    ASSUME TypeOK, NEW rs \in RaceRecords, AbortFrom(rs)
    PROVE  TypeOK'
  <1>1. FinalRanking(rs) \in RaceRecords
    BY FinalRankingFacts DEF TypeOK
  <1>2. race' \in RaceRecords
    BY <1>1 DEF AbortFrom
  <1>3. result' \in Results
    <2>1. \/ result' = NoResult
          \/ result' = [kind |-> "partial", reason |-> "NONE", interrupted |-> TRUE]
      BY DEF AbortFrom
    <2>2. [kind |-> "partial", reason |-> "NONE", interrupted |-> TRUE] \in Results
      BY DEF Results, Reasons
    <2> QED
      BY <2>1, <2>2, StartType
  <1> QED
    BY <1>2, <1>3 DEF AbortFrom, TypeOK, States

\* Noting a false start, or its penalty, keeps the type of the race.
LEMMA FalseStartType ==
    ASSUME NEW rs \in RaceRecords, NEW r \in Lanes
    PROVE  /\ [rs EXCEPT !.falseStarted[r] = TRUE] \in RaceRecords
           /\ \A n \in Int : [rs EXCEPT !.handicap[r] = n] \in RaceRecords
  <1>1. [rs EXCEPT !.falseStarted[r] = TRUE] \in RaceRecords
    <2> DEFINE f == [rs.falseStarted EXCEPT ![r] = TRUE]
    <2>1. f \in PerLane(BOOLEAN)
      BY DEF RaceRecords, PerLane
    <2>2. [rs EXCEPT !.falseStarted[r] = TRUE] = [rs EXCEPT !.falseStarted = f]
      OBVIOUS
    <2> HIDE DEF f
    <2> QED
      BY <2>1, <2>2, UpdateType
  <1>2. ASSUME NEW n \in Int
        PROVE  [rs EXCEPT !.handicap[r] = n] \in RaceRecords
    <2> DEFINE h == [rs.handicap EXCEPT ![r] = n]
    <2>1. h \in PerLane(Int)
      BY DEF RaceRecords, PerLane
    <2>2. [rs EXCEPT !.handicap[r] = n] = [rs EXCEPT !.handicap = h]
      OBVIOUS
    <2> HIDE DEF h
    <2> QED
      BY <2>1, <2>2, UpdateType
  <1> QED
    BY <1>1, <1>2

\* Every step keeps the types.
LEMMA TypeStep ==
    ASSUME TypeOK, [Next]_vars
    PROVE  TypeOK'
  <1> USE DEF TypeOK
  <1>1. ASSUME NEW c \in Configs, Arm(c)
        PROVE  TypeOK'
    BY <1>1, StartType, EngineConstants DEF Arm, States, ArmingCommands
  <1>2. CASE Tick
    BY <1>2 DEF Tick, States
  <1>3. ASSUME NEW value \in 0 .. 3, OnCountdown(value)
        PROVE  TypeOK'
    BY <1>3 DEF OnCountdown, States
  <1>4. ASSUME NEW frame \in Frames, NEW ms \in 0 .. MaxMs, NEW peaks \in Peaks,
               OnProgress(frame, ms, peaks)
        PROVE  TypeOK'
    <2>1. frame \in PerLane(Nat) /\ peaks \in PerLane(Nat) /\ ms \in Nat
      BY FrameType
    <2>2. filter' \in Filters
      BY <1>4, <2>1, AcceptType DEF OnProgress
    <2>3. PICK rs \in {ApplySample(race, filter'.accepted, ms, peaks)} : Settle(rs)
      BY <1>4 DEF OnProgress
    <2>4. filter'.accepted \in PerLane(Nat)
      BY <2>2 DEF Filters
    <2>5. rs \in RaceRecords
      BY <2>1, <2>3, <2>4, ApplySampleType
    <2> QED
      BY <1>4, <2>2, <2>3, <2>5, SettleType DEF OnProgress, States
  <1>5. ASSUME NEW r \in Lanes, OnRiderFinish(r)
        PROVE  TypeOK'
    <2>1. PICK rs \in {Completed(race, r)} : Settle(rs)
      BY <1>5 DEF OnRiderFinish
    <2>2. rs \in RaceRecords
      BY <2>1, CompletedFacts
    <2> QED
      BY <1>5, <2>1, <2>2, SettleType DEF OnRiderFinish, States
  <1>6. ASSUME NEW r \in Lanes, OnFalseStart(r)
        PROVE  TypeOK'
    <2> DEFINE noted == [race EXCEPT !.falseStarted[r] = TRUE]
    <2>1. noted \in RaceRecords
      <3>1. race \in RaceRecords
        OBVIOUS
      <3> QED
        BY <3>1, FalseStartType
    <2>2. config.penalty \in Int
      BY DEF ConfigRecords
    <2>3. -config.penalty \in Int
      BY <2>2
    <2>4. [noted EXCEPT !.handicap[r] = -config.penalty] \in RaceRecords
      BY <2>1, <2>3, FalseStartType
    <2> HIDE DEF noted
    <2>5. CASE AbortFrom(noted)
      BY <2>1, <2>5, AbortType
    <2>6. CASE ~AbortFrom(noted)
      BY <1>6, <2>1, <2>4, <2>6 DEF OnFalseStart, noted
    <2> QED
      BY <2>5, <2>6
  <1>7. CASE Abort
    BY <1>7, AbortType DEF Abort
  <1>8. CASE OnLinkLostBeyondGrace
    BY <1>8, AbortType DEF OnLinkLostBeyondGrace
  <1>9. CASE ShowResults
    BY <1>9 DEF ShowResults, States
  <1>10. CASE Acknowledge
    BY <1>10 DEF Acknowledge, States
  <1>11. CASE UNCHANGED vars
    BY <1>11 DEF vars
  <1> QED
    BY <1>1, <1>2, <1>3, <1>4, <1>5, <1>6, <1>7, <1>8, <1>9, <1>10, <1>11
    DEF Next, Progress

-----------------------------------------------------------------------------
(* First theorems: the types, and the box. *)

\* Every variable keeps its type, whatever the operator, the box and the line
\* do.
THEOREM TypeCorrect == Spec => []TypeOK
  <1>1. Init => TypeOK
    BY StartType DEF Init, TypeOK, States
  <1> QED
    BY <1>1, TypeStep, PTL DEF Spec

\* The end of a frame tells the box to stop exactly when it ends the race.
LEMMA SettleBox ==
    ASSUME NEW rs, Settle(rs), state \in Busy, BoxFollowsEngine
    PROVE  BoxFollowsEngine'
  <1>1. Conclude(rs, Evaluate(rs), Applied(rs, Evaluate(rs)))
    BY DEF Settle
  <1>2. CASE state' = "RUNNING" /\ command' = command
    BY <1>2 DEF BoxFollowsEngine, Busy
  <1>3. CASE state' = "FINISHED" /\ command' = "s"
    BY <1>3 DEF BoxFollowsEngine, Busy
  <1> QED
    BY <1>1, <1>2, <1>3 DEF Conclude

\* Whichever way a race ends, the last word the box heard is `s`, and a race
\* never starts without a `g`.
THEOREM BoxObeys == Spec => []BoxFollowsEngine
  <1>1. Init => BoxFollowsEngine
    BY DEF Init, BoxFollowsEngine, Busy
  <1>2. ASSUME BoxFollowsEngine, [Next]_vars
        PROVE  BoxFollowsEngine'
    <2> USE <1>2 DEF BoxFollowsEngine, Busy
    <2>1. ASSUME NEW c \in Configs, Arm(c)
          PROVE  BoxFollowsEngine'
      BY <2>1 DEF Arm, ArmingCommands
    <2>2. CASE Tick
      BY <2>2 DEF Tick
    <2>3. ASSUME NEW value \in 0 .. 3, OnCountdown(value)
          PROVE  BoxFollowsEngine'
      BY <2>3 DEF OnCountdown
    <2>4. ASSUME NEW frame, NEW ms, NEW peaks, OnProgress(frame, ms, peaks)
          PROVE  BoxFollowsEngine'
      BY <2>4, SettleBox DEF OnProgress
    <2>5. ASSUME NEW r \in Lanes, OnRiderFinish(r)
          PROVE  BoxFollowsEngine'
      BY <2>5, SettleBox DEF OnRiderFinish
    <2>6. ASSUME NEW r \in Lanes, OnFalseStart(r)
          PROVE  BoxFollowsEngine'
      BY <2>6 DEF OnFalseStart, AbortFrom
    <2>7. CASE Abort
      BY <2>7 DEF Abort, AbortFrom
    <2>8. CASE OnLinkLostBeyondGrace
      BY <2>8 DEF OnLinkLostBeyondGrace, AbortFrom
    <2>9. CASE ShowResults
      BY <2>9 DEF ShowResults
    <2>10. CASE Acknowledge
      BY <2>10 DEF Acknowledge
    <2>11. CASE UNCHANGED vars
      BY <2>11 DEF vars
    <2> QED
      BY <2>1, <2>2, <2>3, <2>4, <2>5, <2>6, <2>7, <2>8, <2>9, <2>10, <2>11
      DEF Next, Progress
  <1> QED
    BY <1>1, <1>2, PTL DEF Spec

-----------------------------------------------------------------------------
(* The shape of a race. *)

\* note_elimination numbers the lanes that go out, one number each.
ExitsNumbered(rs) ==
    /\ \A a \in Gone(rs) : rs.exit[a] \in 1 .. Cardinality(Gone(rs))
    /\ \A a, b \in Gone(rs) : rs.exit[a] = rs.exit[b] => a = b

OnlyPursuitEliminates(rs) ==
    config.mode # "pursuit" => \A r \in Lanes : ~rs.eliminated[r]

IdleUnranked(rs) == \A r \in Lanes \ config.active : rs.rank[r] = 0

Shape(rs) == ExitsNumbered(rs) /\ OnlyPursuitEliminates(rs) /\ IdleUnranked(rs)

\* Somebody is still racing, and in a pursuit somebody to be caught.
Contested(rs) == Cardinality(Racing(rs)) >= IF config.mode = "pursuit" THEN 2 ELSE 1

\* Each active lane has one place, the idle lanes none.
Ranked(rs) ==
    /\ {rs.rank[r] : r \in config.active} = 1 .. Cardinality(config.active)
    /\ \A r \in Lanes \ config.active : rs.rank[r] = 0

\* Each of the three is needed for the others: a result is only drawn from a
\* race whose shape is sound, and while a race is on nothing else is kept.
Sound ==
    /\ Shape(race)
    /\ state \in Busy => Contested(race) /\ result.kind = "none"
    /\ result.kind # "none" => Ranked(race)

IInv == TypeOK /\ Sound

-----------------------------------------------------------------------------
(* The final ranking is a strict total order. *)

\* What the final rankings compare can be compared.
LEMMA RaceTypes ==
    ASSUME NEW rs \in RaceRecords, NEW r \in Lanes
    PROVE  /\ r \in Int /\ rs.distance[r] \in Int /\ rs.peak[r] \in Int
           /\ rs.finishedMs[r] \in Nat /\ rs.exit[r] \in Nat /\ rs.rank[r] \in Nat
           /\ rs.eliminated[r] \in BOOLEAN
  <1>1. r \in Int
    BY EngineConstants DEF Lanes
  <1>2. /\ rs.distance \in PerLane(Int) /\ rs.peak \in PerLane(Nat)
        /\ rs.finishedMs \in PerLane(Nat) /\ rs.exit \in PerLane(Nat)
        /\ rs.rank \in PerLane(Nat) /\ rs.eliminated \in PerLane(BOOLEAN)
    BY DEF RaceRecords
  <1> QED
    BY <1>1, <1>2 DEF PerLane

AheadPairs(rs) == {p \in config.active \X config.active : Ahead(rs, p[1], p[2])}

\* Each rule's final_ranking sorts by a strict total order of the active lanes: no
\* two lanes tie.  A pursuit needs the exit numbers to be distinct.
LEMMA AheadIsOrder ==
    ASSUME config \in ConfigRecords, NEW rs \in RaceRecords, Shape(rs)
    PROVE  StrictTotalOrder(AheadPairs(rs), config.active)
  <1> DEFINE S == config.active
  <1>1. \A a, b \in S : <<a, b>> \in AheadPairs(rs) <=> Ahead(rs, a, b)
    BY DEF AheadPairs
  <1>2. S \subseteq Lanes
    BY RacingSubset
  <1>3. \A r \in S : /\ r \in Int /\ rs.distance[r] \in Int /\ rs.peak[r] \in Int
                     /\ rs.finishedMs[r] \in Nat /\ rs.exit[r] \in Nat
    BY <1>2, RaceTypes
  <1> HIDE DEF S
  <1>4. CASE config.mode = "distance"
    <2>1. \A a, b \in S : Ahead(rs, a, b) <=> AheadDistance(rs, a, b)
      BY <1>4 DEF Ahead
    <2> QED
      BY <1>1, <1>3, <2>1 DEF StrictTotalOrder, AheadDistance, Arrived, Earlier, Farther, S
  <1>5. CASE config.mode = "time"
    <2>1. \A a, b \in S : Ahead(rs, a, b) <=> AheadTime(rs, a, b)
      BY <1>5 DEF Ahead
    <2> QED
      BY <1>1, <1>3, <2>1 DEF StrictTotalOrder, AheadTime, S
  <1>6. CASE config.mode = "pursuit"
    <2>1. \A a, b \in S : Ahead(rs, a, b) <=> AheadPursuit(rs, a, b)
      BY <1>6 DEF Ahead
    <2>2. \A a, b \in S : rs.eliminated[a] /\ rs.eliminated[b] /\ rs.exit[a] = rs.exit[b]
                            => a = b
      BY DEF Shape, ExitsNumbered, Gone, S
    <2> QED
      BY <1>1, <1>3, <2>1, <2>2 DEF StrictTotalOrder, AheadPursuit, Farther, S
  <1> QED
    BY <1>4, <1>5, <1>6 DEF ConfigRecords, Modes

\* Whatever the rule, the final ranking gives each place once.
LEMMA FinalRankingIsComplete ==
    ASSUME config \in ConfigRecords, NEW rs \in RaceRecords, Shape(rs)
    PROVE  Ranked(FinalRanking(rs))
  <1> DEFINE S == config.active
             R == AheadPairs(rs)
  <1>1. \A r \in S : Place(rs, r) = PlaceIn(R, S, r)
    <2> TAKE r \in S
    <2>1. {q \in S : Ahead(rs, q, r)} = Preceding(R, S, r)
      BY DEF Preceding, AheadPairs
    <2> QED
      BY <2>1 DEF Place, PlaceIn
  <1>2. IsFiniteSet(S) /\ StrictTotalOrder(R, S)
    BY RacingSubset, AheadIsOrder
  <1>3. {PlaceIn(R, S, r) : r \in S} = 1 .. Cardinality(S)
    BY <1>2, PlacesAreABijection
  <1>4. \A r \in S : FinalRanking(rs).rank[r] = PlaceIn(R, S, r)
    BY <1>1, FinalRankingFacts
  <1>5. {FinalRanking(rs).rank[r] : r \in S} = {PlaceIn(R, S, r) : r \in S}
    BY <1>4
  <1>6. \A r \in Lanes \ S : FinalRanking(rs).rank[r] = 0
    BY FinalRankingFacts DEF Shape, IdleUnranked
  <1> QED
    BY <1>3, <1>5, <1>6 DEF Ranked

-----------------------------------------------------------------------------
(* What each operation does to the shape of the race. *)

\* Two races that agree on the classification have the same shape.
LEMMA SameShape ==
    ASSUME NEW rs, NEW ss,
           ss.finishedMs = rs.finishedMs, ss.eliminated = rs.eliminated,
           ss.exit = rs.exit, ss.rank = rs.rank
    PROVE  /\ Racing(ss) = Racing(rs)
           /\ Shape(rs) => Shape(ss)
           /\ Contested(rs) => Contested(ss)
  <1>1. Racing(ss) = Racing(rs) /\ Gone(ss) = Gone(rs)
    BY DEF Racing, Classified, Arrived, Gone
  <1> QED
    BY <1>1 DEF Shape, ExitsNumbered, OnlyPursuitEliminates, IdleUnranked, Contested

\* Eliminating one lane gives it the next exit number, so the numbers stay distinct.
LEMMA EliminateShape ==
    ASSUME config \in ConfigRecords, NEW rs \in RaceRecords, Shape(rs),
           NEW out \in SUBSET Racing(rs), \A a, b \in out : a = b,
           config.mode # "pursuit" => out = {}
    PROVE  Shape(Eliminate(rs, out))
  <1> DEFINE after == Eliminate(rs, out)
  <1>1. /\ \A r \in Lanes : after.eliminated[r] <=> rs.eliminated[r] \/ r \in out
        /\ \A r \in out : after.exit[r] = Cardinality(Gone(rs)) + 1
        /\ \A r \in Lanes \ out : /\ after.exit[r] = rs.exit[r]
                                 /\ after.rank[r] = rs.rank[r]
    <2>1. \A r \in out : r \in Lanes /\ ~rs.eliminated[r]
      BY RacingSubset DEF Racing, Classified
    <2> QED
      BY <2>1, EliminateFacts
  <1> HIDE DEF after
  <1>2. Gone(rs) \subseteq config.active /\ config.active \subseteq Lanes
        /\ out \subseteq config.active /\ IsFiniteSet(Gone(rs))
        /\ Cardinality(Gone(rs)) \in Nat
    <2>1. Gone(rs) \subseteq config.active /\ config.active \subseteq Lanes
          /\ out \subseteq config.active
      BY RacingSubset DEF Gone
    <2> QED
      BY <2>1, LanesFinite
  <1>3. Gone(after) = Gone(rs) \cup out
    BY <1>1, <1>2 DEF Gone
  <1>4. \A r \in Gone(rs) : r \notin out
    BY DEF Gone, Racing, Classified
  <1>5. ExitsNumbered(after)
    <2>1. CASE out = {}
      BY <1>1, <1>2, <1>3, <2>1 DEF Shape, ExitsNumbered
    <2>2. CASE out # {}
      <3>1. PICK t \in out : out = {t}
        BY <2>2
      <3>2. Cardinality(Gone(after)) = Cardinality(Gone(rs)) + 1
        BY <1>2, <1>3, <1>4, <3>1, FS_AddElement
      <3>3. \A a \in Gone(rs) : after.exit[a] = rs.exit[a]
                                /\ rs.exit[a] \in 1 .. Cardinality(Gone(rs))
        BY <1>1, <1>2, <1>4 DEF Shape, ExitsNumbered
      <3>4. after.exit[t] = Cardinality(Gone(rs)) + 1
        BY <1>1
      <3>5. \A a \in Gone(after) : a = t \/ a \in Gone(rs)
        BY <1>3, <3>1
      <3>6. \A a, b \in Gone(rs) : rs.exit[a] = rs.exit[b] => a = b
        BY DEF Shape, ExitsNumbered
      <3> QED
        BY <1>2, <3>2, <3>3, <3>4, <3>5, <3>6 DEF ExitsNumbered
    <2> QED
      BY <2>1, <2>2
  <1>6. OnlyPursuitEliminates(after)
    BY <1>1 DEF Shape, OnlyPursuitEliminates
  <1>7. IdleUnranked(after)
    BY <1>1, <1>2 DEF Shape, IdleUnranked
  <1> QED
    BY <1>5, <1>6, <1>7 DEF Shape, after

\* An arrival touches neither the eliminations nor the idle lanes.
LEMMA FinishShape ==
    ASSUME config \in ConfigRecords, NEW rs \in RaceRecords, Shape(rs),
           NEW done \in SUBSET config.active
    PROVE  Shape(Finish(rs, done))
  <1> DEFINE after == Finish(rs, done)
  <1>1. after.eliminated = rs.eliminated /\ after.exit = rs.exit
    BY FinishFacts
  <1>2. \A r \in Lanes \ config.active : after.rank[r] = rs.rank[r]
    BY FinishFacts
  <1> HIDE DEF after
  <1>3. Gone(after) = Gone(rs)
    BY <1>1 DEF Gone
  <1> QED
    BY <1>1, <1>2, <1>3 DEF Shape, ExitsNumbered, OnlyPursuitEliminates, IdleUnranked, after

\* Applying the verdict of the rule keeps the shape of the race.
LEMMA AppliedShape ==
    ASSUME config \in ConfigRecords, NEW rs \in RaceRecords, Shape(rs)
    PROVE  Shape(Applied(rs, Evaluate(rs)))
  <1>1. GoodVerdict(rs, Evaluate(rs))
    BY VerdictType
  <1>2. Shape(Eliminate(rs, Evaluate(rs).out))
    BY <1>1, EliminateShape DEF GoodVerdict
  <1>3. Eliminate(rs, Evaluate(rs).out) \in RaceRecords
    BY EliminateFacts
  <1> QED
    BY <1>1, <1>2, <1>3, FinishShape DEF Applied, GoodVerdict

\* Ranking the race keeps its shape: the eliminations and the idle lanes stay.
LEMMA FinalRankingShape ==
    ASSUME config \in ConfigRecords, NEW rs \in RaceRecords, Shape(rs)
    PROVE  Shape(FinalRanking(rs))
  <1> DEFINE after == FinalRanking(rs)
  <1>1. after.eliminated = rs.eliminated /\ after.exit = rs.exit
    BY FinalRankingFacts
  <1>2. \A r \in Lanes \ config.active : after.rank[r] = rs.rank[r]
    BY FinalRankingFacts
  <1> HIDE DEF after
  <1>3. Gone(after) = Gone(rs)
    BY <1>1 DEF Gone
  <1> QED
    BY <1>1, <1>2, <1>3 DEF Shape, ExitsNumbered, OnlyPursuitEliminates, IdleUnranked, after

-----------------------------------------------------------------------------
(* Somebody is left to referee. *)

\* A verdict takes out of the race the lanes it names and no other.
LEMMA StillRacing ==
    ASSUME config \in ConfigRecords, NEW rs \in RaceRecords, NEW verdict,
           GoodVerdict(rs, verdict)
    PROVE  Racing(rs) \ (verdict.out \cup verdict.done) \subseteq Racing(Applied(rs, verdict))
  <1> DEFINE mid == Eliminate(rs, verdict.out)
             after == Finish(mid, verdict.done)
  <1>1. Applied(rs, verdict) = after
    BY DEF Applied
  <1>2. mid \in RaceRecords /\ mid.finishedMs = rs.finishedMs
    BY EliminateFacts
  <1>3. verdict.done \in SUBSET config.active
    BY DEF GoodVerdict
  <1>4. ASSUME NEW r \in Racing(rs), r \notin verdict.out, r \notin verdict.done
        PROVE  r \in Racing(after)
    <2>1. r \in Lanes /\ r \in config.active
      BY RacingSubset
    <2>2. ~mid.eliminated[r]
      BY <1>4, <2>1, EliminateFacts DEF Racing, Classified
    <2> HIDE DEF mid
    <2>3. after.eliminated = mid.eliminated /\ after.finishedMs[r] = mid.finishedMs[r]
      BY <1>2, <1>3, <1>4, <2>1, FinishFacts
    <2>4. rs.finishedMs[r] = 0
      BY <1>4 DEF Racing, Classified, Arrived
    <2> HIDE DEF after
    <2> QED
      BY <1>2, <2>1, <2>2, <2>3, <2>4 DEF Racing, Classified, Arrived
  <1> QED
    BY <1>1, <1>4

\* A verdict that does not end the race leaves somebody in it, and a pair in a
\* pursuit: the rules end the race no later than that.
LEMMA ContestGoesOn ==
    ASSUME config \in ConfigRecords, NEW rs \in RaceRecords, Shape(rs), Contested(rs),
           Evaluate(rs).reason = "NONE"
    PROVE  Contested(Applied(rs, Evaluate(rs)))
  <1> DEFINE verdict == Evaluate(rs)
             left == Racing(rs) \ (verdict.out \cup verdict.done)
             after == Applied(rs, verdict)
  <1>1. left \subseteq Racing(after)
    BY VerdictType, StillRacing
  <1>2. /\ IsFiniteSet(Racing(rs)) /\ Cardinality(Racing(rs)) \in Nat
        /\ IsFiniteSet(Racing(after)) /\ Cardinality(Racing(after)) \in Nat
    BY RacingSubset
  <1>3. Cardinality(left) <= Cardinality(Racing(after)) /\ IsFiniteSet(left)
    BY <1>1, <1>2, FS_Subset
  <1>4. Cardinality(left) \in Nat
    BY <1>3, FS_CardinalityType
  <1>5. CASE config.mode = "distance"
    <2>1. verdict = EvaluateDistance(rs)
      BY <1>5 DEF Evaluate
    <2>2. PICK r \in config.active : ~Arrived(rs, r) /\ r \notin verdict.done
      BY <2>1 DEF EvaluateDistance, Awaited
    <2>3. r \notin verdict.out
      BY <2>1 DEF EvaluateDistance
    <2>4. ~rs.eliminated[r]
      BY <1>5, RacingSubset DEF Shape, OnlyPursuitEliminates
    <2>5. r \in left
      BY <2>2, <2>3, <2>4 DEF Racing, Classified
    <2> HIDE DEF left
    <2>6. Cardinality(left) # 0
      BY <1>3, <2>5, FS_EmptySet
    <2> QED
      BY <1>2, <1>3, <1>4, <1>5, <2>6 DEF Contested
  <1>6. CASE config.mode = "time"
    <2>1. verdict = EvaluateTime(rs)
      BY <1>6 DEF Evaluate
    <2>2. verdict = NoVerdict
      BY <2>1 DEF EvaluateTime
    <2>3. left = Racing(rs)
      BY <2>2 DEF NoVerdict
    <2> HIDE DEF left
    <2> QED
      BY <1>2, <1>3, <1>6, <2>3 DEF Contested
  <1>7. CASE config.mode = "pursuit"
    <2>1. verdict = EvaluatePursuit(rs)
      BY <1>7 DEF Evaluate
    <2>2. Cardinality(Racing(rs)) >= 2
      BY <1>7 DEF Contested
    <2>3. CASE verdict = NoVerdict
      <3>1. left = Racing(rs)
        BY <2>3 DEF NoVerdict
      <3> HIDE DEF left
      <3> QED
        BY <1>2, <1>3, <1>7, <2>2, <3>1 DEF Contested
    <2>4. CASE verdict # NoVerdict
      <3>1. /\ verdict.out = {Trailer(rs)} /\ verdict.done = {}
            /\ Cardinality(Racing(rs)) # 2
        BY <1>2, <2>1, <2>2, <2>4 DEF EvaluatePursuit, NoVerdict
      <3>2. left = Racing(rs) \ {Trailer(rs)}
        BY <3>1
      <3>3. Racing(rs) # {}
        BY <2>2, FS_EmptySet
      <3>4. Trailer(rs) \in Racing(rs)
        BY <3>3, TrailerIsRacing
      <3>5. Cardinality(left) = Cardinality(Racing(rs)) - 1
        BY <1>2, <3>2, <3>4, FS_RemoveElement
      <3> HIDE DEF left
      <3> QED
        BY <1>2, <1>3, <1>4, <1>7, <2>2, <3>1, <3>5 DEF Contested
    <2> QED
      BY <2>3, <2>4
  <1> QED
    BY <1>5, <1>6, <1>7 DEF ConfigRecords, Modes

-----------------------------------------------------------------------------
(* The invariant of the ranking is inductive. *)

\* What is said of a race only reads the configuration, which no step but arm
\* changes.
LEMMA Carried ==
    ASSUME NEW rs, race' = rs, config' = config
    PROVE  /\ Shape(rs) => Shape(race)'
           /\ Contested(rs) => Contested(race)'
           /\ Ranked(rs) => Ranked(race)'
  BY DEF Shape, ExitsNumbered, OnlyPursuitEliminates, IdleUnranked, Gone,
         Contested, Racing, Classified, Arrived, Ranked

\* The end of a frame keeps the race sound, whether it ends the race or not.
LEMMA SettleInv ==
    ASSUME TypeOK, NEW rs \in RaceRecords, Shape(rs), Contested(rs),
           result.kind = "none", Settle(rs), config' = config
    PROVE  Sound'
  <1> DEFINE verdict == Evaluate(rs)
             settled == Applied(rs, verdict)
  <1>1. Conclude(rs, verdict, settled)
    BY DEF Settle
  <1>2. config \in ConfigRecords
    BY DEF TypeOK
  <1>3. Shape(settled) /\ settled \in RaceRecords
    BY <1>2, AppliedShape, AppliedType
  <1>4. verdict.reason = "NONE" => Contested(settled)
    BY <1>2, ContestGoesOn
  <1> HIDE DEF verdict, settled
  <1>5. CASE verdict.reason = "NONE"
    <2>1. race' = settled /\ result' = result
      BY <1>1, <1>5 DEF Conclude
    <2> QED
      BY <1>3, <1>4, <1>5, <2>1, Carried DEF Sound
  <1>6. CASE verdict.reason # "NONE"
    <2>1. race' = FinalRanking(settled) /\ state' = "FINISHED"
      BY <1>1, <1>6 DEF Conclude
    <2>2. Shape(FinalRanking(settled)) /\ Ranked(FinalRanking(settled))
      BY <1>2, <1>3, FinalRankingShape, FinalRankingIsComplete
    <2> QED
      BY <2>1, <2>2, Carried DEF Busy, Sound
  <1> QED
    BY <1>5, <1>6

\* abort keeps the race sound: it ranks what it keeps and keeps only what it ranks.
LEMMA AbortInv ==
    ASSUME TypeOK, NEW rs \in RaceRecords, Shape(rs), AbortFrom(rs)
    PROVE  Sound'
  <1>1. config \in ConfigRecords
    BY DEF TypeOK
  <1>2. state' \notin Busy /\ config' = config
    BY DEF AbortFrom, Busy
  <1>3. CASE state = "RUNNING"
    <2>1. race' = FinalRanking(rs)
      BY <1>3 DEF AbortFrom
    <2>2. Shape(FinalRanking(rs)) /\ Ranked(FinalRanking(rs))
      BY <1>1, FinalRankingShape, FinalRankingIsComplete
    <2> QED
      BY <1>2, <2>1, <2>2, Carried DEF Sound
  <1>4. CASE state # "RUNNING"
    <2>1. race' = rs /\ result' = NoResult
      BY <1>4 DEF AbortFrom
    <2>2. result'.kind = "none"
      BY <2>1 DEF NoResult
    <2> QED
      BY <1>2, <2>1, <2>2, Carried DEF Sound
  <1> QED
    BY <1>3, <1>4

\* A race is armed with its lanes all racing, two of them in a pursuit.
LEMMA ArmInv ==
    ASSUME NEW c \in Configs, Arm(c)
    PROVE  Sound'
  <1>1. /\ config' = c /\ race' = NewRace /\ result' = NoResult
        /\ c.active \subseteq Lanes /\ Valid(c)
    BY EngineConstants DEF Arm, ConfigRecords
  <1>2. \A r \in Lanes : /\ race'.eliminated[r] = FALSE
                         /\ race'.finishedMs[r] = 0 /\ race'.rank[r] = 0
    BY <1>1 DEF NewRace, Zero, Never
  <1>3. Gone(race)' = {}
    BY <1>1, <1>2 DEF Gone
  <1>4. Shape(race)'
    BY <1>1, <1>2, <1>3 DEF Shape, ExitsNumbered, OnlyPursuitEliminates, IdleUnranked
  <1>5. Racing(race)' = c.active
    BY <1>1, <1>2 DEF Racing, Classified, Arrived
  <1>6. IsFiniteSet(c.active) /\ Cardinality(c.active) \in Nat /\ Cardinality(c.active) # 0
    BY <1>1, LanesFinite, FS_EmptySet DEF Valid
  <1>7. Contested(race)'
    BY <1>1, <1>5, <1>6 DEF Contested, Valid
  <1>8. result'.kind = "none"
    BY <1>1 DEF NoResult
  <1> QED
    BY <1>4, <1>7, <1>8 DEF Sound

\* Every step keeps the invariant.
LEMMA InvariantStep ==
    ASSUME IInv, [Next]_vars
    PROVE  IInv'
  <1> SUFFICES Sound'
    BY TypeStep DEF IInv
  <1>0. TypeOK /\ race \in RaceRecords /\ config \in ConfigRecords /\ Sound
    BY DEF IInv, TypeOK
  <1>1. ASSUME NEW c \in Configs, Arm(c)
        PROVE  Sound'
    BY <1>1, ArmInv
  <1>2. ASSUME race' = race, config' = config, result' = result,
               state' \in Busy => state \in Busy
        PROVE  Sound'
    BY <1>0, <1>2, Carried DEF Sound
  <1>3. CASE Tick
    <2>1. state' \in Busy => state \in Busy
      BY <1>3 DEF Tick, Busy
    <2> QED
      BY <1>2, <1>3, <2>1 DEF Tick
  <1>4. ASSUME NEW value \in 0 .. 3, OnCountdown(value)
        PROVE  Sound'
    <2>1. state' \in Busy => state \in Busy
      BY <1>4 DEF OnCountdown, Busy
    <2> QED
      BY <1>2, <1>4, <2>1 DEF OnCountdown
  <1>5. ASSUME NEW frame \in Frames, NEW ms \in 0 .. MaxMs, NEW peaks \in Peaks,
               OnProgress(frame, ms, peaks)
        PROVE  Sound'
    <2>1. frame \in PerLane(Nat) /\ peaks \in PerLane(Nat) /\ ms \in Nat
      BY <1>0, FrameType
    <2> DEFINE accepted == filter'.accepted
    <2>2. accepted \in PerLane(Nat)
      BY <1>0, <1>5, <2>1, AcceptType DEF OnProgress, TypeOK, Filters
    <2> DEFINE rs == ApplySample(race, accepted, ms, peaks)
    <2>3. Settle(rs) /\ config' = config /\ state \in Busy
      BY <1>5 DEF OnProgress, Busy
    <2> HIDE DEF accepted
    <2>4. rs \in RaceRecords
      BY <1>0, <2>1, <2>2, ApplySampleType
    <2>5. /\ rs.finishedMs = race.finishedMs /\ rs.eliminated = race.eliminated
          /\ rs.exit = race.exit /\ rs.rank = race.rank
      BY <1>0, <2>1, <2>2, ApplySampleFacts
    <2> HIDE DEF rs
    <2>6. Shape(rs) /\ Contested(rs) /\ result.kind = "none"
      BY <1>0, <2>3, <2>5, SameShape DEF Sound
    <2> QED
      BY <1>0, <2>3, <2>4, <2>6, SettleInv
  <1>6. ASSUME NEW r \in Lanes, OnRiderFinish(r)
        PROVE  Sound'
    <2> DEFINE rs == Completed(race, r)
    <2>1. Settle(rs) /\ config' = config /\ state \in Busy
      BY <1>6 DEF OnRiderFinish, Busy
    <2>2. /\ rs \in RaceRecords
          /\ rs.finishedMs = race.finishedMs /\ rs.eliminated = race.eliminated
          /\ rs.exit = race.exit /\ rs.rank = race.rank
      BY <1>0, CompletedFacts
    <2> HIDE DEF rs
    <2>3. Shape(rs) /\ Contested(rs) /\ result.kind = "none"
      BY <1>0, <2>1, <2>2, SameShape DEF Sound
    <2> QED
      BY <1>0, <2>1, <2>2, <2>3, SettleInv
  <1>7. ASSUME NEW r \in Lanes, OnFalseStart(r)
        PROVE  Sound'
    <2> DEFINE noted == [race EXCEPT !.falseStarted[r] = TRUE]
               late == [noted EXCEPT !.handicap[r] = -config.penalty]
    <2>1. /\ noted.finishedMs = race.finishedMs /\ noted.eliminated = race.eliminated
          /\ noted.exit = race.exit /\ noted.rank = race.rank
          /\ late.finishedMs = race.finishedMs /\ late.eliminated = race.eliminated
          /\ late.exit = race.exit /\ late.rank = race.rank
      BY <1>0 DEF RaceRecords
    <2>2. noted \in RaceRecords
      BY <1>0, FalseStartType
    <2>3. \/ AbortFrom(noted)
          \/ /\ race' = late \/ race' = noted
             /\ config' = config /\ state' = state /\ result' = result
      BY <1>7 DEF OnFalseStart
    <2>4. state \in Busy
      BY <1>7 DEF OnFalseStart, Busy
    <2> HIDE DEF noted, late
    <2>5. Shape(noted) /\ Shape(late) /\ Contested(noted) /\ Contested(late)
          /\ result.kind = "none"
      BY <1>0, <2>1, <2>4, SameShape DEF Sound
    <2>6. CASE AbortFrom(noted)
      BY <1>0, <2>2, <2>5, <2>6, AbortInv
    <2>7. CASE ~AbortFrom(noted)
      BY <2>3, <2>5, <2>7, Carried DEF Sound
    <2> QED
      BY <2>6, <2>7
  <1>8. CASE Abort
    BY <1>0, <1>8, AbortInv DEF Abort, Sound
  <1>9. CASE OnLinkLostBeyondGrace
    BY <1>0, <1>9, AbortInv DEF OnLinkLostBeyondGrace, Sound
  <1>10. CASE ShowResults
    <2>1. state' \notin Busy
      BY <1>10 DEF ShowResults, Busy
    <2> QED
      BY <1>2, <1>10, <2>1 DEF ShowResults
  <1>11. CASE Acknowledge
    <2>1. state' \notin Busy
      BY <1>11 DEF Acknowledge, Busy
    <2> QED
      BY <1>2, <1>11, <2>1 DEF Acknowledge
  <1>12. CASE UNCHANGED vars
    BY <1>2, <1>12 DEF vars
  <1> QED
    BY <1>1, <1>3, <1>4, <1>5, <1>6, <1>7, <1>8, <1>9, <1>10, <1>11, <1>12
    DEF Next, Progress

-----------------------------------------------------------------------------
(* Theorems on the ranking. *)

\* The invariant the theorems below rest on.
THEOREM Invariant == Spec => []IInv
  <1>1. Init => IInv
    <2> SUFFICES ASSUME Init PROVE IInv
      OBVIOUS
    <2>1. TypeOK
      BY StartType DEF Init, TypeOK, States
    <2>2. /\ config = NoConfig /\ race = NewRace /\ result = NoResult /\ state = "IDLE"
          /\ config.active = {}
      BY DEF Init, NoConfig
    <2>3. \A r \in Lanes : race.eliminated[r] = FALSE /\ race.rank[r] = 0
      BY <2>2 DEF NewRace, Zero, Never
    <2>4. Shape(race)
      BY <2>2, <2>3 DEF Shape, ExitsNumbered, OnlyPursuitEliminates, IdleUnranked, Gone
    <2> QED
      BY <2>1, <2>2, <2>4 DEF IInv, Sound, Busy, NoResult
  <1> QED
    BY <1>1, InvariantStep, PTL DEF Spec

\* The engine never referees a race with nobody left in it, nor a pursuit with
\* nobody left to catch.
THEOREM NeverEmpty == Spec => []NeverRunningWithoutRacer
  <1>1. IInv => NeverRunningWithoutRacer
    BY DEF IInv, Sound, Contested, NeverRunningWithoutRacer, Busy
  <1> QED
    BY <1>1, Invariant, PTL

\* Every result, complete or partial, places each active lane once.
THEOREM ResultsAreRanked == Spec => []RankingIsComplete
  <1>1. IInv => RankingIsComplete
    BY DEF IInv, Sound, Ranked, RankingIsComplete
  <1> QED
    BY <1>1, Invariant, PTL

-----------------------------------------------------------------------------
(* A classified lane is frozen. *)

\* Lane r keeps its figures and its classification from rs to ss.
Keeps(rs, ss, r) ==
    /\ ss.ticks[r] = rs.ticks[r]
    /\ ss.distance[r] = rs.distance[r]
    /\ ss.peak[r] = rs.peak[r]
    /\ ss.finishedMs[r] = rs.finishedMs[r]
    /\ ss.eliminatedMs[r] = rs.eliminatedMs[r]
    /\ ss.eliminated[r] = rs.eliminated[r]

\* A verdict leaves a lane that is already classified as it is: the lanes it
\* takes out were racing, and it calls to the line no lane that has gone out.
LEMMA VerdictKeeps ==
    ASSUME config \in ConfigRecords, NEW rs \in RaceRecords, Shape(rs),
           NEW r \in Lanes, Classified(rs, r)
    PROVE  Keeps(rs, Applied(rs, Evaluate(rs)), r)
  <1> DEFINE verdict == Evaluate(rs)
             mid == Eliminate(rs, verdict.out)
             after == Finish(mid, verdict.done)
  <1>1. GoodVerdict(rs, verdict)
    BY VerdictType
  <1>2. r \notin verdict.out
    BY <1>1 DEF GoodVerdict, Racing
  <1>3. rs.finishedMs[r] # 0 \/ r \notin verdict.done
    <2>1. CASE config.mode = "pursuit"
      BY <1>1, <2>1 DEF GoodVerdict, Racing
    <2>2. CASE config.mode # "pursuit"
      BY <2>2 DEF Shape, OnlyPursuitEliminates, Classified, Arrived
    <2> QED
      BY <2>1, <2>2
  <1>4. Applied(rs, verdict) = after
    BY DEF Applied
  <1>5. /\ mid \in RaceRecords /\ mid.finishedMs = rs.finishedMs
        /\ mid.ticks = rs.ticks /\ mid.distance = rs.distance /\ mid.peak = rs.peak
    BY EliminateFacts
  <1>6. mid.eliminatedMs[r] = rs.eliminatedMs[r]
    BY <1>2, EliminateFacts
  <1>7. mid.eliminated[r] <=> rs.eliminated[r]
    BY <1>2, EliminateFacts
  <1> HIDE DEF mid
  <1>8. mid.eliminated[r] \in BOOLEAN /\ rs.eliminated[r] \in BOOLEAN
    BY <1>5, RaceTypes
  <1>9. mid.eliminated[r] = rs.eliminated[r]
    BY <1>7, <1>8
  <1>10. verdict.done \in SUBSET config.active
    BY <1>1 DEF GoodVerdict
  <1>11. /\ after.ticks = mid.ticks /\ after.distance = mid.distance
         /\ after.peak = mid.peak /\ after.eliminated = mid.eliminated
         /\ after.eliminatedMs = mid.eliminatedMs
    BY <1>5, <1>10, FinishFacts
  <1>12. after.finishedMs[r] = mid.finishedMs[r]
    BY <1>3, <1>5, <1>10, FinishFacts
  <1> HIDE DEF after, verdict
  <1>13. Keeps(rs, after, r)
    BY <1>5, <1>6, <1>9, <1>11, <1>12 DEF Keeps
  <1> QED
    BY <1>4, <1>13 DEF verdict

\* The final ranking moves ranks only.
LEMMA RankingKeeps ==
    ASSUME config \in ConfigRecords, NEW rs \in RaceRecords, NEW r \in Lanes
    PROVE  Keeps(rs, FinalRanking(rs), r)
  BY FinalRankingFacts DEF Keeps

\* The end of a frame leaves a classified lane as it is.
LEMMA SettleKeeps ==
    ASSUME config \in ConfigRecords, NEW rs \in RaceRecords, Shape(rs), Settle(rs),
           NEW r \in Lanes, Classified(rs, r)
    PROVE  Keeps(rs, race', r)
  <1> DEFINE settled == Applied(rs, Evaluate(rs))
  <1>1. settled \in RaceRecords
    BY AppliedType
  <1>2. Keeps(rs, settled, r)
    BY VerdictKeeps
  <1>3. race' = settled \/ race' = FinalRanking(settled)
    BY DEF Settle, Conclude
  <1> HIDE DEF settled
  <1>4. Keeps(settled, FinalRanking(settled), r)
    BY <1>1, RankingKeeps
  <1> QED
    BY <1>2, <1>3, <1>4 DEF Keeps

\* Every step but arm leaves a classified lane as it is.
LEMMA FreezeStep ==
    ASSUME IInv, Next, state' # "ARMING", NEW r \in Lanes, Classified(race, r)
    PROVE  Keeps(race, race', r)
  <1>0. /\ TypeOK /\ race \in RaceRecords /\ config \in ConfigRecords /\ Shape(race)
        /\ r \in Lanes \ Racing(race)
    BY DEF IInv, Sound, TypeOK, Racing
  <1>1. ASSUME race' = race
        PROVE  Keeps(race, race', r)
    BY <1>1 DEF Keeps
  <1>2. ASSUME NEW frame \in Frames, NEW ms \in 0 .. MaxMs, NEW peaks \in Peaks,
               OnProgress(frame, ms, peaks)
        PROVE  Keeps(race, race', r)
    <2>1. frame \in PerLane(Nat) /\ peaks \in PerLane(Nat) /\ ms \in Nat
      BY <1>0, FrameType
    <2> DEFINE accepted == filter'.accepted
    <2>2. accepted \in PerLane(Nat)
      BY <1>0, <1>2, <2>1, AcceptType DEF OnProgress, TypeOK, Filters
    <2> DEFINE rs == ApplySample(race, accepted, ms, peaks)
    <2>3. Settle(rs)
      BY <1>2 DEF OnProgress
    <2> HIDE DEF accepted
    <2>4. rs \in RaceRecords
      BY <1>0, <2>1, <2>2, ApplySampleType
    <2>5. /\ rs.finishedMs = race.finishedMs /\ rs.eliminated = race.eliminated
          /\ rs.exit = race.exit /\ rs.rank = race.rank
          /\ rs.eliminatedMs = race.eliminatedMs
          /\ rs.ticks[r] = race.ticks[r] /\ rs.distance[r] = race.distance[r]
          /\ rs.peak[r] = race.peak[r]
      BY <1>0, <2>1, <2>2, ApplySampleFacts
    <2> HIDE DEF rs
    <2>6. Shape(rs) /\ Classified(rs, r) /\ Keeps(race, rs, r)
      BY <1>0, <2>5, SameShape DEF Classified, Arrived, Keeps
    <2>7. Keeps(rs, race', r)
      BY <1>0, <2>3, <2>4, <2>6, SettleKeeps
    <2> QED
      BY <2>6, <2>7 DEF Keeps
  <1>3. ASSUME NEW q \in Lanes, OnRiderFinish(q)
        PROVE  Keeps(race, race', r)
    <2> DEFINE rs == Completed(race, q)
    <2>1. Settle(rs) /\ q # r
      BY <1>0, <1>3 DEF OnRiderFinish
    <2>2. /\ rs \in RaceRecords
          /\ rs.finishedMs = race.finishedMs /\ rs.eliminated = race.eliminated
          /\ rs.exit = race.exit /\ rs.rank = race.rank
          /\ rs.eliminatedMs = race.eliminatedMs /\ rs.peak = race.peak
          /\ rs.ticks[r] = race.ticks[r] /\ rs.distance[r] = race.distance[r]
      BY <1>0, <2>1, CompletedFacts
    <2> HIDE DEF rs
    <2>3. Shape(rs) /\ Classified(rs, r) /\ Keeps(race, rs, r)
      BY <1>0, <2>2, SameShape DEF Classified, Arrived, Keeps
    <2>4. Keeps(rs, race', r)
      BY <1>0, <2>1, <2>2, <2>3, SettleKeeps
    <2> QED
      BY <2>3, <2>4 DEF Keeps
  <1>4. ASSUME NEW rs \in RaceRecords, AbortFrom(rs), Keeps(race, rs, r)
        PROVE  Keeps(race, race', r)
    <2>1. race' = rs \/ race' = FinalRanking(rs)
      BY <1>4 DEF AbortFrom
    <2>2. Keeps(rs, FinalRanking(rs), r)
      BY <1>0, RankingKeeps
    <2> QED
      BY <1>4, <2>1, <2>2 DEF Keeps
  <1>5. ASSUME NEW q \in Lanes, OnFalseStart(q)
        PROVE  Keeps(race, race', r)
    <2> DEFINE noted == [race EXCEPT !.falseStarted[q] = TRUE]
               late == [noted EXCEPT !.handicap[q] = -config.penalty]
    <2>1. Keeps(race, noted, r) /\ Keeps(race, late, r)
      BY <1>0 DEF RaceRecords, Keeps
    <2>2. noted \in RaceRecords
      BY <1>0, FalseStartType
    <2>3. AbortFrom(noted) \/ race' = late \/ race' = noted
      BY <1>5 DEF OnFalseStart
    <2> HIDE DEF noted, late
    <2> QED
      BY <1>4, <2>1, <2>2, <2>3
  <1>6. Keeps(race, race, r)
    BY DEF Keeps
  <1>7. CASE Abort
    BY <1>0, <1>4, <1>6, <1>7 DEF Abort
  <1>8. CASE OnLinkLostBeyondGrace
    BY <1>0, <1>4, <1>6, <1>8 DEF OnLinkLostBeyondGrace
  <1>9. ASSUME NEW c \in Configs, Arm(c)
        PROVE  Keeps(race, race', r)
    BY <1>9 DEF Arm
  <1>10. CASE Tick
    BY <1>1, <1>10 DEF Tick
  <1>11. ASSUME NEW value \in 0 .. 3, OnCountdown(value)
         PROVE  Keeps(race, race', r)
    BY <1>1, <1>11 DEF OnCountdown
  <1>12. CASE ShowResults \/ Acknowledge
    BY <1>1, <1>12 DEF ShowResults, Acknowledge
  <1> QED
    BY <1>2, <1>3, <1>5, <1>7, <1>8, <1>9, <1>10, <1>11, <1>12 DEF Next, Progress

\* No frame, arrival frame, verdict or abort moves the figures of a lane that
\* has arrived or gone out.
THEOREM ClassifiedIsFrozen == Spec => FrozenOnceClassified
  <1> DEFINE Frozen == \A r \in Lanes :
                 (race.finishedMs[r] # 0 \/ race.eliminated[r]) /\ state' # "ARMING" =>
                 /\ race'.ticks[r] = race.ticks[r]
                 /\ race'.distance[r] = race.distance[r]
                 /\ race'.peak[r] = race.peak[r]
                 /\ race'.finishedMs[r] = race.finishedMs[r]
                 /\ race'.eliminatedMs[r] = race.eliminatedMs[r]
                 /\ race'.eliminated[r] = race.eliminated[r]
  <1>1. ASSUME IInv, [Next]_vars
        PROVE  [Frozen]_vars
    <2>1. CASE UNCHANGED vars
      BY <2>1
    <2>2. CASE Next
      BY <1>1, <2>2, FreezeStep DEF Classified, Arrived, Keeps
    <2> QED
      BY <1>1, <2>1, <2>2
  <1> QED
    BY <1>1, Invariant, PTL DEF Spec, FrozenOnceClassified

-----------------------------------------------------------------------------
(* What is announced: the parts of the invariant. *)

\* A lane that has arrived in a distance race has reached its own target.
Paid(rs) ==
    config.mode = "distance" =>
        \A r \in config.active : Arrived(rs, r) => rs.ticks[r] >= TargetFor(rs, r)

NobodyHome(rs) == \A r \in Lanes : rs.finishedMs[r] = 0

\* The first out is last, the next one place higher.
PlaceFromBottom(rs, r) == Cardinality(config.active) - rs.exit[r] + 1

Posted(rs, told) == \A r \in Gone(rs) : told[r] = PlaceFromBottom(rs, r)

\* While a pursuit is on, the eliminated lanes hold a rank and no other does: the
\* next rank counts the lanes without one.
OnlyGonePlaced(rs) ==
    config.mode = "pursuit" =>
        \A r \in config.active : rs.rank[r] # 0 <=> rs.eliminated[r]

Kept(rs) == \A r \in Gone(rs) : rs.rank[r] = PlaceFromBottom(rs, r)

\* The ranks are those of the final ranking of the race as it stands.
Placed(rs) == \A r \in config.active : rs.rank[r] = Place(rs, r)

\* A pursuit is won when nobody is left to race.
Won(rs) ==
    config.mode = "pursuit" /\ Racing(rs) # {} => \A r \in config.active : ~Arrived(rs, r)

AnnouncementInv ==
    /\ Paid(race)
    /\ Won(race)
    /\ state \in {"ARMING", "COUNTDOWN"} => NobodyHome(race)
    /\ Posted(race, announced)
    /\ state \in Busy => OnlyGonePlaced(race)
    /\ result.kind # "none" => Kept(race) /\ Placed(race)

-----------------------------------------------------------------------------
(* Counting the eliminated. *)

\* Of lanes numbered from 1 without a gap, as many as its number go out no later
\* than one of them.
LEMMA ExitsCount ==
    ASSUME config \in ConfigRecords, NEW rs \in RaceRecords, ExitsNumbered(rs),
           NEW r \in Gone(rs)
    PROVE  Cardinality({q \in Gone(rs) : rs.exit[q] <= rs.exit[r]}) = rs.exit[r]
  <1> DEFINE n == Cardinality(Gone(rs))
             f == [q \in Gone(rs) |-> rs.exit[q]]
             Early == {q \in Gone(rs) : rs.exit[q] <= rs.exit[r]}
             g == [q \in Early |-> rs.exit[q]]
             k == rs.exit[r]
  <1>1. n \in Nat /\ IsFiniteSet(Gone(rs))
    BY CountType, RacingSubset, FS_Subset DEF Gone
  <1>2. /\ \A q \in Gone(rs) : rs.exit[q] \in 1 .. n
        /\ \A a, b \in Gone(rs) : rs.exit[a] = rs.exit[b] => a = b
    BY DEF ExitsNumbered
  <1>3. f \in Injection(Gone(rs), 1 .. n)
    BY <1>2 DEF Injection, IsInjective
  <1>4. IsFiniteSet(1 .. n) /\ Cardinality(1 .. n) = n
    BY <1>1, FS_Interval
  <1>5. f \in Surjection(Gone(rs), 1 .. n)
    BY <1>3, <1>4, FS_Injection
  <1>6. \A i \in 1 .. n : \E q \in Gone(rs) : rs.exit[q] = i
    BY <1>5 DEF Surjection
  <1>7. k \in 1 .. n
    BY <1>2
  <1> HIDE DEF n, f
  <1>8. \A q \in Early : rs.exit[q] \in 1 .. k
    BY <1>1, <1>2, <1>7
  <1>9. \A i \in 1 .. k : \E q \in Early : rs.exit[q] = i
    <2> TAKE i \in 1 .. k
    <2>1. i \in 1 .. n /\ i <= k
      BY <1>1, <1>7
    <2>2. PICK q \in Gone(rs) : rs.exit[q] = i
      BY <1>6, <2>1
    <2> QED
      BY <2>1, <2>2
  <1>10. \A a, b \in Early : rs.exit[a] = rs.exit[b] => a = b
    BY <1>2
  <1> HIDE DEF Early, k
  <1>11. g \in Injection(Early, 1 .. k)
    BY <1>8, <1>10 DEF Injection, IsInjective
  <1>12. g \in Surjection(Early, 1 .. k)
    BY <1>9, <1>11 DEF Surjection, Injection
  <1>13. IsFiniteSet(1 .. k) /\ Cardinality(1 .. k) = k
    BY <1>1, <1>7, FS_Interval
  <1> QED
    BY <1>11, <1>12, <1>13, FS_Injection DEF Early, k

\* The place final_ranking gives an eliminated lane: everybody is ahead of it but
\* those who went out before.
LEMMA PlaceOfGone ==
    ASSUME config \in ConfigRecords, NEW rs \in RaceRecords, Shape(rs), NEW r \in Gone(rs)
    PROVE  Place(rs, r) = PlaceFromBottom(rs, r)
  <1> DEFINE Early == {q \in Gone(rs) : rs.exit[q] <= rs.exit[r]}
             N == Cardinality(config.active)
  <1>1. config.active \subseteq Lanes /\ IsFiniteSet(config.active) /\ N \in Nat
    BY RacingSubset
  <1>2. r \in config.active /\ rs.eliminated[r]
    BY DEF Gone
  <1>3. config.mode = "pursuit"
    BY <1>1, <1>2 DEF Shape, OnlyPursuitEliminates
  <1>4. \A q \in config.active : Ahead(rs, q, r) <=> q \notin Early
    <2> TAKE q \in config.active
    <2>1. Ahead(rs, q, r) <=> AheadPursuit(rs, q, r)
      BY <1>3 DEF Ahead
    <2>2. rs.exit[q] \in Nat /\ rs.exit[r] \in Nat
      BY <1>1, <1>2, RaceTypes
    <2> QED
      BY <1>2, <2>1, <2>2 DEF AheadPursuit, Gone
  <1>5. {q \in config.active : Ahead(rs, q, r)} = config.active \ Early
    BY <1>4
  <1>6. config.active \cap Early = Early
    BY DEF Gone
  <1>7. Cardinality(Early) = rs.exit[r] /\ rs.exit[r] \in Nat
    BY <1>1, <1>2, ExitsCount, RaceTypes DEF Shape
  <1> HIDE DEF Early
  <1>8. Cardinality(config.active \ Early) = N - rs.exit[r]
    <2>1. Cardinality(config.active \ Early)
            = Cardinality(config.active) - Cardinality(config.active \cap Early)
      BY <1>1, FS_Difference
    <2> QED
      BY <1>6, <1>7, <2>1
  <1> QED
    BY <1>5, <1>8 DEF Place, PlaceFromBottom

\* The rank note_elimination announces: as many lanes hold no rank as are left.
LEMMA RankOfOut ==
    ASSUME config \in ConfigRecords, NEW rs \in RaceRecords, OnlyGonePlaced(rs),
           config.mode = "pursuit", NEW out \in SUBSET Racing(rs), NEW r \in out
    PROVE  /\ Eliminate(rs, out).rank[r] = Cardinality(config.active) - Cardinality(Gone(rs))
           /\ Eliminate(rs, out).rank[r] # 0
  <1> DEFINE new == {q \in out : ~rs.eliminated[q]}
             ranks == Over(rs.rank, [q \in new |-> NextEliminationRank(rs)])
             N == Cardinality(config.active)
             free == {q \in config.active : rs.rank[q] = 0}
  <1>1. /\ config.active \subseteq Lanes /\ IsFiniteSet(config.active) /\ N \in Nat
        /\ out \subseteq config.active
    BY RacingSubset
  <1>2. r \in new /\ r \in Lanes
    BY <1>1 DEF Racing, Classified
  <1>3. Eliminate(rs, out).rank = ranks
    BY DEF Eliminate, RaceRecords
  <1>4. ranks[r] = NextEliminationRank(rs)
    BY <1>2, OverAt
  <1>5. free = config.active \ Gone(rs)
    BY DEF OnlyGonePlaced, Gone
  <1>6. Gone(rs) \subseteq config.active /\ config.active \cap Gone(rs) = Gone(rs)
    BY DEF Gone
  <1>7. NextEliminationRank(rs) = Cardinality(free)
    BY DEF NextEliminationRank
  <1> HIDE DEF free, ranks, new
  <1>8. Cardinality(free) = N - Cardinality(Gone(rs)) /\ IsFiniteSet(free)
    BY <1>1, <1>5, <1>6, FS_Difference
  <1>9. r \in free
    BY <1>1, <1>5 DEF Gone, Racing, Classified
  <1>10. Cardinality(free) # 0
    BY <1>8, <1>9, FS_EmptySet
  <1> QED
    BY <1>3, <1>4, <1>7, <1>8, <1>10

-----------------------------------------------------------------------------
(* Applying a verdict: what it announces. *)

\* The rule of pursuit does not call to the line the lane it takes out, and calls
\* nobody while the race goes on.
LEMMA PursuitVerdict ==
    ASSUME config \in ConfigRecords, NEW rs \in RaceRecords, config.mode = "pursuit"
    PROVE  /\ Evaluate(rs).out \cap Evaluate(rs).done = {}
           /\ Evaluate(rs).reason = "NONE" => Evaluate(rs).done = {}
  <1>1. Evaluate(rs) = EvaluatePursuit(rs)
    BY DEF Evaluate
  <1> QED
    BY <1>1 DEF EvaluatePursuit, NoVerdict

\* The rule of distance calls to the line who has reached its target.
LEMMA DistanceVerdict ==
    ASSUME config.mode = "distance", NEW rs
    PROVE  \A r \in Evaluate(rs).done : rs.ticks[r] >= TargetFor(rs, r)
  BY DEF Evaluate, EvaluateDistance

LEMMA AppliedPays ==
    ASSUME config \in ConfigRecords, NEW rs \in RaceRecords, Paid(rs)
    PROVE  Paid(Applied(rs, Evaluate(rs)))
  <1> SUFFICES ASSUME config.mode = "distance", NEW r \in config.active,
                      Arrived(Applied(rs, Evaluate(rs)), r)
               PROVE  Applied(rs, Evaluate(rs)).ticks[r] >= TargetFor(Applied(rs, Evaluate(rs)), r)
    BY DEF Paid
  <1> DEFINE verdict == Evaluate(rs)
             mid == Eliminate(rs, verdict.out)
             after == Finish(mid, verdict.done)
  <1>1. Applied(rs, verdict) = after
    BY DEF Applied
  <1>2. /\ mid \in RaceRecords /\ mid.finishedMs = rs.finishedMs /\ mid.ticks = rs.ticks
        /\ mid.handicap = rs.handicap
    BY EliminateFacts
  <1>3. verdict.done \in SUBSET config.active /\ r \in Lanes
    BY VerdictType, RacingSubset DEF GoodVerdict
  <1>4. r \in verdict.done => rs.ticks[r] >= TargetFor(rs, r)
    BY DistanceVerdict
  <1> HIDE DEF mid, verdict
  <1>5. /\ after.ticks = rs.ticks /\ after.handicap = rs.handicap
        /\ r \in verdict.done \/ after.finishedMs[r] = rs.finishedMs[r]
    BY <1>2, <1>3, FinishFacts
  <1>6. Arrived(rs, r) => rs.ticks[r] >= TargetFor(rs, r)
    BY DEF Paid
  <1> HIDE DEF after
  <1>7. after.finishedMs[r] # 0
    BY <1>1 DEF Arrived, verdict
  <1>8. rs.ticks[r] >= TargetFor(rs, r)
    BY <1>4, <1>5, <1>6, <1>7 DEF Arrived
  <1>9. after.ticks[r] >= TargetFor(after, r)
    BY <1>5, <1>8 DEF TargetFor
  <1> QED
    BY <1>1, <1>9 DEF verdict

\* What Applied makes of the eliminated and of the ranks of a pursuit.
LEMMA AppliedPursuit ==
    ASSUME config \in ConfigRecords, NEW rs \in RaceRecords, config.mode = "pursuit"
    PROVE  LET verdict == Evaluate(rs)
               after == Applied(rs, verdict)
           IN  /\ Gone(after) = Gone(rs) \cup verdict.out
               /\ \A r \in Gone(rs) : after.exit[r] = rs.exit[r] /\ r \notin Told(rs, verdict)
               /\ \A r \in verdict.out :
                    /\ r \in Told(rs, verdict)
                    /\ after.exit[r] = Cardinality(Gone(rs)) + 1
                    /\ after.rank[r] = Eliminate(rs, verdict.out).rank[r]
               /\ \A r \in config.active : r \notin verdict.out \cup verdict.done =>
                    after.rank[r] = rs.rank[r]
  <1> DEFINE verdict == Evaluate(rs)
             mid == Eliminate(rs, verdict.out)
             after == Finish(mid, verdict.done)
  <1>1. Applied(rs, verdict) = after
    BY DEF Applied
  <1>2. /\ verdict.out \subseteq Racing(rs) /\ verdict.done \subseteq Racing(rs)
        /\ Racing(rs) \subseteq config.active /\ config.active \subseteq Lanes
        /\ verdict.out \cap verdict.done = {}
    BY VerdictType, RacingSubset, PursuitVerdict DEF GoodVerdict
  <1>3. /\ mid \in RaceRecords
        /\ \A r \in Lanes : mid.eliminated[r] <=> rs.eliminated[r] \/ r \in verdict.out
        /\ \A r \in Lanes : r \in verdict.out /\ ~rs.eliminated[r] =>
                mid.exit[r] = Cardinality(Gone(rs)) + 1
        /\ \A r \in Lanes : r \notin verdict.out \/ rs.eliminated[r] =>
                mid.exit[r] = rs.exit[r] /\ mid.rank[r] = rs.rank[r]
    BY EliminateFacts
  <1>4. \A r \in Racing(rs) : ~rs.eliminated[r]
    BY DEF Racing, Classified
  <1> HIDE DEF verdict
  <1>5. /\ after.eliminated = mid.eliminated /\ after.exit = mid.exit
        /\ \A r \in Lanes : r \notin verdict.done => after.rank[r] = mid.rank[r]
    <2> HIDE DEF mid
    <2> QED
      BY <1>2, <1>3, FinishFacts
  <1>6. Gone(after) = Gone(rs) \cup verdict.out
    <2> HIDE DEF mid, after
    <2> QED
      BY <1>2, <1>3, <1>5 DEF Gone
  <1>7. \A r \in Gone(rs) : r \notin Racing(rs) /\ r \in Lanes
    BY <1>2, <1>4 DEF Gone
  <1>8. \A r \in Gone(rs) : r \notin Told(rs, verdict)
    BY <1>2, <1>7 DEF Told
  <1>9. \A r \in verdict.out : r \in Told(rs, verdict)
    BY <1>2, <1>4 DEF Told
  <1> HIDE DEF after
  <1>10. \A r \in Gone(rs) : after.exit[r] = rs.exit[r]
    BY <1>2, <1>3, <1>5, <1>7
  <1>11. \A r \in verdict.out : /\ after.exit[r] = Cardinality(Gone(rs)) + 1
                               /\ after.rank[r] = mid.rank[r]
    BY <1>2, <1>3, <1>4, <1>5
  <1>12. \A r \in config.active : r \notin verdict.out \cup verdict.done =>
                after.rank[r] = rs.rank[r]
    BY <1>2, <1>3, <1>5
  <1> QED
    BY <1>1, <1>6, <1>8, <1>9, <1>10, <1>11, <1>12 DEF verdict

\* The lane a verdict takes out is told the place it will keep.
LEMMA AppliedPosts ==
    ASSUME TypeOK, NEW rs \in RaceRecords, Shape(rs), Posted(rs, announced),
           OnlyGonePlaced(rs)
    PROVE  LET verdict == Evaluate(rs)
               after == Applied(rs, verdict)
           IN  /\ Posted(after, Over(announced, [r \in Told(rs, verdict) |-> after.rank[r]]))
               /\ verdict.reason = "NONE" => OnlyGonePlaced(after)
  <1> DEFINE verdict == Evaluate(rs)
             after == Applied(rs, verdict)
             N == Cardinality(config.active)
             told == Over(announced, [r \in Told(rs, verdict) |-> after.rank[r]])
  <1>1. config \in ConfigRecords /\ config.active \subseteq Lanes
    BY RacingSubset DEF TypeOK
  <1>2. CASE config.mode # "pursuit"
    <2>1. Shape(after)
      BY <1>1, AppliedShape
    <2>2. Gone(after) = {}
      BY <1>1, <1>2, <2>1 DEF Shape, OnlyPursuitEliminates, Gone
    <2> QED
      BY <1>2, <2>2 DEF Posted, OnlyGonePlaced
  <1>3. CASE config.mode = "pursuit"
    <2>1. /\ Gone(after) = Gone(rs) \cup verdict.out
          /\ \A r \in Gone(rs) : after.exit[r] = rs.exit[r] /\ r \notin Told(rs, verdict)
          /\ \A r \in verdict.out :
                /\ r \in Told(rs, verdict)
                /\ after.exit[r] = Cardinality(Gone(rs)) + 1
                /\ after.rank[r] = Eliminate(rs, verdict.out).rank[r]
          /\ \A r \in config.active : r \notin verdict.out \cup verdict.done =>
                after.rank[r] = rs.rank[r]
      BY <1>1, <1>3, AppliedPursuit
    <2>2. verdict.out \subseteq Racing(rs) /\ verdict.out \subseteq config.active
      BY <1>1, VerdictType, RacingSubset DEF GoodVerdict
    <2>3. \A r \in verdict.out : /\ after.rank[r] = N - Cardinality(Gone(rs))
                                 /\ after.rank[r] # 0
      BY <1>1, <1>3, <2>1, <2>2, RankOfOut
    <2>4. N \in Nat /\ Cardinality(Gone(rs)) \in Nat
      BY <1>1, CountType, RacingSubset
    <2>5. verdict.reason = "NONE" => verdict.done = {}
      BY <1>1, <1>3, PursuitVerdict
    <2> HIDE DEF verdict, after, N
    <2>6. ASSUME NEW r \in Gone(rs)
          PROVE  told[r] = PlaceFromBottom(after, r)
      <3>1. r \in Lanes /\ r \notin Told(rs, verdict)
        BY <1>1, <2>1, <2>6 DEF Gone
      <3>2. told[r] = announced[r]
        BY <3>1, OverAt
      <3> QED
        BY <2>1, <2>6, <3>2 DEF Posted, PlaceFromBottom
    <2>7. ASSUME NEW r \in verdict.out
          PROVE  told[r] = PlaceFromBottom(after, r)
      <3>1. r \in Lanes /\ r \in Told(rs, verdict)
        BY <1>1, <2>1, <2>2, <2>7
      <3>2. told[r] = after.rank[r]
        BY <3>1, OverAt
      <3> QED
        BY <2>1, <2>3, <2>4, <2>7, <3>2 DEF PlaceFromBottom, N
    <2>8. Posted(after, told)
      BY <2>1, <2>6, <2>7 DEF Posted
    <2>9. verdict.reason = "NONE" => OnlyGonePlaced(after)
      <3> SUFFICES ASSUME verdict.reason = "NONE", NEW r \in config.active
                   PROVE  after.rank[r] # 0 <=> r \in Gone(after)
        BY DEF OnlyGonePlaced, Gone
      <3>1. rs.rank[r] # 0 <=> r \in Gone(rs)
        BY <1>3 DEF OnlyGonePlaced, Gone
      <3> QED
        BY <2>1, <2>3, <2>5, <3>1
    <2> QED
      BY <2>8, <2>9 DEF verdict, after
  <1> QED
    BY <1>2, <1>3

\* A pursuit with two left is won by the leader as the trailer goes out, and nobody
\* is left.
LEMMA AppliedWins ==
    ASSUME config \in ConfigRecords, NEW rs \in RaceRecords, Shape(rs), Contested(rs), Won(rs)
    PROVE  Won(Applied(rs, Evaluate(rs)))
  <1> DEFINE verdict == Evaluate(rs)
             mid == Eliminate(rs, verdict.out)
             after == Finish(mid, verdict.done)
  <1> SUFFICES ASSUME config.mode = "pursuit", Racing(after) # {}
               PROVE  \A r \in config.active : after.finishedMs[r] = 0
    BY DEF Won, Applied, Arrived
  <1>1. /\ Racing(rs) \subseteq config.active /\ config.active \subseteq Lanes
        /\ Racing(after) \subseteq config.active
        /\ IsFiniteSet(Racing(rs)) /\ Cardinality(Racing(rs)) \in Nat
    BY RacingSubset
  <1>2. Racing(rs) # {}
    BY <1>1, FS_EmptySet DEF Contested
  <1>3. \A r \in config.active : rs.finishedMs[r] = 0
    BY <1>2 DEF Won, Arrived
  <1>4. /\ mid \in RaceRecords /\ mid.finishedMs = rs.finishedMs /\ mid.elapsed = rs.elapsed
        /\ \A r \in Lanes : mid.eliminated[r] <=> rs.eliminated[r] \/ r \in verdict.out
    BY EliminateFacts
  <1>5. verdict.done \in SUBSET config.active
    BY VerdictType DEF GoodVerdict
  <1>6. verdict = EvaluatePursuit(rs)
    BY DEF Evaluate
  <1> HIDE DEF mid, verdict
  <1>7. /\ after.eliminated = mid.eliminated
        /\ \A r \in Lanes : after.finishedMs[r] =
             IF r \in verdict.done /\ mid.finishedMs[r] = 0 THEN rs.elapsed
             ELSE mid.finishedMs[r]
    BY <1>4, <1>5, FinishFacts
  <1> HIDE DEF after
  <1>8. CASE verdict.done = {} \/ rs.elapsed = 0
    BY <1>1, <1>3, <1>4, <1>7, <1>8
  <1>9. CASE verdict.done # {} /\ rs.elapsed # 0
    <2> DEFINE L == Leader(rs)
               T == Trailer(rs)
    <2>1. /\ verdict.out = {T} /\ verdict.done = {L}
          /\ L # T /\ Cardinality(Racing(rs)) = 2
      BY <1>6, <1>9 DEF EvaluatePursuit, NoVerdict
    <2>2. L \in Racing(rs) /\ T \in Racing(rs)
      BY <1>2, LeaderIsRacing, TrailerIsRacing
    <2> HIDE DEF L, T
    <2>3. {L, T} \in SUBSET Racing(rs)
      BY <2>2
    <2>4. Cardinality({L, T}) = 2
      <3>1. Cardinality({L}) = 1 /\ IsFiniteSet({L})
        BY FS_Singleton
      <3>2. T \notin {L}
        BY <2>1
      <3>3. Cardinality({L} \cup {T}) = Cardinality({L}) + 1
        BY <3>1, <3>2, FS_AddElement, Zenon
      <3>4. {L, T} = {L} \cup {T}
        OBVIOUS
      <3> QED
        BY <3>1, <3>3, <3>4
    <2>5. Racing(rs) = {L, T}
      BY <1>1, <2>1, <2>3, <2>4, FS_Subset
    <2>6. PICK r \in Racing(after) : TRUE
      OBVIOUS
    <2>7. r \in config.active /\ r \in Lanes /\ ~after.eliminated[r] /\ after.finishedMs[r] = 0
      BY <1>1 DEF Racing, Classified, Arrived
    <2>8. r \in Racing(rs) /\ r # T
      BY <1>3, <1>4, <1>7, <2>1, <2>7 DEF Racing, Classified, Arrived
    <2>9. r = L
      BY <2>5, <2>8
    <2>10. mid.finishedMs[r] = 0
      BY <1>3, <1>4, <2>7
    <2> QED
      BY <1>7, <1>9, <2>1, <2>7, <2>9, <2>10
  <1> QED
    BY <1>8, <1>9

\* Ranking the race at the end keeps what was paid and posted, and gives the lanes
\* that are out the place they were told.
LEMMA RankingAgrees ==
    ASSUME config \in ConfigRecords, NEW rs \in RaceRecords, Shape(rs)
    PROVE  /\ Paid(rs) => Paid(FinalRanking(rs))
           /\ \A told : Posted(rs, told) => Posted(FinalRanking(rs), told)
           /\ Kept(FinalRanking(rs))
           /\ Placed(FinalRanking(rs))
           /\ Won(rs) => Won(FinalRanking(rs))
  <1> DEFINE after == FinalRanking(rs)
  <1>1. /\ after.finishedMs = rs.finishedMs /\ after.ticks = rs.ticks
        /\ after.handicap = rs.handicap /\ after.eliminated = rs.eliminated
        /\ after.exit = rs.exit /\ after.distance = rs.distance /\ after.peak = rs.peak
        /\ \A r \in config.active : after.rank[r] = Place(rs, r)
    BY FinalRankingFacts
  <1>2. \A r \in Gone(rs) : Place(rs, r) = PlaceFromBottom(rs, r) /\ r \in config.active
    BY PlaceOfGone DEF Gone
  <1> HIDE DEF after
  <1>3. Gone(after) = Gone(rs)
    BY <1>1 DEF Gone
  <1>4. \A r : PlaceFromBottom(after, r) = PlaceFromBottom(rs, r)
    BY <1>1 DEF PlaceFromBottom
  <1>5. Paid(rs) => Paid(after)
    BY <1>1 DEF Paid, Arrived, TargetFor
  <1>6. \A told : Posted(rs, told) => Posted(after, told)
    BY <1>3, <1>4 DEF Posted
  <1>7. Kept(after)
    BY <1>1, <1>2, <1>3, <1>4 DEF Kept
  <1>8. \A r, q : Ahead(after, q, r) <=> Ahead(rs, q, r)
    BY <1>1 DEF Ahead, AheadDistance, AheadTime, AheadPursuit, Arrived, Earlier, Farther
  <1>9. Placed(after)
    BY <1>1, <1>8 DEF Placed, Place
  <1>10. Won(rs) => Won(after)
    BY <1>1 DEF Won, Racing, Classified, Arrived
  <1> QED
    BY <1>5, <1>6, <1>7, <1>9, <1>10 DEF after

-----------------------------------------------------------------------------
(* What is announced: the steps. *)

\* What is said of a race only reads the configuration.
LEMMA AgreementCarried ==
    ASSUME NEW rs, race' = rs, config' = config
    PROVE  /\ Paid(rs) => Paid(race)'
           /\ NobodyHome(rs) => NobodyHome(race)'
           /\ Posted(rs, announced') => Posted(race, announced)'
           /\ OnlyGonePlaced(rs) => OnlyGonePlaced(race)'
           /\ Kept(rs) => Kept(race)'
           /\ Placed(rs) => Placed(race)'
           /\ Won(rs) => Won(race)'
  <1>1. /\ Paid(rs) => Paid(race)'
        /\ NobodyHome(rs) => NobodyHome(race)'
        /\ Posted(rs, announced') => Posted(race, announced)'
        /\ OnlyGonePlaced(rs) => OnlyGonePlaced(race)'
        /\ Kept(rs) => Kept(race)'
        /\ Won(rs) => Won(race)'
    BY DEF Paid, Arrived, TargetFor, NobodyHome, Posted, PlaceFromBottom, Gone,
           OnlyGonePlaced, Kept, Won, Racing, Classified
  <1>2. \A r, q : Ahead(race, q, r)' <=> Ahead(rs, q, r)
    BY DEF Ahead, AheadDistance, AheadTime, AheadPursuit, Arrived, Earlier, Farther
  <1>3. Placed(rs) => Placed(race)'
    BY <1>2 DEF Placed, Place
  <1> QED
    BY <1>1, <1>3

LEMMA SettleAgrees ==
    ASSUME TypeOK, NEW rs \in RaceRecords, Shape(rs), Contested(rs), Paid(rs), Won(rs),
           Posted(rs, announced), OnlyGonePlaced(rs), result.kind = "none", Settle(rs),
           config' = config
    PROVE  AnnouncementInv'
  <1> DEFINE verdict == Evaluate(rs)
             settled == Applied(rs, verdict)
             told == Over(announced, [r \in Told(rs, verdict) |-> settled.rank[r]])
  <1>1. Conclude(rs, verdict, settled)
    BY DEF Settle
  <1>2. config \in ConfigRecords
    BY DEF TypeOK
  <1>3. Shape(settled) /\ settled \in RaceRecords /\ Paid(settled) /\ Won(settled)
    BY <1>2, AppliedShape, AppliedType, AppliedPays, AppliedWins
  <1>4. Posted(settled, told) /\ (verdict.reason = "NONE" => OnlyGonePlaced(settled))
    BY AppliedPosts
  <1>5. announced' = told /\ state' \notin {"ARMING", "COUNTDOWN"}
    BY <1>1 DEF Conclude
  <1> HIDE DEF verdict, settled, told
  <1>6. CASE verdict.reason = "NONE"
    <2>1. race' = settled /\ result' = result
      BY <1>1, <1>6 DEF Conclude
    <2> QED
      BY <1>3, <1>4, <1>5, <1>6, <2>1, AgreementCarried DEF AnnouncementInv
  <1>7. CASE verdict.reason # "NONE"
    <2>1. race' = FinalRanking(settled) /\ state' \notin Busy
      BY <1>1, <1>7 DEF Conclude, Busy
    <2>2. /\ Paid(FinalRanking(settled)) /\ Posted(FinalRanking(settled), told)
          /\ Kept(FinalRanking(settled)) /\ Placed(FinalRanking(settled))
          /\ Won(FinalRanking(settled))
      BY <1>2, <1>3, <1>4, RankingAgrees
    <2> QED
      BY <1>5, <2>1, <2>2, AgreementCarried DEF AnnouncementInv
  <1> QED
    BY <1>6, <1>7

LEMMA AbortAgrees ==
    ASSUME TypeOK, NEW rs \in RaceRecords, Shape(rs), Paid(rs), Won(rs),
           Posted(rs, announced), AbortFrom(rs)
    PROVE  AnnouncementInv'
  <1>1. config \in ConfigRecords
    BY DEF TypeOK
  <1>2. /\ state' \notin Busy /\ state' \notin {"ARMING", "COUNTDOWN"}
        /\ config' = config /\ announced' = announced
    BY DEF AbortFrom, Busy
  <1>3. CASE state = "RUNNING"
    <2>1. race' = FinalRanking(rs)
      BY <1>3 DEF AbortFrom
    <2>2. /\ Paid(FinalRanking(rs)) /\ Posted(FinalRanking(rs), announced)
          /\ Kept(FinalRanking(rs)) /\ Placed(FinalRanking(rs)) /\ Won(FinalRanking(rs))
      BY <1>1, RankingAgrees
    <2> QED
      BY <1>2, <2>1, <2>2, AgreementCarried DEF AnnouncementInv
  <1>4. CASE state # "RUNNING"
    <2>1. race' = rs /\ result'.kind = "none"
      BY <1>4 DEF AbortFrom, NoResult
    <2> QED
      BY <1>2, <2>1, AgreementCarried DEF AnnouncementInv
  <1> QED
    BY <1>3, <1>4

\* Two races that agree on the classification agree on what was announced.
LEMMA SameAgreement ==
    ASSUME NEW rs, NEW ss, ss.eliminated = rs.eliminated, ss.exit = rs.exit,
           ss.rank = rs.rank, ss.finishedMs = rs.finishedMs
    PROVE  /\ \A told : Posted(rs, told) => Posted(ss, told)
           /\ OnlyGonePlaced(rs) => OnlyGonePlaced(ss)
           /\ Won(rs) => Won(ss)
  <1>1. Gone(ss) = Gone(rs)
    BY DEF Gone
  <1> QED
    BY <1>1 DEF Posted, PlaceFromBottom, OnlyGonePlaced, Won, Racing, Classified, Arrived

\* Every step keeps the announcements and the result in agreement.
LEMMA AgreementStep ==
    ASSUME IInv, AnnouncementInv, [Next]_vars
    PROVE  AnnouncementInv'
  <1>0. /\ TypeOK /\ race \in RaceRecords /\ config \in ConfigRecords /\ Sound
        /\ Paid(race) /\ Won(race) /\ Posted(race, announced) /\ Shape(race)
    BY DEF IInv, Sound, TypeOK, AnnouncementInv
  <1>1. ASSUME NEW c \in Configs, Arm(c)
        PROVE  AnnouncementInv'
    <2>1. /\ race' = NewRace /\ result'.kind = "none"
          /\ c = config' /\ c.active \subseteq Lanes
      BY <1>1, EngineConstants DEF Arm, NoResult, ConfigRecords
    <2>2. \A r \in Lanes : /\ race'.eliminated[r] = FALSE
                           /\ race'.finishedMs[r] = 0 /\ race'.rank[r] = 0
      BY <2>1 DEF NewRace, Zero, Never
    <2>3. Gone(race)' = {}
      BY <2>1, <2>2 DEF Gone
    <2> QED
      BY <2>1, <2>2, <2>3
      DEF AnnouncementInv, Paid, Won, Arrived, NobodyHome, Posted, OnlyGonePlaced
  <1>2. ASSUME race' = race, config' = config, announced' = announced, result' = result,
               state' \in Busy => state \in Busy,
               state' \in {"ARMING", "COUNTDOWN"} => state \in {"ARMING", "COUNTDOWN"}
        PROVE  AnnouncementInv'
    BY <1>2, AgreementCarried DEF AnnouncementInv
  <1>3. CASE Tick
    <2>1. /\ state' \in Busy => state \in Busy
          /\ state' \in {"ARMING", "COUNTDOWN"} => state \in {"ARMING", "COUNTDOWN"}
      BY <1>3 DEF Tick, Busy
    <2> QED
      BY <1>2, <1>3, <2>1 DEF Tick
  <1>4. ASSUME NEW value \in 0 .. 3, OnCountdown(value)
        PROVE  AnnouncementInv'
    <2>1. state \in {"ARMING", "COUNTDOWN"} /\ state \in Busy
      BY <1>4 DEF OnCountdown, Busy
    <2> QED
      BY <1>2, <1>4, <2>1 DEF OnCountdown
  <1>5. ASSUME NEW frame \in Frames, NEW ms \in 0 .. MaxMs, NEW peaks \in Peaks,
               OnProgress(frame, ms, peaks)
        PROVE  AnnouncementInv'
    <2>1. frame \in PerLane(Nat) /\ peaks \in PerLane(Nat) /\ ms \in Nat
      BY <1>0, FrameType
    <2> DEFINE accepted == filter'.accepted
    <2>2. accepted \in PerLane(Nat)
      BY <1>0, <1>5, <2>1, AcceptType DEF OnProgress, TypeOK, Filters
    <2> DEFINE rs == ApplySample(race, accepted, ms, peaks)
    <2>3. Settle(rs) /\ config' = config /\ state \in Busy
      BY <1>5 DEF OnProgress, Busy
    <2> HIDE DEF accepted
    <2>4. rs \in RaceRecords
      BY <1>0, <2>1, <2>2, ApplySampleType
    <2>5. /\ rs.finishedMs = race.finishedMs /\ rs.eliminated = race.eliminated
          /\ rs.exit = race.exit /\ rs.rank = race.rank /\ rs.handicap = race.handicap
          /\ \A r \in Lanes \ Racing(race) : rs.ticks[r] = race.ticks[r]
      BY <1>0, <2>1, <2>2, ApplySampleFacts
    <2> HIDE DEF rs
    <2>6. /\ Shape(rs) /\ Contested(rs) /\ result.kind = "none"
          /\ Posted(rs, announced) /\ OnlyGonePlaced(rs) /\ Won(rs)
      BY <1>0, <2>3, <2>5, SameShape, SameAgreement DEF Sound, AnnouncementInv
    <2>7. Paid(rs)
      <3> SUFFICES ASSUME config.mode = "distance", NEW r \in config.active, Arrived(rs, r)
                   PROVE  rs.ticks[r] >= TargetFor(rs, r)
        BY DEF Paid
      <3>1. r \in Lanes \ Racing(race) /\ Arrived(race, r)
        BY <1>0, <2>5, RacingSubset DEF Racing, Classified, Arrived
      <3> QED
        BY <1>0, <2>5, <3>1 DEF Paid, TargetFor
    <2> QED
      BY <1>0, <2>3, <2>4, <2>6, <2>7, SettleAgrees
  <1>6. ASSUME NEW q \in Lanes, OnRiderFinish(q)
        PROVE  AnnouncementInv'
    <2> DEFINE rs == Completed(race, q)
    <2>1. Settle(rs) /\ config' = config /\ state \in Busy /\ ~Arrived(race, q)
      BY <1>6 DEF OnRiderFinish, Busy, Racing, Classified
    <2>2. /\ rs \in RaceRecords
          /\ rs.finishedMs = race.finishedMs /\ rs.eliminated = race.eliminated
          /\ rs.exit = race.exit /\ rs.rank = race.rank /\ rs.handicap = race.handicap
          /\ \A r \in Lanes \ {q} : rs.ticks[r] = race.ticks[r]
      BY <1>0, CompletedFacts
    <2> HIDE DEF rs
    <2>3. /\ Shape(rs) /\ Contested(rs) /\ result.kind = "none"
          /\ Posted(rs, announced) /\ OnlyGonePlaced(rs) /\ Won(rs)
      BY <1>0, <2>1, <2>2, SameShape, SameAgreement DEF Sound, AnnouncementInv
    <2>4. Paid(rs)
      <3> SUFFICES ASSUME config.mode = "distance", NEW r \in config.active, Arrived(rs, r)
                   PROVE  rs.ticks[r] >= TargetFor(rs, r)
        BY DEF Paid
      <3>1. r \in Lanes \ {q} /\ Arrived(race, r)
        BY <1>0, <2>1, <2>2, RacingSubset DEF Arrived
      <3> QED
        BY <1>0, <2>2, <3>1 DEF Paid, TargetFor
    <2> QED
      BY <1>0, <2>1, <2>2, <2>3, <2>4, SettleAgrees
  <1>7. ASSUME NEW q \in Lanes, OnFalseStart(q)
        PROVE  AnnouncementInv'
    <2> DEFINE noted == [race EXCEPT !.falseStarted[q] = TRUE]
               late == [noted EXCEPT !.handicap[q] = -config.penalty]
    <2>1. /\ noted.finishedMs = race.finishedMs /\ noted.eliminated = race.eliminated
          /\ noted.exit = race.exit /\ noted.rank = race.rank
          /\ late.finishedMs = race.finishedMs /\ late.eliminated = race.eliminated
          /\ late.exit = race.exit /\ late.rank = race.rank
      BY <1>0 DEF RaceRecords
    <2>2. noted \in RaceRecords
      BY <1>0, FalseStartType
    <2>3. \/ AbortFrom(noted)
          \/ /\ race' = late \/ race' = noted
             /\ config' = config /\ state' = state /\ result' = result
             /\ announced' = announced
      BY <1>7 DEF OnFalseStart
    <2>4. state \in Busy /\ NobodyHome(race) /\ OnlyGonePlaced(race) /\ result.kind = "none"
      BY <1>0, <1>7 DEF OnFalseStart, Busy, AnnouncementInv, Sound
    <2> HIDE DEF noted, late
    <2>5. NobodyHome(noted) /\ NobodyHome(late)
      BY <2>1, <2>4 DEF NobodyHome
    <2>6. Paid(noted) /\ Paid(late)
      BY <1>0, <2>5, RacingSubset DEF Paid, NobodyHome, Arrived
    <2>7. /\ Shape(noted) /\ Posted(noted, announced) /\ Posted(late, announced)
          /\ OnlyGonePlaced(noted) /\ OnlyGonePlaced(late) /\ Won(noted) /\ Won(late)
      BY <1>0, <2>1, <2>4, SameShape, SameAgreement
    <2>8. CASE AbortFrom(noted)
      BY <1>0, <2>2, <2>6, <2>7, <2>8, AbortAgrees
    <2>9. CASE ~AbortFrom(noted)
      BY <2>3, <2>4, <2>5, <2>6, <2>7, <2>9, AgreementCarried DEF AnnouncementInv
    <2> QED
      BY <2>8, <2>9
  <1>8. CASE Abort
    BY <1>0, <1>8, AbortAgrees DEF Abort
  <1>9. CASE OnLinkLostBeyondGrace
    BY <1>0, <1>9, AbortAgrees DEF OnLinkLostBeyondGrace
  <1>10. CASE ShowResults \/ Acknowledge
    <2>1. state' \notin Busy /\ state' \notin {"ARMING", "COUNTDOWN"}
      BY <1>10 DEF ShowResults, Acknowledge, Busy
    <2> QED
      BY <1>2, <1>10, <2>1 DEF ShowResults, Acknowledge
  <1>11. CASE UNCHANGED vars
    BY <1>2, <1>11 DEF vars
  <1> QED
    BY <1>1, <1>3, <1>4, <1>5, <1>6, <1>7, <1>8, <1>9, <1>10, <1>11
    DEF Next, Progress

-----------------------------------------------------------------------------
(* Theorems on the announcements. *)

\* What is announced, what is paid and what the result says, kept in agreement by
\* every handler.
THEOREM AnnouncementInvariant == Spec => []AnnouncementInv
  <1>1. Init => AnnouncementInv
    <2> SUFFICES ASSUME Init PROVE AnnouncementInv
      OBVIOUS
    <2>1. config.active = {} /\ state = "IDLE" /\ result.kind = "none"
      BY DEF Init, NoConfig, NoResult
    <2>2. Gone(race) = {}
      BY <2>1 DEF Gone
    <2> QED
      BY <2>1, <2>2 DEF AnnouncementInv, Paid, Won, Posted, Busy
  <1>2. IInv /\ AnnouncementInv /\ [Next]_vars => AnnouncementInv'
    BY AgreementStep
  <1> QED
    BY <1>1, <1>2, Invariant, PTL DEF Spec

\* The place a rider is eliminated with, on the screens and in the log while the
\* others race, is the place of the result, complete or partial.
THEOREM EliminationsAreFinal == Spec => []EliminationRankIsFinal
  <1>1. IInv /\ AnnouncementInv => EliminationRankIsFinal
    BY DEF AnnouncementInv, Posted, Kept, Gone, EliminationRankIsFinal
  <1> QED
    BY <1>1, Invariant, AnnouncementInvariant, PTL

\* The lane the screens show in the lead is the first of the unfinished in the result,
\* complete or partial.
THEOREM LeadersLead == Spec => []LeaderTopsTheUnfinished
  <1>1. ASSUME IInv, AnnouncementInv, result.kind # "none", config.mode # "time",
               Racing(race) # {}
        PROVE  race.rank[Leader(race)] =
                 Cardinality({r \in config.active : Arrived(race, r)}) + 1
    <2> DEFINE L == Leader(race)
    <2>1. config \in ConfigRecords /\ race \in RaceRecords /\ Shape(race)
      BY <1>1 DEF IInv, Sound, TypeOK
    <2>2. L \in Racing(race) /\ \A q \in Racing(race) : ~Farther(race, q, L)
      BY <1>1, <2>1, LeaderIsRacing
    <2>3. L \in config.active /\ ~Arrived(race, L) /\ ~race.eliminated[L]
      BY <2>2 DEF Racing, Classified
    <2> HIDE DEF L
    <2>4. \A q \in config.active : Ahead(race, q, L) <=> Arrived(race, q)
      <3> TAKE q \in config.active
      <3>1. CASE config.mode = "distance"
        <4>1. q \in Racing(race) \/ Arrived(race, q)
          BY <2>1, <3>1, RacingSubset DEF Racing, Classified, Shape, OnlyPursuitEliminates
        <4> QED
          BY <2>2, <2>3, <3>1, <4>1 DEF Ahead, AheadDistance
      <3>2. CASE config.mode = "pursuit"
        <4>1. ~Arrived(race, q)
          BY <1>1, <3>2 DEF AnnouncementInv, Won
        <4>2. q \in Racing(race) \/ race.eliminated[q]
          BY <4>1 DEF Racing, Classified
        <4> QED
          BY <2>2, <2>3, <3>2, <4>1, <4>2 DEF Ahead, AheadPursuit
      <3> QED
        BY <1>1, <2>1, <3>1, <3>2 DEF ConfigRecords, Modes
    <2>5. Place(race, L) = Cardinality({r \in config.active : Arrived(race, r)}) + 1
      BY <2>4 DEF Place
    <2>6. race.rank[L] = Place(race, L)
      BY <1>1, <2>3 DEF AnnouncementInv, Placed
    <2> QED
      BY <2>5, <2>6 DEF L
  <1>2. IInv /\ AnnouncementInv => LeaderTopsTheUnfinished
    BY <1>1 DEF LeaderTopsTheUnfinished
  <1> QED
    BY <1>2, Invariant, AnnouncementInvariant, PTL

\* A distance in ticks is the distance in metres to less than a tick.
LEMMA TicksCoverMetres ==
    ASSUME NEW m \in Int, NEW t \in Nat, t >= MetresToTicks(m)
    PROVE  TicksToMetres(t + 1) > m
  <1> DEFINE C == Circumference
  <1>1. C \in Nat \ {0}
    BY EngineConstants
  <1> HIDE DEF C
  <1>2. CASE m <= 0
    <2>1. (t + 1) * C > 0
      BY <1>1
    <2> QED
      BY <1>1, <1>2, <2>1 DEF TicksToMetres, C
  <1>3. CASE m > 0
    <2>1. t >= m \div C
      BY <1>3 DEF MetresToTicks, C
    <2> DEFINE d == m \div C
    <2>2. d \in Int /\ m < (d + 1) * C
      BY <1>1, <1>3
    <2> HIDE DEF d
    <2>3. (d + 1) * C <= (t + 1) * C
      BY <1>1, <2>1, <2>2 DEF d
    <2>4. (t + 1) * C \in Int /\ (d + 1) * C \in Int
      BY <1>1, <2>2
    <2> HIDE DEF C
    <2>5. m < (t + 1) * C
      BY <2>2, <2>3, <2>4
    <2> QED
      BY <2>5 DEF TicksToMetres, C
  <1> QED
    BY <1>2, <1>3

\* Whoever arrives in a distance race has ridden the distance and the metres it
\* started behind, by an R: or by the arrival frame of the box.
THEOREM PenaltiesArePaid == Spec => []PenaltyIsPaid
  <1>1. ASSUME IInv, AnnouncementInv, config.mode = "distance", NEW r \in config.active,
               Arrived(race, r)
        PROVE  TicksToMetres(race.ticks[r] + 1) > config.metres - race.handicap[r]
    <2>1. race.ticks[r] >= MetresToTicks(config.metres - race.handicap[r])
      BY <1>1 DEF AnnouncementInv, Paid, TargetFor
    <2>2. config \in ConfigRecords /\ race \in RaceRecords /\ r \in Lanes
      BY <1>1, RacingSubset DEF IInv, TypeOK
    <2>3. config.metres \in Int /\ race.handicap[r] \in Int /\ race.ticks[r] \in Nat
      BY <2>2 DEF ConfigRecords, RaceRecords, PerLane
    <2> QED
      BY <2>1, <2>3, TicksCoverMetres
  <1>2. IInv /\ AnnouncementInv => PenaltyIsPaid
    BY <1>1 DEF PenaltyIsPaid
  <1> QED
    BY <1>2, Invariant, AnnouncementInvariant, PTL

-----------------------------------------------------------------------------
(* The order of the announced arrivals. *)

\* The shortest race is longer than what a frame of time 0 and the tolerance of an
\* arrival frame can make up, and a race against the clock lasts: validate wants 50 m
\* (hundreds of ticks) and 10 s.
LongRaces ==
    \A c \in Configs :
        /\ c.mode = "distance" => MetresToTicks(c.metres) > Tolerance + 1
        /\ c.mode = "time" => c.limit > 0

Home(rs) == {r \in config.active : Arrived(rs, r)}

\* Nobody has arrived later than now, and the arrivals told in order came in order.
Dated(rs, told) ==
    /\ \A r \in config.active : rs.finishedMs[r] <= rs.elapsed
    /\ \A r \in config.active : told[r] # 0 => Arrived(rs, r)
    /\ \A r \in config.active : told[r] <= Cardinality(Home(rs))
    /\ \A a, b \in config.active :
         told[a] # 0 /\ told[a] < told[b] => rs.finishedMs[a] <= rs.finishedMs[b]

\* A race against the clock ends for all at once.
Together(rs) ==
    \A a, b \in config.active :
        Arrived(rs, a) /\ Arrived(rs, b) => rs.finishedMs[a] = rs.finishedMs[b]

\* A pursuit tells the place of those who go out, and that of the winner.
OutOrFirst(rs, told) ==
    \A r \in config.active : told[r] # 0 => rs.eliminated[r] \/ told[r] = 1

Chronicle(rs, told) ==
    /\ config.mode # "pursuit" => Dated(rs, told)
    /\ config.mode = "time" => Together(rs)
    /\ config.mode = "pursuit" => OutOrFirst(rs, told)

\* At time 0 nobody can have more than a tick, and no lane starts ahead.
Early(rs) ==
    /\ rs.elapsed = 0 => \A r \in config.active : rs.ticks[r] <= 1
    /\ \A r \in config.active : rs.handicap[r] <= 0

\* The race is dated by the last frame, and a frame of time 0 counts one tick.
Clocks ==
    /\ race.elapsed = 0 \/ race.elapsed <= filter.lastMs
    /\ filter.lastMs <= 0 => \A r \in config.active : filter.accepted[r] <= 1

\* What is kept for the order of the arrivals; until a timed race or a pursuit is
\* over nobody has arrived in it.
OrderInv ==
    /\ Chronicle(race, announced)
    /\ Early(race)
    /\ Clocks
    /\ state \in Busy => config \in Configs
    /\ state \in Busy /\ config.mode # "distance" => NobodyHome(race)

\* A longer distance is no fewer ticks.
LEMMA TicksGrow ==
    ASSUME NEW m \in Int, NEW n \in Int, m <= n
    PROVE  MetresToTicks(m) <= MetresToTicks(n)
  <1> DEFINE C == Circumference
             d == m \div C
             e == n \div C
  <1>1. C \in Nat \ {0}
    BY EngineConstants
  <1> HIDE DEF C
  <1>2. d \in Int /\ e \in Int /\ C * d <= m /\ n < C * (e + 1)
    BY <1>1
  <1>3. m > 0 => d >= 0
    BY <1>1
  <1>4. n > 0 => e >= 0
    BY <1>1
  <1> HIDE DEF d, e
  <1>5. C * d < C * (e + 1)
    <2>1. C * d \in Int /\ C * (e + 1) \in Int
      BY <1>1, <1>2
    <2> QED
      BY <1>2, <2>1
  <1>6. d < e + 1
    <2> SUFFICES ASSUME d >= e + 1 PROVE FALSE
      BY <1>2
    <2>1. C * d >= C * (e + 1)
      BY <1>1, <1>2
    <2> QED
      BY <1>1, <1>2, <1>5, <2>1
  <1>7. d <= e
    BY <1>2, <1>6
  <1>8. MetresToTicks(m) = (IF m <= 0 THEN 0 ELSE d) /\ MetresToTicks(n) = (IF n <= 0 THEN 0 ELSE e)
    BY DEF MetresToTicks, d, e, C
  <1> QED
    BY <1>2, <1>3, <1>4, <1>7, <1>8

\* Who is told the target of a long race has more than a tick, and no penalty makes
\* it shorter.
LEMMA TargetIsFar ==
    ASSUME LongRaces, config \in Configs, config \in ConfigRecords, config.mode = "distance",
           NEW rs \in RaceRecords, Early(rs), NEW r \in config.active
    PROVE  TargetFor(rs, r) \in Nat /\ TargetFor(rs, r) > Tolerance + 1
  <1>1. r \in Lanes /\ config.metres \in Int
    BY RacingSubset DEF ConfigRecords
  <1>2. rs.handicap[r] \in Int /\ rs.handicap[r] <= 0
    BY <1>1 DEF RaceRecords, PerLane, Early
  <1>3. MetresToTicks(config.metres) <= MetresToTicks(config.metres - rs.handicap[r])
    BY <1>1, <1>2, TicksGrow
  <1>4. MetresToTicks(config.metres) > Tolerance + 1
    BY DEF LongRaces
  <1>5. \A m \in Int : MetresToTicks(m) \in Int
    BY EngineConstants DEF MetresToTicks
  <1>6. config.metres - rs.handicap[r] \in Int
    BY <1>1, <1>2
  <1> QED
    BY <1>1, <1>3, <1>4, <1>5, <1>6, EngineConstants DEF TargetFor

\* The ranks of the lanes that come in with one frame.
LEMMA FinishRanks ==
    ASSUME config \in ConfigRecords, NEW rs \in RaceRecords,
           NEW done \in SUBSET config.active, NEW r \in done, rs.finishedMs[r] = 0
    PROVE  Finish(rs, done).rank[r] = NextFinishRank(rs)
             + Cardinality(IF rs.elapsed = 0 THEN {}
                           ELSE {q \in done : rs.finishedMs[q] = 0 /\ q < r})
  <1> DEFINE new == {q \in done : ~Arrived(rs, q)}
             counted(q) == IF rs.elapsed = 0 THEN {} ELSE {p \in new : p < q}
             k == Over(rs.rank, [q \in new |-> NextFinishRank(rs) + Cardinality(counted(q))])
             m == Over(rs.finishedMs, [q \in new |-> rs.elapsed])
  <1>1. Finish(rs, done) = [rs EXCEPT !.rank = k, !.finishedMs = m]
    BY DEF Finish
  <1>2. r \in new /\ r \in Lanes
    BY RacingSubset DEF Arrived
  <1>3. k[r] = NextFinishRank(rs) + Cardinality(counted(r))
    BY <1>2, OverAt
  <1>4. {p \in new : p < r} = {q \in done : rs.finishedMs[q] = 0 /\ q < r}
    BY DEF Arrived
  <1> HIDE DEF k, m
  <1>5. Finish(rs, done).rank = k
    BY <1>1 DEF RaceRecords
  <1> QED
    BY <1>3, <1>4, <1>5

\* The lanes a frame calls to the line are told the places that follow those of the
\* lanes already there, and get a date no earlier.
LEMMA FinishIsDated ==
    ASSUME TypeOK, NEW rs \in RaceRecords, NEW done \in SUBSET config.active,
           NEW told \in PerLane(Nat), Dated(rs, told), done # {} => rs.elapsed # 0
    PROVE  LET after == Finish(rs, done)
               new == {r \in done : ~Arrived(rs, r)}
           IN  Dated(after, Over(told, [r \in new |-> after.rank[r]]))
  <1> DEFINE after == Finish(rs, done)
             new == {r \in done : ~Arrived(rs, r)}
             fresh == Over(told, [r \in new |-> after.rank[r]])
             A == config.active
             n == Cardinality(Home(rs))
  <1>1. config \in ConfigRecords /\ A \subseteq Lanes /\ IsFiniteSet(A)
    BY RacingSubset DEF TypeOK
  <1>2. /\ after.elapsed = rs.elapsed
        /\ \A r \in A : after.finishedMs[r] = IF r \in new THEN rs.elapsed ELSE rs.finishedMs[r]
    BY <1>1, FinishFacts DEF Arrived
  <1>3. \A r \in A : fresh[r] = IF r \in new THEN after.rank[r] ELSE told[r]
    BY <1>1, OverAt
  <1>4. \A r \in A : told[r] \in Nat /\ rs.finishedMs[r] \in Nat
    BY <1>1, RaceTypes DEF PerLane
  <1>5. rs.elapsed \in Nat
    BY DEF RaceRecords
  <1>6. new \subseteq A /\ Home(rs) \subseteq A /\ new \cap Home(rs) = {}
    BY DEF Home
  <1>7. new # {} => rs.elapsed # 0
    OBVIOUS
  <1>8. Home(after) = Home(rs) \cup new
    BY <1>2, <1>6, <1>7 DEF Home, Arrived
  <1>9. n \in Nat /\ Cardinality(new) \in Nat /\ Cardinality(Home(after)) = n + Cardinality(new)
    <2>1. IsFiniteSet(new) /\ IsFiniteSet(Home(rs))
      BY <1>1, <1>6, FS_Subset
    <2>2. Cardinality(Home(rs) \cup new)
            = Cardinality(Home(rs)) + Cardinality(new) - Cardinality(Home(rs) \cap new)
      BY <2>1, FS_Union
    <2>3. Cardinality(Home(rs) \cap new) = 0
      BY <1>6, FS_EmptySet
    <2> QED
      BY <1>8, <2>1, <2>2, <2>3, FS_CardinalityType
  <1>10. \A r \in new : after.rank[r] > n /\ after.rank[r] <= n + Cardinality(new)
                        /\ after.rank[r] \in Nat
    <2> TAKE r \in new
    <2> DEFINE before == {q \in done : rs.finishedMs[q] = 0 /\ q < r}
    <2>1. rs.finishedMs[r] = 0 /\ rs.elapsed # 0
      BY <1>7 DEF Arrived
    <2>2. after.rank[r] = n + 1 + Cardinality(before)
      BY <1>1, <2>1, FinishRanks DEF NextFinishRank, Home
    <2>3. before \in SUBSET new /\ r \notin before
      BY <1>1, <1>6, RaceTypes DEF Arrived
    <2>4. IsFiniteSet(new)
      BY <1>1, <1>6, FS_Subset
    <2>5. Cardinality(before) \in Nat /\ Cardinality(before) < Cardinality(new)
      BY <2>3, <2>4, ProperSubsetIsSmaller
    <2> HIDE DEF before, n, new, after
    <2> QED
      BY <1>9, <2>2, <2>5
  <1> HIDE DEF after, new, fresh, n
  <1>11. \A r \in A : told[r] # 0 => r \notin new /\ rs.finishedMs[r] # 0
    BY <1>6 DEF Dated, Home, Arrived
  <1>12. \A r \in A : told[r] <= n
    BY DEF Dated, n
  <1>13. \A r \in A : after.finishedMs[r] <= after.elapsed
    BY <1>2, <1>5 DEF Dated
  <1>14. \A r \in A : fresh[r] # 0 => Arrived(after, r)
    BY <1>2, <1>3, <1>7, <1>11 DEF Arrived
  <1>15. \A r \in A : fresh[r] <= Cardinality(Home(after))
    BY <1>3, <1>4, <1>9, <1>10, <1>12
  <1>16. ASSUME NEW a \in A, NEW b \in A, fresh[a] # 0, fresh[a] < fresh[b]
         PROVE  after.finishedMs[a] <= after.finishedMs[b]
    <2>1. CASE b \in new
      <3>1. after.finishedMs[b] = after.elapsed
        BY <1>2, <2>1
      <3> QED
        BY <1>13, <3>1
    <2>2. CASE b \notin new
      <3>1. a \notin new
        BY <1>3, <1>4, <1>9, <1>10, <1>12, <1>16, <2>2
      <3>2. fresh[a] = told[a] /\ fresh[b] = told[b]
        BY <1>3, <2>2, <3>1
      <3>3. rs.finishedMs[a] <= rs.finishedMs[b]
        BY <1>16, <3>2 DEF Dated
      <3> QED
        BY <1>2, <2>2, <3>1, <3>3
    <2> QED
      BY <2>1, <2>2
  <1>17. Dated(after, fresh)
    BY <1>13, <1>14, <1>15, <1>16 DEF Dated
  <1> QED
    BY <1>17 DEF fresh, after, new

-----------------------------------------------------------------------------
(* What is told through a verdict. *)

\* In a race nobody has ridden far enough nobody is called to the line.
LEMMA DoneIsLate ==
    ASSUME LongRaces, config \in Configs, config \in ConfigRecords, config.mode # "pursuit",
           NEW rs \in RaceRecords, Early(rs), Evaluate(rs).done # {}
    PROVE  rs.elapsed # 0
  <1>1. PICK r \in Evaluate(rs).done : TRUE
    OBVIOUS
  <1>2. r \in config.active /\ r \in Lanes
    BY VerdictType, RacingSubset DEF GoodVerdict
  <1>3. CASE config.mode = "distance"
    <2>1. rs.ticks[r] >= TargetFor(rs, r)
      BY <1>1, <1>3, DistanceVerdict
    <2>2. TargetFor(rs, r) \in Nat /\ TargetFor(rs, r) > Tolerance + 1
      BY <1>2, <1>3, TargetIsFar
    <2>3. rs.ticks[r] \in Nat /\ Tolerance \in Nat
      BY <1>2, EngineConstants DEF RaceRecords, PerLane
    <2>4. ~(rs.ticks[r] <= 1)
      BY <2>1, <2>2, <2>3
    <2> QED
      BY <1>2, <2>4 DEF Early
  <1>4. CASE config.mode = "time"
    <2>1. Evaluate(rs) = EvaluateTime(rs) /\ config.limit > 0 /\ config.limit \in Nat
      BY <1>4 DEF Evaluate, LongRaces, ConfigRecords
    <2>2. ~(rs.elapsed < config.limit)
      BY <1>1, <2>1 DEF EvaluateTime, NoVerdict
    <2> QED
      BY <2>1, <2>2
  <1> QED
    BY <1>3, <1>4 DEF ConfigRecords, Modes

\* A pursuit calls one lane to the line at most.
LEMMA OneWinner ==
    ASSUME config.mode = "pursuit", NEW rs
    PROVE  \A a, b \in Evaluate(rs).done : a = b
  BY DEF Evaluate, EvaluatePursuit, NoVerdict

\* A verdict that lets a timed race or a pursuit go on calls nobody.
LEMMA NobodyCalled ==
    ASSUME config \in ConfigRecords, config.mode # "distance", NEW rs \in RaceRecords,
           Evaluate(rs).reason = "NONE"
    PROVE  Evaluate(rs).done = {}
  <1>1. CASE config.mode = "time"
    BY <1>1 DEF Evaluate, EvaluateTime, NoVerdict
  <1>2. CASE config.mode = "pursuit"
    BY <1>2, PursuitVerdict
  <1> QED
    BY <1>1, <1>2 DEF ConfigRecords, Modes

\* What a verdict announces continues the chronicle.
LEMMA AppliedIsTold ==
    ASSUME TypeOK, NEW rs \in RaceRecords, Chronicle(rs, announced),
           config.mode # "distance" => NobodyHome(rs),
           config.mode # "pursuit" /\ Evaluate(rs).done # {} => rs.elapsed # 0
    PROVE  LET verdict == Evaluate(rs)
               settled == Applied(rs, verdict)
           IN  /\ Chronicle(settled, Over(announced,
                                [r \in Told(rs, verdict) |-> settled.rank[r]]))
               /\ verdict.reason = "NONE" /\ config.mode # "distance" => NobodyHome(settled)
  <1> DEFINE verdict == Evaluate(rs)
             done == verdict.done
             mid == Eliminate(rs, verdict.out)
             settled == Finish(mid, done)
             told == Over(announced, [r \in Told(rs, verdict) |-> settled.rank[r]])
             A == config.active
  <1>1. Applied(rs, verdict) = settled
    BY DEF Applied
  <1>2. /\ config \in ConfigRecords /\ A \subseteq Lanes /\ announced \in PerLane(Nat)
        /\ GoodVerdict(rs, verdict)
    BY RacingSubset, VerdictType DEF TypeOK
  <1>3. done \in SUBSET A
    BY <1>2 DEF GoodVerdict
  <1>4. /\ mid \in RaceRecords /\ mid.finishedMs = rs.finishedMs /\ mid.elapsed = rs.elapsed
        /\ \A r \in Lanes : mid.eliminated[r] <=> rs.eliminated[r] \/ r \in verdict.out
    BY <1>2, EliminateFacts
  <1>5. \A r \in A : told[r] = IF r \in Told(rs, verdict) THEN settled.rank[r] ELSE announced[r]
    BY <1>2, OverAt
  <1>6. config.mode # "distance" /\ verdict.reason = "NONE" => done = {}
    BY <1>2, NobodyCalled
  <1>7. config.mode # "pursuit" /\ done # {} => mid.elapsed # 0
    BY <1>4
  <1>8. config.mode = "pursuit" => \A a, b \in done : a = b
    BY OneWinner
  <1>9. Told(rs, verdict) = {r \in verdict.out : ~rs.eliminated[r]}
                              \cup {r \in done : mid.finishedMs[r] = 0}
    BY <1>4 DEF Told, Arrived
  <1> HIDE DEF mid, verdict, done
  <1>10. /\ settled.eliminated = mid.eliminated
         /\ \A r \in Lanes : \/ r \in done /\ settled.finishedMs[r] = mid.elapsed
                             \/ settled.finishedMs[r] = mid.finishedMs[r]
         /\ \A r \in Lanes : r \notin done => settled.finishedMs[r] = mid.finishedMs[r]
    BY <1>2, <1>3, <1>4, FinishFacts
  <1>11. config.mode # "distance" /\ verdict.reason = "NONE" => NobodyHome(settled)
    <2> HIDE DEF settled
    <2> QED
      BY <1>4, <1>6, <1>10 DEF NobodyHome
  <1>12. config.mode # "pursuit" => Dated(settled, told)
    <2> SUFFICES ASSUME config.mode # "pursuit" PROVE Dated(settled, told)
      OBVIOUS
    <2>1. Dated(rs, announced)
      BY DEF Chronicle
    <2>2. Home(mid) = Home(rs)
      BY <1>4 DEF Home, Arrived
    <2>3. Dated(mid, announced)
      BY <1>4, <2>1, <2>2 DEF Dated, Arrived
    <2>4. Told(rs, verdict) = {r \in done : ~Arrived(mid, r)}
      BY <1>2, <1>9 DEF GoodVerdict, Arrived
    <2> QED
      BY <1>2, <1>3, <1>4, <1>7, <2>3, <2>4, FinishIsDated
  <1>13. config.mode = "time" => Together(settled)
    <2> HIDE DEF settled
    <2> SUFFICES ASSUME config.mode = "time" PROVE Together(settled)
      OBVIOUS
    <2>1. \A r \in A : settled.finishedMs[r] = mid.elapsed \/ settled.finishedMs[r] = 0
      BY <1>2, <1>4, <1>10 DEF NobodyHome
    <2> QED
      BY <2>1 DEF Together, Arrived
  <1>14. config.mode = "pursuit" => OutOrFirst(settled, told)
    <2> SUFFICES ASSUME config.mode = "pursuit", NEW r \in A, told[r] # 0
                 PROVE  settled.eliminated[r] \/ told[r] = 1
      BY DEF OutOrFirst
    <2>1. r \in Lanes /\ (settled.eliminated[r] <=> rs.eliminated[r] \/ r \in verdict.out)
      BY <1>2, <1>4, <1>10
    <2>2. CASE r \notin Told(rs, verdict)
      <3>1. told[r] = announced[r]
        BY <1>5, <2>2
      <3> QED
        BY <2>1, <3>1 DEF Chronicle, OutOrFirst
    <2>3. CASE r \in verdict.out
      BY <2>1, <2>3
    <2>4. CASE r \in done /\ mid.finishedMs[r] = 0
      <3>1. told[r] = settled.rank[r]
        BY <1>5, <1>9, <2>4
      <3>2. settled.rank[r] = NextFinishRank(mid)
              + Cardinality(IF mid.elapsed = 0 THEN {}
                            ELSE {q \in done : mid.finishedMs[q] = 0 /\ q < r})
        BY <1>2, <1>3, <1>4, <2>4, FinishRanks
      <3>3. {q \in done : mid.finishedMs[q] = 0 /\ q < r} = {}
        BY <1>2, <1>3, <1>8, <2>1, <2>4, RaceTypes
      <3>4. {q \in A : Arrived(mid, q)} = {}
        BY <1>2, <1>4 DEF NobodyHome, Arrived
      <3>5. NextFinishRank(mid) = 1
        BY <3>4, FS_EmptySet DEF NextFinishRank
      <3> QED
        BY <3>1, <3>2, <3>3, <3>5, FS_EmptySet
    <2> QED
      BY <1>9, <2>2, <2>3, <2>4
  <1>15. Chronicle(settled, told)
    BY <1>12, <1>13, <1>14 DEF Chronicle
  <1> QED
    BY <1>1, <1>11, <1>15 DEF verdict

\* A later look at the same classification tells the same.
LEMMA SameChronicle ==
    ASSUME NEW rs \in RaceRecords, NEW ss \in RaceRecords, NEW told, Chronicle(rs, told),
           config \in ConfigRecords,
           ss.finishedMs = rs.finishedMs, ss.eliminated = rs.eliminated,
           rs.elapsed <= ss.elapsed
    PROVE  Chronicle(ss, told)
  <1>1. Home(ss) = Home(rs)
    BY DEF Home, Arrived
  <1>2. \A r \in config.active : rs.finishedMs[r] \in Nat
    BY RacingSubset, RaceTypes
  <1>3. rs.elapsed \in Nat /\ ss.elapsed \in Nat
    BY DEF RaceRecords
  <1>4. Dated(rs, told) => Dated(ss, told)
    BY <1>1, <1>2, <1>3 DEF Dated, Arrived
  <1> QED
    BY <1>4 DEF Chronicle, Together, OutOrFirst, Arrived

\* And the figures are as far from the target.
LEMMA SameEarly ==
    ASSUME NEW rs, NEW ss, Early(rs), ss.elapsed = rs.elapsed, ss.ticks = rs.ticks,
           ss.handicap = rs.handicap
    PROVE  Early(ss)
  BY DEF Early

\* What is said of the order only reads the configuration.
LEMMA OrderCarried ==
    ASSUME NEW rs, race' = rs, config' = config
    PROVE  /\ Chronicle(rs, announced') => Chronicle(race, announced)'
           /\ Early(rs) => Early(race)'
           /\ NobodyHome(rs) => NobodyHome(race)'
  <1>1. Home(race)' = Home(rs)
    BY DEF Home, Arrived
  <1>2. Dated(rs, announced') => Dated(race, announced)'
    BY <1>1 DEF Dated, Arrived
  <1>3. (Together(rs) => Together(race)') /\ (OutOrFirst(rs, announced') => OutOrFirst(race, announced)')
    BY DEF Together, OutOrFirst, Arrived
  <1> QED
    BY <1>2, <1>3 DEF Chronicle, Early, NobodyHome

\* The end of a frame keeps the chronicle, whether it ends the race or not.
LEMMA SettleOrders ==
    ASSUME TypeOK, NEW rs \in RaceRecords, Chronicle(rs, announced), Early(rs),
           config.mode # "distance" => NobodyHome(rs),
           config.mode # "pursuit" /\ Evaluate(rs).done # {} => rs.elapsed # 0,
           config \in Configs, rs.elapsed = 0 \/ rs.elapsed <= filter'.lastMs,
           filter'.lastMs <= 0 => \A r \in config.active : filter'.accepted[r] <= 1,
           Settle(rs), config' = config
    PROVE  OrderInv'
  <1> DEFINE verdict == Evaluate(rs)
             settled == Applied(rs, verdict)
             told == Over(announced, [r \in Told(rs, verdict) |-> settled.rank[r]])
             ranked == FinalRanking(settled)
  <1>1. Conclude(rs, verdict, settled)
    BY DEF Settle
  <1>2. config \in ConfigRecords
    BY DEF TypeOK
  <1>3. /\ Chronicle(settled, told)
        /\ verdict.reason = "NONE" /\ config.mode # "distance" => NobodyHome(settled)
    BY AppliedIsTold
  <1>4. settled \in RaceRecords /\ ranked \in RaceRecords
    BY <1>2, AppliedType, FinalRankingFacts
  <1>5. settled.elapsed = rs.elapsed /\ settled.ticks = rs.ticks /\ settled.handicap = rs.handicap
    <2> DEFINE mid == Eliminate(rs, verdict.out)
    <2>1. /\ mid \in RaceRecords /\ mid.elapsed = rs.elapsed /\ mid.ticks = rs.ticks
          /\ mid.handicap = rs.handicap
      BY <1>2, EliminateFacts
    <2>2. verdict.done \in SUBSET config.active
      BY <1>2, VerdictType DEF GoodVerdict
    <2>3. settled = Finish(mid, verdict.done)
      BY DEF Applied
    <2> HIDE DEF mid, settled, verdict
    <2> QED
      BY <1>2, <2>1, <2>2, <2>3, FinishFacts
  <1> HIDE DEF verdict, settled
  <1>6. /\ ranked.elapsed = rs.elapsed /\ ranked.ticks = rs.ticks /\ ranked.handicap = rs.handicap
        /\ ranked.finishedMs = settled.finishedMs /\ ranked.eliminated = settled.eliminated
    BY <1>2, <1>4, <1>5, FinalRankingFacts
  <1> HIDE DEF ranked, told
  <1>7. Early(settled) /\ Early(ranked)
    BY <1>5, <1>6, SameEarly
  <1>8. Chronicle(ranked, told)
    <2>1. settled.elapsed <= ranked.elapsed
      BY <1>4, <1>5, <1>6 DEF RaceRecords
    <2> QED
      BY <1>2, <1>3, <1>4, <1>6, <2>1, SameChronicle
  <1>9. announced' = told
    BY <1>1 DEF Conclude, told
  <1>10. CASE verdict.reason = "NONE"
    <2>1. race' = settled
      BY <1>1, <1>10 DEF Conclude
    <2> QED
      BY <1>3, <1>5, <1>7, <1>9, <1>10, <2>1, OrderCarried DEF OrderInv, Clocks
  <1>11. CASE verdict.reason # "NONE"
    <2>1. race' = ranked /\ state' \notin Busy
      BY <1>1, <1>11 DEF Conclude, Busy, ranked
    <2> QED
      BY <1>6, <1>7, <1>8, <1>9, <2>1, OrderCarried DEF OrderInv, Clocks
  <1> QED
    BY <1>10, <1>11

\* So does a race cut short.
LEMMA AbortOrders ==
    ASSUME TypeOK, NEW rs \in RaceRecords, Chronicle(rs, announced), Early(rs), Clocks,
           rs.elapsed = race.elapsed, AbortFrom(rs)
    PROVE  OrderInv'
  <1> DEFINE ranked == FinalRanking(rs)
  <1>1. config \in ConfigRecords
    BY DEF TypeOK
  <1>2. /\ state' \notin Busy /\ config' = config /\ announced' = announced
        /\ filter' = filter
    BY DEF AbortFrom, Busy
  <1>3. /\ ranked \in RaceRecords
        /\ ranked.elapsed = rs.elapsed /\ ranked.ticks = rs.ticks /\ ranked.handicap = rs.handicap
        /\ ranked.finishedMs = rs.finishedMs /\ ranked.eliminated = rs.eliminated
    BY <1>1, FinalRankingFacts
  <1>4. race' = ranked \/ race' = rs
    BY DEF AbortFrom
  <1> HIDE DEF ranked
  <1>5. Early(ranked) /\ Chronicle(ranked, announced)
    <2>1. rs.elapsed <= ranked.elapsed
      BY <1>3 DEF RaceRecords
    <2> QED
      BY <1>1, <1>3, <2>1, SameEarly, SameChronicle
  <1>6. race'.elapsed = race.elapsed
    BY <1>3, <1>4
  <1>7. Chronicle(race, announced)' /\ Early(race)'
    BY <1>2, <1>4, <1>5, OrderCarried
  <1> QED
    BY <1>2, <1>6, <1>7 DEF OrderInv, Clocks

-----------------------------------------------------------------------------
(* What is told through a step. *)

\* A sample of a clock that does not recede keeps the chronicle and the dates.
LEMMA SampleOrders ==
    ASSUME TypeOK, ~ClockMayRecede, OrderInv, NEW frame \in Frames, NEW ms \in 0 .. MaxMs,
           NEW peaks \in Peaks, FrameAt(frame, ms), filter' = Accept(filter, frame, ms)
    PROVE  LET rs == ApplySample(race, filter'.accepted, ms, peaks)
           IN  /\ rs \in RaceRecords /\ rs.elapsed = ms
               /\ rs.finishedMs = race.finishedMs /\ rs.eliminated = race.eliminated
               /\ Chronicle(rs, announced) /\ Early(rs)
               /\ filter'.lastMs = ms
               /\ ms <= 0 => \A r \in config.active : filter'.accepted[r] <= 1
  <1> DEFINE accepted == filter'.accepted
             rs == ApplySample(race, accepted, ms, peaks)
             A == config.active
  <1>1. /\ config \in ConfigRecords /\ race \in RaceRecords /\ filter \in Filters
        /\ A \subseteq Lanes
    BY RacingSubset DEF TypeOK
  <1>2. frame \in PerLane(Nat) /\ peaks \in PerLane(Nat) /\ ms \in Nat
    BY <1>1, FrameType
  <1>3. accepted \in PerLane(Nat) /\ filter.lastMs \in Int /\ filter.accepted \in PerLane(Nat)
    BY <1>1, <1>2, AcceptType DEF Filters
  <1>4. ms >= filter.lastMs /\ (ms = 0 => \A r \in A : frame[r] <= 1)
    BY DEF FrameAt
  <1>5. PICK kept \in SUBSET A :
          filter' = [accepted |-> Over(filter.accepted, [r \in kept |-> frame[r]]), lastMs |-> ms]
    <2> DEFINE delta == IF filter.lastMs >= 0 THEN ms - filter.lastMs ELSE ms
               K == {r \in A : Plausible(filter.accepted[r], frame[r], delta)}
    <2>1. ~(filter.lastMs >= 0 /\ ms < filter.lastMs)
      BY <1>2, <1>3, <1>4
    <2>2. filter' = [accepted |-> Over(filter.accepted, [r \in K |-> frame[r]]), lastMs |-> ms]
      BY <2>1 DEF Accept
    <2>3. K \in SUBSET A
      OBVIOUS
    <2> HIDE DEF K
    <2> QED
      BY <2>2, <2>3
  <1>6. filter'.lastMs = ms /\ accepted = Over(filter.accepted, [r \in kept |-> frame[r]])
    BY <1>5
  <1>7. \A r \in A : accepted[r] = frame[r] \/ accepted[r] = filter.accepted[r]
    BY <1>1, <1>6, OverAt
  <1>8. ms <= 0 => \A r \in A : accepted[r] <= 1
    BY <1>2, <1>3, <1>4, <1>7 DEF OrderInv, Clocks
  <1> HIDE DEF accepted
  <1>9. rs \in RaceRecords
    BY <1>1, <1>2, <1>3, ApplySampleType
  <1>10. /\ rs.finishedMs = race.finishedMs /\ rs.eliminated = race.eliminated
         /\ rs.handicap = race.handicap
    BY <1>1, <1>2, <1>3, ApplySampleFacts
  <1>11. rs.elapsed = ms /\ rs.ticks = Over(race.ticks, [r \in Racing(race) |-> accepted[r]])
    BY <1>1 DEF ApplySample, RaceRecords
  <1> HIDE DEF rs
  <1>12. \A r \in A : rs.ticks[r] = accepted[r] \/ rs.ticks[r] = race.ticks[r]
    BY <1>1, <1>11, OverAt
  <1>13. race.elapsed \in Nat /\ race.elapsed <= ms
    BY <1>1, <1>2, <1>3, <1>4 DEF RaceRecords, OrderInv, Clocks
  <1>14. Early(rs)
    <2>1. ms = 0 => \A r \in A : race.ticks[r] <= 1
      BY <1>2, <1>13 DEF OrderInv, Early
    <2> QED
      BY <1>2, <1>8, <1>10, <1>11, <1>12, <2>1 DEF OrderInv, Early
  <1>15. Chronicle(rs, announced)
    BY <1>1, <1>9, <1>10, <1>11, <1>13, SameChronicle DEF OrderInv
  <1> QED
    BY <1>6, <1>8, <1>9, <1>10, <1>11, <1>14, <1>15 DEF rs, accepted

\* An arrival frame that is believed comes after time 0.
LEMMA ArrivalOrders ==
    ASSUME TypeOK, LongRaces, OrderInv, state = "RUNNING", config.mode = "distance",
           NEW q \in Racing(race), Missing(race, q) \in 1 .. Tolerance
    PROVE  LET rs == Completed(race, q)
           IN  /\ rs \in RaceRecords /\ rs.elapsed = race.elapsed /\ rs.elapsed # 0
               /\ Chronicle(rs, announced) /\ Early(rs)
  <1> DEFINE rs == Completed(race, q)
  <1>1. config \in ConfigRecords /\ race \in RaceRecords
    BY DEF TypeOK
  <1>2. q \in config.active /\ q \in Lanes
    BY <1>1, RacingSubset
  <1>3. config \in Configs /\ Early(race) /\ Chronicle(race, announced)
    BY DEF OrderInv, Busy
  <1>4. TargetFor(race, q) \in Nat /\ TargetFor(race, q) > Tolerance + 1
    BY <1>1, <1>2, <1>3, TargetIsFar
  <1>5. race.elapsed # 0
    <2>1. race.ticks[q] \in Nat /\ Tolerance \in Nat
      BY <1>1, <1>2, EngineConstants DEF RaceRecords, PerLane
    <2>2. ~(race.ticks[q] <= 1)
      BY <1>4, <2>1 DEF Missing
    <2> QED
      BY <1>2, <1>3, <2>2 DEF Early
  <1>6. /\ rs \in RaceRecords /\ rs.finishedMs = race.finishedMs
        /\ rs.eliminated = race.eliminated /\ rs.handicap = race.handicap
    BY <1>1, <1>2, CompletedFacts
  <1>7. rs.elapsed = race.elapsed
    BY <1>1 DEF Completed, RaceRecords
  <1> HIDE DEF rs
  <1>8. Early(rs)
    BY <1>3, <1>5, <1>6, <1>7 DEF Early
  <1>9. Chronicle(rs, announced)
    <2>1. race.elapsed <= rs.elapsed
      BY <1>1, <1>7 DEF RaceRecords
    <2> QED
      BY <1>1, <1>3, <1>6, <2>1, SameChronicle
  <1> QED
    BY <1>5, <1>6, <1>7, <1>8, <1>9 DEF rs

\* Every step keeps the order of what was told.
LEMMA OrderStep ==
    ASSUME LongRaces, ~ClockMayRecede, IInv, AnnouncementInv, OrderInv, [Next]_vars
    PROVE  OrderInv'
  <1>0. /\ TypeOK /\ race \in RaceRecords /\ config \in ConfigRecords
        /\ Chronicle(race, announced) /\ Early(race) /\ Clocks
    BY DEF IInv, TypeOK, OrderInv
  <1>1. ASSUME NEW c \in Configs, Arm(c)
        PROVE  OrderInv'
    <2>1. /\ race' = NewRace /\ announced' = Zero /\ filter' = NewFilter
          /\ c = config' /\ c.active \subseteq Lanes
      BY <1>1, EngineConstants DEF Arm, ConfigRecords
    <2>2. /\ race'.elapsed = 0 /\ filter'.lastMs = -1
          /\ \A r \in Lanes : /\ race'.finishedMs[r] = 0 /\ race'.ticks[r] = 0
                              /\ race'.handicap[r] = 0 /\ announced'[r] = 0
                              /\ filter'.accepted[r] = 0
      BY <2>1 DEF NewRace, NewFilter, Zero
    <2>3. Cardinality(Home(race)') = 0
      <3>1. Home(race)' = {}
        BY <2>1, <2>2 DEF Home, Arrived
      <3> QED
        BY <3>1, FS_EmptySet
    <2>4. Chronicle(race, announced)'
      BY <2>1, <2>2, <2>3 DEF Chronicle, Dated, Together, OutOrFirst, Arrived
    <2> QED
      BY <2>1, <2>2, <2>4 DEF OrderInv, Early, Clocks, NobodyHome
  <1>2. ASSUME race' = race, config' = config, announced' = announced, filter' = filter,
               state' \in Busy => state \in Busy
        PROVE  OrderInv'
    BY <1>0, <1>2, OrderCarried DEF OrderInv, Clocks
  <1>3. CASE Tick
    <2>1. state' \in Busy => state \in Busy
      BY <1>3 DEF Tick, Busy
    <2> QED
      BY <1>2, <1>3, <2>1 DEF Tick
  <1>4. ASSUME NEW value \in 0 .. 3, OnCountdown(value)
        PROVE  OrderInv'
    <2>1. state \in Busy
      BY <1>4 DEF OnCountdown, Busy
    <2> QED
      BY <1>2, <1>4, <2>1 DEF OnCountdown
  <1>5. ASSUME NEW frame \in Frames, NEW ms \in 0 .. MaxMs, NEW peaks \in Peaks,
               FrameAt(frame, ms), OnProgress(frame, ms, peaks)
        PROVE  OrderInv'
    <2> DEFINE rs == ApplySample(race, filter'.accepted, ms, peaks)
    <2>1. /\ filter' = Accept(filter, frame, ms) /\ Settle(rs) /\ config' = config
          /\ state \in Busy
      BY <1>5 DEF OnProgress, Busy
    <2>2. /\ rs \in RaceRecords /\ rs.elapsed = ms
          /\ rs.finishedMs = race.finishedMs
          /\ Chronicle(rs, announced) /\ Early(rs) /\ filter'.lastMs = ms
          /\ ms <= 0 => \A r \in config.active : filter'.accepted[r] <= 1
      BY <1>0, <1>5, <2>1, SampleOrders
    <2> HIDE DEF rs
    <2>3. config \in Configs /\ (config.mode # "distance" => NobodyHome(rs))
      BY <2>1, <2>2 DEF OrderInv, NobodyHome
    <2>4. config.mode # "pursuit" /\ Evaluate(rs).done # {} => rs.elapsed # 0
      BY <1>0, <2>2, <2>3, DoneIsLate
    <2>5. rs.elapsed = 0 \/ rs.elapsed <= filter'.lastMs
      BY <2>2
    <2> QED
      BY <1>0, <2>1, <2>2, <2>3, <2>4, <2>5, SettleOrders
  <1>6. ASSUME NEW q \in Lanes, OnRiderFinish(q)
        PROVE  OrderInv'
    <2> DEFINE rs == Completed(race, q)
    <2>1. /\ Settle(rs) /\ config' = config /\ filter' = filter /\ state = "RUNNING"
          /\ config.mode = "distance" /\ q \in Racing(race)
          /\ Missing(race, q) \in 1 .. Tolerance
      BY <1>6 DEF OnRiderFinish
    <2>2. /\ rs \in RaceRecords /\ rs.elapsed = race.elapsed /\ rs.elapsed # 0
          /\ Chronicle(rs, announced) /\ Early(rs)
      BY <1>0, <2>1, ArrivalOrders
    <2> HIDE DEF rs
    <2>3. config \in Configs
      BY <2>1 DEF OrderInv, Busy
    <2> QED
      BY <1>0, <2>1, <2>2, <2>3, SettleOrders DEF Clocks
  <1>7. ASSUME NEW q \in Lanes, OnFalseStart(q)
        PROVE  OrderInv'
    <2> DEFINE noted == [race EXCEPT !.falseStarted[q] = TRUE]
               late == [noted EXCEPT !.handicap[q] = -config.penalty]
    <2>1. /\ noted.finishedMs = race.finishedMs /\ noted.eliminated = race.eliminated
          /\ noted.elapsed = race.elapsed /\ noted.ticks = race.ticks
          /\ noted.handicap = race.handicap
          /\ late.finishedMs = race.finishedMs /\ late.eliminated = race.eliminated
          /\ late.elapsed = race.elapsed /\ late.ticks = race.ticks
          /\ late.handicap = [race.handicap EXCEPT ![q] = -config.penalty]
      BY <1>0 DEF RaceRecords
    <2>2. noted \in RaceRecords /\ late \in RaceRecords /\ config.penalty \in Nat
      <3>1. config.penalty \in Nat
        BY <1>0 DEF ConfigRecords
      <3>2. noted \in RaceRecords
        BY <1>0, FalseStartType
      <3> HIDE DEF noted
      <3>3. late \in RaceRecords
        <4>1. -config.penalty \in Int
          BY <3>1
        <4> QED
          BY <3>2, <4>1, FalseStartType
      <3> QED
        BY <3>1, <3>2, <3>3
    <2>3. \/ AbortFrom(noted)
          \/ /\ race' = late \/ race' = noted
             /\ config' = config /\ state' = state /\ filter' = filter
             /\ announced' = announced
      BY <1>7 DEF OnFalseStart
    <2> HIDE DEF noted, late
    <2>4. race.handicap \in PerLane(Int) /\ race.elapsed \in Nat
      BY <1>0 DEF RaceRecords
    <2>5. Early(noted) /\ Early(late)
      <3>1. \A r \in config.active : late.handicap[r] <= 0
        <4>1. \A r \in config.active : r \in Lanes /\ race.handicap[r] <= 0
          BY <1>0, RacingSubset DEF Early
        <4>2. \A r \in Lanes : late.handicap[r] = IF r = q THEN -config.penalty
                                                  ELSE race.handicap[r]
          BY <2>1, <2>4 DEF PerLane
        <4> QED
          BY <2>2, <4>1, <4>2
      <3> QED
        BY <1>0, <2>1, <3>1 DEF Early
    <2>6. Chronicle(noted, announced) /\ Chronicle(late, announced)
      BY <1>0, <2>1, <2>2, <2>4, SameChronicle
    <2>7. CASE AbortFrom(noted)
      BY <1>0, <2>1, <2>2, <2>5, <2>6, <2>7, AbortOrders
    <2>8. CASE ~AbortFrom(noted)
      <3>1. NobodyHome(race) => NobodyHome(noted) /\ NobodyHome(late)
        BY <2>1 DEF NobodyHome
      <3>2. race'.elapsed = race.elapsed
        BY <2>1, <2>3, <2>8
      <3> QED
        BY <2>3, <2>5, <2>6, <2>8, <3>1, <3>2, OrderCarried DEF OrderInv, Clocks
    <2> QED
      BY <2>7, <2>8
  <1>8. CASE Abort
    BY <1>0, <1>8, AbortOrders DEF Abort
  <1>9. CASE OnLinkLostBeyondGrace
    BY <1>0, <1>9, AbortOrders DEF OnLinkLostBeyondGrace
  <1>10. CASE ShowResults \/ Acknowledge
    <2>1. state' \notin Busy
      BY <1>10 DEF ShowResults, Acknowledge, Busy
    <2> QED
      BY <1>2, <1>10, <2>1 DEF ShowResults, Acknowledge
  <1>11. CASE UNCHANGED vars
    BY <1>2, <1>11 DEF vars
  <1> QED
    BY <1>1, <1>3, <1>4, <1>5, <1>6, <1>7, <1>8, <1>9, <1>10, <1>11
    DEF Next, Progress

\* Two arrivals told in one order and ranked in the other have the same date.
LEMMA OnlyTiesReorder ==
    ASSUME IInv, AnnouncementInv, OrderInv, result.kind # "none",
           NEW a \in config.active, NEW b \in config.active,
           announced[a] # 0, announced[a] < announced[b], race.rank[a] > race.rank[b]
    PROVE  Arrived(race, a) /\ race.finishedMs[a] = race.finishedMs[b]
  <1> DEFINE A == config.active
             R == AheadPairs(race)
  <1>1. /\ config \in ConfigRecords /\ race \in RaceRecords /\ Shape(race)
        /\ announced \in PerLane(Nat) /\ IsFiniteSet(A) /\ a \in Lanes /\ b \in Lanes
    BY RacingSubset DEF IInv, Sound, TypeOK
  <1>2. announced[a] \in Nat /\ announced[b] \in Nat /\ a # b
    BY <1>1 DEF PerLane
  <1>3. ASSUME NEW p \in A, NEW q \in A, Ahead(race, p, q)
        PROVE  race.rank[p] < race.rank[q]
    <2>1. \A r \in A : race.rank[r] = PlaceIn(R, A, r)
      <3> TAKE r \in A
      <3>1. {s \in A : Ahead(race, s, r)} = Preceding(R, A, r)
        BY DEF Preceding, AheadPairs
      <3> QED
        BY <3>1 DEF Place, PlaceIn, AnnouncementInv, Placed
    <2>2. <<p, q>> \in R
      BY <1>3 DEF AheadPairs
    <2>3. StrictTotalOrder(R, A)
      BY <1>1, AheadIsOrder
    <2>4. PlaceIn(R, A, p) < PlaceIn(R, A, q)
      BY <1>1, <2>2, <2>3, PlacesFollowOrder
    <2> QED
      BY <2>1, <2>4
  <1>4. race.rank[a] \in Nat /\ race.rank[b] \in Nat
    BY <1>1, RaceTypes
  <1>5. ~Ahead(race, a, b)
    BY <1>3, <1>4
  <1>6. race.finishedMs[a] \in Nat /\ race.finishedMs[b] \in Nat /\ a \in Int /\ b \in Int
    BY <1>1, RaceTypes
  <1>7. CASE config.mode = "distance"
    <2>1. Arrived(race, a) /\ Arrived(race, b) /\ race.finishedMs[a] <= race.finishedMs[b]
      BY <1>2, <1>7 DEF OrderInv, Chronicle, Dated
    <2>2. ~Earlier(race, a, b)
      BY <1>5, <1>7, <2>1 DEF Ahead, AheadDistance
    <2> QED
      BY <1>6, <2>1, <2>2 DEF Earlier
  <1>8. CASE config.mode = "time"
    <2>1. Arrived(race, a) /\ Arrived(race, b)
      BY <1>2, <1>8 DEF OrderInv, Chronicle, Dated
    <2> QED
      BY <1>8, <2>1 DEF OrderInv, Chronicle, Together
  <1>9. CASE config.mode = "pursuit"
    <2>1. /\ race.eliminated[a] \/ announced[a] = 1
          /\ race.eliminated[b] \/ announced[b] = 1
      BY <1>2, <1>9 DEF OrderInv, Chronicle, OutOrFirst
    <2>2. race.eliminated[b]
      BY <1>2, <2>1
    <2>3. race.eliminated[a]
      BY <1>5, <1>9, <2>2, <1>1, RaceTypes DEF Ahead, AheadPursuit
    <2>4. race.rank[a] = announced[a] /\ race.rank[b] = announced[b]
      BY <2>2, <2>3 DEF AnnouncementInv, Posted, Kept, Gone
    <2> QED
      BY <1>2, <2>4
  <1> QED
    BY <1>1, <1>7, <1>8, <1>9 DEF ConfigRecords, Modes

\* Whatever order the frames, the arrival frames and the end of a race come in, two
\* arrivals announced in one order are ranked in the other only if they share their
\* date: the photo-finish.  The clock of the box is taken not to go back.
THEOREM PhotoFinishOnly ==
    ASSUME LongRaces, ~ClockMayRecede
    PROVE  Spec => []OnlyPhotoFinishReorders
  <1>1. Init => OrderInv
    <2> SUFFICES ASSUME Init PROVE OrderInv
      OBVIOUS
    <2>1. /\ config.active = {} /\ config.mode = "distance" /\ state = "IDLE"
          /\ race.elapsed = 0 /\ filter.lastMs = -1
      BY DEF Init, NoConfig, NewRace, NewFilter
    <2> QED
      BY <2>1 DEF OrderInv, Chronicle, Dated, Early, Clocks, Busy
  <1>2. IInv /\ AnnouncementInv /\ OrderInv /\ [Next]_vars => OrderInv'
    BY OrderStep
  <1>3. IInv /\ AnnouncementInv /\ OrderInv => OnlyPhotoFinishReorders
    BY OnlyTiesReorder DEF OnlyPhotoFinishReorders
  <1> QED
    BY <1>1, <1>2, <1>3, Invariant, AnnouncementInvariant, PTL DEF Spec
=============================================================================
