--------------------------- MODULE RaceNightProofs ---------------------------
(***************************************************************************)
(* Proofs about RaceNight, for a queue of commands of any size.            *)
(*                                                                         *)
(* Control is what the main thread keeps between its own variables.        *)
(* Stopping follows the stop of a race to the box: it waits in the queue   *)
(* with nothing but sensor tests behind it, or the box has obeyed it, or   *)
(* it is known to be refused or lost.  The queue is pumped whole, some of  *)
(* its writes being lost, so that a box is after it what the last command  *)
(* it hears makes of it: LastCommandCounts.                                *)
(***************************************************************************)
EXTENDS RaceNight, Orders, SequenceTheorems

-----------------------------------------------------------------------------
(* What the main thread keeps. *)

States == {"IDLE", "ARMING", "COUNTDOWN", "RUNNING", "RESULTS"}
LinkStates == {"Disconnected", "PortOpen", "Identified", "LinkLost"}

\* The types of what the main thread decides with.
ControlTypes ==
    /\ engine \in States
    /\ demo \in BOOLEAN /\ test \in BOOLEAN /\ lost \in BOOLEAN /\ active \in BOOLEAN
    /\ backend \in Backends /\ chosen \in Backends
    /\ saved \in Backends \cup {"none"}
    /\ settings \in {"ours", "show"}
    /\ disk \in [of : {"ours"}, backend : Backends]
    /\ owner \in {"operator", "show"}
    /\ fate \in {"none", "kept", "dropped"}

\* set_race_active follows the engine, on the serial link only.
WatchFollows == active <=> backend = "serial" /\ InProgress

\* A show has put the link of the operator aside; without one nothing is.
Borrowed ==
    /\ demo => saved = chosen
    /\ ~demo => settings = "ours" /\ backend = chosen

\* A race in progress is of the show exactly while the show is on.
OwnerIsKnown == InProgress => owner = IF demo THEN "show" ELSE "operator"

Control ==
    /\ ControlTypes
    /\ WatchFollows
    /\ Borrowed
    /\ OwnerIsKnown
    /\ TestAlone
    /\ OnlyOursAreKept

\* Nothing is on when the program starts.
LEMMA InitControl == Init => Control
<1> SUFFICES ASSUME Init PROVE Control
  OBVIOUS
<1> USE DEF Init, States, Backends, InProgress
<1>1. disk \in [of : {"ours"}, backend : Backends]
  OBVIOUS
<1>2. ControlTypes
  BY <1>1 DEF ControlTypes
<1>3. WatchFollows /\ Borrowed /\ OwnerIsKnown /\ TestAlone /\ OnlyOursAreKept
  BY DEF WatchFollows, Borrowed, OwnerIsKnown, TestAlone, OnlyOursAreKept
<1> QED
  BY <1>2, <1>3 DEF Control

\* Every action of the operator, of an image, of the thread and of the world keeps it.
LEMMA NextControl == Control /\ [Next]_vars => Control'
<1> SUFFICES ASSUME Control, [Next]_vars PROVE Control'
  OBVIOUS
<1> USE DEF Control, ControlTypes, WatchFollows, Borrowed, OwnerIsKnown, TestAlone,
            OnlyOursAreKept, States, Backends, InProgress, engineVars, showVars
<1>1. CASE UNCHANGED vars
  BY <1>1 DEF vars, linkVars
<1>2. CASE StartRace
  BY <1>2 DEF StartRace, Starts, MayStart
<1>3. CASE StopRace
  BY <1>3 DEF StopRace, Aborts, Ends, Outcome
<1>4. CASE RestartRace
  BY <1>4 DEF RestartRace, Starts
<1>5. CASE BeginTest
  BY <1>5 DEF BeginTest
<1>6. CASE EndTest
  BY <1>6 DEF EndTest
<1>7. ASSUME NEW to \in Backends, Toggle(to) PROVE Control'
  BY <1>7 DEF Toggle, Applies, OpensSimulator, OpensDriver, OnLinkState
<1>8. CASE StartShow
  BY <1>8 DEF StartShow, Applies, OpensSimulator, OnLinkState
<1>9. CASE StopShow
  BY <1>9 DEF StopShow, Applies, OpensSimulator, OpensDriver, OnLinkState, Restores, Outcome
<1>10. CASE Close
  BY <1>10 DEF Close, Saves, Launched
<1>11. CASE ArmingTimeout
  BY <1>3, <1>11 DEF ArmingTimeout
<1>12. CASE GraceRunsOut
  BY <1>12 DEF GraceRunsOut, Aborts, Ends, Outcome
<1>13. CASE NextRace
  BY <1>13 DEF NextRace, Starts, MayStart
<1>14. CASE SimConnects
  BY <1>14 DEF SimConnects, OnLinkState
<1>15. ASSUME NEW kind, NEW b, OnFrame(kind, b), 
          UNCHANGED <<showVars, backend, test, lost, chosen>>
       PROVE  Control'
  <2>1. CASE Counts(kind, b)
    BY <1>15, <2>1 DEF Counts, Becomes
  <2>2. CASE FalseStart(kind, b)
    BY <1>15, <2>2 DEF FalseStart, Aborts, Ends, Outcome
  <2>3. CASE Progresses(kind, b)
    <3>1. CASE Becomes("RUNNING", b)
      BY <1>15, <2>3, <3>1 DEF Progresses, Becomes
    <3>2. CASE Ends("RESULTS", TRUE, b) /\ Saves /\ UNCHANGED owner
      <4>1. disk' \in [of : {"ours"}, backend : Backends]
        BY <3>2 DEF Saves
      <4>2. engine' = "RESULTS" /\ active' = FALSE /\ fate' = Outcome(TRUE)
        BY <3>2 DEF Ends
      <4> QED
        BY <1>15, <2>3, <3>2, <4>1, <4>2 DEF Progresses, Outcome
    <3> QED
      BY <2>3, <3>1, <3>2 DEF Progresses
  <2>4. CASE Becomes(engine, b)
    BY <1>15, <2>4 DEF Becomes
  <2> QED
    BY <1>15, <2>1, <2>2, <2>3, <2>4 DEF OnFrame
<1>16. CASE SimSends
  BY <1>15, <1>16 DEF SimSends
<1>17. CASE Pop
  BY <1>15, <1>17 DEF Pop
<1>18. CASE Poll
  BY <1>18 DEF Poll, OnLinkState
<1>19. ASSUME UNCHANGED mainVars PROVE Control'
  BY <1>19 DEF mainVars
<1>20. CASE Thread \/ BoxSends \/ PlugOrPull
  BY <1>19, <1>20 DEF Thread, BoxSends, PlugOrPull, OpensPort, GreetsAgain, GivesUp,
         Identifies, Pumps, FallsSilent, LosesPort, StopsWaiting
<1>21. CASE Crash
  BY <1>21 DEF Crash, Launched
<1> QED
  BY <1>1, <1>2, <1>3, <1>4, <1>5, <1>6, <1>7, <1>8, <1>9, <1>10, <1>11, <1>12, <1>13,
     <1>14, <1>16, <1>17, <1>18, <1>20, <1>21 DEF Next, Operator, Image

-----------------------------------------------------------------------------
(* What a box makes of the commands that wait for it. *)

Tags == {"race", "test", "old"}
Box == [phase : {"rest", "counting", "racing", "off"}, of : Tags]
Commands == {"s"} \cup Tags

\* A box that obeys is a box.
LEMMA ObeysIsBox ==
    ASSUME NEW b \in Box, NEW c \in Commands
    PROVE  Obeys(b, c) \in Box
  BY DEF Obeys, Resting, Box, Commands, Tags

\* Each command decides alone what the box is after it.
LEMMA ObeysForgets ==
    ASSUME NEW b, NEW c, NEW d
    PROVE  Obeys(Obeys(b, c), d) = Obeys(b, d)
  BY DEF Obeys, Resting

\* What the commands at the places s leave.
LastObeyed(b, cs, s) == IF s = {} THEN b ELSE Obeys(b, cs[Max(s)])

\* g is the function FoldLeft recurs on: its value for the places s of the commands
\* takes the last of them from its value for the others.
Unfolds(g, b, cs, D) ==
    /\ ObeysAll(b, cs) = g[D]
    /\ g[{}] = b
    /\ \A s \in (SUBSET D) \ {{}} : g[s] = Obeys(g[s \ {Max(s)}], cs[Max(s)])

\* There is such a function, because LastObeyed satisfies the same equation.
LEMMA FoldUnfolds ==
    ASSUME NEW b, NEW cs
    PROVE  \E g : Unfolds(g, b, cs, DOMAIN cs)
<1> DEFINE D == DOMAIN cs
           F(g) == [s \in SUBSET D |->
                   IF s = {} THEN b ELSE Obeys(g[s \ {Max(s)}], cs[Max(s)])]
           it == CHOOSE g : g = F(g)
           h == [s \in SUBSET D |-> LastObeyed(b, cs, s)]
<1>1. ObeysAll(b, cs) = it[D]
  BY Zenon DEF ObeysAll, FoldLeft, MapThenFoldSet
<1>2. h = F(h)
  <2>1. ASSUME NEW s \in SUBSET D, s # {}
        PROVE  Obeys(h[s \ {Max(s)}], cs[Max(s)]) = h[s]
    <3>1. s \ {Max(s)} \in SUBSET D
      OBVIOUS
    <3>2. h[s \ {Max(s)}] = LastObeyed(b, cs, s \ {Max(s)})
      BY <3>1
    <3> QED
      BY <2>1, <3>2, ObeysForgets DEF LastObeyed
  <2>2. \A s \in SUBSET D : s = {} => h[s] = b
    BY DEF LastObeyed
  <2> HIDE DEF h
  <2>3. F(h) = [s \in SUBSET D |-> h[s]]
    BY <2>1, <2>2
  <2>4. h = [s \in SUBSET D |-> h[s]]
    BY DEF h
  <2> QED
    BY <2>3, <2>4
<1> HIDE DEF h
<1>3. it = F(it)
  BY <1>2
<1>4. it[{}] = b
  BY <1>3
<1>5. ASSUME NEW s \in (SUBSET D) \ {{}}
      PROVE  it[s] = Obeys(it[s \ {Max(s)}], cs[Max(s)])
  BY <1>3
<1>6. Unfolds(it, b, cs, D)
  BY <1>1, <1>4, <1>5 DEF Unfolds
<1> QED
  BY <1>6

\* A box that reads all that waits for it, pump_commands and checkSerial, is what
\* the last command makes of it, however many came before.
THEOREM LastCommandCounts ==
    ASSUME NEW b, NEW S, NEW cs \in Seq(S)
    PROVE  ObeysAll(b, cs) = IF cs = <<>> THEN b ELSE Obeys(b, cs[Len(cs)])
<1> DEFINE n == Len(cs)
<1>1. DOMAIN cs = 1 .. n /\ n \in Nat
  OBVIOUS
<1> HIDE DEF n
<1>2. PICK iter : Unfolds(iter, b, cs, 1 .. n)
  BY <1>1, FoldUnfolds
<1> DEFINE P(k) == iter[1 .. k] = IF k = 0 THEN b ELSE Obeys(b, cs[k])
           T == {k \in 0 .. n : P(k)}
<1>3. ASSUME NEW k \in 1 .. n
      PROVE  iter[1 .. k] = Obeys(iter[1 .. k - 1], cs[k])
  <2>1. Max(1 .. k) = k
    BY LargestOfInterval
  <2>2. (1 .. k) \ {k} = 1 .. k - 1 /\ 1 .. k # {} /\ 1 .. k \in SUBSET (1 .. n)
    <3>1. k \in Nat \ {0}
      BY <1>1
    <3> QED
      <4>1. (1 .. k) \ {k} = 1 .. k - 1
        BY <3>1, IntervalWithoutLast
      <4>2. k \in 1 .. k /\ 1 .. k \subseteq 1 .. n
        BY <3>1, <1>1
      <4> QED
        BY <4>1, <4>2
  <2> QED
    BY <1>2, <2>1, <2>2 DEF Unfolds
<1>4. P(0)
  BY <1>2 DEF Unfolds
<1>5. ASSUME NEW k \in 1 .. n, P(k - 1) PROVE P(k)
  BY <1>3, <1>5, ObeysForgets
<1> HIDE DEF P
<1>6. 0 .. n \subseteq T
  <2>1. 0 \in T /\ \A k \in 1 .. n : k - 1 \in T => k \in T
    BY <1>1, <1>4, <1>5
  <2> HIDE DEF T
  <2> QED
    BY <1>1, <2>1, StepByStep
<1>7. P(n)
  BY <1>1, <1>6
<1>8. ObeysAll(b, cs) = iter[1 .. n]
  BY <1>2 DEF Unfolds
<1>9. iter[1 .. n] = IF n = 0 THEN b ELSE Obeys(b, cs[n])
  BY <1>7 DEF P
<1>10. n = 0 <=> cs = <<>>
  BY EmptySeq DEF n
<1> QED
  BY <1>8, <1>9, <1>10, Zenon DEF n

-----------------------------------------------------------------------------
(* The stop of a race on its way to the box. *)

\* The types of the line and of the boxes at its ends.
LineTypes ==
    /\ link \in LinkStates
    /\ port \in BOOLEAN
    /\ commands \in Seq(Commands)
    /\ unheard \in BOOLEAN
    /\ sim \in Box
    /\ box \in Box

\* Only a driver holds a port, and only a port that is held is identified.
PortIsTheDrivers ==
    /\ backend = "sim" => commands = <<>> /\ ~port
    /\ backend = "serial" /\ link = "Identified" => port

\* The queue q has nothing but tests of the sensors, or a stop and then nothing else.
TestsIn(q) == \A i \in DOMAIN q : q[i] = "test"
StopsIn(q) == \E i \in DOMAIN q : q[i] = "s" /\ \A j \in DOMAIN q : j > i => q[j] = "test"

\* A box whose port is open runs for no race.
BoxIsStopped == port /\ Runs(box) => box.of = "test"

\* Where the last stop is: u says that it is lost, or it waits in q, or has been obeyed.
StopIsKnown(q, u) == u \/ StopsIn(q) \/ (TestsIn(q) /\ BoxIsStopped)

QueueStops == ~InProgress => StopIsKnown(commands, unheard)

Stopping ==
    /\ LineTypes
    /\ PortIsTheDrivers
    /\ QueueStops

\* Nothing waits in an empty queue.
LEMMA EmptyTests == TestsIn(<<>>)
  BY DEF TestsIn

\* What is queued behind q are commands, and the simulator has no queue.
LEMMA QueuedTypes ==
    ASSUME NEW q \in Seq(Commands), NEW cs \in Seq(Commands), backend \in Backends,
           unheard \in BOOLEAN
    PROVE  /\ Queued(q, cs) \in Seq(Commands)
           /\ Unheard(q, cs) \in BOOLEAN
           /\ backend = "sim" => Queued(q, cs) = q /\ Unheard(q, cs) = unheard
           /\ cs = <<>> => Queued(q, cs) = q /\ Unheard(q, cs) = unheard
<1> DEFINE n == MaxCommands - Len(q)
<1>1. n \in Int /\ Len(cs) \in Nat /\ Len(q) \in Nat
  BY NightConstants
<1>2. Fitting(q, cs) \in Seq(Commands) /\ (cs = <<>> => Fitting(q, cs) = <<>>)
  <2>1. CASE Len(q) + Len(cs) <= MaxCommands
    BY <2>1 DEF Fitting
  <2>2. CASE ~(Len(q) + Len(cs) <= MaxCommands)
    <3>1. n < Len(cs)
      BY <1>1, <2>2, NightConstants
    <3>2. \A i \in 1 .. n : cs[i] \in Commands
      BY <1>1, <3>1
    <3>3. SubSeq(cs, 1, n) \in Seq(Commands)
      BY <1>1, <3>2, SubSeqProperties
    <3>4. cs = <<>> => SubSeq(cs, 1, n) = <<>>
      BY <1>1, <3>1, SubSeqEmpty
    <3> QED
      BY <2>2, <3>3, <3>4 DEF Fitting
  <2> QED
    BY <2>1, <2>2
<1>3. Queued(q, cs) \in Seq(Commands) /\ (cs = <<>> => Queued(q, cs) = q)
  BY <1>2, ConcatProperties, ConcatEmptySeq DEF Queued
<1>4. Unheard(q, cs) \in BOOLEAN
  BY Zenon DEF Unheard
<1>5. cs = <<>> => Unheard(q, cs) = unheard
  <2>1. cs = <<>> => {i \in DOMAIN cs : cs[i] = "s"} = {}
    OBVIOUS
  <2> QED
    BY <2>1, Zenon DEF Unheard
<1> QED
  BY <1>3, <1>4, <1>5 DEF Queued, Unheard

\* A single command is the last of the queue of the driver, or is refused.
LEMMA QueuedOne ==
    ASSUME NEW q \in Seq(Commands), NEW c \in Commands, backend = "serial"
    PROVE  \/ Len(q) < MaxCommands /\ Queued(q, <<c>>) = Append(q, c)
           \/ Len(q) >= MaxCommands /\ Queued(q, <<c>>) = q
<1>1. Len(q) \in Nat /\ MaxCommands \in Nat /\ Len(<<c>>) = 1
  BY NightConstants
<1>2. CASE Len(q) < MaxCommands
  BY <1>1, <1>2 DEF Queued, Fitting
<1>3. CASE ~(Len(q) < MaxCommands)
  <2>1. SubSeq(<<c>>, 1, MaxCommands - Len(q)) = <<>>
    BY <1>1, <1>3, SubSeqEmpty
  <2>2. Fitting(q, <<c>>) = <<>>
    BY <1>1, <1>3, <2>1 DEF Fitting
  <2> QED
    BY <1>1, <1>3, <2>2, ConcatEmptySeq DEF Queued
<1> QED
  BY <1>2, <1>3

\* An `s` for the real box waits behind what waits, or is known to be refused.
LEMMA StopIsQueued ==
    ASSUME NEW q \in Seq(Commands), backend = "serial"
    PROVE  StopIsKnown(Queued(q, <<"s">>), Unheard(q, <<"s">>))
<1>1. "s" \in Commands /\ Len(q) \in Nat /\ MaxCommands \in Nat
  BY NightConstants DEF Commands
<1>2. CASE Len(q) < MaxCommands /\ Queued(q, <<"s">>) = Append(q, "s")
  <2>1. /\ Append(q, "s") \in Seq(Commands)
        /\ Len(Append(q, "s")) = Len(q) + 1
        /\ Append(q, "s")[Len(q) + 1] = "s"
    BY <1>1, AppendProperties
  <2>2. StopsIn(Append(q, "s"))
    BY <1>1, <2>1 DEF StopsIn
  <2> QED
    BY <1>2, <2>2 DEF StopIsKnown
<1>3. CASE Len(q) >= MaxCommands
  <2>1. DOMAIN <<"s">> = {1} /\ <<"s">>[1] = "s" /\ Len(q) + 1 > MaxCommands
    BY <1>1, <1>3
  <2>2. {i \in DOMAIN <<"s">> : <<"s">>[i] = "s"} = {1}
    BY <2>1
  <2>3. Unheard(q, <<"s">>)
    BY <2>1, <2>2 DEF Unheard
  <2> QED
    BY <2>3 DEF StopIsKnown
<1> QED
  BY <1>1, <1>2, <1>3, QueuedOne

\* The `g` of a test hides no stop that waits before it.
LEMMA TestIsQueued ==
    ASSUME NEW q \in Seq(Commands), backend = "serial", unheard \in BOOLEAN,
           StopIsKnown(q, unheard)
    PROVE  StopIsKnown(Queued(q, <<"test">>), Unheard(q, <<"test">>))
<1>1. "test" \in Commands /\ Len(q) \in Nat
  BY DEF Commands, Tags
<1>2. Unheard(q, <<"test">>) = unheard
  <2>1. {i \in DOMAIN <<"test">> : <<"test">>[i] = "s"} = {}
    OBVIOUS
  <2> QED
    BY <2>1 DEF Unheard
<1>3. CASE Queued(q, <<"test">>) = Append(q, "test")
  <2> DEFINE r == Append(q, "test")
  <2>1. /\ DOMAIN r = 1 .. Len(q) + 1 /\ DOMAIN q = 1 .. Len(q)
        /\ r[Len(q) + 1] = "test" /\ \A i \in 1 .. Len(q) : r[i] = q[i]
    BY <1>1, AppendProperties
  <2> HIDE DEF r
  <2>2. StopsIn(q) => StopsIn(r)
    BY <1>1, <2>1 DEF StopsIn
  <2>3. TestsIn(q) => TestsIn(r)
    BY <1>1, <2>1 DEF TestsIn
  <2> QED
    BY <1>2, <1>3, <2>2, <2>3 DEF StopIsKnown, r
<1>4. CASE Queued(q, <<"test">>) = q
  BY <1>2, <1>4
<1> QED
  BY <1>1, <1>3, <1>4, QueuedOne

\* A box that obeys commands is a box, and one of commands that end with a stop or a
\* test runs for no race after them.
LEMMA AllObeyed ==
    ASSUME NEW b \in Box, NEW cs \in Seq(Commands)
    PROVE  /\ ObeysAll(b, cs) \in Box
           /\ cs # <<>> /\ cs[Len(cs)] \in {"s", "test"} /\ Runs(ObeysAll(b, cs)) =>
                 ObeysAll(b, cs).of = "test"
           /\ cs = <<>> => ObeysAll(b, cs) = b
<1>1. CASE cs = <<>>
  BY <1>1, LastCommandCounts
<1>2. CASE cs # <<>>
  <2> DEFINE c == cs[Len(cs)]
  <2>1. c \in Commands
    BY <1>2, EmptySeq, LenProperties
  <2>2. ObeysAll(b, cs) = Obeys(b, c)
    BY <1>2, LastCommandCounts
  <2>3. c \in {"s", "test"} /\ Runs(Obeys(b, c)) => Obeys(b, c).of = "test"
    BY <2>1 DEF Obeys, Runs, Resting, Box, Commands, Tags
  <2> QED
    BY <1>2, <2>1, <2>2, <2>3, ObeysIsBox
<1> QED
  BY <1>1, <1>2

\* What is left of the commands that are written, w being the places of those that are:
\* when the last stop is one of them, or nothing but tests is written to a box that runs
\* for no race, it runs for none after them.
LEMMA AllHeard ==
    ASSUME NEW b \in Box, NEW cs \in Seq(Commands), NEW w \in Written(Len(cs))
    PROVE  /\ Heard(b, cs, w) \in Box
           /\ (\/ StopsIn(cs) /\ ~LosesStop(cs, w)
               \/ TestsIn(cs) /\ (Runs(b) => b.of = "test"))
              => (Runs(Heard(b, cs, w)) => Heard(b, cs, w).of = "test")
<1> DEFINE n == Len(cs)
           h == [i \in DOMAIN w |-> cs[w[i]]]
<1>1. n \in Nat /\ DOMAIN cs = 1 .. n
  OBVIOUS
<1>2. PICK k \in 0 .. n : /\ w \in [1 .. k -> 1 .. n]
                          /\ \A i, j \in 1 .. k : i < j => w[i] < w[j]
  BY DEF Written
<1>3. k \in Nat /\ DOMAIN w = 1 .. k
  BY <1>1, <1>2
<1>4. \A i \in 1 .. k : w[i] \in 1 .. n /\ cs[w[i]] \in Commands
  BY <1>1, <1>2
<1>5. h \in [1 .. k -> Commands]
  BY <1>3, <1>4
<1>6. h \in Seq(Commands) /\ Len(h) = k
  BY <1>3, <1>5
<1>7. \A i \in 1 .. k : h[i] = cs[w[i]]
  BY <1>3
<1>8. Heard(b, cs, w) = ObeysAll(b, h)
  BY DEF Heard
<1> HIDE DEF h
<1>9. Heard(b, cs, w) \in Box
  BY <1>6, <1>8, AllObeyed
<1>10. ASSUME StopsIn(cs), ~LosesStop(cs, w)
       PROVE  h # <<>> /\ h[Len(h)] \in {"s", "test"}
  <2>1. PICK i \in 1 .. n : cs[i] = "s" /\ \A j \in 1 .. n : j > i => cs[j] = "test"
    BY <1>1, <1>10 DEF StopsIn
  <2>2. i \in Range(w)
    BY <1>1, <1>10, <2>1 DEF LosesStop
  <2>3. PICK m \in 1 .. k : w[m] = i
    BY <1>3, <2>2 DEF Range
  <2>4. k \in 1 .. k /\ (m = k \/ m < k)
    BY <1>3, <2>3
  <2>5. w[k] \in 1 .. n /\ w[k] >= i
    BY <1>2, <1>4, <2>3, <2>4
  <2>6. cs[w[k]] \in {"s", "test"}
    BY <2>1, <2>5
  <2>7. h[k] \in {"s", "test"}
    BY <1>7, <2>4, <2>6
  <2> QED
    BY <1>6, <2>4, <2>7
<1>11. ASSUME TestsIn(cs)
       PROVE  h = <<>> \/ h[Len(h)] \in {"s", "test"}
  <2>1. \A i \in 1 .. k : h[i] = "test"
    BY <1>1, <1>4, <1>7, <1>11 DEF TestsIn
  <2> QED
    BY <1>3, <1>6, <2>1
<1> QED
  BY <1>6, <1>8, <1>9, <1>10, <1>11, AllObeyed

\* What a command leaves behind it, whichever the link in place.
LEMMA TellTypes ==
    ASSUME NEW q \in Seq(Commands), NEW b \in Box, NEW cs \in Seq(Commands),
           backend \in Backends, unheard \in BOOLEAN, Tell(q, b, cs)
    PROVE  /\ commands' \in Seq(Commands)
           /\ unheard' \in BOOLEAN
           /\ sim' \in Box
           /\ backend = "sim" => commands' = q
<1>1. sim' \in Box
  BY AllObeyed DEF Tell, Obeyed
<1>2. commands' = Queued(q, cs) /\ unheard' = Unheard(q, cs)
  BY DEF Tell
<1> QED
  BY <1>1, <1>2, QueuedTypes

\* A stop or a test that is sent leaves the stop of the last race known.
LEMMA TellStops ==
    ASSUME Control, LineTypes, PortIsTheDrivers, NEW b \in Box, NEW c \in {"s", "test"},
           c = "test" => StopIsKnown(commands, unheard),
           Tell(commands, b, <<c>>), UNCHANGED <<backend, link, port, box>>
    PROVE  Stopping'
<1>1. backend \in Backends /\ commands \in Seq(Commands) /\ unheard \in BOOLEAN
  BY DEF Control, ControlTypes, LineTypes
<1>2. <<c>> \in Seq(Commands)
  BY DEF Commands, Tags
<1>3. /\ commands' \in Seq(Commands)
      /\ unheard' \in BOOLEAN
      /\ sim' \in Box
      /\ backend = "sim" => commands' = commands
  BY <1>1, <1>2, TellTypes
<1>4. LineTypes' /\ PortIsTheDrivers'
  BY <1>3 DEF LineTypes, PortIsTheDrivers
<1>5. StopIsKnown(commands, unheard)'
  <2>1. CASE backend = "sim"
    BY <1>3, <2>1, EmptyTests DEF PortIsTheDrivers, StopIsKnown, BoxIsStopped
  <2>2. CASE backend = "serial"
    <3>1. StopIsKnown(Queued(commands, <<c>>), Unheard(commands, <<c>>))
      BY <1>1, <2>2, StopIsQueued, TestIsQueued
    <3>2. commands' = Queued(commands, <<c>>) /\ unheard' = Unheard(commands, <<c>>)
      BY DEF Tell
    <3> QED
      BY <3>1, <3>2 DEF StopIsKnown, StopsIn, TestsIn, BoxIsStopped
  <2> QED
    BY <1>1, <2>1, <2>2 DEF Backends
<1> QED
  BY <1>4, <1>5 DEF Stopping, QueueStops

\* Whatever ends a race sends the box its `s`.
LEMMA EndStops ==
    ASSUME Control, Stopping, NEW to, NEW ran, NEW b \in Box, Ends(to, ran, b),
           UNCHANGED <<backend, link, port, box>>
    PROVE  Stopping'
<1> "s" \in {"s", "test"} /\ Tell(commands, b, <<"s">>)
  BY DEF Ends
<1> QED
  BY TellStops DEF Stopping

\* A start ages what waits, and a race is in progress from then on.
LEMMA StartStops ==
    ASSUME Control, Stopping, NEW by, NEW first \in Seq(Commands), Starts(by, first),
           UNCHANGED <<backend, link, port>>
    PROVE  Stopping'
<1> DEFINE q == [i \in DOMAIN commands |-> Aged(commands[i])]
           cs == first \o (IF test THEN <<"s">> ELSE <<>>) \o <<"race">>
<1>1. /\ backend \in Backends /\ commands \in Seq(Commands) /\ unheard \in BOOLEAN
      /\ sim \in Box /\ box \in Box
  BY DEF Control, ControlTypes, Stopping, LineTypes
<1>2. q \in Seq(Commands) /\ (commands = <<>> => q = <<>>)
  <2>1. \A i \in DOMAIN commands : Aged(commands[i]) \in Commands
    BY <1>1 DEF Aged, Commands, Tags
  <2> QED
    BY <1>1, <2>1
<1>3. cs \in Seq(Commands)
  <2>1. <<"s">> \in Seq(Commands) /\ <<>> \in Seq(Commands) /\ <<"race">> \in Seq(Commands)
    BY DEF Commands, Tags
  <2> QED
    BY <2>1, ConcatProperties
<1>4. AgedRun(sim) \in Box /\ AgedRun(box) \in Box
  BY <1>1 DEF AgedRun, Box, Tags
<1>5. Tell(q, AgedRun(sim), cs)
  BY DEF Starts
<1> HIDE DEF q, cs
<1>6. /\ commands' \in Seq(Commands) /\ unheard' \in BOOLEAN /\ sim' \in Box
      /\ backend = "sim" => commands' = q
  BY <1>1, <1>2, <1>3, <1>4, <1>5, TellTypes
<1>7. LineTypes'
  BY <1>4, <1>6 DEF Starts, Stopping, LineTypes
<1>8. PortIsTheDrivers'
  BY <1>2, <1>6 DEF Stopping, PortIsTheDrivers
<1>9. InProgress'
  BY DEF Starts, InProgress
<1> QED
  BY <1>7, <1>8, <1>9 DEF Stopping, QueueStops

\* A frame the main thread has read, b being the simulator that may have sent it.
LEMMA FrameStops ==
    ASSUME Control, Stopping, NEW kind, NEW b \in Box, OnFrame(kind, b),
           UNCHANGED <<backend, link, port, box>>
    PROVE  Stopping'
<1>1. CASE \E to, ran : Ends(to, ran, b)
  BY <1>1, EndStops
<1>2. ASSUME NEW state, Becomes(state, b), InProgress' => InProgress, InProgress => InProgress'
      PROVE  Stopping'
  BY <1>2 DEF Becomes, Stopping, LineTypes, PortIsTheDrivers, QueueStops, StopIsKnown,
              StopsIn, TestsIn, BoxIsStopped
<1>3. CASE Counts(kind, b)
  BY <1>2, <1>3 DEF Counts, Becomes, InProgress
<1>4. CASE FalseStart(kind, b)
  BY <1>1, <1>4 DEF FalseStart, Aborts
<1>5. CASE Progresses(kind, b)
  BY <1>1, <1>2, <1>5 DEF Progresses, Becomes, InProgress
<1>6. CASE Becomes(engine, b)
  BY <1>2, <1>6 DEF Becomes, InProgress
<1> QED
  BY <1>3, <1>4, <1>5, <1>6 DEF OnFrame

\* The link in place is replaced, or started again, while no race is on.
LEMMA ApplyStops ==
    ASSUME Control, NEW to \in Backends, NEW b \in Box, NEW q \in Seq(Commands),
           NEW u \in BOOLEAN, Applies(to, b, q, u), UNCHANGED box,
           StopIsKnown(q, u), backend = "sim" => q = <<>>, LineTypes, PortIsTheDrivers
    PROVE  Stopping'
<1>1. backend \in Backends /\ link \in LinkStates /\ port \in BOOLEAN /\ box \in Box
  BY DEF Control, ControlTypes, LineTypes
<1>2. Resting \in Box /\ Off \in Box /\ <<>> \in Seq(Commands)
  BY DEF Resting, Off, Box, Tags
<1>3. link' \in LinkStates /\ sim' \in Box
  BY <1>1, <1>2 DEF Applies, OpensSimulator, OpensDriver, LinkStates
<1>4. \/ backend = to /\ commands' = q /\ unheard' = u /\ port' = port
      \/ backend # to /\ commands' = <<>> /\ unheard' = FALSE /\ port' = FALSE
  BY DEF Applies
<1>5. LineTypes'
  BY <1>1, <1>2, <1>3, <1>4 DEF LineTypes
<1>6. PortIsTheDrivers'
  BY <1>1, <1>4 DEF Backends, Applies, OpensSimulator, OpensDriver, PortIsTheDrivers
<1>7. StopIsKnown(commands, unheard)'
  BY <1>4, EmptyTests DEF StopIsKnown, StopsIn, TestsIn, BoxIsStopped
<1> QED
  BY <1>5, <1>6, <1>7 DEF Stopping, QueueStops

\* A new program has opened no port.
LEMMA LaunchStops ==
    ASSUME Launched, backend' \in Backends, box' \in Box
    PROVE  Stopping'
<1>1. Resting \in Box /\ Off \in Box /\ <<>> \in Seq(Commands)
  BY DEF Resting, Off, Box, Tags
<1> QED
  BY <1>1, EmptyTests DEF Launched, Stopping, LineTypes, LinkStates, PortIsTheDrivers,
                          QueueStops, StopIsKnown, TestsIn, BoxIsStopped, Backends

\* A program that starts has told nobody anything.
LEMMA InitStopping == Init => Stopping
<1> SUFFICES ASSUME Init PROVE Stopping
  OBVIOUS
<1>1. Resting \in Box /\ Off \in Box /\ <<>> \in Seq(Commands)
  BY DEF Resting, Off, Box, Tags
<1> QED
  BY <1>1, EmptyTests DEF Init, Stopping, LineTypes, LinkStates, PortIsTheDrivers, QueueStops,
                          StopIsKnown, BoxIsStopped, Backends

\* What the operator does.
LEMMA OperatorStops == Control /\ Stopping /\ Operator => Stopping'
<1> SUFFICES ASSUME Control, Stopping, Operator PROVE Stopping'
  OBVIOUS
<1>0. /\ backend \in Backends /\ commands \in Seq(Commands) /\ link \in LinkStates
      /\ sim \in Box /\ box \in Box /\ port \in BOOLEAN
      /\ saved \in Backends \cup {"none"} /\ chosen \in Backends /\ unheard \in BOOLEAN
  BY DEF Control, ControlTypes, Stopping, LineTypes
<1>1. <<>> \in Seq(Commands) /\ \A c \in Commands : <<c>> \in Seq(Commands)
  OBVIOUS
<1>2. CASE StartRace
  BY <1>1, <1>2, StartStops DEF StartRace
<1>3. CASE StopRace
  BY <1>0, <1>3, EndStops DEF StopRace, Aborts
<1>4. CASE RestartRace
  <2>1. <<"s">> \in Seq(Commands)
    BY DEF Commands
  <2> QED
    BY <1>4, <2>1, StartStops DEF RestartRace
<1>5. ~InProgress => StopIsKnown(commands, unheard)
  BY DEF Stopping, QueueStops
<1>6. CASE BeginTest
  <2>1. "test" \in {"s", "test"} /\ Tell(commands, sim, <<"test">>) /\ ~InProgress
        /\ UNCHANGED <<backend, link, port, box>>
    BY <1>6 DEF BeginTest
  <2> QED
    BY <1>0, <1>5, <2>1, TellStops DEF Stopping
<1>7. CASE EndTest
  <2>1. "s" \in {"s", "test"} /\ Tell(commands, sim, <<"s">>)
        /\ UNCHANGED <<backend, link, port, box>>
    BY <1>7 DEF EndTest
  <2> QED
    BY <1>0, <2>1, TellStops DEF Stopping
<1>8. ASSUME NEW to \in Backends, Toggle(to) PROVE Stopping'
  <2>1. ~InProgress /\ Applies(to, sim, commands, unheard) /\ UNCHANGED box
    BY <1>8 DEF Toggle
  <2> QED
    BY <1>0, <1>5, <2>1, ApplyStops DEF Stopping, PortIsTheDrivers
<1>9. CASE StartShow
  <2>1. /\ "sim" \in Backends /\ ~InProgress
        /\ Applies("sim", sim, commands, unheard) /\ UNCHANGED box
    BY <1>9 DEF StartShow, Backends
  <2> QED
    BY <1>0, <1>5, <2>1, ApplyStops DEF Stopping, PortIsTheDrivers
<1>10. CASE StopShow
  <2> DEFINE last == IF InProgress THEN <<"s">> ELSE <<>>
             q == Queued(commands, last)
             u == Unheard(commands, last)
  <2>1. last \in Seq(Commands)
    BY <1>1 DEF Commands
  <2>2. saved \in Backends
    BY <1>0, <1>10 DEF StopShow, Control, Borrowed
  <2>3. Applies(saved, Obeyed(sim, last), q, u) /\ UNCHANGED box
    BY <1>10 DEF StopShow
  <2>4. Obeyed(sim, last) \in Box
    BY <1>0, <2>1, AllObeyed DEF Obeyed
  <2>5. q \in Seq(Commands) /\ u \in BOOLEAN /\ (backend = "sim" => q = <<>>)
    BY <1>0, <2>1, QueuedTypes DEF Stopping, PortIsTheDrivers
  <2>6. StopIsKnown(q, u)
    <3>1. CASE ~InProgress
      BY <1>0, <1>1, <1>5, <3>1, QueuedTypes
    <3>2. CASE InProgress /\ backend = "serial"
      BY <1>0, <3>2, StopIsQueued
    <3>3. CASE backend = "sim"
      <4>1. TestsIn(q) /\ BoxIsStopped
        BY <2>5, <3>3, EmptyTests DEF Stopping, PortIsTheDrivers, BoxIsStopped
      <4> QED
        BY <4>1 DEF StopIsKnown
    <3> QED
      BY <1>0, <3>1, <3>2, <3>3 DEF Backends
  <2> HIDE DEF last, q, u
  <2> QED
    BY <2>2, <2>3, <2>4, <2>5, <2>6, ApplyStops DEF Stopping
<1>11. CASE Close
  <2>1. Launched
    BY <1>11 DEF Close
  <2>2. backend' \in Backends
    BY <1>0, <1>11 DEF Close, Launched, Saves
  <2>3. box' \in Box
    <3> DEFINE cs == Queued(commands, IF test \/ InProgress THEN <<"s">> ELSE <<>>)
    <3>1. cs \in Seq(Commands)
      <4>1. <<"s">> \in Seq(Commands)
        BY <1>1 DEF Commands
      <4> QED
        BY <1>0, <1>1, <4>1, QueuedTypes
    <3>2. box' = box \/ \E w \in Written(Len(cs)) : box' = Heard(box, cs, w)
      BY <1>11 DEF Close
    <3> HIDE DEF cs
    <3> QED
      BY <1>0, <3>1, <3>2, AllHeard
  <2> QED
    BY <2>1, <2>2, <2>3, LaunchStops
<1> QED
  BY <1>2, <1>3, <1>4, <1>6, <1>7, <1>8, <1>9, <1>10, <1>11 DEF Operator

\* What an image brings.
LEMMA ImageStops == Control /\ Stopping /\ Image => Stopping'
<1> SUFFICES ASSUME Control, Stopping, Image PROVE Stopping'
  OBVIOUS
<1>0. sim \in Box /\ <<>> \in Seq(Commands)
  BY DEF Stopping, LineTypes
<1>1. ASSUME UNCHANGED <<engine, backend, link, port, commands, unheard, sim, box>>
      PROVE  Stopping'
  BY <1>1 DEF Stopping, LineTypes, PortIsTheDrivers, QueueStops, StopIsKnown, StopsIn, TestsIn,
              BoxIsStopped, InProgress
<1>2. CASE ArmingTimeout
  BY <1>0, <1>2, EndStops DEF ArmingTimeout, StopRace, Aborts
<1>3. CASE GraceRunsOut
  BY <1>0, <1>1, <1>3, EndStops DEF GraceRunsOut, Aborts
<1>4. CASE NextRace
  BY <1>0, <1>1, <1>4, StartStops DEF NextRace, engineVars
<1>5. CASE SimConnects
  BY <1>5 DEF SimConnects, engineVars, Stopping, LineTypes, LinkStates, PortIsTheDrivers,
              QueueStops, StopIsKnown, StopsIn, TestsIn, BoxIsStopped, InProgress
<1>6. CASE SimSends
  <2>1. PICK kind \in Kinds, after \in {sim, [sim EXCEPT !.phase = "racing"]} :
            OnFrame(kind, after)
    BY <1>6 DEF SimSends
  <2>2. after \in Box
    BY <1>0, <2>1 DEF Box
  <2> QED
    BY <1>6, <2>1, <2>2, FrameStops DEF SimSends
<1>7. CASE Poll
  BY <1>1, <1>7 DEF Poll, engineVars
<1>8. CASE Pop
  BY <1>0, <1>8, FrameStops DEF Pop
<1> QED
  BY <1>2, <1>3, <1>4, <1>5, <1>6, <1>7, <1>8 DEF Image

\* What the thread and the box do; the main thread has no part in it.
LEMMA ThreadStops == Control /\ Stopping /\ (Thread \/ BoxSends \/ PlugOrPull) => Stopping'
<1> SUFFICES ASSUME Control, Stopping, Thread \/ BoxSends \/ PlugOrPull PROVE Stopping'
  OBVIOUS
<1> USE DEF mainVars, engineVars, Stopping, PortIsTheDrivers, QueueStops, InProgress
<1>0. /\ box \in Box /\ commands \in Seq(Commands) /\ backend \in Backends
      /\ unheard \in BOOLEAN
      /\ Resting \in Box /\ Off \in Box /\ <<>> \in Seq(Commands)
  BY DEF LineTypes, Control, ControlTypes, Resting, Off, Box, Tags
<1>1. ASSUME UNCHANGED <<commands, unheard>>, BoxIsStopped => BoxIsStopped',
             StopIsKnown(commands, unheard)
      PROVE  StopIsKnown(commands, unheard)'
  BY <1>1 DEF StopIsKnown, StopsIn, TestsIn
<1>2. ASSUME backend = "serial", link' = "PortOpen", port' = TRUE, Greets,
             UNCHANGED <<mainVars, commands>>
      PROVE  Stopping'
  <2>1. CASE active
    BY <1>2, <2>1 DEF Greets, LineTypes, LinkStates, Control, WatchFollows
  <2>2. CASE ~active
    <3>1. StopIsKnown(commands, unheard)
      BY <1>2, <2>2 DEF Control, WatchFollows
    <3>2. LineTypes' /\ PortIsTheDrivers'
      BY <1>0, <1>2, <2>2, ObeysIsBox DEF Greets, LineTypes, LinkStates, Commands
    <3>3. CASE box' = Obeys(box, "s") /\ unheard' = (unheard /\ commands # <<>>)
      <4>1. BoxIsStopped'
        BY <1>0, <3>3 DEF BoxIsStopped, Obeys, Resting, Runs, Box, Tags
      <4>2. StopIsKnown(commands, unheard)'
        <5>1. CASE commands = <<>>
          BY <1>2, <4>1, <5>1, EmptyTests DEF StopIsKnown, TestsIn
        <5>2. CASE commands # <<>>
          BY <1>0, <1>1, <1>2, <3>1, <3>3, <4>1, <5>2
        <5> QED
          BY <5>1, <5>2
      <4> QED
        BY <3>2, <4>2
    <3>4. CASE unheard' = (unheard \/ ~Contains(commands, "s"))
      <4>1. StopsIn(commands) => StopsIn(commands)'
        BY <1>2 DEF StopsIn
      <4>2. Contains(commands, "s") => ~TestsIn(commands)
        BY <1>0 DEF Contains, TestsIn
      <4>3. StopIsKnown(commands, unheard)'
        BY <1>0, <3>1, <3>4, <4>1, <4>2 DEF StopIsKnown
      <4> QED
        BY <3>2, <4>3
    <3> QED
      BY <1>2, <2>2, <3>3, <3>4 DEF Greets
  <2> QED
    BY <2>1, <2>2
<1>3. ASSUME UNCHANGED <<engine, backend, commands, unheard, sim>>, box' \in Box,
             link' \in LinkStates, port' \in BOOLEAN, BoxIsStopped => BoxIsStopped',
             PortIsTheDrivers'
      PROVE  Stopping'
  BY <1>1, <1>3 DEF LineTypes
<1>4. CASE OpensPort
  <2>1. CASE UNCHANGED <<port, box, unheard>>
    <3>1. BoxIsStopped => BoxIsStopped'
      BY <2>1 DEF BoxIsStopped
    <3> QED
      BY <1>1, <1>4, <2>1, <3>1 DEF OpensPort, LineTypes, LinkStates
  <2> QED
    BY <1>2, <1>4, <2>1 DEF OpensPort
<1>5. CASE GreetsAgain
  <2>1. backend = "serial"
    BY <1>0, <1>5 DEF GreetsAgain, Backends
  <2> QED
    BY <1>2, <1>5, <2>1 DEF GreetsAgain
<1>6. CASE GivesUp
  BY <1>3, <1>6 DEF GivesUp, LineTypes, LinkStates, BoxIsStopped
<1>7. CASE Identifies
  BY <1>3, <1>7 DEF Identifies, LineTypes, LinkStates, BoxIsStopped
<1>8. CASE Pumps
  <2>1. PICK w \in Written(Len(commands)) :
            /\ box' = Heard(box, commands, w)
            /\ unheard' = (unheard \/ LosesStop(commands, w))
    BY <1>8 DEF Pumps
  <2>2. LineTypes' /\ PortIsTheDrivers'
    <3>1. box' \in Box
      BY <1>0, <2>1, AllHeard
    <3>2. unheard' \in BOOLEAN
      BY <2>1, Zenon
    <3> QED
      BY <1>0, <1>8, <3>1, <3>2 DEF Pumps, LineTypes, LinkStates
  <2>3. ASSUME ~InProgress PROVE StopIsKnown(commands, unheard)'
    <3>1. StopIsKnown(commands, unheard)
      BY <2>3
    <3>2. TestsIn(commands)'
      BY <1>8, EmptyTests DEF Pumps, TestsIn
    <3>3. port /\ port' = port
      BY <1>8 DEF Pumps
    <3>4. CASE unheard \/ LosesStop(commands, w)
      BY <2>1, <3>4 DEF StopIsKnown
    <3>5. CASE ~unheard /\ ~LosesStop(commands, w)
      <4>1. StopsIn(commands) \/ (TestsIn(commands) /\ (Runs(box) => box.of = "test"))
        BY <3>1, <3>3, <3>5 DEF StopIsKnown, BoxIsStopped
      <4>2. Runs(Heard(box, commands, w)) => Heard(box, commands, w).of = "test"
        BY <1>0, <3>5, <4>1, AllHeard
      <4>3. BoxIsStopped'
        BY <2>1, <4>2 DEF BoxIsStopped, Runs
      <4> QED
        BY <3>2, <4>3 DEF StopIsKnown
    <3> QED
      BY <3>4, <3>5
  <2>4. InProgress' = InProgress
    BY <1>8 DEF Pumps
  <2> QED
    BY <2>2, <2>3, <2>4
<1>9. CASE FallsSilent
  BY <1>3, <1>9 DEF FallsSilent, LineTypes, LinkStates, BoxIsStopped
<1>10. CASE LosesPort
  BY <1>3, <1>10 DEF LosesPort, LineTypes, LinkStates, BoxIsStopped
<1>11. CASE StopsWaiting
  BY <1>3, <1>11 DEF StopsWaiting, LineTypes, LinkStates, BoxIsStopped
<1>12. CASE BoxSends
  <2>1. PICK kind \in Kinds, after \in {box, [box EXCEPT !.phase = "racing"]} :
            Sends(box, kind, after) /\ box' = after
    BY <1>12 DEF BoxSends
  <2>2. box' \in Box /\ Runs(box) /\ box'.of = box.of
    BY <1>0, <2>1 DEF Sends, Runs, Box
  <2>3. BoxIsStopped => BoxIsStopped'
    BY <1>12, <2>2 DEF BoxSends, BoxIsStopped
  <2> QED
    BY <1>3, <1>12, <2>2, <2>3 DEF BoxSends, LineTypes
<1>13. CASE PlugOrPull
  <2>1. box' \in Box /\ ~Runs(box')
    BY <1>0, <1>13 DEF PlugOrPull, Runs, Resting, Off
  <2>2. BoxIsStopped'
    BY <2>1 DEF BoxIsStopped, Runs
  <2> QED
    BY <1>3, <1>13, <2>1, <2>2 DEF PlugOrPull, LineTypes
<1> QED
  BY <1>4, <1>5, <1>6, <1>7, <1>8, <1>9, <1>10, <1>11, <1>12, <1>13 DEF Thread

-----------------------------------------------------------------------------
(* The theorems. *)

Night == Control /\ Stopping

\* The invariant of the night: what the controller keeps, and what has become of the
\* stop of the last race: it waits in the queue, has been obeyed, or is known to be
\* lost, refused by a full queue (queue_command) or by its write (pump_commands).
THEOREM NightInvariant == Spec => []Night
<1>1. Init => Night
  BY InitControl, InitStopping DEF Night
<1>2. Night /\ [Next]_vars => Night'
  <2> SUFFICES ASSUME Night, [Next]_vars PROVE Stopping'
    BY NextControl DEF Night
  <2>1. CASE UNCHANGED vars
    BY <2>1 DEF vars, engineVars, linkVars, Night, Stopping, LineTypes, PortIsTheDrivers,
                QueueStops, StopIsKnown, StopsIn, TestsIn, BoxIsStopped, InProgress
  <2>2. CASE Crash
    <3>1. backend' \in Backends /\ box' \in Box
      BY <2>2 DEF Crash, Launched, Night, Control, ControlTypes, Stopping, LineTypes
    <3> QED
      BY <2>2, <3>1, LaunchStops DEF Crash
  <2> QED
    BY <2>1, <2>2, OperatorStops, ImageStops, ThreadStops DEF Night, Next
<1> QED
  BY <1>1, <1>2, PTL DEF Spec

\* Whichever way a race starts and ends, by the operator, a frame, a show, a timeout
\* or a lost link, the driver watches over it while it lasts (set_race_active).
THEOREM RaceIsWatched == Spec => []WatchIsOn
<1>1. Night => WatchIsOn
  BY DEF Night, Control, WatchFollows, WatchIsOn
<1> QED
  BY <1>1, NightInvariant, PTL

\* No race, show or other link comes under a test of the sensors (_on_mock_toggled).
THEOREM TestsAreAlone == Spec => []TestAlone
<1>1. Night => TestAlone
  BY DEF Night, Control
<1> QED
  BY <1>1, NightInvariant, PTL

\* What the show has raced is never kept as a result of the operator (on_state_changed).
THEOREM OursAreKept == Spec => []OnlyOursAreKept
<1>1. Night => OnlyOursAreKept
  BY DEF Night, Control
<1> QED
  BY <1>1, NightInvariant, PTL

\* After any sequence of starts, stops, shows, links exchanged and crashes, with any
\* commands refused or lost, a box for which nothing waits counts for a race that is
\* over only when the `s` that was the last to be sent is one of those.
THEOREM NothingRunsOn == Spec => []NoneLeftRunning
<1>1. Night => NoneLeftRunning
  BY DEF Night, Stopping, PortIsTheDrivers, QueueStops, StopIsKnown, StopsIn, BoxIsStopped,
         NoneLeftRunning
<1> QED
  BY <1>1, NightInvariant, PTL

\* The settings of a show never reach the disk, whatever saves them and when.
THEOREM DiskStaysOurs == Spec => DiskIsOurs
<1>1. Night /\ [Next]_vars => [disk' # disk => disk' = [of |-> "ours", backend |-> chosen]]_vars
  <2> SUFFICES ASSUME Night, Next, disk' # disk
               PROVE  disk' = [of |-> "ours", backend |-> chosen]
    OBVIOUS
  <2>0. demo \in BOOLEAN /\ (~demo => settings = "ours" /\ backend = chosen)
    BY DEF Night, Control, ControlTypes, Borrowed
  <2>1. Saves
    <3>1. ASSUME NEW kind, NEW b, OnFrame(kind, b) PROVE disk' = disk \/ Saves
      BY <3>1 DEF OnFrame, Counts, FalseStart, Progresses, Becomes
    <3>2. CASE Operator
      BY <3>2 DEF Operator, StartRace, StopRace, RestartRace, BeginTest, EndTest, Toggle,
                  StartShow, StopShow, Close
    <3>3. CASE Image
      BY <3>1, <3>3 DEF Image, ArmingTimeout, StopRace, GraceRunsOut, NextRace, SimConnects,
                        SimSends, Poll, Pop
    <3>4. CASE Thread \/ BoxSends \/ PlugOrPull
      BY <3>4 DEF Thread, BoxSends, PlugOrPull, OpensPort, GreetsAgain, GivesUp, Identifies,
                  Pumps, FallsSilent, LosesPort, StopsWaiting, mainVars
    <3> QED
      BY <3>2, <3>3, <3>4 DEF Next, Crash
  <2> QED
    BY <2>0, <2>1 DEF Saves
<1> QED
  BY <1>1, NightInvariant, PTL DEF Spec, DiskIsOurs
=============================================================================
