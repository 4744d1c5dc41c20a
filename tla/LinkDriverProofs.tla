-------------------------- MODULE LinkDriverProofs --------------------------
(***************************************************************************)
(* Proofs about LinkDriver, for any ports, any delays and any box: a link  *)
(* is identified only by the port that is open, an outage keeps its date   *)
(* until it is over, and every variable keeps its type.  Two of the types  *)
(* are not plain: a port is always found among the candidates, because the *)
(* order of preference is total, and the handshakes of a port are counted. *)
(*                                                                         *)
(* The driver under the controller, GracePeriod or RaceWatch, is a driver: *)
(* the theorems hold there, and no verdict of the controller comes before  *)
(* its time.                                                               *)
(***************************************************************************)
EXTENDS GracePeriod, RaceWatch, Orders, SequenceTheorems

-----------------------------------------------------------------------------
(* The inductive invariant. *)

\* Ages are numbers, so that they can be compared.
AgesCount == age \in [Clocks -> Nat]

\* A driver that greets has a port open.
GreetsAPort == state = "PortOpen" => port # NoPort

\* A port kept open while the link is lost has answered V: before, so that an R:
\* from it is enough to bring the link back.
LostPortAnswered == state = "LinkLost" /\ port # NoPort => version

LinkInv == AgesCount /\ GreetsAPort /\ LostPortAnswered /\ StartIsAuthorised

\* What OneOutage asks of a step.
KeepsOutage ==
    linkDown /\ linkDown' => age'["lost"] >= age["lost"] /\ (reported => reported')

-----------------------------------------------------------------------------
(* What the parts of a tick do to the ages and to the outage. *)

\* enter sets no age back but those it stamps, and an outage is not stamped twice.
LEMMA EnterKeeps ==
    ASSUME NEW s, NEW fails, NEW ages \in [Clocks -> Nat], Enter(s, fails, ages),
           ages["lost"] = age["lost"]
    PROVE  /\ state' = s
           /\ AgesCount'
           /\ AgesCount => KeepsOutage
<1>1. /\ "lost" \in Clocks
      /\ "progress" \in Clocks
  BY DEF Clocks
<1>2. AgesCount'
  BY <1>1 DEF Enter, AgesCount
<1>3. ASSUME AgesCount, linkDown, linkDown'
      PROVE  age'["lost"] = age["lost"] /\ (reported => reported')
  BY <1>1, <1>3 DEF Enter, AgesCount
<1> QED
  BY <1>1, <1>2, <1>3 DEF Enter, AgesCount, KeepsOutage

\* The poll of port_vanished stamps its own date only.
LEMMA PolledAges ==
    ASSUME AgesCount
    PROVE  /\ Polled \in [Clocks -> Nat]
           /\ Polled["lost"] = age["lost"]
  BY DEF Polled, AgesCount, Clocks

\* A search leaves the port closed and the state as it was, or opens a port and
\* begins to greet.
LEMMA ScanKeeps ==
    ASSUME NEW black, NEW fails, NEW ages \in [Clocks -> Nat], Scan(black, fails, ages),
           ages["lost"] = age["lost"]
    PROVE  /\ \/ state' = state /\ port' = NoPort
              \/ state' = "PortOpen" /\ port' # NoPort
           /\ AgesCount'
           /\ AgesCount => KeepsOutage
<1> DEFINE best == Best(Candidates(black))
           scanned == [ages EXCEPT !["scan"] = 0]
<1>1. /\ scanned \in [Clocks -> Nat]
      /\ scanned["lost"] = age["lost"]
  BY DEF Clocks
<1>2. CASE StayClosed(fails, ages)
  BY <1>2, EnterKeeps DEF StayClosed, ClosePort
<1>3. CASE \E f \in {fails, Failing(fails)} : StayClosed(f, scanned)
  BY <1>1, <1>3, EnterKeeps DEF StayClosed, ClosePort
<1>4. CASE best \in Present /\ Open(best, fails, scanned)
  <2> DEFINE opened == [scanned EXCEPT !["handshake"] = 0]
  <2>1. /\ opened \in [Clocks -> Nat]
        /\ opened["lost"] = age["lost"]
    BY <1>1 DEF Clocks
  <2>2. Enter("PortOpen", fails, opened)
    BY <1>4 DEF Open
  <2>3. port' # NoPort
    BY <1>4, LinkConstants DEF Open, Present
  <2> QED
    BY <2>1, <2>2, <2>3, EnterKeeps
<1> QED
  BY <1>2, <1>3, <1>4 DEF Scan

\* Time passes for every date.
LEMMA AdvanceKeeps ==
    ASSUME AgesCount, Advance
    PROVE  /\ AgesCount'
           /\ KeepsOutage
<1>1. age' \in [Clocks -> Nat]
  BY DEF Advance, AgesCount
<1>2. age'["lost"] >= age["lost"]
  BY DEF Advance, AgesCount, Clocks
<1> QED
  BY <1>1, <1>2 DEF AgesCount, KeepsOutage, Advance

-----------------------------------------------------------------------------
(* A tick. *)

LEMMA BeginTickStep ==
    ASSUME LinkInv, BeginTick
    PROVE  LinkInv' /\ KeepsOutage
<1>1. /\ UNCHANGED <<state, port, version, age>>
      /\ reported => reported'
  BY DEF BeginTick
<1>2. AgesCount'
  BY <1>1 DEF LinkInv, AgesCount
<1>3. age'["lost"] >= age["lost"]
  BY <1>1 DEF LinkInv, AgesCount, Clocks
<1> QED
  BY <1>1, <1>2, <1>3 DEF LinkInv, GreetsAPort, LostPortAnswered, StartIsAuthorised,
     KeepsOutage

LEMMA StoppedTickStep ==
    ASSUME LinkInv, StoppedTick
    PROVE  LinkInv' /\ KeepsOutage
<1>1. state' = "Disconnected" /\ AgesCount' /\ KeepsOutage
  BY EnterKeeps DEF StoppedTick, LinkInv, AgesCount
<1> QED
  BY <1>1 DEF LinkInv, GreetsAPort, LostPortAnswered, StartIsAuthorised

\* A port that is lost is closed, and the link is not identified.
LEMMA PortLostStep ==
    ASSUME LinkInv, PortVanishes \/ ReadFails
    PROVE  LinkInv' /\ KeepsOutage
<1>1. /\ port' = NoPort
      /\ Enter(Verdict, failures, Polled)
  BY DEF PortVanishes, ReadFails, ClosePort
<1>2. state' = Verdict /\ AgesCount' /\ KeepsOutage
  BY <1>1, EnterKeeps, PolledAges DEF LinkInv
<1> QED
  BY <1>1, <1>2 DEF LinkInv, GreetsAPort, LostPortAnswered, StartIsAuthorised, Verdict

\* The branches that search find the driver disconnected or with the link lost.
LEMMA SearchStep ==
    ASSUME LinkInv, ScanPorts \/ SearchAgain \/ CloseSilentPort
    PROVE  LinkInv' /\ KeepsOutage
<1>1. /\ state \in {"Disconnected", "LinkLost"}
      /\ \E black, fails : Scan(black, fails, Polled)
  BY DEF ScanPorts, SearchAgain, CloseSilentPort, Branch
<1>2. /\ \/ state' = state /\ port' = NoPort
         \/ state' = "PortOpen" /\ port' # NoPort
      /\ AgesCount'
      /\ KeepsOutage
  BY <1>1, ScanKeeps, PolledAges DEF LinkInv
<1> QED
  BY <1>1, <1>2 DEF LinkInv, GreetsAPort, LostPortAnswered, StartIsAuthorised

LEMMA HandshakeStep ==
    ASSUME LinkInv, IsIdentified \/ AwaitVersion \/ GreetAgain \/ GiveUp
    PROVE  LinkInv' /\ KeepsOutage
<1>0. state = "PortOpen" /\ port # NoPort
  BY DEF IsIdentified, AwaitVersion, GreetAgain, GiveUp, Branch, LinkInv, GreetsAPort
<1>1. CASE IsIdentified
  <2>1. state' = "Identified" /\ AgesCount' /\ KeepsOutage
    BY <1>1, EnterKeeps, PolledAges DEF IsIdentified, LinkInv
  <2> QED
    BY <1>0, <1>1, <2>1 DEF IsIdentified, Listen, LinkInv, GreetsAPort,
       LostPortAnswered, StartIsAuthorised
<1>2. CASE AwaitVersion
  <2>1. state' = state /\ AgesCount' /\ KeepsOutage
    BY <1>2, EnterKeeps, PolledAges DEF AwaitVersion, LinkInv
  <2> QED
    BY <1>0, <1>2, <2>1 DEF AwaitVersion, LinkInv, GreetsAPort, LostPortAnswered,
       StartIsAuthorised
<1>3. CASE GreetAgain
  <2> DEFINE greeted == [Polled EXCEPT !["handshake"] = 0]
  <2>1. greeted \in [Clocks -> Nat] /\ greeted["lost"] = age["lost"]
    BY PolledAges DEF LinkInv, Clocks
  <2>2. Enter(state, failures, greeted)
    BY <1>3 DEF GreetAgain
  <2>3. state' = state /\ AgesCount' /\ KeepsOutage
    BY <2>1, <2>2, EnterKeeps DEF LinkInv
  <2> QED
    BY <1>0, <1>3, <2>3 DEF GreetAgain, LinkInv, GreetsAPort, LostPortAnswered,
       StartIsAuthorised
<1>4. CASE GiveUp
  <2>1. state' = "Disconnected" /\ AgesCount' /\ KeepsOutage
    BY <1>4, EnterKeeps, PolledAges DEF GiveUp, LinkInv
  <2> QED
    BY <2>1 DEF LinkInv, GreetsAPort, LostPortAnswered, StartIsAuthorised
<1> QED
  BY <1>1, <1>2, <1>3, <1>4

LEMMA ServeStep ==
    ASSUME LinkInv, Serve
    PROVE  LinkInv' /\ KeepsOutage
<1>1. /\ age' \in [Clocks -> Nat]
      /\ age'["lost"] = age["lost"]
  BY PolledAges DEF Serve, LinkInv, Clocks
<1>2. state = "Identified" /\ version'
  BY DEF Serve, Branch, Listen, LinkInv, StartIsAuthorised
<1> QED
  BY <1>1, <1>2 DEF Serve, LinkInv, AgesCount, GreetsAPort, LostPortAnswered,
     StartIsAuthorised, KeepsOutage, Clocks

\* The watchdog keeps the port that answered; a frame from it brings the link back.
LEMMA WatchStep ==
    ASSUME LinkInv, WatchdogTrips \/ LinkReturns \/ AwaitReturn
    PROVE  LinkInv' /\ KeepsOutage
<1>1. \E s \in {"LinkLost", "Identified"} : Enter(s, failures, Polled)
  BY DEF WatchdogTrips, LinkReturns, AwaitReturn, Branch
<1>2. state' \in {"LinkLost", "Identified"} /\ AgesCount' /\ KeepsOutage
  BY <1>1, EnterKeeps, PolledAges DEF LinkInv
<1>3. port # NoPort /\ version
  BY DEF WatchdogTrips, LinkReturns, AwaitReturn, Branch, LinkInv, LostPortAnswered,
     StartIsAuthorised
<1>4. port' = port /\ version'
  BY <1>3 DEF WatchdogTrips, LinkReturns, AwaitReturn, Listen
<1> QED
  BY <1>2, <1>3, <1>4 DEF LinkInv, GreetsAPort, LostPortAnswered, StartIsAuthorised

\* The main thread and the box touch nothing the driver decides with.
LEMMA OthersStep ==
    ASSUME LinkInv, MainThread \/ Environment \/ UNCHANGED vars
    PROVE  LinkInv' /\ KeepsOutage
<1>1. CASE Advance
  <2>1. AgesCount' /\ KeepsOutage
    BY <1>1, AdvanceKeeps DEF LinkInv
  <2> QED
    BY <1>1, <2>1 DEF Advance, LinkInv, GreetsAPort, LostPortAnswered, StartIsAuthorised
<1>2. CASE UNCHANGED driverVars
  BY <1>2 DEF driverVars, LinkInv, AgesCount, GreetsAPort, LostPortAnswered,
     StartIsAuthorised, KeepsOutage, Clocks
<1>3. MainThread \/ UNCHANGED vars => UNCHANGED driverVars
  BY DEF MainThread, SetRunning, SetRaceActive, QueueCommand, vars
<1>4. Environment => Advance \/ UNCHANGED driverVars
  BY DEF Environment, BoxReads, BoxSends, Unplug, Plug
<1> QED
  BY <1>1, <1>2, <1>3, <1>4

-----------------------------------------------------------------------------
(* The theorems. *)

LEMMA InitAges == Init => AgesCount
<1>1. ASSUME NEW a \in Nat, NEW b \in Nat
      PROVE  Max({a, b}) \in Nat
  BY DEF Max
<1>2. \A c \in Clocks : Limit(c) \in Nat
  BY <1>1, LinkConstants DEF Limit, Clocks
<1> QED
  BY <1>2 DEF Init, AgesCount

LEMMA LinkStep == LinkInv /\ [Next]_vars => LinkInv' /\ KeepsOutage
  BY BeginTickStep, StoppedTickStep, PortLostStep, SearchStep, HandshakeStep,
     ServeStep, WatchStep, OthersStep
     DEF Next, Tick, ReadsFrames, ReadsNothing

\* The invariant of the driver: which ports may be open, and answered, in which
\* state.
THEOREM LinkInvariant == Spec => []LinkInv
<1>1. Init => LinkInv
  BY InitAges DEF Init, LinkInv, GreetsAPort, LostPortAnswered, StartIsAuthorised
<1>2. LinkInv /\ [Next]_vars => LinkInv'
  BY LinkStep
<1> QED
  BY <1>1, <1>2, PTL DEF Spec

\* Whatever was lost, searched or greeted in between, IDENTIFIED means that the
\* port that is open now has answered V: (on_frame, pump_reads, tick).
THEOREM StartAuthorised == Spec => []StartIsAuthorised
<1>1. LinkInv => StartIsAuthorised
  BY DEF LinkInv
<1> QED
  BY <1>1, LinkInvariant, PTL

\* enter dates an outage once and lets it be reported once, however often the
\* link is lost again before it is back.
THEOREM OutageKeepsItsDate == Spec => OneOutage
<1>1. LinkInv /\ [Next]_vars => [KeepsOutage]_vars
  BY LinkStep
<1>2. [][KeepsOutage]_vars => OneOutage
  BY PTL DEF OneOutage, KeepsOutage
<1> QED
  BY <1>1, <1>2, LinkInvariant, PTL DEF Spec
-----------------------------------------------------------------------------
(* The order of preference. *)

BeforePairs == {e \in Ports \X Ports : Before(e[1], e[2])}

LEMMA RankIsNumber == \A p \in Ports : Rank(p) \in 0 .. 3 /\ p \in Nat
  BY LinkConstants DEF Rank

LEMMA BeforeIsOrder ==
    ASSUME NEW S \in SUBSET Ports
    PROVE  StrictTotalOrder(BeforePairs, S)
<1>1. \A p, q \in S : <<p, q>> \in BeforePairs <=> Before(p, q)
  BY DEF BeforePairs
<1>2. \A p \in S : Rank(p) \in Int /\ p \in Int
  BY RankIsNumber
<1>3. \A p \in S : ~Before(p, p)
  BY <1>2 DEF Before
<1>4. \A p, q, r \in S : Before(p, q) /\ Before(q, r) => Before(p, r)
  BY <1>2 DEF Before
<1>5. \A p, q \in S : p = q \/ Before(p, q) \/ Before(q, p)
  BY <1>2 DEF Before
<1> QED
  BY <1>1, <1>3, <1>4, <1>5 DEF StrictTotalOrder

LEMMA CandidatesArePorts ==
    ASSUME NEW black, boxAt \in BoxPorts \cup {NoPort}
    PROVE  Candidates(black) \subseteq Ports
  BY LinkConstants DEF Candidates, Present

\* Whatever is plugged, asked for or blacklisted, one candidate comes before all the
\* others, and it is the one that is tried: choose_best, port_selection.cpp.
THEOREM BestIsFirst ==
    ASSUME NEW black, Candidates(black) # {}, boxAt \in BoxPorts \cup {NoPort}
    PROVE  LET best == Best(Candidates(black))
           IN  /\ best \in Candidates(black)
               /\ \A q \in Candidates(black) \ {best} : Before(best, q)
<1> DEFINE S == Candidates(black)
<1>1. S \subseteq Ports /\ IsFiniteSet(S)
  BY CandidatesArePorts, FS_Subset, LinkConstants
<1>2. StrictTotalOrder(BeforePairs, S)
  BY <1>1, BeforeIsOrder
<1>3. PICK r \in S : \A q \in S : <<q, r>> \notin BeforePairs
  BY <1>1, <1>2, SomeoneIsFirst
<1>4. \A q \in S \ {r} : Before(r, q)
  BY <1>2, <1>3 DEF StrictTotalOrder, BeforePairs
<1> QED
  BY <1>3, <1>4 DEF Best

-----------------------------------------------------------------------------
(* What the parts of a tick do to the types. *)

\* The handshakes a port may get.
GreetingsCounted == state = "PortOpen" => attempt <= HandshakeAttempts

TypeInv == TypeOK /\ GreetingsCounted

\* What enter, and what follows from it, decides.
EnterTypes ==
    /\ state' \in LinkStates
    /\ failures' \in 0 .. BackoffAfterFailures
    /\ {linkDown', reported', progressed'} \subseteq BOOLEAN

LEMMA EnterIsTyped ==
    ASSUME TypeInv, NEW s \in LinkStates, NEW fails \in 0 .. BackoffAfterFailures,
           NEW ages, Enter(s, fails, ages)
    PROVE  EnterTypes /\ state' = s
<1>1. failures' \in 0 .. BackoffAfterFailures
  BY LinkConstants DEF Enter
<1>2. {linkDown', reported', progressed'} \subseteq BOOLEAN
  BY DEF Enter, TypeInv, TypeOK
<1> QED
  BY <1>1, <1>2 DEF Enter, EnterTypes

LEMMA FailingIsTyped ==
    ASSUME NEW fails \in 0 .. BackoffAfterFailures
    PROVE  Failing(fails) \in 0 .. BackoffAfterFailures
  BY LinkConstants DEF Failing

LEMMA BlacklistingIsTyped ==
    ASSUME NEW black \in SUBSET Ports, NEW p \in Ports
    PROVE  Blacklisting(black, p) \in SUBSET Ports
  BY DEF Blacklisting

\* A handshake adds to the wire what the box can read.
LEMMA GreetIsTyped ==
    ASSUME TypeInv, NEW p, Greet(p)
    PROVE  wire' \in Seq(Commands \cup {"v"})
<1>1. Greeting \in Seq(Commands \cup {"v"})
  <2>1. <<"v">> \in Seq({"s", "g", "v"}) /\ <<"s", "v">> \in Seq({"s", "g", "v"})
    OBVIOUS
  <2>2. Commands \cup {"v"} = {"s", "g", "v"}
    BY DEF Commands
  <2> QED
    BY <2>1, <2>2 DEF Greeting
<1>2. wire \o Greeting \in Seq(Commands \cup {"v"})
  BY <1>1, ConcatProperties DEF TypeInv, TypeOK
<1> QED
  BY <1>2 DEF Greet, TypeInv, TypeOK

LEMMA PumpIsTyped ==
    ASSUME TypeInv, PumpCommands
    PROVE  /\ commands' \in Seq(Commands) /\ Len(commands') <= CommandQueue
           /\ wire' \in Seq(Commands \cup {"v"})
<1>1. commands \in Seq(Commands \cup {"v"})
  BY DEF TypeInv, TypeOK
<1>2. wire \o commands \in Seq(Commands \cup {"v"})
  BY <1>1, ConcatProperties DEF TypeInv, TypeOK
<1>3. Len(<<>>) <= CommandQueue
  BY LinkConstants
<1> QED
  BY <1>2, <1>3 DEF PumpCommands, TypeInv, TypeOK

\* What a branch decides of ports, frames and handshakes.
PortTypes ==
    /\ port' \in Ports \cup {NoPort}
    /\ version' \in BOOLEAN
    /\ line' \subseteq FrameKinds
    /\ attempt' \in 0 .. HandshakeAttempts + 1
    /\ blacklist' \subseteq Ports
    /\ GreetingsCounted'

LEMMA ScanIsTyped ==
    ASSUME TypeInv, NEW black \in SUBSET Ports, NEW fails \in 0 .. BackoffAfterFailures,
           NEW ages, Scan(black, fails, ages), state # "PortOpen"
    PROVE  EnterTypes /\ PortTypes /\ wire' \in Seq(Commands \cup {"v"})
<1> DEFINE best == Best(Candidates(black))
<1>1. ASSUME Candidates(black) # {}
      PROVE  best \in Ports /\ Blacklisting(black, best) \in SUBSET Ports
  BY <1>1, BestIsFirst, CandidatesArePorts, BlacklistingIsTyped DEF TypeInv, TypeOK
<1> HIDE DEF best
<1>2. ASSUME NEW f \in 0 .. BackoffAfterFailures, NEW a, StayClosed(f, a),
             blacklist' \subseteq Ports
      PROVE  EnterTypes /\ PortTypes /\ wire' \in Seq(Commands \cup {"v"})
  <2>1. EnterTypes /\ state' = state
    BY <1>2, EnterIsTyped DEF StayClosed, TypeInv, TypeOK
  <2> QED
    BY <1>2, <2>1 DEF StayClosed, ClosePort, PortTypes, GreetingsCounted, TypeInv, TypeOK
<1>3. ASSUME NEW a, Candidates(black) # {}, Open(best, fails, a), blacklist' = black
      PROVE  EnterTypes /\ PortTypes /\ wire' \in Seq(Commands \cup {"v"})
  <2>1. EnterTypes
    BY <1>3, EnterIsTyped DEF Open, LinkStates
  <2>2. wire' \in Seq(Commands \cup {"v"})
    BY <1>3, GreetIsTyped DEF Open
  <2>3. 1 <= HandshakeAttempts /\ 1 \in 0 .. HandshakeAttempts + 1
    BY LinkConstants
  <2> QED
    BY <1>1, <1>3, <2>1, <2>2, <2>3 DEF Open, PortTypes, GreetingsCounted
<1> QED
  BY <1>1, <1>2, <1>3, FailingIsTyped DEF Scan, best

-----------------------------------------------------------------------------
(* The steps. *)

\* What every step of a tick leaves alone.
LEMMA ActIsTyped ==
    ASSUME TypeInv, Act, AgesCount', EnterTypes, PortTypes,
           commands' \in Seq(Commands), Len(commands') <= CommandQueue,
           wire' \in Seq(Commands \cup {"v"})
    PROVE  TypeInv'
  BY DEF Act, AgesCount, EnterTypes, PortTypes, TypeInv, TypeOK

LEMMA BoundaryTypes ==
    ASSUME TypeInv, BeginTick \/ StoppedTick, AgesCount'
    PROVE  TypeInv'
<1>1. CASE BeginTick
  BY <1>1 DEF BeginTick, boxVars, mainVars, TypeInv, TypeOK, GreetingsCounted
<1>2. CASE StoppedTick
  <2>1. EnterTypes /\ state' = "Disconnected"
    BY <1>2, EnterIsTyped DEF StoppedTick, LinkStates, TypeInv, TypeOK
  <2> QED
    BY <1>2, <2>1 DEF StoppedTick, ClosePort, mainVars, EnterTypes, AgesCount, TypeInv,
       TypeOK, GreetingsCounted
<1> QED
  BY <1>1, <1>2

LEMMA LossTypes ==
    ASSUME TypeInv, PortVanishes \/ ReadFails, AgesCount'
    PROVE  TypeInv'
<1>1. EnterTypes /\ state' = Verdict
  BY EnterIsTyped DEF PortVanishes, ReadFails, Verdict, LinkStates, TypeInv, TypeOK
<1>2. PortTypes
  BY <1>1 DEF PortVanishes, ReadFails, Verdict, ClosePort, PortTypes, GreetingsCounted,
     TypeInv, TypeOK
<1>3. /\ commands' \in Seq(Commands) /\ Len(commands') <= CommandQueue
      /\ wire' \in Seq(Commands \cup {"v"})
  BY PumpIsTyped DEF PortVanishes, ReadFails, TypeInv, TypeOK
<1> QED
  BY <1>1, <1>2, <1>3, ActIsTyped DEF PortVanishes, ReadFails, Branch

LEMMA SearchTypes ==
    ASSUME LinkInv, TypeInv, ScanPorts \/ SearchAgain \/ CloseSilentPort, AgesCount'
    PROVE  TypeInv'
<1>1. PICK black \in SUBSET Ports, fails \in 0 .. BackoffAfterFailures :
        Scan(black, fails, Polled)
  <2>1. CASE ScanPorts \/ SearchAgain
    BY <2>1 DEF ScanPorts, SearchAgain, TypeInv, TypeOK
  <2>2. CASE CloseSilentPort
    <3>1. port \in Ports
      BY <2>2 DEF CloseSilentPort, TypeInv, TypeOK
    <3>2. /\ Blacklisting(blacklist, port) \in SUBSET Ports
          /\ Failing(failures) \in 0 .. BackoffAfterFailures
      BY <3>1, BlacklistingIsTyped, FailingIsTyped DEF TypeInv, TypeOK
    <3> QED
      BY <2>2, <3>2 DEF CloseSilentPort
  <2> QED
    BY <2>1, <2>2
<1>2. state # "PortOpen" /\ Act /\ UNCHANGED commands
  BY DEF ScanPorts, SearchAgain, CloseSilentPort, Branch
<1>3. EnterTypes /\ PortTypes /\ wire' \in Seq(Commands \cup {"v"})
  BY <1>1, <1>2, ScanIsTyped
<1> QED
  BY <1>2, <1>3, ActIsTyped DEF TypeInv, TypeOK

LEMMA HandshakeTypes ==
    ASSUME LinkInv, TypeInv, IsIdentified \/ AwaitVersion \/ GreetAgain \/ GiveUp, AgesCount'
    PROVE  TypeInv'
<1>0. /\ state = "PortOpen" /\ port \in Ports /\ Act /\ UNCHANGED commands
      /\ attempt <= HandshakeAttempts /\ HandshakeAttempts \in Nat
  BY LinkConstants DEF IsIdentified, AwaitVersion, GreetAgain, GiveUp, Branch, LinkInv,
     GreetsAPort, TypeInv, TypeOK, GreetingsCounted
<1>1. CASE IsIdentified
  <2>1. EnterTypes /\ state' = "Identified"
    BY <1>1, EnterIsTyped DEF IsIdentified, LinkStates, TypeInv, TypeOK
  <2>2. PortTypes
    BY <1>1, <2>1 DEF IsIdentified, Listen, PortTypes, GreetingsCounted, TypeInv, TypeOK
  <2> QED
    BY <1>0, <1>1, <2>1, <2>2, ActIsTyped DEF IsIdentified, TypeInv, TypeOK
<1>2. CASE AwaitVersion
  <2>1. EnterTypes
    BY <1>2, EnterIsTyped DEF AwaitVersion, TypeInv, TypeOK
  <2>2. PortTypes
    BY <1>0, <1>2 DEF AwaitVersion, Listen, PortTypes, GreetingsCounted, TypeInv, TypeOK
  <2> QED
    BY <1>0, <1>2, <2>1, <2>2, ActIsTyped DEF AwaitVersion, TypeInv, TypeOK
<1>3. CASE GreetAgain
  <2>1. EnterTypes /\ wire' \in Seq(Commands \cup {"v"})
    BY <1>3, EnterIsTyped, GreetIsTyped DEF GreetAgain, TypeInv, TypeOK
  <2>2. attempt' \in 0 .. HandshakeAttempts + 1 /\ attempt' <= HandshakeAttempts
    BY <1>0, <1>3 DEF GreetAgain, TypeInv, TypeOK
  <2>3. PortTypes
    BY <1>3, <2>2 DEF GreetAgain, Listen, PortTypes, GreetingsCounted, TypeInv, TypeOK
  <2> QED
    BY <1>0, <2>1, <2>3, ActIsTyped DEF TypeInv, TypeOK
<1>4. CASE GiveUp
  <2>1. EnterTypes /\ state' = "Disconnected"
    BY <1>4, EnterIsTyped, FailingIsTyped DEF GiveUp, LinkStates, TypeInv, TypeOK
  <2>2. attempt' \in 0 .. HandshakeAttempts + 1
    BY <1>0, <1>4 DEF GiveUp, TypeInv, TypeOK
  <2>3. blacklist' \subseteq Ports
    BY <1>0, <1>4, BlacklistingIsTyped DEF GiveUp, TypeInv, TypeOK
  <2>4. PortTypes
    BY <1>4, <2>1, <2>2, <2>3 DEF GiveUp, ClosePort, PortTypes, GreetingsCounted
  <2> QED
    BY <1>0, <1>4, <2>1, <2>4, ActIsTyped DEF GiveUp, TypeInv, TypeOK
<1> QED
  BY <1>1, <1>2, <1>3, <1>4

LEMMA ServeTypes ==
    ASSUME TypeInv, Serve, AgesCount'
    PROVE  TypeInv'
<1>1. EnterTypes
  BY DEF Serve, EnterTypes, TypeInv, TypeOK
<1>2. PortTypes
  BY DEF Serve, Branch, Listen, PortTypes, GreetingsCounted, TypeInv, TypeOK
<1> QED
  BY <1>1, <1>2, PumpIsTyped, ActIsTyped DEF Serve, Branch

LEMMA WatchTypes ==
    ASSUME TypeInv, WatchdogTrips \/ LinkReturns \/ AwaitReturn, AgesCount'
    PROVE  TypeInv'
<1>1. EnterTypes /\ state' \in {"LinkLost", "Identified"}
  BY EnterIsTyped DEF WatchdogTrips, LinkReturns, AwaitReturn, Branch, LinkStates,
     TypeInv, TypeOK
<1>2. PortTypes
  BY <1>1 DEF WatchdogTrips, LinkReturns, AwaitReturn, Listen, PortTypes,
     GreetingsCounted, TypeInv, TypeOK
<1>3. /\ commands' \in Seq(Commands) /\ Len(commands') <= CommandQueue
      /\ wire' \in Seq(Commands \cup {"v"})
  BY PumpIsTyped DEF WatchdogTrips, LinkReturns, AwaitReturn, TypeInv, TypeOK
<1> QED
  BY <1>1, <1>2, <1>3, ActIsTyped DEF WatchdogTrips, LinkReturns, AwaitReturn, Branch

LEMMA MainTypes ==
    ASSUME TypeInv, MainThread
    PROVE  TypeInv'
<1>1. ASSUME NEW c \in Commands, QueueCommand(c)
      PROVE  commands' \in Seq(Commands) /\ Len(commands') <= CommandQueue
  <2>1. Append(commands, c) \in Seq(Commands) /\ Len(Append(commands, c)) = Len(commands) + 1
    BY AppendProperties DEF TypeInv, TypeOK
  <2>2. Len(commands) \in Nat /\ CommandQueue \in Nat
    BY LinkConstants DEF TypeInv, TypeOK
  <2> QED
    BY <1>1, <2>1, <2>2 DEF QueueCommand, TypeInv, TypeOK
<1>2. CASE \E c \in Commands : QueueCommand(c)
  BY <1>1, <1>2 DEF QueueCommand, driverVars, boxVars, TypeInv, TypeOK, GreetingsCounted
<1>3. CASE \E b \in BOOLEAN : SetRunning(b) \/ SetRaceActive(b)
  BY <1>3 DEF SetRunning, SetRaceActive, driverVars, boxVars, TypeInv, TypeOK,
     GreetingsCounted
<1> QED
  BY <1>2, <1>3 DEF MainThread

LEMMA EnvironmentTypes ==
    ASSUME TypeInv, Environment, AgesCount'
    PROVE  TypeInv'
<1>1. CASE Advance
  BY <1>1 DEF Advance, boxVars, mainVars, AgesCount, TypeInv, TypeOK, GreetingsCounted
<1>2. CASE BoxReads
  <2>1. wire' \in Seq(Commands \cup {"v"})
    BY <1>2, HeadTailProperties DEF BoxReads, TypeInv, TypeOK
  <2> QED
    BY <1>2, <2>1 DEF BoxReads, driverVars, mainVars, FrameKinds, TypeInv, TypeOK,
       GreetingsCounted
<1>3. CASE BoxSends("R")
  BY <1>3 DEF BoxSends, driverVars, mainVars, FrameKinds, TypeInv, TypeOK, GreetingsCounted
<1>4. CASE Unplug
  <2>1. wire' \in Seq(Commands \cup {"v"}) /\ boxAt' \in BoxPorts \cup {NoPort}
    BY <1>4 DEF Unplug
  <2> QED
    BY <1>4, <2>1 DEF Unplug, driverVars, mainVars, TypeInv, TypeOK, GreetingsCounted
<1>5. CASE \E p \in BoxPorts : Plug(p)
  BY <1>5 DEF Plug, driverVars, mainVars, TypeInv, TypeOK, GreetingsCounted
<1> QED
  BY <1>1, <1>2, <1>3, <1>4, <1>5 DEF Environment

-----------------------------------------------------------------------------
(* The types. *)

LEMMA InitTypes == Init => TypeInv
<1> SUFFICES ASSUME Init PROVE TypeInv
  OBVIOUS
<1>1. age \in [Clocks -> Nat]
  BY InitAges DEF AgesCount
<1>2. commands \in Seq(Commands) /\ Len(commands) <= CommandQueue
  BY LinkConstants DEF Init
<1>3. attempt \in 0 .. HandshakeAttempts + 1 /\ failures \in 0 .. BackoffAfterFailures
  BY LinkConstants DEF Init
<1>4. wire \in Seq(Commands \cup {"v"})
  BY DEF Init
<1>5. TypeOK
  BY <1>1, <1>2, <1>3, <1>4 DEF Init, TypeOK, LinkStates
<1> QED
  BY <1>5 DEF Init, TypeInv, GreetingsCounted

LEMMA TypesStep ==
    ASSUME LinkInv, TypeInv, [Next]_vars
    PROVE  TypeInv'
<1>1. AgesCount'
  BY LinkStep DEF LinkInv
<1>2. CASE UNCHANGED vars
  BY <1>2 DEF vars, driverVars, boxVars, mainVars, TypeInv, TypeOK, GreetingsCounted
<1> QED
  BY <1>1, <1>2, BoundaryTypes, LossTypes, SearchTypes, HandshakeTypes, ServeTypes,
     WatchTypes, MainTypes, EnvironmentTypes
     DEF Next, Tick, ReadsFrames, ReadsNothing

\* The driver's types, with the bounds that matter: commands fit their queue, what
\* is open or refused is a port of the machine, and no port is greeted more often
\* than HandshakeAttempts.
THEOREM LinkTypeCorrect == Spec => []TypeOK
<1>1. Init => TypeInv
  BY InitTypes
<1>2. LinkInv /\ TypeInv /\ [Next]_vars => TypeInv'
  BY TypesStep
<1>3. TypeInv => TypeOK
  BY DEF TypeInv
<1> QED
  BY <1>1, <1>2, <1>3, LinkInvariant, PTL DEF Spec

-----------------------------------------------------------------------------
(* The driver under the controller. *)

\* The dates of the controller: the loss it counts from is one it was told of, and
\* the link has not been up since.
GraceInv ==
    /\ lostFor \in NoDate .. GraceLimit
    /\ back \in 0 .. GraceLimit
    /\ lostFor <= back
    /\ lostFor # NoDate => told = "LinkLost"

LEMMA InitGrace == GraceInit => GraceInv
  BY GraceConstants DEF GraceInit, GraceInv, NoDate, GraceLimit

\* A poll that finds the link up forgets the loss, and one that finds it lost anew
\* dates it.
LEMMA PollKeeps ==
    ASSUME GraceInv, NEW date \in {NoDate, lostFor}, Poll(date)
    PROVE  GraceInv'
<1>1. CASE state = told
  BY <1>1, GraceConstants DEF Poll, OnLinkState, GraceInv, NoDate, GraceLimit
<1>2. CASE state # told
  BY <1>2, GraceConstants DEF Poll, OnLinkState, GraceInv, NoDate, GraceLimit
<1> QED
  BY <1>1, <1>2

LEMMA NextGrace == GraceInv /\ [GraceNext]_graceVars => GraceInv'
<1> SUFFICES ASSUME GraceInv, [GraceNext]_graceVars PROVE GraceInv'
  OBVIOUS
<1>1. CASE Controller
  BY <1>1, PollKeeps DEF Controller, Image, GraceRunsOut
<1>2. CASE TimePasses
  BY <1>2, GraceConstants DEF TimePasses, GraceInv, NoDate, GraceLimit
<1>3. CASE UNCHANGED <<told, lostFor, back>>
  BY <1>3 DEF GraceInv
<1> QED
  BY <1>1, <1>2, <1>3 DEF GraceNext, StartRace, EndRace, Others, graceVars

\* The controller, and the operator's starts, do to the driver what the main thread
\* may always do to it: set_race_active, or nothing.
LEMMA GraceStepsAreSteps == [GraceNext]_graceVars => [Next]_vars
<1> SUFFICES ASSUME [GraceNext]_graceVars PROVE [Next]_vars
  OBVIOUS
<1>1. Image => UNCHANGED vars
  BY DEF Image, Poll, vars, mainVars
<1>2. GraceRunsOut => SetRaceActive(FALSE)
  BY DEF GraceRunsOut, Poll, SetRaceActive
<1>3. StartRace => SetRaceActive(TRUE)
  BY DEF StartRace
<1>4. EndRace => SetRaceActive(FALSE)
  BY DEF EndRace
<1>5. \A b \in BOOLEAN : SetRaceActive(b) => Next
  BY DEF Next, MainThread
<1>6. TimePasses => Next
  BY DEF TimePasses, Next, Environment
<1>7. Others => Next
  BY DEF Others, Next, Environment, MainThread
<1>8. UNCHANGED graceVars => UNCHANGED vars
  BY DEF graceVars
<1> QED
  BY <1>1, <1>2, <1>3, <1>4, <1>5, <1>6, <1>7, <1>8 DEF GraceNext, Controller

\* The driver under the controller is a driver: on_link_state and
\* on_link_lost_beyond_grace reach it by set_race_active only.
THEOREM GraceIsLink == GraceSpec => Spec
<1>1. GraceInit => Init
  BY DEF GraceInit
<1> QED
  BY <1>1, GraceStepsAreSteps, PTL DEF GraceSpec, Spec

\* So whatever the controller cancels, a start is authorised by the port that is
\* open, and the driver keeps the date of an outage.
THEOREM GraceKeepsLink == GraceSpec => []StartIsAuthorised /\ []TypeOK /\ OneOutage
  BY GraceIsLink, StartAuthorised, LinkTypeCorrect, OutageKeepsItsDate, PTL

\* The controller cancels a race only after a whole grace during which it was not
\* once told that the link is up.
THEOREM VerdictIsNotHasty == GraceSpec => NoHastyVerdict
<1>1. GraceInv /\ GraceRunsOut => back > LinkGrace
  BY GraceConstants DEF GraceInv, GraceRunsOut, GraceLimit, NoDate
<1>2. GraceInv /\ [GraceNext]_graceVars
        => [GraceRunsOut /\ raceActive => back > LinkGrace]_graceVars
  BY <1>1
<1>3. GraceSpec => []GraceInv
  BY InitGrace, NextGrace, PTL DEF GraceSpec
<1> QED
  BY <1>2, <1>3, PTL DEF GraceSpec, NoHastyVerdict

\* Under races that start, end and start again every step is one of the driver.
LEMMA WatchStepsAreSteps == [WatchNext]_watchVars => [Next]_vars
<1> SUFFICES ASSUME [WatchNext]_watchVars PROVE [Next]_vars
  OBVIOUS
<1>1. \A b \in BOOLEAN : SetRaceActive(b) \/ SetRunning(b) => Next
  BY DEF Next, MainThread
<1>2. StartWatched => Next
  BY <1>1 DEF StartWatched
<1>3. EndWatched => Next
  BY <1>1 DEF EndWatched
<1>4. WatchThread => Next
  BY DEF WatchThread, Next, Tick
<1>5. WatchOthers => Next
  BY <1>1 DEF WatchOthers, Next
<1>6. UNCHANGED watchVars => UNCHANGED vars
  BY DEF watchVars
<1> QED
  BY <1>2, <1>3, <1>4, <1>5, <1>6 DEF WatchNext

\* The driver that races start and stop through set_race_active, start_race and
\* restart_race, is a driver.
THEOREM WatchIsLink == WatchSpec => Spec
<1>1. WatchInit => Init
  BY DEF WatchInit
<1> QED
  BY <1>1, WatchStepsAreSteps, PTL DEF WatchSpec, Spec

\* So under races that follow one another too, a start is authorised by the port
\* that is open, and the driver keeps the date of an outage: the cut the watchdog
\* makes in a countdown is one outage of an authorised link.
THEOREM WatchKeepsLink == WatchSpec => []StartIsAuthorised /\ []TypeOK /\ OneOutage
  BY WatchIsLink, StartAuthorised, LinkTypeCorrect, OutageKeepsItsDate, PTL
=============================================================================
