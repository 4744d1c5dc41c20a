-------------------------- MODULE SerialPathProofs --------------------------
(***************************************************************************)
(* What is proved of the way of a line: the driver and the system agree on *)
(* what is open, a box is tried first, no measure is forged and noise      *)
(* costs one line.                                                         *)
(***************************************************************************)
EXTENDS SerialPath, Orders, SequenceTheorems

-----------------------------------------------------------------------------
(* The order in which ports are tried. *)

\* No two devices have one path.
Apart(sys, devices) ==
    \A d, e \in devices : About[d].path[sys] = About[e].path[sys] => d = e

\* The order of rank_candidates as a set of pairs.
Pairs(sys, preferred, S) == {p \in S \X S : Before(sys, preferred, p[1], p[2])}

\* A reason is one of four.
LEMMA ReasonIsRanked ==
    ASSUME NEW sys, NEW d, NEW preferred
    PROVE  /\ ReasonOf(sys, d, preferred) \in {"Preferred", "UsbId", "NamePattern", "Nothing"}
           /\ Reasons[ReasonOf(sys, d, preferred)] \in 1 .. 4
<1>1. ReasonOf(sys, d, preferred) \in {"Preferred", "UsbId", "NamePattern", "Nothing"}
  BY DEF ReasonOf
<1> QED
  BY <1>1 DEF Reasons

\* Where paths differ, candidates are in a strict total order.
LEMMA BeforeIsOrder ==
    ASSUME NEW sys \in Systems, NEW S \in SUBSET Devices, Apart(sys, S), NEW preferred
    PROVE  StrictTotalOrder(Pairs(sys, preferred, S), S)
<1> DEFINE r(d) == Reasons[ReasonOf(sys, d, preferred)]
           n(d) == About[d].path[sys]
           R == Pairs(sys, preferred, S)
<1>1. \A d \in S : r(d) \in Int /\ n(d) \in Int
  BY ReasonIsRanked, SerialPathConstants
<1>2. \A d, e \in S : <<d, e>> \in R <=> r(d) < r(e) \/ (r(d) = r(e) /\ n(d) < n(e))
  BY DEF Pairs, Before
<1>3. \A d, e \in S : n(d) = n(e) => d = e
  BY DEF Apart
<1> HIDE DEF r, n, R
<1>4. \A a \in S : <<a, a>> \notin R
  BY <1>1, <1>2
<1>5. \A a, b, c \in S : <<a, b>> \in R /\ <<b, c>> \in R => <<a, c>> \in R
  BY <1>1, <1>2
<1>6. ASSUME NEW a \in S, NEW b \in S
      PROVE  a = b \/ <<a, b>> \in R \/ <<b, a>> \in R
  <2>1. r(a) \in Int /\ r(b) \in Int /\ n(a) \in Int /\ n(b) \in Int
    BY <1>1
  <2>2. r(a) < r(b) \/ r(b) < r(a) \/ (r(a) = r(b) /\ (n(a) < n(b) \/ n(b) < n(a) \/ n(a) = n(b)))
    BY <2>1
  <2> QED
    BY <2>2, <1>2, <1>3
<1> QED
  BY <1>4, <1>5, <1>6 DEF StrictTotalOrder, R

\* Candidates are listed, and devices.
LEMMA CandidatesAreListed ==
    ASSUME NEW sys \in Systems, NEW D \in SUBSET Devices, NEW preferred, NEW black
    PROVE  /\ Listed(sys, D) = {d \in D : d \in Listed(sys, {d})}
           /\ \A d \in Listed(sys, D) : About[d].path[sys] # NoPath
           /\ Candidates(sys, D, preferred, black) \in SUBSET D
           /\ \A d \in Candidates(sys, D, preferred, black) : About[d].path[sys] # NoPath
<1>1. /\ Listed(sys, D) = {d \in D : d \in Listed(sys, {d})}
      /\ \A d \in Listed(sys, D) : About[d].path[sys] # NoPath
  <2>1. CASE sys = "linux"
    BY <2>1 DEF Listed, OnLinux
  <2>2. CASE sys = "mac"
    BY <2>2 DEF Listed, OnMac
  <2>3. CASE sys = "windows"
    BY <2>3 DEF Listed, OnWindows
  <2> QED
    BY <2>1, <2>2, <2>3 DEF Systems
<1> QED
  BY <1>1 DEF Candidates

\* Every candidate has its place, one before those it is before.
LEMMA SortedIsRanking ==
    ASSUME NEW sys \in Systems, NEW S \in SUBSET Devices, Apart(sys, S), NEW preferred
    PROVE  /\ Cardinality(S) \in Nat
           /\ Sorted(sys, preferred, S) \in [1 .. Cardinality(S) -> S]
           /\ \A d \in S : \E k \in 1 .. Cardinality(S) :
                /\ Sorted(sys, preferred, S)[k] = d
                /\ \A j \in 1 .. k - 1 : Before(sys, preferred, Sorted(sys, preferred, S)[j], d)
<1> DEFINE R == Pairs(sys, preferred, S)
           n == Cardinality(S)
           order == Sorted(sys, preferred, S)
<1>1. IsFiniteSet(S) /\ n \in Nat
  BY SerialPathConstants, FS_Subset, FS_CardinalityType
<1>2. StrictTotalOrder(R, S)
  BY BeforeIsOrder
<1>3. ASSUME NEW d \in S
      PROVE  {e \in S : Before(sys, preferred, e, d)} = Preceding(R, S, d)
  BY DEF Pairs, Preceding
<1>4. ASSUME NEW d \in S
      PROVE  /\ Cardinality({e \in S : Before(sys, preferred, e, d)}) = PlaceIn(R, S, d) - 1
             /\ PlaceIn(R, S, d) \in 1 .. n
  <2>1. IsFiniteSet(Preceding(R, S, d))
    BY <1>1, FS_Subset DEF Preceding
  <2>2. PlaceIn(R, S, d) \in 1 .. n
    BY <1>1, <1>2, PlaceBounds
  <2>3. Cardinality(Preceding(R, S, d)) \in Nat
    BY <2>1, FS_CardinalityType
  <2>4. Cardinality(Preceding(R, S, d)) = PlaceIn(R, S, d) - 1
    BY <2>3 DEF PlaceIn
  <2> QED
    BY <1>3, <2>2, <2>4
<1> HIDE DEF R
<1>5. {PlaceIn(R, S, d) : d \in S} = 1 .. n /\ \A a, b \in S : PlaceIn(R, S, a) = PlaceIn(R, S, b) => a = b
  BY <1>1, <1>2, PlacesAreABijection
<1>6. ASSUME NEW k \in 1 .. n
      PROVE  order[k] \in S /\ PlaceIn(R, S, order[k]) = k
  <2> DEFINE Q(d) == Cardinality({e \in S : Before(sys, preferred, e, d)}) = k - 1
  <2>1. order[k] = CHOOSE d \in S : Q(d)
    BY DEF Sorted
  <2>2. PICK d \in S : PlaceIn(R, S, d) = k
    BY <1>5
  <2>3. Q(d)
    BY <1>4, <2>2
  <2>4. order[k] \in S /\ Q(order[k])
    <3> HIDE DEF Q, order
    <3> QED
      BY <2>1, <2>3
  <2> QED
    BY <2>4, <1>4
<1>7. order \in [1 .. n -> S]
  <2> DEFINE Q(k, d) == Cardinality({e \in S : Before(sys, preferred, e, d)}) = k - 1
             at(k) == CHOOSE d \in S : Q(k, d)
  <2>1. order = [k \in 1 .. n |-> at(k)]
    BY Zenon DEF Sorted
  <2>2. \A k \in 1 .. n : order[k] = at(k)
    <3> HIDE DEF at, order
    <3> QED
      BY <2>1
  <2> HIDE DEF order, at
  <2> QED
    BY <2>1, <2>2, <1>6
<1>8. ASSUME NEW d \in S
      PROVE  \E k \in 1 .. n : /\ order[k] = d
                               /\ \A j \in 1 .. k - 1 : Before(sys, preferred, order[j], d)
  <2> DEFINE k == PlaceIn(R, S, d)
  <2>1. k \in 1 .. n /\ order[k] = d
    <3>1. k \in 1 .. n
      BY <1>4
    <3> QED
      BY <3>1, <1>5, <1>6
  <2>2. ASSUME NEW j \in 1 .. k - 1
        PROVE  Before(sys, preferred, order[j], d)
    <3>1. j \in 1 .. n /\ PlaceIn(R, S, order[j]) = j /\ order[j] \in S /\ j < k
      BY <2>1, <1>1, <1>6
    <3>2. <<d, order[j]>> \notin R
      <4>1. SUFFICES ASSUME <<d, order[j]>> \in R PROVE FALSE
        OBVIOUS
      <4>2. PlaceIn(R, S, d) < PlaceIn(R, S, order[j])
        <5> HIDE DEF order, k
        <5> QED
          BY <1>1, <1>2, <3>1, <4>1, PlacesFollowOrder
      <4>3. k \in Int
        BY <2>1
      <4> HIDE DEF order, n
      <4> QED
        BY <3>1, <4>2, <4>3
    <3>3. d # order[j]
      BY <2>1, <3>1
    <3>4. <<order[j], d>> \in R
      BY <1>2, <3>1, <3>2, <3>3 DEF StrictTotalOrder
    <3> QED
      BY <3>4 DEF R, Pairs
  <2> QED
    BY <2>1, <2>2
<1> QED
  BY <1>1, <1>7, <1>8

\* A path that is tried is a path.
LEMMA RankedArePaths ==
    ASSUME NEW sys \in Systems, NEW D \in SUBSET Devices, Apart(sys, D), NEW preferred, NEW black
    PROVE  \A path \in Range(Ranked(sys, D, preferred, black)) : path # NoPath
<1> DEFINE S == Candidates(sys, D, preferred, black)
           order == Sorted(sys, preferred, S)
           u == IF /\ preferred \notin black \cup {NoPath}
                   /\ \A d \in Listed(sys, D) : About[d].path[sys] # preferred
                THEN <<preferred>> ELSE <<>>
           v == [k \in DOMAIN order |-> About[order[k]].path[sys]]
           n == Cardinality(S)
<1>1. Ranked(sys, D, preferred, black) = u \o v
  BY DEF Ranked
<1>2. S \in SUBSET Devices /\ Apart(sys, S) /\ \A d \in S : About[d].path[sys] \in Nat \ {NoPath}
  BY CandidatesAreListed, SerialPathConstants DEF Apart
<1> HIDE DEF S
<1>3. n \in Nat /\ order \in [1 .. n -> S]
  BY <1>2, SortedIsRanking
<1> HIDE DEF order, n
<1>4. v \in [1 .. n -> Nat \ {NoPath}]
  BY <1>2, <1>3
<1>5. u \in Seq({preferred} \ {NoPath})
  <2>1. ASSUME u # <<>>
        PROVE  u = <<preferred>> /\ preferred \in {preferred} \ {NoPath}
    BY <2>1
  <2> HIDE DEF u
  <2> DEFINE T == {preferred} \ {NoPath}
  <2>2. <<>> \in Seq(T)
    OBVIOUS
  <2>3. \A x \in T : <<x>> \in Seq(T)
    <3> HIDE DEF T
    <3> QED
      OBVIOUS
  <2> QED
    BY <2>1, <2>2, <2>3
<1> HIDE DEF u, v
<1> DEFINE A == {preferred} \ {NoPath}
           B == Nat \ {NoPath}
<1>6. u \in Seq(A \cup B) /\ v \in Seq(A \cup B) /\ NoPath \notin A \cup B
  <2>1. v \in Seq(B)
    BY <1>3, <1>4
  <2> HIDE DEF A, B
  <2>2. u \in Seq(A)
    BY <1>5 DEF A
  <2>3. u \in Seq(A \cup B) /\ v \in Seq(A \cup B)
    BY <2>1, <2>2
  <2> QED
    BY <2>3 DEF A, B
<1> HIDE DEF A, B
<1>7. u \o v \in Seq(A \cup B)
  BY <1>6
<1> QED
  BY <1>1, <1>6, <1>7 DEF Range

-----------------------------------------------------------------------------
(* What is open. *)

\* Where things are, and that no two devices have one path.
Wired ==
    /\ os \in Running
    /\ plugged \in SUBSET Devices
    /\ Apart(os, plugged)
    /\ fd \in Devices \cup {Closed}
    /\ state \in States

WiredInv == Wired /\ PortAgrees

\* At the start nothing is open.
LEMMA WiredInit == Init => WiredInv
<1> SUFFICES ASSUME Init PROVE WiredInv
  OBVIOUS
<1>1. Apart(os, plugged)
  BY DEF Init, At, Apart, PathOf
<1> QED
  BY <1>1 DEF Init, WiredInv, Wired, PortAgrees, States

\* No operation of the thread and nothing the world does parts the driver from the
\* system.
LEMMA WiredStep == WiredInv /\ [Next]_vars => WiredInv'
<1> SUFFICES ASSUME WiredInv, [Next]_vars PROVE WiredInv'
  OBVIOUS
<1> USE DEF WiredInv
<1>0. Closed \notin Devices /\ Boxes \subseteq Devices /\ os \in Systems
  BY SerialPathConstants DEF Wired
<1>1. ASSUME NEW s \in Verdict, Close(s), UNCHANGED <<os, lines, plugged>>
      PROVE  WiredInv'
  BY <1>1 DEF Close, Verdict, Wired, PortAgrees, States, Apart
<1>2. CASE TryOpen
  <2>0. PICK path \in Range(Ranked(os, plugged, Chosen, {})) : \E o \in Opened(path) :
          /\ fd' = o.on
          /\ current' = IF o.ok THEN path ELSE NoPath
          /\ state' = IF o.ok THEN "PortOpen" ELSE state
    BY <1>2, Zenon DEF TryOpen
  <2>1. PICK o \in Opened(path) :
          /\ fd' = o.on
          /\ current' = IF o.ok THEN path ELSE NoPath
          /\ state' = IF o.ok THEN "PortOpen" ELSE state
    BY <2>0
  <2>2. path # NoPath
    BY <1>0, RankedArePaths DEF Wired
  <2>3. (o.ok /\ o.on \in plugged) \/ (~o.ok /\ o.on = Closed)
    BY DEF Opened, At
  <2>4. fd = Closed /\ UNCHANGED <<os, plugged>>
    BY <1>2 DEF TryOpen, PortAgrees
  <2> QED
    BY <1>0, <2>1, <2>2, <2>3, <2>4 DEF Wired, PortAgrees, States, Apart
<1>3. CASE Read
  <2>1. state' \in {state, "Identified"} /\ UNCHANGED <<os, plugged, fd, current>> /\ fd \in plugged
    BY <1>3 DEF Read, StateAfter
  <2> QED
    BY <1>0, <2>1 DEF Wired, PortAgrees, States, Apart
<1>4. CASE FallsSilent
  BY <1>4 DEF FallsSilent, Wired, PortAgrees, States, Apart
<1>5. ASSUME UNCHANGED <<os, fd, current, state>>, plugged' \in SUBSET Devices, Apart(os, plugged')
      PROVE  WiredInv'
  BY <1>5 DEF Wired, PortAgrees, Apart
<1>6. ASSUME NEW d \in Boxes, Plug(d) PROVE WiredInv'
  <2>1. plugged' = plugged \cup {d} /\ \A e \in plugged : About[e].path[os] # About[d].path[os]
    BY <1>6 DEF Plug, At, PathOf
  <2>2. Apart(os, plugged')
    BY <2>1 DEF Apart, Wired
  <2> QED
    BY <1>0, <1>5, <1>6, <2>1, <2>2 DEF Plug, Wired
<1>7. ASSUME NEW d \in Boxes, Unplug(d) PROVE WiredInv'
  <2>1. Apart(os, plugged') /\ plugged' \in SUBSET Devices
    BY <1>7 DEF Unplug, Apart, Wired
  <2> QED
    BY <1>5, <1>7, <2>1 DEF Unplug
<1>8. ASSUME UNCHANGED <<os, plugged, fd, current, state>>
      PROVE  WiredInv'
  BY <1>5, <1>8 DEF Wired
<1>9. CASE Vanished \/ GivesUp \/ ReadFails
  BY <1>1, <1>9 DEF Vanished, GivesUp, ReadFails
<1>10. CASE World
  <2>1. ASSUME NEW p \in lines, Prints(p) PROVE WiredInv'
    BY <1>8, <2>1 DEF Prints
  <2>2. ASSUME NEW bytes \in Noises, Noise(bytes) PROVE WiredInv'
    BY <1>8, <2>2 DEF Noise
  <2> QED
    BY <1>6, <1>7, <1>10, <2>1, <2>2 DEF World
<1>11. CASE UNCHANGED vars
  BY <1>8, <1>11 DEF vars
<1> QED
  BY <1>2, <1>3, <1>4, <1>9, <1>10, <1>11 DEF Next, Thread

\* However an opening fails, and whatever is pulled out, the driver and the system
\* agree on what is open: open_impl, close_port and every state of the driver.
THEOREM PortsAgree == Spec => []PortAgrees
<1>1. WiredInv => PortAgrees
  BY DEF WiredInv
<1> QED
  BY <1>1, WiredInit, WiredStep, PTL DEF Spec

-----------------------------------------------------------------------------
(* The box is tried first. *)

\* The first of a sequence that passes a test is found where it is.
LEMMA FirstIsFound ==
    ASSUME NEW T \in SUBSET Nat, NEW k \in T, \A i \in T : k <= i
    PROVE  Min(T) = k
<1>1. \A x \in T : (\A y \in T : x <= y) => x = k
  <2> SUFFICES ASSUME NEW x \in T, x <= k PROVE x = k
    OBVIOUS
  <2>1. x \in Nat /\ k \in Nat /\ k <= x
    OBVIOUS
  <2> QED
    BY <2>1
<1> QED
  BY <1>1 DEF Min

\* Climbed and ParseHardwareId, where the identifiers are.
LEMMA ClimbFinds ==
    ASSUME NEW levels, Len(levels) \in Nat, NEW depth \in Nat, NEW k \in 1 .. Len(levels),
           k <= depth, levels[k] # NoIds, \A i \in 1 .. k - 1 : levels[i] = NoIds
    PROVE  Climbed(levels, depth) = levels[k]
<1> DEFINE m == Min({depth, Len(levels)})
           T == {i \in 1 .. m : levels[i] # NoIds}
           n == SelectInSubSeq(levels, 1, m, LAMBDA id : id # NoIds)
<1>1. m \in Nat /\ k <= m
  <2>1. m \in {depth, Len(levels)}
    <3>1. Len(levels) \in Int /\ depth \in Int
      OBVIOUS
    <3>2. \A a, b \in Int : Min({a, b}) \in {a, b} /\ Min({a, b}) <= a /\ Min({a, b}) <= b
      BY MinOfTwo
    <3> QED
      BY <3>1, <3>2
  <2>2. k <= Len(levels)
    OBVIOUS
  <2> HIDE DEF m
  <2> QED
    BY <2>1, <2>2
<1>2. n = IF T # {} THEN Min(T) ELSE 0
  BY Zenon DEF SelectInSubSeq
<1>3. Climbed(levels, depth) = IF n = 0 THEN NoIds ELSE levels[n]
  BY Zenon DEF Climbed
<1> HIDE DEF m, n
<1>4. T \in SUBSET Nat /\ k \in T /\ \A i \in T : k <= i
  BY <1>1
<1>5. Min(T) = k
  <2> HIDE DEF T
  <2> QED
    BY <1>4, FirstIsFound
<1> HIDE DEF T
<1> QED
  BY <1>2, <1>3, <1>4, <1>5

\* The first mark of a text is found where it is.
LEMMA MarkIsFound ==
    ASSUME NEW text, Len(text) \in Nat, NEW mark, NEW k \in 1 .. Len(text),
           text[k] = mark, \A i \in 1 .. k - 1 : text[i] # mark
    PROVE  SelectInSeq(text, LAMBDA t : t = mark) = k
<1> DEFINE T == {i \in 1 .. Len(text) : text[i] = mark}
           n == SelectInSeq(text, LAMBDA t : t = mark)
<1>1. n = IF T # {} THEN Min(T) ELSE 0
  BY Zenon DEF SelectInSeq
<1> HIDE DEF n
<1>2. T \in SUBSET Nat /\ k \in T /\ \A i \in T : k <= i
  OBVIOUS
<1>3. Min(T) = k
  <2> HIDE DEF T
  <2> QED
    BY <1>2, FirstIsFound
<1> HIDE DEF T
<1>4. n = k
  BY <1>1, <1>2, <1>3
<1> QED
  BY <1>4 DEF n

\* A box carries a known identifier on the system it runs on.
LEMMA KnownIdIsFound ==
    ASSUME BoxesAreKnown, NEW d \in Boxes, NEW sys \in Running
    PROVE  Ids(sys, d) \in KnownIds
<1> DEFINE ids == About[d].ids[sys]
<1>1. ids \in Seq(STRING) /\ Len(ids) \in Nat /\ DOMAIN ids = 1 .. Len(ids)
  <2>1. ids \in Seq(STRING)
    BY DEF BoxesAreKnown
  <2> HIDE DEF ids
  <2> QED
    BY <2>1
<1>2. sys \in Systems
  BY SerialPathConstants
<1>3. CASE sys = "windows"
  <2>1. PICK v \in DOMAIN ids, p \in DOMAIN ids :
           /\ ids[v] = "VID_" /\ \A i \in 1 .. v - 1 : ids[i] # "VID_"
           /\ ids[p] = "PID_" /\ \A i \in 1 .. p - 1 : ids[i] # "PID_"
           /\ {v + 1, p + 1} \subseteq DOMAIN ids
           /\ ids[v + 1] \o ":" \o ids[p + 1] \in KnownIds
    BY <1>3, Zenon DEF BoxesAreKnown
  <2> HIDE DEF ids
  <2>2. SelectInSeq(ids, LAMBDA t : t = "VID_") = v
    BY <1>1, <2>1, MarkIsFound
  <2>3. SelectInSeq(ids, LAMBDA t : t = "PID_") = p
    BY <1>1, <2>1, MarkIsFound
  <2>4. ~(v = 0 \/ p = 0 \/ v + 1 > Len(ids) \/ p + 1 > Len(ids))
    BY <1>1, <2>1
  <2>5. ParseHardwareId(d) = ids[v + 1] \o ":" \o ids[p + 1]
    BY <1>3, <2>2, <2>3, <2>4, Zenon DEF ParseHardwareId, ids
  <2> QED
    BY <1>3, <2>1, <2>5 DEF Ids
<1>4. CASE sys # "windows"
  <2> DEFINE depth == IF sys = "linux" THEN LinuxDepth ELSE MacDepth
  <2>1. PICK k \in DOMAIN ids : /\ ids[k] \in KnownIds \ {NoIds}
                                /\ \A i \in 1 .. k - 1 : ids[i] = NoIds
                                /\ k <= depth
    BY <1>4, Zenon DEF BoxesAreKnown
  <2>2. Ids(sys, d) = Climbed(ids, depth)
    BY <1>2, <1>4 DEF Ids, Systems, FillUsbIds, FindUsbIds
  <2>3. depth \in Nat
    BY PortListConstants
  <2> HIDE DEF ids, depth
  <2>4. Climbed(ids, depth) = ids[k]
    BY <1>1, <2>1, <2>3, ClimbFinds
  <2> QED
    BY <2>1, <2>2, <2>4
<1> QED
  BY <1>3, <1>4

\* A candidate with a known identifier is in the list, behind those of its own
\* reason and those of the reason before.
LEMMA KnownIsEarly ==
    ASSUME NEW sys \in Systems, NEW D \in SUBSET Devices, Apart(sys, D),
           NEW preferred, NEW d \in Listed(sys, D), Ids(sys, d) \in KnownIds
    PROVE  LET ranked == Ranked(sys, D, preferred, {})
               known == {e \in D : Ids(sys, e) \in KnownIds}
           IN  \E k \in DOMAIN ranked :
                 /\ ranked[k] = About[d].path[sys]
                 /\ \A j \in 1 .. k - 1 :
                      ranked[j] \in {preferred} \cup {About[e].path[sys] : e \in known}
<1> DEFINE S == Candidates(sys, D, preferred, {})
           order == Sorted(sys, preferred, S)
           n == Cardinality(S)
           u == IF /\ preferred \notin {} \cup {NoPath}
                   /\ \A e \in Listed(sys, D) : About[e].path[sys] # preferred
                THEN <<preferred>> ELSE <<>>
           path(e) == About[e].path[sys]
           v == [k \in DOMAIN order |-> path(order[k])]
           ranked == Ranked(sys, D, preferred, {})
           known == {e \in D : Ids(sys, e) \in KnownIds}
           first == {preferred} \cup {path(e) : e \in known}
<1>1. ranked = u \o v
  BY Zenon DEF Ranked
<1>2. S \in SUBSET D /\ S \in SUBSET Devices /\ Apart(sys, S) /\ d \in S
  <2>1. S \in SUBSET D
    BY CandidatesAreListed
  <2>2. ReasonOf(sys, d, preferred) # "Nothing"
    BY DEF ReasonOf
  <2>3. d \in S
    BY <2>2 DEF Candidates
  <2> QED
    BY <2>1, <2>3 DEF Apart
<1>3. ASSUME NEW e \in S, Before(sys, preferred, e, d)
      PROVE  path(e) \in first
  <2>1. Reasons[ReasonOf(sys, d, preferred)] <= 2
    BY DEF ReasonOf, Reasons
  <2>2. Reasons[ReasonOf(sys, e, preferred)] <= 2
    BY <1>3, <2>1, ReasonIsRanked DEF Before
  <2>3. ReasonOf(sys, e, preferred) \in {"Preferred", "UsbId"}
    BY <2>2, ReasonIsRanked DEF Reasons
  <2>4. path(e) = preferred \/ Ids(sys, e) \in KnownIds
    BY <2>3 DEF ReasonOf
  <2> QED
    BY <2>4, <1>2
<1> HIDE DEF S
<1>4. /\ n \in Nat
      /\ order \in [1 .. n -> S]
      /\ \E k \in 1 .. n : /\ order[k] = d
                            /\ \A j \in 1 .. k - 1 : Before(sys, preferred, order[j], d)
  BY <1>2, SortedIsRanking
<1> HIDE DEF order, n
<1>5. PICK k \in 1 .. n : order[k] = d /\ \A j \in 1 .. k - 1 : Before(sys, preferred, order[j], d)
  BY <1>4
<1>6. /\ u \in Seq({preferred}) /\ Len(u) \in 0 .. 1
      /\ v \in Seq({path(e) : e \in S}) /\ Len(v) = n
      /\ v[k] = path(d)
      /\ \A j \in 1 .. k - 1 : v[j] \in first
  <2>1. u \in Seq({preferred}) /\ Len(u) \in 0 .. 1
    <3>1. u \in {<<preferred>>, <<>>}
      OBVIOUS
    <3>2. /\ <<preferred>> \in Seq({preferred}) /\ Len(<<preferred>>) = 1
          /\ <<>> \in Seq({preferred}) /\ Len(<<>>) = 0
      OBVIOUS
    <3> HIDE DEF u
    <3>3. u \in Seq({preferred}) /\ (Len(u) = 0 \/ Len(u) = 1)
      BY <3>1, <3>2, Zenon
    <3> QED
      BY <3>3
  <2>2. \A j \in 1 .. n : v[j] = path(order[j])
    BY <1>4
  <2>3. v \in [1 .. n -> {path(e) : e \in S}]
    BY <1>4, <2>2
  <2> HIDE DEF v, first, path
  <2>4. \A j \in 1 .. k - 1 : v[j] \in first
    <3> SUFFICES ASSUME NEW j \in 1 .. k - 1 PROVE v[j] \in first
      OBVIOUS
    <3>1. j \in 1 .. n /\ order[j] \in S
      BY <1>4
    <3> QED
      BY <3>1, <2>2, <1>3, <1>5
  <2> QED
    BY <2>1, <2>2, <2>3, <2>4, <1>4, <1>5
<1> HIDE DEF u, v, path, first, ranked
<1> DEFINE A == {preferred} \cup {path(e) : e \in S}
           m == Len(u)
<1>7. u \in Seq(A) /\ v \in Seq(A)
  <2>1. {preferred} \subseteq A /\ {path(e) : e \in S} \subseteq A
    OBVIOUS
  <2> HIDE DEF A
  <2> QED
    BY <1>6, <2>1
<1> HIDE DEF A
<1>8. /\ DOMAIN ranked = 1 .. m + n
      /\ \A j \in 1 .. m + n : ranked[j] = IF j <= m THEN u[j] ELSE v[j - m]
  BY <1>1, <1>6, <1>7
<1>9. m + k \in DOMAIN ranked /\ ranked[m + k] = path(d)
  BY <1>4, <1>6, <1>8
<1>10. ASSUME NEW j \in 1 .. (m + k) - 1
       PROVE  ranked[j] \in first
  <2>0. m \in Nat /\ j \in 1 .. m + n
    BY <1>4, <1>6
  <2>1. CASE j <= m
    <3>1. u[j] = preferred
      BY <1>6, <2>0, <2>1
    <3> QED
      BY <2>0, <2>1, <3>1, <1>8 DEF first
  <2>2. CASE j > m
    <3>1. j - m \in 1 .. k - 1
      BY <2>0, <2>2
    <3> QED
      BY <2>0, <2>2, <3>1, <1>6, <1>8
  <2> QED
    BY <2>0, <2>1, <2>2
<1>11. \E i \in DOMAIN ranked : ranked[i] = path(d) /\ \A j \in 1 .. i - 1 : ranked[j] \in first
  BY <1>9, <1>10
<1> QED
  BY <1>11, Zenon DEF ranked, path, first

\* The box comes before any port that carries no known identifier, but the one the
\* operator chose: enumerate_ports of each system and rank_candidates.
THEOREM TriedFirst ==
    ASSUME BoxesAreKnown
    PROVE  Spec => []BoxIsTriedFirst
<1>1. WiredInv => BoxIsTriedFirst
  <2> SUFFICES ASSUME WiredInv, NEW d \in plugged \cap Boxes
      PROVE  LET ranked == Ranked(os, plugged, Chosen, {})
                 known == {e \in plugged : Ids(os, e) \in KnownIds}
             IN  \E k \in DOMAIN ranked :
                   /\ ranked[k] = About[d].path[os]
                   /\ \A j \in 1 .. k - 1 :
                        ranked[j] \in {Chosen} \cup {About[e].path[os] : e \in known}
    BY Zenon DEF BoxIsTriedFirst, PathOf
  <2>1. os \in Running /\ os \in Systems /\ plugged \in SUBSET Devices /\ Apart(os, plugged)
    BY SerialPathConstants DEF WiredInv, Wired
  <2>2. Ids(os, d) \in KnownIds
    BY <2>1, KnownIdIsFound
  <2>3. d \in Listed(os, {d})
    BY <2>1 DEF BoxesAreKnown
  <2>4. d \in Listed(os, plugged)
    BY <2>1, <2>3, CandidatesAreListed
  <2> QED
    BY <2>1, <2>2, <2>4, KnownIsEarly, Zenon
<1> QED
  BY <1>1, WiredInit, WiredStep, PTL DEF Spec

-----------------------------------------------------------------------------
(* Sequences that are read from the left.  A reader is a function f from what  *)
(* it has made and the next element to what it makes then, and a run is what   *)
(* it has made after each element.                                             *)

IsRun(f, a, u, t) ==
    /\ t[0] = a
    /\ \A k \in 1 .. Len(u) : t[k] = f[<<t[k - 1], u[k]>>]

\* Reading can go on to the end.
LEMMA RunExists ==
    ASSUME NEW S, NEW B, NEW f \in [S \X B -> S], NEW a \in S, NEW u \in Seq(B)
    PROVE  \E t \in [0 .. Len(u) -> S] : IsRun(f, a, u, t)
<1> DEFINE n == Len(u)
           P(k) == \E t \in [0 .. k -> S] :
                      t[0] = a /\ \A i \in 1 .. k : t[i] = f[<<t[i - 1], u[i]>>]
           T == {k \in 0 .. n : P(k)}
<1>1. P(0)
  <2> DEFINE t == [i \in 0 .. 0 |-> a]
  <2>1. t \in [0 .. 0 -> S] /\ t[0] = a
    OBVIOUS
  <2> HIDE DEF t
  <2> QED
    BY <2>1
<1>2. n \in Nat /\ \A i \in 1 .. n : u[i] \in B
  OBVIOUS
<1> HIDE DEF n
<1>3. ASSUME NEW k \in 1 .. n, P(k - 1) PROVE P(k)
  <2>1. PICK t \in [0 .. k - 1 -> S] :
          t[0] = a /\ \A i \in 1 .. k - 1 : t[i] = f[<<t[i - 1], u[i]>>]
    BY <1>3
  <2> DEFINE r == [i \in 0 .. k |-> IF i = k THEN f[<<t[k - 1], u[k]>>] ELSE t[i]]
  <2>2. k \in Nat /\ k - 1 \in 0 .. k - 1 /\ u[k] \in B
    BY <1>2
  <2>3. \A i \in 0 .. k : i # k => i \in 0 .. k - 1
    BY <2>2
  <2>4. r \in [0 .. k -> S]
    BY <2>2, <2>3
  <2>5. r[0] = a /\ \A i \in 1 .. k : r[i] = f[<<r[i - 1], u[i]>>]
    <3>1. \A i \in 1 .. k : i - 1 \in 0 .. k /\ i - 1 # k /\ i \in 0 .. k /\ (i = k \/ i \in 1 .. k - 1)
      BY <2>2
    <3>2. 0 \in 0 .. k /\ 0 # k
      BY <2>2
    <3> QED
      BY <2>1, <3>1, <3>2
  <2> HIDE DEF r
  <2> QED
    BY <2>4, <2>5
<1> HIDE DEF P
<1>4. 0 .. n \subseteq T
  <2>1. 0 \in T /\ \A k \in 1 .. n : k - 1 \in T => k \in T
    BY <1>1, <1>2, <1>3
  <2> HIDE DEF T
  <2> QED
    BY <1>2, <2>1, StepByStep
<1>5. P(n)
  BY <1>2, <1>4
<1> QED
  BY <1>5 DEF P, n, IsRun

\* The function the folds of the community modules recur on, over the places of u.
Folds(f, a, u, D, g) ==
    g = [s \in SUBSET D |-> IF s = {} THEN a ELSE f[<<g[s \ {Max(s)}], u[Max(s)]>>]]

\* There is one, for any number of places: one for n of them comes of one for n - 1.
LEMMA FoldExists ==
    ASSUME NEW S, NEW B, NEW f \in [S \X B -> S], NEW a \in S, NEW u \in Seq(B)
    PROVE  \E g \in [SUBSET (1 .. Len(u)) -> S] : Folds(f, a, u, 1 .. Len(u), g)
<1> DEFINE n == Len(u)
           P(k) == \E g \in [SUBSET (1 .. k) -> S] : Folds(f, a, u, 1 .. k, g)
           T == {k \in 0 .. n : P(k)}
<1>1. P(0)
  <2> DEFINE g == [s \in SUBSET (1 .. 0) |-> a]
  <2>1. \A s \in SUBSET (1 .. 0) : s = {}
    OBVIOUS
  <2>2. Folds(f, a, u, 1 .. 0, g)
    BY <2>1 DEF Folds
  <2>3. g \in [SUBSET (1 .. 0) -> S]
    OBVIOUS
  <2> QED
    BY <2>2, <2>3
<1>2. n \in Nat /\ \A i \in 1 .. n : u[i] \in B
  OBVIOUS
<1> HIDE DEF n
<1>3. ASSUME NEW k \in 1 .. n, P(k - 1) PROVE P(k)
  <2>0. k \in Nat \ {0} /\ u[k] \in B
    BY <1>2
  <2>1. PICK g \in [SUBSET (1 .. k - 1) -> S] : Folds(f, a, u, 1 .. k - 1, g)
    BY <1>3
  <2> DEFINE h == [s \in SUBSET (1 .. k) |->
                     IF k \in s THEN f[<<g[s \ {k}], u[k]>>] ELSE g[s]]
  <2>2. \A s \in SUBSET (1 .. k - 1) : s \in SUBSET (1 .. k) /\ k \notin s
    BY <2>0
  <2>3. \A s \in SUBSET (1 .. k) : s \ {k} \in SUBSET (1 .. k - 1)
    BY <2>0, IntervalWithoutLast
  <2>4. \A s \in SUBSET (1 .. k - 1) : h[s] = g[s]
    BY <2>2
  <2>5. h \in [SUBSET (1 .. k) -> S]
    <3>1. ASSUME NEW s \in SUBSET (1 .. k)
          PROVE  (IF k \in s THEN f[<<g[s \ {k}], u[k]>>] ELSE g[s]) \in S
      <4>1. CASE k \in s
        BY <2>0, <2>3, <4>1
      <4>2. CASE k \notin s
        <5>1. s \ {k} = s
          BY <4>2
        <5> QED
          BY <2>3, <4>2, <5>1
      <4> QED
        BY <4>1, <4>2
    <3> QED
      BY <3>1
  <2>6. ASSUME NEW s \in SUBSET (1 .. k)
        PROVE  h[s] = IF s = {} THEN a ELSE f[<<h[s \ {Max(s)}], u[Max(s)]>>]
    <3>1. CASE k \in s
      <4>1. Max(s) = k
        <5>1. \A y \in s : k >= y
          BY <2>0
        <5>2. \A x \in s : (\A y \in s : x >= y) => x = k
          BY <2>0, <3>1
        <5> QED
          BY <3>1, <5>1, <5>2 DEF Max
      <4>2. h[s] = f[<<g[s \ {k}], u[k]>>]
        BY <3>1
      <4>3. h[s \ {k}] = g[s \ {k}]
        BY <2>3, <2>4
      <4> QED
        BY <3>1, <4>1, <4>2, <4>3
    <3>2. CASE k \notin s
      <4>1. s \in SUBSET (1 .. k - 1) /\ s \ {Max(s)} \in SUBSET (1 .. k - 1)
        <5>1. s \ {k} = s
          BY <3>2
        <5> QED
          BY <2>3, <5>1
      <4>2. h[s] = g[s] /\ h[s \ {Max(s)}] = g[s \ {Max(s)}]
        BY <2>4, <4>1
      <4> HIDE DEF h
      <4>3. g[s] = IF s = {} THEN a ELSE f[<<g[s \ {Max(s)}], u[Max(s)]>>]
        <5> DEFINE G(r) == IF r = {} THEN a ELSE f[<<g[r \ {Max(r)}], u[Max(r)]>>]
        <5>1. g = [r \in SUBSET (1 .. k - 1) |-> G(r)]
          BY <2>1, Zenon DEF Folds
        <5> HIDE DEF G
        <5>2. g[s] = G(s)
          BY <4>1, <5>1
        <5> QED
          BY <5>2 DEF G
      <4> QED
        BY <4>2, <4>3
    <3> QED
      BY <3>1, <3>2
  <2> HIDE DEF h
  <2>7. Folds(f, a, u, 1 .. k, h)
    BY <2>5, <2>6 DEF Folds
  <2> QED
    BY <2>5, <2>7
<1> HIDE DEF P
<1>4. 0 .. n \subseteq T
  <2>1. 0 \in T /\ \A k \in 1 .. n : k - 1 \in T => k \in T
    BY <1>1, <1>2, <1>3
  <2> HIDE DEF T
  <2> QED
    BY <1>2, <2>1, StepByStep
<1>5. P(n)
  BY <1>2, <1>4
<1> QED
  BY <1>5 DEF P, n

\* The largest of some of the first numbers is one of them.
LEMMA LargestIsIn ==
    ASSUME NEW n \in Nat, NEW s \in SUBSET (1 .. n), s # {}
    PROVE  Max(s) \in s
<1> DEFINE T == {n - x : x \in s}
<1>0. \A x \in s : x \in Nat /\ n - x \in Nat
  <2>1. \A x \in 1 .. n : x \in Nat /\ n - x \in Nat
    OBVIOUS
  <2> QED
    BY <2>1
<1>1. T \in SUBSET Nat /\ T # {}
  BY <1>0
<1>2. PICK m \in T : \A k \in T : m <= k
  <2> HIDE DEF T
  <2> QED
    BY <1>1, LeastNumber
<1>3. PICK x \in s : m = n - x
  OBVIOUS
<1>4. \A y \in s : x >= y
  <2> SUFFICES ASSUME NEW y \in s PROVE x >= y
    OBVIOUS
  <2>1. m <= n - y
    BY <1>2
  <2>2. x \in Int /\ y \in Int
    BY <1>0
  <2> QED
    BY <1>3, <2>1, <2>2
<1> QED
  BY <1>4 DEF Max

\* The elements of u and then those of v.
Joined(w, u, v) ==
    /\ Len(w) = Len(u) + Len(v)
    /\ \A k \in 1 .. Len(u) + Len(v) : w[k] = IF k <= Len(u) THEN u[k] ELSE v[k - Len(u)]

\* What comes behind the second comes behind both.
Behind(u, v, c) == Append(u \o v, c) = u \o Append(v, c)

\* Two sequences, one behind the other.
LEMMA JoinedBehind ==
    ASSUME NEW S, NEW u \in Seq(S), NEW v \in Seq(S), NEW c \in S
    PROVE  /\ u \o v \in Seq(S)
           /\ Joined(u \o v, u, v)
           /\ Behind(u, v, c)
  BY DEF Joined, Behind

\* A beginning is the one before it and one element.
Grows(u, k) == SubSeq(u, 1, k) = Append(SubSeq(u, 1, k - 1), u[k])

\* A beginning, taken one element further.
LEMMA BeginningGrows ==
    ASSUME NEW S, NEW u \in Seq(S), NEW k \in 1 .. Len(u)
    PROVE  /\ SubSeq(u, 1, k - 1) \in Seq(S)
           /\ Len(SubSeq(u, 1, k - 1)) = k - 1
           /\ Grows(u, k)
  BY DEF Grows

\* A run over u and one over v from where it ends are a run over both.
LEMMA RunsJoin ==
    ASSUME NEW S, NEW B, NEW f, NEW a, NEW u \in Seq(B), NEW v \in Seq(B),
           NEW w, Joined(w, u, v),
           NEW t \in [0 .. Len(u) -> S], IsRun(f, a, u, t),
           NEW r \in [0 .. Len(v) -> S], IsRun(f, t[Len(u)], v, r)
    PROVE  \E q \in [0 .. Len(w) -> S] : IsRun(f, a, w, q) /\ q[Len(w)] = r[Len(v)]
<1> DEFINE m == Len(u)
           n == Len(v)
           q == [k \in 0 .. m + n |-> IF k <= m THEN t[k] ELSE r[k - m]]
<1>1. /\ m \in Nat /\ n \in Nat /\ Len(w) = m + n
      /\ \A k \in 1 .. m + n : w[k] = IF k <= m THEN u[k] ELSE v[k - m]
  BY DEF Joined
<1>2. /\ t[0] = a /\ \A k \in 1 .. m : t[k] = f[<<t[k - 1], u[k]>>]
      /\ r[0] = t[m] /\ \A k \in 1 .. n : r[k] = f[<<r[k - 1], v[k]>>]
  BY DEF IsRun
<1> HIDE DEF m, n
<1>3. q \in [0 .. m + n -> S]
  <2>1. ASSUME NEW k \in 0 .. m + n
        PROVE  (IF k <= m THEN t[k] ELSE r[k - m]) \in S
    <3>1. CASE k <= m
      BY <1>1, <3>1 DEF m
    <3>2. CASE ~(k <= m)
      <4>1. k - m \in 0 .. n
        BY <1>1, <3>2
      <4> QED
        BY <3>2, <4>1 DEF n
    <3> QED
      BY <3>1, <3>2
  <2> QED
    BY <2>1
<1>4. \A k \in 0 .. m + n : q[k] = IF k <= m THEN t[k] ELSE r[k - m]
  OBVIOUS
<1> HIDE DEF q
<1>5. ASSUME NEW k \in 1 .. m + n
      PROVE  q[k] = f[<<q[k - 1], w[k]>>]
  <2>1. CASE k <= m
    <3>1. k \in 1 .. m /\ k - 1 \in 0 .. m + n /\ k - 1 <= m
      BY <1>1, <2>1
    <3>2. q[k] = t[k] /\ q[k - 1] = t[k - 1] /\ w[k] = u[k]
      BY <1>1, <1>4, <2>1, <3>1
    <3>3. t[k] = f[<<t[k - 1], u[k]>>]
      BY <1>2, <3>1
    <3> QED
      BY <3>2, <3>3
  <2>2. CASE k = m + 1
    <3>1. 1 \in 1 .. n /\ m \in 0 .. m + n /\ k - 1 = m /\ k - m = 1 /\ ~(k <= m) /\ 1 - 1 = 0
      <4>1. m \in Nat /\ n \in Nat /\ k \in Nat /\ k <= m + n
        BY <1>1
      <4> QED
        BY <2>2, <4>1
    <3>2. q[k] = r[1] /\ q[k - 1] = t[m] /\ w[k] = v[1]
      BY <1>1, <1>4, <3>1
    <3>3. r[1] = f[<<r[0], v[1]>>]
      BY <1>2, <3>1
    <3> QED
      BY <1>2, <3>2, <3>3
  <2>3. CASE k > m + 1
    <3>1. /\ k - m \in 1 .. n /\ k - 1 \in 0 .. m + n /\ ~(k - 1 <= m) /\ ~(k <= m)
          /\ (k - 1) - m = (k - m) - 1
      BY <1>1, <2>3
    <3>2. q[k] = r[k - m] /\ q[k - 1] = r[(k - m) - 1] /\ w[k] = v[k - m]
      BY <1>1, <1>4, <3>1
    <3>3. r[k - m] = f[<<r[(k - m) - 1], v[k - m]>>]
      BY <1>2, <3>1
    <3> QED
      BY <3>2, <3>3
  <2> QED
    BY <1>1, <2>1, <2>2, <2>3
<1>6. q[0] = a /\ q[m + n] = r[n]
  <2>1. 0 \in 0 .. m + n /\ 0 <= m /\ m + n \in 0 .. m + n /\ (m + n <= m => n = 0) /\ (m + n) - m = n
    BY <1>1
  <2> QED
    BY <1>1, <1>2, <1>4, <2>1
<1>7. IsRun(f, a, w, q)
  BY <1>1, <1>5, <1>6 DEF IsRun
<1>8. Len(w) = m + n
  BY <1>1
<1> QED
  BY <1>3, <1>6, <1>7, <1>8 DEF n

-----------------------------------------------------------------------------
(* Bytes. *)

Ends == {"\r", "\n"}

Bytes == STRING \cup Ends

Frames == {Parse(s) : s \in Seq(Bytes)}

Asm == [bytes : Seq(Bytes), overflowed : BOOLEAN, frames : Seq(Frames)]

FedF == [p \in Asm \X Bytes |-> Fed(p[1], p[2])]

\* A byte leaves the assembler one.
LEMMA FedType == FedF \in [Asm \X Bytes -> Asm]
<1> SUFFICES ASSUME NEW a \in Asm, NEW c \in Bytes PROVE Fed(a, c) \in Asm
  BY DEF FedF
<1>1. Ended(a) \in Asm
  <2>1. Parse(a.bytes) \in Frames
    BY DEF Frames, Asm
  <2>2. Append(a.frames, Parse(a.bytes)) \in Seq(Frames)
    BY <2>1 DEF Asm
  <2>0. \A b \in Seq(Bytes), o \in BOOLEAN, fs \in Seq(Frames) :
          /\ [a EXCEPT !.bytes = b, !.overflowed = o] \in Asm
          /\ [a EXCEPT !.bytes = b, !.frames = fs] \in Asm
    BY DEF Asm
  <2>3. <<>> \in Seq(Bytes) /\ FALSE \in BOOLEAN
    OBVIOUS
  <2>4. /\ [a EXCEPT !.bytes = <<>>, !.overflowed = FALSE] \in Asm
        /\ [a EXCEPT !.bytes = <<>>, !.frames = Append(a.frames, Parse(a.bytes))] \in Asm
    BY <2>0, <2>2, <2>3, Zenon
  <2> QED
    BY <2>4, Zenon DEF Ended
<1>2. Append(a.bytes, c) \in Seq(Bytes)
  BY DEF Asm
<1> QED
  BY <1>1, <1>2 DEF Fed, Asm

\* What feed makes of some bytes ends a run, and any run ends with it.
LEMMA FedIsRun ==
    ASSUME NEW a \in Asm, NEW u \in Seq(Bytes)
    PROVE  /\ \E t \in [0 .. Len(u) -> Asm] : IsRun(FedF, a, u, t)
           /\ \A t \in [0 .. Len(u) -> Asm] : IsRun(FedF, a, u, t) => FoldLeft(Fed, a, u) = t[Len(u)]
<1> DEFINE n == Len(u)
           F(g) == [s \in SUBSET DOMAIN u |->
                      IF s = {} THEN a ELSE Fed(g[s \ {Max(s)}], u[Max(s)])]
           it == CHOOSE g : g = F(g)
<1>1. FoldLeft(Fed, a, u) = it[DOMAIN u]
  BY Zenon DEF FoldLeft, MapThenFoldSet
<1>2. DOMAIN u = 1 .. n /\ n \in Nat /\ \A k \in 1 .. n : u[k] \in Bytes
  OBVIOUS
<1>3. PICK h \in [SUBSET (1 .. n) -> Asm] : Folds(FedF, a, u, 1 .. n, h)
  BY FedType, FoldExists
<1>4. \E t \in [0 .. n -> Asm] : IsRun(FedF, a, u, t)
  BY FedType, RunExists
<1>5. \A t : IsRun(FedF, a, u, t) => t[0] = a /\ \A k \in 1 .. n : t[k] = FedF[<<t[k - 1], u[k]>>]
  BY DEF IsRun
<1> HIDE DEF n
<1>6. h = F(h)
  <2> DEFINE G(s) == IF s = {} THEN a ELSE FedF[<<h[s \ {Max(s)}], u[Max(s)]>>]
             H(s) == IF s = {} THEN a ELSE Fed(h[s \ {Max(s)}], u[Max(s)])
  <2>1. ASSUME NEW s \in SUBSET (1 .. n)
        PROVE  G(s) = H(s)
    <3>1. CASE s # {}
      <4>1. u[Max(s)] \in Bytes
        BY <1>2, <3>1, LargestIsIn
      <4>2. h[s \ {Max(s)}] \in Asm
        OBVIOUS
      <4> QED
        BY <3>1, <4>1, <4>2 DEF FedF
    <3> QED
      BY <3>1
  <2>2. h = [s \in SUBSET (1 .. n) |-> G(s)]
    BY <1>3, Zenon DEF Folds
  <2> HIDE DEF G, H
  <2>3. h = [s \in SUBSET (1 .. n) |-> H(s)]
    BY <2>1, <2>2
  <2> QED
    BY <1>2, <2>3, Zenon DEF H
<1>7. it = F(it)
  <2> HIDE DEF F
  <2> QED
    BY <1>6
<1> HIDE DEF it
<1>8. \A s \in SUBSET (1 .. n) : it[s] = IF s = {} THEN a ELSE Fed(it[s \ {Max(s)}], u[Max(s)])
  BY <1>2, <1>7
<1>9. ASSUME NEW t \in [0 .. n -> Asm], IsRun(FedF, a, u, t)
      PROVE  FoldLeft(Fed, a, u) = t[n]
  <2> DEFINE T == {k \in 0 .. n : it[1 .. k] = t[k]}
  <2>1. it[1 .. 0] = t[0]
    <3>1. 1 .. 0 = {} /\ {} \in SUBSET (1 .. n)
      OBVIOUS
    <3> QED
      BY <1>5, <1>8, <1>9, <3>1
  <2>2. ASSUME NEW k \in 1 .. n, it[1 .. k - 1] = t[k - 1] PROVE it[1 .. k] = t[k]
    <3>1. k \in Nat \ {0} /\ 1 .. k \in SUBSET (1 .. n) /\ 1 .. k # {} /\ k - 1 \in 0 .. n
      <4>1. k \in Nat \ {0} /\ k \in 1 .. k /\ 1 .. k \subseteq 1 .. n /\ k - 1 \in 0 .. n
        BY <1>2
      <4> QED
        BY <4>1
    <3>2. Max(1 .. k) = k /\ (1 .. k) \ {k} = 1 .. k - 1
      BY <3>1, LargestOfInterval, IntervalWithoutLast
    <3>3. it[1 .. k] = Fed(it[1 .. k - 1], u[k])
      BY <1>8, <3>1, <3>2
    <3>4. t[k] = Fed(t[k - 1], u[k])
      <4>1. t[k] = FedF[<<t[k - 1], u[k]>>]
        BY <1>5, <1>9
      <4>2. t[k - 1] \in Asm /\ u[k] \in Bytes
        BY <1>2, <3>1
      <4> QED
        BY <4>1, <4>2 DEF FedF
    <3> QED
      BY <2>2, <3>3, <3>4
  <2>3. 0 .. n \subseteq T
    <3>1. 0 \in T /\ \A k \in 1 .. n : k - 1 \in T => k \in T
      BY <1>2, <2>1, <2>2
    <3> HIDE DEF T
    <3> QED
      BY <1>2, <3>1, StepByStep
  <2>4. n \in T
    BY <1>2, <2>3
  <2> QED
    BY <1>1, <1>2, <2>4
<1> QED
  BY <1>4, <1>9 DEF n

\* Feed can stop anywhere and go on.
LEMMA FedJoins ==
    ASSUME NEW a \in Asm, NEW u \in Seq(Bytes), NEW v \in Seq(Bytes)
    PROVE  /\ FoldLeft(Fed, a, u) \in Asm
           /\ FoldLeft(Fed, a, u \o v) = FoldLeft(Fed, FoldLeft(Fed, a, u), v)
<1>1. PICK t \in [0 .. Len(u) -> Asm] : IsRun(FedF, a, u, t)
  BY FedIsRun
<1>2. FoldLeft(Fed, a, u) = t[Len(u)] /\ t[Len(u)] \in Asm
  <2>1. Len(u) \in 0 .. Len(u)
    OBVIOUS
  <2> QED
    BY <1>1, <2>1, FedIsRun
<1> DEFINE b == t[Len(u)]
<1>3. PICK r \in [0 .. Len(v) -> Asm] : IsRun(FedF, b, v, r)
  BY <1>2, FedIsRun
<1>4. FoldLeft(Fed, b, v) = r[Len(v)]
  BY <1>2, <1>3, FedIsRun
<1> DEFINE w == u \o v
<1>5. PICK q \in [0 .. Len(w) -> Asm] : IsRun(FedF, a, w, q) /\ q[Len(w)] = r[Len(v)]
  <2>1. IsRun(FedF, t[Len(u)], v, r)
    BY <1>3
  <2> HIDE DEF b
  <2>2. Joined(w, u, v)
    BY DEF Joined
  <2> HIDE DEF w
  <2> QED
    BY <1>1, <2>1, <2>2, RunsJoin
<1>6. w \in Seq(Bytes)
  OBVIOUS
<1>7. FoldLeft(Fed, a, w) = q[Len(w)]
  <2> HIDE DEF w
  <2> QED
    BY <1>5, <1>6, FedIsRun
<1> QED
  BY <1>2, <1>4, <1>5, <1>7

\* Nothing is made of nothing.
LEMMA FedNone ==
    ASSUME NEW a \in Asm
    PROVE  FoldLeft(Fed, a, <<>>) = a
<1>1. <<>> \in Seq(Bytes) /\ Len(<<>>) = 0
  OBVIOUS
<1>2. PICK t \in [0 .. 0 -> Asm] : IsRun(FedF, a, <<>>, t)
  BY <1>1, FedIsRun
<1>3. FoldLeft(Fed, a, <<>>) = t[0]
  BY <1>1, <1>2, FedIsRun
<1> QED
  BY <1>2, <1>3 DEF IsRun

Plain(u) == \A k \in 1 .. Len(u) : u[k] \notin Ends

\* Bytes that end no line make it longer, up to the buffer, and no frame.
LEMMA FedPlain ==
    ASSUME NEW a \in Asm, NEW u \in Seq(Bytes), Plain(u),
           MaxLine > 0, Len(a.bytes) <= MaxLine, a.overflowed => a.bytes # <<>>
    PROVE  LET b == FoldLeft(Fed, a, u) IN
           /\ b \in Asm /\ b.frames = a.frames
           /\ Len(b.bytes) <= MaxLine
           /\ b.overflowed => b.bytes # <<>>
           /\ b.overflowed <=> a.overflowed \/ Len(a.bytes \o u) > MaxLine
           /\ ~b.overflowed => b.bytes = a.bytes \o u
<1> DEFINE n == Len(u)
           m == Len(a.bytes)
<1>1. PICK t \in [0 .. n -> Asm] : IsRun(FedF, a, u, t)
  BY FedIsRun
<1>2. FoldLeft(Fed, a, u) = t[n]
  BY <1>1, FedIsRun
<1>3. t[0] = a /\ \A k \in 1 .. n : t[k] = FedF[<<t[k - 1], u[k]>>]
  BY <1>1 DEF IsRun
<1>4. a.bytes \in Seq(Bytes) /\ m \in Nat /\ n \in Nat /\ \A k \in 1 .. n : u[k] \in Bytes \ Ends
  <2>1. a.bytes \in Seq(Bytes)
    BY DEF Asm
  <2> QED
    BY <2>1 DEF Plain
<1>5. MaxLine \in Nat
  BY LineConstants
<1> DEFINE P(k) == /\ t[k].frames = a.frames
                   /\ Len(t[k].bytes) <= MaxLine
                   /\ t[k].overflowed => t[k].bytes # <<>>
                   /\ t[k].overflowed <=> a.overflowed \/ m + k > MaxLine
                   /\ ~t[k].overflowed => t[k].bytes = a.bytes \o SubSeq(u, 1, k)
           T == {k \in 0 .. n : P(k)}
<1>6. P(0)
  <2>1. SubSeq(u, 1, 0) = <<>> /\ a.bytes \o <<>> = a.bytes
    BY <1>4
  <2> QED
    BY <1>3, <1>4, <1>5, <2>1
<1>7. ASSUME NEW k \in 1 .. n, P(k - 1) PROVE P(k)
  <2> DEFINE x == t[k - 1]
             c == u[k]
  <2>1. x \in Asm /\ c \in Bytes /\ c \notin Ends /\ t[k] = Fed(x, c)
    <3>1. k - 1 \in 0 .. n
      BY <1>4
    <3> QED
      BY <1>3, <1>4, <3>1 DEF FedF
  <2>2. t[k] = IF Len(x.bytes) < MaxLine THEN [x EXCEPT !.bytes = Append(x.bytes, c)]
               ELSE [x EXCEPT !.overflowed = TRUE]
    BY <2>1 DEF Fed, Ends
  <2>3. x.bytes \in Seq(Bytes) /\ Len(x.bytes) \in Nat /\ x.overflowed \in BOOLEAN
    <3>1. x.bytes \in Seq(Bytes) /\ x.overflowed \in BOOLEAN
      BY <2>1 DEF Asm
    <3> HIDE DEF x
    <3> QED
      BY <3>1
  <2>4. SubSeq(u, 1, k) = Append(SubSeq(u, 1, k - 1), c) /\ SubSeq(u, 1, k - 1) \in Seq(Bytes)
        /\ Len(SubSeq(u, 1, k - 1)) = k - 1
    <3>1. SubSeq(u, 1, k - 1) \in Seq(Bytes) /\ Len(SubSeq(u, 1, k - 1)) = k - 1 /\ Grows(u, k)
      BY BeginningGrows
    <3> QED
      BY <3>1, Zenon DEF Grows
  <2>5. a.bytes \o SubSeq(u, 1, k) = Append(a.bytes \o SubSeq(u, 1, k - 1), c)
    <3>1. a.bytes \in Seq(Bytes) /\ SubSeq(u, 1, k - 1) \in Seq(Bytes) /\ c \in Bytes
      BY <1>4, <2>1, <2>4
    <3> HIDE DEF c
    <3>2. Behind(a.bytes, SubSeq(u, 1, k - 1), c)
      BY <3>1, JoinedBehind
    <3> QED
      BY <2>4, <3>2, Zenon DEF Behind
  <2>6. Len(a.bytes \o SubSeq(u, 1, k - 1)) = m + k - 1
    <3> DEFINE v == SubSeq(u, 1, k - 1)
    <3>1. Len(a.bytes \o v) = Len(a.bytes) + Len(v)
      <4> DEFINE ab == a.bytes
      <4>1. ab \in Seq(Bytes) /\ v \in Seq(Bytes)
        BY <1>4, <2>4
      <4> HIDE DEF ab, v
      <4>2. Len(ab \o v) = Len(ab) + Len(v)
        BY <4>1
      <4> QED
        BY <4>2 DEF ab
    <3> HIDE DEF v
    <3>2. Len(v) = k - 1
      BY <2>4 DEF v
    <3> QED
      BY <1>4, <3>1, <3>2 DEF v
  <2> HIDE DEF c
  <2>7. CASE Len(x.bytes) < MaxLine
    <3>1. t[k].bytes = Append(x.bytes, c) /\ t[k].frames = x.frames /\ t[k].overflowed = x.overflowed
      BY <2>1, <2>2, <2>7 DEF Asm
    <3>2. Len(t[k].bytes) = Len(x.bytes) + 1 /\ t[k].bytes # <<>>
      <4> DEFINE xb == x.bytes
      <4>0. xb \in Seq(Bytes) /\ c \in Bytes
        BY <2>1, <2>3
      <4> HIDE DEF x, xb
      <4>1. Len(Append(xb, c)) = Len(xb) + 1 /\ Append(xb, c) # <<>>
        BY <4>0
      <4> QED
        BY <3>1, <4>1 DEF xb
    <3>3. ~x.overflowed => x.bytes = a.bytes \o SubSeq(u, 1, k - 1) /\ Len(x.bytes) = m + k - 1
      BY <1>7, <2>6
    <3>4. x.overflowed <=> a.overflowed \/ m + (k - 1) > MaxLine
      BY <1>7
    <3>5. x.overflowed <=> a.overflowed \/ m + k > MaxLine
      <4>1. CASE x.overflowed
        BY <1>4, <1>5, <3>4, <4>1
      <4>2. CASE ~x.overflowed
        <5>1. m + k - 1 < MaxLine /\ m \in Nat /\ k \in Nat
          <6>1. Len(x.bytes) = m + k - 1
            BY <3>3, <4>2
          <6> HIDE DEF x, m
          <6> QED
            BY <1>4, <1>5, <2>7, <6>1
        <5>2. ~(m + k > MaxLine) /\ ~a.overflowed
          BY <1>5, <3>4, <4>2, <5>1
        <5> QED
          BY <4>2, <5>2
      <4> QED
        BY <4>1, <4>2
    <3>6. ~t[k].overflowed => t[k].bytes = a.bytes \o SubSeq(u, 1, k)
      BY <2>5, <3>1, <3>3
    <3>7. Len(t[k].bytes) <= MaxLine
      BY <1>5, <2>3, <2>7, <3>2
    <3> QED
      BY <1>7, <3>1, <3>2, <3>5, <3>6, <3>7
  <2>8. CASE ~(Len(x.bytes) < MaxLine)
    <3>1. t[k].bytes = x.bytes /\ t[k].frames = x.frames /\ t[k].overflowed
      BY <2>1, <2>2, <2>8 DEF Asm
    <3>2. x.bytes # <<>>
      <4>1. Len(x.bytes) # 0
        BY <2>8
      <4> HIDE DEF x
      <4> QED
        BY <2>3, <4>1
    <3>3. ~x.overflowed => Len(x.bytes) = m + k - 1
      BY <1>7, <2>6
    <3>4. x.overflowed <=> a.overflowed \/ m + (k - 1) > MaxLine
      BY <1>7
    <3>5. a.overflowed \/ m + k > MaxLine
      BY <1>4, <1>5, <2>3, <2>8, <3>3, <3>4
    <3> QED
      BY <1>7, <3>1, <3>2, <3>5
  <2> QED
    BY <2>7, <2>8
<1> HIDE DEF P
<1>8. 0 .. n \subseteq T
  <2>1. 0 \in T /\ \A k \in 1 .. n : k - 1 \in T => k \in T
    BY <1>4, <1>6, <1>7
  <2> HIDE DEF T
  <2> QED
    BY <1>4, <2>1, StepByStep
<1>9. P(n)
  BY <1>4, <1>8
<1>10. SubSeq(u, 1, n) = u /\ Len(a.bytes \o u) = m + n
  BY <1>4
<1>11. t[n] \in Asm
  BY <1>4
<1> QED
  BY <1>2, <1>9, <1>10, <1>11, Zenon DEF P

\* Ends of lines end the line that is begun, and no other.
LEMMA FedEnds ==
    ASSUME NEW a \in Asm, NEW u \in Seq(Bytes), u # <<>>,
           \A k \in 1 .. Len(u) : u[k] \in Ends
    PROVE  FoldLeft(Fed, a, u) = IF a.bytes = <<>> THEN a ELSE Ended(a)
<1> DEFINE n == Len(u)
           b == IF a.bytes = <<>> THEN a ELSE Ended(a)
<1>1. PICK t \in [0 .. n -> Asm] : IsRun(FedF, a, u, t)
  BY FedIsRun
<1>2. FoldLeft(Fed, a, u) = t[n]
  BY <1>1, FedIsRun
<1>3. t[0] = a /\ \A k \in 1 .. n : t[k] = FedF[<<t[k - 1], u[k]>>]
  BY <1>1 DEF IsRun
<1>4. n \in Nat /\ n # 0 /\ \A k \in 1 .. n : u[k] \in Bytes /\ u[k] \in Ends
  OBVIOUS
<1>5. \A k \in 1 .. n : t[k] = Fed(t[k - 1], u[k])
  <2> SUFFICES ASSUME NEW k \in 1 .. n PROVE t[k] = Fed(t[k - 1], u[k])
    OBVIOUS
  <2>1. t[k - 1] \in Asm
    <3>1. k - 1 \in 0 .. n
      BY <1>4
    <3> QED
      BY <3>1
  <2> QED
    BY <1>3, <1>4, <2>1 DEF FedF
<1>6. b.bytes = <<>>
  BY DEF Ended, Asm
<1> HIDE DEF n, b
<1> DEFINE T == {k \in 0 .. n - 1 : t[k + 1] = b}
<1>7. t[1] = b
  <2>1. 1 \in 1 .. n /\ 1 - 1 = 0
    BY <1>4
  <2>2. t[1] = Fed(a, u[1]) /\ u[1] \in Ends
    BY <1>3, <1>4, <1>5, <2>1
  <2> QED
    BY <2>2 DEF Fed, Ends, b
<1>8. ASSUME NEW k \in 1 .. n - 1, t[k] = b PROVE t[k + 1] = b
  <2>1. k + 1 \in 1 .. n /\ (k + 1) - 1 = k
    BY <1>4
  <2>2. t[k + 1] = Fed(b, u[k + 1]) /\ u[k + 1] \in Ends
    BY <1>4, <1>5, <1>8, <2>1
  <2> QED
    BY <1>6, <2>2 DEF Fed, Ends
<1>9. 0 .. n - 1 \subseteq T
  <2>1. n - 1 \in Nat
    BY <1>4
  <2>2. 0 \in T
    BY <1>4, <1>7
  <2>3. \A k \in 1 .. n - 1 : k - 1 \in T => k \in T
    BY <1>4, <1>8
  <2> HIDE DEF T
  <2> QED
    BY <2>1, <2>2, <2>3, StepByStep
<1>10. t[n] = b
  <2>1. n - 1 \in T
    BY <1>4, <1>9
  <2> QED
    BY <1>4, <2>1
<1> QED
  BY <1>2, <1>10 DEF n, b

\* The frames made before change nothing but that they come first.
LEMMA FedFrames ==
    ASSUME NEW a \in Asm, NEW fs \in Seq(Frames), NEW u \in Seq(Bytes), a.frames = <<>>
    PROVE  LET b == FoldLeft(Fed, a, u) IN
           FoldLeft(Fed, [a EXCEPT !.frames = fs], u) = [b EXCEPT !.frames = fs \o b.frames]
<1> DEFINE n == Len(u)
           a2 == [a EXCEPT !.frames = fs]
<1>1. PICK t \in [0 .. n -> Asm] : IsRun(FedF, a, u, t)
  BY FedIsRun
<1>2. FoldLeft(Fed, a, u) = t[n]
  BY <1>1, FedIsRun
<1>3. t[0] = a /\ \A k \in 1 .. n : t[k] = FedF[<<t[k - 1], u[k]>>]
  BY <1>1 DEF IsRun
<1>4. n \in Nat /\ a2 \in Asm /\ \A k \in 1 .. n : u[k] \in Bytes
  BY DEF Asm
<1> DEFINE after(x) == [x EXCEPT !.frames = fs \o x.frames]
           r == [k \in 0 .. n |-> after(t[k])]
<1>5. ASSUME NEW x \in Asm
      PROVE  /\ after(x) \in Asm
             /\ after(x).bytes = x.bytes /\ after(x).overflowed = x.overflowed
             /\ after(x).frames = fs \o x.frames
  <2>1. x.frames \in Seq(Frames)
    BY DEF Asm
  <2>2. fs \o x.frames \in Seq(Frames)
    BY <2>1
  <2>3. \A gs \in Seq(Frames) : LET y == [x EXCEPT !.frames = gs] IN
          y \in Asm /\ y.bytes = x.bytes /\ y.overflowed = x.overflowed /\ y.frames = gs
    BY DEF Asm
  <2> QED
    BY <2>2, <2>3, Zenon
<1>6. ASSUME NEW x \in Asm, NEW c \in Bytes
      PROVE  Fed(after(x), c) = after(Fed(x, c))
  <2>1. CASE c \notin Ends /\ Len(x.bytes) < MaxLine
    <3>1. Fed(x, c) = [x EXCEPT !.bytes = Append(x.bytes, c)]
      BY <2>1 DEF Fed, Ends
    <3>2. Fed(after(x), c) = [after(x) EXCEPT !.bytes = Append(x.bytes, c)]
      BY <1>5, <2>1, Zenon DEF Fed, Ends
    <3> QED
      BY <3>1, <3>2 DEF Asm
  <2>2. CASE c \notin Ends /\ ~(Len(x.bytes) < MaxLine)
    <3>1. Fed(x, c) = [x EXCEPT !.overflowed = TRUE]
      BY <2>2 DEF Fed, Ends
    <3>2. Fed(after(x), c) = [after(x) EXCEPT !.overflowed = TRUE]
      BY <1>5, <2>2, Zenon DEF Fed, Ends
    <3> QED
      BY <3>1, <3>2 DEF Asm
  <2>3. CASE c \in Ends /\ x.bytes = <<>>
    BY <1>5, <2>3, Zenon DEF Fed, Ends
  <2>4. CASE c \in Ends /\ x.bytes # <<>> /\ x.overflowed
    <3>1. Fed(x, c) = [x EXCEPT !.bytes = <<>>, !.overflowed = FALSE]
      BY <2>4 DEF Fed, Ended, Ends
    <3>2. Fed(after(x), c) = [after(x) EXCEPT !.bytes = <<>>, !.overflowed = FALSE]
      BY <1>5, <2>4, Zenon DEF Fed, Ended, Ends
    <3> QED
      BY <3>1, <3>2 DEF Asm
  <2>5. CASE c \in Ends /\ x.bytes # <<>> /\ ~x.overflowed
    <3> DEFINE f == Parse(x.bytes)
    <3>1. Fed(x, c) = [x EXCEPT !.bytes = <<>>, !.frames = Append(x.frames, f)]
      BY <2>5 DEF Fed, Ended, Ends
    <3>2. Fed(after(x), c) = [after(x) EXCEPT !.bytes = <<>>, !.frames = Append(fs \o x.frames, f)]
      BY <1>5, <2>5, Zenon DEF Fed, Ended, Ends
    <3>3. Append(fs \o x.frames, f) = fs \o Append(x.frames, f)
      <4>1. x.frames \in Seq(Frames) /\ f \in Frames
        BY DEF Asm, Frames
      <4> HIDE DEF f
      <4> QED
        <5>1. Behind(fs, x.frames, f)
          BY <4>1, JoinedBehind
        <5> QED
          BY <5>1, Zenon DEF Behind
    <3> HIDE DEF f
    <3> QED
      BY <3>1, <3>2, <3>3 DEF Asm
  <2> QED
    BY <2>1, <2>2, <2>3, <2>4, <2>5
<1>7. r \in [0 .. n -> Asm]
  BY <1>5
<1>8. after(a) = a2
  <2>1. fs \o <<>> = fs
    OBVIOUS
  <2> QED
    BY <2>1
<1> HIDE DEF after, n, a2
<1>9. IsRun(FedF, a2, u, r)
  <2>1. r[0] = a2
    BY <1>3, <1>4, <1>8
  <2>2. ASSUME NEW k \in 1 .. n
        PROVE  r[k] = FedF[<<r[k - 1], u[k]>>]
    <3>1. k \in 0 .. n /\ k - 1 \in 0 .. n /\ u[k] \in Bytes
      BY <1>4
    <3>2. t[k] = Fed(t[k - 1], u[k]) /\ t[k - 1] \in Asm
      BY <1>3, <3>1 DEF FedF
    <3>3. r[k] = after(t[k]) /\ r[k - 1] = after(t[k - 1]) /\ r[k - 1] \in Asm
      BY <1>7, <3>1
    <3>4. r[k] = Fed(r[k - 1], u[k])
      BY <1>6, <3>1, <3>2, <3>3
    <3> HIDE DEF r
    <3> QED
      BY <3>1, <3>3, <3>4 DEF FedF
  <2> QED
    BY <2>1, <2>2 DEF IsRun, n
<1>10. FoldLeft(Fed, a2, u) = r[n]
  BY <1>4, <1>7, <1>9, FedIsRun DEF n
<1>11. r[n] = after(t[n])
  BY <1>4
<1> QED
  BY <1>2, <1>10, <1>11, Zenon DEF after, a2

-----------------------------------------------------------------------------
(* Accounts. *)

Acc == [owed : Seq(Frames), spoilt : Int, forged : BOOLEAN]

SettledF == [p \in Acc \X Frames |-> Settled(p[1], p[2])]

FirstPlace(owed, f) == SelectInSeq(owed, LAMBDA g : g = f)

\* The first of what is owed that is the frame, if there is one.
LEMMA FirstOwed ==
    ASSUME NEW owed \in Seq(Frames), NEW f
    PROVE  LET n == FirstPlace(owed, f) IN
           /\ n \in 0 .. Len(owed)
           /\ n # 0 => owed[n] = f
           /\ \A i \in 1 .. Len(owed) : (n = 0 \/ i < n) => owed[i] # f
<1> DEFINE T == {i \in 1 .. Len(owed) : owed[i] = f}
           n == FirstPlace(owed, f)
<1>1. n = IF T # {} THEN Min(T) ELSE 0
  BY Zenon DEF FirstPlace, SelectInSeq
<1> HIDE DEF n
<1>2. ASSUME T # {}
      PROVE  Min(T) \in T /\ \A i \in T : Min(T) <= i
  <2>1. T \in SUBSET Nat
    OBVIOUS
  <2>2. PICK k \in T : \A i \in T : k <= i
    <3> HIDE DEF T
    <3> QED
      BY <1>2, <2>1, LeastNumber
  <2> HIDE DEF T
  <2>3. Min(T) = k
    BY <2>1, <2>2, FirstIsFound
  <2> QED
    BY <2>2, <2>3
<1>3. CASE T = {}
  <2>1. n = 0 /\ \A i \in 1 .. Len(owed) : owed[i] # f
    BY <1>1, <1>3
  <2>2. 0 \in 0 .. Len(owed)
    OBVIOUS
  <2> QED
    BY <2>1, <2>2, Zenon DEF n
<1>4. CASE T # {}
  <2>1. n \in T /\ \A i \in T : n <= i
    BY <1>1, <1>2, <1>4
  <2>2. \A i \in 1 .. Len(owed) : i < n => owed[i] # f
    BY <2>1
  <2>3. n \in 0 .. Len(owed) /\ n # 0 /\ owed[n] = f
    BY <2>1
  <2> QED
    BY <2>2, <2>3, Zenon DEF n
<1> QED
  BY <1>3, <1>4

\* A frame leaves the account one.
LEMMA SettledType == SettledF \in [Acc \X Frames -> Acc]
<1> SUFFICES ASSUME NEW a \in Acc, NEW f \in Frames PROVE Settled(a, f) \in Acc
  BY DEF SettledF
<1> DEFINE n == FirstPlace(a.owed, f)
<1>1. a.owed \in Seq(Frames) /\ a.spoilt \in Int
  BY DEF Acc
<1>2. n \in 0 .. Len(a.owed)
  BY <1>1, FirstOwed
<1>3. Settled(a, f) = IF f[1] \notin Measures THEN a
                      ELSE IF n = 0 THEN [a EXCEPT !.forged = TRUE]
                      ELSE [a EXCEPT !.owed = Rest(a.owed, n), !.spoilt = a.spoilt - (n - 1)]
  BY Zenon DEF Settled, FirstPlace
<1> HIDE DEF n
<1>4. Rest(a.owed, n) \in Seq(Frames)
  BY <1>1, <1>2 DEF Rest
<1>5. a.spoilt - (n - 1) \in Int
  BY <1>1, <1>2
<1> QED
  BY <1>3, <1>4, <1>5 DEF Acc

\* What some frames settle ends a run, and any run ends with it.
LEMMA SettledIsRun ==
    ASSUME NEW a \in Acc, NEW u \in Seq(Frames)
    PROVE  /\ \E t \in [0 .. Len(u) -> Acc] : IsRun(SettledF, a, u, t)
           /\ \A t \in [0 .. Len(u) -> Acc] : IsRun(SettledF, a, u, t) => FoldLeft(Settled, a, u) = t[Len(u)]
<1> DEFINE n == Len(u)
           F(g) == [s \in SUBSET DOMAIN u |->
                      IF s = {} THEN a ELSE Settled(g[s \ {Max(s)}], u[Max(s)])]
           it == CHOOSE g : g = F(g)
<1>1. FoldLeft(Settled, a, u) = it[DOMAIN u]
  BY Zenon DEF FoldLeft, MapThenFoldSet
<1>2. DOMAIN u = 1 .. n /\ n \in Nat /\ \A k \in 1 .. n : u[k] \in Frames
  OBVIOUS
<1>3. PICK h \in [SUBSET (1 .. n) -> Acc] : Folds(SettledF, a, u, 1 .. n, h)
  BY SettledType, FoldExists
<1>4. \E t \in [0 .. n -> Acc] : IsRun(SettledF, a, u, t)
  BY SettledType, RunExists
<1>5. \A t : IsRun(SettledF, a, u, t) => t[0] = a /\ \A k \in 1 .. n : t[k] = SettledF[<<t[k - 1], u[k]>>]
  BY DEF IsRun
<1> HIDE DEF n
<1>6. h = F(h)
  <2> DEFINE G(s) == IF s = {} THEN a ELSE SettledF[<<h[s \ {Max(s)}], u[Max(s)]>>]
             H(s) == IF s = {} THEN a ELSE Settled(h[s \ {Max(s)}], u[Max(s)])
  <2>1. ASSUME NEW s \in SUBSET (1 .. n)
        PROVE  G(s) = H(s)
    <3>1. CASE s # {}
      <4>1. u[Max(s)] \in Frames
        BY <1>2, <3>1, LargestIsIn
      <4>2. h[s \ {Max(s)}] \in Acc
        OBVIOUS
      <4> QED
        BY <3>1, <4>1, <4>2 DEF SettledF
    <3> QED
      BY <3>1
  <2>2. h = [s \in SUBSET (1 .. n) |-> G(s)]
    BY <1>3, Zenon DEF Folds
  <2> HIDE DEF G, H
  <2>3. h = [s \in SUBSET (1 .. n) |-> H(s)]
    BY <2>1, <2>2
  <2> QED
    BY <1>2, <2>3, Zenon DEF H
<1>7. it = F(it)
  <2> HIDE DEF F
  <2> QED
    BY <1>6
<1> HIDE DEF it
<1>8. \A s \in SUBSET (1 .. n) : it[s] = IF s = {} THEN a ELSE Settled(it[s \ {Max(s)}], u[Max(s)])
  BY <1>2, <1>7
<1>9. ASSUME NEW t \in [0 .. n -> Acc], IsRun(SettledF, a, u, t)
      PROVE  FoldLeft(Settled, a, u) = t[n]
  <2> DEFINE T == {k \in 0 .. n : it[1 .. k] = t[k]}
  <2>1. it[1 .. 0] = t[0]
    <3>1. 1 .. 0 = {} /\ {} \in SUBSET (1 .. n)
      OBVIOUS
    <3> QED
      BY <1>5, <1>8, <1>9, <3>1
  <2>2. ASSUME NEW k \in 1 .. n, it[1 .. k - 1] = t[k - 1] PROVE it[1 .. k] = t[k]
    <3>1. k \in Nat \ {0} /\ 1 .. k \in SUBSET (1 .. n) /\ 1 .. k # {} /\ k - 1 \in 0 .. n
      <4>1. k \in Nat \ {0} /\ k \in 1 .. k /\ 1 .. k \subseteq 1 .. n /\ k - 1 \in 0 .. n
        BY <1>2
      <4> QED
        BY <4>1
    <3>2. Max(1 .. k) = k /\ (1 .. k) \ {k} = 1 .. k - 1
      BY <3>1, LargestOfInterval, IntervalWithoutLast
    <3>3. it[1 .. k] = Settled(it[1 .. k - 1], u[k])
      BY <1>8, <3>1, <3>2
    <3>4. t[k] = Settled(t[k - 1], u[k])
      <4>1. t[k] = SettledF[<<t[k - 1], u[k]>>]
        BY <1>5, <1>9
      <4>2. t[k - 1] \in Acc /\ u[k] \in Frames
        BY <1>2, <3>1
      <4> QED
        BY <4>1, <4>2 DEF SettledF
    <3> QED
      BY <2>2, <3>3, <3>4
  <2>3. 0 .. n \subseteq T
    <3>1. 0 \in T /\ \A k \in 1 .. n : k - 1 \in T => k \in T
      BY <1>2, <2>1, <2>2
    <3> HIDE DEF T
    <3> QED
      BY <1>2, <3>1, StepByStep
  <2>4. n \in T
    BY <1>2, <2>3
  <2> QED
    BY <1>1, <1>2, <2>4
<1> QED
  BY <1>4, <1>9 DEF n

\* Frames may be settled in several goes.
LEMMA SettledJoins ==
    ASSUME NEW a \in Acc, NEW u \in Seq(Frames), NEW v \in Seq(Frames)
    PROVE  /\ FoldLeft(Settled, a, u) \in Acc
           /\ FoldLeft(Settled, a, u \o v) = FoldLeft(Settled, FoldLeft(Settled, a, u), v)
<1>1. PICK t \in [0 .. Len(u) -> Acc] : IsRun(SettledF, a, u, t)
  BY SettledIsRun
<1>2. FoldLeft(Settled, a, u) = t[Len(u)] /\ t[Len(u)] \in Acc
  <2>1. Len(u) \in 0 .. Len(u)
    OBVIOUS
  <2> QED
    BY <1>1, <2>1, SettledIsRun
<1> DEFINE b == t[Len(u)]
<1>3. PICK r \in [0 .. Len(v) -> Acc] : IsRun(SettledF, b, v, r)
  BY <1>2, SettledIsRun
<1>4. FoldLeft(Settled, b, v) = r[Len(v)]
  BY <1>2, <1>3, SettledIsRun
<1> DEFINE w == u \o v
<1>5. PICK q \in [0 .. Len(w) -> Acc] : IsRun(SettledF, a, w, q) /\ q[Len(w)] = r[Len(v)]
  <2>1. IsRun(SettledF, t[Len(u)], v, r)
    BY <1>3
  <2> HIDE DEF b
  <2>2. Joined(w, u, v)
    BY DEF Joined
  <2> HIDE DEF w
  <2> QED
    BY <1>1, <2>1, <2>2, RunsJoin
<1>6. w \in Seq(Frames)
  OBVIOUS
<1>7. FoldLeft(Settled, a, w) = q[Len(w)]
  <2> HIDE DEF w
  <2> QED
    BY <1>5, <1>6, SettledIsRun
<1> QED
  BY <1>2, <1>4, <1>5, <1>7

\* No frame settles nothing.
LEMMA SettledNone ==
    ASSUME NEW a \in Acc
    PROVE  FoldLeft(Settled, a, <<>>) = a
<1>1. <<>> \in Seq(Frames) /\ Len(<<>>) = 0
  OBVIOUS
<1>2. PICK t \in [0 .. 0 -> Acc] : IsRun(SettledF, a, <<>>, t)
  BY <1>1, SettledIsRun
<1>3. FoldLeft(Settled, a, <<>>) = t[0]
  BY <1>1, <1>2, SettledIsRun
<1> QED
  BY <1>2, <1>3 DEF IsRun

\* What is owed besides, and what noise may cost besides.
More(a, gs, d) == [owed |-> a.owed \o gs, spoilt |-> a.spoilt + d, forged |-> a.forged]

\* What is left of both is what is left of the first and the second.
LeavesBehind(u, v, n) == Rest(u \o v, n) = Rest(u, n) \o v

\* What is taken from the front of both is taken from the first.
LEMMA RestOfJoined ==
    ASSUME NEW S, NEW u \in Seq(S), NEW v \in Seq(S), NEW n \in 0 .. Len(u)
    PROVE  LeavesBehind(u, v, n)
<1> DEFINE x == Rest(u \o v, n)
           y == Rest(u, n) \o v
<1>1. /\ u \o v \in Seq(S) /\ Len(u \o v) = Len(u) + Len(v)
      /\ \A k \in 1 .. Len(u) + Len(v) : (u \o v)[k] = IF k <= Len(u) THEN u[k] ELSE v[k - Len(u)]
  OBVIOUS
<1>2. Rest(u, n) \in Seq(S) /\ Len(Rest(u, n)) = Len(u) - n
      /\ \A k \in 1 .. Len(u) - n : Rest(u, n)[k] = u[k + n]
  BY DEF Rest
<1>3. x \in Seq(S) /\ Len(x) = Len(u) + Len(v) - n
      /\ \A k \in 1 .. Len(u) + Len(v) - n : x[k] = (u \o v)[k + n]
  <2> DEFINE w == u \o v
  <2>1. w \in Seq(S) /\ n \in 0 .. Len(w)
    BY <1>1
  <2> HIDE DEF w
  <2>2. Rest(w, n) \in Seq(S) /\ Len(Rest(w, n)) = Len(w) - n
        /\ \A k \in 1 .. Len(w) - n : Rest(w, n)[k] = w[k + n]
    BY <2>1 DEF Rest
  <2> QED
    BY <1>1, <2>2 DEF w
<1>4. y \in Seq(S) /\ Len(y) = Len(u) - n + Len(v)
      /\ \A k \in 1 .. Len(u) - n + Len(v) :
            y[k] = IF k <= Len(u) - n THEN Rest(u, n)[k] ELSE v[k - (Len(u) - n)]
  <2> DEFINE w == Rest(u, n)
  <2>1. w \in Seq(S)
    BY <1>2
  <2> HIDE DEF w
  <2>2. w \o v \in Seq(S) /\ Len(w \o v) = Len(w) + Len(v)
        /\ \A k \in 1 .. Len(w) + Len(v) : (w \o v)[k] = IF k <= Len(w) THEN w[k] ELSE v[k - Len(w)]
    BY <2>1
  <2> QED
    BY <1>2, <2>2 DEF w
<1>5. Len(u) \in Nat /\ Len(v) \in Nat /\ n \in Nat /\ n <= Len(u)
  OBVIOUS
<1>6. Len(x) = Len(y) /\ \A k \in 1 .. Len(x) : x[k] = y[k]
  <2>1. Len(x) = Len(y) /\ Len(x) = Len(u) - n + Len(v)
    BY <1>3, <1>4, <1>5
  <2>2. ASSUME NEW k \in 1 .. Len(u) - n + Len(v)
        PROVE  x[k] = y[k]
    <3>1. x[k] = (u \o v)[k + n] /\ k + n \in 1 .. Len(u) + Len(v)
      BY <1>3, <1>5
    <3>2. CASE k <= Len(u) - n
      <4>1. k + n <= Len(u) /\ k \in 1 .. Len(u) - n
        BY <1>5, <3>2
      <4> HIDE DEF x, y
      <4>2. x[k] = u[k + n]
        BY <1>1, <3>1, <4>1
      <4> QED
        BY <1>2, <1>4, <3>2, <4>1, <4>2
    <3>3. CASE ~(k <= Len(u) - n)
      <4>1. ~(k + n <= Len(u)) /\ (k + n) - Len(u) = k - (Len(u) - n)
        BY <1>5, <3>3
      <4> HIDE DEF x, y
      <4>2. x[k] = v[k - (Len(u) - n)]
        BY <1>1, <3>1, <4>1
      <4> QED
        BY <1>4, <3>3, <4>2
    <3> QED
      BY <3>2, <3>3
  <2> HIDE DEF x, y
  <2> QED
    BY <2>1, <2>2
<1> HIDE DEF x, y
<1>7. x = y
  BY <1>3, <1>4, <1>6, SeqEqual
<1> QED
  BY <1>7, Zenon DEF LeavesBehind, x, y

\* What is owed besides does not change which of those owed before is settled.
LEMMA FirstOfJoined ==
    ASSUME NEW u \in Seq(Frames), NEW v \in Seq(Frames), NEW f
    PROVE  /\ FirstPlace(u, f) # 0 => FirstPlace(u \o v, f) = FirstPlace(u, f)
           /\ v # <<>> /\ v[Len(v)] = f => FirstPlace(u \o v, f) # 0
<1> DEFINE w == u \o v
           m == FirstPlace(u, f)
           n == FirstPlace(w, f)
<1>1. w \in Seq(Frames) /\ Joined(w, u, v)
  BY DEF Joined
<1>2. /\ Len(u) \in Nat /\ Len(v) \in Nat /\ Len(w) = Len(u) + Len(v)
      /\ \A k \in 1 .. Len(u) : w[k] = u[k]
      /\ \A k \in 1 .. Len(v) : w[Len(u) + k] = v[k]
  <2>1. Len(u) \in Nat /\ Len(v) \in Nat
    OBVIOUS
  <2> HIDE DEF w
  <2>2. \A k \in 1 .. Len(u) : w[k] = u[k]
    BY <1>1, <2>1 DEF Joined
  <2>3. ASSUME NEW k \in 1 .. Len(v)
        PROVE  w[Len(u) + k] = v[k]
    <3>1. Len(u) + k \in 1 .. Len(u) + Len(v) /\ ~(Len(u) + k <= Len(u)) /\ (Len(u) + k) - Len(u) = k
      BY <2>1
    <3> QED
      BY <1>1, <3>1 DEF Joined
  <2> QED
    BY <1>1, <2>1, <2>2, <2>3 DEF Joined
<1>3. /\ m \in 0 .. Len(u) /\ (m # 0 => u[m] = f)
      /\ \A i \in 1 .. Len(u) : (m = 0 \/ i < m) => u[i] # f
  BY FirstOwed
<1> HIDE DEF w
<1>4. /\ n \in 0 .. Len(w) /\ (n # 0 => w[n] = f)
      /\ \A i \in 1 .. Len(w) : (n = 0 \/ i < n) => w[i] # f
  BY <1>1, FirstOwed
<1> HIDE DEF m, n
<1>5. ASSUME m # 0 PROVE n = m
  <2>1. m \in 1 .. Len(u) /\ m \in 1 .. Len(w) /\ w[m] = f
    BY <1>2, <1>3, <1>5
  <2>2. n # 0 /\ ~(m < n)
    BY <1>4, <2>1
  <2>3. n < m => w[n] = u[n] /\ u[n] # f /\ w[n] = f
    BY <1>2, <1>3, <1>4, <2>1, <2>2
  <2> QED
    BY <1>3, <1>4, <2>2, <2>3
<1>6. ASSUME v # <<>>, v[Len(v)] = f PROVE n # 0
  <2>1. Len(v) \in 1 .. Len(v)
    BY <1>6
  <2>2. Len(u) + Len(v) \in 1 .. Len(w) /\ w[Len(u) + Len(v)] = f
    BY <1>2, <1>6, <2>1
  <2> QED
    BY <1>4, <2>2
<1> QED
  BY <1>5, <1>6, Zenon DEF m, n, w

\* What is left of an account when a measure of it is settled.
LEMMA SettledInto ==
    ASSUME NEW a \in Acc, NEW w \in Seq(Frames), NEW s \in Int
    PROVE  [a EXCEPT !.owed = w, !.spoilt = s] = [owed |-> w, spoilt |-> s, forged |-> a.forged]
<1> DEFINE b == [a EXCEPT !.owed = w, !.spoilt = s]
<1>1. b \in Acc /\ b.owed = w /\ b.spoilt = s /\ b.forged = a.forged
  BY DEF Acc
<1> HIDE DEF b
<1>2. b = [owed |-> b.owed, spoilt |-> b.spoilt, forged |-> b.forged]
  BY <1>1 DEF Acc
<1> QED
  BY <1>1, <1>2 DEF b

\* A frame settles the same when more is owed.
LEMMA SettledMore ==
    ASSUME NEW a \in Acc, NEW f \in Frames, ~Settled(a, f).forged,
           NEW gs \in Seq(Frames), NEW d \in Int
    PROVE  /\ ~a.forged
           /\ More(a, gs, d) \in Acc
           /\ Settled(More(a, gs, d), f) = More(Settled(a, f), gs, d)
<1> DEFINE n == FirstPlace(a.owed, f)
           b == More(a, gs, d)
           m == FirstPlace(b.owed, f)
<1>1. a.owed \in Seq(Frames) /\ a.spoilt \in Int /\ a.forged \in BOOLEAN
  BY DEF Acc
<1>2. /\ b.owed = a.owed \o gs /\ b.spoilt = a.spoilt + d /\ b.forged = a.forged
      /\ a.owed \o gs \in Seq(Frames) /\ a.spoilt + d \in Int
  <2>1. a.owed \o gs \in Seq(Frames)
    BY <1>1, JoinedBehind
  <2> QED
    BY <1>1, <2>1 DEF More
<1>3. b \in Acc
  <2> DEFINE w == a.owed \o gs
  <2>1. w \in Seq(Frames)
    BY <1>2
  <2>2. b = [owed |-> w, spoilt |-> a.spoilt + d, forged |-> a.forged]
    BY DEF More
  <2> HIDE DEF w, b
  <2> QED
    BY <1>1, <2>1, <2>2 DEF Acc
<1>4. n \in 0 .. Len(a.owed) /\ (n # 0 => m = n)
  <2>1. n \in 0 .. Len(a.owed)
    BY <1>1, FirstOwed
  <2>2. n # 0 => FirstPlace(a.owed \o gs, f) = n
    BY <1>1, FirstOfJoined
  <2> QED
    BY <1>2, <2>1, <2>2
<1>5. Settled(a, f) = IF f[1] \notin Measures THEN a
                      ELSE IF n = 0 THEN [a EXCEPT !.forged = TRUE]
                      ELSE [a EXCEPT !.owed = Rest(a.owed, n), !.spoilt = a.spoilt - (n - 1)]
  BY Zenon DEF Settled, FirstPlace
<1>6. Settled(b, f) = IF f[1] \notin Measures THEN b
                      ELSE IF m = 0 THEN [b EXCEPT !.forged = TRUE]
                      ELSE [b EXCEPT !.owed = Rest(b.owed, m), !.spoilt = b.spoilt - (m - 1)]
  BY Zenon DEF Settled, FirstPlace
<1>7. f[1] \in Measures => n # 0
  <2>1. n = 0 /\ f[1] \in Measures => Settled(a, f).forged
    BY <1>5 DEF Acc
  <2> QED
    BY <2>1
<1>8. LeavesBehind(a.owed, gs, n)
  BY <1>1, <1>4, RestOfJoined
<1> HIDE DEF b, n, m
<1>9. CASE f[1] \notin Measures
  BY <1>3, <1>5, <1>6, <1>9, Zenon DEF b
<1>10. CASE f[1] \in Measures
  <2> DEFINE c == Settled(a, f)
             rest == Rest(a.owed, n)
  <2>1. c = [a EXCEPT !.owed = rest, !.spoilt = a.spoilt - (n - 1)]
    BY <1>5, <1>7, <1>10
  <2>2. Settled(b, f) = [b EXCEPT !.owed = Rest(b.owed, n), !.spoilt = b.spoilt - (n - 1)]
    BY <1>4, <1>6, <1>7, <1>10
  <2>3. c.owed = rest /\ c.spoilt = a.spoilt - (n - 1) /\ c.forged = a.forged
    <3> HIDE DEF c, rest
    <3> QED
      BY <2>1 DEF Acc
  <2>4. Rest(b.owed, n) = rest \o gs
    BY <1>2, <1>8, Zenon DEF LeavesBehind
  <2>5. b.spoilt - (n - 1) = (a.spoilt - (n - 1)) + d
    BY <1>1, <1>2, <1>4
  <2> DEFINE w == rest \o gs
             s == (a.spoilt - (n - 1)) + d
  <2>6. Settled(b, f) = [b EXCEPT !.owed = w, !.spoilt = s]
    BY <2>2, <2>4, <2>5
  <2>7. More(c, gs, d) = [owed |-> w, spoilt |-> s, forged |-> a.forged]
    BY <2>3, Zenon DEF More
  <2> HIDE DEF w, s
  <2>8. [b EXCEPT !.owed = w, !.spoilt = s] = [owed |-> w, spoilt |-> s, forged |-> a.forged]
    <3>1. b \in Acc /\ b.forged = a.forged
      BY <1>2, <1>3
    <3>2. w \in Seq(Frames) /\ s \in Int
      <4>1. rest \in Seq(Frames) /\ a.spoilt - (n - 1) \in Int
        BY <1>1, <1>4 DEF Rest
      <4> HIDE DEF rest
      <4> QED
        BY <4>1, JoinedBehind DEF w, s
    <3> QED
      BY <3>1, <3>2, SettledInto
  <2>9. Settled(b, f) = More(c, gs, d)
    BY <2>6, <2>7, <2>8, Zenon
  <2> HIDE DEF c
  <2> QED
    BY <1>3, <2>3, <2>9, Zenon DEF b, c
<1> QED
  BY <1>9, <1>10

\* The same of several frames: a measure that was not owed would show in the end.
LEMMA SettledAllMore ==
    ASSUME NEW a \in Acc, NEW u \in Seq(Frames), ~FoldLeft(Settled, a, u).forged,
           NEW gs \in Seq(Frames), NEW d \in Int
    PROVE  /\ ~a.forged
           /\ More(a, gs, d) \in Acc
           /\ FoldLeft(Settled, More(a, gs, d), u) = More(FoldLeft(Settled, a, u), gs, d)
<1> DEFINE n == Len(u)
<1>1. PICK t \in [0 .. n -> Acc] : IsRun(SettledF, a, u, t)
  BY SettledIsRun
<1>2. FoldLeft(Settled, a, u) = t[n]
  BY <1>1, SettledIsRun
<1>3. n \in Nat /\ \A k \in 1 .. n : u[k] \in Frames
  OBVIOUS
<1>4. t[0] = a /\ \A k \in 1 .. n : t[k] = SettledF[<<t[k - 1], u[k]>>]
  BY <1>1 DEF IsRun
<1> HIDE DEF n
<1>5. \A k \in 1 .. n : t[k] = Settled(t[k - 1], u[k]) /\ t[k - 1] \in Acc /\ k - 1 \in 0 .. n
  <2> SUFFICES ASSUME NEW k \in 1 .. n
               PROVE  t[k] = Settled(t[k - 1], u[k]) /\ t[k - 1] \in Acc /\ k - 1 \in 0 .. n
    OBVIOUS
  <2>1. k - 1 \in 0 .. n
    BY <1>3
  <2> QED
    BY <1>3, <1>4, <2>1 DEF SettledF
<1>6. \A k \in 0 .. n : ~t[k].forged
  <2> DEFINE T == {k \in 0 .. n : ~t[n - k].forged}
  <2>1. 0 \in T
    <3>1. n - 0 = n /\ 0 \in 0 .. n
      BY <1>3
    <3> QED
      BY <1>2, <3>1
  <2>2. ASSUME NEW k \in 1 .. n, k - 1 \in T PROVE k \in T
    <3> DEFINE j == n - k
    <3>1. j + 1 = n - (k - 1) /\ j + 1 \in 1 .. n /\ (j + 1) - 1 = j /\ k \in 0 .. n
      BY <1>3
    <3>2. ~t[j + 1].forged
      BY <2>2, <3>1
    <3> HIDE DEF j
    <3>3. t[j + 1] = Settled(t[j], u[j + 1]) /\ t[j] \in Acc /\ u[j + 1] \in Frames
      BY <1>3, <1>5, <3>1
    <3>4. ~Settled(t[j], u[j + 1]).forged
      BY <3>2, <3>3
    <3>5. ~t[j].forged
      <4>1. 0 \in Int
        OBVIOUS
      <4> QED
        BY <3>3, <3>4, <4>1, SettledMore
    <3> QED
      BY <3>1, <3>5 DEF j
  <2>3. 0 .. n \subseteq T
    <3>1. \A k \in 1 .. n : k - 1 \in T => k \in T
      BY <2>2
    <3> HIDE DEF T
    <3> QED
      BY <1>3, <2>1, <3>1, StepByStep
  <2> SUFFICES ASSUME NEW k \in 0 .. n PROVE ~t[k].forged
    OBVIOUS
  <2>4. n - k \in 0 .. n /\ n - (n - k) = k
    BY <1>3
  <2>5. n - k \in T
    BY <2>3, <2>4
  <2>6. ~t[n - (n - k)].forged
    BY <2>5
  <2> QED
    BY <2>4, <2>6
<1> DEFINE r == [k \in 0 .. n |-> More(t[k], gs, d)]
<1>7. More(a, gs, d) \in Acc
  <2>1. a.owed \in Seq(Frames) /\ a.spoilt + d \in Int /\ a.forged \in BOOLEAN
    BY DEF Acc
  <2> DEFINE w == a.owed \o gs
  <2>2. w \in Seq(Frames)
    BY <2>1, JoinedBehind
  <2>3. More(a, gs, d) = [owed |-> w, spoilt |-> a.spoilt + d, forged |-> a.forged]
    BY DEF More
  <2> HIDE DEF w
  <2> QED
    BY <2>1, <2>2, <2>3 DEF Acc
<1>8. \A k \in 1 .. n : /\ More(t[k - 1], gs, d) \in Acc
                        /\ Settled(More(t[k - 1], gs, d), u[k]) = More(t[k], gs, d)
  <2> SUFFICES ASSUME NEW k \in 1 .. n
               PROVE  /\ More(t[k - 1], gs, d) \in Acc
                      /\ Settled(More(t[k - 1], gs, d), u[k]) = More(t[k], gs, d)
    OBVIOUS
  <2>1. k \in 0 .. n /\ t[k - 1] \in Acc /\ u[k] \in Frames /\ ~Settled(t[k - 1], u[k]).forged
    BY <1>3, <1>5, <1>6
  <2>2. t[k] = Settled(t[k - 1], u[k])
    BY <1>5
  <2> QED
    BY <2>1, <2>2, SettledMore
<1>9. r \in [0 .. n -> Acc]
  <2> SUFFICES ASSUME NEW k \in 0 .. n PROVE More(t[k], gs, d) \in Acc
    OBVIOUS
  <2>1. CASE k = 0
    BY <1>4, <1>7, <2>1
  <2>2. CASE k # 0
    <3>1. k \in 1 .. n /\ u[k] \in Frames
      BY <1>3, <2>2
    <3>2. Settled(More(t[k - 1], gs, d), u[k]) \in Acc
      <4>1. More(t[k - 1], gs, d) \in Acc
        BY <1>8, <3>1
      <4> DEFINE b == More(t[k - 1], gs, d)
      <4>2. SettledF[<<b, u[k]>>] = Settled(b, u[k]) /\ SettledF[<<b, u[k]>>] \in Acc
        <5>1. b \in Acc
          BY <4>1
        <5> HIDE DEF b
        <5> QED
          BY <3>1, <5>1, SettledType DEF SettledF
      <4> QED
        BY <4>2
    <3> QED
      BY <1>8, <3>1, <3>2
  <2> QED
    BY <2>1, <2>2
<1>10. IsRun(SettledF, More(a, gs, d), u, r)
  <2>1. r[0] = More(a, gs, d)
    <3>1. 0 \in 0 .. n
      BY <1>3
    <3> QED
      BY <1>4, <3>1
  <2>2. ASSUME NEW k \in 1 .. n
        PROVE  r[k] = SettledF[<<r[k - 1], u[k]>>]
    <3>1. r[k] = More(t[k], gs, d) /\ r[k - 1] = More(t[k - 1], gs, d)
      BY <1>3, <1>5
    <3>2. SettledF[<<r[k - 1], u[k]>>] = Settled(r[k - 1], u[k])
      <4>1. r[k - 1] \in Acc /\ u[k] \in Frames
        BY <1>3, <1>5, <1>9
      <4> HIDE DEF r
      <4> QED
        BY <4>1 DEF SettledF
    <3> HIDE DEF r
    <3> QED
      BY <1>8, <3>1, <3>2
  <2> HIDE DEF r
  <2> QED
    BY <2>1, <2>2 DEF IsRun, n
<1>11. FoldLeft(Settled, More(a, gs, d), u) = r[n]
  <2> HIDE DEF r
  <2> QED
    BY <1>7, <1>9, <1>10, SettledIsRun DEF n
<1>12. r[n] = More(t[n], gs, d)
  BY <1>3
<1>13. ~a.forged
  <2>1. 0 \in 0 .. n
    BY <1>3
  <2> QED
    BY <1>4, <1>6, <2>1
<1> HIDE DEF r
<1> QED
  BY <1>2, <1>7, <1>11, <1>12, <1>13

\* A measure that has just been printed is found among what is owed, and the
\* lines missed before it are those it is behind.
LEMMA SettledLast ==
    ASSUME NEW a \in Acc, ~a.forged, NEW f \in Frames, IsMeasure(f)
    PROVE  LET b == Settled(More(a, <<f>>, 0), f) IN
           /\ b \in Acc /\ ~b.forged
           /\ Len(b.owed) - b.spoilt = Len(a.owed) - a.spoilt
<1> DEFINE one == <<f>>
           w == a.owed \o one
           m == FirstPlace(w, f)
           x == More(a, one, 0)
           b == Settled(x, f)
<1>1. one \in Seq(Frames) /\ Len(one) = 1 /\ one[1] = f /\ one # <<>>
  OBVIOUS
<1>2. a.owed \in Seq(Frames) /\ a.spoilt \in Int /\ a.forged \in BOOLEAN
  BY DEF Acc
<1> HIDE DEF one
<1>3. w \in Seq(Frames) /\ Len(w) = Len(a.owed) + 1 /\ m # 0
  <2>1. w \in Seq(Frames) /\ Joined(w, a.owed, one)
    BY <1>1, <1>2, JoinedBehind
  <2>2. m # 0
    <3>1. one[Len(one)] = f
      BY <1>1
    <3> QED
      BY <1>1, <1>2, <3>1, FirstOfJoined
  <2> HIDE DEF w, m
  <2> QED
    BY <1>1, <2>1, <2>2 DEF Joined
<1>4. x = [owed |-> w, spoilt |-> a.spoilt, forged |-> a.forged]
  <2>1. a.spoilt + 0 = a.spoilt
    BY <1>2
  <2> QED
    BY <2>1, Zenon DEF More
<1> HIDE DEF w
<1>5. b = [x EXCEPT !.owed = Rest(w, m), !.spoilt = a.spoilt - (m - 1)]
  <2>1. x.owed = w /\ x.spoilt = a.spoilt
    BY <1>4
  <2>2. b = IF f[1] \notin Measures THEN x
            ELSE IF m = 0 THEN [x EXCEPT !.forged = TRUE]
            ELSE [x EXCEPT !.owed = Rest(w, m), !.spoilt = a.spoilt - (m - 1)]
    BY <2>1, Zenon DEF Settled, FirstPlace
  <2> HIDE DEF b, x, m
  <2> QED
    BY <1>3, <2>2 DEF IsMeasure
<1>6. m \in 1 .. Len(w)
  <2>1. m \in 0 .. Len(w)
    BY <1>3, FirstOwed
  <2> HIDE DEF m
  <2> QED
    BY <1>3, <2>1
<1> HIDE DEF m, x
<1>7. Rest(w, m) \in Seq(Frames) /\ Len(Rest(w, m)) = Len(w) - m
  BY <1>3, <1>6 DEF Rest
<1>8. b.owed = Rest(w, m) /\ b.spoilt = a.spoilt - (m - 1) /\ b.forged = a.forged /\ b \in Acc
  <2> DEFINE v == Rest(w, m)
             s == a.spoilt - (m - 1)
  <2>1. v \in Seq(Frames) /\ s \in Int
    BY <1>2, <1>6, <1>7
  <2>2. b = [x EXCEPT !.owed = v, !.spoilt = s]
    BY <1>5
  <2> HIDE DEF v, s, b
  <2>3. b.owed = v /\ b.spoilt = s /\ b.forged = a.forged /\ b \in Acc
    BY <1>2, <1>4, <2>1, <2>2 DEF Acc
  <2> QED
    BY <2>3 DEF v, s
<1> HIDE DEF b
<1>9. Len(b.owed) - b.spoilt = Len(a.owed) - a.spoilt
  <2> DEFINE l == Len(a.owed)
  <2>1. l \in Nat
    BY <1>2
  <2>2. Len(b.owed) = (l + 1) - m /\ b.spoilt = a.spoilt - (m - 1)
    BY <1>3, <1>7, <1>8
  <2>3. m \in Int
    BY <1>6
  <2> HIDE DEF l
  <2>4. Len(b.owed) - b.spoilt = l - a.spoilt
    BY <1>2, <2>1, <2>2, <2>3
  <2> QED
    BY <2>4 DEF l
<1> QED
  BY <1>8, <1>9 DEF b, x, one

-----------------------------------------------------------------------------
(* What a line of the box and what noise make of a line that is begun. *)

\* An assembler between two bytes: a line too long is not empty, and one that is
\* not too long is empty or what noise may have begun.
Sane(begun, a) ==
    /\ a.overflowed => a.bytes # <<>>
    /\ Len(a.bytes) <= MaxLine
    /\ ~a.overflowed => a.bytes \in begun \cup {<<>>}

\* A byte sequence that ends lines.
Ending(u) == u # <<>> /\ \A k \in 1 .. Len(u) : u[k] \in Ends

\* The end of a line empties the assembler and gives at most the frame it holds.
LEMMA EndedIs ==
    ASSUME NEW a \in Asm
    PROVE  /\ Ended(a) \in Asm /\ Ended(a).bytes = <<>> /\ ~Ended(a).overflowed
           /\ Ended(a).frames = IF a.overflowed THEN a.frames
                                ELSE Append(a.frames, Parse(a.bytes))
           /\ Parse(a.bytes) \in Frames
<1>1. Parse(a.bytes) \in Frames /\ a.frames \in Seq(Frames)
  BY DEF Frames, Asm
<1>2. Append(a.frames, Parse(a.bytes)) \in Seq(Frames)
  BY <1>1
<1>3. \A o \in BOOLEAN, fs \in Seq(Frames) :
        LET x == [a EXCEPT !.bytes = <<>>, !.overflowed = o]
            y == [a EXCEPT !.bytes = <<>>, !.frames = fs]
        IN /\ x \in Asm /\ x.bytes = <<>> /\ x.overflowed = o /\ x.frames = a.frames
           /\ y \in Asm /\ y.bytes = <<>> /\ y.overflowed = a.overflowed /\ y.frames = fs
  <2>1. \A e \in Seq(Bytes), o \in BOOLEAN, fs \in Seq(Frames) :
          LET x == [a EXCEPT !.bytes = e, !.overflowed = o]
              y == [a EXCEPT !.bytes = e, !.frames = fs]
          IN /\ x \in Asm /\ x.bytes = e /\ x.overflowed = o /\ x.frames = a.frames
             /\ y \in Asm /\ y.bytes = e /\ y.overflowed = a.overflowed /\ y.frames = fs
    BY DEF Asm
  <2>2. <<>> \in Seq(Bytes)
    OBVIOUS
  <2> QED
    BY <2>1, <2>2, Zenon
<1>4. CASE a.overflowed
  <2>1. Ended(a) = [a EXCEPT !.bytes = <<>>, !.overflowed = FALSE]
    BY <1>4, Zenon DEF Ended
  <2> QED
    BY <1>1, <1>3, <1>4, <2>1
<1>5. CASE ~a.overflowed
  <2>1. Ended(a) = [a EXCEPT !.bytes = <<>>, !.frames = Append(a.frames, Parse(a.bytes))]
    BY <1>5, Zenon DEF Ended
  <2> DEFINE gs == Append(a.frames, Parse(a.bytes))
  <2>2. gs \in Seq(Frames) /\ Ended(a) = [a EXCEPT !.bytes = <<>>, !.frames = gs]
    BY <1>2, <2>1
  <2>3. a.overflowed = FALSE
    BY <1>5 DEF Asm
  <2> HIDE DEF gs
  <2>4. /\ Ended(a) \in Asm /\ Ended(a).bytes = <<>>
        /\ Ended(a).overflowed = a.overflowed /\ Ended(a).frames = gs
    BY <1>3, <2>2
  <2> QED
    BY <1>1, <1>5, <2>3, <2>4 DEF gs
<1> QED
  BY <1>4, <1>5

\* What plain bytes u and an end v make of a: the frame of the line, if it fits.
Closes(a, u, b) ==
    /\ b \in Asm /\ b.bytes = <<>> /\ ~b.overflowed
    /\ \/ b.frames = a.frames /\ (a.bytes \o u = <<>> \/ a.overflowed \/ Len(a.bytes \o u) > MaxLine)
       \/ /\ ~a.overflowed /\ a.bytes \o u # <<>> /\ ~(Len(a.bytes \o u) > MaxLine)
          /\ b.frames = Append(a.frames, Parse(a.bytes \o u))
          /\ Parse(a.bytes \o u) \in Frames

\* Bytes of a line and its end do so to any line that is begun.
LEMMA LineCloses ==
    ASSUME NEW begun, NEW a \in Asm, Sane(begun, a), MaxLine > 0,
           NEW u \in Seq(Bytes), Plain(u), NEW v \in Seq(Bytes), Ending(v)
    PROVE  u \o v \in Seq(Bytes) /\ Closes(a, u, FoldLeft(Fed, a, u \o v))
<1> DEFINE m == FoldLeft(Fed, a, u)
           b == FoldLeft(Fed, m, v)
           line == a.bytes \o u
<1>0. u \o v \in Seq(Bytes)
  BY JoinedBehind
<1>1. m \in Asm /\ FoldLeft(Fed, a, u \o v) = b
  BY FedJoins
<1>2. /\ m.frames = a.frames
      /\ m.overflowed => m.bytes # <<>>
      /\ m.overflowed <=> a.overflowed \/ Len(line) > MaxLine
      /\ ~m.overflowed => m.bytes = line
  BY FedPlain DEF Sane
<1> HIDE DEF m
<1>3. b = IF m.bytes = <<>> THEN m ELSE Ended(m)
  BY <1>1, FedEnds DEF Ending
<1> HIDE DEF b, line
<1>4. CASE m.bytes = <<>>
  <2>1. ~m.overflowed /\ line = <<>>
    BY <1>2, <1>4
  <2>2. b = m
    BY <1>3, <1>4
  <2>3. Closes(a, u, b)
    BY <1>1, <1>2, <1>4, <2>1, <2>2, Zenon DEF Closes, line
  <2> QED
    BY <1>0, <1>1, <2>3, Zenon
<1>5. CASE m.bytes # <<>>
  <2>1. /\ b \in Asm /\ b.bytes = <<>> /\ ~b.overflowed
        /\ b.frames = IF m.overflowed THEN m.frames ELSE Append(m.frames, Parse(m.bytes))
        /\ Parse(m.bytes) \in Frames
    BY <1>1, <1>3, <1>5, EndedIs, Zenon
  <2>2. CASE m.overflowed
    <3>1. b.frames = a.frames /\ (a.overflowed \/ Len(line) > MaxLine)
      BY <1>2, <2>1, <2>2
    <3>2. Closes(a, u, b)
      BY <2>1, <3>1, Zenon DEF Closes, line
    <3> QED
      BY <1>0, <1>1, <3>2, Zenon
  <2>3. CASE ~m.overflowed
    <3>1. ~a.overflowed /\ ~(Len(line) > MaxLine) /\ m.bytes = line /\ line # <<>>
      BY <1>2, <1>5, <2>3
    <3>2. b.frames = Append(a.frames, Parse(line)) /\ Parse(line) \in Frames
      BY <1>2, <2>1, <2>3, <3>1, Zenon
    <3>3. Closes(a, u, b)
      BY <2>1, <3>1, <3>2, Zenon DEF Closes, line
    <3> QED
      BY <1>0, <1>1, <3>3, Zenon
  <2> QED
    BY <2>2, <2>3
<1> QED
  BY <1>4, <1>5

\* What a printed line makes of a: its frame, unless it is behind one begun.
Hears(a, f, b) ==
    /\ b \in Asm /\ b.bytes = <<>> /\ ~b.overflowed
    /\ IF a.bytes = <<>> THEN b.frames = Append(a.frames, f)
       ELSE \/ b.frames = a.frames
            \/ \E g \in Frames : ~IsMeasure(g) /\ b.frames = Append(a.frames, g)

Crlf == <<"\r", "\n">>

\* What a line is said to be made of are bytes.
LEMMA StringsAreBytes == Seq(STRING) \subseteq Seq(Bytes)
<1>1. \A S, T : S \subseteq T => \A u \in Seq(S) : u \in Seq(T)
  OBVIOUS
<1>2. STRING \subseteq Bytes
  BY Zenon DEF Bytes
<1> QED
  BY <1>1, <1>2, Zenon

\* A sequence of two.
LEMMA TwoElements ==
    ASSUME NEW B, NEW x \in B, NEW y \in B
    PROVE  /\ <<x, y>> \in Seq(B) /\ <<x, y>> # <<>> /\ Len(<<x, y>>) = 2
           /\ <<x, y>>[1] = x /\ <<x, y>>[2] = y
<1>1. <<x, y>> \in Seq(B)
  OBVIOUS
<1>2. <<x, y>> # <<>>
  OBVIOUS
<1>3. Len(<<x, y>>) = 2 /\ <<x, y>>[1] = x /\ <<x, y>>[2] = y
  OBVIOUS
<1> QED
  BY <1>1, <1>2, <1>3, Zenon

\* What println writes ends a line.
LEMMA CrlfEnds == Crlf \in Seq(Bytes) /\ Ending(Crlf)
<1>2. "\r" \in Ends /\ "\n" \in Ends /\ "\r" \in Bytes /\ "\n" \in Bytes
  BY Zenon DEF Ends, Bytes
<1> DEFINE cr == "\r"
           lf == "\n"
<1> HIDE DEF cr, lf
<1>0. cr \in Bytes /\ lf \in Bytes /\ cr \in Ends /\ lf \in Ends /\ Crlf = <<cr, lf>>
  BY <1>2 DEF cr, lf, Crlf
<1>3. Crlf \in Seq(Bytes) /\ Crlf # <<>> /\ Len(Crlf) = 2 /\ Crlf[1] \in Ends /\ Crlf[2] \in Ends
  <2>1. /\ <<cr, lf>> \in Seq(Bytes) /\ <<cr, lf>> # <<>> /\ Len(<<cr, lf>>) = 2
        /\ <<cr, lf>>[1] = cr /\ <<cr, lf>>[2] = lf
    BY <1>0, TwoElements, Zenon
  <2> DEFINE it == <<cr, lf>>
  <2>2. Crlf = it
    BY <1>0
  <2>3. it \in Seq(Bytes) /\ it # <<>> /\ Len(it) = 2 /\ it[1] = cr /\ it[2] = lf
    BY <2>1
  <2> HIDE DEF it
  <2> QED
    BY <1>0, <2>2, <2>3
<1>4. \A k \in 1 .. 2 : k = 1 \/ k = 2
  OBVIOUS
<1> QED
  BY <1>3, <1>4, Zenon DEF Ending

\* A printed line is heard.
LEMMA PrintedLine ==
    ASSUME LinesArePrinted, NEW begun, NoiseIsNoMeasure(begun),
           NEW r \in Repertoires, NEW p \in r,
           NEW a \in Asm, Sane(begun, a)
    PROVE  /\ p.bytes \in Seq(Bytes) /\ p.frame \in Frames
           /\ Hears(a, p.frame, FoldLeft(Fed, a, p.bytes))
<1> DEFINE u == Body(p)
           b == FoldLeft(Fed, a, p.bytes)
           line == a.bytes \o u
<1>1. /\ MaxLine > 0 /\ u \in Seq(Bytes) /\ Len(u) \in 1 .. MaxLine
      /\ \A i \in DOMAIN u : u[i] \notin Ends
      /\ p.bytes = u \o Crlf /\ p.frame = Parse(u)
  <2>1. /\ MaxLine > 0 /\ u \in Seq(STRING) /\ Len(u) \in 1 .. MaxLine
        /\ \A i \in DOMAIN u : u[i] \notin Ends
        /\ p.bytes = u \o Crlf /\ p.frame = Parse(u)
    BY Zenon DEF LinesArePrinted, Ends, Crlf
  <2> HIDE DEF u
  <2> QED
    BY <2>1, StringsAreBytes, Zenon
<1>2. \A x \in begun : Harmless(x \o u)
  BY Zenon DEF NoiseIsNoMeasure
<1> HIDE DEF u
<1>3. Plain(u) /\ u # <<>> /\ ~(Len(u) > MaxLine) /\ p.frame \in Frames
  <2>1. DOMAIN u = 1 .. Len(u) /\ u # <<>>
    BY <1>1
  <2>2. p.frame \in Frames
    BY <1>1 DEF Frames
  <2>3. ~(Len(u) > MaxLine)
    BY <1>1, LineConstants
  <2> QED
    BY <1>1, <2>1, <2>2, <2>3 DEF Plain
<1>4. p.bytes \in Seq(Bytes) /\ Closes(a, u, b)
  <2>1. u \o Crlf \in Seq(Bytes) /\ Closes(a, u, FoldLeft(Fed, a, u \o Crlf))
    BY <1>1, <1>3, CrlfEnds, LineCloses
  <2> QED
    BY <1>1, <2>1, Zenon
<1> HIDE DEF b
<1>5. a.bytes \in Seq(Bytes)
  BY DEF Asm
<1>6. line # <<>> /\ (a.bytes = <<>> => line = u)
  <2> DEFINE ab == a.bytes
  <2>1. ab \in Seq(Bytes)
    BY <1>5
  <2> HIDE DEF ab
  <2>2. Len(ab \o u) = Len(ab) + Len(u) /\ Len(ab) \in Nat /\ ab \o u \in Seq(Bytes)
    BY <1>1, <2>1
  <2>3. ab \o u # <<>>
    <3>1. Len(ab \o u) # 0
      BY <1>1, <2>2
    <3> DEFINE w == ab \o u
    <3> HIDE DEF w
    <3>2. Len(w) # 0 => w # <<>>
      OBVIOUS
    <3> QED
      BY <3>1, <3>2 DEF w
  <2>4. ab = <<>> => ab \o u = u
    BY <1>1
  <2> QED
    BY <2>3, <2>4 DEF ab
<1> HIDE DEF line
<1>7. CASE a.bytes = <<>>
  <2>1. line = u /\ ~a.overflowed
    BY <1>6, <1>7 DEF Sane
  <2>2. b.frames = Append(a.frames, p.frame)
    BY <1>1, <1>3, <1>4, <1>6, <2>1, Zenon DEF Closes, line
  <2>3. Hears(a, p.frame, b)
    BY <1>4, <1>7, <2>2, Zenon DEF Hears, Closes
  <2> QED
    BY <1>3, <1>4, <2>3, Zenon DEF b
<1>8. CASE a.bytes # <<>>
  <2>1. ~a.overflowed => Harmless(line)
    BY <1>2, <1>8, Zenon DEF Sane, line
  <2>2. \/ b.frames = a.frames
        \/ \E g \in Frames : ~IsMeasure(g) /\ b.frames = Append(a.frames, g)
    <3>1. CASE b.frames = a.frames
      BY <3>1
    <3>2. CASE b.frames # a.frames
      <4>1. /\ ~a.overflowed /\ ~(Len(line) > MaxLine)
            /\ b.frames = Append(a.frames, Parse(line)) /\ Parse(line) \in Frames
        BY <1>4, <3>2, Zenon DEF Closes, line
      <4>2. ~IsMeasure(Parse(line))
        BY <2>1, <4>1, Zenon DEF Harmless
      <4> QED
        BY <4>1, <4>2, Zenon
    <3> QED
      BY <3>1, <3>2
  <2>3. Hears(a, p.frame, b)
    BY <1>4, <1>8, <2>2, Zenon DEF Hears, Closes
  <2> QED
    BY <1>3, <1>4, <2>3, Zenon DEF b
<1> QED
  BY <1>7, <1>8

\* The first n elements and the rest are the whole.
Cuts(w, n) == SubSeq(w, 1, n) \o Rest(w, n) = w

\* A sequence cut anywhere.
LEMMA CutInTwo ==
    ASSUME NEW S, NEW w \in Seq(S), NEW n \in 0 .. Len(w)
    PROVE  /\ SubSeq(w, 1, n) \in Seq(S)
           /\ Rest(w, n) \in Seq(S)
           /\ Cuts(w, n)
<1> DEFINE u == SubSeq(w, 1, n)
           v == Rest(w, n)
           x == u \o v
<1>1. Len(w) \in Nat /\ n \in Nat /\ n <= Len(w)
  OBVIOUS
<1>2. u \in Seq(S) /\ Len(u) = n /\ \A k \in 1 .. n : u[k] = w[k]
  BY <1>1
<1>3. v \in Seq(S) /\ Len(v) = Len(w) - n /\ \A k \in 1 .. Len(w) - n : v[k] = w[k + n]
  BY <1>1 DEF Rest
<1> HIDE DEF u, v
<1>4. x \in Seq(S) /\ Len(x) = Len(u) + Len(v)
      /\ \A k \in 1 .. Len(u) + Len(v) : x[k] = IF k <= Len(u) THEN u[k] ELSE v[k - Len(u)]
  BY <1>2, <1>3
<1> HIDE DEF x
<1>5. Len(x) = Len(w)
  BY <1>1, <1>2, <1>3, <1>4
<1>6. ASSUME NEW k \in 1 .. Len(x)
      PROVE  x[k] = w[k]
  <2>1. k \in 1 .. Len(u) + Len(v) /\ k \in Nat
    BY <1>4
  <2>2. CASE k <= n
    <3>1. x[k] = u[k] /\ k \in 1 .. n
      BY <1>2, <1>4, <2>1, <2>2
    <3> QED
      BY <1>2, <3>1
  <2>3. CASE ~(k <= n)
    <3>1. x[k] = v[k - n] /\ k - n \in 1 .. Len(w) - n /\ (k - n) + n = k
      BY <1>1, <1>2, <1>3, <1>4, <2>1, <2>3
    <3> QED
      BY <1>3, <3>1
  <2> QED
    BY <2>2, <2>3
<1>7. x = w
  BY <1>4, <1>5, <1>6, SeqEqual
<1> QED
  BY <1>2, <1>3, <1>7, Zenon DEF Cuts, x, u, v

\* What noise makes of a: no measure, and at worst a line begun.
Murmurs(begun, a, b) ==
    /\ b \in Asm /\ Sane(begun, b)
    /\ \/ b.frames = a.frames
       \/ \E g \in Frames : ~IsMeasure(g) /\ b.frames = Append(a.frames, g)

\* Noise murmurs.
LEMMA NoisyLine ==
    ASSUME MaxLine > 0, NEW begun, NoiseIsNoMeasure(begun), NEW bytes \in Noises,
           NEW a \in Asm, Sane(begun, a)
    PROVE  bytes \in Seq(Bytes) /\ Murmurs(begun, a, FoldLeft(Fed, a, bytes))
<1> DEFINE b == FoldLeft(Fed, a, bytes)
           Says(n) == \A x \in begun \cup {<<>>} :
                        LET line == x \o SubSeq(bytes, 1, n) IN
                        IF n = Len(bytes) THEN Len(line) > MaxLine \/ line \in begun
                        ELSE line = <<>> \/ Harmless(line)
<1>1. bytes \in Seq(Bytes) /\ bytes # <<>> /\ begun \subseteq Seq(Bytes) \ {<<>>}
  <2>1. bytes \in Seq(STRING) /\ bytes # <<>> /\ begun \subseteq Seq(STRING) \ {<<>>}
    BY Zenon DEF NoiseIsNoMeasure
  <2> QED
    BY <2>1, StringsAreBytes, Zenon
<1>2. PICK n \in 0 .. Len(bytes) :
        /\ \A i \in 1 .. n : bytes[i] \notin Ends
        /\ \A i \in n + 1 .. Len(bytes) : bytes[i] \in Ends
        /\ Says(n)
  BY Zenon DEF NoiseIsNoMeasure, Ends
<1> DEFINE u == SubSeq(bytes, 1, n)
           v == Rest(bytes, n)
           line == a.bytes \o u
<1>3. ~a.overflowed =>
        IF n = Len(bytes) THEN Len(line) > MaxLine \/ line \in begun
        ELSE line = <<>> \/ Harmless(line)
  <2>1. ~a.overflowed => a.bytes \in begun \cup {<<>>}
    BY Zenon DEF Sane
  <2> QED
    BY <1>2, <2>1, Zenon
<1> HIDE DEF Says
<1>4. u \in Seq(Bytes) /\ Plain(u)
  <2>1. u \in Seq(Bytes) /\ Len(u) = n /\ \A i \in 1 .. n : u[i] = bytes[i]
    BY <1>1, <1>2
  <2> HIDE DEF u
  <2> QED
    BY <1>2, <2>1 DEF Plain
<1>5. CASE n = Len(bytes)
  <2>1. u = bytes
    BY <1>1, <1>5
  <2>2. /\ b \in Asm /\ b.frames = a.frames
        /\ Len(b.bytes) <= MaxLine
        /\ b.overflowed => b.bytes # <<>>
        /\ b.overflowed <=> a.overflowed \/ Len(line) > MaxLine
        /\ ~b.overflowed => b.bytes = line
    <3>1. Plain(bytes)
      BY <1>4, <2>1
    <3>2. Len(a.bytes) <= MaxLine /\ (a.overflowed => a.bytes # <<>>)
      BY Zenon DEF Sane
    <3>3. line = a.bytes \o bytes
      BY <2>1
    <3> HIDE DEF line
    <3> QED
      BY <1>1, <3>1, <3>2, <3>3, FedPlain
  <2> HIDE DEF b, line, u
  <2>3. ~b.overflowed => b.bytes \in begun
    BY <1>3, <1>5, <2>2, Zenon
  <2>4. Murmurs(begun, a, b)
    BY <2>2, <2>3, Zenon DEF Murmurs, Sane
  <2> QED
    BY <1>1, <2>4, Zenon DEF b
<1>6. CASE n # Len(bytes)
  <2>1. v \in Seq(Bytes) /\ Ending(v) /\ bytes = u \o v
    <3>0. Cuts(bytes, n)
      BY <1>1, <1>2, CutInTwo
    <3>1. n \in Nat /\ n < Len(bytes)
      BY <1>1, <1>2, <1>6
    <3>2. v \in Seq(Bytes) /\ Len(v) = Len(bytes) - n /\ \A i \in 1 .. Len(bytes) - n : v[i] = bytes[i + n]
      BY <1>1, <3>1 DEF Rest
    <3>3. u \o v = bytes
      BY <3>0, Zenon DEF Cuts
    <3> HIDE DEF u, v
    <3>4. \A k \in 1 .. Len(v) : v[k] \in Ends
      <4> SUFFICES ASSUME NEW k \in 1 .. Len(v) PROVE v[k] \in Ends
        OBVIOUS
      <4>1. k + n \in n + 1 .. Len(bytes) /\ k \in 1 .. Len(bytes) - n
        BY <1>1, <3>1, <3>2
      <4> QED
        BY <1>2, <3>2, <4>1
    <3>5. v # <<>>
      <4>1. Len(v) # 0
        BY <1>1, <3>1, <3>2
      <4> QED
        BY <3>2, <4>1
    <3> QED
      BY <3>2, <3>3, <3>4, <3>5 DEF Ending
  <2> HIDE DEF u, v
  <2>2. Closes(a, u, b)
    <3>1. Closes(a, u, FoldLeft(Fed, a, u \o v))
      BY <1>4, <2>1, LineCloses
    <3> QED
      BY <2>1, <3>1, Zenon
  <2> HIDE DEF b, line
  <2>3. Sane(begun, b) /\ b \in Asm
    <3>1. b \in Asm /\ b.bytes = <<>> /\ ~b.overflowed
      BY <2>2, Zenon DEF Closes
    <3>2. Len(<<>>) <= MaxLine
      BY LineConstants
    <3> QED
      BY <3>1, <3>2, Zenon DEF Sane
  <2>4. \/ b.frames = a.frames
        \/ \E g \in Frames : ~IsMeasure(g) /\ b.frames = Append(a.frames, g)
    <3>1. CASE b.frames = a.frames
      BY <3>1
    <3>2. CASE b.frames # a.frames
      <4>1. /\ ~a.overflowed /\ ~(Len(line) > MaxLine) /\ line # <<>>
            /\ b.frames = Append(a.frames, Parse(line)) /\ Parse(line) \in Frames
        BY <2>2, <3>2, Zenon DEF Closes, line
      <4>2. ~IsMeasure(Parse(line))
        BY <1>3, <1>6, <4>1, Zenon DEF Harmless
      <4> QED
        BY <4>1, <4>2, Zenon
    <3> QED
      BY <3>1, <3>2
  <2>5. Murmurs(begun, a, b)
    BY <2>3, <2>4, Zenon DEF Murmurs
  <2> QED
    BY <1>1, <2>5, Zenon DEF b
<1> QED
  BY <1>5, <1>6

-----------------------------------------------------------------------------
(* What an account will be, once the frames still to come are settled. *)

\* One more frame at the end.
AtTheEnd(u, g) == Append(u, g) = u \o <<g>>

\* A sequence of one frame, and one frame more.
LEMMA OneFrame ==
    ASSUME NEW u \in Seq(Frames), NEW g \in Frames
    PROVE  <<g>> \in Seq(Frames) /\ Len(<<g>>) = 1 /\ AtTheEnd(u, g)
  BY DEF AtTheEnd

\* A single frame is settled as such.
LEMMA SettledOne ==
    ASSUME NEW a \in Acc, NEW g \in Frames
    PROVE  FoldLeft(Settled, a, <<g>>) = Settled(a, g)
<1> DEFINE u == <<g>>
<1>1. u \in Seq(Frames) /\ Len(u) = 1 /\ u[1] = g
  OBVIOUS
<1> HIDE DEF u
<1>2. PICK t \in [0 .. Len(u) -> Acc] : IsRun(SettledF, a, u, t)
  BY <1>1, SettledIsRun
<1>3. FoldLeft(Settled, a, u) = t[1]
  BY <1>1, <1>2, SettledIsRun
<1>4. t[0] = a /\ t[1] = SettledF[<<t[0], u[1]>>]
  <2>1. 1 \in 1 .. Len(u) /\ 1 - 1 = 0
    BY <1>1
  <2> QED
    BY <1>2, <2>1 DEF IsRun
<1>5. t[1] = Settled(a, g)
  BY <1>1, <1>4 DEF SettledF
<1> QED
  BY <1>3, <1>5 DEF u

\* More is owed and another frame comes: it is settled with what was to be.
GoesOn(a, u, gs, d, g) ==
    LET e == More(FoldLeft(Settled, a, u), gs, d) IN
    /\ e \in Acc
    /\ More(a, gs, d) \in Acc
    /\ FoldLeft(Settled, More(a, gs, d), u) = e
    /\ FoldLeft(Settled, More(a, gs, d), Append(u, g)) = Settled(e, g)

\* Both follow from how frames settle when more is owed.
LEMMA SettledGoesOn ==
    ASSUME NEW a \in Acc, NEW u \in Seq(Frames), ~FoldLeft(Settled, a, u).forged,
           NEW gs \in Seq(Frames), NEW d \in Int, NEW g \in Frames
    PROVE  GoesOn(a, u, gs, d, g)
<1> DEFINE c == FoldLeft(Settled, a, u)
           b == More(a, gs, d)
           e == More(c, gs, d)
           v == <<g>>
<1>1. b \in Acc /\ FoldLeft(Settled, b, u) = e
  BY SettledAllMore
<1>2. c \in Acc /\ e \in Acc
  <2>1. c \in Acc
    BY SettledJoins
  <2>2. FoldLeft(Settled, b, u) \in Acc
    <3>1. b \in Acc
      BY <1>1
    <3> HIDE DEF b
    <3> QED
      BY <3>1, SettledJoins
  <2> QED
    BY <1>1, <2>1, <2>2
<1>3. v \in Seq(Frames) /\ Append(u, g) = u \o v
  BY OneFrame, Zenon DEF AtTheEnd
<1>4. FoldLeft(Settled, b, u \o v) = Settled(e, g)
  <2>1. FoldLeft(Settled, e, v) = Settled(e, g)
    <3>1. e \in Acc
      BY <1>2
    <3> HIDE DEF e
    <3> QED
      BY <3>1, SettledOne
  <2>2. b \in Acc /\ v \in Seq(Frames) /\ FoldLeft(Settled, b, u) = e
    BY <1>1, <1>3
  <2> HIDE DEF b, e, v
  <2>3. FoldLeft(Settled, b, u \o v) = FoldLeft(Settled, FoldLeft(Settled, b, u), v)
    BY <2>2, SettledJoins
  <2> QED
    BY <2>1, <2>2, <2>3
<1> HIDE DEF b, c, e, v
<1> QED
  BY <1>1, <1>2, <1>3, <1>4, Zenon DEF b, c, e, GoesOn

\* What is no measure settles nothing.
LEMMA SettledNoMeasure ==
    ASSUME NEW a, NEW g, ~IsMeasure(g)
    PROVE  Settled(a, g) = a
  BY Zenon DEF Settled, IsMeasure

\* What Prints and Noise do to the account is to owe more, or to cost more.
LEMMA MoreIs ==
    ASSUME NEW a \in Acc, NEW f \in Frames
    PROVE  /\ More(a, <<>>, 0) = a
           /\ More(a, <<f>>, 0) = [a EXCEPT !.owed = Append(a.owed, f)]
           /\ More(a, <<>>, 1) = [a EXCEPT !.spoilt = a.spoilt + 1]
           /\ <<>> \in Seq(Frames) /\ <<f>> \in Seq(Frames)
<1>1. a.owed \in Seq(Frames) /\ a.spoilt \in Int /\ a.forged \in BOOLEAN
  BY DEF Acc
<1>2. a.owed \o <<>> = a.owed /\ a.spoilt + 0 = a.spoilt /\ a.spoilt + 1 \in Int /\ <<>> \in Seq(Frames)
  BY <1>1
<1>3. Append(a.owed, f) = a.owed \o <<f>> /\ <<f>> \in Seq(Frames) /\ Append(a.owed, f) \in Seq(Frames)
  <2>1. Append(a.owed, f) \in Seq(Frames)
    BY <1>1
  <2> QED
    BY <1>1, <2>1, OneFrame, Zenon DEF AtTheEnd
<1>4. a = [owed |-> a.owed, spoilt |-> a.spoilt, forged |-> a.forged]
  BY DEF Acc
<1>5. More(a, <<>>, 0) = a
  BY <1>2, <1>4, Zenon DEF More
<1>6. \A w \in Seq(Frames), s \in Int :
        [a EXCEPT !.owed = w, !.spoilt = s] = [owed |-> w, spoilt |-> s, forged |-> a.forged]
  BY SettledInto
<1>7. [a EXCEPT !.spoilt = a.spoilt + 1] = [owed |-> a.owed, spoilt |-> a.spoilt + 1, forged |-> a.forged]
  <2> DEFINE s == a.spoilt + 1
             b == [a EXCEPT !.spoilt = s]
  <2>1. s \in Int
    BY <1>1
  <2> HIDE DEF s
  <2>2. b \in Acc /\ b.owed = a.owed /\ b.spoilt = s /\ b.forged = a.forged
    BY <2>1 DEF Acc
  <2> HIDE DEF b
  <2>3. b = [owed |-> b.owed, spoilt |-> b.spoilt, forged |-> b.forged]
    BY <2>2 DEF Acc
  <2> QED
    BY <2>2, <2>3, Zenon DEF b, s
<1>8. [a EXCEPT !.owed = Append(a.owed, f)]
        = [owed |-> Append(a.owed, f), spoilt |-> a.spoilt, forged |-> a.forged]
  <2> DEFINE w == Append(a.owed, f)
             b == [a EXCEPT !.owed = w]
  <2>1. w \in Seq(Frames)
    BY <1>3
  <2> HIDE DEF w
  <2>2. b \in Acc /\ b.owed = w /\ b.spoilt = a.spoilt /\ b.forged = a.forged
    BY <2>1 DEF Acc
  <2> HIDE DEF b
  <2>3. b = [owed |-> b.owed, spoilt |-> b.spoilt, forged |-> b.forged]
    BY <2>2 DEF Acc
  <2> QED
    BY <2>2, <2>3, Zenon DEF b, w
<1>9. More(a, <<f>>, 0) = [a EXCEPT !.owed = Append(a.owed, f)]
  BY <1>2, <1>3, <1>8, Zenon DEF More
<1>10. More(a, <<>>, 1) = [a EXCEPT !.spoilt = a.spoilt + 1]
  BY <1>2, <1>7, Zenon DEF More
<1> QED
  BY <1>2, <1>3, <1>5, <1>9, <1>10, Zenon

-----------------------------------------------------------------------------
(* The line, and the account of it. *)

\* The assembler, when all that waits is fed to it, and the account, when all the
\* frames of that are settled: no measure was not owed, and every line still
\* missing, with the one that is begun, is one that noise has cost.
Sound(begun, a, c) ==
    /\ Sane(begun, a)
    /\ ~c.forged
    /\ Len(c.owed) + (IF a.bytes = <<>> THEN 0 ELSE 1) <= c.spoilt

Heard(begun, x, w, acc) ==
    /\ x \in Asm /\ x.frames = <<>>
    /\ w \in Seq(Bytes)
    /\ acc \in Acc
    /\ LET y == FoldLeft(Fed, x, w) IN Sound(begun, y, FoldLeft(Settled, acc, y.frames))

\* It holds of a port that has been opened between two lines.
LEMMA HeardAtFirst ==
    ASSUME NEW begun
    PROVE  Heard(begun, EmptyLine, <<>>, NothingOwed)
<1>1. <<>> \in Seq(Bytes) /\ <<>> \in Seq(Frames) /\ Len(<<>>) = 0
  OBVIOUS
<1>2. EmptyLine \in Asm /\ EmptyLine.frames = <<>> /\ EmptyLine.bytes = <<>> /\ ~EmptyLine.overflowed
  BY <1>1 DEF EmptyLine, Asm
<1>3. NothingOwed \in Acc /\ ~NothingOwed.forged /\ NothingOwed.owed = <<>> /\ NothingOwed.spoilt = 0
  BY <1>1 DEF NothingOwed, Acc
<1>4. FoldLeft(Fed, EmptyLine, <<>>) = EmptyLine
  BY <1>2, FedNone
<1>5. FoldLeft(Settled, NothingOwed, <<>>) = NothingOwed
  BY <1>3, SettledNone
<1>6. Sound(begun, EmptyLine, NothingOwed)
  <2>1. Len(<<>>) <= MaxLine /\ 0 + 0 <= 0
    BY <1>1, LineConstants
  <2>2. Sane(begun, EmptyLine)
    BY <1>2, <2>1, Zenon DEF Sane
  <2> QED
    BY <1>1, <1>2, <1>3, <2>1, <2>2, Zenon DEF Sound
<1> QED
  BY <1>1, <1>2, <1>3, <1>4, <1>5, <1>6, Zenon DEF Heard

\* It holds of a port that has been opened in the middle of a line.
LEMMA HeardTail ==
    ASSUME LinesArePrinted, NEW begun, NEW r \in Repertoires, NEW p \in r,
           NEW t \in LeftOf(p.bytes), t # <<>>
    PROVE  Heard(begun, EmptyLine, t, NothingOwed)
<1> DEFINE w == Body(p)
           y == FoldLeft(Fed, EmptyLine, t)
           c == FoldLeft(Settled, NothingOwed, y.frames)
<1>1. /\ MaxLine > 0 /\ w \in Seq(Bytes) /\ Len(w) \in 1 .. MaxLine
      /\ \A i \in DOMAIN w : w[i] \notin Ends
      /\ p.bytes = w \o Crlf
      /\ \A m \in 1 .. Len(w) - 1 : ~IsMeasure(Parse(Rest(w, m)))
  <2>1. /\ MaxLine > 0 /\ w \in Seq(STRING) /\ Len(w) \in 1 .. MaxLine
        /\ \A i \in DOMAIN w : w[i] \notin Ends
        /\ p.bytes = w \o Crlf
        /\ \A m \in 1 .. Len(w) - 1 : ~IsMeasure(Parse(Rest(w, m)))
    BY Zenon DEF LinesArePrinted, Ends, Crlf
  <2> HIDE DEF w
  <2> QED
    BY <2>1, StringsAreBytes, Zenon
<1> HIDE DEF w
<1>2. Crlf \in Seq(Bytes) /\ Ending(Crlf) /\ Len(Crlf) = 2
  <2>1. Len(Crlf) = 2
    BY DEF Crlf
  <2> QED
    BY <2>1, CrlfEnds
<1>3. PICK u \in Seq(Bytes), v \in Seq(Bytes) :
        /\ Plain(u) /\ Ending(v) /\ t = u \o v
        /\ u # <<>> => ~IsMeasure(Parse(u))
  <2>1. PICK n \in 1 .. Len(p.bytes) : t = Rest(p.bytes, n)
    BY Zenon DEF LeftOf
  <2>2. p.bytes \in Seq(Bytes) /\ Len(p.bytes) = Len(w) + 2
        /\ \A k \in 1 .. 2 : p.bytes[Len(w) + k] = Crlf[k]
    <3>1. ASSUME NEW x \in Seq(Bytes), NEW v \in Seq(Bytes), Len(v) = 2
          PROVE  /\ x \o v \in Seq(Bytes) /\ Len(x \o v) = Len(x) + 2
                 /\ \A k \in 1 .. 2 : (x \o v)[Len(x) + k] = v[k]
      <4>1. /\ x \o v \in Seq(Bytes) /\ Len(x \o v) = Len(x) + Len(v) /\ Len(x) \in Nat
            /\ \A k \in 1 .. Len(x) + Len(v) :
                   (x \o v)[k] = IF k <= Len(x) THEN x[k] ELSE v[k - Len(x)]
        OBVIOUS
      <4> QED
        BY <3>1, <4>1
    <3>2. w \in Seq(Bytes) /\ Crlf \in Seq(Bytes) /\ Len(Crlf) = 2 /\ p.bytes = w \o Crlf
      BY <1>1, <1>2, Zenon
    <3>3. /\ w \o Crlf \in Seq(Bytes) /\ Len(w \o Crlf) = Len(w) + 2
          /\ \A k \in 1 .. 2 : (w \o Crlf)[Len(w) + k] = Crlf[k]
      BY <3>1, <3>2
    <3> QED
      BY <3>2, <3>3
  <2>3. CASE n <= Len(w)
    <3> DEFINE u == Rest(w, n)
    <3>1. n \in 0 .. Len(w)
      BY <2>3
    <3>2. t = u \o Crlf
      <4>1. LeavesBehind(w, Crlf, n)
        BY <1>1, <1>2, <3>1, RestOfJoined
      <4> QED
        BY <1>1, <2>1, <4>1, Zenon DEF LeavesBehind
    <3>3. u \in Seq(Bytes) /\ Len(u) = Len(w) - n /\ \A k \in 1 .. Len(w) - n : u[k] = w[n + k]
      BY <1>1, <3>1 DEF Rest
    <3>4. Plain(u)
      <4>1. \A k \in 1 .. Len(w) - n : n + k \in DOMAIN w
        BY <1>1, <3>1
      <4> QED
        BY <1>1, <3>3, <4>1 DEF Plain
    <3>5. ASSUME u # <<>> PROVE ~IsMeasure(Parse(u))
      <4>1. Len(u) # 0
        BY <3>3, <3>5
      <4>2. n \in 1 .. Len(w) - 1
        BY <1>1, <2>3, <3>3, <4>1
      <4> QED
        BY <1>1, <4>2, Zenon
    <3> HIDE DEF u
    <3> QED
      BY <1>2, <3>2, <3>3, <3>4, <3>5, Zenon
  <2>4. CASE n > Len(w)
    <3>1. t \in Seq(Bytes) /\ Len(t) = Len(p.bytes) - n
          /\ \A k \in 1 .. Len(p.bytes) - n : t[k] = p.bytes[n + k]
      BY <2>1, <2>2 DEF Rest
    <3>2. Ending(t)
      <4>1. \A k \in 1 .. Len(t) : n + k - Len(w) \in 1 .. 2
        BY <1>1, <2>2, <2>4, <3>1
      <4>2. \A k \in 1 .. Len(t) : t[k] = Crlf[n + k - Len(w)]
        BY <1>1, <2>2, <3>1, <4>1
      <4>3. \A k \in 1 .. 2 : Crlf[k] \in Ends
        BY <1>2 DEF Ending
      <4> QED
        BY <4>1, <4>2, <4>3 DEF Ending
    <3>3. <<>> \in Seq(Bytes) /\ Plain(<<>>) /\ t = <<>> \o t
      BY <3>1 DEF Plain
    <3> DEFINE u == <<>>
    <3> HIDE DEF u
    <3>4. u \in Seq(Bytes) /\ Plain(u) /\ t = u \o t /\ (u # <<>> => ~IsMeasure(Parse(u)))
      BY <3>3, Zenon DEF u
    <3> QED
      BY <3>1, <3>2, <3>4, Zenon
  <2>5. n <= Len(w) \/ n > Len(w)
    BY <1>1, <2>2
  <2> QED
    BY <2>3, <2>4, <2>5, Zenon
<1>4. EmptyLine \in Asm /\ EmptyLine.frames = <<>> /\ EmptyLine.bytes = <<>> /\ ~EmptyLine.overflowed
  <2>1. <<>> \in Seq(Bytes) /\ <<>> \in Seq(Frames)
    OBVIOUS
  <2> QED
    BY <2>1 DEF EmptyLine, Asm
<1>5. Sane(begun, EmptyLine)
  <2>1. Len(<<>>) <= MaxLine
    BY LineConstants
  <2> QED
    BY <1>4, <2>1, Zenon DEF Sane
<1>6. t \in Seq(Bytes) /\ Closes(EmptyLine, u, y)
  <2>1. u \o v \in Seq(Bytes) /\ Closes(EmptyLine, u, FoldLeft(Fed, EmptyLine, u \o v))
    BY <1>1, <1>2, <1>3, <1>4, <1>5, LineCloses
  <2> QED
    BY <1>3, <2>1, Zenon
<1> HIDE DEF y
<1>7. <<>> \o u = u
  BY <1>3
<1>8. y.frames = <<>> \/ \E g \in Frames : ~IsMeasure(g) /\ y.frames = <<g>>
  <2>1. CASE y.frames = EmptyLine.frames
    BY <1>4, <2>1, Zenon
  <2>2. CASE y.frames # EmptyLine.frames
    <3>1. y.frames = Append(<<>>, Parse(u)) /\ Parse(u) \in Frames
      BY <1>4, <1>6, <1>7, <2>2, Zenon DEF Closes
    <3>2. ~IsMeasure(Parse(u))
      BY <1>3, <1>4, <1>6, <1>7, <2>2, Zenon DEF Closes
    <3> DEFINE g == Parse(u)
    <3>3. Append(<<>>, g) = <<g>>
      <4> HIDE DEF g
      <4> QED
        OBVIOUS
    <3> QED
      BY <3>1, <3>2, <3>3, Zenon
  <2> QED
    BY <2>1, <2>2
<1>9. NothingOwed \in Acc /\ ~NothingOwed.forged /\ NothingOwed.owed = <<>> /\ NothingOwed.spoilt = 0
  <2>1. <<>> \in Seq(Frames)
    OBVIOUS
  <2> QED
    BY <2>1 DEF NothingOwed, Acc
<1>10. c = NothingOwed
  <2>1. CASE y.frames = <<>>
    BY <1>9, <2>1, SettledNone
  <2>2. CASE \E g \in Frames : ~IsMeasure(g) /\ y.frames = <<g>>
    <3>1. PICK g \in Frames : ~IsMeasure(g) /\ y.frames = <<g>>
      BY <2>2
    <3>2. c = Settled(NothingOwed, g)
      BY <1>9, <3>1, SettledOne
    <3> QED
      BY <3>1, <3>2, SettledNoMeasure
  <2> QED
    BY <1>8, <2>1, <2>2
<1> HIDE DEF c
<1>11. Sound(begun, y, c)
  <2>1. Len(<<>>) <= MaxLine /\ Len(<<>>) + 0 <= 0
    BY LineConstants
  <2>2. y.bytes = <<>> /\ ~y.overflowed
    BY <1>6, Zenon DEF Closes
  <2>3. Sane(begun, y)
    BY <2>1, <2>2, Zenon DEF Sane
  <2> QED
    BY <1>9, <1>10, <2>1, <2>2, <2>3, Zenon DEF Sound
<1> QED
  BY <1>4, <1>6, <1>9, <1>11, Zenon DEF Heard, c, y

\* A line is printed: its frame will be told from what noise has made, and the
\* line is lost only where noise had begun one.
LEMMA HeardLine ==
    ASSUME LinesArePrinted, NEW begun, NoiseIsNoMeasure(begun),
           NEW r \in Repertoires, NEW p \in r,
           NEW x, NEW w, NEW acc, Heard(begun, x, w, acc)
    PROVE  Heard(begun, x, w \o p.bytes,
                 IF p.frame[1] \in Measures THEN [acc EXCEPT !.owed = Append(@, p.frame)] ELSE acc)
<1> DEFINE f == p.frame
           y == FoldLeft(Fed, x, w)
           z == FoldLeft(Fed, y, p.bytes)
           c == FoldLeft(Settled, acc, y.frames)
           one == <<f>>
           gs == IF IsMeasure(f) THEN one ELSE <<>>
           e == More(c, gs, 0)
           a == More(acc, gs, 0)
           k == FoldLeft(Settled, a, z.frames)
           b == IF p.frame[1] \in Measures THEN [acc EXCEPT !.owed = Append(@, p.frame)] ELSE acc
<1>1. x \in Asm /\ x.frames = <<>> /\ w \in Seq(Bytes) /\ acc \in Acc /\ Sound(begun, y, c)
  BY Zenon DEF Heard
<1>2. y \in Asm /\ Sane(begun, y) /\ ~c.forged
  BY <1>1, FedJoins, Zenon DEF Sound
<1>3. p.bytes \in Seq(Bytes) /\ f \in Frames /\ Hears(y, f, z)
  <2> HIDE DEF y
  <2> QED
    BY <1>2, PrintedLine
<1>4. w \o p.bytes \in Seq(Bytes) /\ FoldLeft(Fed, x, w \o p.bytes) = z
  <2>1. w \o p.bytes \in Seq(Bytes)
    BY <1>1, <1>3, JoinedBehind
  <2> QED
    BY <1>1, <1>3, <2>1, FedJoins
<1>5. one \in Seq(Frames) /\ Len(one) = 1 /\ <<>> \in Seq(Frames) /\ Len(<<>>) = 0
  <2> HIDE DEF f
  <2> QED
    BY <1>3
<1> HIDE DEF one, f
<1>6. gs \in Seq(Frames) /\ Len(gs) = (IF IsMeasure(f) THEN 1 ELSE 0) /\ 0 \in Int
  <2>1. CASE IsMeasure(f)
    BY <1>5, <2>1
  <2>2. CASE ~IsMeasure(f)
    BY <1>5, <2>2
  <2> QED
    BY <2>1, <2>2
<1>7. b = a
  <2>1. CASE IsMeasure(f)
    <3>1. a = [acc EXCEPT !.owed = Append(acc.owed, f)]
      BY <1>1, <1>3, <2>1, MoreIs, Zenon DEF one
    <3> QED
      BY <2>1, <3>1, Zenon DEF IsMeasure, f
  <2>2. CASE ~IsMeasure(f)
    <3>1. a = acc
      BY <1>1, <1>3, <2>2, MoreIs, Zenon
    <3> QED
      BY <2>2, <3>1, Zenon DEF IsMeasure, f
  <2> QED
    BY <2>1, <2>2
<1>8. y.frames \in Seq(Frames) /\ c \in Acc
  <2>1. y.frames \in Seq(Frames)
    BY <1>2 DEF Asm
  <2> QED
    BY <1>1, <2>1, SettledJoins
<1> HIDE DEF gs
<1>9. \A g \in Frames :
        /\ e \in Acc /\ a \in Acc
        /\ FoldLeft(Settled, a, y.frames) = e
        /\ FoldLeft(Settled, a, Append(y.frames, g)) = Settled(e, g)
  <2> DEFINE fs == y.frames
  <2>1. fs \in Seq(Frames) /\ ~FoldLeft(Settled, acc, fs).forged
    BY <1>2, <1>8
  <2> HIDE DEF fs
  <2>2. acc \in Acc /\ gs \in Seq(Frames) /\ 0 \in Int
    BY <1>1, <1>6
  <2>3. \A g \in Frames : GoesOn(acc, fs, gs, 0, g)
    BY <2>1, <2>2, SettledGoesOn
  <2> QED
    BY <2>3, Zenon DEF fs, GoesOn
<1>10. e.owed = c.owed \o gs /\ e.spoilt = c.spoilt /\ e.forged = c.forged
       /\ Len(c.owed \o gs) = Len(c.owed) + Len(gs) /\ Len(c.owed) \in Nat /\ c.spoilt \in Int
  <2>1. c.owed \in Seq(Frames) /\ c.spoilt \in Int
    BY <1>8 DEF Acc
  <2>2. Len(c.owed \o gs) = Len(c.owed) + Len(gs) /\ Len(c.owed) \in Nat
    <3> DEFINE o == c.owed
    <3>1. o \in Seq(Frames)
      BY <2>1
    <3>2. gs \in Seq(Frames)
      BY <1>6
    <3> HIDE DEF o, c
    <3>3. Len(o \o gs) = Len(o) + Len(gs) /\ Len(o) \in Nat
      BY <3>1, <3>2
    <3> QED
      BY <3>3 DEF o
  <2>3. c.spoilt + 0 = c.spoilt
    BY <2>1
  <2>4. e.owed = c.owed \o gs /\ e.spoilt = c.spoilt /\ e.forged = c.forged
    <3> HIDE DEF c
    <3>1. e = [owed |-> c.owed \o gs, spoilt |-> c.spoilt, forged |-> c.forged]
      BY <2>3, Zenon DEF More
    <3> DEFINE o == c.owed \o gs
    <3>2. e = [owed |-> o, spoilt |-> c.spoilt, forged |-> c.forged]
      BY <3>1
    <3> HIDE DEF o, e
    <3>3. e.owed = o /\ e.spoilt = c.spoilt /\ e.forged = c.forged
      BY <3>2
    <3> QED
      BY <3>3 DEF o
  <2> QED
    BY <2>1, <2>2, <2>4, Zenon
<1> HIDE DEF e, c
<1>10a. /\ Len(e.owed) = Len(c.owed) + Len(gs) /\ e.spoilt = c.spoilt /\ e.forged = c.forged
       /\ Len(c.owed) \in Nat /\ c.spoilt \in Int
  BY <1>10, Zenon
<1> USE DEF e, c
<1>11. Len(c.owed) + (IF y.bytes = <<>> THEN 0 ELSE 1) <= c.spoilt
  BY <1>1, Zenon DEF Sound
<1>12. z \in Asm /\ z.bytes = <<>> /\ ~z.overflowed /\ Sane(begun, z)
  <2>1. z \in Asm /\ z.bytes = <<>> /\ ~z.overflowed
    BY <1>3, Zenon DEF Hears
  <2>2. Len(<<>>) <= MaxLine
    BY LineConstants
  <2> QED
    BY <2>1, <2>2, Zenon DEF Sane
<1>13. ~k.forged /\ Len(k.owed) <= k.spoilt
  <2>1. CASE y.bytes = <<>>
    <3>1. k = Settled(e, f)
      <4>1. z.frames = Append(y.frames, f)
        BY <1>3, <2>1, Zenon DEF Hears
      <4> QED
        BY <1>3, <1>9, <4>1, Zenon
    <3>2. CASE IsMeasure(f)
      <4>1. e = More(c, <<f>>, 0)
        BY <3>2, Zenon DEF gs, one
      <4>2. k \in Acc /\ ~k.forged /\ Len(k.owed) - k.spoilt = Len(c.owed) - c.spoilt
        <5> HIDE DEF c, e, k
        <5>1. k = Settled(More(c, <<f>>, 0), f)
          BY <3>1, <4>1
        <5> QED
          BY <1>2, <1>3, <1>8, <3>2, <5>1, SettledLast
      <4>3. Len(k.owed) \in Nat /\ k.spoilt \in Int
        <5> HIDE DEF k
        <5>1. k.owed \in Seq(Frames) /\ k.spoilt \in Int
          BY <4>2 DEF Acc
        <5> QED
          BY <5>1
      <4> HIDE DEF k, c
      <4>4. Len(c.owed) <= c.spoilt
        BY <1>10a, <1>11, <2>1
      <4> DEFINE l == Len(k.owed)
                 m == Len(c.owed)
      <4>5. l \in Nat /\ m \in Nat /\ l - k.spoilt = m - c.spoilt /\ m <= c.spoilt
        BY <1>10a, <4>2, <4>3, <4>4
      <4> HIDE DEF l, m
      <4>6. l <= k.spoilt
        BY <1>10a, <4>3, <4>5
      <4> QED
        BY <4>2, <4>6 DEF l
    <3>3. CASE ~IsMeasure(f)
      <4>1. k = e
        BY <3>1, <3>3, SettledNoMeasure, Zenon
      <4>2. Len(gs) = 0
        BY <1>6, <3>3
      <4> HIDE DEF k, e, c
      <4>3. Len(k.owed) = Len(c.owed) /\ k.spoilt = c.spoilt /\ k.forged = c.forged
        BY <1>10a, <4>1, <4>2
      <4> QED
        BY <1>2, <1>10a, <1>11, <2>1, <4>3
    <3> QED
      BY <3>2, <3>3
  <2>2. CASE y.bytes # <<>>
    <3>1. k = e
      <4>1. CASE z.frames = y.frames
        <5>1. f \in Frames
          BY <1>3
        <5> QED
          BY <1>9, <4>1, <5>1, Zenon
      <4>2. CASE \E g \in Frames : ~IsMeasure(g) /\ z.frames = Append(y.frames, g)
        <5>1. PICK g \in Frames : ~IsMeasure(g) /\ z.frames = Append(y.frames, g)
          BY <4>2
        <5>2. k = Settled(e, g)
          BY <1>9, <5>1, Zenon
        <5> QED
          BY <5>1, <5>2, SettledNoMeasure, Zenon
      <4> QED
        BY <1>3, <2>2, <4>1, <4>2, Zenon DEF Hears
    <3>2. Len(gs) \in {0, 1}
      BY <1>6
    <3> HIDE DEF k, e, c
    <3>3. Len(k.owed) = Len(c.owed) + Len(gs) /\ k.spoilt = c.spoilt /\ k.forged = c.forged
      BY <1>10a, <3>1
    <3>4. Len(c.owed) + 1 <= c.spoilt
      BY <1>11, <2>2
    <3> DEFINE i == Len(c.owed)
               j == Len(gs)
    <3>5. i \in Nat /\ j \in {0, 1} /\ Len(k.owed) = i + j /\ k.spoilt = c.spoilt /\ i + 1 <= c.spoilt
          /\ c.spoilt \in Int
      BY <1>10a, <3>2, <3>3, <3>4
    <3> HIDE DEF i, j
    <3>6. i + j <= c.spoilt
      BY <3>5
    <3>7. ~k.forged
      BY <1>2, <3>3, Zenon
    <3> QED
      BY <3>5, <3>6, <3>7, Zenon
  <2> QED
    BY <2>1, <2>2
<1>14. a \in Acc
  BY <1>3, <1>9
<1>15. Sound(begun, z, k)
  <2>1. Len(k.owed) + 0 <= k.spoilt
    <3>1. k \in Acc
      <4>1. z.frames \in Seq(Frames)
        BY <1>12 DEF Asm
      <4> QED
        BY <1>14, <4>1, SettledJoins
    <3>2. Len(k.owed) \in Nat
      <4> HIDE DEF k
      <4>1. k.owed \in Seq(Frames)
        BY <3>1 DEF Acc
      <4> QED
        BY <4>1
    <3> HIDE DEF k
    <3> QED
      BY <1>13, <3>2
  <2> QED
    BY <1>12, <1>13, <2>1, Zenon DEF Sound
<1> HIDE DEF a, k, z, y, c, e
<1>16. Heard(begun, x, w \o p.bytes, a)
  BY <1>1, <1>4, <1>14, <1>15, Zenon DEF Heard, k
<1> QED
  BY <1>7, <1>16, Zenon DEF b

\* Noise comes: it makes no measure, and may begin a line.
LEMMA HeardNoise ==
    ASSUME MaxLine > 0, NEW begun, NoiseIsNoMeasure(begun), NEW bytes \in Noises,
           NEW x, NEW w, NEW acc, Heard(begun, x, w, acc)
    PROVE  Heard(begun, x, w \o bytes, [acc EXCEPT !.spoilt = @ + 1])
<1> DEFINE y == FoldLeft(Fed, x, w)
           z == FoldLeft(Fed, y, bytes)
           c == FoldLeft(Settled, acc, y.frames)
           gs == <<>>
           e == More(c, gs, 1)
           a == More(acc, gs, 1)
           k == FoldLeft(Settled, a, z.frames)
           b == [acc EXCEPT !.spoilt = @ + 1]
<1>1. x \in Asm /\ x.frames = <<>> /\ w \in Seq(Bytes) /\ acc \in Acc /\ Sound(begun, y, c)
  BY Zenon DEF Heard
<1>2. y \in Asm /\ Sane(begun, y) /\ ~c.forged
  BY <1>1, FedJoins, Zenon DEF Sound
<1>3. bytes \in Seq(Bytes) /\ Murmurs(begun, y, z)
  <2> HIDE DEF y
  <2> QED
    BY <1>2, NoisyLine
<1>4. w \o bytes \in Seq(Bytes) /\ FoldLeft(Fed, x, w \o bytes) = z
  <2>1. w \o bytes \in Seq(Bytes)
    BY <1>1, <1>3, JoinedBehind
  <2> QED
    BY <1>1, <1>3, <2>1, FedJoins
<1>5. PICK f \in Frames : TRUE
  <2>1. Parse(<<>>) \in Frames
    <3>1. <<>> \in Seq(Bytes)
      OBVIOUS
    <3> QED
      BY <3>1, Zenon DEF Frames
  <2> QED
    BY <2>1
<1>6. gs \in Seq(Frames) /\ 1 \in Int
  OBVIOUS
<1>7. b = a
  BY <1>1, <1>5, MoreIs, Zenon
<1>8. y.frames \in Seq(Frames) /\ c \in Acc
  <2>1. y.frames \in Seq(Frames)
    BY <1>2 DEF Asm
  <2> QED
    BY <1>1, <2>1, SettledJoins
<1>9. c.owed \in Seq(Frames) /\ c.spoilt \in Int
  BY <1>8 DEF Acc
<1>10. e.owed = c.owed /\ e.spoilt = c.spoilt + 1 /\ e.forged = c.forged
  <2> HIDE DEF c
  <2>1. c.owed \o gs = c.owed
    BY <1>9
  <2>2. e = [owed |-> c.owed, spoilt |-> c.spoilt + 1, forged |-> c.forged]
    BY <2>1, Zenon DEF More
  <2> HIDE DEF e
  <2> QED
    BY <2>2
<1> HIDE DEF gs
<1>11. \A g \in Frames :
        /\ e \in Acc /\ a \in Acc
        /\ FoldLeft(Settled, a, y.frames) = e
        /\ FoldLeft(Settled, a, Append(y.frames, g)) = Settled(e, g)
  <2> DEFINE fs == y.frames
  <2>1. fs \in Seq(Frames) /\ ~FoldLeft(Settled, acc, fs).forged
    BY <1>2, <1>8
  <2> HIDE DEF fs
  <2>2. acc \in Acc /\ gs \in Seq(Frames) /\ 1 \in Int
    BY <1>1, <1>6
  <2>3. \A g \in Frames : GoesOn(acc, fs, gs, 1, g)
    BY <2>1, <2>2, SettledGoesOn
  <2> QED
    BY <2>3, Zenon DEF fs, GoesOn
<1>12. k = e
  <2>1. CASE z.frames = y.frames
    BY <1>5, <1>11, <2>1, Zenon
  <2>2. CASE \E g \in Frames : ~IsMeasure(g) /\ z.frames = Append(y.frames, g)
    <3>1. PICK g \in Frames : ~IsMeasure(g) /\ z.frames = Append(y.frames, g)
      BY <2>2
    <3>2. k = Settled(e, g)
      BY <1>11, <3>1, Zenon
    <3> QED
      BY <3>1, <3>2, SettledNoMeasure, Zenon
  <2> QED
    BY <1>3, <2>1, <2>2, Zenon DEF Murmurs
<1>13. Len(c.owed) + (IF y.bytes = <<>> THEN 0 ELSE 1) <= c.spoilt
  BY <1>1, Zenon DEF Sound
<1>14. Sound(begun, z, k)
  <2>1. Sane(begun, z)
    BY <1>3, Zenon DEF Murmurs
  <2>2. ~k.forged
    BY <1>2, <1>10, <1>12, Zenon
  <2>3. Len(k.owed) + (IF z.bytes = <<>> THEN 0 ELSE 1) <= k.spoilt
    <3> DEFINE l == Len(c.owed)
               m == IF y.bytes = <<>> THEN 0 ELSE 1
               n == IF z.bytes = <<>> THEN 0 ELSE 1
    <3>1. l \in Nat
      BY <1>9
    <3>2. m \in {0, 1} /\ n \in {0, 1}
      OBVIOUS
    <3>3. Len(k.owed) = l /\ k.spoilt = c.spoilt + 1
      BY <1>10, <1>12, Zenon
    <3>4. l + m <= c.spoilt
      BY <1>13
    <3> HIDE DEF l, m, n
    <3>5. l + n <= c.spoilt + 1
      BY <1>9, <3>1, <3>2, <3>4
    <3>6. Len(k.owed) + n <= k.spoilt
      BY <3>3, <3>5, Zenon
    <3> QED
      BY <3>6 DEF n
  <2> QED
    BY <2>1, <2>2, <2>3, Zenon DEF Sound
<1>15. a \in Acc
  BY <1>5, <1>11, Zenon
<1> HIDE DEF a, k, z, y, c, e
<1>16. Heard(begun, x, w \o bytes, a)
  BY <1>1, <1>4, <1>14, <1>15, Zenon DEF Heard, k
<1> QED
  BY <1>7, <1>16, Zenon DEF b

\* What is read is taken from what waits and settled; what is to come is the same.
LEMMA HeardRead ==
    ASSUME NEW begun, NEW x, NEW w, NEW acc, Heard(begun, x, w, acc), NEW n \in 0 .. Len(w)
    PROVE  LET fed == Feed(x, SubSeq(w, 1, n)) IN
           Heard(begun, [fed EXCEPT !.frames = <<>>], Rest(w, n), FoldLeft(Settled, acc, fed.frames))
<1> DEFINE u == SubSeq(w, 1, n)
           v == Rest(w, n)
           fed == Feed(x, u)
           fs == fed.frames
           left == [fed EXCEPT !.frames = <<>>]
           y == FoldLeft(Fed, x, w)
           z == FoldLeft(Fed, left, v)
           c == FoldLeft(Settled, acc, y.frames)
           e == FoldLeft(Settled, acc, fs)
           k == FoldLeft(Settled, e, z.frames)
<1>1. x \in Asm /\ x.frames = <<>> /\ w \in Seq(Bytes) /\ acc \in Acc /\ Sound(begun, y, c)
  BY Zenon DEF Heard
<1>2. u \in Seq(Bytes) /\ v \in Seq(Bytes) /\ u \o v = w
  <2>1. u \in Seq(Bytes) /\ v \in Seq(Bytes) /\ Cuts(w, n)
    BY <1>1, CutInTwo
  <2> QED
    BY <2>1, Zenon DEF Cuts
<1> HIDE DEF u, v
<1>3. fed = FoldLeft(Fed, x, u) /\ fed \in Asm
  <2>1. [x EXCEPT !.frames = <<>>] = x
    <3> DEFINE none == <<>>
    <3>1. x.frames = none
      BY <1>1
    <3> HIDE DEF none
    <3>2. [x EXCEPT !.frames = none] = x
      BY <1>1, <3>1 DEF Asm
    <3> QED
      BY <3>2 DEF none
  <2>2. fed = FoldLeft(Fed, x, u)
    BY <2>1, Zenon DEF Feed
  <2>3. FoldLeft(Fed, x, u) \in Asm
    BY <1>1, <1>2, FedJoins
  <2> QED
    BY <2>2, <2>3, Zenon
<1> HIDE DEF fed
<1>4. fs \in Seq(Frames) /\ left \in Asm /\ left.frames = <<>> /\ [left EXCEPT !.frames = fs] = fed
  <2> DEFINE none == <<>>
  <2>1. none \in Seq(Frames) /\ fs \in Seq(Frames)
    BY <1>3 DEF Asm
  <2>2. \A i, j \in Seq(Frames) : /\ [fed EXCEPT !.frames = i] \in Asm
                                  /\ [fed EXCEPT !.frames = i].frames = i
    BY <1>3 DEF Asm
  <2> HIDE DEF none
  <2>3. [[fed EXCEPT !.frames = none] EXCEPT !.frames = fs] = fed
    BY <1>3, <2>1 DEF Asm
  <2> QED
    BY <2>1, <2>2, <2>3, Zenon DEF none
<1> HIDE DEF fs, left
<1>5. z \in Asm /\ y = [z EXCEPT !.frames = fs \o z.frames]
  <2>1. z \in Asm
    BY <1>2, <1>4, FedJoins
  <2>2. FoldLeft(Fed, x, u \o v) = FoldLeft(Fed, fed, v)
    BY <1>1, <1>2, <1>3, FedJoins
  <2>3. y = FoldLeft(Fed, fed, v)
    BY <1>2, <2>2, Zenon
  <2>4. FoldLeft(Fed, [left EXCEPT !.frames = fs], v) = [z EXCEPT !.frames = fs \o z.frames]
    BY <1>2, <1>4, FedFrames
  <2> QED
    BY <1>4, <2>1, <2>3, <2>4, Zenon
<1> HIDE DEF y, z
<1>6. z.frames \in Seq(Frames) /\ fs \o z.frames \in Seq(Frames)
  <2>1. z.frames \in Seq(Frames)
    BY <1>5 DEF Asm
  <2> QED
    BY <1>4, <2>1, JoinedBehind
<1>7. y.bytes = z.bytes /\ y.overflowed = z.overflowed /\ y.frames = fs \o z.frames
  <2> DEFINE gs == fs \o z.frames
  <2>1. gs \in Seq(Frames)
    BY <1>6
  <2>2. y = [z EXCEPT !.frames = gs]
    BY <1>5
  <2> HIDE DEF gs
  <2>3. y.bytes = z.bytes /\ y.overflowed = z.overflowed /\ y.frames = gs
    BY <1>5, <2>1, <2>2 DEF Asm
  <2> QED
    BY <2>3 DEF gs
<1>8. e \in Acc /\ c = k
  <2>1. e \in Acc
    BY <1>1, <1>4, SettledJoins
  <2>2. FoldLeft(Settled, acc, fs \o z.frames) = k
    <3> DEFINE gs == z.frames
    <3>1. gs \in Seq(Frames)
      BY <1>6
    <3> HIDE DEF gs
    <3>2. FoldLeft(Settled, acc, fs \o gs) = FoldLeft(Settled, FoldLeft(Settled, acc, fs), gs)
      BY <1>1, <1>4, <3>1, SettledJoins
    <3> QED
      BY <3>2 DEF gs
  <2>3. c = k
    BY <1>7, <2>2, Zenon
  <2> QED
    BY <2>1, <2>3
<1>9. Sound(begun, z, k)
  <2> HIDE DEF c, k
  <2> QED
    BY <1>1, <1>7, <1>8, Zenon DEF Sound, Sane
<1>10. Heard(begun, left, v, e)
  <2> HIDE DEF e
  <2> QED
    BY <1>2, <1>4, <1>8, <1>9, Zenon DEF Heard, k, z
<1> QED
  BY <1>10, Zenon DEF left, v, e, fs, fed, u

\* So no measure has been forged, and a silent port owes no more than noise costs.
LEMMA HeardHolds ==
    ASSUME NEW begun, NEW x, NEW w, NEW acc, Heard(begun, x, w, acc)
    PROVE  /\ ~acc.forged
           /\ w = <<>> /\ x.bytes = <<>> => Len(acc.owed) <= acc.spoilt
           /\ w \in Seq(Bytes)
<1> DEFINE y == FoldLeft(Fed, x, w)
           c == FoldLeft(Settled, acc, y.frames)
<1>1. x \in Asm /\ x.frames = <<>> /\ w \in Seq(Bytes) /\ acc \in Acc /\ Sound(begun, y, c)
  BY Zenon DEF Heard
<1>2. y \in Asm /\ y.frames \in Seq(Frames) /\ ~c.forged
  <2>1. y \in Asm
    BY <1>1, FedJoins
  <2>2. y.frames \in Seq(Frames)
    BY <2>1 DEF Asm
  <2> QED
    BY <1>1, <2>1, <2>2, Zenon DEF Sound
<1>3. ~acc.forged
  <2> DEFINE fs == y.frames
  <2>1. fs \in Seq(Frames) /\ ~FoldLeft(Settled, acc, fs).forged /\ 0 \in Int /\ <<>> \in Seq(Frames)
    BY <1>2
  <2> HIDE DEF fs
  <2> QED
    BY <1>1, <2>1, SettledAllMore, Zenon
<1>4. ASSUME w = <<>>, x.bytes = <<>>
      PROVE  Len(acc.owed) <= acc.spoilt
  <2>1. y = x
    BY <1>1, <1>4, FedNone, Zenon
  <2>2. c = acc
    BY <1>1, <2>1, SettledNone, Zenon
  <2>3. Len(acc.owed) + 0 <= acc.spoilt
    BY <1>1, <1>4, <2>1, <2>2 DEF Sound
  <2>4. Len(acc.owed) \in Nat /\ acc.spoilt \in Int
    <3>1. acc.owed \in Seq(Frames) /\ acc.spoilt \in Int
      BY <1>1 DEF Acc
    <3> QED
      BY <3>1
  <2> DEFINE l == Len(acc.owed)
  <2> HIDE DEF l
  <2>5. l \in Nat /\ l + 0 <= acc.spoilt /\ acc.spoilt \in Int
    BY <2>3, <2>4 DEF l
  <2>6. l <= acc.spoilt
    BY <2>5
  <2> QED
    BY <2>6 DEF l
<1> QED
  BY <1>1, <1>3, <1>4, Zenon

-----------------------------------------------------------------------------
(* No measure is forged, and noise costs one line. *)

LineInv(begun) ==
    /\ WiredInv
    /\ lines \in Repertoires
    /\ fd = Closed => asm = EmptyLine
    /\ Heard(begun, asm, wire, account)

\* At the start nothing is on the line.
LEMMA LineInit == ASSUME NEW CONSTANT begun PROVE Init => LineInv(begun)
  BY WiredInit, HeardAtFirst, Zenon DEF Init, LineInv

\* Each operation of the thread and each event of the world keeps the account.
LEMMA LineStep ==
    ASSUME NEW CONSTANT begun, LinesArePrinted, NoiseIsNoMeasure(begun)
    PROVE  LineInv(begun) /\ [Next]_vars => LineInv(begun)'
<1> SUFFICES ASSUME LineInv(begun), [Next]_vars PROVE LineInv(begun)'
  OBVIOUS
<1>1. WiredInv' /\ WiredInv /\ lines \in Repertoires /\ Heard(begun, asm, wire, account)
      /\ (fd = Closed => asm = EmptyLine)
  <2>1. WiredInv /\ lines \in Repertoires /\ Heard(begun, asm, wire, account)
        /\ (fd = Closed => asm = EmptyLine)
    BY Zenon DEF LineInv
  <2> QED
    BY <2>1, WiredStep, Zenon
<1>2. MaxLine > 0
  BY Zenon DEF LinesArePrinted
<1>3. plugged \subseteq Devices /\ Closed \notin Devices
  BY <1>1, SerialPathConstants DEF WiredInv, Wired
<1>4. ASSUME NEW s, Close(s), UNCHANGED <<os, lines, plugged>>
      PROVE  LineInv(begun)'
  <2>1. asm' = EmptyLine /\ wire' = <<>> /\ account' = NothingOwed /\ lines' = lines
    BY <1>4, Zenon DEF Close, Reset
  <2>2. Heard(begun, asm', wire', account')
    BY <2>1, HeardAtFirst, Zenon
  <2> QED
    BY <1>1, <2>1, <2>2, Zenon DEF LineInv
<1>5. CASE TryOpen
  <2>0. PICK path \in Range(Ranked(os, plugged, Chosen, {})) : \E o \in Opened(path) :
          /\ fd' = o.on
          /\ asm' = IF o.ok THEN Reset(asm) ELSE asm
          /\ wire' \in {<<>>} \cup (IF o.ok /\ o.on \in Boxes
                                    THEN UNION {LeftOf(p.bytes) : p \in lines} ELSE {})
    BY <1>5, Zenon DEF TryOpen
  <2>1. PICK o \in Opened(path) :
          /\ fd' = o.on
          /\ asm' = IF o.ok THEN Reset(asm) ELSE asm
          /\ wire' \in {<<>>} \cup (IF o.ok /\ o.on \in Boxes
                                    THEN UNION {LeftOf(p.bytes) : p \in lines} ELSE {})
    BY <2>0
  <2>2. account' = NothingOwed /\ lines' = lines /\ fd = Closed
    BY <1>1, <1>5 DEF TryOpen, WiredInv, PortAgrees
  <2>3. asm' = EmptyLine
    BY <1>1, <2>1, <2>2, Zenon DEF Reset
  <2>4. CASE wire' = <<>>
    <3>1. Heard(begun, asm', wire', account')
      BY <2>2, <2>3, <2>4, HeardAtFirst, Zenon
    <3> QED
      BY <1>1, <2>2, <2>3, <3>1, Zenon DEF LineInv
  <2>5. CASE wire' # <<>>
    <3>1. PICK p \in lines : wire' \in LeftOf(p.bytes)
      <4>1. wire' \in UNION {LeftOf(p.bytes) : p \in lines}
        BY <2>1, <2>5, Zenon
      <4> QED
        BY <4>1, Zenon
    <3>2. Heard(begun, EmptyLine, wire', NothingOwed)
      BY <1>1, <2>5, <3>1, HeardTail, Zenon
    <3>3. Heard(begun, asm', wire', account')
      BY <2>2, <2>3, <3>2, Zenon
    <3> QED
      BY <1>1, <2>2, <2>3, <3>3, Zenon DEF LineInv
  <2> QED
    BY <2>4, <2>5
<1>6. CASE Read
  <2>1. PICK n \in {Min({ReadMax, Len(wire)}), Min({3, Len(wire)})} :
          LET fed == Feed(asm, SubSeq(wire, 1, n)) IN
          /\ wire' = Rest(wire, n)
          /\ asm' = [fed EXCEPT !.frames = <<>>]
          /\ account' = FoldLeft(Settled, account, fed.frames)
    BY <1>6, Zenon DEF Read
  <2>2. fd' = fd /\ lines' = lines /\ fd \in plugged
    BY <1>6, Zenon DEF Read
  <2>3. n \in 0 .. Len(wire)
    <3> DEFINE m == Len(wire)
    <3>1. m \in Nat /\ ReadMax \in Nat
      <4>1. wire \in Seq(Bytes)
        BY <1>1, HeardHolds, Zenon
      <4> QED
        BY <4>1, SerialPathConstants
    <3>2. n \in {Min({ReadMax, m}), Min({3, m})}
      BY <2>1
    <3> HIDE DEF m
    <3>3. \A a, b \in Int : Min({a, b}) \in {a, b} /\ Min({a, b}) <= a /\ Min({a, b}) <= b
      BY MinOfTwo
    <3>4. ASSUME NEW a \in Nat PROVE Min({a, m}) \in 0 .. m
      <4> DEFINE i == Min({a, m})
      <4>1. a \in Int /\ m \in Int
        BY <3>1
      <4>2. i \in {a, m} /\ i <= m
        BY <3>3, <4>1
      <4> HIDE DEF i
      <4>3. i \in 0 .. m
        BY <3>1, <4>2
      <4> QED
        BY <4>3 DEF i
    <3>5. 3 \in Nat
      OBVIOUS
    <3> QED
      BY <3>1, <3>2, <3>4, <3>5, Zenon DEF m
  <2>4. Heard(begun, asm', wire', account')
    BY <1>1, <2>1, <2>3, HeardRead, Zenon
  <2>5. fd' # Closed
    BY <1>3, <2>2
  <2> QED
    BY <1>1, <2>2, <2>4, <2>5, Zenon DEF LineInv
<1>7. ASSUME NEW p \in lines, Prints(p)
      PROVE  LineInv(begun)'
  <2>1. /\ wire' = wire \o p.bytes /\ asm' = asm /\ fd' = fd /\ lines' = lines
        /\ account' = IF p.frame[1] \in Measures
                      THEN [account EXCEPT !.owed = Append(@, p.frame)] ELSE account
    BY <1>7, Zenon DEF Prints
  <2>2. Heard(begun, asm', wire', account')
    BY <1>1, <2>1, HeardLine, Zenon
  <2> QED
    BY <1>1, <2>1, <2>2, Zenon DEF LineInv
<1>8. ASSUME NEW bytes \in Noises, Noise(bytes)
      PROVE  LineInv(begun)'
  <2>1. /\ wire' = wire \o bytes /\ asm' = asm /\ fd' = fd /\ lines' = lines
        /\ account' = [account EXCEPT !.spoilt = @ + 1]
    BY <1>8, Zenon DEF Noise
  <2>2. Heard(begun, asm', wire', account')
    BY <1>1, <1>2, <2>1, HeardNoise, Zenon
  <2> QED
    BY <1>1, <2>1, <2>2, Zenon DEF LineInv
<1>9. ASSUME UNCHANGED <<lines, fd, wire, asm, account>>
      PROVE  LineInv(begun)'
  <2>1. lines' = lines /\ fd' = fd /\ wire' = wire /\ asm' = asm /\ account' = account
    BY <1>9
  <2> QED
    BY <1>1, <2>1, Zenon DEF LineInv
<1>10. CASE FallsSilent
  BY <1>9, <1>10 DEF FallsSilent
<1>11. ASSUME NEW d \in Boxes, Plug(d) \/ Unplug(d)
       PROVE  LineInv(begun)'
  BY <1>9, <1>11 DEF Plug, Unplug
<1>12. CASE Vanished \/ GivesUp \/ ReadFails
  BY <1>4, <1>12, Zenon DEF Vanished, GivesUp, ReadFails
<1>13. CASE World
  BY <1>7, <1>8, <1>11, <1>13, Zenon DEF World
<1>14. CASE UNCHANGED vars
  BY <1>9, <1>14 DEF vars
<1> QED
  BY <1>5, <1>6, <1>10, <1>12, <1>13, <1>14, Zenon DEF Next, Thread

\* Whatever noise, cuts and openings make of the lines, no measure comes that the
\* box has not printed, none twice and none before one printed earlier: feed,
\* parse_line and the resets of try_scan_and_open and close_port.
THEOREM NoMeasureForged ==
    ASSUME NEW CONSTANT begun, LinesArePrinted, NoiseIsNoMeasure(begun)
    PROVE  Spec => []NothingForged
<1>1. LineInv(begun) => NothingForged
  BY HeardHolds, Zenon DEF LineInv, NothingForged
<1> QED
  BY <1>1, LineInit, LineStep, PTL DEF Spec

\* And a noise takes at most the line behind it, even one that overflowed the
\* buffer: feed, with kMaxLine.
THEOREM OneLineAtMost ==
    ASSUME NEW CONSTANT begun, LinesArePrinted, NoiseIsNoMeasure(begun)
    PROVE  Spec => []NoiseCostsOneLine
<1>1. LineInv(begun) => NoiseCostsOneLine
  BY HeardHolds, Zenon DEF LineInv, NoiseCostsOneLine
<1> QED
  BY <1>1, LineInit, LineStep, PTL DEF Spec
=============================================================================
