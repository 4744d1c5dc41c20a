------------------------------ MODULE Emulator ------------------------------
(***************************************************************************)
(* The emulator of the box, tools/ss_emu: the firmware, riders who turn    *)
(* its rollers, a scenario of faults and a pseudo-terminal, driven by the  *)
(* loop of main.cpp.  One turn of that loop is a millisecond: Input, then  *)
(* Iters passes of the firmware, then Output.  A client at the other end   *)
(* sends commands the driver's check accepts, and reads.                   *)
(*                                                                         *)
(* Speeds are real numbers in the code.  Here a wheel advances by 0 or 1   *)
(* a pass, and Turn is its circumference.  A frame is what the credit of   *)
(* the line counts in.                                                     *)
(***************************************************************************)
EXTENDS Firmware

CONSTANTS
    Wired,          \* riders on a wired sensor: the lanes below
    Turn,           \* circumference_mm_
    PulseLow,       \* kPulseLowMs, in passes
    Iters,          \* kItersPerMs
    Faults,         \* the faults injected, in order
    Latency,        \* --latency-ms
    CreditPerMs,    \* kBytesPerMs
    CreditMax,      \* 4096 in pump_tx
    OutboxMax,      \* 65536 in pump_tx
    OpenMayFail,    \* whether the system may refuse a pseudo-terminal
    ClientStalls,   \* whether a write may find the terminal full
    Tried,          \* commands the client may want to send
    MaxSent         \* bound: the commands it sends

FaultKinds == {"FalseStart", "PhantomTick", "LinkLoss", "LinkReturn", "CorruptFrame",
               "NullByte", "Freeze", "TruncatedLine"}

ASSUME EmulatorConstants ==
    /\ Wired \subseteq Lanes
    /\ {Turn, PulseLow, Iters} \subseteq Nat \ {0}
    /\ {Latency, CreditPerMs, CreditMax, OutboxMax, MaxSent} \subseteq Nat
    /\ OpenMayFail \in BOOLEAN /\ ClientStalls \in BOOLEAN
    /\ Faults \in Seq([kind : FaultKinds, at : Nat, rider : Lanes \cup {-1}, param : Nat])
    /\ Tried \subseteq Seq(STRING)

VARIABLES
    fw,        \* FirmwareSim
    left,      \* what is left of the turn of each wheel
    low,       \* passes each sensor stays low
    turns,     \* ticks_ of RiderModel, in a race
    early,     \* false_start_
    running,   \* running_ of RiderModel
    raceMs,    \* sim_ms - race_start_ms
    fired,     \* faults already applied to this race
    armed,     \* false_start_armed
    wasRacing, \* was_running
    freeze,    \* ms until the freeze is over
    held,      \* output kept back by the freeze
    delayed,   \* frames under way, each with the ms it has left
    pty,       \* PtyPort: master, slave, device, link, outbox, credit
    step,      \* where main is in its loop
    line,      \* bytes of the client that wait in the terminal
    asked,     \* the last length the client asked for
    sent       \* how many commands it has sent

riderVars == <<left, low, turns, early, running>>
sceneVars == <<raceMs, fired, armed, wasRacing>>
outVars == <<freeze, held, delayed, pty>>
clientVars == <<line, asked, sent>>
vars == <<fw, riderVars, sceneVars, outVars, step, clientVars>>

NoDevice == 0
Closed == [master |-> FALSE, slave |-> FALSE, device |-> NoDevice, link |-> NoDevice,
           outbox |-> <<>>, credit |-> 0, pumped |-> FALSE]

-----------------------------------------------------------------------------
(* The pseudo-terminal. *)

\* close leaves the link behind.
Close(p) == [Closed EXCEPT !.link = p.link]

\* The states create_pty and refresh_link may reach: the master and its settings,
\* the slave and its settings, the link removed, the link made again.
Tries(p) ==
    LET new == IF p.link = 1 THEN 2 ELSE 1
        master == [Close(p) EXCEPT !.master = TRUE, !.device = new]
        slave == [master EXCEPT !.slave = TRUE]
    IN  <<Close(p), master, slave, [slave EXCEPT !.link = NoDevice],
          [slave EXCEPT !.link = new]>>

\* Mutant: what a failed open has opened stays open.
OpeningsKept(p) ==
    LET tries == Tries(p) IN
    {tries[Len(tries)]} \cup (IF OpenMayFail THEN {tries[k] : k \in DOMAIN tries} ELSE {})

\* The outcomes of reopen: complete, or closed again where a step failed.
Openings(p) ==
    LET tries == Tries(p) IN
    {tries[Len(tries)]} \cup (IF OpenMayFail THEN {Close(tries[k]) : k \in DOMAIN tries} ELSE {})

Queue(p, frames) == [p EXCEPT !.outbox = @ \o frames]

\* What the line may carry now; the first call of pump_tx only looks at the clock.
Credit(p) == IF p.pumped THEN Min({p.credit + CreditPerMs, CreditMax}) ELSE p.credit

\* The outcomes of pump_tx: what is written, by the credit of the line, has left.
Pumped(p) ==
    IF ~p.master THEN {[p EXCEPT !.outbox = <<>>]}
    ELSE LET budget == Min({Len(p.outbox), Credit(p)})
             After(w) == LET rest == SubSeq(p.outbox, w + 1, Len(p.outbox)) IN
                 [p EXCEPT !.pumped = TRUE,
                           !.credit = Credit(p) - w,
                           !.outbox = IF budget = 0 THEN rest
                                      ELSE SubSeq(rest, Max({0, Len(rest) - OutboxMax}) + 1,
                                                  Len(rest))]
         IN  {After(w) : w \in {budget} \cup (IF ClientStalls THEN {0} ELSE {})}

-----------------------------------------------------------------------------
(* The scenario. *)

\* due: each fault once a race, in the order they were given.
Due(t, done) ==
    {k \in DOMAIN Faults : Faults[k].kind # "FalseStart" /\ k \notin done /\ t >= Faults[k].at}

PreRace == {Faults[k].rider : k \in {j \in DOMAIN Faults : Faults[j].kind = "FalseStart"}}

\* What one fault does to the terminal.
Struck(p, fault) ==
    CASE fault.kind = "LinkLoss" -> {Close(p)}
      [] fault.kind = "LinkReturn" -> Openings(p)
      [] fault.kind \in {"CorruptFrame", "NullByte", "TruncatedLine"} ->
            {Queue(p, <<<<fault.kind>>>>)}
      [] OTHER -> {p}

Strike(ports, k) == UNION {Struck(p, Faults[k]) : p \in ports}

\* Those the faults ks leave.
Stricken(p, ks) == FoldLeft(Strike, {p}, Ascending(ks))

Rollers(ks) == {Faults[k].rider : k \in {j \in ks : Faults[j].kind = "PhantomTick"}}

Freezes(ks) ==
    LET gels == {k \in ks : Faults[k].kind = "Freeze"}
    IN  IF gels = {} THEN freeze ELSE Faults[Max(gels)].param

\* rearm, at the start of a race.
Rearmed(starts) == IF starts THEN {} ELSE fired

\* The head of the loop of main: read, rearm, apply the faults due.
Input ==
    LET starts == fw.started /\ ~wasRacing
        calls == fw.starting /\ ~(armed /\ ~starts)
        ks == IF fw.started THEN Due(raceMs', Rearmed(starts)) ELSE {}
    IN  /\ step = 0
        /\ step' = 1
        /\ fw' = IF pty.master THEN [fw EXCEPT !.rx = @ \o line] ELSE fw
        /\ raceMs' = IF starts THEN 0 ELSE raceMs
        /\ wasRacing' = fw.started
        /\ armed' = (calls \/ (armed /\ ~starts))
        /\ early' = IF fw.started THEN {} ELSE IF calls THEN early \cup PreRace ELSE early
        /\ running' = fw.started
        /\ left' = IF fw.started /\ ~running THEN [i \in Lanes |-> Turn] ELSE left
        /\ turns' = IF fw.started /\ ~running THEN Zero ELSE turns
        /\ fired' = Rearmed(starts) \cup ks
        /\ low' = [i \in Lanes |-> IF i \in Rollers(ks) THEN PulseLow ELSE low[i]]
        /\ freeze' = Freezes(ks)
        /\ pty' \in Stricken(pty, ks)
        /\ line' = <<>>
        /\ UNCHANGED <<held, delayed, asked, sent>>

-----------------------------------------------------------------------------
(* The riders and the firmware. *)

\* speed_at in a race, 12 km/h for a false start, and a roller nobody is on.
\* Bound: the riders stop with the clock.
Speeds(i) == IF i \notin Wired THEN {0}
             ELSE IF running THEN (IF fw.clock < MaxClock THEN {0, 1} ELSE {0})
             ELSE IF i \in early THEN {1}
             ELSE {0}

\* update: the wheels advance, a full turn is a pulse, then a pass of the loop.
Pass ==
    \E speed \in [Lanes -> {0, 1}] :
        LET turned == {i \in Lanes : left[i] <= speed[i]} IN
        /\ \A i \in Lanes : speed[i] \in Speeds(i)
        /\ step \in 1 .. Iters
        /\ step' = step + 1
        /\ left' = [i \in Lanes |-> (left[i] - speed[i]) + (IF i \in turned THEN Turn ELSE 0)]
        /\ turns' = [i \in Lanes |-> IF i \in turned /\ running THEN turns[i] + 1 ELSE turns[i]]
        /\ low' = [i \in Lanes |-> IF i \in turned THEN PulseLow ELSE Max({0, low[i] - 1})]
        /\ fw' = Tick([fw EXCEPT !.pin = [i \in Lanes |-> low'[i] = 0]])
        /\ UNCHANGED <<early, running, sceneVars, outVars, clientVars>>

-----------------------------------------------------------------------------
(* The tail of the loop. *)

\* Mutant: what the freeze kept back leaves after what follows it.
ReleasedAfter(tx) == IF freeze > 0 THEN <<>> ELSE tx \o held

\* Mutant: what the freeze kept back waits for something to follow.
ReleasedBehind(tx) == IF freeze > 0 \/ tx = <<>> THEN <<>> ELSE held \o tx

\* What leaves the firmware, with what a freeze has kept back.
Released(tx) == IF freeze > 0 THEN <<>> ELSE held \o tx

\* Frames without their delay.
Told(queue) == [k \in DOMAIN queue |-> queue[k].frame]

\* How many leave the queue of the latency: its front, while the delay is over.
Ripe(queue) == Cardinality({k \in DOMAIN queue : \A j \in 1 .. k : queue[j].ms <= 0})

\* Without latency a frame leaves the queue as it enters it.
Output ==
    LET out == Released(fw.tx)
        queue == delayed \o [k \in DOMAIN out |-> [ms |-> Latency, frame |-> out[k]]]
        ripe == Ripe(queue)
        rest == SubSeq(queue, ripe + 1, Len(queue))
    IN  /\ step = Iters + 1
        /\ step' = 0
        /\ fw' = Elapse([fw EXCEPT !.tx = <<>>])
        /\ held' = IF out = <<>> THEN held \o fw.tx ELSE <<>>
        /\ delayed' = [k \in DOMAIN rest |-> [ms |-> rest[k].ms - 1, frame |-> rest[k].frame]]
        /\ pty' \in Pumped(Queue(pty, Told(SubSeq(queue, 1, ripe))))
        /\ freeze' = Max({0, freeze - 1})
        /\ raceMs' = IF fw.started /\ raceMs < MaxClock THEN raceMs + 1 ELSE raceMs
        /\ UNCHANGED <<riderVars, fired, armed, wasRacing, clientVars>>

-----------------------------------------------------------------------------
(* The client. *)

\* The driver writes whole commands, each with its end of line.
Send(cmd) ==
    /\ pty.master
    /\ line = <<>> /\ fw.rx = <<>>
    /\ sent < MaxSent
    /\ Valid(cmd)
    /\ line' = Append(cmd, "\n")
    /\ asked' = IF cmd[1] = "l" THEN Decimal(Tail(cmd)) ELSE asked
    /\ sent' = sent + 1
    /\ UNCHANGED <<fw, riderVars, sceneVars, outVars, step>>

Init ==
    /\ fw = Boot
    /\ left = [i \in Lanes |-> Turn]
    /\ low = Zero
    /\ turns = Zero
    /\ early = {}
    /\ running = FALSE
    /\ raceMs = 0
    /\ fired = {}
    /\ armed = FALSE
    /\ wasRacing = FALSE
    /\ freeze = 0
    /\ held = <<>>
    /\ delayed = <<>>
    /\ pty = [Closed EXCEPT !.master = TRUE, !.slave = TRUE, !.device = 1, !.link = 1]
    /\ step = 0
    /\ line = <<>>
    /\ asked = DefaultLength
    /\ sent = 0

Turns == Input \/ Pass \/ Output

Next == Turns \/ \E cmd \in Tried : Send(cmd)

Spec == Init /\ [][Next]_vars

\* main never waits for anybody: whatever happens, its loop comes to its next step.
FairSpec == Spec /\ WF_step(step' = (step + 1) % (Iters + 2))

-----------------------------------------------------------------------------
(* Properties. *)

\* What the box has printed and the line has not carried, oldest first.
Pipeline == pty.outbox \o Told(delayed) \o held \o fw.tx

\* A terminal is open whole or not at all, whichever step of opening it fails,
\* and the stable path a client was given leads to it.
PortIsWhole == pty.master => pty.slave /\ pty.device # NoDevice /\ pty.link = pty.device

Phantoms(i) == Cardinality({k \in fired : Faults[k].kind = "PhantomTick" /\ Faults[k].rider = i})

\* Through stops, restarts and rebounds the box counts the turns of the rollers: a
\* pulse under way is not counted yet, one the start cuts counts for none, and a
\* rebound adds a tick, or hides one when it joins two pulses.
TicksFollowTurns ==
    fw.started /\ running /\ ~fw.mock =>
        \A i \in Lanes :
            fw.ticks[i] \in turns[i] - Phantoms(i) - 1 .. turns[i] + Phantoms(i) + 1

\* A false start is told of a rider of the scenario only, whatever the race
\* before has left in the samples of the sensors.
FalseStartIsEarned ==
    \A k \in DOMAIN fw.tx : fw.tx[k][1] = "FS" => fw.tx[k][2] \in PreRace \cap Wired

\* None of the lengths the client may ask for overruns the buffer or becomes another.
LengthIsTheOneAsked ==
    /\ ~fw.overflow
    /\ line = <<>> /\ fw.rx = <<>> /\ fw.receiving = "none" => fw.length = asked

\* The check of the driver leaves no command the box takes for another in 16 bits:
\* it races over the length last asked for, and a timed race, whatever duration was
\* sent for it, ends on the word of the client only.
RaceIsTheOneAsked ==
    [][/\ LengthIsTheOneAsked'
       /\ fw.started /\ ~fw'.started /\ ~fw'.distance =>
              fw.rx # <<>> /\ fw.rx[1] \in {"s", "g"}]_vars

\* No freeze, latency or cut makes an older sample follow a newer one of its race.
PipelineInOrder ==
    LET q == Pipeline IN
    \A j, k \in DOMAIN q :
        j < k /\ q[j][1] = "R" /\ q[k][1] = "R" =>
            q[j][3] < q[k][3] \/ \E c \in j .. k : q[c][1] = "CD"

\* What a freeze has kept back is told, even when the box has nothing to add.
FreezeEnds == held # <<>> ~> held = <<>>
=============================================================================
