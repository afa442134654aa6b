---------------------------- MODULE BranchTests ----------------------------
(***************************************************************************)
(* The breaker, voltage and load tests of one box: BreakerTest,            *)
(* stepVolTest and stepLoadTest of Power_CoreThread with the branch tests  *)
(* of Power_DevRead behind them.                                           *)
(*                                                                         *)
(* Every branch test is one loop: it sends a relay command or asks the     *)
(* operator to switch a breaker, reads the box until the sensors show the  *)
(* pattern it wants, and gives up after so many rounds.  The forty or so   *)
(* loops differ in what they command, what they want, when they read and   *)
(* when they judge; those differences are the rows of Plan.                *)
(*                                                                         *)
(* The box has sensors which may be wired to the wrong tap, read a wrong   *)
(* level under load or show a residue without load.  A failed read leaves  *)
(* the values of an earlier read, or of an earlier product, in place, and  *)
(* the loops judge those too.                                              *)
(***************************************************************************)
EXTENDS Integers, Sequences

CONSTANTS
    Products,    \* the boxes under test: records [kind, sensors]
    Patience     \* rounds of a loop before it gives up (40 to 90 in the code)

\* loopNum 9, 6 or 3; a box with three branches of one phase each; a start box.
Kinds == {"nine", "six", "three", "single", "start"}

Quantities == {"vol", "cur", "pow"}
Levels == {"zero", "odd", "good"}    \* odd: neither zero nor in the range allowed
Good == {"good"}
NotGood == {"zero", "odd"}
Zero == {"zero"}
NonZero == {"odd", "good"}

-----------------------------------------------------------------------------
\* Sensors, named as the array index + 1, and where a sound box has them.  A
\* start box also compares its total power with that of its phases.

Branches(kind) == 1 .. CASE kind \in {"nine", "single"} -> 3
                         [] kind = "six"                -> 2
                         [] kind \in {"three", "start"} -> 1

Sensors(kind, q) ==
    CASE q = "pow" -> IF kind = "start" THEN {1} ELSE {}
      [] OTHER -> 1 .. CASE kind = "nine" -> 9 [] kind = "six" -> 6 [] OTHER -> 3

Branch(kind, tap) == IF kind = "single" THEN tap ELSE (tap - 1) \div 3 + 1
Phase(kind, tap)  == IF kind = "single" THEN 1 ELSE ((tap - 1) % 3) + 1

Loose == 0    \* a sensor wired to no tap

Sensor == [tap : 0..9, live : {"odd", "good"}, idle : {"zero", "odd"}]

IsProduct(p) ==
    /\ p.kind \in Kinds
    /\ DOMAIN p.sensors = Quantities
    /\ \A q \in Quantities :
          /\ DOMAIN p.sensors[q] = Sensors(p.kind, q)
          /\ \A i \in Sensors(p.kind, q) :
                /\ p.sensors[q][i] \in Sensor
                /\ p.sensors[q][i].tap \in Sensors(p.kind, "vol") \cup {Loose}

ASSUME ProductsAssumption == \A p \in Products : IsProduct(p)
ASSUME PatienceAssumption == Patience \in Nat

Sound(kind) ==
    [kind |-> kind,
     sensors |-> [q \in Quantities |->
                    [i \in Sensors(kind, q) |->
                       [tap |-> i, live |-> "good", idle |-> "zero"]]]]

\* The bench: supply lines switched on, the outputs that have their loads connected,
\* and the breakers the operator has opened.  A relay command is a sum of these.
Command(relays) == [lines   |-> {n \in 1..3 : <<1, 32, 64>>[n] \in relays},
                    outputs |-> {n \in 1..3 : <<2, 4, 8>>[n] \in relays}]
Powered == Command({1, 32, 64})

Fed(kind, on, opened, q, tap) ==
    /\ tap # Loose
    /\ Phase(kind, tap) \in on.lines
    /\ Branch(kind, tap) \notin opened
    /\ q # "vol" => Branch(kind, tap) \in on.outputs

Reading(p, b) ==
    [q \in Quantities |->
       [i \in Sensors(p.kind, q) |->
          LET s == p.sensors[q][i]
          IN IF Fed(p.kind, b.on, b.opened, q, s.tap) THEN s.live ELSE s.idle]]

-----------------------------------------------------------------------------
(***************************************************************************)
(* A row of Plan is one loop:                                              *)
(*   q, want   the levels it wants of which sensors                        *)
(*   cmd       the relay command it sends first: none or one               *)
(*   ask       what it asks the operator to open first: nothing or a set   *)
(*   after     what it asks once it ended, in the same form                *)
(*   reads     whether it reads in every round, or only until a read fails *)
(*   judges    whether it judges in every round, only in rounds that       *)
(*             started with a read, or only after a good read              *)
(*   onward    whether the next loop follows even when this one failed     *)
(*   forces    whether its outcome overwrites ret, the last read's result  *)
(* Below, each function of the code is the loop, or the two loops, that it *)
(* consists of, under the name it has there.                               *)
(***************************************************************************)
Row(q, cmd, want) ==
    [q |-> q, want |-> want, cmd |-> cmd, ask |-> {}, after |-> {},
     reads |-> "always", judges |-> "always", onward |-> FALSE, forces |-> TRUE]

\* The sensors from an array index on, and what is wanted of each.
From(first, levels) == [i \in first + 1 .. first + Len(levels) |-> levels[i - first]]
Three(level) == <<level, level, level>>

Current(relays, first, levels) == Row("cur", {Command(relays)}, From(first, levels))

\* A load test that gives up reading at the first read that fails.
Impatient(r) == [r EXCEPT !.reads = "untilFailed", !.judges = "withRead"]
Onward(r) == [r EXCEPT !.onward = TRUE]

\* Breakers: the operator opens one, its branch goes dark, the others stay.
Breaker(n, levels) == [Row("vol", {}, From(0, levels)) EXCEPT !.ask = {{n}}]
ThenClose(r) == [r EXCEPT !.after = {{}}]
ReadsOnce(r) == [r EXCEPT !.reads = "untilFailed"]

NineInsertOne_BreakerOne == ReadsOnce(Breaker(1, Three(Zero) \o Three(Good) \o Three(Good)))
NineInsertOne_BreakerTwo == Breaker(2, Three(Good) \o Three(Zero) \o Three(Good))
NineInsertOne_BreakerThree == ThenClose(Breaker(3, Three(Good) \o Three(Good) \o Three(Zero)))
Break_NineLoop ==
    <<NineInsertOne_BreakerOne, NineInsertOne_BreakerTwo, NineInsertOne_BreakerThree>>

SixInsertOne_BreakerOne == Breaker(1, Three(Zero) \o Three(Good))
SixInsertOne_BreakerTwo == ThenClose(Breaker(2, Three(Good) \o Three(Zero)))
Break_SixLoop == <<SixInsertOne_BreakerOne, SixInsertOne_BreakerTwo>>

Three_Breaker == ThenClose(Breaker(1, Three(Zero)))

Three_OneBreaker == ThenClose(ReadsOnce(Breaker(1, <<Zero, Good, Good>>)))
Three_TwoBreaker == ThenClose(ReadsOnce(Breaker(2, <<Good, Zero, Good>>)))
Three_ThreeBreaker == ThenClose(ReadsOnce(Breaker(3, <<Good, Good, Zero>>)))
Three_Break == <<Three_OneBreaker, Three_TwoBreaker, Three_ThreeBreaker>>

BreakerTest(kind) ==
    CASE kind = "nine"   -> Break_NineLoop
      [] kind = "six"    -> Break_SixLoop
      [] kind = "three"  -> <<Three_Breaker>>
      [] kind = "single" -> Three_Break
      [] kind = "start"  -> <<>>

\* Voltages: what is wanted of L1, L2 and L3 of every branch.
Voltage(kind, relays, levels) ==
    Row("vol", {Command(relays)}, [i \in Sensors(kind, "vol") |-> levels[Phase(kind, i)]])
AfterGoodRead(r) == [r EXCEPT !.judges = "afterGoodRead"]

Vol_ctrlOne(kind)   == Voltage(kind, {1, 64}, <<Good, Zero, Good>>)
Vol_ctrlTwo(kind)   == AfterGoodRead(Voltage(kind, {1, 32}, <<Good, Good, Zero>>))
Vol_ctrlThree(kind) == AfterGoodRead(Voltage(kind, {1, 32, 64}, Three(Good)))

StepVolTest(kind) ==
    IF kind = "single" THEN <<>>
    ELSE <<Vol_ctrlOne(kind), Vol_ctrlTwo(kind), Vol_ctrlThree(kind)>>

\* Loads.  The last row of an output looks for a residue with no load connected.
\* Mutant of Insert_NoneOutput: the residue of the first output is looked at always.
NoneOutputOfFirst(index) == Current({1, 32, 64}, 0, Three(Zero))

Insert_NoneOutput(index) == Current({1, 32, 64}, 3 * (index - 1), Three(Zero))

NineInsertOne_CtrlOne   == Current({1, 2},     0, <<Good, NotGood, NotGood>>)
NineInsertOne_CtrlTwo   == Current({1, 2, 64}, 0, <<Good, NotGood, Good>>)
NineInsertOne_CtrlThree == Current({1, 2, 32}, 0, <<Good, Good, NotGood>>)

NineInsertTwo_CtrlOne   == <<Onward(Impatient(Current({1, 4, 32, 64}, 3, Three(Good)))),
                             Current({1, 4}, 3, <<Good, NotGood, NotGood>>)>>
NineInsertTwo_CtrlTwo   == Current({1, 4, 64}, 3, <<Good, NotGood, Good>>)
NineInsertTwo_CtrlThree == Current({1, 4, 32}, 3, <<Good, Good, NotGood>>)

NineInsertThree_CtrlOne   == <<Onward(Impatient(Current({1, 8, 32, 64}, 6, Three(Good)))),
                               Current({1, 8}, 6, <<Good, NotGood, NotGood>>)>>
NineInsertThree_CtrlTwo   == Current({1, 8, 64}, 6, <<Good, NotGood, Good>>)
NineInsertThree_CtrlThree == Current({1, 8, 32}, 6, <<Good, Good, NotGood>>)

Load_NineLoop ==
    <<Impatient(Current({1, 2, 32, 64}, 0, Three(Good))),
      NineInsertOne_CtrlOne, NineInsertOne_CtrlTwo, NineInsertOne_CtrlThree, Insert_NoneOutput(1)>>
    \o NineInsertTwo_CtrlOne \o
    <<NineInsertTwo_CtrlTwo, NineInsertTwo_CtrlThree, Insert_NoneOutput(2)>>
    \o NineInsertThree_CtrlOne \o
    <<NineInsertThree_CtrlTwo, NineInsertThree_CtrlThree, Insert_NoneOutput(3)>>

SixInsertOne_CtrlOne   == Current({1, 2},     0, <<NonZero, NotGood, NotGood>>)
SixInsertOne_CtrlTwo   == Current({1, 2, 64}, 0, <<Good, Zero, Good>>)
SixInsertOne_CtrlThree == Current({1, 2, 32}, 0, <<Good, Good, Zero>>)

\* Mutant of SixInsertTwo_CtrlTwo: the relays of L2 and L3 are swapped.
SixInsertTwo_CtrlTwoSwapped == Current({1, 4, 32}, 3, <<Good, Zero, Good>>)

SixInsertTwo_CtrlOne   == <<Onward(Impatient(Current({1, 4, 32, 64}, 3, Three(Good)))),
                            Current({1, 4}, 3, <<NonZero, NotGood, NotGood>>)>>
SixInsertTwo_CtrlTwo   == Current({1, 4, 64}, 3, <<Good, Zero, Good>>)
SixInsertTwo_CtrlThree == Current({1, 4, 32}, 3, <<Good, Good, Zero>>)

Load_SixLoop ==
    <<Impatient(Current({1, 2, 32, 64}, 0, Three(Good))),
      SixInsertOne_CtrlOne, SixInsertOne_CtrlTwo, SixInsertOne_CtrlThree, Insert_NoneOutput(1)>>
    \o SixInsertTwo_CtrlOne \o
    <<SixInsertTwo_CtrlTwo, SixInsertTwo_CtrlThree, Insert_NoneOutput(2)>>

Three_CtrlOne   == Current({1, 2},     0, <<NonZero, NotGood, NotGood>>)
Three_CtrlTwo   == Current({1, 2, 64}, 0, <<Good, Zero, Good>>)
Three_CtrlThree == Current({1, 2, 32}, 0, <<Good, Good, Zero>>)

\* Single-phase outputs: load on, load off.
Three_One   == <<Onward(Impatient(Current({1, 2, 32, 64}, 0, <<Good>>))),
                 Current({1, 32, 64}, 0, <<Zero, NotGood, NotGood>>)>>
Three_Two   == <<Onward(Impatient(Current({1, 4, 32, 64}, 1, <<Good>>))),
                 Current({1, 32, 64}, 0, <<NotGood, Zero, NotGood>>)>>
Three_Three == <<Onward(Impatient(Current({1, 8, 32, 64}, 2, <<Good>>))),
                 Current({1, 32, 64}, 0, <<NotGood, NotGood, Zero>>)>>

\* A start box goes on to compare its powers; a difference is noted, and what ret
\* is left with is the last read.
PowerRow == [Row("pow", {}, From(0, <<Good>>)) EXCEPT !.forces = FALSE]

Load_ThreeLoop(kind) ==
    LET allOn    == Current({1, 2, 32, 64}, 0, Three(Good))
        switched == <<Three_CtrlOne, Three_CtrlTwo, Three_CtrlThree, Insert_NoneOutput(1)>>
    IN CASE kind = "start"  -> <<Onward(allOn), PowerRow>> \o switched
         [] kind = "three"  -> <<allOn>> \o switched
         [] kind = "single" -> Three_One \o Three_Two \o Three_Three

StepLoadTest(kind) == CASE kind = "nine" -> Load_NineLoop
                        [] kind = "six"  -> Load_SixLoop
                        [] OTHER         -> Load_ThreeLoop(kind)

Plan == [kind \in Kinds |-> BreakerTest(kind) \o StepVolTest(kind) \o StepLoadTest(kind)]

-----------------------------------------------------------------------------
VARIABLES
    product,    \* the box under test
    bench,      \* what is switched on and which breakers are open
    past,       \* the bench before its last change: a box may still report it
    asked,      \* the breakers the operator was last asked to have open
    shown,      \* the values in mBusData
    at,         \* the row of Plan
    stage,      \* "begin", "loop" or "over"
    ret,        \* the result of the last read, or of the last loop
    flag,       \* rounds of this loop so far
    noted,      \* a failure was noted on the way
    calm,       \* history: no command, read or answer of the operator failed so far
    met,        \* history: data of this box have arrived
    blind       \* history: a loop passed before that

benchVars == <<product, bench, past, asked>>
historyVars == <<calm, met, blind>>
vars == <<benchVars, shown, at, stage, ret, flag, noted, historyVars>>

row == Plan[product.kind][at]

\* What a sound box of this kind tested before may have left in mBusData.
Leftovers(kind) ==
    LET rows == {Plan[kind][k] : k \in DOMAIN Plan[kind]}
    IN {Reading(Sound(kind), [on |-> c, opened |-> o]) :
          c \in UNION {r.cmd : r \in rows}, o \in {{}}} \cup
       {Reading(Sound(kind), [on |-> Powered, opened |-> o]) :
          o \in UNION {r.ask : r \in rows}}

Init ==
    /\ product \in Products
    /\ bench = [on |-> Powered, opened |-> {}]
    /\ past = bench
    /\ asked = {}
    /\ shown \in Leftovers(product.kind)
    /\ at = 1
    /\ stage = "begin"
    /\ ret = TRUE
    /\ flag = 0
    /\ noted = FALSE
    /\ calm = TRUE
    /\ met = FALSE
    /\ blind = FALSE

Switch(b) ==
    /\ bench' = b
    /\ past' = IF b = bench THEN past ELSE bench

\* sendCtrlGnd notes a failure when the controller did not answer at once,
\* whether it obeyed or not.
Begin ==
    /\ stage = "begin"
    /\ IF row.cmd = {}
       THEN UNCHANGED <<bench, past, noted, calm>>
       ELSE \E c \in row.cmd, answered, obeyed \in BOOLEAN :
               /\ answered => obeyed
               /\ Switch(IF obeyed THEN [bench EXCEPT !.on = c] ELSE bench)
               /\ noted' = (noted \/ ~answered)
               /\ calm' = (calm /\ answered)
    /\ asked' = IF row.ask = {} THEN asked ELSE UNION row.ask
    /\ stage' = "loop"
    /\ flag' = 0
    /\ UNCHANGED <<product, shown, at, ret, met, blind>>

\* The operator switches the breakers the way he was asked, or takes his time.
Operator ==
    /\ stage # "over"
    /\ bench.opened # asked
    /\ Switch([bench EXCEPT !.opened = asked])
    /\ UNCHANGED <<product, asked, shown, at, stage, ret, flag, noted, historyVars>>

\* One round of the loop.  A read may answer without data for this box (a reply
\* of another address), and get data and fail (a start box off the network).
Reads == row.reads = "always" \/ ret

Rounds ==
    IF ~Reads THEN {[seen |-> shown, got |-> ret, data |-> FALSE, smooth |-> FALSE]}
    ELSE [seen : {shown}, got : BOOLEAN, data : {FALSE}, smooth : {FALSE}] \cup
         {[seen |-> Reading(product, b), got |-> ok, data |-> TRUE,
           smooth |-> ok /\ b = bench /\ bench.opened = asked] :
             ok \in BOOLEAN, b \in {bench, past}}

Take(r) ==
    /\ shown' = r.seen
    /\ calm' = (calm /\ r.smooth)
    /\ met' = (met \/ r.data)

Judged(r) ==
    CASE row.judges = "always"        -> TRUE
      [] row.judges = "withRead"      -> Reads
      [] row.judges = "afterGoodRead" -> r.got

Meets(r) == Judged(r) /\ \A i \in DOMAIN row.want : r.seen[row.q][i] \in row.want[i]

Advance(ok) ==
    /\ ret' = ok
    /\ IF (ok \/ row.onward) /\ at < Len(Plan[product.kind])
       THEN at' = at + 1 /\ stage' = "begin"
       ELSE at' = at /\ stage' = "over"
    /\ asked' = IF row.after = {} THEN asked ELSE UNION row.after
    /\ UNCHANGED <<product, bench, past, flag>>

Succeed ==
    /\ stage = "loop"
    /\ \E r \in Rounds :
          /\ Meets(r)
          /\ Take(r)
          /\ Advance(row.forces \/ r.got)
          /\ blind' = (blind \/ ~met')
    /\ UNCHANGED noted

\* Mutant of TryAgain: rounds without a read are not counted.
TryAgainUncounted ==
    /\ stage = "loop"
    /\ flag + 1 <= Patience
    /\ \E r \in Rounds :
          /\ ~Meets(r)
          /\ Take(r)
          /\ ret' = r.got
    /\ flag' = IF Reads THEN flag + 1 ELSE flag
    /\ UNCHANGED <<benchVars, at, stage, noted, blind>>

\* Mutant of TryAgain: the limit is compared before the round is counted.
TryAgainLate ==
    /\ stage = "loop"
    /\ flag <= Patience
    /\ \E r \in Rounds :
          /\ ~Meets(r)
          /\ Take(r)
          /\ ret' = r.got
    /\ flag' = flag + 1
    /\ UNCHANGED <<benchVars, at, stage, noted, blind>>

TryAgain ==
    /\ stage = "loop"
    /\ flag + 1 <= Patience
    /\ \E r \in Rounds :
          /\ ~Meets(r)
          /\ Take(r)
          /\ ret' = r.got
    /\ flag' = flag + 1
    /\ UNCHANGED <<benchVars, at, stage, noted, blind>>

\* Mutant of GiveUp: the failure is not noted.
GiveUpSilently ==
    /\ stage = "loop"
    /\ flag + 1 > Patience
    /\ \E r \in Rounds :
          /\ ~Meets(r)
          /\ Take(r)
          /\ Advance(~row.forces /\ r.got)
    /\ UNCHANGED <<noted, blind>>

GiveUp ==
    /\ stage = "loop"
    /\ flag + 1 > Patience
    /\ \E r \in Rounds :
          /\ ~Meets(r)
          /\ Take(r)
          /\ Advance(~row.forces /\ r.got)
    /\ noted' = TRUE
    /\ UNCHANGED blind

Test == Begin \/ Succeed \/ TryAgain \/ GiveUp
Next == Test \/ Operator

Spec == Init /\ [][Next]_vars
FairSpec == Spec /\ WF_vars(Test)

-----------------------------------------------------------------------------
\* The types of the state.
TypeOK ==
    /\ IsProduct(product)
    /\ \A b \in {bench, past} : /\ b.on.lines \subseteq 1..3 /\ b.on.outputs \subseteq 1..3
                                /\ b.opened \subseteq 1..3
    /\ asked \subseteq 1..3
    /\ \A q \in Quantities : shown[q] \in [Sensors(product.kind, q) -> Levels]
    /\ at \in 1 .. Len(Plan[product.kind])
    /\ stage \in {"begin", "loop", "over"}
    /\ flag \in 0 .. Patience
    /\ {ret, noted, calm, met, blind} \subseteq BOOLEAN

\* What the tests of one box can tell: every sensor sits on its own tap and reads
\* right under load, and nothing without; except for the voltage of L1 in a start
\* box, which no test switches off, and for its total power, which is only compared
\* while all phases are loaded.
Proven(p) ==
    \A q \in Quantities : \A i \in Sensors(p.kind, q) :
       LET s == p.sensors[q][i]
       IN /\ s.tap = i \/ q = "pow"
          /\ s.live = "good"
          /\ s.idle = "zero" \/ q = "pow" \/ (p.kind = "start" /\ q = "vol" /\ i = 1)

\* The tests pass a box, with nothing noted, only if all its sensors are wired to
\* their own taps and measure right: whatever reads failed and whatever reading came
\* late; unless the first loop passed on the values an earlier box left behind.
PassMeansSound == stage = "over" /\ ret /\ ~noted /\ ~blind => Proven(product)

\* A sound box on a bench that obeys, reads and is served at once never gets a
\* failure noted: what each loop commands fits the pattern it waits for.
SoundPasses == product = Sound(product.kind) /\ calm => ~noted /\ ret

\* Whoever finds that the tests of a tap-off box returned false finds a note why.
FailureIsNoted == stage = "over" /\ ~ret /\ product.kind # "start" => noted

\* The tests of a box come to an end, with failing reads too.
Ends == <>(stage = "over")
=============================================================================
