------------------------- MODULE BranchTestsProofs -------------------------
(***************************************************************************)
(* Theorems about BranchTests: for any boxes and any patience of the       *)
(* loops.  TLC puts some hundred boxes with one fault or two under test;   *)
(* here a box may be wrong in any number of places.                        *)
(*                                                                         *)
(* The rows of Plan come in four shapes, and most of what is said here is  *)
(* said once for a shape: a breaker row of branch n, a voltage row, a row  *)
(* of the load test of output n, a row of a single-phase output.           *)
(***************************************************************************)
EXTENDS BranchTests, TLAPS

Triples == {"nine", "six", "three"}

\* How many breakers a box has, and where the loads begin.
Breakers(kind) == CASE kind \in {"nine", "single"} -> 3
                    [] kind = "six"   -> 2
                    [] kind = "three" -> 1
                    [] kind = "start" -> 0
Loads(kind) == CASE kind = "nine" -> 6
                 [] kind = "six"  -> 5
                 [] kind = "three" -> 4
                 [] kind \in {"single", "start"} -> 3

\* The lines on in the voltage rows, and in the rows of an output.
VoltLines(m) == CASE m = 1 -> {1, 3} [] m = 2 -> {1, 2} [] m = 3 -> {1, 2, 3}
LoadLines(m) == CASE m \in {1, 5} -> {1, 2, 3} [] m = 2 -> {1} [] m = 3 -> {1, 3} [] m = 4 -> {1, 2}

Switched(lines, outputs) == [lines |-> lines, outputs |-> outputs]
Volts(m) == Switched(VoltLines(m), {})
Loading(n, m) == Switched(LoadLines(m), IF m = 5 THEN {} ELSE {n})

\* The four shapes.
Judging(r) == r.judges \in {"always", "withRead", "afterGoodRead"}
Plain(r) == r.ask = {} /\ r.after = {} /\ Judging(r)

BreakerRow(kind, n, r) ==
    /\ r.q = "vol" /\ r.cmd = {} /\ r.ask = {{n}} /\ Judging(r) /\ r.forces
    /\ r.after = IF n = Breakers(kind) \/ kind = "single" THEN {{}} ELSE {}
    /\ DOMAIN r.want = Sensors(kind, "vol")
    /\ \A i \in Sensors(kind, "vol") : r.want[i] = IF Branch(kind, i) = n THEN Zero ELSE Good

VoltRow(kind, m, r) ==
    /\ r.q = "vol" /\ r.cmd = {Volts(m)} /\ Plain(r) /\ r.forces
    /\ DOMAIN r.want = Sensors(kind, "vol")
    /\ \A i \in Sensors(kind, "vol") : r.want[i] = IF Phase(kind, i) \in VoltLines(m) THEN Good ELSE Zero

\* What the load rows want of the sensor of phase l.
Dark(m, l) == m = 5 \/ l \notin LoadLines(m)
LoadRow(n, m, r) ==
    /\ r.q = "cur" /\ r.cmd = {Loading(n, m)} /\ Plain(r) /\ r.forces
    /\ DOMAIN r.want = 3 * (n - 1) + 1 .. 3 * (n - 1) + 3
    /\ \A l \in 1..3 :
          LET w == r.want[3 * (n - 1) + l]
          IN /\ Dark(m, l) => "zero" \in w /\ w \subseteq NotGood
             /\ ~Dark(m, l) => "good" \in w /\ (m # 2 => w = Good)
             /\ m = 5 => w = Zero

SingleRow(n, m, r) ==
    /\ r.q = "cur" /\ r.cmd = {Loading(n, IF m = 1 THEN 1 ELSE 5)} /\ Plain(r) /\ r.forces
    /\ m = 1 => DOMAIN r.want = {n} /\ r.want[n] = Good
    /\ m = 2 => /\ DOMAIN r.want = 1..3 /\ r.want[n] = Zero
                /\ \A i \in 1..3 : "zero" \in r.want[i]

-----------------------------------------------------------------------------
\* The commands that the rows send.
LEMMA Commands ==
    /\ Command({1, 32, 64}) = Switched({1, 2, 3}, {})
    /\ Command({1, 64}) = Switched({1, 3}, {})
    /\ Command({1, 32}) = Switched({1, 2}, {})
    /\ Command({1, 2, 32, 64}) = Loading(1, 1)
    /\ Command({1, 2}) = Loading(1, 2)
    /\ Command({1, 2, 64}) = Loading(1, 3)
    /\ Command({1, 2, 32}) = Loading(1, 4)
    /\ Command({1, 4, 32, 64}) = Loading(2, 1)
    /\ Command({1, 4}) = Loading(2, 2)
    /\ Command({1, 4, 64}) = Loading(2, 3)
    /\ Command({1, 4, 32}) = Loading(2, 4)
    /\ Command({1, 8, 32, 64}) = Loading(3, 1)
    /\ Command({1, 8}) = Loading(3, 2)
    /\ Command({1, 8, 64}) = Loading(3, 3)
    /\ Command({1, 8, 32}) = Loading(3, 4)
    /\ \A n \in 1..3 : Loading(n, 5) = Command({1, 32, 64})
<1> DEFINE Same(relays, lines, outputs) ==
               /\ lines \subseteq 1..3 /\ outputs \subseteq 1..3
               /\ 1 \in lines <=> 1 \in relays
               /\ 2 \in lines <=> 32 \in relays
               /\ 3 \in lines <=> 64 \in relays
               /\ 1 \in outputs <=> 2 \in relays
               /\ 2 \in outputs <=> 4 \in relays
               /\ 3 \in outputs <=> 8 \in relays
<1>1. ASSUME NEW relays, NEW lines, NEW outputs, Same(relays, lines, outputs)
      PROVE  Command(relays) = Switched(lines, outputs)
  <2>1. {n \in 1..3 : <<1, 32, 64>>[n] \in relays} = lines
    <3>1. \A n \in 1..3 : n = 1 \/ n = 2 \/ n = 3
          OBVIOUS
    <3>2. \A n \in 1..3 : <<1, 32, 64>>[n] \in relays <=> n \in lines
          BY <1>1, <3>1
    <3> QED BY <1>1, <3>2
  <2>2. {n \in 1..3 : <<2, 4, 8>>[n] \in relays} = outputs
    <3>1. \A n \in 1..3 : n = 1 \/ n = 2 \/ n = 3
          OBVIOUS
    <3>2. \A n \in 1..3 : <<2, 4, 8>>[n] \in relays <=> n \in outputs
          BY <1>1, <3>1
    <3> QED BY <1>1, <3>2
  <2> QED BY <2>1, <2>2 DEF Command, Switched
<1>2. Command({1, 32, 64}) = Switched({1, 2, 3}, {})
  <2>1. Same({1, 32, 64}, {1, 2, 3}, {})
        OBVIOUS
  <2> QED BY <1>1, <2>1
<1>3. Command({1, 64}) = Switched({1, 3}, {})
  <2>1. Same({1, 64}, {1, 3}, {})
        OBVIOUS
  <2> QED BY <1>1, <2>1
<1>4. Command({1, 32}) = Switched({1, 2}, {})
  <2>1. Same({1, 32}, {1, 2}, {})
        OBVIOUS
  <2> QED BY <1>1, <2>1
<1>5. Command({1, 2, 32, 64}) = Switched({1, 2, 3}, {1})
  <2>1. Same({1, 2, 32, 64}, {1, 2, 3}, {1})
        OBVIOUS
  <2> QED BY <1>1, <2>1
<1>6. Command({1, 2}) = Switched({1}, {1})
  <2>1. Same({1, 2}, {1}, {1})
        OBVIOUS
  <2> QED BY <1>1, <2>1
<1>7. Command({1, 2, 64}) = Switched({1, 3}, {1})
  <2>1. Same({1, 2, 64}, {1, 3}, {1})
        OBVIOUS
  <2> QED BY <1>1, <2>1
<1>8. Command({1, 2, 32}) = Switched({1, 2}, {1})
  <2>1. Same({1, 2, 32}, {1, 2}, {1})
        OBVIOUS
  <2> QED BY <1>1, <2>1
<1>9. Command({1, 4, 32, 64}) = Switched({1, 2, 3}, {2})
  <2>1. Same({1, 4, 32, 64}, {1, 2, 3}, {2})
        OBVIOUS
  <2> QED BY <1>1, <2>1
<1>10. Command({1, 4}) = Switched({1}, {2})
  <2>1. Same({1, 4}, {1}, {2})
        OBVIOUS
  <2> QED BY <1>1, <2>1
<1>11. Command({1, 4, 64}) = Switched({1, 3}, {2})
  <2>1. Same({1, 4, 64}, {1, 3}, {2})
        OBVIOUS
  <2> QED BY <1>1, <2>1
<1>12. Command({1, 4, 32}) = Switched({1, 2}, {2})
  <2>1. Same({1, 4, 32}, {1, 2}, {2})
        OBVIOUS
  <2> QED BY <1>1, <2>1
<1>13. Command({1, 8, 32, 64}) = Switched({1, 2, 3}, {3})
  <2>1. Same({1, 8, 32, 64}, {1, 2, 3}, {3})
        OBVIOUS
  <2> QED BY <1>1, <2>1
<1>14. Command({1, 8}) = Switched({1}, {3})
  <2>1. Same({1, 8}, {1}, {3})
        OBVIOUS
  <2> QED BY <1>1, <2>1
<1>15. Command({1, 8, 64}) = Switched({1, 3}, {3})
  <2>1. Same({1, 8, 64}, {1, 3}, {3})
        OBVIOUS
  <2> QED BY <1>1, <2>1
<1>16. Command({1, 8, 32}) = Switched({1, 2}, {3})
  <2>1. Same({1, 8, 32}, {1, 2}, {3})
        OBVIOUS
  <2> QED BY <1>1, <2>1
<1>17. \A n \in 1..3 : /\ Loading(n, 1) = Switched({1, 2, 3}, {n}) /\ Loading(n, 2) = Switched({1}, {n})
                      /\ Loading(n, 3) = Switched({1, 3}, {n}) /\ Loading(n, 4) = Switched({1, 2}, {n})
                      /\ Loading(n, 5) = Switched({1, 2, 3}, {})
      BY DEF Loading, LoadLines
<1> HIDE DEF Same
<1> QED BY <1>2, <1>3, <1>4, <1>5, <1>6, <1>7, <1>8, <1>9, <1>10, <1>11, <1>12, <1>13, <1>14, <1>15, <1>16, <1>17

\* The shape of a row says nothing of how long it reads, when it judges and what follows.
LEMMA ShapeKept ==
    ASSUME NEW n, NEW m, NEW relays, NEW first, NEW levels, LoadRow(n, m, Current(relays, first, levels))
    PROVE  /\ LoadRow(n, m, Impatient(Current(relays, first, levels)))
           /\ LoadRow(n, m, Onward(Impatient(Current(relays, first, levels))))
           /\ LoadRow(n, m, Onward(Current(relays, first, levels)))
BY DEF LoadRow, Impatient, Onward, Current, Row, Judging, Plain

\* The rows of an output with three phases, whatever the levels are that fit.
LEMMA CurrentShape ==
    ASSUME NEW n \in 1..3, NEW m \in 1..5, NEW relays, Command(relays) = Loading(n, m),
           NEW a, NEW b, NEW c,
           LET levels == <<a, b, c>>
           IN \A l \in 1..3 :
                 /\ Dark(m, l) => "zero" \in levels[l] /\ levels[l] \subseteq NotGood
                 /\ ~Dark(m, l) => "good" \in levels[l] /\ (m # 2 => levels[l] = Good)
                 /\ m = 5 => levels[l] = Zero
    PROVE  LoadRow(n, m, Current(relays, 3 * (n - 1), <<a, b, c>>))
<1> DEFINE f == 3 * (n - 1)
           levels == <<a, b, c>>
           r == Current(relays, f, levels)
<1>1. f \in Nat
      OBVIOUS
<1>2. r.q = "cur" /\ r.cmd = {Loading(n, m)} /\ Plain(r) /\ r.forces
      BY DEF Current, Row, Judging, Plain
<1>3. r.want = [i \in f + 1 .. f + 3 |-> levels[i - f]]
      BY DEF Current, Row, From
<1>4. \A l \in 1..3 : f + l \in f + 1 .. f + 3 /\ (f + l) - f = l
      BY <1>1
<1> HIDE DEF f, levels, r
<1>5. DOMAIN r.want = f + 1 .. f + 3 /\ \A l \in 1..3 : r.want[f + l] = levels[l]
      BY <1>3, <1>4
<1>6. LoadRow(n, m, r)
  <2>1. \A l \in 1..3 : /\ Dark(m, l) => "zero" \in levels[l] /\ levels[l] \subseteq NotGood
                        /\ ~Dark(m, l) => "good" \in levels[l] /\ (m # 2 => levels[l] = Good)
                        /\ m = 5 => levels[l] = Zero
        BY DEF levels
  <2> QED BY <1>2, <1>5, <2>1 DEF LoadRow, f
<1> QED BY <1>6 DEF f, r, levels

\* The five rows of an output.
LEMMA OutputRows ==
    ASSUME NEW n \in 1..3
    PROVE  LET f == 3 * (n - 1)
           IN \A relays :
              /\ Command(relays) = Loading(n, 1) => LoadRow(n, 1, Current(relays, f, Three(Good)))
              /\ Command(relays) = Loading(n, 2) =>
                    /\ LoadRow(n, 2, Current(relays, f, <<Good, NotGood, NotGood>>))
                    /\ LoadRow(n, 2, Current(relays, f, <<NonZero, NotGood, NotGood>>))
              /\ Command(relays) = Loading(n, 3) =>
                    /\ LoadRow(n, 3, Current(relays, f, <<Good, NotGood, Good>>))
                    /\ LoadRow(n, 3, Current(relays, f, <<Good, Zero, Good>>))
              /\ Command(relays) = Loading(n, 4) =>
                    /\ LoadRow(n, 4, Current(relays, f, <<Good, Good, NotGood>>))
                    /\ LoadRow(n, 4, Current(relays, f, <<Good, Good, Zero>>))
              /\ Command(relays) = Loading(n, 5) => LoadRow(n, 5, Current(relays, f, Three(Zero)))
<1> SUFFICES ASSUME NEW relays
             PROVE  LET f == 3 * (n - 1) IN
              /\ Command(relays) = Loading(n, 1) => LoadRow(n, 1, Current(relays, f, Three(Good)))
              /\ Command(relays) = Loading(n, 2) =>
                    /\ LoadRow(n, 2, Current(relays, f, <<Good, NotGood, NotGood>>))
                    /\ LoadRow(n, 2, Current(relays, f, <<NonZero, NotGood, NotGood>>))
              /\ Command(relays) = Loading(n, 3) =>
                    /\ LoadRow(n, 3, Current(relays, f, <<Good, NotGood, Good>>))
                    /\ LoadRow(n, 3, Current(relays, f, <<Good, Zero, Good>>))
              /\ Command(relays) = Loading(n, 4) =>
                    /\ LoadRow(n, 4, Current(relays, f, <<Good, Good, NotGood>>))
                    /\ LoadRow(n, 4, Current(relays, f, <<Good, Good, Zero>>))
              /\ Command(relays) = Loading(n, 5) => LoadRow(n, 5, Current(relays, f, Three(Zero)))
    OBVIOUS
<1> DEFINE Fits(m, levels) ==
              \A l \in 1..3 : /\ Dark(m, l) => "zero" \in levels[l] /\ levels[l] \subseteq NotGood
                              /\ ~Dark(m, l) => "good" \in levels[l] /\ (m # 2 => levels[l] = Good)
                              /\ m = 5 => levels[l] = Zero
<1>1. \A m \in 1..5 : \A a, b, c : Command(relays) = Loading(n, m) /\ Fits(m, <<a, b, c>>) =>
          LoadRow(n, m, Current(relays, 3 * (n - 1), <<a, b, c>>))
      BY CurrentShape
<1>2. Fits(1, <<Good, Good, Good>>)
      BY DEF Dark, LoadLines, Good
<1>3. Fits(2, <<Good, NotGood, NotGood>>) /\ Fits(2, <<NonZero, NotGood, NotGood>>)
      BY DEF Dark, LoadLines, Good, NotGood, NonZero
<1>4. Fits(3, <<Good, NotGood, Good>>) /\ Fits(3, <<Good, Zero, Good>>)
      BY DEF Dark, LoadLines, Good, NotGood, Zero
<1>5. Fits(4, <<Good, Good, NotGood>>) /\ Fits(4, <<Good, Good, Zero>>)
      BY DEF Dark, LoadLines, Good, NotGood, Zero
<1>6. Fits(5, <<Zero, Zero, Zero>>)
      BY DEF Dark, LoadLines, NotGood, Zero
<1> HIDE DEF Fits
<1>7. Three(Good) = <<Good, Good, Good>> /\ Three(Zero) = <<Zero, Zero, Zero>>
      BY DEF Three
<1> QED BY <1>1, <1>2, <1>3, <1>4, <1>5, <1>6, <1>7

-----------------------------------------------------------------------------
(* The rows of each kind of box.                                           *)

\* The rows of output n begin behind this one; a start box has the comparison of its
\* powers between the first and the second.
Load(kind, n, m) == IF kind = "start" THEN IF m = 1 THEN 4 ELSE m + 4
                    ELSE Loads(kind) + 5 * (n - 1) + m
Single(n, m) == 3 + 2 * (n - 1) + m

\* The sensors and the branches of each kind.
LEMMA SensorsAre ==
    /\ \A kind \in Kinds : Sensors(kind, "vol") = Sensors(kind, "cur")
    /\ Sensors("nine", "vol") = 1..9 /\ Sensors("six", "vol") = 1..6
    /\ \A kind \in {"three", "single", "start"} : Sensors(kind, "vol") = 1..3
    /\ Sensors("start", "pow") = {1} /\ \A kind \in Kinds \ {"start"} : Sensors(kind, "pow") = {}
    /\ Branches("nine") = 1..3 /\ Branches("single") = 1..3 /\ Branches("six") = 1..2
    /\ \A kind \in {"three", "start"} : Branches(kind) = 1..1
BY DEF Sensors, Branches, Kinds

\* Branch and phase of the sensors, and how a tap follows from them.
LEMMA TapIs ==
    /\ \A kind \in Kinds \ {"single"} : \A n \in 1..3 : \A l \in 1..3 :
          Branch(kind, 3 * (n - 1) + l) = n /\ Phase(kind, 3 * (n - 1) + l) = l
    /\ \A kind \in Kinds \ {"single"} : \A i \in 1..9 :
          /\ Branch(kind, i) \in 1..3 /\ Phase(kind, i) \in 1..3
          /\ i = 3 * (Branch(kind, i) - 1) + Phase(kind, i)
    /\ \A i \in 1..9 : Branch("single", i) = i /\ Phase("single", i) = 1
BY DEF Branch, Phase, Kinds

\* The voltage rows have their shape.
LEMMA VoltRows ==
    ASSUME NEW kind \in Kinds \ {"single"}
    PROVE  /\ VoltRow(kind, 1, Vol_ctrlOne(kind))
           /\ VoltRow(kind, 2, Vol_ctrlTwo(kind))
           /\ VoltRow(kind, 3, Vol_ctrlThree(kind))
<1>1. \A i \in Sensors(kind, "vol") : Phase(kind, i) \in 1..3
  <2>1. Sensors(kind, "vol") \subseteq 1..9
        BY SensorsAre DEF Kinds
  <2> QED BY <2>1, TapIs
<1>2. ASSUME NEW m \in 1..3, NEW relays, Command(relays) = Volts(m), NEW a, NEW b, NEW c,
             \A l \in 1..3 : <<a, b, c>>[l] = IF l \in VoltLines(m) THEN Good ELSE Zero
      PROVE  VoltRow(kind, m, Voltage(kind, relays, <<a, b, c>>)) /\
             VoltRow(kind, m, AfterGoodRead(Voltage(kind, relays, <<a, b, c>>)))
  <2> DEFINE levels == <<a, b, c>>
  <2>1. \A i \in Sensors(kind, "vol") : levels[Phase(kind, i)] = IF Phase(kind, i) \in VoltLines(m) THEN Good ELSE Zero
        BY <1>1, <1>2
  <2> HIDE DEF levels
  <2>2. VoltRow(kind, m, Voltage(kind, relays, levels)) /\ VoltRow(kind, m, AfterGoodRead(Voltage(kind, relays, levels)))
        BY <1>2, <2>1 DEF VoltRow, Voltage, Row, Judging, Plain, AfterGoodRead
  <2> QED BY <2>2 DEF levels
<1>3. Volts(1) = Command({1, 64}) /\ Volts(2) = Command({1, 32}) /\ Volts(3) = Command({1, 32, 64})
      BY Commands DEF Volts, VoltLines
<1>4. \A l \in 1..3 : <<Good, Zero, Good>>[l] = IF l \in VoltLines(1) THEN Good ELSE Zero
      BY DEF VoltLines
<1>5. \A l \in 1..3 : <<Good, Good, Zero>>[l] = IF l \in VoltLines(2) THEN Good ELSE Zero
      BY DEF VoltLines
<1>6. \A l \in 1..3 : <<Good, Good, Good>>[l] = IF l \in VoltLines(3) THEN Good ELSE Zero
      BY DEF VoltLines
<1>7. VoltRow(kind, 1, Vol_ctrlOne(kind))
      BY <1>2, <1>3, <1>4 DEF Vol_ctrlOne
<1>8. VoltRow(kind, 2, Vol_ctrlTwo(kind))
      BY <1>2, <1>3, <1>5 DEF Vol_ctrlTwo
<1>9. VoltRow(kind, 3, Vol_ctrlThree(kind))
      BY <1>2, <1>3, <1>6 DEF Vol_ctrlThree, Three
<1> QED BY <1>7, <1>8, <1>9

\* So have the breaker rows.
LEMMA BreakerRows ==
    /\ BreakerRow("nine", 1, NineInsertOne_BreakerOne)
    /\ BreakerRow("nine", 2, NineInsertOne_BreakerTwo)
    /\ BreakerRow("nine", 3, NineInsertOne_BreakerThree)
    /\ BreakerRow("six", 1, SixInsertOne_BreakerOne)
    /\ BreakerRow("six", 2, SixInsertOne_BreakerTwo)
    /\ BreakerRow("three", 1, Three_Breaker)
    /\ BreakerRow("single", 1, Three_OneBreaker)
    /\ BreakerRow("single", 2, Three_TwoBreaker)
    /\ BreakerRow("single", 3, Three_ThreeBreaker)
<1>1. /\ BreakerRow("nine", 1, NineInsertOne_BreakerOne)
      /\ BreakerRow("nine", 2, NineInsertOne_BreakerTwo)
      /\ BreakerRow("nine", 3, NineInsertOne_BreakerThree)
  <2> DEFINE l1 == Three(Zero) \o Three(Good) \o Three(Good)
             l2 == Three(Good) \o Three(Zero) \o Three(Good)
             l3 == Three(Good) \o Three(Good) \o Three(Zero)
  <2>1. Len(l1) = 9 /\ \A i \in 1..9 : l1[i] = IF i \in 1..3 THEN Zero ELSE Good
        BY DEF Three
  <2>2. Len(l2) = 9 /\ \A i \in 1..9 : l2[i] = IF i \in 4..6 THEN Zero ELSE Good
        BY DEF Three
  <2>3. Len(l3) = 9 /\ \A i \in 1..9 : l3[i] = IF i \in 7..9 THEN Zero ELSE Good
        BY DEF Three
  <2>4. \A i \in 1..9 : /\ Branch("nine", i) = 1 <=> i \in 1..3
                        /\ Branch("nine", i) = 2 <=> i \in 4..6
                        /\ Branch("nine", i) = 3 <=> i \in 7..9
        BY DEF Branch
  <2> HIDE DEF l1, l2, l3
  <2>5. BreakerRow("nine", 1, ReadsOnce(Breaker(1, l1)))
        BY <2>1, <2>4, SensorsAre DEF BreakerRow, ReadsOnce, Breaker, Row, Judging, From, Breakers
  <2>6. BreakerRow("nine", 2, Breaker(2, l2))
        BY <2>2, <2>4, SensorsAre DEF BreakerRow, Breaker, Row, Judging, From, Breakers
  <2>7. BreakerRow("nine", 3, ThenClose(Breaker(3, l3)))
        BY <2>3, <2>4, SensorsAre DEF BreakerRow, ThenClose, Breaker, Row, Judging, From, Breakers
  <2> QED BY <2>5, <2>6, <2>7 DEF l1, l2, l3, NineInsertOne_BreakerOne, NineInsertOne_BreakerTwo, NineInsertOne_BreakerThree
<1>2. /\ BreakerRow("six", 1, SixInsertOne_BreakerOne)
      /\ BreakerRow("six", 2, SixInsertOne_BreakerTwo)
  <2> DEFINE l1 == Three(Zero) \o Three(Good)
             l2 == Three(Good) \o Three(Zero)
  <2>1. Len(l1) = 6 /\ \A i \in 1..6 : l1[i] = IF i \in 1..3 THEN Zero ELSE Good
        BY DEF Three
  <2>2. Len(l2) = 6 /\ \A i \in 1..6 : l2[i] = IF i \in 4..6 THEN Zero ELSE Good
        BY DEF Three
  <2>4. \A i \in 1..6 : /\ Branch("six", i) = 1 <=> i \in 1..3
                        /\ Branch("six", i) = 2 <=> i \in 4..6
        BY DEF Branch
  <2> HIDE DEF l1, l2
  <2>5. BreakerRow("six", 1, Breaker(1, l1))
        BY <2>1, <2>4, SensorsAre DEF BreakerRow, Breaker, Row, Judging, From, Breakers
  <2>6. BreakerRow("six", 2, ThenClose(Breaker(2, l2)))
        BY <2>2, <2>4, SensorsAre DEF BreakerRow, ThenClose, Breaker, Row, Judging, From, Breakers
  <2> QED BY <2>5, <2>6 DEF l1, l2, SixInsertOne_BreakerOne, SixInsertOne_BreakerTwo
<1>3. BreakerRow("three", 1, Three_Breaker)
  <2>1. \A i \in 1..3 : Branch("three", i) = 1
        BY DEF Branch
  <2> QED BY <2>1, SensorsAre DEF BreakerRow, Three_Breaker, ThenClose, Breaker, Row, Judging, From, Breakers, Three
<1>4. /\ BreakerRow("single", 1, Three_OneBreaker)
      /\ BreakerRow("single", 2, Three_TwoBreaker)
      /\ BreakerRow("single", 3, Three_ThreeBreaker)
  <2>1. \A i \in 1..3 : Branch("single", i) = i
        BY DEF Branch
  <2>2. BreakerRow("single", 1, Three_OneBreaker)
        BY <2>1, SensorsAre DEF BreakerRow, Three_OneBreaker, ThenClose, ReadsOnce, Breaker, Row, Judging, From, Breakers
  <2>3. BreakerRow("single", 2, Three_TwoBreaker)
        BY <2>1, SensorsAre DEF BreakerRow, Three_TwoBreaker, ThenClose, ReadsOnce, Breaker, Row, Judging, From, Breakers
  <2>4. BreakerRow("single", 3, Three_ThreeBreaker)
        BY <2>1, SensorsAre DEF BreakerRow, Three_ThreeBreaker, ThenClose, ReadsOnce, Breaker, Row, Judging, From, Breakers
  <2> QED BY <2>2, <2>3, <2>4
<1> QED BY <1>1, <1>2, <1>3, <1>4

\* The two rows of a single-phase output.
LEMMA SingleRows ==
    /\ SingleRow(1, 1, Three_One[1]) /\ SingleRow(1, 2, Three_One[2]) /\ Len(Three_One) = 2
    /\ SingleRow(2, 1, Three_Two[1]) /\ SingleRow(2, 2, Three_Two[2]) /\ Len(Three_Two) = 2
    /\ SingleRow(3, 1, Three_Three[1]) /\ SingleRow(3, 2, Three_Three[2]) /\ Len(Three_Three) = 2
<1>1. ASSUME NEW n \in 1..3, NEW relays, Command(relays) = Loading(n, 1)
      PROVE  SingleRow(n, 1, Onward(Impatient(Current(relays, n - 1, <<Good>>))))
  <2> DEFINE w == From(n - 1, <<Good>>)
  <2>1. DOMAIN w = {n} /\ w[n] = Good
        BY DEF From
  <2> HIDE DEF w
  <2>2. SingleRow(n, 1, Onward(Impatient(Row("cur", {Command(relays)}, w))))
        BY <1>1, <2>1 DEF SingleRow, Row, Judging, Impatient, Onward, Plain
  <2> QED BY <2>2 DEF w, Current
<1>2. ASSUME NEW n \in 1..3, NEW levels, Len(levels) = 3, levels[n] = Zero,
             \A i \in 1..3 : "zero" \in levels[i]
      PROVE  SingleRow(n, 2, Current({1, 32, 64}, 0, levels))
  <2> DEFINE w == From(0, levels)
  <2>1. DOMAIN w = 1..3 /\ \A i \in 1..3 : w[i] = levels[i]
        BY <1>2 DEF From
  <2> HIDE DEF w
  <2>2. Loading(n, 5) = Command({1, 32, 64})
        BY Commands
  <2>3. SingleRow(n, 2, Row("cur", {Command({1, 32, 64})}, w))
        BY <1>2, <2>1, <2>2 DEF SingleRow, Row, Judging, Plain
  <2> QED BY <2>3 DEF w, Current
<1>3. SingleRow(1, 1, Three_One[1]) /\ SingleRow(2, 1, Three_Two[1]) /\ SingleRow(3, 1, Three_Three[1])
  <2>1. SingleRow(1, 1, Onward(Impatient(Current({1, 2, 32, 64}, 0, <<Good>>))))
        BY <1>1, Commands
  <2>2. SingleRow(2, 1, Onward(Impatient(Current({1, 4, 32, 64}, 1, <<Good>>))))
        BY <1>1, Commands
  <2>3. SingleRow(3, 1, Onward(Impatient(Current({1, 8, 32, 64}, 2, <<Good>>))))
        BY <1>1, Commands
  <2> QED BY <2>1, <2>2, <2>3 DEF Three_One, Three_Two, Three_Three
<1>4. SingleRow(1, 2, Three_One[2]) /\ SingleRow(2, 2, Three_Two[2]) /\ SingleRow(3, 2, Three_Three[2])
  <2>1. /\ Len(<<Zero, NotGood, NotGood>>) = 3 /\ <<Zero, NotGood, NotGood>>[1] = Zero
        /\ \A i \in 1..3 : "zero" \in <<Zero, NotGood, NotGood>>[i]
        BY DEF Zero, NotGood
  <2>2. /\ Len(<<NotGood, Zero, NotGood>>) = 3 /\ <<NotGood, Zero, NotGood>>[2] = Zero
        /\ \A i \in 1..3 : "zero" \in <<NotGood, Zero, NotGood>>[i]
        BY DEF Zero, NotGood
  <2>3. /\ Len(<<NotGood, NotGood, Zero>>) = 3 /\ <<NotGood, NotGood, Zero>>[3] = Zero
        /\ \A i \in 1..3 : "zero" \in <<NotGood, NotGood, Zero>>[i]
        BY DEF Zero, NotGood
  <2> QED BY <1>2, <2>1, <2>2, <2>3 DEF Three_One, Three_Two, Three_Three
<1> QED BY <1>3, <1>4 DEF Three_One, Three_Two, Three_Three

\* What a box is tested with, row by row.
LEMMA NinePlan ==
    LET p == Plan["nine"]
    IN /\ Len(p) = 21 /\ \A n \in 1..3 : BreakerRow("nine", n, p[n])
       /\ \A m \in 1..3 : VoltRow("nine", m, p[3 + m])
       /\ \A n \in 1..3, m \in 1..5 : LoadRow(n, m, p[Load("nine", n, m)])
<1> DEFINE p == Plan["nine"]
<1>1. p = Break_NineLoop \o <<Vol_ctrlOne("nine"), Vol_ctrlTwo("nine"), Vol_ctrlThree("nine")>> \o Load_NineLoop
      BY DEF Plan, Kinds, BreakerTest, StepVolTest, StepLoadTest
<1>2. /\ Len(p) = 21
      /\ p[1] = NineInsertOne_BreakerOne /\ p[2] = NineInsertOne_BreakerTwo /\ p[3] = NineInsertOne_BreakerThree
      /\ p[4] = Vol_ctrlOne("nine") /\ p[5] = Vol_ctrlTwo("nine") /\ p[6] = Vol_ctrlThree("nine")
      /\ p[7] = Impatient(Current({1, 2, 32, 64}, 0, Three(Good)))
      /\ p[8] = NineInsertOne_CtrlOne /\ p[9] = NineInsertOne_CtrlTwo /\ p[10] = NineInsertOne_CtrlThree
      /\ p[11] = Insert_NoneOutput(1)
      /\ p[12] = Onward(Impatient(Current({1, 4, 32, 64}, 3, Three(Good))))
      /\ p[13] = Current({1, 4}, 3, <<Good, NotGood, NotGood>>)
      /\ p[14] = NineInsertTwo_CtrlTwo /\ p[15] = NineInsertTwo_CtrlThree /\ p[16] = Insert_NoneOutput(2)
      /\ p[17] = Onward(Impatient(Current({1, 8, 32, 64}, 6, Three(Good))))
      /\ p[18] = Current({1, 8}, 6, <<Good, NotGood, NotGood>>)
      /\ p[19] = NineInsertThree_CtrlTwo /\ p[20] = NineInsertThree_CtrlThree /\ p[21] = Insert_NoneOutput(3)
      BY <1>1 DEF Break_NineLoop, Load_NineLoop, NineInsertTwo_CtrlOne, NineInsertThree_CtrlOne
<1> HIDE DEF p
<1>3. \A n \in 1..3 : BreakerRow("nine", n, p[n])
  <2>1. \A n \in 1..3 : n = 1 \/ n = 2 \/ n = 3
        OBVIOUS
  <2> QED BY <1>2, <2>1, BreakerRows
<1>4. \A m \in 1..3 : VoltRow("nine", m, p[3 + m])
  <2>1. \A n \in 1..3 : n = 1 \/ n = 2 \/ n = 3
        OBVIOUS
  <2>2. "nine" \in Kinds \ {"single"}
        BY DEF Kinds
  <2> QED BY <1>2, <2>1, <2>2, VoltRows
<1>5. LoadRow(1, 1, p[7]) /\ LoadRow(1, 2, p[8]) /\ LoadRow(1, 3, p[9]) /\ LoadRow(1, 4, p[10]) /\ LoadRow(1, 5, p[11])
      BY <1>2, OutputRows, ShapeKept, Commands
         DEF NineInsertOne_CtrlOne, NineInsertOne_CtrlTwo, NineInsertOne_CtrlThree, Insert_NoneOutput
<1>6. LoadRow(2, 1, p[12]) /\ LoadRow(2, 2, p[13]) /\ LoadRow(2, 3, p[14]) /\ LoadRow(2, 4, p[15]) /\ LoadRow(2, 5, p[16])
      BY <1>2, OutputRows, ShapeKept, Commands
         DEF NineInsertTwo_CtrlTwo, NineInsertTwo_CtrlThree, Insert_NoneOutput
<1>7. LoadRow(3, 1, p[17]) /\ LoadRow(3, 2, p[18]) /\ LoadRow(3, 3, p[19]) /\ LoadRow(3, 4, p[20]) /\ LoadRow(3, 5, p[21])
      BY <1>2, OutputRows, ShapeKept, Commands
         DEF NineInsertThree_CtrlTwo, NineInsertThree_CtrlThree, Insert_NoneOutput
<1>8. \A n \in 1..3, m \in 1..5 : LoadRow(n, m, p[Load("nine", n, m)])
  <2>1. \A n \in 1..3, m \in 1..5 : Load("nine", n, m) = 6 + 5 * (n - 1) + m
        BY DEF Load, Loads
  <2>2. \A n \in 1..3 : n = 1 \/ n = 2 \/ n = 3
        OBVIOUS
  <2>3. \A m \in 1..5 : m = 1 \/ m = 2 \/ m = 3 \/ m = 4 \/ m = 5
        OBVIOUS
  <2> QED BY <1>5, <1>6, <1>7, <2>1, <2>2, <2>3
<1> QED BY <1>2, <1>3, <1>4, <1>8 DEF p

\* The other kinds, in the same way.
LEMMA SixPlan ==
    LET p == Plan["six"]
    IN /\ Len(p) = 15 /\ \A n \in 1..2 : BreakerRow("six", n, p[n])
       /\ \A m \in 1..3 : VoltRow("six", m, p[2 + m])
       /\ \A n \in 1..2, m \in 1..5 : LoadRow(n, m, p[Load("six", n, m)])
<1> DEFINE p == Plan["six"]
<1>1. p = Break_SixLoop \o <<Vol_ctrlOne("six"), Vol_ctrlTwo("six"), Vol_ctrlThree("six")>> \o Load_SixLoop
      BY DEF Plan, Kinds, BreakerTest, StepVolTest, StepLoadTest
<1>2. /\ Len(p) = 15
      /\ p[1] = SixInsertOne_BreakerOne /\ p[2] = SixInsertOne_BreakerTwo
      /\ p[3] = Vol_ctrlOne("six") /\ p[4] = Vol_ctrlTwo("six") /\ p[5] = Vol_ctrlThree("six")
      /\ p[6] = Impatient(Current({1, 2, 32, 64}, 0, Three(Good)))
      /\ p[7] = SixInsertOne_CtrlOne /\ p[8] = SixInsertOne_CtrlTwo /\ p[9] = SixInsertOne_CtrlThree
      /\ p[10] = Insert_NoneOutput(1)
      /\ p[11] = Onward(Impatient(Current({1, 4, 32, 64}, 3, Three(Good))))
      /\ p[12] = Current({1, 4}, 3, <<NonZero, NotGood, NotGood>>)
      /\ p[13] = SixInsertTwo_CtrlTwo /\ p[14] = SixInsertTwo_CtrlThree /\ p[15] = Insert_NoneOutput(2)
      BY <1>1 DEF Break_SixLoop, Load_SixLoop, SixInsertTwo_CtrlOne
<1> HIDE DEF p
<1>3. \A n \in 1..2 : BreakerRow("six", n, p[n])
  <2>1. \A n \in 1..2 : n = 1 \/ n = 2
        OBVIOUS
  <2> QED BY <1>2, <2>1, BreakerRows
<1>4. \A m \in 1..3 : VoltRow("six", m, p[2 + m])
  <2>1. \A n \in 1..3 : n = 1 \/ n = 2 \/ n = 3
        OBVIOUS
  <2>2. "six" \in Kinds \ {"single"}
        BY DEF Kinds
  <2> QED BY <1>2, <2>1, <2>2, VoltRows
<1>5. LoadRow(1, 1, p[6]) /\ LoadRow(1, 2, p[7]) /\ LoadRow(1, 3, p[8]) /\ LoadRow(1, 4, p[9]) /\ LoadRow(1, 5, p[10])
      BY <1>2, OutputRows, ShapeKept, Commands
         DEF SixInsertOne_CtrlOne, SixInsertOne_CtrlTwo, SixInsertOne_CtrlThree, Insert_NoneOutput
<1>6. LoadRow(2, 1, p[11]) /\ LoadRow(2, 2, p[12]) /\ LoadRow(2, 3, p[13]) /\ LoadRow(2, 4, p[14]) /\ LoadRow(2, 5, p[15])
      BY <1>2, OutputRows, ShapeKept, Commands
         DEF SixInsertTwo_CtrlTwo, SixInsertTwo_CtrlThree, Insert_NoneOutput
<1>7. \A n \in 1..2, m \in 1..5 : LoadRow(n, m, p[Load("six", n, m)])
  <2>1. \A n \in 1..2, m \in 1..5 : Load("six", n, m) = 5 + 5 * (n - 1) + m
        BY DEF Load, Loads
  <2>2. \A n \in 1..2 : n = 1 \/ n = 2
        OBVIOUS
  <2>3. \A m \in 1..5 : m = 1 \/ m = 2 \/ m = 3 \/ m = 4 \/ m = 5
        OBVIOUS
  <2> QED BY <1>5, <1>6, <2>1, <2>2, <2>3
<1> QED BY <1>2, <1>3, <1>4, <1>7 DEF p

LEMMA ThreePlan ==
    LET p == Plan["three"]
    IN /\ Len(p) = 9 /\ BreakerRow("three", 1, p[1])
       /\ \A m \in 1..3 : VoltRow("three", m, p[1 + m])
       /\ \A m \in 1..5 : LoadRow(1, m, p[Load("three", 1, m)])
<1> DEFINE p == Plan["three"]
<1>1. p = <<Three_Breaker>> \o <<Vol_ctrlOne("three"), Vol_ctrlTwo("three"), Vol_ctrlThree("three")>> \o
          (<<Current({1, 2, 32, 64}, 0, Three(Good))>> \o
           <<Three_CtrlOne, Three_CtrlTwo, Three_CtrlThree, Insert_NoneOutput(1)>>)
      BY DEF Plan, Kinds, BreakerTest, StepVolTest, StepLoadTest, Load_ThreeLoop
<1>2. /\ Len(p) = 9 /\ p[1] = Three_Breaker
      /\ p[2] = Vol_ctrlOne("three") /\ p[3] = Vol_ctrlTwo("three") /\ p[4] = Vol_ctrlThree("three")
      /\ p[5] = Current({1, 2, 32, 64}, 0, Three(Good))
      /\ p[6] = Three_CtrlOne /\ p[7] = Three_CtrlTwo /\ p[8] = Three_CtrlThree /\ p[9] = Insert_NoneOutput(1)
      BY <1>1
<1> HIDE DEF p
<1>3. \A m \in 1..3 : VoltRow("three", m, p[1 + m])
  <2>1. \A n \in 1..3 : n = 1 \/ n = 2 \/ n = 3
        OBVIOUS
  <2>2. "three" \in Kinds \ {"single"}
        BY DEF Kinds
  <2> QED BY <1>2, <2>1, <2>2, VoltRows
<1>4. LoadRow(1, 1, p[5]) /\ LoadRow(1, 2, p[6]) /\ LoadRow(1, 3, p[7]) /\ LoadRow(1, 4, p[8]) /\ LoadRow(1, 5, p[9])
      BY <1>2, OutputRows, Commands DEF Three_CtrlOne, Three_CtrlTwo, Three_CtrlThree, Insert_NoneOutput
<1>5. \A m \in 1..5 : LoadRow(1, m, p[Load("three", 1, m)])
  <2>1. \A m \in 1..5 : Load("three", 1, m) = 4 + m
        BY DEF Load, Loads
  <2>2. \A m \in 1..5 : m = 1 \/ m = 2 \/ m = 3 \/ m = 4 \/ m = 5
        OBVIOUS
  <2> QED BY <1>4, <2>1, <2>2
<1> QED BY <1>2, <1>3, <1>5, BreakerRows DEF p

LEMMA StartPlan ==
    LET p == Plan["start"]
    IN /\ Len(p) = 9 /\ p[5] = PowerRow
       /\ \A m \in 1..3 : VoltRow("start", m, p[m])
       /\ \A m \in 1..5 : LoadRow(1, m, p[Load("start", 1, m)])
<1> DEFINE p == Plan["start"]
<1>1. p = <<>> \o <<Vol_ctrlOne("start"), Vol_ctrlTwo("start"), Vol_ctrlThree("start")>> \o
          (<<Onward(Current({1, 2, 32, 64}, 0, Three(Good))), PowerRow>> \o
           <<Three_CtrlOne, Three_CtrlTwo, Three_CtrlThree, Insert_NoneOutput(1)>>)
      BY DEF Plan, Kinds, BreakerTest, StepVolTest, StepLoadTest, Load_ThreeLoop
<1>2. /\ Len(p) = 9
      /\ p[1] = Vol_ctrlOne("start") /\ p[2] = Vol_ctrlTwo("start") /\ p[3] = Vol_ctrlThree("start")
      /\ p[4] = Onward(Current({1, 2, 32, 64}, 0, Three(Good))) /\ p[5] = PowerRow
      /\ p[6] = Three_CtrlOne /\ p[7] = Three_CtrlTwo /\ p[8] = Three_CtrlThree /\ p[9] = Insert_NoneOutput(1)
      BY <1>1
<1> HIDE DEF p
<1>3. \A m \in 1..3 : VoltRow("start", m, p[m])
  <2>1. \A n \in 1..3 : n = 1 \/ n = 2 \/ n = 3
        OBVIOUS
  <2>2. "start" \in Kinds \ {"single"}
        BY DEF Kinds
  <2> QED BY <1>2, <2>1, <2>2, VoltRows
<1>4. LoadRow(1, 1, p[4]) /\ LoadRow(1, 2, p[6]) /\ LoadRow(1, 3, p[7]) /\ LoadRow(1, 4, p[8]) /\ LoadRow(1, 5, p[9])
      BY <1>2, OutputRows, ShapeKept, Commands DEF Three_CtrlOne, Three_CtrlTwo, Three_CtrlThree, Insert_NoneOutput
<1>5. \A m \in 1..5 : LoadRow(1, m, p[Load("start", 1, m)])
  <2>1. \A m \in 1..5 : Load("start", 1, m) = IF m = 1 THEN 4 ELSE m + 4
        BY DEF Load
  <2>2. \A m \in 1..5 : m = 1 \/ m = 2 \/ m = 3 \/ m = 4 \/ m = 5
        OBVIOUS
  <2> QED BY <1>4, <2>1, <2>2
<1> QED BY <1>2, <1>3, <1>5 DEF p

LEMMA SinglePlan ==
    LET p == Plan["single"]
    IN /\ Len(p) = 9 /\ \A n \in 1..3 : BreakerRow("single", n, p[n])
       /\ \A n \in 1..3, m \in 1..2 : SingleRow(n, m, p[Single(n, m)])
<1> DEFINE p == Plan["single"]
<1>1. p = Three_Break \o <<>> \o (Three_One \o Three_Two \o Three_Three)
      BY DEF Plan, Kinds, BreakerTest, StepVolTest, StepLoadTest, Load_ThreeLoop
<1>2. /\ Len(p) = 9
      /\ p[1] = Three_OneBreaker /\ p[2] = Three_TwoBreaker /\ p[3] = Three_ThreeBreaker
      /\ p[4] = Three_One[1] /\ p[5] = Three_One[2] /\ p[6] = Three_Two[1] /\ p[7] = Three_Two[2]
      /\ p[8] = Three_Three[1] /\ p[9] = Three_Three[2]
      BY <1>1 DEF Three_Break, Three_One, Three_Two, Three_Three
<1> HIDE DEF p
<1>3. \A n \in 1..3 : n = 1 \/ n = 2 \/ n = 3
      OBVIOUS
<1>4. \A n \in 1..3 : BreakerRow("single", n, p[n])
      BY <1>2, <1>3, BreakerRows
<1>5. \A n \in 1..3, m \in 1..2 : SingleRow(n, m, p[Single(n, m)])
  <2>1. \A n \in 1..3, m \in 1..2 : Single(n, m) = 3 + 2 * (n - 1) + m
        BY DEF Single
  <2>2. \A m \in 1..2 : m = 1 \/ m = 2
        OBVIOUS
  <2> QED BY <1>2, <1>3, <2>1, <2>2, SingleRows
<1> QED BY <1>2, <1>4, <1>5 DEF p

\* How many rows.
LEMMA PlanLength == \A kind \in Kinds : Len(Plan[kind]) \in {9, 15, 21}
BY NinePlan, SixPlan, ThreePlan, StartPlan, SinglePlan DEF Kinds

\* Every row has one of the four shapes, or compares the powers of a start box.
LEMMA RowIs ==
    ASSUME NEW kind \in Kinds, NEW k \in 1 .. Len(Plan[kind])
    PROVE  LET r == Plan[kind][k]
           IN \/ k \in 1 .. Breakers(kind) /\ BreakerRow(kind, k, r)
              \/ kind # "single" /\ \E m \in 1..3 : k = Breakers(kind) + m /\ VoltRow(kind, m, r)
              \/ /\ kind # "single"
                 /\ \E n \in Branches(kind), m \in 1..5 : k = Load(kind, n, m) /\ LoadRow(n, m, r)
              \/ kind = "start" /\ k = 5 /\ r = PowerRow
              \/ kind = "single" /\ \E n \in 1..3, m \in 1..2 : k = Single(n, m) /\ SingleRow(n, m, r)
<1>1. CASE kind = "nine"
  <2>1. k \in 1..21
        BY <1>1, NinePlan
  <2>2. \/ k \in 1..3
        \/ \E m \in 1..3 : k = 3 + m
        \/ \E n \in 1..3, m \in 1..5 : k = 6 + 5 * (n - 1) + m
    <3>1. CASE k \in 1..3
          BY <3>1
    <3>2. CASE k \in 4..6
          BY <3>2
    <3>3. CASE k \in 7..11
      <4>1. k - 6 \in 1..5 /\ k = 6 + 5 * (1 - 1) + (k - 6)
            BY <3>3
      <4> QED BY <4>1
    <3>4. CASE k \in 12..16
      <4>1. k - 11 \in 1..5 /\ k = 6 + 5 * (2 - 1) + (k - 11)
            BY <3>4
      <4> QED BY <4>1
    <3>5. CASE k \in 17..21
      <4>1. k - 16 \in 1..5 /\ k = 6 + 5 * (3 - 1) + (k - 16)
            BY <3>5
      <4> QED BY <4>1
    <3> QED BY <2>1, <3>1, <3>2, <3>3, <3>4, <3>5
  <2>3. Breakers(kind) = 3 /\ kind # "single" /\ Branches(kind) = 1..3 /\ \A n, m \in Int : Load(kind, n, m) = 6 + 5 * (n - 1) + m
        BY <1>1, SensorsAre DEF Breakers, Load, Loads
  <2>4. CASE k \in 1..3
        BY <1>1, <2>3, <2>4, NinePlan
  <2>5. CASE \E m \in 1..3 : k = 3 + m
        BY <1>1, <2>3, <2>5, NinePlan
  <2>6. ASSUME NEW n \in 1..3, NEW m \in 1..5, k = 6 + 5 * (n - 1) + m
        PROVE  n \in Branches(kind) /\ k = Load(kind, n, m) /\ LoadRow(n, m, Plan[kind][k])
    <3>1. k = Load(kind, n, m)
          BY <2>3, <2>6
    <3>2. LoadRow(n, m, Plan["nine"][Load("nine", n, m)])
          BY NinePlan
    <3> QED BY <1>1, <2>3, <3>1, <3>2
  <2> QED BY <2>2, <2>3, <2>4, <2>5, <2>6
<1>2. CASE kind = "six"
  <2>1. k \in 1..15
        BY <1>2, SixPlan
  <2>2. \/ k \in 1..2
        \/ \E m \in 1..3 : k = 2 + m
        \/ \E n \in 1..2, m \in 1..5 : k = 5 + 5 * (n - 1) + m
    <3>1. CASE k \in 1..2
          BY <3>1
    <3>2. CASE k \in 3..5
          BY <3>2
    <3>3. CASE k \in 6..10
      <4>1. k - 5 \in 1..5 /\ k = 5 + 5 * (1 - 1) + (k - 5)
            BY <3>3
      <4> QED BY <4>1
    <3>4. CASE k \in 11..15
      <4>1. k - 10 \in 1..5 /\ k = 5 + 5 * (2 - 1) + (k - 10)
            BY <3>4
      <4> QED BY <4>1
    <3> QED BY <2>1, <3>1, <3>2, <3>3, <3>4
  <2>3. Breakers(kind) = 2 /\ kind # "single" /\ Branches(kind) = 1..2 /\ \A n, m \in Int : Load(kind, n, m) = 5 + 5 * (n - 1) + m
        BY <1>2, SensorsAre DEF Breakers, Load, Loads
  <2>4. CASE k \in 1..2
        BY <1>2, <2>3, <2>4, SixPlan
  <2>5. CASE \E m \in 1..3 : k = 2 + m
        BY <1>2, <2>3, <2>5, SixPlan
  <2>6. ASSUME NEW n \in 1..2, NEW m \in 1..5, k = 5 + 5 * (n - 1) + m
        PROVE  n \in Branches(kind) /\ k = Load(kind, n, m) /\ LoadRow(n, m, Plan[kind][k])
    <3>1. k = Load(kind, n, m)
          BY <2>3, <2>6
    <3>2. LoadRow(n, m, Plan["six"][Load("six", n, m)])
          BY SixPlan
    <3> QED BY <1>2, <2>3, <3>1, <3>2
  <2> QED BY <2>2, <2>3, <2>4, <2>5, <2>6
<1>3. CASE kind = "three"
  <2>1. k \in 1..9
        BY <1>3, ThreePlan
  <2>2. \/ k = 1
        \/ \E m \in 1..3 : k = 1 + m
        \/ \E m \in 1..5 : k = 4 + m
    <3>1. CASE k \in 2..4
          BY <3>1
    <3>2. CASE k \in 5..9
      <4>1. k - 4 \in 1..5 /\ k = 4 + (k - 4)
            BY <3>2
      <4> QED BY <4>1
    <3> QED BY <2>1, <3>1, <3>2
  <2>3. Breakers(kind) = 1 /\ kind # "single" /\ Branches(kind) = 1..1 /\ \A m \in Int : Load(kind, 1, m) = 4 + m
        BY <1>3, SensorsAre DEF Breakers, Load, Loads
  <2>4. 1 \in Branches(kind)
        BY <2>3
  <2> QED BY <1>3, <2>2, <2>3, <2>4, ThreePlan
<1>4. CASE kind = "start"
  <2>1. k \in 1..9
        BY <1>4, StartPlan
  <2>2. \/ k \in 1..3
        \/ k = 5
        \/ \E m \in 1..5 : k = IF m = 1 THEN 4 ELSE m + 4
    <3>1. CASE k \in 6..9
      <4>1. k - 4 \in 1..5 /\ k = IF k - 4 = 1 THEN 4 ELSE (k - 4) + 4
            BY <3>1
      <4> QED BY <4>1
    <3> QED BY <2>1, <3>1
  <2>3. /\ Breakers(kind) = 0 /\ kind # "single" /\ Branches(kind) = 1..1
        /\ \A m \in Int : Load(kind, 1, m) = IF m = 1 THEN 4 ELSE m + 4
        BY <1>4, SensorsAre DEF Breakers, Load
  <2>4. 1 \in Branches(kind)
        BY <2>3
  <2> QED BY <1>4, <2>2, <2>3, <2>4, StartPlan
<1>5. CASE kind = "single"
  <2>1. k \in 1..9
        BY <1>5, SinglePlan
  <2>2. \/ k \in 1..3
        \/ \E n \in 1..3, m \in 1..2 : k = 3 + 2 * (n - 1) + m
    <3>1. CASE k \in 4..9
      <4>1. k = 3 + 2 * (1 - 1) + 1 \/ k = 3 + 2 * (1 - 1) + 2 \/ k = 3 + 2 * (2 - 1) + 1 \/ k = 3 + 2 * (2 - 1) + 2
            \/ k = 3 + 2 * (3 - 1) + 1 \/ k = 3 + 2 * (3 - 1) + 2
            BY <3>1
      <4> QED BY <4>1
    <3> QED BY <2>1, <3>1
  <2>3. Breakers(kind) = 3 /\ \A n, m \in Int : Single(n, m) = 3 + 2 * (n - 1) + m
        BY <1>5 DEF Breakers, Single
  <2>4. CASE k \in 1..3
        BY <1>5, <2>3, <2>4, SinglePlan
  <2>5. ASSUME NEW n \in 1..3, NEW m \in 1..2, k = 3 + 2 * (n - 1) + m
        PROVE  k = Single(n, m) /\ SingleRow(n, m, Plan[kind][k])
    <3>1. k = Single(n, m)
          BY <2>3, <2>5
    <3>2. SingleRow(n, m, Plan["single"][Single(n, m)])
          BY SinglePlan
    <3> QED BY <1>5, <3>1, <3>2
  <2> QED BY <1>5, <2>2, <2>4, <2>5
<1> QED BY <1>1, <1>2, <1>3, <1>4, <1>5 DEF Kinds

-----------------------------------------------------------------------------
(* The bench while a row is tested.                                        *)

\* What is switched on during row k, and what the operator is asked for: during the
\* row, and before it.
On(kind, k, c) ==
    IF Plan[kind][k].cmd = {} THEN c = IF kind = "start" THEN Loading(1, 1) ELSE Powered
    ELSE c \in Plan[kind][k].cmd
AskedAt(kind, k) == IF k <= Breakers(kind) THEN {k} ELSE {}
AskedBefore(kind, k) == IF k = 1 \/ kind = "single" \/ k > Breakers(kind) THEN {} ELSE {k - 1}

\* Powered is what a row without loads leaves on.
LEMMA PoweredIs == Powered = Loading(1, 5) /\ Powered = Switched({1, 2, 3}, {}) /\ Powered = Volts(3)
BY Commands DEF Powered, Volts, VoltLines

\* What is on, by the shape of the row.
LEMMA OnIs ==
    ASSUME NEW kind \in Kinds, NEW k \in 1 .. Len(Plan[kind]), NEW c, On(kind, k, c)
    PROVE  /\ BreakerRow(kind, k, Plan[kind][k]) /\ k \in 1 .. Breakers(kind) => c = Powered
           /\ \A m : VoltRow(kind, m, Plan[kind][k]) => c = Volts(m)
           /\ \A n, m : LoadRow(n, m, Plan[kind][k]) => c = Loading(n, m)
           /\ kind = "start" /\ Plan[kind][k] = PowerRow => c = Loading(1, 1)
           /\ \A n, m : SingleRow(n, m, Plan[kind][k]) => c = Loading(n, IF m = 1 THEN 1 ELSE 5)
<1>1. kind = "start" => Breakers(kind) = 0
      BY DEF Breakers
<1>2. PowerRow.cmd = {}
      BY DEF PowerRow, Row
<1> DEFINE r == Plan[kind][k]
<1>3. r.cmd = {} => c = IF kind = "start" THEN Loading(1, 1) ELSE Powered
      BY DEF On
<1>4. r.cmd # {} => c \in r.cmd
      BY DEF On
<1> HIDE DEF r
<1>5. BreakerRow(kind, k, r) /\ k \in 1 .. Breakers(kind) => c = Powered
      BY <1>1, <1>3 DEF BreakerRow
<1>6. \A m : VoltRow(kind, m, r) => c = Volts(m)
      BY <1>4 DEF VoltRow
<1>7. \A n, m : LoadRow(n, m, r) => c = Loading(n, m)
      BY <1>4 DEF LoadRow
<1>8. kind = "start" /\ r = PowerRow => c = Loading(1, 1)
      BY <1>2, <1>3
<1>9. \A n, m : SingleRow(n, m, r) => c = Loading(n, IF m = 1 THEN 1 ELSE 5)
      BY <1>4 DEF SingleRow
<1> QED BY <1>5, <1>6, <1>7, <1>8, <1>9 DEF r

\* A row sends no command, or one.
LEMMA RowsSwitch ==
    ASSUME NEW kind \in Kinds, NEW k \in 1 .. Len(Plan[kind])
    PROVE  \/ Plan[kind][k].cmd = {}
           \/ \E c \in [lines : SUBSET (1..3), outputs : SUBSET (1..3)] : Plan[kind][k].cmd = {c}
<1>1. \A m \in 1..3 : Volts(m) \in [lines : SUBSET (1..3), outputs : SUBSET (1..3)]
      BY DEF Volts, VoltLines, Switched
<1>2. \A n \in 1..3, m \in 1..5 : Loading(n, m) \in [lines : SUBSET (1..3), outputs : SUBSET (1..3)]
      BY DEF Loading, LoadLines, Switched
<1>3. Branches(kind) \subseteq 1..3
      BY SensorsAre DEF Kinds
<1>4. PowerRow.cmd = {}
      BY DEF PowerRow, Row
<1>5. ASSUME NEW n \in 1..3, NEW m \in 1..2, SingleRow(n, m, Plan[kind][k])
      PROVE  \E c \in [lines : SUBSET (1..3), outputs : SUBSET (1..3)] : Plan[kind][k].cmd = {c}
  <2>1. (IF m = 1 THEN 1 ELSE 5) \in 1..5
        OBVIOUS
  <2> QED BY <1>2, <1>5, <2>1 DEF SingleRow
<1>6. ASSUME NEW n \in 1..3, NEW m \in 1..5, LoadRow(n, m, Plan[kind][k])
      PROVE  \E c \in [lines : SUBSET (1..3), outputs : SUBSET (1..3)] : Plan[kind][k].cmd = {c}
      BY <1>2, <1>6 DEF LoadRow
<1>7. ASSUME NEW m \in 1..3, VoltRow(kind, m, Plan[kind][k])
      PROVE  \E c \in [lines : SUBSET (1..3), outputs : SUBSET (1..3)] : Plan[kind][k].cmd = {c}
      BY <1>1, <1>7 DEF VoltRow
<1> QED BY RowIs, <1>3, <1>4, <1>5, <1>6, <1>7 DEF BreakerRow

\* The operator is asked for one breaker after the other, and at last to close them all.
LEMMA RowAsks ==
    ASSUME NEW kind \in Kinds, NEW k \in 1 .. Len(Plan[kind])
    PROVE  LET r == Plan[kind][k]
           IN /\ (IF r.ask = {} THEN AskedBefore(kind, k) ELSE UNION r.ask) = AskedAt(kind, k)
              /\ (IF r.after = {} THEN AskedAt(kind, k) ELSE UNION r.after) = AskedBefore(kind, k + 1)
              /\ AskedAt(kind, k) \subseteq 1..3 /\ AskedBefore(kind, k + 1) \subseteq 1..3
              /\ r.forces \/ kind = "start"
<1> DEFINE r == Plan[kind][k]
<1>1. Breakers(kind) \in 0..3 /\ k \in Nat \ {0}
      BY DEF Breakers, Kinds
<1>2. CASE k \in 1 .. Breakers(kind) /\ BreakerRow(kind, k, r)
  <2>1. /\ r.ask = {{k}} /\ r.forces
        /\ r.after = IF k = Breakers(kind) \/ kind = "single" THEN {{}} ELSE {}
        BY <1>2 DEF BreakerRow
  <2> HIDE DEF r
  <2>2. r.ask # {} /\ UNION r.ask = {k}
        BY <2>1
  <2>3. AskedAt(kind, k) = {k} /\ k \in 1..3
        BY <1>1, <1>2 DEF AskedAt
  <2>4. AskedBefore(kind, k + 1) = IF kind = "single" \/ k = Breakers(kind) THEN {} ELSE {k}
    <3>1. (k + 1 > Breakers(kind)) <=> k = Breakers(kind)
          BY <1>1, <1>2
    <3>2. k + 1 # 1 /\ (k + 1) - 1 = k
          BY <1>1
    <3> QED BY <3>1, <3>2 DEF AskedBefore
  <2>5. CASE kind = "single" \/ k = Breakers(kind)
    <3>1. r.after # {} /\ UNION r.after = {}
          BY <2>1, <2>5
    <3> QED BY <2>1, <2>2, <2>3, <2>4, <2>5, <3>1 DEF r
  <2>6. CASE ~(kind = "single" \/ k = Breakers(kind))
    <3>1. r.after = {}
          BY <2>1, <2>6
    <3> QED BY <2>1, <2>2, <2>3, <2>4, <2>6, <3>1 DEF r
  <2> QED BY <2>5, <2>6
<1>3. CASE k > Breakers(kind) /\ Plain(r) /\ (r.forces \/ kind = "start")
  <2>1. AskedAt(kind, k) = {} /\ AskedBefore(kind, k) = {} /\ AskedBefore(kind, k + 1) = {}
        BY <1>1, <1>3 DEF AskedAt, AskedBefore
  <2> QED BY <1>3, <2>1 DEF Plain
<1>4. (k \in 1 .. Breakers(kind) /\ BreakerRow(kind, k, r)) \/ (k > Breakers(kind) /\ Plain(r) /\ (r.forces \/ kind = "start"))
  <2>1. ASSUME NEW m \in 1..3, k = Breakers(kind) + m, VoltRow(kind, m, r)
        PROVE  k > Breakers(kind) /\ Plain(r) /\ r.forces
        BY <1>1, <2>1 DEF VoltRow
  <2>2. ASSUME NEW n \in Branches(kind), NEW m \in 1..5, kind # "single", k = Load(kind, n, m), LoadRow(n, m, r)
        PROVE  k > Breakers(kind) /\ Plain(r) /\ r.forces
    <3>1. n \in 1..3
          BY SensorsAre DEF Kinds
    <3>2. CASE kind = "start"
      <4>1. k >= 4
            BY <2>2, <3>2 DEF Load
      <4>2. Breakers(kind) = 0
            BY <3>2 DEF Breakers
      <4> QED BY <1>1, <2>2, <4>1, <4>2 DEF LoadRow
    <3>3. CASE kind # "start"
      <4>1. k = Loads(kind) + 5 * (n - 1) + m
            BY <2>2, <3>3 DEF Load
      <4>2. Loads(kind) \in Nat /\ Loads(kind) >= Breakers(kind)
            BY <2>2, <3>3 DEF Loads, Breakers, Kinds
      <4>3. 5 * (n - 1) \in Nat
            BY <3>1
      <4> HIDE DEF r
      <4>4. k > Breakers(kind)
            BY <1>1, <4>1, <4>2, <4>3
      <4> QED BY <2>2, <4>4 DEF LoadRow
    <3> QED BY <3>2, <3>3
  <2>3. CASE kind = "start" /\ k = 5 /\ r = PowerRow
        BY <2>3 DEF PowerRow, Row, Judging, Plain, Breakers
  <2>4. ASSUME NEW n \in 1..3, NEW m \in 1..2, kind = "single", k = Single(n, m), SingleRow(n, m, r)
        PROVE  k > Breakers(kind) /\ Plain(r) /\ r.forces
        BY <2>4 DEF SingleRow, Single, Breakers
  <2> QED BY RowIs, <2>1, <2>2, <2>3, <2>4
<1> QED BY <1>2, <1>3, <1>4

\* When a row judges.
LEMMA RowJudges ==
    ASSUME NEW kind \in Kinds, NEW k \in 1 .. Len(Plan[kind])
    PROVE  Judging(Plan[kind][k])
<1> DEFINE r == Plan[kind][k]
<1>1. (\E n : BreakerRow(kind, n, r)) \/ (\E m : VoltRow(kind, m, r)) \/ (\E n, m : LoadRow(n, m, r))
      \/ r = PowerRow \/ (\E n, m : SingleRow(n, m, r))
      BY RowIs
<1>2. Judging(PowerRow)
      BY DEF PowerRow, Row, Judging
<1> HIDE DEF r
<1>3. Judging(r)
      BY <1>1, <1>2 DEF BreakerRow, VoltRow, LoadRow, SingleRow, Plain
<1> QED BY <1>3 DEF r

-----------------------------------------------------------------------------
(* The values of the variables.                                            *)

Relays == [lines : SUBSET (1..3), outputs : SUBSET (1..3)]
Benches == [on : Relays, opened : SUBSET (1..3)]
ShownTyped(kind, s) == \A q \in Quantities : s[q] \in [Sensors(kind, q) -> Levels]

Typed ==
    /\ product \in Products /\ bench \in Benches /\ past \in Benches
    /\ ShownTyped(product.kind, shown)
    /\ at \in 1 .. Len(Plan[product.kind])
    /\ stage \in {"begin", "loop", "over"}
    /\ flag \in 0 .. Patience
    /\ ret \in BOOLEAN /\ noted \in BOOLEAN /\ calm \in BOOLEAN /\ met \in BOOLEAN /\ blind \in BOOLEAN
    /\ asked \subseteq 1..3
    /\ stage = "begin" => asked = AskedBefore(product.kind, at)
    /\ stage = "loop" => asked = AskedAt(product.kind, at)

\* The box under test is a box.
LEMMA ProductIs == ASSUME Typed PROVE IsProduct(product) /\ product.kind \in Kinds
BY ProductsAssumption DEF Typed, IsProduct

\* A sound box is a box, and what boxes measure are levels.
LEMMA SoundIs ==
    ASSUME NEW kind \in Kinds
    PROVE  IsProduct(Sound(kind)) /\ Sound(kind).kind = kind
<1>1. \A q \in Quantities : Sensors(kind, q) \subseteq Sensors(kind, "vol") /\ Sensors(kind, q) \subseteq 1..9
  <2>1. \A q \in Quantities : q = "vol" \/ q = "cur" \/ q = "pow"
        BY DEF Quantities
  <2>2. Sensors(kind, "vol") \subseteq 1..9 /\ 1 \in Sensors(kind, "vol")
        BY SensorsAre DEF Kinds
  <2>3. Sensors(kind, "pow") \subseteq {1}
        BY SensorsAre DEF Kinds
  <2> QED BY <2>1, <2>2, <2>3, SensorsAre
<1>2. \A q \in Quantities : \A i \in Sensors(kind, q) : [tap |-> i, live |-> "good", idle |-> "zero"] \in Sensor
  <2>1. \A i \in 1..9 : [tap |-> i, live |-> "good", idle |-> "zero"] \in Sensor
        BY DEF Sensor
  <2> QED BY <1>1, <2>1
<1> QED BY <1>1, <1>2 DEF IsProduct, Sound

\* Every reading of a box has a level for each of its sensors.
LEMMA ReadingTyped ==
    ASSUME NEW p, IsProduct(p), NEW b
    PROVE  ShownTyped(p.kind, Reading(p, b))
<1>1. \A q \in Quantities : \A i \in Sensors(p.kind, q) : p.sensors[q][i].live \in Levels /\ p.sensors[q][i].idle \in Levels
  <2>1. \A s \in Sensor : s.live \in Levels /\ s.idle \in Levels
        BY DEF Sensor, Levels
  <2> QED BY <2>1 DEF IsProduct
<1>2. \A q \in Quantities : Reading(p, b)[q] = [i \in Sensors(p.kind, q) |->
         IF Fed(p.kind, b.on, b.opened, q, p.sensors[q][i].tap) THEN p.sensors[q][i].live ELSE p.sensors[q][i].idle]
      BY DEF Reading
<1> QED BY <1>1, <1>2 DEF ShownTyped

\* So have the values that the box before it left.
LEMMA LeftoverTyped ==
    ASSUME NEW kind \in Kinds, NEW s \in Leftovers(kind)
    PROVE  ShownTyped(kind, s)
<1> DEFINE rows == {Plan[kind][k] : k \in DOMAIN Plan[kind]}
           C == UNION {r.cmd : r \in rows}
           F(c, o) == Reading(Sound(kind), [on |-> c, opened |-> o])
           Loaded == {F(c, o) : c \in C, o \in {{}}}
           Opened == {Reading(Sound(kind), [on |-> Powered, opened |-> o]) : o \in UNION {r.ask : r \in rows}}
<1>1. \E b : s = Reading(Sound(kind), b)
  <2>1. \A v \in Loaded : \E b : v = Reading(Sound(kind), b)
    <3> HIDE DEF F, C
    <3>1. \A v : v \in {F(c, o) : c \in C, o \in {{}}} => \E c, o : v = F(c, o)
          BY SMT
    <3>2. \A v \in Loaded : \E c, o : v = F(c, o)
          BY <3>1
    <3> HIDE DEF Loaded
    <3> QED BY <3>2 DEF F
  <2>2. \A v \in Opened : \E b : v = Reading(Sound(kind), b)
        BY Zenon
  <2>3. Leftovers(kind) = Loaded \cup Opened
        BY DEF Leftovers
  <2> HIDE DEF Loaded, Opened
  <2> QED BY <2>1, <2>2, <2>3
<1> QED BY <1>1, SoundIs, ReadingTyped

\* One round of a loop: what it has seen is what was there, or a reading of the bench.
LEMMA RoundIs ==
    ASSUME Typed, NEW r \in Rounds
    PROVE  /\ r.got \in BOOLEAN /\ r.data \in BOOLEAN /\ r.smooth \in BOOLEAN
           /\ ShownTyped(product.kind, r.seen)
           /\ ~r.data => r.seen = shown /\ ~r.smooth
           /\ r.data => \E b \in {bench, past} :
                 /\ r.seen = Reading(product, b)
                 /\ r.smooth => Reads /\ r.got /\ b = bench /\ bench.opened = asked
<1>1. CASE r \in [seen : {shown}, got : BOOLEAN, data : {FALSE}, smooth : {FALSE}]
      BY <1>1 DEF Typed
<1>2. CASE r = [seen |-> shown, got |-> ret, data |-> FALSE, smooth |-> FALSE]
      BY <1>2 DEF Typed
<1>3. ASSUME Reads, NEW ok \in BOOLEAN, NEW b \in {bench, past},
             r = [seen |-> Reading(product, b), got |-> ok, data |-> TRUE,
                  smooth |-> ok /\ b = bench /\ bench.opened = asked]
      PROVE  /\ r.got \in BOOLEAN /\ r.data \in BOOLEAN /\ r.smooth \in BOOLEAN
             /\ ShownTyped(product.kind, r.seen)
             /\ ~r.data => r.seen = shown /\ ~r.smooth
             /\ r.data => \E c \in {bench, past} :
                   /\ r.seen = Reading(product, c)
                   /\ r.smooth => Reads /\ r.got /\ c = bench /\ bench.opened = asked
  <2>1. r.data = TRUE /\ r.got = ok /\ r.seen = Reading(product, b) /\ r.smooth = (ok /\ b = bench /\ bench.opened = asked)
        BY <1>3
  <2>2. r.smooth \in BOOLEAN
        BY <2>1
  <2>3. ShownTyped(product.kind, r.seen)
        BY <2>1, ProductIs, ReadingTyped
  <2> QED BY <1>3, <2>1, <2>2, <2>3
<1>4. CASE ~Reads
      BY <1>2, <1>4 DEF Rounds
<1>5. CASE Reads
  <2> DEFINE Stale == [seen : {shown}, got : BOOLEAN, data : {FALSE}, smooth : {FALSE}]
             Fresh == {[seen |-> Reading(product, b), got |-> ok, data |-> TRUE,
                        smooth |-> ok /\ b = bench /\ bench.opened = asked] :
                           ok \in BOOLEAN, b \in {bench, past}}
  <2>0. Rounds = Stale \cup Fresh
        BY <1>5 DEF Rounds
  <2>1. \A v \in Fresh : \E ok \in BOOLEAN, b \in {bench, past} :
           v = [seen |-> Reading(product, b), got |-> ok, data |-> TRUE,
                smooth |-> ok /\ b = bench /\ bench.opened = asked]
    <3> DEFINE F(ok, b) == [seen |-> Reading(product, b), got |-> ok, data |-> TRUE,
                            smooth |-> ok /\ b = bench /\ bench.opened = asked]
    <3> HIDE DEF F
    <3>1. \A v : v \in {F(ok, b) : ok \in BOOLEAN, b \in {bench, past}} =>
                  \E ok \in BOOLEAN, b \in {bench, past} : v = F(ok, b)
          BY SMT
    <3> QED BY <3>1 DEF F
  <2> HIDE DEF Fresh
  <2>2. r \in Stale \/ r \in Fresh
        BY <2>0
  <2> QED BY <1>1, <1>3, <1>5, <2>1, <2>2
<1> QED BY <1>4, <1>5

\* Where a loop that has ended leaves the run.
LEMMA AdvanceIs ==
    ASSUME Typed, stage = "loop", NEW ok \in BOOLEAN, Advance(ok)
    PROVE  /\ ret' = ok
           /\ at' \in 1 .. Len(Plan[product.kind])
           /\ stage' \in {"begin", "over"}
           /\ stage' = "begin" => at' = at + 1 /\ asked' = AskedBefore(product.kind, at')
           /\ stage' = "over" => at' = at /\ (ok => at = Len(Plan[product.kind]))
           /\ asked' \subseteq 1..3
           /\ UNCHANGED <<product, bench, past, flag>>
<1>1. Len(Plan[product.kind]) \in Nat /\ at \in 1 .. Len(Plan[product.kind])
  <2>1. product.kind \in Kinds
        BY ProductIs
  <2>2. Len(Plan[product.kind]) \in {9, 15, 21}
        BY <2>1, PlanLength
  <2> QED BY <2>2 DEF Typed
<1>2. asked' = AskedBefore(product.kind, at + 1) /\ asked' \subseteq 1..3
  <2>1. asked = AskedAt(product.kind, at)
        BY DEF Typed
  <2> QED BY <1>1, <2>1, ProductIs, RowAsks DEF Advance, row
<1>3. ret' = ok /\ UNCHANGED <<product, bench, past, flag>>
      BY DEF Advance
<1>4. \/ at < Len(Plan[product.kind]) /\ at' = at + 1 /\ stage' = "begin"
      \/ ~(ok /\ at < Len(Plan[product.kind])) /\ at' = at /\ stage' = "over"
      BY DEF Advance
<1> DEFINE last == Len(Plan[product.kind])
<1> HIDE DEF last
<1>5. at < last /\ at \in 1 .. last /\ last \in Nat => at + 1 \in 1 .. last
      OBVIOUS
<1>6. at \in 1 .. last /\ ~(at < last) /\ last \in Nat => at = last
      OBVIOUS
<1> QED BY <1>1, <1>2, <1>3, <1>4, <1>5, <1>6 DEF last

\* The new values of a round.
LEMMA TakeIs ==
    ASSUME Typed, NEW r \in Rounds, Take(r)
    PROVE  /\ ShownTyped(product.kind, shown') /\ calm' \in BOOLEAN /\ met' \in BOOLEAN
           /\ calm' => calm /\ r.smooth
           /\ met' <=> met \/ r.data
           /\ shown' = r.seen
BY RoundIs DEF Take, Typed

\* What Begin makes of the bench.
LEMMA BeginIs ==
    ASSUME Typed, Begin
    PROVE  LET kind == product.kind
           IN /\ bench' \in Benches /\ past' \in Benches
              /\ bench'.opened = bench.opened
              /\ bench'.on = bench.on \/ Plan[kind][at].cmd = {bench'.on}
              /\ past' = IF bench' = bench THEN past ELSE bench
              /\ noted' \in BOOLEAN /\ calm' \in BOOLEAN
              /\ noted => noted'
              /\ calm' => calm
              /\ ~noted' => Plan[kind][at].cmd = {} \/ Plan[kind][at].cmd = {bench'.on}
              /\ calm' /\ ~noted => ~noted'
              /\ asked' = AskedAt(kind, at)
              /\ stage = "begin" /\ stage' = "loop" /\ flag' = 0
              /\ UNCHANGED <<product, shown, at, ret, met, blind>>
<1>1. product.kind \in Kinds /\ at \in 1 .. Len(Plan[product.kind]) /\ bench \in Benches /\ past \in Benches
      BY ProductIs DEF Typed
<1>2. asked' = AskedAt(product.kind, at)
  <2>1. asked = AskedBefore(product.kind, at)
        BY DEF Typed, Begin
  <2> QED BY <1>1, <2>1, RowAsks DEF Begin, row
<1>3. CASE row.cmd = {}
      BY <1>1, <1>2, <1>3 DEF Begin, row, Typed
<1>4. CASE row.cmd # {}
  <2>1. PICK c \in Relays : row.cmd = {c}
        BY <1>1, <1>4, RowsSwitch DEF row, Relays
  <2>2. PICK answered \in BOOLEAN, obeyed \in BOOLEAN :
           /\ answered => obeyed
           /\ Switch(IF obeyed THEN [bench EXCEPT !.on = c] ELSE bench)
           /\ noted' = (noted \/ ~answered)
           /\ calm' = (calm /\ answered)
        BY <1>4, <2>1 DEF Begin
  <2>3. [bench EXCEPT !.on = c] \in Benches /\ [bench EXCEPT !.on = c].on = c
        /\ [bench EXCEPT !.on = c].opened = bench.opened
        BY <1>1, <2>1 DEF Benches
  <2>4. /\ bench' \in Benches /\ bench'.opened = bench.opened
        /\ bench' = bench \/ bench'.on = c
        /\ answered => bench'.on = c
        /\ past' = IF bench' = bench THEN past ELSE bench
        BY <1>1, <2>2, <2>3 DEF Switch
  <2>5. noted \in BOOLEAN /\ calm \in BOOLEAN
        BY DEF Typed
  <2>6. noted' \in BOOLEAN /\ calm' \in BOOLEAN /\ (noted => noted') /\ (calm' => calm)
        /\ (~noted' => answered) /\ (calm' /\ ~noted => ~noted')
        BY <2>2, <2>5
  <2>7. past' \in Benches
        BY <1>1, <2>4
  <2> QED BY <1>2, <2>1, <2>4, <2>6, <2>7 DEF Begin, row
<1> QED BY <1>3, <1>4

\* Every step keeps the types, and with them what the operator was asked.
LEMMA TypedStep == Typed /\ [Next]_vars => Typed'
<1> SUFFICES ASSUME Typed, [Next]_vars PROVE Typed'
    OBVIOUS
<1>0. flag \in 0 .. Patience /\ Patience \in Nat
      BY PatienceAssumption DEF Typed
<1>1. CASE Begin
  <2>1. /\ bench' \in Benches /\ past' \in Benches /\ noted' \in BOOLEAN /\ calm' \in BOOLEAN
        /\ asked' = AskedAt(product.kind, at) /\ stage' = "loop" /\ flag' = 0
        /\ UNCHANGED <<product, shown, at, ret, met, blind>>
        BY <1>1, BeginIs
  <2>2. AskedAt(product.kind, at) \subseteq 1..3
        BY ProductIs, RowAsks DEF Typed
  <2> QED BY <1>0, <2>1, <2>2 DEF Typed
<1>2. CASE Succeed
  <2>1. PICK r \in Rounds : Take(r) /\ Advance(row.forces \/ r.got) /\ blind' = (blind \/ ~met')
        BY <1>2 DEF Succeed
  <2>2. (row.forces \/ r.got) \in BOOLEAN
        OBVIOUS
  <2>3. blind' \in BOOLEAN /\ noted' = noted /\ stage = "loop"
        BY <1>2, <2>1 DEF Succeed
  <2> QED BY <1>0, <2>1, <2>2, <2>3, AdvanceIs, TakeIs DEF Typed
<1>3. CASE TryAgain
  <2>1. PICK r \in Rounds : Take(r) /\ ret' = r.got
        BY <1>3 DEF TryAgain
  <2>2. ret' \in BOOLEAN
        BY <2>1, RoundIs
  <2>3. flag' \in 0 .. Patience
        BY <1>0, <1>3 DEF TryAgain
  <2>4. UNCHANGED <<product, bench, past, asked, at, stage, noted, blind>>
        BY <1>3 DEF TryAgain, benchVars
  <2> QED BY <2>1, <2>2, <2>3, <2>4, TakeIs DEF Typed
<1>4. CASE GiveUp
  <2>1. PICK r \in Rounds : Take(r) /\ Advance(~row.forces /\ r.got)
        BY <1>4 DEF GiveUp
  <2>2. (~row.forces /\ r.got) \in BOOLEAN
        OBVIOUS
  <2>3. blind' = blind /\ noted' = TRUE /\ stage = "loop"
        BY <1>4 DEF GiveUp
  <2> QED BY <1>0, <2>1, <2>2, <2>3, AdvanceIs, TakeIs DEF Typed
<1>5. CASE Operator
  <2>1. /\ bench' = [bench EXCEPT !.opened = asked] /\ (past' = past \/ past' = bench)
        /\ UNCHANGED <<product, asked, shown, at, stage, ret, flag, noted, calm, met, blind>>
        BY <1>5 DEF Operator, Switch, historyVars
  <2>2. bench' \in Benches /\ past' \in Benches
        BY <2>1 DEF Typed, Benches
  <2> QED BY <2>1, <2>2 DEF Typed
<1>6. CASE UNCHANGED vars
      BY <1>6 DEF Typed, vars, benchVars, historyVars
<1> QED BY <1>1, <1>2, <1>3, <1>4, <1>5, <1>6 DEF Next, Test

\* The types hold at first, and with the step, always.
LEMMA InitTyped == Init => Typed
<1> SUFFICES ASSUME Init PROVE Typed
    OBVIOUS
<1>1. product \in Products /\ product.kind \in Kinds
      BY ProductsAssumption DEF Init, IsProduct
<1>2. bench \in Benches /\ past = bench
      BY PoweredIs DEF Init, Benches, Relays, Switched
<1>3. ShownTyped(product.kind, shown)
      BY <1>1, LeftoverTyped DEF Init
<1>4. 1 \in 1 .. Len(Plan[product.kind])
  <2> DEFINE last == Len(Plan[product.kind])
  <2>1. last \in {9, 15, 21}
        BY <1>1, PlanLength
  <2> HIDE DEF last
  <2>2. 1 \in 1 .. last
        BY <2>1
  <2> QED BY <2>2 DEF last
<1>5. asked = AskedBefore(product.kind, 1) /\ asked \subseteq 1..3
      BY DEF Init, AskedBefore
<1>6. /\ at = 1 /\ stage = "begin" /\ flag = 0 /\ ret = TRUE /\ noted = FALSE /\ calm = TRUE
      /\ met = FALSE /\ blind = FALSE
      BY DEF Init
<1>7. 0 \in 0 .. Patience
      BY PatienceAssumption
<1> QED BY <1>1, <1>2, <1>3, <1>4, <1>5, <1>6, <1>7 DEF Typed

LEMMA TypedAlways == Spec => []Typed
BY InitTyped, TypedStep, PTL DEF Spec

\* Every variable keeps to its values.
THEOREM TypeCorrect == Spec => []TypeOK
<1>1. Typed => TypeOK
  <2> SUFFICES ASSUME Typed PROVE TypeOK
      OBVIOUS
  <2>1. \A b \in {bench, past} : /\ b.on.lines \subseteq 1..3 /\ b.on.outputs \subseteq 1..3
                                 /\ b.opened \subseteq 1..3
        BY DEF Typed, Benches, Relays
  <2>2. {ret, noted, calm, met, blind} \subseteq BOOLEAN
        BY DEF Typed
  <2> QED BY <2>1, <2>2, ProductIs DEF Typed, TypeOK, ShownTyped
<1> QED BY <1>1, TypedAlways, PTL

-----------------------------------------------------------------------------
(* Whoever finds that the tests failed finds a note why.                   *)

\* Every loop of a tap-off box decides about ret itself, and notes when it gives up.
THEOREM FailuresNoted == Spec => []FailureIsNoted
<1>1. Init => FailureIsNoted
      BY DEF Init, FailureIsNoted
<1>2. Typed /\ FailureIsNoted /\ [Next]_vars => FailureIsNoted'
  <2> SUFFICES ASSUME Typed, FailureIsNoted, [Next]_vars PROVE FailureIsNoted'
      OBVIOUS
  <2>1. CASE Begin
        BY <2>1 DEF Begin, FailureIsNoted
  <2>2. CASE Succeed
    <3>1. PICK r \in Rounds : Advance(row.forces \/ r.got)
          BY <2>2 DEF Succeed
    <3>2. (row.forces \/ r.got) \in BOOLEAN
          OBVIOUS
    <3>3. stage = "loop"
          BY <2>2 DEF Succeed
    <3>4. ret' = (row.forces \/ r.got) /\ product' = product
          BY <3>1, <3>2, <3>3, AdvanceIs
    <3>5. row.forces \/ product.kind = "start"
          BY ProductIs, RowAsks DEF row, Typed
    <3> QED BY <3>4, <3>5 DEF FailureIsNoted
  <2>3. CASE TryAgain
        BY <2>3 DEF TryAgain, FailureIsNoted
  <2>4. CASE GiveUp
        BY <2>4 DEF GiveUp, FailureIsNoted
  <2>5. CASE Operator
        BY <2>5 DEF Operator, FailureIsNoted
  <2>6. CASE UNCHANGED vars
        BY <2>6 DEF vars, benchVars, FailureIsNoted
  <2> QED BY <2>1, <2>2, <2>3, <2>4, <2>5, <2>6 DEF Next, Test
<1> QED BY <1>1, <1>2, TypedAlways, PTL DEF Spec


-----------------------------------------------------------------------------
(* A sound box passes on a bench that obeys.                               *)

\* What is switched on before row k.
Before(kind, k, c) == IF k = 1 THEN c = Powered ELSE On(kind, k - 1, c)

\* The breakers come first.
LEMMA BreakersFirst ==
    ASSUME NEW kind \in Kinds
    PROVE  \A j \in 1 .. Breakers(kind) : BreakerRow(kind, j, Plan[kind][j])
<1>1. CASE kind = "nine" \/ kind = "single"
  <2>1. Breakers(kind) = 3
        BY <1>1 DEF Breakers
  <2> QED BY <1>1, <2>1, NinePlan, SinglePlan
<1>2. CASE kind = "six"
  <2>1. Breakers(kind) = 2
        BY <1>2 DEF Breakers
  <2> QED BY <1>2, <2>1, SixPlan
<1>3. CASE kind = "three"
  <2>1. Breakers(kind) = 1
        BY <1>3 DEF Breakers
  <2>2. \A j \in 1 .. 1 : j = 1
        OBVIOUS
  <2> QED BY <1>3, <2>1, <2>2, ThreePlan
<1>4. CASE kind = "start"
  <2>1. Breakers(kind) = 0
        BY <1>4 DEF Breakers
  <2> QED BY <2>1
<1> QED BY <1>1, <1>2, <1>3, <1>4 DEF Kinds

\* A row that sends no command finds switched on what it needs.
LEMMA CarriedOver ==
    ASSUME NEW kind \in Kinds, NEW k \in 1 .. Len(Plan[kind]), NEW c, Before(kind, k, c),
           Plan[kind][k].cmd = {}
    PROVE  On(kind, k, c)
<1> DEFINE r == Plan[kind][k]
<1>1. k \in 1 .. Breakers(kind) \/ (kind = "start" /\ k = 5)
  <2>1. ~(\E m \in 1..3 : VoltRow(kind, m, r)) /\ ~(\E n \in Branches(kind), m \in 1..5 : LoadRow(n, m, r))
        /\ ~(\E n \in 1..3, m \in 1..2 : SingleRow(n, m, r))
        BY DEF VoltRow, LoadRow, SingleRow
  <2> QED BY <2>1, RowIs
<1>2. CASE k \in 1 .. Breakers(kind)
  <2>1. kind # "start" /\ Breakers(kind) \in 1..3
        BY <1>2 DEF Breakers, Kinds
  <2>2. \A j \in 1 .. Breakers(kind) : Plan[kind][j].cmd = {}
    <3>1. \A j \in 1 .. Breakers(kind) : BreakerRow(kind, j, Plan[kind][j])
          BY <2>1, BreakersFirst
    <3> QED BY <3>1 DEF BreakerRow
  <2>3. k = 1 \/ (k - 1 \in 1 .. Breakers(kind))
        BY <1>2, <2>1
  <2> QED BY <2>1, <2>2, <2>3 DEF Before, On
<1>3. CASE kind = "start" /\ k = 5
  <2>1. Load("start", 1, 1) = 4 /\ 1 \in 1..5
        BY DEF Load
  <2>2. LoadRow(1, 1, Plan["start"][4]) /\ 4 \in 1 .. Len(Plan["start"])
        BY <2>1, StartPlan
  <2>3. On("start", 4, c)
        BY <1>3 DEF Before
  <2>4. c = Loading(1, 1)
        BY <2>2, <2>3 DEF On, LoadRow
  <2> QED BY <1>3, <2>4 DEF On
<1> QED BY <1>1, <1>2, <1>3

\* What a sensor reads.
LEMMA ReadsAs ==
    ASSUME NEW p, IsProduct(p), NEW b, NEW q \in Quantities, NEW i \in Sensors(p.kind, q)
    PROVE  LET s == p.sensors[q][i]
           IN /\ Reading(p, b)[q][i] = IF Fed(p.kind, b.on, b.opened, q, s.tap) THEN s.live ELSE s.idle
              /\ s.live \in {"odd", "good"} /\ s.idle \in {"zero", "odd"}
              /\ s.tap \in Sensors(p.kind, "vol") \cup {Loose}
<1>1. \A s \in Sensor : s.live \in {"odd", "good"} /\ s.idle \in {"zero", "odd"}
      BY DEF Sensor
<1> QED BY <1>1 DEF IsProduct, Reading

\* In a sound box a sensor reads right while its own tap is fed, and nothing else.
LEMMA SoundReads ==
    ASSUME NEW kind \in Kinds, NEW b, NEW q \in Quantities, NEW i \in Sensors(kind, q)
    PROVE  Reading(Sound(kind), b)[q][i] = IF Fed(kind, b.on, b.opened, q, i) THEN "good" ELSE "zero"
BY DEF Reading, Sound

\* Every row waits for what a sound box shows once the bench is as the row wants it.
LEMMA SoundMeets ==
    ASSUME NEW kind \in Kinds, NEW k \in 1 .. Len(Plan[kind]), NEW b \in Benches,
           On(kind, k, b.on), b.opened = AskedAt(kind, k)
    PROVE  LET r == Plan[kind][k]
           IN \A i \in DOMAIN r.want : Reading(Sound(kind), b)[r.q][i] \in r.want[i]
<1> DEFINE r == Plan[kind][k]
           Sees(q, i) == Reading(Sound(kind), b)[q][i]
<1> SUFFICES \A i \in DOMAIN r.want : Sees(r.q, i) \in r.want[i]
    OBVIOUS
<1>1. \A q \in Quantities : \A i \in Sensors(kind, q) :
         Sees(q, i) = IF Fed(kind, b.on, b.opened, q, i) THEN "good" ELSE "zero"
      BY SoundReads
<1> HIDE DEF Sees
<1>2. "vol" \in Quantities /\ "cur" \in Quantities /\ "pow" \in Quantities
      BY DEF Quantities
<1>3. Sensors(kind, "vol") = Sensors(kind, "cur") /\ Sensors(kind, "vol") \subseteq 1..9
      /\ Branches(kind) \subseteq 1..3
      BY SensorsAre DEF Kinds
<1>4. \A i \in 1..9 : i # Loose
      BY DEF Loose
<1>5. \A i \in Sensors(kind, "vol") : Phase(kind, i) \in 1..3
      BY <1>3, TapIs
<1>6. k > Breakers(kind) => b.opened = {}
  <2>1. Breakers(kind) \in 0..3
        BY DEF Breakers, Kinds
  <2> QED BY <2>1 DEF AskedAt
<1>7. CASE k \in 1 .. Breakers(kind) /\ BreakerRow(kind, k, r)
  <2>1. b.on = Powered /\ Powered.lines = {1, 2, 3}
        BY <1>7, OnIs, PoweredIs DEF Switched
  <2>2. b.opened = {k}
    <3>1. Breakers(kind) \in 0..3
          BY DEF Breakers, Kinds
    <3> QED BY <1>7, <3>1 DEF AskedAt
  <2>3. \A i \in Sensors(kind, "vol") : Fed(kind, b.on, b.opened, "vol", i) <=> Branch(kind, i) # k
        BY <1>3, <1>4, <1>5, <2>1, <2>2 DEF Fed
  <2> HIDE DEF r
  <2> QED BY <1>1, <1>2, <1>7, <2>3 DEF BreakerRow, Good, Zero
<1>8. ASSUME NEW m \in 1..3, kind # "single", k = Breakers(kind) + m, VoltRow(kind, m, r)
      PROVE  \A i \in DOMAIN r.want : Sees(r.q, i) \in r.want[i]
  <2>1. b.on = Volts(m) /\ Volts(m).lines = VoltLines(m)
        BY <1>8, OnIs DEF Volts, Switched
  <2>2. b.opened = {}
    <3>1. Breakers(kind) \in 0..3
          BY DEF Breakers, Kinds
    <3> QED BY <1>6, <1>8, <3>1
  <2>3. \A i \in Sensors(kind, "vol") : Fed(kind, b.on, b.opened, "vol", i) <=> Phase(kind, i) \in VoltLines(m)
        BY <1>3, <1>4, <2>1, <2>2 DEF Fed
  <2> HIDE DEF r
  <2> QED BY <1>1, <1>2, <1>8, <2>3 DEF VoltRow, Good, Zero
<1>9. ASSUME NEW n \in Branches(kind), NEW m \in 1..5, kind # "single", k > Breakers(kind), LoadRow(n, m, r)
      PROVE  \A i \in DOMAIN r.want : Sees(r.q, i) \in r.want[i]
  <2>1. b.on = Loading(n, m)
        BY <1>9, OnIs
  <2>2. b.opened = {} /\ n \in 1..3
        BY <1>3, <1>6, <1>9
  <2>3. ASSUME NEW l \in 1..3
        PROVE  Sees("cur", 3 * (n - 1) + l) \in r.want[3 * (n - 1) + l]
    <3> DEFINE i == 3 * (n - 1) + l
    <3>1. Branch(kind, i) = n /\ Phase(kind, i) = l
          BY <1>9, <2>2, TapIs
    <3>2. i \in Sensors(kind, "cur") /\ i # Loose
          BY <1>9, <2>2, SensorsAre DEF Kinds, Loose
    <3>3. r.want[i] = r.want[3 * (n - 1) + l]
          OBVIOUS
    <3> HIDE DEF i
    <3>4. Fed(kind, b.on, b.opened, "cur", i) <=> ~Dark(m, l)
          BY <2>1, <2>2, <3>1, <3>2 DEF Fed, Loading, Switched, Dark, LoadLines
    <3> HIDE DEF r
    <3>5. Sees("cur", i) \in r.want[i]
          BY <1>1, <1>2, <1>9, <3>2, <3>3, <3>4 DEF LoadRow
    <3> QED BY <3>5 DEF i
  <2>4. \A i \in DOMAIN r.want : \E l \in 1..3 : i = 3 * (n - 1) + l
    <3>1. DOMAIN r.want = 3 * (n - 1) + 1 .. 3 * (n - 1) + 3
          BY <1>9 DEF LoadRow
    <3> DEFINE f == 3 * (n - 1)
    <3>2. f \in Nat
          BY <2>2
    <3> HIDE DEF f
    <3>3. \A i \in f + 1 .. f + 3 : i - f \in 1..3 /\ i = f + (i - f)
          BY <3>2
    <3> QED BY <3>1, <3>3 DEF f
  <2> QED BY <1>9, <2>3, <2>4 DEF LoadRow
<1>10. CASE kind = "start" /\ k = 5 /\ r = PowerRow
  <2>1. b.on = Loading(1, 1) /\ b.opened = {}
        BY <1>6, <1>10, OnIs DEF Breakers
  <2>2. Fed("start", b.on, b.opened, "pow", 1)
        BY <2>1 DEF Fed, Loading, LoadLines, Switched, Loose, Branch, Phase
  <2>3. Sees("pow", 1) = "good"
        BY <1>1, <1>2, <1>10, <2>2, SensorsAre
  <2>4. r.q = "pow" /\ r.want = From(0, <<Good>>)
        BY <1>10 DEF PowerRow, Row
  <2>5. DOMAIN From(0, <<Good>>) = {1} /\ From(0, <<Good>>)[1] = Good
        BY DEF From
  <2> QED BY <2>3, <2>4, <2>5 DEF Good
<1>11. ASSUME NEW n \in 1..3, NEW m \in 1..2, kind = "single", k > Breakers(kind), SingleRow(n, m, r)
       PROVE  \A i \in DOMAIN r.want : Sees(r.q, i) \in r.want[i]
  <2>1. b.on = Loading(n, IF m = 1 THEN 1 ELSE 5) /\ b.opened = {}
    <3>1. \A a, d : SingleRow(a, d, r) => b.on = Loading(a, IF d = 1 THEN 1 ELSE 5)
          BY OnIs
    <3>2. b.on = Loading(n, IF m = 1 THEN 1 ELSE 5)
          BY <1>11, <3>1
    <3> QED BY <1>6, <1>11, <3>2
  <2>2. \A i \in 1..3 : Branch(kind, i) = i /\ Phase(kind, i) = 1 /\ i # Loose
        BY <1>11 DEF Branch, Phase, Loose
  <2>3. Sensors(kind, "cur") = 1..3
        BY <1>11, SensorsAre DEF Kinds
  <2>4. CASE m = 1
    <3>1. Fed(kind, b.on, b.opened, "cur", n)
          BY <2>1, <2>2, <2>4 DEF Fed, Loading, LoadLines, Switched
    <3> HIDE DEF r
    <3> QED BY <1>1, <1>2, <1>11, <2>3, <2>4, <3>1 DEF SingleRow, Good
  <2>5. CASE m = 2
    <3>1. \A i \in 1..3 : ~Fed(kind, b.on, b.opened, "cur", i)
          BY <2>1, <2>5 DEF Fed, Loading, Switched
    <3> HIDE DEF r
    <3> QED BY <1>1, <1>2, <1>11, <2>3, <2>5, <3>1 DEF SingleRow
  <2> QED BY <2>4, <2>5
<1>12. \A n \in Branches(kind), m \in 1..5 : kind # "single" /\ k = Load(kind, n, m) => k > Breakers(kind)
  <2> SUFFICES ASSUME NEW n \in 1..3, NEW m \in 1..5, kind # "single", k = Load(kind, n, m)
               PROVE  k > Breakers(kind)
      BY <1>3
  <2>1. CASE kind = "start"
        BY <2>1 DEF Load, Breakers
  <2>2. CASE kind # "start"
    <3>1. k = Loads(kind) + 5 * (n - 1) + m
          BY <2>2 DEF Load
    <3>2. Loads(kind) \in Nat /\ Breakers(kind) \in Nat /\ Loads(kind) >= Breakers(kind)
          BY <2>2 DEF Loads, Breakers, Kinds
    <3> HIDE DEF r
    <3> QED BY <3>1, <3>2
  <2> QED BY <2>1, <2>2
<1>13. \A n \in 1..3, m \in 1..2 : kind = "single" /\ k = Single(n, m) => k > Breakers(kind)
       BY DEF Single, Breakers
<1> HIDE DEF r
<1> QED BY RowIs, <1>7, <1>8, <1>9, <1>10, <1>11, <1>12, <1>13 DEF r


\* As long as nothing is noted, what is switched on is what the row asked for.
Obeyed ==
    ~noted => /\ stage = "loop" => On(product.kind, at, bench.on)
              /\ stage = "begin" => Before(product.kind, at, bench.on)

\* The command that failed to come through is noted, here and in the next two.
LEMMA InitObeyed == Init => Obeyed
BY DEF Init, Obeyed, Before

LEMMA ObeyedStep == Typed /\ Obeyed /\ [Next]_vars => Obeyed'
<1> SUFFICES ASSUME Typed, Obeyed, [Next]_vars PROVE Obeyed'
    OBVIOUS
<1>1. CASE Begin
  <2> DEFINE r == Plan[product.kind][at]
  <2>1. /\ stage' = "loop" /\ product' = product /\ at' = at /\ stage = "begin" /\ (noted => noted')
        /\ bench'.on = bench.on \/ r.cmd = {bench'.on}
        /\ ~noted' => r.cmd = {} \/ r.cmd = {bench'.on}
        BY <1>1, BeginIs
  <2>2. product.kind \in Kinds /\ at \in 1 .. Len(Plan[product.kind])
        BY ProductIs DEF Typed
  <2> SUFFICES ASSUME ~noted' PROVE On(product.kind, at, bench'.on)
      BY <2>1 DEF Obeyed
  <2>3. Before(product.kind, at, bench.on)
        BY <2>1 DEF Obeyed
  <2>4. CASE r.cmd = {}
    <3>1. bench'.on = bench.on
          BY <2>1, <2>4
    <3> QED BY <2>2, <2>3, <2>4, <3>1, CarriedOver
  <2>5. CASE r.cmd = {bench'.on}
    <3>1. r.cmd # {}
          BY <2>5
    <3> QED BY <2>5, <3>1 DEF On
  <2> QED BY <2>1, <2>4, <2>5
<1>2. CASE Succeed
  <2>1. PICK r \in Rounds : Advance(row.forces \/ r.got)
        BY <1>2 DEF Succeed
  <2>2. (row.forces \/ r.got) \in BOOLEAN /\ noted' = noted /\ stage = "loop"
        BY <1>2 DEF Succeed
  <2>3. /\ stage' \in {"begin", "over"} /\ (stage' = "begin" => at' = at + 1)
        /\ product' = product /\ bench' = bench
        BY <2>1, <2>2, AdvanceIs
  <2>4. at \in Nat /\ (at + 1) - 1 = at /\ at + 1 # 1
        BY DEF Typed
  <2> QED BY <2>2, <2>3, <2>4 DEF Obeyed, Before
<1>3. CASE TryAgain
      BY <1>3 DEF TryAgain, benchVars, Obeyed
<1>4. CASE GiveUp
      BY <1>4 DEF GiveUp, Obeyed
<1>5. CASE Operator
  <2>1. bench'.on = bench.on /\ UNCHANGED <<product, at, stage, noted>>
        BY <1>5 DEF Operator, Switch, Typed, Benches
  <2> QED BY <2>1 DEF Obeyed
<1>6. CASE UNCHANGED vars
      BY <1>6 DEF vars, benchVars, Obeyed
<1> QED BY <1>1, <1>2, <1>3, <1>4, <1>5, <1>6 DEF Next, Test

LEMMA ObeyedAlways == Spec => []Obeyed
BY InitObeyed, ObeyedStep, TypedAlways, PTL, InitTyped, TypedStep DEF Spec

\* A smooth round meets the row: it read the bench as it is, and that is as asked.
LEMMA SmoothMeets ==
    ASSUME Typed, Obeyed, ~noted, stage = "loop", product = Sound(product.kind),
           NEW r \in Rounds, r.smooth
    PROVE  Meets(r) /\ r.got
<1>1. /\ r.seen = Reading(product, bench) /\ Reads /\ r.got = TRUE /\ bench.opened = asked
      BY RoundIs
<1>2. /\ product.kind \in Kinds /\ at \in 1 .. Len(Plan[product.kind]) /\ bench \in Benches
      /\ asked = AskedAt(product.kind, at)
      BY ProductIs DEF Typed
<1>3. On(product.kind, at, bench.on)
      BY DEF Obeyed
<1>4. \A i \in DOMAIN row.want : r.seen[row.q][i] \in row.want[i]
      BY <1>1, <1>2, <1>3, SoundMeets DEF row
<1>5. Judged(r)
  <2>1. Judging(row)
        BY <1>2, RowJudges DEF row
  <2> QED BY <1>1, <2>1 DEF Judged, Judging
<1> QED BY <1>1, <1>4, <1>5 DEF Meets

\* A sound box on a bench that obeys, reads and is served at once never gets a
\* failure noted, whichever of the five kinds it is: every loop of Power_DevRead
\* waits for what its own command brings about.
THEOREM SoundBoxPasses == Spec => []SoundPasses
<1>1. Init => SoundPasses
      BY DEF Init, SoundPasses
<1>2. Typed /\ Obeyed /\ SoundPasses /\ [Next]_vars => SoundPasses'
  <2> SUFFICES ASSUME Typed, Obeyed, SoundPasses, [Next]_vars, product' = Sound(product'.kind), calm'
               PROVE  ~noted' /\ ret'
      BY DEF SoundPasses
  <2>1. CASE Begin
        BY <2>1, BeginIs DEF SoundPasses
  <2>2. ASSUME NEW r \in Rounds, Take(r), stage = "loop", product' = product
        PROVE  ~noted /\ Meets(r) /\ r.got /\ r.got = TRUE
    <3>1. calm /\ r.smooth
          BY <2>2, TakeIs
    <3>2. ~noted
          BY <2>2, <3>1 DEF SoundPasses
    <3>3. Meets(r) /\ r.got
          BY <2>2, <3>1, <3>2, SmoothMeets
    <3> QED BY <2>2, <3>2, <3>3, RoundIs
  <2>3. CASE Succeed
    <3>1. PICK r \in Rounds : Take(r) /\ Advance(row.forces \/ r.got)
          BY <2>3 DEF Succeed
    <3>2. stage = "loop" /\ noted' = noted
          BY <2>3 DEF Succeed
    <3>3. product' = product /\ ret' = (row.forces \/ r.got)
          BY <3>1 DEF Advance
    <3> QED BY <2>2, <3>1, <3>2, <3>3
  <2>4. CASE TryAgain
    <3>1. PICK r \in Rounds : Take(r) /\ ~Meets(r)
          BY <2>4 DEF TryAgain
    <3>2. stage = "loop" /\ product' = product
          BY <2>4 DEF TryAgain, benchVars
    <3> QED BY <2>2, <3>1, <3>2
  <2>5. CASE GiveUp
    <3>1. PICK r \in Rounds : Take(r) /\ ~Meets(r) /\ Advance(~row.forces /\ r.got)
          BY <2>5 DEF GiveUp
    <3>2. stage = "loop"
          BY <2>5 DEF GiveUp
    <3>3. product' = product
          BY <3>1 DEF Advance
    <3> QED BY <2>2, <3>1, <3>2, <3>3
  <2>6. CASE Operator
        BY <2>6 DEF Operator, historyVars, SoundPasses
  <2>7. CASE UNCHANGED vars
        BY <2>7 DEF vars, benchVars, historyVars, SoundPasses
  <2> QED BY <2>1, <2>3, <2>4, <2>5, <2>6, <2>7 DEF Next, Test
<1> QED BY <1>1, <1>2, TypedAlways, ObeyedAlways, PTL DEF Spec


-----------------------------------------------------------------------------
(* A box that passes is sound.                                             *)

\* The output whose turn it is when row k is tested.
Group(kind, k) == CASE kind = "nine"   -> IF k <= 11 THEN 1 ELSE IF k <= 16 THEN 2 ELSE 3
                    [] kind = "six"    -> IF k <= 10 THEN 1 ELSE 2
                    [] kind = "single" -> IF k <= 5 THEN 1 ELSE IF k <= 7 THEN 2 ELSE 3
                    [] OTHER           -> 1

\* The benches that a value judged in row k may show: what an earlier row switched on,
\* with a breaker that the operator was slow to close; but never loads of another
\* output than the one whose turn it is.
OnSoFar(kind, k, c) == c = Powered \/ \E j \in 1 .. k : On(kind, j, c)
Opened(kind, k, o) == o = {} \/ \E n \in 1 .. k : n <= Breakers(kind) /\ o = {n}
Window(kind, k) ==
    {b \in Benches : /\ OnSoFar(kind, k, b.on)
                     /\ Opened(kind, k, b.opened)
                     /\ b.on.outputs \ b.opened \subseteq {Group(kind, k)}}

Shows(p, k, b) ==
    LET r == Plan[p.kind][k] IN \A i \in DOMAIN r.want : Reading(p, b)[r.q][i] \in r.want[i]
Passed(p, k) == \E b \in Window(p.kind, k) : Shows(p, k, b)

FedBy(p, b, q, i) == Fed(p.kind, b.on, b.opened, q, p.sensors[q][i].tap)

\* What a value tells of its sensor.
LEMMA Tells ==
    ASSUME NEW p, IsProduct(p), NEW b, NEW q \in Quantities, NEW i \in Sensors(p.kind, q)
    PROVE  LET s == p.sensors[q][i]
               v == Reading(p, b)[q][i]
           IN /\ v = "good" => FedBy(p, b, q, i) /\ s.live = "good"
              /\ v = "zero" => ~FedBy(p, b, q, i) /\ s.idle = "zero"
              /\ v \in NotGood /\ s.live = "good" => ~FedBy(p, b, q, i)
BY ReadsAs DEF FedBy, NotGood

\* What has been switched on up to row k.
LEMMA SwitchedSoFar ==
    ASSUME NEW kind \in Kinds, NEW k \in 0 .. Len(Plan[kind]), NEW c, OnSoFar(kind, k, c)
    PROVE  \/ c = Powered
           \/ kind # "single" /\ \E m \in 1..3 : Breakers(kind) + m <= k /\ c = Volts(m)
           \/ kind # "single" /\ \E n \in Branches(kind), m \in 1..5 : Load(kind, n, m) <= k /\ c = Loading(n, m)
           \/ kind = "single" /\ \E n \in 1..3, m \in 1..2 :
                                    Single(n, m) <= k /\ c = Loading(n, IF m = 1 THEN 1 ELSE 5)
<1> SUFFICES ASSUME c # Powered, NEW j \in 1 .. k, On(kind, j, c)
             PROVE  \/ kind # "single" /\ \E m \in 1..3 : Breakers(kind) + m <= k /\ c = Volts(m)
                    \/ kind # "single" /\ \E n \in Branches(kind), m \in 1..5 : Load(kind, n, m) <= k /\ c = Loading(n, m)
                    \/ kind = "single" /\ \E n \in 1..3, m \in 1..2 :
                                             Single(n, m) <= k /\ c = Loading(n, IF m = 1 THEN 1 ELSE 5)
    BY DEF OnSoFar
<1> DEFINE r == Plan[kind][j]
           last == Len(Plan[kind])
<1>0. last \in Nat
  <2>1. last \in {9, 15, 21}
        BY PlanLength
  <2> HIDE DEF last
  <2> QED BY <2>1
<1> HIDE DEF last
<1>1. j \in 1 .. last /\ j <= k
  <2>1. k \in 0 .. last
        BY DEF last
  <2> QED BY <1>0, <2>1
<1>2. j \in 1 .. Len(Plan[kind])
      BY <1>1 DEF last
<1>3. CASE j \in 1 .. Breakers(kind) /\ BreakerRow(kind, j, r)
      BY <1>2, <1>3, OnIs
<1>4. ASSUME NEW m \in 1..3, kind # "single", j = Breakers(kind) + m, VoltRow(kind, m, r)
      PROVE  Breakers(kind) + m <= k /\ c = Volts(m)
      BY <1>1, <1>2, <1>4, OnIs
<1>5. ASSUME NEW n \in Branches(kind), NEW m \in 1..5, kind # "single", j = Load(kind, n, m), LoadRow(n, m, r)
      PROVE  Load(kind, n, m) <= k /\ c = Loading(n, m)
      BY <1>1, <1>2, <1>5, OnIs
<1>6. CASE kind = "start" /\ j = 5 /\ r = PowerRow
  <2>1. c = Loading(1, 1)
        BY <1>2, <1>6, OnIs
  <2>2. Load(kind, 1, 1) <= k /\ 1 \in 1..5 /\ 1 \in Branches(kind)
        BY <1>1, <1>6, SensorsAre DEF Load
  <2> QED BY <1>6, <2>1, <2>2
<1>7. ASSUME NEW n \in 1..3, NEW m \in 1..2, kind = "single", j = Single(n, m), SingleRow(n, m, r)
      PROVE  Single(n, m) <= k /\ c = Loading(n, IF m = 1 THEN 1 ELSE 5)
  <2>1. \A a, d : SingleRow(a, d, r) => c = Loading(a, IF d = 1 THEN 1 ELSE 5)
        BY <1>2, OnIs
  <2> QED BY <1>1, <1>7, <2>1
<1> HIDE DEF r
<1>8. \/ j \in 1 .. Breakers(kind) /\ BreakerRow(kind, j, r)
      \/ kind # "single" /\ \E m \in 1..3 : j = Breakers(kind) + m /\ VoltRow(kind, m, r)
      \/ kind # "single" /\ \E n \in Branches(kind), m \in 1..5 : j = Load(kind, n, m) /\ LoadRow(n, m, r)
      \/ kind = "start" /\ j = 5 /\ r = PowerRow
      \/ kind = "single" /\ \E n \in 1..3, m \in 1..2 : j = Single(n, m) /\ SingleRow(n, m, r)
      BY <1>2, RowIs DEF r
<1> QED BY <1>3, <1>4, <1>5, <1>6, <1>7, <1>8

\* Where the rows of an output lie.
LEMMA GroupIs ==
    /\ \A kind \in Kinds \ {"single"} : \A n \in Branches(kind), m \in 1..5 :
          /\ Group(kind, Load(kind, n, m)) = n /\ n \in 1..3
          /\ Load(kind, n, m) \in 1 .. Len(Plan[kind])
          /\ Load(kind, n, m) > Breakers(kind) + 3
          /\ \A d \in 1..5 : Load(kind, n, d) <= Load(kind, n, m) => d <= m
    /\ \A n \in 1..3, m \in 1..2 : Group("single", Single(n, m)) = n /\ Single(n, m) \in 1 .. Len(Plan["single"])
<1> DEFINE Lies(kind, n, m, last, breakers) ==
              /\ Group(kind, Load(kind, n, m)) = n /\ n \in 1..3
              /\ Load(kind, n, m) \in 1 .. last
              /\ Load(kind, n, m) > breakers + 3
              /\ \A d \in 1..5 : Load(kind, n, d) <= Load(kind, n, m) => d <= m
<1>1. \A kind \in Kinds \ {"single"} : \A n \in Branches(kind), m \in 1..5 :
         Lies(kind, n, m, Len(Plan[kind]), Breakers(kind))
  <2>1. \A n \in 1..3, m \in 1..5 : Lies("nine", n, m, 21, 3)
        BY DEF Group, Load, Loads
  <2>2. \A n \in 1..2, m \in 1..5 : Lies("six", n, m, 15, 2)
        BY DEF Group, Load, Loads
  <2>3. \A n \in 1..1, m \in 1..5 : Lies("three", n, m, 9, 1)
        BY DEF Group, Load, Loads
  <2>4. \A n \in 1..1, m \in 1..5 : Lies("start", n, m, 9, 0)
        BY DEF Group, Load, Loads
  <2>5. Breakers("nine") = 3 /\ Breakers("six") = 2 /\ Breakers("three") = 1 /\ Breakers("start") = 0
        BY DEF Breakers
  <2>6. Len(Plan["nine"]) = 21 /\ Len(Plan["six"]) = 15 /\ Len(Plan["three"]) = 9 /\ Len(Plan["start"]) = 9
        BY NinePlan, SixPlan, ThreePlan, StartPlan
  <2>7. \A kind \in Kinds \ {"single"} : kind = "nine" \/ kind = "six" \/ kind = "three" \/ kind = "start"
        BY DEF Kinds
  <2>8. /\ Branches("nine") = 1..3 /\ Branches("six") = 1..2
        /\ Branches("three") = 1..1 /\ Branches("start") = 1..1
        BY SensorsAre DEF Kinds
  <2> HIDE DEF Lies
  <2> SUFFICES ASSUME NEW kind \in Kinds \ {"single"}, NEW n \in Branches(kind), NEW m \in 1..5
               PROVE  Lies(kind, n, m, Len(Plan[kind]), Breakers(kind))
      OBVIOUS
  <2>9. CASE kind = "nine"
        BY <2>1, <2>5, <2>6, <2>8, <2>9
  <2>10. CASE kind = "six"
        BY <2>2, <2>5, <2>6, <2>8, <2>10
  <2>11. CASE kind = "three"
        BY <2>3, <2>5, <2>6, <2>8, <2>11
  <2>12. CASE kind = "start"
        BY <2>4, <2>5, <2>6, <2>8, <2>12
  <2> QED BY <2>7, <2>9, <2>10, <2>11, <2>12
<1>2. \A n \in 1..3, m \in 1..2 : Group("single", Single(n, m)) = n /\ Single(n, m) \in 1..9
      BY DEF Group, Single
<1> QED BY <1>1, <1>2, SinglePlan


\* The supply is on, and no load is, in every reading a breaker row may judge.
LEMMA BreakerWindow ==
    ASSUME NEW kind \in Kinds, NEW n \in 1 .. Breakers(kind), NEW b \in Window(kind, n)
    PROVE  /\ b.on.lines = {1, 2, 3} /\ b.on.outputs = {}
           /\ b.opened = {} \/ \E m \in 1 .. n : b.opened = {m}
<1>1. Breakers(kind) \in 0..3 /\ n \in Nat
      BY DEF Breakers, Kinds
<1>2. n \in 0 .. Len(Plan[kind])
  <2> DEFINE last == Len(Plan[kind])
  <2>1. last \in {9, 15, 21}
        BY PlanLength
  <2> HIDE DEF last
  <2>2. n \in 0 .. last
        BY <1>1, <2>1
  <2> QED BY <2>2 DEF last
<1>3. b.on = Powered
  <2>1. \A a \in Branches(kind), m \in 1..5 : kind # "single" => ~(Load(kind, a, m) <= n)
    <3> SUFFICES ASSUME NEW a \in Branches(kind), NEW m \in 1..5, kind # "single"
                 PROVE  ~(Load(kind, a, m) <= n)
        OBVIOUS
    <3>1. Load(kind, a, m) > Breakers(kind) + 3 /\ Load(kind, a, m) \in Int
      <4> DEFINE last == Len(Plan[kind])
      <4>1. Load(kind, a, m) \in 1 .. last
            BY GroupIs
      <4> HIDE DEF last
      <4>2. Load(kind, a, m) \in Int
            BY <4>1
      <4> QED BY <4>2, GroupIs
    <3> QED BY <1>1, <3>1
  <2>2. \A m \in 1..3 : ~(Breakers(kind) + m <= n)
        BY <1>1
  <2>3. \A a \in 1..3, m \in 1..2 : kind = "single" => ~(Single(a, m) <= n)
    <3>1. Breakers("single") = 3
          BY DEF Breakers
    <3> QED BY <1>1, <3>1 DEF Single
  <2>4. OnSoFar(kind, n, b.on)
        BY DEF Window
  <2> QED BY <1>2, <2>1, <2>2, <2>3, <2>4, SwitchedSoFar
<1> QED BY <1>3, PoweredIs DEF Switched, Window, Opened

\* The first sensor of a branch.
First(kind, n) == IF kind = "single" THEN n ELSE 3 * (n - 1) + 1

\* Every branch has a sensor of the first phase, every sensor a branch and a phase.
LEMMA FirstIs ==
    ASSUME NEW kind \in Kinds
    PROVE  /\ \A n \in Branches(kind) : /\ First(kind, n) \in Sensors(kind, "vol")
                                        /\ Branch(kind, First(kind, n)) = n /\ Phase(kind, First(kind, n)) = 1
           /\ \A i \in Sensors(kind, "vol") : /\ i \in 1..9 /\ i # Loose
                                              /\ Branch(kind, i) \in Branches(kind)
                                              /\ Phase(kind, i) \in 1..3
           /\ Branches(kind) \subseteq 1..3
<1>1. CASE kind = "single"
      BY <1>1, SensorsAre DEF First, Branch, Phase, Loose
<1>2. CASE kind = "nine"
  <2>1. \A i \in 1..9 : Branch("nine", i) \in 1..3
        BY DEF Branch
  <2>2. \A n \in 1..3 : 3 * (n - 1) + 1 \in 1..9
        OBVIOUS
  <2> QED BY <1>2, <2>1, <2>2, SensorsAre, TapIs DEF First, Loose, Kinds
<1>3. CASE kind = "six"
  <2>1. \A i \in 1..6 : Branch("six", i) \in 1..2
        BY DEF Branch
  <2>2. \A n \in 1..2 : 3 * (n - 1) + 1 \in 1..6
        OBVIOUS
  <2> QED BY <1>3, <2>1, <2>2, SensorsAre, TapIs DEF First, Loose, Kinds
<1>4. CASE kind = "three" \/ kind = "start"
  <2>1. \A i \in 1..3 : Branch(kind, i) = 1
        BY <1>4 DEF Branch
  <2>2. Branches(kind) = 1..1 /\ Sensors(kind, "vol") = 1..3
        BY <1>4, SensorsAre DEF Kinds
  <2>3. \A n \in 1..1 : n = 1 /\ 3 * (n - 1) + 1 = 1
        OBVIOUS
  <2> QED BY <1>4, <2>1, <2>2, <2>3, SensorsAre, TapIs DEF First, Loose, Kinds
<1> QED BY <1>1, <1>2, <1>3, <1>4 DEF Kinds

\* A box has a breaker for every branch; a start box has none.
LEMMA BreakersAre ==
    ASSUME NEW kind \in Kinds
    PROVE  /\ Breakers(kind) \in 0..3
           /\ kind = "start" <=> Breakers(kind) = 0
           /\ kind # "start" => Branches(kind) = 1 .. Breakers(kind)
<1>1. CASE kind = "nine" \/ kind = "single"
  <2>1. Breakers(kind) = 3
        BY <1>1 DEF Breakers
  <2> QED BY <1>1, <2>1, SensorsAre
<1>2. CASE kind = "six"
  <2>1. Breakers(kind) = 2 /\ kind # "start"
        BY <1>2 DEF Breakers
  <2>2. Branches(kind) = 1..2
        BY <1>2, SensorsAre DEF Kinds
  <2> QED BY <2>1, <2>2
<1>3. CASE kind = "three"
  <2>1. Breakers(kind) = 1 /\ kind # "start"
        BY <1>3 DEF Breakers
  <2>2. Branches(kind) = 1..1
        BY <1>3, SensorsAre DEF Kinds
  <2> QED BY <2>1, <2>2
<1>4. CASE kind = "start"
  <2>1. Breakers(kind) = 0
        BY <1>4 DEF Breakers
  <2> QED BY <1>4, <2>1
<1> QED BY <1>1, <1>2, <1>3, <1>4 DEF Kinds

\* The breaker rows tell on which branch a voltage sensor sits, and that it shows
\* nothing when that branch is dark.
LEMMA BreakersTell ==
    ASSUME NEW p, IsProduct(p), \A n \in 1 .. Breakers(p.kind) : Passed(p, n)
    PROVE  \A i \in Sensors(p.kind, "vol") :
              LET s == p.sensors["vol"][i]
              IN /\ s.tap # Loose => Branch(p.kind, s.tap) = Branch(p.kind, i)
                 /\ p.kind # "start" => s.idle = "zero"
                 /\ Breakers(p.kind) > 1 => s.tap # Loose /\ s.live = "good"
<1> DEFINE kind == p.kind
           S == Sensors(kind, "vol")
           N == Breakers(kind)
           tap(i) == p.sensors["vol"][i].tap
           On1(i) == Branch(kind, i)
<1>0. kind \in Kinds /\ "vol" \in Quantities
      BY DEF IsProduct, Quantities
<1>1. \A i \in S : tap(i) = Loose \/ tap(i) \in S
      BY <1>0 DEF IsProduct
<1>2. N \in 0..3 /\ (kind # "start" => N > 0 /\ Branches(kind) = 1 .. N)
      BY <1>0, BreakersAre
\* What one row says.
<1>3. ASSUME NEW n \in 1 .. N
      PROVE  /\ \A i \in S : /\ On1(i) # n => tap(i) # Loose /\ p.sensors["vol"][i].live = "good"
                             /\ On1(i) = n => p.sensors["vol"][i].idle = "zero"
             /\ \/ \A i \in S : On1(i) = n => tap(i) = Loose
                \/ \E m \in 1 .. n : \A i \in S : tap(i) # Loose => (On1(tap(i)) = m <=> On1(i) = n)
  <2>1. PICK b \in Window(kind, n) : Shows(p, n, b)
        BY DEF Passed
  <2>2. BreakerRow(kind, n, Plan[kind][n])
        BY <1>0, BreakersFirst
  <2>3. \A i \in S : Reading(p, b)["vol"][i] = IF On1(i) = n THEN "zero" ELSE "good"
        BY <2>1, <2>2 DEF Shows, BreakerRow, Good, Zero
  <2>4. \A i \in S : FedBy(p, b, "vol", i) <=> On1(i) # n
        BY <1>0, <2>3, Tells
  <2>5. \A i \in S : tap(i) = Loose \/ Phase(kind, tap(i)) \in {1, 2, 3}
        BY <1>0, <1>1, FirstIs
  <2>6. b.on.lines = {1, 2, 3} /\ (b.opened = {} \/ \E m \in 1 .. n : b.opened = {m})
        BY <1>0, BreakerWindow
  <2>7. \A i \in S : FedBy(p, b, "vol", i) <=> tap(i) # Loose /\ On1(tap(i)) \notin b.opened
        BY <2>5, <2>6 DEF FedBy, Fed
  <2>8. \A i \in S : /\ On1(i) # n => tap(i) # Loose /\ p.sensors["vol"][i].live = "good"
                     /\ On1(i) = n => p.sensors["vol"][i].idle = "zero"
        BY <1>0, <2>3, <2>4, <2>7, Tells
  <2>9. CASE b.opened = {}
        BY <2>4, <2>7, <2>8, <2>9
  <2>10. ASSUME NEW m \in 1 .. n, b.opened = {m}
         PROVE  \A i \in S : tap(i) # Loose => (On1(tap(i)) = m <=> On1(i) = n)
         BY <2>4, <2>7, <2>10
  <2> QED BY <2>6, <2>8, <2>9, <2>10
<1>9. N > 1 => kind # "start"
      BY <1>0, BreakersAre
<1>4. CASE N = 0
  <2>1. kind = "start"
        BY <1>0, <1>4, BreakersAre
  <2>2. \A i \in S : On1(i) = 1
        BY <2>1, FirstIs, SensorsAre, <1>0
  <2> QED BY <1>1, <1>4, <2>1, <2>2
<1>5. CASE N = 1
  <2>1. \A i \in S : On1(i) = 1
        BY <1>0, <1>2, <1>5, FirstIs, SensorsAre DEF Breakers, Kinds
  <2> QED BY <1>1, <1>3, <1>5, <2>1
<1>6. CASE N > 1
  <2>1. \A i \in S : On1(i) \in 1 .. N
        BY <1>0, <1>2, <1>6, <1>9, FirstIs
  <2>2. \A i \in S : \E n \in 1 .. N : On1(i) # n
    <3>1. 1 \in 1 .. N /\ 2 \in 1 .. N
          BY <1>2, <1>6
    <3> QED BY <3>1
  <2>3. \A i \in S : tap(i) # Loose /\ p.sensors["vol"][i].live = "good" /\ p.sensors["vol"][i].idle = "zero"
        BY <1>3, <2>1, <2>2
  <2>4. \A n \in 1 .. N : \E i \in S : On1(i) = n
        BY <1>0, <1>2, <1>6, <1>9, FirstIs
  <2>5. \A n \in 1 .. N : \E m \in 1 .. n : \A i \in S : On1(tap(i)) = m <=> On1(i) = n
        BY <1>3, <2>3, <2>4
  <2> HIDE DEF tap, On1, S, N
  <2>6. \A i \in S : On1(tap(i)) = 1 <=> On1(i) = 1
        BY <1>2, <1>6, <2>5
  <2>7. \A i \in S : On1(tap(i)) = 2 <=> On1(i) = 2
        BY <1>2, <1>6, <2>4, <2>5, <2>6
  <2>8. N = 3 => \A i \in S : On1(tap(i)) = 3 <=> On1(i) = 3
        BY <1>2, <2>4, <2>5, <2>6, <2>7
  <2>9. \A i \in S : On1(tap(i)) = On1(i)
        BY <1>2, <1>6, <2>1, <2>6, <2>7, <2>8
  <2> QED BY <2>3, <2>9 DEF tap, On1, S, N
<1> QED BY <1>2, <1>4, <1>5, <1>6


\* What a reading may show that a voltage row judges.
LEMMA VoltWindow ==
    ASSUME NEW kind \in Kinds, kind # "single", NEW m \in 1..3, NEW b \in Window(kind, Breakers(kind) + m)
    PROVE  /\ b.on.lines = {1, 2, 3} \/ \E d \in 1 .. m : b.on.lines = VoltLines(d)
           /\ b.opened = {} \/ \E n \in Branches(kind) : b.opened = {n}
<1> DEFINE k == Breakers(kind) + m
           last == Len(Plan[kind])
<1>1. Breakers(kind) \in 0..3 /\ k \in Nat
      BY BreakersAre
<1>2. k \in 0 .. last
  <2>1. last \in {9, 15, 21}
        BY PlanLength
  <2> HIDE DEF last
  <2> QED BY <1>1, <2>1
<1>3. \A a \in Branches(kind), d \in 1..5 : ~(Load(kind, a, d) <= k)
  <2> SUFFICES ASSUME NEW a \in Branches(kind), NEW d \in 1..5
               PROVE  ~(Load(kind, a, d) <= k)
      OBVIOUS
  <2>1. Load(kind, a, d) \in 1 .. last /\ Load(kind, a, d) > Breakers(kind) + 3
        BY GroupIs
  <2> HIDE DEF last
  <2>2. Load(kind, a, d) \in Int
        BY <2>1
  <2> QED BY <1>1, <2>1, <2>2
<1>4. OnSoFar(kind, k, b.on)
      BY DEF Window
<1>5. b.on = Powered \/ \E d \in 1..3 : Breakers(kind) + d <= k /\ b.on = Volts(d)
      BY <1>2, <1>3, <1>4, SwitchedSoFar
<1>6. \A d \in 1..3 : Breakers(kind) + d <= k => d \in 1 .. m
      BY <1>1
<1>7. b.opened = {} \/ \E n \in Branches(kind) : b.opened = {n}
  <2>1. Opened(kind, k, b.opened)
        BY DEF Window
  <2>2. \A n \in 1 .. k : n <= Breakers(kind) => n \in 1 .. Breakers(kind) /\ kind # "start"
        BY <1>1, BreakersAre
  <2> QED BY <2>1, <2>2, BreakersAre DEF Opened
<1> QED BY <1>5, <1>6, <1>7, PoweredIs DEF Switched, Volts

\* The voltage rows tell the phase that a sensor measures: with the branch it sits on,
\* that is its tap.
LEMMA VoltsTell ==
    ASSUME NEW p, IsProduct(p), p.kind # "single",
           \A n \in 1 .. Breakers(p.kind) : Passed(p, n),
           \A m \in 1..3 : Passed(p, Breakers(p.kind) + m)
    PROVE  \A i \in Sensors(p.kind, "vol") :
              LET s == p.sensors["vol"][i]
              IN /\ s.tap = i /\ s.live = "good"
                 /\ s.idle = "zero" \/ (p.kind = "start" /\ i = 1)
<1> DEFINE kind == p.kind
           S == Sensors(kind, "vol")
           tap(i) == p.sensors["vol"][i].tap
           Ph(i) == Phase(kind, i)
<1>0. kind \in Kinds /\ "vol" \in Quantities
      BY DEF IsProduct, Quantities
<1>1. \A i \in S : tap(i) = Loose \/ tap(i) \in S
      BY <1>0 DEF IsProduct
<1>2. \A i \in S : /\ tap(i) # Loose => Branch(kind, tap(i)) = Branch(kind, i)
                   /\ kind # "start" => p.sensors["vol"][i].idle = "zero"
      BY BreakersTell
<1>3. \A i \in S : Ph(i) \in 1..3 /\ i # Loose
      BY <1>0, FirstIs
\* What one row says.
<1>4. ASSUME NEW m \in 1..3
      PROVE  \E lines \in {{1, 2, 3}} \cup {VoltLines(d) : d \in 1 .. m} :
                \A i \in S : /\ Ph(i) \in VoltLines(m) => /\ tap(i) # Loose /\ Ph(tap(i)) \in lines
                                                          /\ p.sensors["vol"][i].live = "good"
                             /\ Ph(i) \notin VoltLines(m) => /\ tap(i) # Loose => Ph(tap(i)) \notin lines
                                                             /\ p.sensors["vol"][i].idle = "zero"
  <2> DEFINE k == Breakers(kind) + m
  <2>1. PICK b \in Window(kind, k) : Shows(p, k, b)
        BY DEF Passed
  <2>2. VoltRow(kind, m, Plan[kind][k])
    <3>1. /\ Breakers("nine") = 3 /\ Breakers("six") = 2 /\ Breakers("three") = 1 /\ Breakers("start") = 0
          /\ 0 + m = m
          BY DEF Breakers
    <3>2. kind = "nine" \/ kind = "six" \/ kind = "three" \/ kind = "start"
          BY <1>0 DEF Kinds
    <3> QED BY <3>1, <3>2, NinePlan, SixPlan, ThreePlan, StartPlan
  <2> HIDE DEF k
  <2>3. \A i \in S : Reading(p, b)["vol"][i] = IF Ph(i) \in VoltLines(m) THEN "good" ELSE "zero"
        BY <2>1, <2>2 DEF Shows, VoltRow, Good, Zero
  <2>4. \A i \in S : FedBy(p, b, "vol", i) <=> Ph(i) \in VoltLines(m)
        BY <1>0, <2>3, Tells
  <2>5. /\ b.on.lines = {1, 2, 3} \/ \E d \in 1 .. m : b.on.lines = VoltLines(d)
        /\ b.opened = {} \/ \E n \in Branches(kind) : b.opened = {n}
        BY <1>0, <2>1, VoltWindow DEF k
  <2>6. b.opened = {}
    <3>1. ASSUME NEW n \in Branches(kind), b.opened = {n} PROVE FALSE
      <4>1. /\ First(kind, n) \in S /\ Branch(kind, First(kind, n)) = n
            /\ Ph(First(kind, n)) \in VoltLines(m)
            BY <1>0, FirstIs DEF VoltLines
      <4>2. FedBy(p, b, "vol", First(kind, n))
            BY <2>4, <4>1
      <4>3. tap(First(kind, n)) # Loose /\ Branch(kind, tap(First(kind, n))) \notin b.opened
            BY <4>2 DEF FedBy, Fed
      <4> QED BY <1>2, <3>1, <4>1, <4>3
    <3> QED BY <2>5, <3>1
  <2>7. \A i \in S : FedBy(p, b, "vol", i) <=> tap(i) # Loose /\ Ph(tap(i)) \in b.on.lines
        BY <2>6 DEF FedBy, Fed
  <2>8. \A i \in S : /\ Ph(i) \in VoltLines(m) => p.sensors["vol"][i].live = "good"
                     /\ Ph(i) \notin VoltLines(m) => p.sensors["vol"][i].idle = "zero"
        BY <1>0, <2>3, Tells
  <2>9. b.on.lines \in {{1, 2, 3}} \cup {VoltLines(d) : d \in 1 .. m}
        BY <2>5
  <2> QED BY <2>4, <2>7, <2>8, <2>9
\* There are sensors of each phase.
<1>5. \A l \in 1..3 : \E j \in S : Ph(j) = l
  <2>1. 1..3 \subseteq S
        BY <1>0, SensorsAre DEF Kinds
  <2>2. Ph(1) = 1 /\ Ph(2) = 2 /\ Ph(3) = 3
        BY DEF Phase
  <2>3. \A l \in 1..3 : l = 1 \/ l = 2 \/ l = 3
        OBVIOUS
  <2> HIDE DEF S, Ph
  <2> QED BY <2>1, <2>2, <2>3
<1>6. {VoltLines(d) : d \in 1..1} = {{1, 3}} /\ {VoltLines(d) : d \in 1..2} = {{1, 3}, {1, 2}}
      /\ VoltLines(1) = {1, 3} /\ VoltLines(2) = {1, 2}
  <2>1. VoltLines(1) = {1, 3} /\ VoltLines(2) = {1, 2}
        BY DEF VoltLines
  <2>2. \A d \in 1..1 : d = 1
        OBVIOUS
  <2>3. \A d \in 1..2 : d = 1 \/ d = 2
        OBVIOUS
  <2>4. 1 \in 1..1 /\ 1 \in 1..2 /\ 2 \in 1..2
        OBVIOUS
  <2> QED BY <2>1, <2>2, <2>3, <2>4
<1> HIDE DEF S, Ph, tap, kind
<1>7. PICK one \in {{1, 2, 3}, {1, 3}} :
         \A i \in S : /\ Ph(i) # 2 => /\ tap(i) # Loose /\ Ph(tap(i)) \in one
                                      /\ p.sensors["vol"][i].live = "good"
                      /\ Ph(i) = 2 => /\ tap(i) # Loose => Ph(tap(i)) \notin one
                                      /\ p.sensors["vol"][i].idle = "zero"
  <2>1. \A i \in S : Ph(i) \in VoltLines(1) <=> Ph(i) # 2
        BY <1>3, <1>6
  <2>2. 1 \in 1..3
        OBVIOUS
  <2> QED BY <1>4, <1>6, <2>1, <2>2
<1>8. PICK two \in {{1, 2, 3}, {1, 3}, {1, 2}} :
         \A i \in S : /\ Ph(i) # 3 => /\ tap(i) # Loose /\ Ph(tap(i)) \in two
                                      /\ p.sensors["vol"][i].live = "good"
                      /\ Ph(i) = 3 => /\ tap(i) # Loose => Ph(tap(i)) \notin two
                                      /\ p.sensors["vol"][i].idle = "zero"
  <2>1. \A i \in S : Ph(i) \in VoltLines(2) <=> Ph(i) # 3
        BY <1>3, <1>6
  <2>2. 2 \in 1..3
        OBVIOUS
  <2> QED BY <1>4, <1>6, <2>1, <2>2
<1>9. \A i \in S : tap(i) # Loose /\ p.sensors["vol"][i].live = "good" /\ Ph(tap(i)) = Ph(i)
  <2>1. \A i \in S : tap(i) # Loose /\ p.sensors["vol"][i].live = "good"
        BY <1>3, <1>7, <1>8
  <2>2. \A i \in S : Ph(tap(i)) \in 1..3
        BY <1>1, <1>3, <2>1
  <2>3. one = {1, 3}
        BY <1>5, <1>7, <2>1, <2>2
  <2>4. two = {1, 2}
        BY <1>5, <1>7, <1>8, <2>1, <2>2, <2>3
  <2> QED BY <1>3, <1>7, <1>8, <2>1, <2>2, <2>3, <2>4
<1>10. \A i \in S : tap(i) = i
  <2>1. \A i \in S : /\ i = 3 * (Branch(kind, i) - 1) + Ph(i)
                     /\ tap(i) = 3 * (Branch(kind, tap(i)) - 1) + Ph(tap(i))
    <3>1. \A i \in S : i \in 1..9
          BY <1>0, FirstIs DEF S, kind
    <3>2. kind \in Kinds \ {"single"}
          BY <1>0 DEF kind
    <3> QED BY <1>1, <1>9, <3>1, <3>2, TapIs DEF Ph
  <2>2. \A i \in S : Branch(kind, tap(i)) = Branch(kind, i)
        BY <1>2, <1>9 DEF S, kind, tap
  <2> QED BY <1>9, <2>1, <2>2
<1>11. \A i \in S : p.sensors["vol"][i].idle = "zero" \/ (kind = "start" /\ i = 1)
  <2>1. CASE kind # "start"
        BY <1>2, <2>1 DEF S, kind
  <2>2. CASE kind = "start"
    <3>1. \A i \in S : i = 1 \/ Ph(i) = 2 \/ Ph(i) = 3
      <4>1. S = 1..3
            BY <2>2, SensorsAre DEF S, Kinds
      <4>2. Ph(2) = 2 /\ Ph(3) = 3
            BY <2>2 DEF Phase, Ph
      <4> QED BY <4>1, <4>2
    <3> QED BY <1>7, <1>8, <2>2, <3>1
  <2> QED BY <2>1, <2>2
<1> QED BY <1>9, <1>10, <1>11 DEF S, kind, tap


\* What a reading may show that a load row judges, if the output is loaded in it.
LEMMA LoadWindow ==
    ASSUME NEW kind \in Kinds, kind # "single", NEW n \in Branches(kind), NEW m \in 1..5,
           NEW b \in Window(kind, Load(kind, n, m))
    PROVE  /\ b.on.outputs \ b.opened \subseteq {n}
           /\ n \in b.on.outputs => \E d \in 1 .. m : d # 5 /\ b.on = Loading(n, d)
<1> DEFINE k == Load(kind, n, m)
           last == Len(Plan[kind])
<1>1. Group(kind, k) = n /\ n \in 1..3 /\ k \in 1 .. last
      /\ \A d \in 1..5 : Load(kind, n, d) <= k => d <= m
  <2>1. kind \in Kinds \ {"single"}
        OBVIOUS
  <2> QED BY <2>1, GroupIs
<1>2. k \in 0 .. last
  <2>1. \A x, y : x \in 1 .. y => x \in 0 .. y
        OBVIOUS
  <2> QED BY <1>1, <2>1
<1> HIDE DEF k, last
<1>3. b.on.outputs \ b.opened \subseteq {n} /\ OnSoFar(kind, k, b.on)
      BY <1>1 DEF Window, k
<1>4. \/ b.on = Powered
      \/ \E d \in 1..3 : b.on = Volts(d)
      \/ \E a \in Branches(kind), d \in 1..5 : Load(kind, a, d) <= k /\ b.on = Loading(a, d)
      BY <1>2, <1>3, SwitchedSoFar DEF last
<1>5. ASSUME n \in b.on.outputs, NEW a \in Branches(kind), NEW d \in 1..5, Load(kind, a, d) <= k, b.on = Loading(a, d)
      PROVE  d \in 1 .. m /\ d # 5 /\ b.on = Loading(n, d)
  <2>1. d # 5 /\ a = n
        BY <1>5 DEF Loading, Switched
  <2> QED BY <1>1, <1>5, <2>1
<1>6. Powered.outputs = {} /\ \A d : Volts(d).outputs = {}
      BY PoweredIs DEF Volts, Switched
<1> QED BY <1>3, <1>4, <1>5, <1>6

\* The rows of an output tell the taps of its sensors, and that a reading which passes
\* the last of them shows the output without its load.
LEMMA CurrentsTell ==
    ASSUME NEW p, IsProduct(p), p.kind # "single", NEW n \in Branches(p.kind),
           \A m \in 1..5 : Passed(p, Load(p.kind, n, m))
    PROVE  /\ \A l \in 1..3 :
                 LET s == p.sensors["cur"][3 * (n - 1) + l]
                 IN s.tap = 3 * (n - 1) + l /\ s.live = "good" /\ s.idle = "zero"
           /\ \A b \in Window(p.kind, Load(p.kind, n, 5)) :
                 Shows(p, Load(p.kind, n, 5), b) => b.on.outputs \ b.opened = {}
<1> DEFINE kind == p.kind
           at0 == 3 * (n - 1)
           sensor(l) == p.sensors["cur"][at0 + l]
           tap(l) == sensor(l).tap
           Shown(b, l) == Reading(p, b)["cur"][at0 + l]
<1>0. kind \in Kinds /\ "cur" \in Quantities /\ n \in 1..3
  <2>1. p.kind \in Kinds
        BY DEF IsProduct
  <2> QED BY <2>1, FirstIs DEF Quantities
<1>1. \A l \in 1..3 : at0 + l \in Sensors(kind, "cur")
  <2>1. CASE kind = "nine"
        BY <1>0, <2>1, SensorsAre DEF Kinds
  <2>2. CASE kind = "six"
    <3>1. n \in 1..2 /\ Sensors(kind, "cur") = 1..6
          BY <1>0, <2>2, SensorsAre
    <3> QED BY <3>1
  <2>3. CASE kind = "three" \/ kind = "start"
    <3>1. n \in 1..1 /\ Sensors(kind, "cur") = 1..3
          BY <1>0, <2>3, SensorsAre
    <3> QED BY <3>1
  <2> QED BY <1>0, <2>1, <2>2, <2>3 DEF Kinds
<1>2. \A l \in 1..3 : /\ tap(l) = Loose \/ tap(l) \in Sensors(kind, "vol")
                      /\ tap(l) # Loose => tap(l) \in 1..9 /\ Phase(kind, tap(l)) \in 1..3
      BY <1>0, <1>1, FirstIs DEF IsProduct
<1>3. \A b : \A l \in 1..3 :
         /\ Shown(b, l) = "good" => FedBy(p, b, "cur", at0 + l) /\ sensor(l).live = "good"
         /\ Shown(b, l) = "zero" => ~FedBy(p, b, "cur", at0 + l) /\ sensor(l).idle = "zero"
         /\ Shown(b, l) \in NotGood /\ sensor(l).live = "good" => ~FedBy(p, b, "cur", at0 + l)
      BY <1>0, <1>1, Tells
<1>4. \A b : \A l \in 1..3 :
         FedBy(p, b, "cur", at0 + l) <=> /\ tap(l) # Loose
                                         /\ Phase(kind, tap(l)) \in b.on.lines
                                         /\ Branch(kind, tap(l)) \notin b.opened
                                         /\ Branch(kind, tap(l)) \in b.on.outputs
      BY DEF FedBy, Fed
<1>5. \A m \in 1..5 : LoadRow(n, m, Plan[kind][Load(kind, n, m)])
  <2>1. kind = "nine" \/ kind = "six" \/ kind = "three" \/ kind = "start"
        BY <1>0 DEF Kinds
  <2>2. kind = "six" => n \in 1..2
        BY SensorsAre
  <2>3. kind \in {"three", "start"} => n = 1
    <3>1. kind \in {"three", "start"} => n \in 1..1
          BY <1>0, SensorsAre
    <3> QED BY <3>1
  <2> QED BY <1>0, <2>1, <2>2, <2>3, NinePlan, SixPlan, ThreePlan, StartPlan
<1>6. \A m \in 1..5 : \A b : Shows(p, Load(kind, n, m), b) =>
         \A l \in 1..3 : /\ ~Dark(m, l) => Shown(b, l) = "good" \/ m = 2
                         /\ Dark(m, l) => Shown(b, l) \in NotGood
                         /\ m = 5 => Shown(b, l) = "zero"
  <2> SUFFICES ASSUME NEW m \in 1..5, NEW b, Shows(p, Load(kind, n, m), b), NEW l \in 1..3
               PROVE  /\ ~Dark(m, l) => Shown(b, l) = "good" \/ m = 2
                      /\ Dark(m, l) => Shown(b, l) \in NotGood
                      /\ m = 5 => Shown(b, l) = "zero"
      OBVIOUS
  <2> DEFINE r == Plan[kind][Load(kind, n, m)]
             w == r.want[at0 + l]
  <2>1. LoadRow(n, m, r)
        BY <1>5
  <2>2. r.q = "cur" /\ at0 + l \in DOMAIN r.want
    <3>1. DOMAIN r.want = at0 + 1 .. at0 + 3 /\ r.q = "cur"
          BY <2>1 DEF LoadRow
    <3>2. at0 \in Nat
          BY <1>0
    <3> HIDE DEF at0, r
    <3> QED BY <3>1, <3>2
  <2>3. Shown(b, l) \in w
        BY <2>2 DEF Shows
  <2>4. /\ Dark(m, l) => w \subseteq NotGood
        /\ ~Dark(m, l) /\ m # 2 => w = Good
        /\ m = 5 => w = Zero
        BY <2>1 DEF LoadRow
  <2> HIDE DEF w, Shown
  <2> QED BY <2>3, <2>4 DEF Good, Zero
<1> HIDE DEF Shown, tap, sensor
\* What a row says.
<1>7. ASSUME NEW m \in {1, 3, 4}
      PROVE  \E d \in 1 .. m : \A l \in 1..3 :
                /\ ~Dark(m, l) => /\ tap(l) # Loose /\ Branch(kind, tap(l)) = n
                                  /\ Phase(kind, tap(l)) \in LoadLines(d) /\ sensor(l).live = "good"
                /\ Dark(m, l) /\ sensor(l).live = "good" /\ tap(l) # Loose /\ Branch(kind, tap(l)) = n =>
                      Phase(kind, tap(l)) \notin LoadLines(d)
  <2>0. m \in 1..5 /\ m # 2 /\ m # 5
        OBVIOUS
  <2>1. PICK b \in Window(kind, Load(kind, n, m)) : Shows(p, Load(kind, n, m), b)
        BY <2>0 DEF Passed
  <2>2. \A l \in 1..3 : /\ ~Dark(m, l) => FedBy(p, b, "cur", at0 + l) /\ sensor(l).live = "good"
                        /\ Dark(m, l) /\ sensor(l).live = "good" => ~FedBy(p, b, "cur", at0 + l)
        BY <1>3, <1>6, <2>0, <2>1
  <2>3. ~Dark(m, 1)
        BY DEF Dark, LoadLines
  <2>4. b.on.outputs \ b.opened \subseteq {n}
        BY <1>0, <2>0, <2>1, LoadWindow
  <2>5. n \in b.on.outputs /\ n \notin b.opened
    <3>1. Branch(kind, tap(1)) \notin b.opened /\ Branch(kind, tap(1)) \in b.on.outputs
          BY <1>4, <2>2, <2>3
    <3>2. Branch(kind, tap(1)) = n
          BY <2>4, <3>1
    <3> QED BY <3>1, <3>2
  <2>6. PICK d \in 1 .. m : b.on = Loading(n, d) /\ d # 5
        BY <1>0, <2>0, <2>1, <2>5, LoadWindow
  <2>7. b.on.lines = LoadLines(d)
        BY <2>6 DEF Loading, Switched
  <2>8. \A l \in 1..3 : ~Dark(m, l) => /\ tap(l) # Loose /\ Branch(kind, tap(l)) = n
                                       /\ Phase(kind, tap(l)) \in LoadLines(d) /\ sensor(l).live = "good"
        BY <1>4, <2>2, <2>4, <2>7
  <2>9. \A l \in 1..3 : Dark(m, l) /\ sensor(l).live = "good" /\ tap(l) # Loose /\ Branch(kind, tap(l)) = n =>
                      Phase(kind, tap(l)) \notin LoadLines(d)
        BY <1>4, <2>2, <2>5, <2>7
  <2> QED BY <2>8, <2>9
<1>8. LoadLines(1) = {1, 2, 3} /\ LoadLines(2) = {1} /\ LoadLines(3) = {1, 3} /\ LoadLines(4) = {1, 2}
      BY DEF LoadLines
<1>9. \A l \in 1..3 : /\ ~Dark(1, l)
                      /\ Dark(3, l) <=> l = 2
                      /\ Dark(4, l) <=> l = 3
      BY <1>8 DEF Dark
<1>10. \A l \in 1..3 : tap(l) # Loose /\ Branch(kind, tap(l)) = n /\ sensor(l).live = "good"
       BY <1>7, <1>9
<1>11. /\ \A d \in 1..3 : d = 1 \/ d = 2 \/ d = 3
       /\ \A d \in 1..4 : d = 1 \/ d = 2 \/ d = 3 \/ d = 4
       OBVIOUS
<1> DEFINE ph(l) == Phase(kind, tap(l))
<1>12. PICK d \in 1..3 : ph(1) \in LoadLines(d) /\ ph(3) \in LoadLines(d) /\ ph(2) \notin LoadLines(d)
       BY <1>7, <1>9, <1>10
<1>13. PICK e \in 1..4 : ph(1) \in LoadLines(e) /\ ph(2) \in LoadLines(e) /\ ph(3) \notin LoadLines(e)
       BY <1>7, <1>9, <1>10
<1>14. \A l \in 1..3 : ph(l) \in 1..3
       BY <1>2, <1>10
<1>15. ph(1) = 1 /\ ph(2) = 2 /\ ph(3) = 3
  <2> HIDE DEF ph
  <2>1. d = 3
        BY <1>8, <1>11, <1>12, <1>13, <1>14
  <2>2. e = 4
        BY <1>8, <1>11, <1>12, <1>13, <1>14, <2>1
  <2> QED BY <1>8, <1>12, <1>13, <1>14, <2>1, <2>2
<1>16. \A l \in 1..3 : tap(l) = at0 + l
  <2>1. \A l \in 1..3 : tap(l) = 3 * (Branch(kind, tap(l)) - 1) + Phase(kind, tap(l))
        BY <1>0, <1>2, <1>10, TapIs
  <2>2. \A l \in 1..3 : Phase(kind, tap(l)) = l
        BY <1>11, <1>15
  <2> QED BY <1>10, <2>1, <2>2
<1>17. \A l \in 1..3 : sensor(l).idle = "zero"
  <2>1. PICK b : Shows(p, Load(kind, n, 5), b)
        BY DEF Passed
  <2> QED BY <1>3, <1>6, <2>1
<1>18. ASSUME NEW b \in Window(kind, Load(kind, n, 5)), Shows(p, Load(kind, n, 5), b)
       PROVE  b.on.outputs \ b.opened = {}
  <2> SUFFICES ASSUME n \in b.on.outputs, n \notin b.opened PROVE FALSE
      BY <1>0, LoadWindow
  <2>1. PICK c \in 1 .. 5 : c # 5 /\ b.on = Loading(n, c)
        BY <1>0, LoadWindow
  <2>2. 1 \in b.on.lines
        BY <2>1 DEF Loading, LoadLines, Switched
  <2>3. FedBy(p, b, "cur", at0 + 1)
        BY <1>4, <1>10, <1>15, <2>2
  <2>4. Shown(b, 1) = "zero"
        BY <1>6, <1>18
  <2> QED BY <1>3, <2>3, <2>4
<1> QED BY <1>10, <1>16, <1>17, <1>18 DEF tap, sensor


\* The same for a box of single-phase branches: one sensor to an output.
LEMMA SinglesTell ==
    ASSUME NEW p, IsProduct(p), p.kind = "single", NEW n \in 1..3,
           Passed(p, Single(n, 1)), Passed(p, Single(n, 2))
    PROVE  /\ LET s == p.sensors["cur"][n] IN s.tap = n /\ s.live = "good" /\ s.idle = "zero"
           /\ \A b \in Window("single", Single(n, 2)) :
                 Shows(p, Single(n, 2), b) => b.on.outputs \ b.opened = {}
<1> DEFINE s == p.sensors["cur"][n]
           Shown(b) == Reading(p, b)["cur"][n]
<1>0. "single" \in Kinds /\ "cur" \in Quantities /\ n \in Sensors("single", "cur") /\ Sensors("single", "vol") = 1..3
      BY SensorsAre DEF Kinds, Quantities
<1>1. s.tap = Loose \/ s.tap \in 1..3
      BY <1>0 DEF IsProduct
<1>2. \A b : /\ Shown(b) = "good" => FedBy(p, b, "cur", n) /\ s.live = "good"
             /\ Shown(b) = "zero" => ~FedBy(p, b, "cur", n) /\ s.idle = "zero"
      BY <1>0, Tells
<1>3. \A m \in 1..2 : \A b : Shows(p, Single(n, m), b) => Shown(b) = IF m = 1 THEN "good" ELSE "zero"
  <2>1. \A m \in 1..2 : SingleRow(n, m, Plan["single"][Single(n, m)])
        BY SinglePlan
  <2>2. \A m \in 1..2 : m = 1 \/ m = 2
        OBVIOUS
  <2> QED BY <2>1, <2>2 DEF Shows, SingleRow, Good, Zero
<1>4. \A m \in 1..2 : \A b \in Window("single", Single(n, m)) :
         b.on.outputs \ b.opened \subseteq {n} /\ b.on.lines = {1, 2, 3}
  <2> SUFFICES ASSUME NEW m \in 1..2, NEW b \in Window("single", Single(n, m))
               PROVE  b.on.outputs \ b.opened \subseteq {n} /\ b.on.lines = {1, 2, 3}
      OBVIOUS
  <2>1. Group("single", Single(n, m)) = n /\ Single(n, m) \in 1 .. Len(Plan["single"])
        BY GroupIs
  <2>2. Single(n, m) \in 0 .. Len(Plan["single"])
    <3>1. \A x, y : x \in 1 .. y => x \in 0 .. y
          OBVIOUS
    <3> QED BY <2>1, <3>1
  <2>3. OnSoFar("single", Single(n, m), b.on) /\ b.on.outputs \ b.opened \subseteq {n}
        BY <2>1 DEF Window
  <2>4. b.on = Powered \/ \E a \in 1..3, d \in 1..2 : b.on = Loading(a, IF d = 1 THEN 1 ELSE 5)
        BY <1>0, <2>2, <2>3, SwitchedSoFar
  <2>5. Powered.lines = {1, 2, 3} /\ \A a : Loading(a, 1).lines = {1, 2, 3} /\ Loading(a, 5).lines = {1, 2, 3}
        BY PoweredIs DEF Loading, LoadLines, Switched
  <2> QED BY <2>3, <2>4, <2>5
<1>5. \A i \in 1..3 : Branch("single", i) = i /\ Phase("single", i) = 1 /\ i # Loose
      BY DEF Branch, Phase, Loose
<1>6. \A b : b.on.lines = {1, 2, 3} => (FedBy(p, b, "cur", n) <=> s.tap # Loose /\ s.tap \in b.on.outputs \ b.opened)
      BY <1>1, <1>5 DEF FedBy, Fed
<1> HIDE DEF s, Shown
<1>7. s.tap = n /\ s.live = "good"
  <2>1. PICK b \in Window("single", Single(n, 1)) : Shows(p, Single(n, 1), b)
        BY DEF Passed
  <2> QED BY <1>2, <1>3, <1>4, <1>6, <2>1
<1>8. s.idle = "zero"
  <2>1. PICK b \in Window("single", Single(n, 2)) : Shows(p, Single(n, 2), b)
        BY DEF Passed
  <2> QED BY <1>2, <1>3, <2>1
<1>9. ASSUME NEW b \in Window("single", Single(n, 2)), Shows(p, Single(n, 2), b)
      PROVE  b.on.outputs \ b.opened = {}
      BY <1>2, <1>3, <1>4, <1>5, <1>6, <1>7, <1>9
<1> QED BY <1>7, <1>8, <1>9 DEF s

\* The loops of a box, passed one and all, prove it.
LEMMA PassingProves ==
    ASSUME NEW p, IsProduct(p), \A k \in 1 .. Len(Plan[p.kind]) : Passed(p, k)
    PROVE  Proven(p)
<1> DEFINE kind == p.kind
           last == Len(Plan[kind])
           Right(q, i) ==
              LET s == p.sensors[q][i]
              IN /\ s.tap = i \/ q = "pow"
                 /\ s.live = "good"
                 /\ s.idle = "zero" \/ q = "pow" \/ (kind = "start" /\ q = "vol" /\ i = 1)
<1>0. kind \in Kinds
      BY DEF IsProduct
<1>1. \A n \in 1 .. Breakers(kind) : Passed(p, n)
  <2>1. Breakers(kind) \in 0..3
        BY <1>0, BreakersAre
  <2>2. last \in {9, 15, 21}
        BY <1>0, PlanLength
  <2>3. \A k \in 1 .. last : Passed(p, k)
        OBVIOUS
  <2> HIDE DEF last
  <2> QED BY <2>1, <2>2, <2>3
<1>2. \A i \in Sensors(kind, "vol") : Right("vol", i)
  <2>1. CASE kind = "single"
    <3>1. Breakers(kind) > 1 /\ \A i \in Sensors(kind, "vol") : Branch(kind, i) = i
          BY <2>1, SensorsAre DEF Breakers, Branch
    <3>2. \A i \in Sensors(kind, "vol") :
              LET s == p.sensors["vol"][i]
              IN s.tap # Loose /\ s.live = "good" /\ s.idle = "zero" /\ Branch(kind, s.tap) = i
          BY <1>1, <2>1, <3>1, BreakersTell
    <3>3. \A i \in Sensors(kind, "vol") : p.sensors["vol"][i].tap \in Sensors(kind, "vol")
      <4>1. "vol" \in Quantities
            BY DEF Quantities
      <4> QED BY <3>2, <4>1 DEF IsProduct
    <3> QED BY <3>1, <3>2, <3>3
  <2>2. CASE kind # "single"
    <3>1. \A m \in 1..3 : Passed(p, Breakers(kind) + m)
      <4>1. Breakers(kind) \in 0..3
            BY <1>0, BreakersAre
      <4>2. last \in {9, 15, 21}
            BY <1>0, PlanLength
      <4>3. \A k \in 1 .. last : Passed(p, k)
            OBVIOUS
      <4> HIDE DEF last
      <4> QED BY <4>1, <4>2, <4>3
    <3> QED BY <1>1, <2>2, <3>1, VoltsTell
  <2> QED BY <2>1, <2>2
<1>3. \A i \in Sensors(kind, "cur") : Right("cur", i)
  <2>1. CASE kind = "single"
    <3>1. \A n \in 1..3 : Passed(p, Single(n, 1)) /\ Passed(p, Single(n, 2))
          BY <2>1, GroupIs
    <3>2. Sensors(kind, "cur") = 1..3
          BY <2>1, SensorsAre DEF Kinds
    <3> QED BY <2>1, <3>1, <3>2, SinglesTell
  <2>2. CASE kind # "single"
    <3>1. \A n \in Branches(kind), m \in 1..5 : Passed(p, Load(kind, n, m))
          BY <1>0, <2>2, GroupIs
    <3>2. \A n \in Branches(kind) : \A l \in 1..3 : Right("cur", 3 * (n - 1) + l)
          BY <2>2, <3>1, CurrentsTell
    <3>3. \A i \in Sensors(kind, "cur") : \E n \in Branches(kind), l \in 1..3 : i = 3 * (n - 1) + l
      <4> SUFFICES ASSUME NEW i \in Sensors(kind, "vol")
                   PROVE  \E n \in Branches(kind), l \in 1..3 : i = 3 * (n - 1) + l
          BY <1>0, SensorsAre
      <4>1. Branch(kind, i) \in Branches(kind) /\ Phase(kind, i) \in 1..3 /\ i \in 1..9
            BY <1>0, FirstIs
      <4>2. i = 3 * (Branch(kind, i) - 1) + Phase(kind, i)
            BY <1>0, <2>2, <4>1, TapIs
      <4> QED BY <4>1, <4>2
    <3> HIDE DEF Right
    <3> QED BY <3>2, <3>3
  <2> QED BY <2>1, <2>2
<1>4. \A i \in Sensors(kind, "pow") : Right("pow", i)
  <2>1. CASE kind = "start"
    <3>1. Sensors(kind, "pow") = {1} /\ "pow" \in Quantities
          BY <2>1, SensorsAre DEF Quantities
    <3>2. 5 \in 1 .. last
          BY <2>1, StartPlan
    <3>3. PICK b : Shows(p, 5, b)
          BY <3>2 DEF Passed
    <3>4. From(0, <<Good>>)[1] = Good /\ DOMAIN From(0, <<Good>>) = {1}
          BY DEF From
    <3>5. Plan[kind][5].q = "pow" /\ Plan[kind][5].want = From(0, <<Good>>)
          BY <2>1, StartPlan DEF PowerRow, Row
    <3>6. Reading(p, b)["pow"][1] = "good"
          BY <3>3, <3>4, <3>5 DEF Shows, Good
    <3>7. p.sensors["pow"][1].live = "good"
          BY <3>1, <3>6, Tells
    <3> QED BY <3>1, <3>7
  <2>2. CASE kind # "start"
        BY <1>0, <2>2, SensorsAre
  <2> QED BY <2>1, <2>2
<1> HIDE DEF Right
<1>5. \A q \in Quantities : \A i \in Sensors(kind, q) : Right(q, i)
      BY <1>2, <1>3, <1>4 DEF Quantities
<1> QED BY <1>5 DEF Proven, Right


\* No row connects the load of an output whose turn it is not.
LEMMA OnGroup ==
    ASSUME NEW kind \in Kinds, NEW k \in 1 .. Len(Plan[kind]), NEW c, On(kind, k, c)
    PROVE  c.outputs \subseteq {Group(kind, k)}
<1> DEFINE r == Plan[kind][k]
<1>1. Powered.outputs = {} /\ (\A m : Volts(m).outputs = {}) /\ (\A n, m : Loading(n, m).outputs \subseteq {n})
      BY PoweredIs DEF Volts, Loading, Switched
<1>2. CASE k \in 1 .. Breakers(kind) /\ BreakerRow(kind, k, r)
      BY <1>1, <1>2, OnIs
<1>3. CASE \E m : VoltRow(kind, m, r)
      BY <1>1, <1>3, OnIs
<1>4. ASSUME kind # "single", NEW n \in Branches(kind), NEW m \in 1..5, k = Load(kind, n, m), LoadRow(n, m, r)
      PROVE  c.outputs \subseteq {Group(kind, k)}
  <2>1. Group(kind, k) = n
    <3>1. kind \in Kinds \ {"single"}
          BY <1>4
    <3>2. Group(kind, Load(kind, n, m)) = n
          BY <3>1, GroupIs
    <3> QED BY <1>4, <3>2
  <2>2. c = Loading(n, m)
        BY <1>4, OnIs
  <2> QED BY <1>1, <2>1, <2>2
<1>5. CASE kind = "start" /\ r = PowerRow
  <2>1. c = Loading(1, 1)
        BY <1>5, OnIs
  <2>2. Group(kind, k) = 1
        BY <1>5 DEF Group
  <2> QED BY <1>1, <2>1, <2>2
<1>6. ASSUME kind = "single", NEW n \in 1..3, NEW m \in 1..2, k = Single(n, m), SingleRow(n, m, r)
      PROVE  c.outputs \subseteq {Group(kind, k)}
  <2>1. Group(kind, k) = n
        BY <1>6, GroupIs
  <2>2. \A a, d : SingleRow(a, d, r) => c = Loading(a, IF d = 1 THEN 1 ELSE 5)
        BY OnIs
  <2> QED BY <1>1, <1>6, <2>1, <2>2
<1> HIDE DEF r
<1>7. \/ k \in 1 .. Breakers(kind) /\ BreakerRow(kind, k, r)
      \/ \E m : VoltRow(kind, m, r)
      \/ kind # "single" /\ \E n \in Branches(kind), m \in 1..5 : k = Load(kind, n, m) /\ LoadRow(n, m, r)
      \/ kind = "start" /\ r = PowerRow
      \/ kind = "single" /\ \E n \in 1..3, m \in 1..2 : k = Single(n, m) /\ SingleRow(n, m, r)
      BY RowIs DEF r
<1> QED BY <1>2, <1>3, <1>4, <1>5, <1>6, <1>7

\* The turn passes on after the last row of an output, and with its load off.
LEMMA TurnEnds ==
    ASSUME NEW kind \in Kinds, NEW k \in Nat, k + 1 \in 1 .. Len(Plan[kind]),
           Group(kind, k + 1) # Group(kind, k)
    PROVE  /\ k \in 1 .. Len(Plan[kind])
           /\ \/ kind # "single" /\ \E n \in Branches(kind) : k = Load(kind, n, 5)
              \/ kind = "single" /\ \E n \in 1..3 : k = Single(n, 2)
           /\ \A c : On(kind, k, c) => c.outputs = {}
           /\ \A c : On(kind, k + 1, c) => c.outputs # {}
<1> DEFINE last == Len(Plan[kind])
<1>0. \A n : Loading(n, 5).outputs = {} /\ Loading(n, 1).outputs # {}
      BY DEF Loading, Switched
<1>5. ASSUME NEW n, NEW m, k \in 1 .. Len(Plan[kind]), LoadRow(n, 5, Plan[kind][k]), LoadRow(m, 1, Plan[kind][k + 1])
      PROVE  /\ \A c : On(kind, k, c) => c.outputs = {}
             /\ \A c : On(kind, k + 1, c) => c.outputs # {}
  <2>1. \A c : On(kind, k, c) => c = Loading(n, 5)
        BY <1>5, OnIs
  <2>2. \A c : On(kind, k + 1, c) => c = Loading(m, 1)
        BY <1>5, OnIs
  <2> QED BY <1>0, <2>1, <2>2
<1>1. CASE kind = "nine"
  <2>1. \/ k = Load("nine", 1, 5) /\ k + 1 = Load("nine", 2, 1)
        \/ k = Load("nine", 2, 5) /\ k + 1 = Load("nine", 3, 1)
        BY <1>1 DEF Group, Load, Loads
  <2>2. PICK n \in 1..2 : k = Load(kind, n, 5) /\ k + 1 = Load(kind, n + 1, 1) /\ n \in 1..3 /\ n + 1 \in 1..3
    <3>1. 1 \in 1..2 /\ 2 \in 1..2 /\ 1 + 1 = 2 /\ 2 + 1 = 3 /\ 1 \in 1..3 /\ 2 \in 1..3 /\ 3 \in 1..3
          OBVIOUS
    <3> QED BY <1>1, <2>1, <3>1
  <2>3. Branches(kind) = 1..3 /\ kind # "single"
        BY <1>1, SensorsAre
  <2>4. k \in 1 .. last
    <3>1. kind \in Kinds \ {"single"} /\ n \in Branches(kind) /\ 5 \in 1..5
          BY <2>2, <2>3
    <3>2. Load(kind, n, 5) \in 1 .. last
          BY <3>1, GroupIs
    <3> QED BY <2>2, <3>2
  <2>5. LoadRow(n, 5, Plan[kind][k]) /\ LoadRow(n + 1, 1, Plan[kind][k + 1])
        BY <1>1, <2>2, NinePlan
  <2> QED BY <1>5, <2>2, <2>3, <2>4, <2>5
<1>2. CASE kind = "six"
  <2>1. k = Load("six", 1, 5) /\ k + 1 = Load("six", 2, 1)
        BY <1>2 DEF Group, Load, Loads
  <2>2. 1 \in Branches(kind) /\ kind # "single"
        BY <1>2, SensorsAre
  <2>3. k \in 1 .. last
    <3>1. kind \in Kinds \ {"single"} /\ 1 \in Branches(kind) /\ 5 \in 1..5
          BY <2>2
    <3>2. Load(kind, 1, 5) \in 1 .. last
          BY <3>1, GroupIs
    <3> QED BY <1>2, <2>1, <3>2
  <2>4. LoadRow(1, 5, Plan[kind][k]) /\ LoadRow(2, 1, Plan[kind][k + 1])
        BY <1>2, <2>1, SixPlan
  <2> QED BY <1>2, <1>5, <2>1, <2>2, <2>3, <2>4
<1>3. CASE kind = "single"
  <2>1. \/ k = Single(1, 2) /\ k + 1 = Single(2, 1)
        \/ k = Single(2, 2) /\ k + 1 = Single(3, 1)
        BY <1>3 DEF Group, Single
  <2>2. PICK n \in 1..2 : k = Single(n, 2) /\ k + 1 = Single(n + 1, 1) /\ n \in 1..3 /\ n + 1 \in 1..3
    <3>1. 1 \in 1..2 /\ 2 \in 1..2 /\ 1 + 1 = 2 /\ 2 + 1 = 3 /\ 1 \in 1..3 /\ 2 \in 1..3 /\ 3 \in 1..3
          OBVIOUS
    <3> QED BY <2>1, <3>1
  <2>3. k \in 1 .. last
        BY <1>3, <2>2, GroupIs
  <2>4. SingleRow(n, 2, Plan[kind][k]) /\ SingleRow(n + 1, 1, Plan[kind][k + 1])
        BY <1>3, <2>2, SinglePlan
  <2>5. \A c : On(kind, k, c) => c = Loading(n, 5)
    <3> SUFFICES ASSUME NEW c, On(kind, k, c) PROVE c = Loading(n, 5)
        OBVIOUS
    <3>1. \A a, d : SingleRow(a, d, Plan[kind][k]) => c = Loading(a, IF d = 1 THEN 1 ELSE 5)
          BY <2>3, OnIs
    <3> QED BY <2>4, <3>1
  <2>6. \A c : On(kind, k + 1, c) => c = Loading(n + 1, 1)
    <3> SUFFICES ASSUME NEW c, On(kind, k + 1, c) PROVE c = Loading(n + 1, 1)
        OBVIOUS
    <3>1. \A a, d : SingleRow(a, d, Plan[kind][k + 1]) => c = Loading(a, IF d = 1 THEN 1 ELSE 5)
          BY OnIs
    <3> QED BY <2>4, <3>1
  <2>7. \A c : On(kind, k, c) => c.outputs = {}
        BY <1>0, <2>5
  <2>8. \A c : On(kind, k + 1, c) => c.outputs # {}
        BY <1>0, <2>6
  <2> QED BY <1>3, <2>2, <2>3, <2>7, <2>8
<1>4. CASE kind = "three" \/ kind = "start"
      BY <1>4 DEF Group
<1> QED BY <1>1, <1>2, <1>3, <1>4 DEF Kinds

\* A reading that may be judged in a row may be judged in the next one, unless it
\* shows the load of an output whose turn is over.
LEMMA WindowGrows ==
    ASSUME NEW kind \in Kinds, NEW k \in Nat, NEW b \in Window(kind, k),
           Group(kind, k + 1) = Group(kind, k) \/ b.on.outputs \ b.opened = {}
    PROVE  b \in Window(kind, k + 1)
<1>1. 1 .. k \subseteq 1 .. k + 1
      OBVIOUS
<1>2. OnSoFar(kind, k + 1, b.on) /\ Opened(kind, k + 1, b.opened)
      BY <1>1 DEF Window, OnSoFar, Opened
<1> QED BY <1>2 DEF Window

\* The bench of a row.
LEMMA WindowHas ==
    ASSUME NEW kind \in Kinds, NEW k \in 1 .. Len(Plan[kind]), NEW b \in Benches,
           On(kind, k, b.on), Opened(kind, k, b.opened)
    PROVE  b \in Window(kind, k)
<1>1. k \in 1 .. k
  <2> DEFINE last == Len(Plan[kind])
  <2> HIDE DEF last
  <2>1. \A x \in 1 .. last : x \in 1 .. x
        OBVIOUS
  <2> QED BY <2>1 DEF last
<1>2. OnSoFar(kind, k, b.on)
      BY <1>1 DEF OnSoFar
<1> QED BY <1>2, OnGroup DEF Window

\* Once every row of an output has passed, the reading that passed the last one shows
\* no load.
LEMMA TurnOver ==
    ASSUME NEW p, IsProduct(p), NEW k \in Nat, k + 1 \in 1 .. Len(Plan[p.kind]),
           Group(p.kind, k + 1) # Group(p.kind, k),
           \A j \in 1 .. k : Passed(p, j),
           NEW b \in Window(p.kind, k), Shows(p, k, b)
    PROVE  b.on.outputs \ b.opened = {}
<1>0. p.kind \in Kinds
      BY DEF IsProduct
<1>1. ASSUME p.kind # "single", NEW n \in Branches(p.kind), k = Load(p.kind, n, 5)
      PROVE  b.on.outputs \ b.opened = {}
  <2>1. \A m \in 1..5 : Load(p.kind, n, m) \in 1 .. k
    <3> SUFFICES ASSUME NEW m \in 1..5 PROVE Load(p.kind, n, m) \in 1 .. k
        OBVIOUS
    <3>1. n \in 1..3
          BY <1>0, FirstIs
    <3>2. p.kind = "start" \/ (p.kind # "start" /\ Loads(p.kind) \in Nat)
          BY <1>0, <1>1 DEF Loads, Kinds
    <3> QED BY <1>1, <3>1, <3>2 DEF Load
  <2>2. \A m \in 1..5 : Passed(p, Load(p.kind, n, m))
        BY <2>1
  <2> QED BY <1>1, <2>2, CurrentsTell
<1>2. ASSUME p.kind = "single", NEW n \in 1..3, k = Single(n, 2)
      PROVE  b.on.outputs \ b.opened = {}
  <2>1. Single(n, 1) \in 1 .. k /\ Single(n, 2) \in 1 .. k
        BY <1>2 DEF Single
  <2>2. Passed(p, Single(n, 1)) /\ Passed(p, Single(n, 2))
        BY <2>1
  <2> QED BY <1>2, <2>2, SinglesTell
<1> QED BY <1>0, <1>1, <1>2, TurnEnds


\* While nothing is noted, and nothing passed on values of an earlier box: every row
\* behind was met by a reading of its own time, and what is there to be judged next,
\* on the bench, under way from it or shown already, is of this row's time.
Witnessed ==
    ~noted /\ ~blind =>
       /\ \A j \in 1 .. at : j < at \/ (stage = "over" /\ ret) => Passed(product, j)
       /\ stage = "over" /\ ret => at = Len(Plan[product.kind])
       /\ stage = "loop" => {bench, past} \subseteq Window(product.kind, at)
       /\ stage = "begin" => {bench, past} \subseteq Window(product.kind, at - 1)
       /\ stage # "over" /\ met => \E b \in Window(product.kind, at) : shown = Reading(product, b)

\* No row is behind at first.
LEMMA InitWitnessed == Init => Witnessed
<1> SUFFICES ASSUME Init PROVE Witnessed
    OBVIOUS
<1>1. at = 1 /\ stage = "begin" /\ met = FALSE /\ past = bench
      BY DEF Init
<1>2. bench \in Window(product.kind, 0)
  <2>1. Powered.outputs = {}
        BY PoweredIs DEF Switched
  <2>2. bench \in Benches /\ bench.on = Powered /\ bench.opened = {}
        BY InitTyped DEF Init, Typed
  <2> QED BY <2>1, <2>2 DEF Window, OnSoFar, Opened
<1>3. \A j \in 1 .. 1 : ~(j < 1)
      OBVIOUS
<1> QED BY <1>1, <1>2, <1>3 DEF Witnessed

\* What a round leaves to be judged.
LEMMA TakenFrom ==
    ASSUME Typed, Witnessed, ~noted, ~blind, stage = "loop", NEW r \in Rounds, Take(r), met'
    PROVE  \E b \in Window(product.kind, at) : shown' = Reading(product, b) /\ r.seen = Reading(product, b)
<1>1. shown' = r.seen /\ (met \/ r.data)
      BY TakeIs
<1>2. {bench, past} \subseteq Window(product.kind, at)
      BY DEF Witnessed
<1>3. CASE r.data
      BY <1>1, <1>2, <1>3, RoundIs
<1>4. CASE ~r.data
      BY <1>1, <1>4, RoundIs DEF Witnessed
<1> QED BY <1>3, <1>4

\* Every step keeps it.
LEMMA WitnessedStep == Typed /\ Obeyed /\ Witnessed /\ [Next]_vars => Witnessed'
<1> SUFFICES ASSUME Typed, Obeyed, Witnessed, [Next]_vars, ~noted', ~blind' PROVE Witnessed'
    BY DEF Witnessed
<1> DEFINE kind == product.kind
           last == Len(Plan[kind])
<1>0. kind \in Kinds /\ IsProduct(product) /\ at \in 1 .. last /\ bench \in Benches /\ past \in Benches
      BY ProductIs DEF Typed
<1>1. CASE Begin
  <2>1. /\ bench' \in Benches /\ past' = (IF bench' = bench THEN past ELSE bench)
        /\ bench'.opened = bench.opened /\ (noted => noted')
        /\ stage = "begin" /\ stage' = "loop" /\ UNCHANGED <<product, shown, at, ret, met, blind>>
        BY <1>1, BeginIs
  <2>2. ~noted /\ ~blind
        BY <2>1
  <2>3. On(kind, at, bench'.on)
        BY <2>1, ObeyedStep DEF Obeyed
  <2>4. Before(kind, at, bench.on)
        BY <2>1, <2>2 DEF Obeyed
  <2>5. {bench, past} \subseteq Window(kind, at - 1)
        BY <2>1, <2>2 DEF Witnessed
  <2>6. at - 1 \in Nat /\ (at - 1) + 1 = at /\ 1 .. at - 1 \subseteq 1 .. at
        BY <1>0
  <2>7. Opened(kind, at, bench'.opened)
    <3>1. Opened(kind, at - 1, bench.opened)
          BY <2>5 DEF Window
    <3> QED BY <2>1, <2>6, <3>1 DEF Opened
  <2>8. bench' \in Window(kind, at)
        BY <1>0, <2>1, <2>3, <2>7, WindowHas
  <2>9. past' \in Window(kind, at)
    <3>1. CASE Group(kind, at) = Group(kind, at - 1)
      <4>1. \A b \in Window(kind, at - 1) : b \in Window(kind, (at - 1) + 1)
            BY <1>0, <2>6, <3>1, WindowGrows
      <4> QED BY <2>1, <2>5, <2>6, <4>1
    <3>2. CASE Group(kind, at) # Group(kind, at - 1)
      <4> DEFINE k == at - 1
      <4>1. /\ k \in Nat /\ k + 1 = at /\ k + 1 \in 1 .. Len(Plan[kind])
            /\ Group(kind, k + 1) # Group(kind, k)
            BY <1>0, <2>6, <3>2
      <4> HIDE DEF k
      <4>2. /\ k \in 1 .. Len(Plan[kind])
            /\ \A c : On(kind, k, c) => c.outputs = {}
            /\ \A c : On(kind, k + 1, c) => c.outputs # {}
            BY <1>0, <4>1, TurnEnds
      <4>3. at # 1
        <5>1. k # 0
          <6> HIDE DEF last
          <6>1. \A y : 0 \notin 1 .. y
                OBVIOUS
          <6> QED BY <4>2, <6>1
        <5> QED BY <4>1, <5>1
      <4>4. bench.on.outputs = {} /\ bench'.on.outputs # {}
        <5>1. On(kind, k, bench.on)
              BY <2>4, <4>3 DEF Before, k
        <5>2. On(kind, k + 1, bench'.on)
              BY <2>3, <4>1
        <5> QED BY <4>2, <5>1, <5>2
      <4>5. past' = bench /\ bench \in Window(kind, k)
            BY <2>1, <2>5, <4>4 DEF k
      <4>6. bench \in Window(kind, k + 1)
            BY <1>0, <4>1, <4>4, <4>5, WindowGrows
      <4> QED BY <4>1, <4>5, <4>6
    <3> QED BY <3>1, <3>2
  <2> QED BY <2>1, <2>2, <2>8, <2>9 DEF Witnessed
<1>2. CASE Succeed
  <2>1. PICK r \in Rounds : Meets(r) /\ Take(r) /\ Advance(row.forces \/ r.got) /\ blind' = (blind \/ ~met')
        BY <1>2 DEF Succeed
  <2>2. stage = "loop" /\ noted' = noted /\ (row.forces \/ r.got) \in BOOLEAN
        BY <1>2 DEF Succeed
  <2>3. ~noted /\ ~blind /\ met'
    <3>1. blind \in BOOLEAN /\ met' \in BOOLEAN
          BY <2>1, TakeIs DEF Typed
    <3> QED BY <2>1, <2>2, <3>1
  <2>4. PICK b \in Window(kind, at) : shown' = Reading(product, b) /\ r.seen = Reading(product, b)
        BY <2>1, <2>2, <2>3, TakenFrom
  <2>5. Shows(product, at, b)
        BY <2>1, <2>4 DEF Meets, Shows, row
  <2>6. \A j \in 1 .. at : Passed(product, j)
    <3>1. \A j \in 1 .. at : j < at \/ j = at
          BY <1>0
    <3> QED BY <2>2, <2>3, <2>4, <2>5, <3>1 DEF Witnessed, Passed
  <2>7. /\ stage' \in {"begin", "over"}
        /\ stage' = "begin" => at' = at + 1
        /\ stage' = "over" => at' = at /\ (ret' => at = last)
        /\ at' \in 1 .. last
        /\ UNCHANGED <<product, bench, past>>
        BY <2>1, <2>2, AdvanceIs
  <2>8. CASE stage' = "over"
        BY <2>6, <2>7, <2>8 DEF Witnessed
  <2>9. CASE stage' = "begin"
    <3>1. at' = at + 1 /\ at' - 1 = at /\ at + 1 \in 1 .. Len(Plan[kind]) /\ at \in Nat
          BY <1>0, <2>7, <2>9
    <3>2. \A j \in 1 .. at' : j < at' => j \in 1 .. at
          BY <3>1
    <3>3. {bench, past} \subseteq Window(kind, at)
          BY <2>2, <2>3 DEF Witnessed
    <3>4. b \in Window(kind, at + 1)
      <4>1. Group(kind, at + 1) = Group(kind, at) \/ b.on.outputs \ b.opened = {}
            BY <1>0, <2>4, <2>5, <2>6, <3>1, TurnOver
      <4> QED BY <1>0, <2>4, <3>1, <4>1, WindowGrows
    <3>5. \A j \in 1 .. at' : j < at' => Passed(product, j)
          BY <2>6, <3>2
    <3> QED BY <2>4, <2>7, <2>9, <3>1, <3>3, <3>4, <3>5 DEF Witnessed
  <2> QED BY <2>7, <2>8, <2>9
<1>3. CASE TryAgain
  <2>1. PICK r \in Rounds : Take(r)
        BY <1>3 DEF TryAgain
  <2>2. stage = "loop" /\ UNCHANGED <<product, bench, past, at, stage, noted, blind>>
        BY <1>3 DEF TryAgain, benchVars
  <2>3. met' => \E b \in Window(kind, at) : shown' = Reading(product, b)
        BY <2>1, <2>2, TakenFrom
  <2> QED BY <2>2, <2>3 DEF Witnessed
<1>4. CASE GiveUp
      BY <1>4 DEF GiveUp
<1>5. CASE Operator
  <2>1. /\ bench' = [bench EXCEPT !.opened = asked] /\ (past' = past \/ past' = bench)
        /\ stage \in {"begin", "loop"}
        /\ UNCHANGED <<product, asked, shown, at, stage, ret, flag, noted, calm, met, blind>>
        BY <1>5 DEF Operator, Switch, historyVars, Typed
  <2>2. bench' \in Benches /\ bench'.on = bench.on /\ bench'.opened = asked /\ asked \subseteq 1..3
        BY <1>0, <2>1 DEF Typed, Benches
  <2>3. ~noted /\ ~blind
        BY <2>1
  <2>4. CASE stage = "loop"
    <3>1. On(kind, at, bench'.on) /\ asked = AskedAt(kind, at)
          BY <2>2, <2>3, <2>4 DEF Obeyed, Typed
    <3>2. at \in 1 .. at
          BY <1>0
    <3>3. Opened(kind, at, asked)
          BY <3>1, <3>2 DEF Opened, AskedAt
    <3>4. bench' \in Window(kind, at)
          BY <1>0, <2>2, <3>1, <3>3, WindowHas
    <3>5. {bench, past} \subseteq Window(kind, at)
          BY <2>3, <2>4 DEF Witnessed
    <3> QED BY <2>1, <2>3, <2>4, <3>4, <3>5 DEF Witnessed
  <2>5. CASE stage = "begin"
    <3>1. Before(kind, at, bench'.on) /\ asked = AskedBefore(kind, at)
          BY <2>2, <2>3, <2>5 DEF Obeyed, Typed
    <3>2. bench' \in Window(kind, at - 1)
      <4>1. CASE at = 1
        <5>1. Powered.outputs = {} /\ bench'.on = Powered /\ asked = {} /\ at - 1 = 0
              BY <3>1, <4>1, PoweredIs DEF Switched, Before, AskedBefore
        <5> QED BY <2>2, <5>1 DEF Window, OnSoFar, Opened
      <4>2. CASE at # 1
        <5>1. at - 1 \in 1 .. last /\ at - 1 \in 1 .. at - 1
          <6>1. last \in {9, 15, 21}
                BY <1>0, PlanLength
          <6>2. at \in 1 .. last
                BY <1>0
          <6> HIDE DEF last
          <6> QED BY <4>2, <6>1, <6>2
        <5>2. On(kind, at - 1, bench'.on)
              BY <3>1, <4>2 DEF Before
        <5>3. Opened(kind, at - 1, asked)
          <6>1. asked = {} \/ (asked = {at - 1} /\ ~(at > Breakers(kind)))
                BY <3>1 DEF AskedBefore
          <6>2. Breakers(kind) \in Int /\ at \in Int
                BY <1>0, BreakersAre
          <6> QED BY <5>1, <6>1, <6>2 DEF Opened
        <5> QED BY <1>0, <2>2, <5>1, <5>2, <5>3, WindowHas
      <4> QED BY <4>1, <4>2
    <3>3. {bench, past} \subseteq Window(kind, at - 1)
          BY <2>3, <2>5 DEF Witnessed
    <3> QED BY <2>1, <2>3, <2>5, <3>2, <3>3 DEF Witnessed
  <2> QED BY <2>1, <2>4, <2>5
<1>6. CASE UNCHANGED vars
  <2>1. UNCHANGED <<product, bench, past, shown, at, stage, ret, noted, met, blind>>
        BY <1>6 DEF vars, benchVars, historyVars
  <2> QED BY <2>1 DEF Witnessed
<1> QED BY <1>1, <1>2, <1>3, <1>4, <1>5, <1>6 DEF Next, Test

\* The tests of Power_CoreThread pass a box, with nothing noted, only if all its
\* sensors are wired to their own taps and measure right: in whatever number of places
\* it may be wrong, whatever reads failed and whatever reading came late; unless the
\* first loop passed on the values an earlier box left behind in mBusData.
THEOREM PassedIsSound == Spec => []PassMeansSound
<1>1. Typed /\ Witnessed => PassMeansSound
  <2> SUFFICES ASSUME Typed, Witnessed, stage = "over", ret, ~noted, ~blind PROVE Proven(product)
      BY DEF PassMeansSound
  <2>1. at = Len(Plan[product.kind]) /\ \A j \in 1 .. at : Passed(product, j)
        BY DEF Witnessed
  <2> QED BY <2>1, ProductIs, PassingProves
<1>2. Spec => []Witnessed
      BY InitWitnessed, WitnessedStep, TypedAlways, ObeyedAlways, PTL DEF Spec
<1> QED BY <1>1, <1>2, TypedAlways, PTL
=============================================================================
