----------------------------- MODULE BaseChecks -----------------------------
(***************************************************************************)
(* What a functional run checks around the branch tests: StartErrRange or  *)
(* InsertErrRange, EnvErrRange, the alarm filter taken off and put back,   *)
(* and factorySet.  The operator moves the serial cable from port to port, *)
(* pulls the lightning protection out and opens the breaker when he is     *)
(* asked to, in his own time; the run waits a number of rounds for each.   *)
(*                                                                         *)
(* Not every one of these waits is noted when it failed, some carry on     *)
(* with the rounds the last one left over, and the comparisons look at     *)
(* mBusData whether or not the read before them brought anything.          *)
(***************************************************************************)
EXTENDS Integers, FiniteSetsExt, Functions

CONSTANTS
    Products,    \* boxes: [kind, options, expected, broken, ip_break, filter, workMode, temperatures]
    Patience     \* rounds of a wait before it gives up (30 or 40 in the code)

\* What the settings are compared in; buzzer stands for those compared before the
\* waits for the operator, version for those compared after.
Options == {"buzzer", "spd", "shunt", "version"}

\* What can be wrong with a box: a port, the lightning alarm or the breaker's
\* contact that never reports a change, the shunt release, a voltage, a residue.
Faults == {"in", "out", "net", "alarm", "contact", "release", "vol", "cur"}
Filters == {0, 5, 8}

IsProduct(p) ==
    /\ p \in [kind : {"start", "insert"}, options : SUBSET Options, expected : SUBSET Options,
              broken : SUBSET Faults, ip_break : BOOLEAN, filter : Filters, workMode : {0, 1},
              temperatures : [1..4 -> 0..99]]
    /\ p.kind = "insert" => p.broken \subseteq {"vol", "cur"}
                            /\ p.options \cup p.expected \subseteq {"buzzer", "version"}

ASSUME ProductsAssumption == \A p \in Products : IsProduct(p)
ASSUME PatienceAssumption == Patience \in Nat

VARIABLES
    product,
    box,        \* its settings: filter, protocol (workMode) and whether energy was counted
    bench,      \* where the cable is; what is plugged in, open or closed
    asked,      \* how the operator was asked to have it
    shown,      \* mBusData
    at,         \* the wait or the check the run is at
    flag,       \* rounds of this wait
    ret,        \* of workDown, then of factorySet
    saved,      \* ip_filter or si_filter; tag
    noted       \* the checks noted as failed

\* What happened, for the properties; the code never reads it.
VARIABLES
    calm,       \* no read, command or answer of the operator failed so far
    met,        \* data of this box were shown when its settings were compared
    known       \* its shunt setting among them, which the serial line does not bring

settingVars == <<product, box, bench>>
historyVars == <<calm, met, known>>
vars == <<settingVars, asked, shown, at, flag, ret, saved, noted, historyVars>>

Is(fault) == fault \in product.broken

\* The auxiliary contact of the breaker: over the network 1 is closed, 2 open and
\* 3 tripped; over the serial line 0 is closed and 1 is not.
Contact(p, b) == IF "contact" \in p.broken THEN "closed" ELSE b.breaker
NetworkSw(contact) == CASE contact = "closed" -> 1 [] contact = "open" -> 2 [] contact = "tripped" -> 3
SerialSw(contact) == IF contact = "closed" THEN 0 ELSE 1

\* What a box reports.
Data(p, x, b) ==
    [options |-> p.options, filter |-> x.filter, workMode |-> x.workMode, energy |-> x.energy,
     lps |-> IF b.spd \/ "alarm" \in p.broken THEN "works" ELSE "damaged",
     sw  |-> NetworkSw(Contact(p, b)),
     vol |-> IF b.breaker # "closed" THEN "zero" ELSE IF "vol" \in p.broken THEN "odd" ELSE "good",
     cur |-> IF "cur" \in p.broken THEN "odd" ELSE "zero",
     tem |-> p.temperatures]

InUse == [cable |-> "in", net |-> TRUE, spd |-> TRUE, breaker |-> "closed"]

\* A sound box that was tested before, as it was configured.
Leftover(p) ==
    Data([p EXCEPT !.options = p.expected, !.broken = {}, !.temperatures = [i \in 1..4 |-> 20]],
         [filter |-> 8, workMode |-> 1, energy |-> FALSE], InUse)

Init ==
    /\ product \in Products
    /\ box = [filter |-> product.filter, workMode |-> product.workMode, energy |-> FALSE]
    /\ bench \in IF product.kind = "start"
                 THEN {[InUse EXCEPT !.cable = "none", !.net = n] : n \in BOOLEAN} ELSE {InUse}
    /\ asked = bench
    /\ shown = Leftover(product)
    /\ at = IF product.kind = "start" THEN "begin" ELSE "compare"
    /\ flag = 0 /\ ret = TRUE
    /\ saved = [filter |-> 0, tag |-> 0]
    /\ noted = {}
    /\ calm = TRUE /\ met = FALSE /\ known = FALSE

\* The operator does what he was asked last, or takes his time.
Operator ==
    /\ bench # asked
    /\ bench' = asked
    /\ UNCHANGED <<product, box, asked, shown, at, flag, ret, saved, noted, historyVars>>

-----------------------------------------------------------------------------
(* Reads: over the serial cable, the network, or readData, which needs both *)
(* of a start box.  A read may fail; of a tap-off box it may bring nothing, *)
(* a frame of another address; and the walk over the values of a start box  *)
(* is taken for done wherever it stops: it comes to the shunt setting, then *)
(* to the breaker, and up to there shows what the serial line has shown.    *)

Serial == bench.cable # "none" /\ ~Is(bench.cable)
Network == bench.net /\ ~Is("net")
Both == Serial /\ (product.kind = "start" => Network)

Outcome(ok, brings) == [ok |-> ok, brings |-> brings]
Failed == Outcome(FALSE, "nothing")

ReadPduData == {Failed} \cup (IF Serial THEN {Outcome(TRUE, "serial")} ELSE {})
CheckNet == {Failed} \cup (IF Network THEN {Outcome(TRUE, "nothing")} ELSE {})
ReadData ==
    IF product.kind = "start"
    THEN {Failed} \cup (IF Serial THEN {Outcome(FALSE, "serial")} ELSE {})
                  \cup (IF Both THEN {Outcome(TRUE, b) : b \in {"serial", "shunt", "all"}} ELSE {})
    ELSE {Failed} \cup (IF Serial THEN {Outcome(TRUE, b) : b \in {"nothing", "all"}} ELSE {})

\* A read that went as it could.
BestData == Outcome(Both, IF Both THEN "all" ELSE IF Serial THEN "serial" ELSE "nothing")

Shown(brings) ==
    LET fresh == Data(product, box, bench)
        line  == [fresh EXCEPT !.sw = SerialSw(Contact(product, bench))]
    IN CASE brings = "nothing" -> shown
         [] brings = "serial"  -> [line EXCEPT !.options = (fresh.options \ {"shunt"})
                                                           \cup (shown.options \cap {"shunt"})]
         [] brings = "shunt"   -> line
         [] brings = "all"     -> fresh

Show(r) == shown' = Shown(r.brings)

\* The read went as it could, and the operator is done.
Smooth(r, best) == calm' = (calm /\ bench = asked /\ r = best)

-----------------------------------------------------------------------------
(* StartErrRange: the waits, named for what they wait for.                  *)

Waits == {"in", "unplug", "out", "net", "spdIn", "spdOut", "spdBack",
          "open", "close", "trip", "reclose"}

Reads(wait) == CASE wait \in {"in", "unplug", "out"} -> ReadPduData
                 [] wait = "net"                     -> CheckNet
                 [] OTHER                            -> ReadData

Best(wait) == CASE wait \in {"in", "unplug", "out"} -> IF Serial THEN Outcome(TRUE, "serial") ELSE Failed
                [] wait = "net"                     -> Outcome(Network, "nothing")
                [] OTHER                            -> BestData

Sees(wait, ok, data) ==
    CASE wait \in {"in", "out", "net"}   -> ok
      [] wait = "unplug"                 -> ~ok
      [] wait \in {"spdIn", "spdBack"}   -> ok /\ data.lps = "works"
      [] wait = "spdOut"                 -> ok /\ data.lps = "damaged"
      [] wait = "open"                   -> ok /\ data.sw = 2 /\ data.vol = "zero"
      [] wait = "trip"                   -> ok /\ data.sw = 3
      [] wait \in {"close", "reclose"}   -> ok /\ data.sw = 1

Asked(wait) ==
    CASE wait \in {"in", "out"}          -> [asked EXCEPT !.cable = wait]
      [] wait = "unplug"                 -> [asked EXCEPT !.cable = "none"]
      [] wait = "net"                    -> [asked EXCEPT !.net = TRUE]
      [] wait = "spdOut"                 -> [asked EXCEPT !.spd = FALSE]
      [] wait = "spdBack"                -> [asked EXCEPT !.spd = TRUE]
      [] wait = "open"                   -> [asked EXCEPT !.breaker = "open"]
      [] wait \in {"close", "reclose"}   -> [asked EXCEPT !.breaker = "closed"]
      [] OTHER                           -> asked

\* Mutant of Noted: a shunt release that did not trip is not noted.
NotedButTrip == {"in", "out", "net", "spdIn", "spdOut", "open"}

Noted == {"in", "out", "net", "spdIn", "spdOut", "open", "trip"}

\* The wait that puts something back goes on with the rounds left over.
Carries == {"spdBack", "close", "reclose"}

Contacts == IF product.ip_break THEN "open" ELSE "shunt"

After(wait, passed) ==
    CASE wait = "in"     -> "unplug"
      [] wait = "unplug" -> "out"
      [] wait = "out"    -> "net"
      [] wait = "net"    -> "compare"
      [] wait = "spdIn"  -> IF passed THEN "spdOut" ELSE Contacts
      [] wait = "spdOut" -> "spdBack"
      [] wait = "spdBack" -> Contacts
      [] wait = "open"   -> "close"
      [] wait = "close"  -> "shunt"
      [] wait = "trip"   -> "reclose"
      [] wait = "reclose" -> "ranges"

\* On to the next wait or check, after so many rounds of this one.
Goto(next, rounds) ==
    /\ at' = next
    /\ asked' = Asked(next)
    /\ flag' = IF next \in Carries THEN rounds ELSE 0

Begin ==
    /\ at = "begin"
    /\ Goto("in", 0)
    /\ UNCHANGED <<settingVars, shown, ret, saved, noted, historyVars>>

\* Mutant of Counted: a round counts twice.
CountedTwice == flag + 2

\* Mutant of Counted: a round does not count.
CountedNot == flag

Counted == flag + 1

\* One round of a wait.
Wait ==
    /\ at \in Waits
    /\ \E r \in Reads(at) :
          /\ Show(r)
          /\ Smooth(r, Best(at))
          /\ IF Sees(at, r.ok, shown')
             THEN Goto(After(at, TRUE), flag) /\ UNCHANGED noted
             ELSE IF Counted <= Patience
             THEN flag' = Counted /\ UNCHANGED <<at, asked, noted>>
             ELSE Goto(After(at, FALSE), Counted) /\ noted' = noted \cup ({at} \cap Noted)
          /\ met' = (met \/ (r.brings # "nothing" /\ at \in {"in", "unplug", "out"}))
          /\ known' = (known \/ (r.brings \in {"shunt", "all"} /\ at \notin {"trip", "reclose"}))
    /\ UNCHANGED <<settingVars, ret, saved>>

-----------------------------------------------------------------------------
(* The comparisons of StartErrRange and InsertErrRange.                     *)

Differ(options, data) == {o \in options : (o \in data.options) # (o \in product.expected)}

\* The result of the read is not looked at.
Compare ==
    /\ at = "compare"
    /\ \E r \in ReadData :
          /\ Show(r)
          /\ Smooth(r, BestData)
          /\ met' = (met \/ r.brings # "nothing")
          /\ known' = (known \/ r.brings \in {"shunt", "all"})
    /\ saved' = [saved EXCEPT !.filter = shown'.filter]
    /\ noted' = noted \cup Differ({"buzzer", "spd"}, shown')
                      \cup (IF shown'.filter >= 5 THEN {} ELSE {"filter"})
    /\ Goto(IF product.kind = "insert" THEN "ranges"
            ELSE IF "spd" \in shown'.options \cap product.expected THEN "spdIn" ELSE Contacts, 0)
    /\ UNCHANGED <<settingVars, ret>>

\* The shunt release is told to trip, twice.
ShuntRelease ==
    /\ at = "shunt"
    /\ noted' = noted \cup Differ({"shunt"}, shown)
    /\ IF "shunt" \in shown.options \cap product.expected
       THEN /\ at' = "trip" /\ flag' = 0
            /\ \E obeyed \in BOOLEAN :
                 /\ calm' = (calm /\ obeyed)
                 /\ bench' = IF obeyed /\ "shunt" \in product.options /\ ~Is("release")
                             THEN [bench EXCEPT !.breaker = "tripped"] ELSE bench
                 /\ asked' = [asked EXCEPT !.breaker = bench'.breaker]
       ELSE Goto("ranges", 0) /\ UNCHANGED <<bench, calm>>
    /\ UNCHANGED <<product, box, shown, ret, saved, met, known>>

\* VolErrRange, then CurErrRange.  What the first look finds is noted, and stays
\* noted whatever the second read shows.
Look(here, fine, fault, next) ==
    /\ at = here
    /\ \/ fine /\ UNCHANGED <<shown, noted, calm>>
       \/ ~fine /\ noted' = noted \cup {fault}
                /\ \E r \in ReadData : Show(r) /\ Smooth(r, BestData)
    /\ Goto(next, 0)
    /\ UNCHANGED <<settingVars, ret, saved, met, known>>

\* Mutant of VolErrRange: only a voltage out of range is looked for, not a missing one.
VolErrRangeOnly == Look("ranges", shown.vol # "odd", "vol", "residue")

VolErrRange == Look("ranges", shown.vol = "good", "vol", "residue")
CurErrRange == Look("residue", shown.cur = "zero", "cur", "version")

Version ==
    /\ at = "version"
    /\ noted' = noted \cup Differ({"version"}, shown)
    /\ Goto("env", 0)
    /\ UNCHANGED <<settingVars, shown, ret, saved, historyVars>>

-----------------------------------------------------------------------------
(* EnvErrRange.  The highest and the lowest value are left out of the       *)
(* average; the list they are taken from begins with a zero of its own.     *)

Total(tem) == tem[1] + tem[2] + tem[3] + tem[4]

\* Mutant of Average4: the highest and the lowest are left out, of the four as well.
Average4Both(tem) == (Total(tem) - Max(Range(tem)) - Min(Range(tem))) \div 3

Average4(tem) == (Total(tem) - Max(Range(tem))) \div 3

CheckErrRange(exValue, value, err) == value \in exValue - err .. exValue + err /\ value # 0

EnvErrRange ==
    /\ at = "env"
    /\ noted' = IF \A i \in 1..4 : CheckErrRange(Average4(shown.tem), shown.tem[i], 5)
                THEN noted ELSE noted \cup {"tem"}
    /\ Goto("filterOff", 0)
    /\ UNCHANGED <<settingVars, shown, ret, saved, historyVars>>

-----------------------------------------------------------------------------
(* workDown: the filter, the branch tests, factorySet, the filter again.    *)

\* A write to the box, whose answer is not looked at.
Set(new) ==
    \E obeyed \in BOOLEAN : calm' = (calm /\ obeyed) /\ box' = IF obeyed THEN new ELSE box

FilterOff ==
    /\ at = "filterOff"
    /\ Set([box EXCEPT !.filter = 0])
    /\ Goto("branches", 0)
    /\ UNCHANGED <<product, bench, shown, ret, saved, noted, met, known>>

\* BreakerTest, stepVolTest and stepLoadTest, which BranchTests opens.
Branches ==
    /\ at = "branches"
    /\ ret' \in BOOLEAN
    /\ box' \in {[box EXCEPT !.energy = e] : e \in {box.energy, ret'}}
    /\ shown' \in IF ret' THEN {Data(product, box', bench)} ELSE {shown, Data(product, box', bench)}
    /\ Goto(IF ret' THEN "connect" ELSE "filterOn", 0)
    /\ UNCHANGED <<product, bench, saved, noted, historyVars>>

\* A start box that is read over the network is switched over for the time.
Connect ==
    /\ at = "connect"
    /\ saved' = [saved EXCEPT !.tag = shown.workMode]
    /\ IF product.kind = "start" /\ shown.workMode = 0
       THEN Set([box EXCEPT !.workMode = 1]) ELSE UNCHANGED <<box, calm>>
    /\ Goto("clean", 0)
    /\ UNCHANGED <<product, bench, shown, ret, noted, met, known>>

\* eleClean and readDevData, of a start box over the network alone; a second time if
\* energy is left.  What a walk shows that stops before the energy is not looked at.
EleClean ==
    /\ at \in {"clean", "again"}
    /\ \E obeyed \in BOOLEAN, arrived \in BOOLEAN :
          /\ box' = IF obeyed THEN [box EXCEPT !.energy = FALSE] ELSE box
          /\ shown' = IF arrived THEN [Data(product, box', bench) EXCEPT !.lps = shown.lps] ELSE shown
          /\ calm' = (calm /\ obeyed /\ arrived)
    /\ Goto(IF at = "clean" /\ shown'.energy THEN "again" ELSE "cleaned", 0)
    /\ UNCHANGED <<product, bench, ret, saved, noted, met, known>>

\* Mutant of Cleaned: whatever the box shows, it has been told to clear its energy.
CleanedBlindly ==
    /\ at = "cleaned"
    /\ ret' = TRUE
    /\ IF product.kind = "start" THEN Set([box EXCEPT !.workMode = saved.tag])
       ELSE UNCHANGED <<box, calm>>
    /\ Goto("restore", 0)
    /\ UNCHANGED <<product, bench, shown, saved, noted, met, known>>

\* The energy must be gone on every loop; the factory settings are restored when it
\* is gone on the last one.

Cleaned ==
    /\ at = "cleaned"
    /\ ret' = ~shown.energy
    /\ noted' = IF ret' THEN noted ELSE noted \cup {"energy"}
    /\ IF product.kind = "start" THEN Set([box EXCEPT !.workMode = saved.tag])
       ELSE UNCHANGED <<box, calm>>
    /\ \/ Goto("restore", 0)
       \/ ~ret' /\ Goto("filterOn", 0)
    /\ UNCHANGED <<product, bench, shown, saved, met, known>>

\* Factory settings; a box may reset its filter with them.
Restore ==
    /\ at = "restore"
    /\ \E new \in {box, [box EXCEPT !.filter = 5]} : Set(new)
    /\ Goto("filterOn", 0)
    /\ UNCHANGED <<product, bench, shown, ret, saved, noted, met, known>>

\* Mutant of FilterOn: the value that the box shows now is written back.
FilterOnShown ==
    /\ at = "filterOn"
    /\ Set([box EXCEPT !.filter = shown.filter])
    /\ at' = "over"
    /\ UNCHANGED <<product, bench, asked, shown, flag, ret, saved, noted, met, known>>

FilterOn ==
    /\ at = "filterOn"
    /\ Set([box EXCEPT !.filter = saved.filter])
    /\ at' = "over"
    /\ UNCHANGED <<product, bench, asked, shown, flag, ret, saved, noted, met, known>>

Run == \/ Begin \/ Wait \/ Compare \/ ShuntRelease \/ VolErrRange \/ CurErrRange \/ Version
       \/ EnvErrRange \/ FilterOff \/ Branches \/ Connect \/ EleClean \/ Cleaned
       \/ Restore \/ FilterOn

Next == Run \/ Operator

Spec == Init /\ [][Next]_vars
FairSpec == Spec /\ WF_vars(Run)

-----------------------------------------------------------------------------
(* Properties.                                                              *)

Checks == Noted \cup Options \cup {"filter", "vol", "cur", "tem", "energy"}

Positions == [cable : {"none", "in", "out"}, net : BOOLEAN, spd : BOOLEAN,
              breaker : {"closed", "open", "tripped"}]

\* Every wait is left with at most one round more than it may have, the one that
\* carries on with the rounds of the last one too.
TypeOK ==
    /\ product \in Products
    /\ box \in [filter : Filters, workMode : {0, 1}, energy : BOOLEAN]
    /\ bench \in Positions /\ asked \in Positions
    /\ shown \in [options : SUBSET Options, filter : Filters, workMode : {0, 1}, energy : BOOLEAN,
                  lps : {"works", "damaged"}, sw : 0 .. 3,
                  vol : {"zero", "odd", "good"}, cur : {"zero", "odd"}, tem : [1..4 -> 0..99]]
    /\ at \in Waits \cup {"begin", "compare", "shunt", "ranges", "residue", "version", "env",
                         "filterOff", "branches", "connect", "clean", "again", "cleaned",
                         "restore", "filterOn", "over"}
    /\ flag \in 0 .. Patience + 1
    /\ ret \in BOOLEAN
    /\ saved \in [filter : Filters, tag : {0, 1}]
    /\ noted \subseteq Checks
    /\ calm \in BOOLEAN /\ met \in BOOLEAN /\ known \in BOOLEAN

Over == at = "over"
Even(tem) == \A i, j \in 1..4 : tem[i] # 0 /\ tem[i] - tem[j] <= 5

\* A sound box, configured as expected, is not blamed by any check of a run in which
\* the operator did what he was asked and no read or command was lost: the filter
\* counts, the breaker and the lightning protection are as the checks left them.
SoundBox ==
    /\ product.broken = {} /\ product.options = product.expected
    /\ product.filter >= 5 /\ Even(product.temperatures)
SoundPasses == Over /\ SoundBox /\ calm => noted = {}

\* What the run can find out about a box: a contact only by opening the breaker, and
\* so on.  The OUT port is passed through the IN port when the cable was left there.
Found ==
    product.broken
        \ ((IF "shunt" \in product.expected THEN {} ELSE {"release"})
           \cup (IF product.ip_break \/ "shunt" \in product.expected THEN {} ELSE {"contact"})
           \cup (IF "spd" \in product.expected THEN {} ELSE {"alarm"})
           \cup (IF calm THEN {} ELSE {"out"}))

\* The settings whose comparison is worth something: the shunt setting of the box before
\* is compared when the network did not bring that of this one, and a box that is
\* expected to have a shunt release must also show that it trips.
Told == IF known \/ "shunt" \in product.expected THEN Options ELSE Options \ {"shunt"}

\* A run that notes no failure had a box in front of it that has none of the faults
\* it looks for, whatever the operator was late with and whichever reads failed,
\* provided one of them brought the data of this box at all.
FaultIsNoted ==
    Over /\ noted = {} /\ met =>
        /\ Found = {} /\ product.filter >= 5
        /\ product.options \cap Told = product.expected \cap Told
        /\ \A i, j \in 1..4 : product.temperatures[i] - product.temperatures[j] <= 10

\* A box in which no failure was noted leaves with its breaker closed, though the two
\* waits for closing it again are not noted: VolErrRange misses its voltage.
BreakerBack == Over /\ noted = {} => bench.breaker = "closed"

\* A run that went smoothly leaves the alarm filter and the protocol of the box as it
\* found them, whether the tests passed or ended early.  Only one that never read the
\* box does not: it puts back the filter of the box tested before.
SettingsKept ==
    Over /\ calm => (met => box.filter = product.filter) /\ box.workMode = product.workMode

\* The tests count energy.  A box that passed has none left, whatever commands and
\* reads of factorySet were lost: what was shown before it does count energy.
EnergyCleared == Over /\ ret => ~box.energy

\* Whatever the operator does or leaves undone, the run ends.
Ends == <>Over
=============================================================================
