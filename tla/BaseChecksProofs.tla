-------------------------- MODULE BaseChecksProofs --------------------------
(***************************************************************************)
(* Theorems about BaseChecks, for every set of boxes, with any faults,     *)
(* options and settings, and any patience.                                 *)
(***************************************************************************)
EXTENDS BaseChecks, TLAPS

-----------------------------------------------------------------------------
(* The values of the variables.                                            *)

Boxes == [kind : {"start", "insert"}, options : SUBSET Options, expected : SUBSET Options,
          broken : SUBSET Faults, ip_break : BOOLEAN, filter : Filters, workMode : {0, 1},
          temperatures : [1..4 -> 0..99]]
Settings == [filter : Filters, workMode : {0, 1}, energy : BOOLEAN]
Readings == [options : SUBSET Options, filter : Filters, workMode : {0, 1}, energy : BOOLEAN,
             lps : {"works", "damaged"}, sw : 0 .. 3,
             vol : {"zero", "odd", "good"}, cur : {"zero", "odd"}, tem : [1..4 -> 0..99]]
Testing == {"filterOff", "branches", "connect", "clean", "again", "cleaned", "restore",
            "filterOn", "over"}
Stages == Waits \cup {"begin", "compare", "shunt", "ranges", "residue", "version", "env"} \cup Testing

\* A wait that does not go on with the rounds left over begins anew, so that none is
\* ever more than one round over.
InTime == flag \in 0 .. Patience + 1 /\ (at \notin Carries => flag <= Patience)

ThingsTyped == product \in Products /\ box \in Settings /\ bench \in Positions /\ asked \in Positions
RunTyped == /\ shown \in Readings /\ at \in Stages /\ ret \in BOOLEAN
            /\ saved \in [filter : Filters, tag : {0, 1}]
            /\ noted \subseteq Checks
            /\ calm \in BOOLEAN /\ met \in BOOLEAN /\ known \in BOOLEAN
Typed == ThingsTyped /\ RunTyped /\ InTime

\* What is proved to be inductive is at least the type invariant of the model.
LEMMA TypedIsTypeOK == Typed => TypeOK
BY DEF Typed, ThingsTyped, RunTyped, InTime, TypeOK, Settings, Readings, Stages, Testing

\* What a box is, and what it reports, field by field.
LEMMA ProductTyped ==
    ASSUME Typed
    PROVE  product \in Boxes
BY ProductsAssumption DEF Typed, ThingsTyped, IsProduct, Boxes

\* Each field of a reading, by what it shows of the box and the bench.
LEMMA DataFields ==
    ASSUME NEW p, NEW x, NEW b
    PROVE  LET d == Data(p, x, b) IN
           /\ d.options = p.options /\ d.tem = p.temperatures
           /\ d.filter = x.filter /\ d.workMode = x.workMode /\ d.energy = x.energy
           /\ d.lps = (IF b.spd \/ "alarm" \in p.broken THEN "works" ELSE "damaged")
           /\ d.sw = NetworkSw(IF "contact" \in p.broken THEN "closed" ELSE b.breaker)
           /\ d.vol = (IF b.breaker # "closed" THEN "zero" ELSE IF "vol" \in p.broken THEN "odd" ELSE "good")
           /\ d.cur = (IF "cur" \in p.broken THEN "odd" ELSE "zero")
BY DEF Data, Contact

\* A reading has the values of a reading.
LEMMA DataTyped ==
    ASSUME NEW p \in Boxes, NEW x \in Settings, NEW b \in Positions
    PROVE  Data(p, x, b) \in Readings
<1>1. Contact(p, b) \in {"closed", "open", "tripped"}
      BY DEF Contact, Positions
<1>2. NetworkSw(Contact(p, b)) \in 0 .. 3
      BY <1>1 DEF NetworkSw
<1> QED BY <1>2 DEF Data, Boxes, Settings, Positions, Readings

\* So has what a box tested before leaves behind, and it shows a closed breaker.
LEMMA LeftoverTyped ==
    ASSUME NEW p \in Boxes
    PROVE  /\ Leftover(p) \in Readings /\ Leftover(p).sw = 1 /\ Leftover(p).lps = "works"
<1> DEFINE t == [i \in 1..4 |-> 20]
           q == [p EXCEPT !.options = p.expected, !.broken = {}, !.temperatures = t]
           x == [filter |-> 8, workMode |-> 1, energy |-> FALSE]
<1>1. t \in [1..4 -> 0..99]
      OBVIOUS
<1> HIDE DEF t
<1>2. q \in Boxes /\ q.broken = {}
      BY <1>1 DEF Boxes
<1>3. x \in Settings
      BY DEF Settings, Filters
<1>4. InUse \in Positions /\ InUse.spd = TRUE /\ InUse.breaker = "closed"
      BY DEF InUse, Positions
<1>5. Leftover(p) = Data(q, x, InUse)
      BY DEF Leftover, t
<1> HIDE DEF q, x
<1> QED BY <1>2, <1>3, <1>4, <1>5, DataTyped, DataFields DEF NetworkSw

\* A reading that shows what another one does, but for what the serial line leaves out
\* and for the lightning alarm, which factorySet does not read again.
Like(d, e) ==
    /\ d.filter = e.filter /\ d.workMode = e.workMode /\ d.energy = e.energy
    /\ d.vol = e.vol /\ d.cur = e.cur /\ d.tem = e.tem
    /\ \A o \in Options \ {"shunt"} : o \in d.options <=> o \in e.options
    /\ ("shunt" \in d.options <=> "shunt" \in e.options) \/ ("shunt" \in d.options <=> "shunt" \in shown.options)
    /\ d.lps \in {e.lps, shown.lps}
    /\ d.sw = e.sw \/ d.sw \in {0, 1}

\* What a read brings of this box is shown; the rest stays as it was shown.
LEMMA ShowDoes ==
    ASSUME Typed, NEW r, r.brings \in {"nothing", "serial", "shunt", "all"}, Show(r)
    PROVE  /\ shown' \in Readings
           /\ r.brings = "nothing" => shown' = shown
           /\ r.brings # "nothing" => Like(shown', Data(product, box, bench))
           /\ r.brings \in {"shunt", "all"} => shown'.options = product.options
           /\ r.brings = "all" => shown' = Data(product, box, bench)
<1> DEFINE fresh == Data(product, box, bench)
           sw == SerialSw(Contact(product, bench))
           line == [fresh EXCEPT !.sw = sw]
           options == (fresh.options \ {"shunt"}) \cup (shown.options \cap {"shunt"})
<1>1. shown \in Readings /\ fresh \in Readings /\ fresh.options = product.options
      BY ProductTyped, DataTyped, DataFields DEF Typed, ThingsTyped, RunTyped
<1>2. sw \in {0, 1}
      BY DEF SerialSw
<1>3. shown' = CASE r.brings = "nothing" -> shown
                 [] r.brings = "serial"  -> [line EXCEPT !.options = options]
                 [] r.brings = "shunt"   -> line
                 [] r.brings = "all"     -> fresh
      BY DEF Show, Shown
<1> HIDE DEF fresh, sw
<1>4. options \in SUBSET Options
      BY <1>1 DEF Readings
<1>5. CASE r.brings = "nothing"
      BY <1>1, <1>3, <1>5
<1>6. CASE r.brings = "serial"
  <2>1. shown' = [line EXCEPT !.options = options]
        BY <1>3, <1>6
  <2>a. line \in Readings
        BY <1>1, <1>2 DEF Readings
  <2>2. shown' \in Readings
        BY <1>4, <2>1, <2>a DEF Readings
  <2>3. shown'.options = options /\ shown'.sw = sw
        BY <1>1, <2>1 DEF Readings
  <2>4. /\ shown'.filter = fresh.filter /\ shown'.workMode = fresh.workMode /\ shown'.energy = fresh.energy
        /\ shown'.vol = fresh.vol /\ shown'.cur = fresh.cur /\ shown'.tem = fresh.tem /\ shown'.lps = fresh.lps
        BY <1>1, <2>1 DEF Readings
  <2>5. Like(shown', fresh)
        BY <1>2, <2>3, <2>4 DEF Like
  <2> QED BY <1>6, <2>2, <2>5 DEF fresh
<1>7. CASE r.brings = "shunt"
  <2>1. shown' = line
        BY <1>3, <1>7
  <2>2. shown' \in Readings
        BY <1>1, <1>2, <2>1 DEF Readings
  <2>3. shown'.options = fresh.options /\ shown'.sw = sw
        BY <1>1, <2>1 DEF Readings
  <2>4. /\ shown'.filter = fresh.filter /\ shown'.workMode = fresh.workMode /\ shown'.energy = fresh.energy
        /\ shown'.vol = fresh.vol /\ shown'.cur = fresh.cur /\ shown'.tem = fresh.tem /\ shown'.lps = fresh.lps
        BY <1>1, <2>1 DEF Readings
  <2>5. Like(shown', fresh)
        BY <1>2, <2>3, <2>4 DEF Like
  <2> QED BY <1>1, <1>7, <2>2, <2>3, <2>5 DEF fresh
<1>8. CASE r.brings = "all"
  <2>1. shown' = fresh
        BY <1>3, <1>8
  <2>2. Like(shown', fresh)
        BY <2>1 DEF Like
  <2> QED BY <1>1, <1>8, <2>1, <2>2 DEF fresh
<1> QED BY <1>5, <1>6, <1>7, <1>8

\* How a read went, and what it brought.
LEMMA OutcomeFields ==
    \A ok \in BOOLEAN, brings \in {"nothing", "serial", "shunt", "all"} :
        Outcome(ok, brings).ok = ok /\ Outcome(ok, brings).brings = brings
BY DEF Outcome

\* Every way a read can end is a result and what it brought of the box.
LEMMA ReadTyped ==
    ASSUME NEW r, r \in ReadData \/ r \in ReadPduData \/ r \in CheckNet
    PROVE  r.ok \in BOOLEAN /\ r.brings \in {"nothing", "serial", "shunt", "all"}
<1>1. CASE r \in ReadData
  <2>1. \/ r = Outcome(FALSE, "nothing") \/ r = Outcome(FALSE, "serial")
        \/ \E b \in {"nothing", "serial", "shunt", "all"} : r = Outcome(TRUE, b)
        BY <1>1 DEF ReadData, Failed
  <2> QED BY <2>1, OutcomeFields
<1>2. CASE r \in ReadPduData
  <2>1. r = Outcome(FALSE, "nothing") \/ r = Outcome(TRUE, "serial")
        BY <1>2 DEF ReadPduData, Failed
  <2> QED BY <2>1, OutcomeFields
<1>3. CASE r \in CheckNet
  <2>1. r = Outcome(FALSE, "nothing") \/ r = Outcome(TRUE, "nothing")
        BY <1>3 DEF CheckNet, Failed
  <2> QED BY <2>1, OutcomeFields
<1> QED BY <1>1, <1>2, <1>3

\* A read that goes well has a line to go over.
LEMMA ReadNeeds ==
    ASSUME NEW r, r.ok
    PROVE  /\ r \in ReadPduData => Serial
           /\ r \in CheckNet => Network
<1>1. ASSUME r \in ReadPduData, ~Serial PROVE FALSE
  <2>1. r = Outcome(FALSE, "nothing")
        BY <1>1 DEF ReadPduData, Failed
  <2> QED BY <2>1, OutcomeFields
<1>2. ASSUME r \in CheckNet, ~Network PROVE FALSE
  <2>1. r = Outcome(FALSE, "nothing")
        BY <1>2 DEF CheckNet, Failed
  <2> QED BY <2>1, OutcomeFields
<1> QED BY <1>1, <1>2

\* Where a wait leads.
LEMMA AfterTyped ==
    ASSUME Typed, NEW passed \in BOOLEAN, at \in Waits
    PROVE  /\ After(at, passed) \in Stages
           /\ at \in Carries => After(at, passed) \notin Carries
BY ProductTyped DEF After, Contacts, Waits, Stages, Carries

\* What the operator is asked for is a position of the bench.
LEMMA AskedTyped ==
    ASSUME asked \in Positions, NEW next
    PROVE  Asked(next) \in Positions
BY DEF Positions, Asked

\* A step of the run goes on to a stage and keeps to the rounds of a wait.
LEMMA GotoTyped ==
    ASSUME Typed, NEW next \in Stages, NEW rounds, Goto(next, rounds),
           next \in Carries => rounds \in 0 .. Patience + 1
    PROVE  at' = next /\ asked' \in Positions /\ InTime' /\ at' \in Stages
<1>1. asked' \in Positions /\ at' = next
      BY AskedTyped DEF Typed, ThingsTyped, Goto
<1>2. CASE next \in Carries
      BY <1>1, <1>2, PatienceAssumption DEF Goto, InTime
<1>3. CASE next \notin Carries
      BY <1>1, <1>3, PatienceAssumption DEF Goto, InTime
<1> QED BY <1>1, <1>2, <1>3

\* One round of a wait: it saw what it waited for, or has rounds left, or gives up.
LEMMA WaitRound ==
    ASSUME Typed, Wait
    PROVE  \E r \in Reads(at) :
              /\ r.ok \in BOOLEAN /\ r.brings \in {"nothing", "serial", "shunt", "all"}
              /\ Show(r) /\ Smooth(r, Best(at))
              /\ met' = (met \/ (r.brings # "nothing" /\ at \in {"in", "unplug", "out"}))
              /\ known' = (known \/ (r.brings \in {"shunt", "all"} /\ at \notin {"trip", "reclose"}))
              /\ UNCHANGED <<settingVars, ret, saved>>
              /\ \/ /\ Sees(at, r.ok, shown') /\ noted' = noted
                    /\ at' = After(at, TRUE) /\ asked' = Asked(After(at, TRUE))
                 \/ /\ ~Sees(at, r.ok, shown') /\ noted' = noted
                    /\ at' = at /\ asked' = asked
                 \/ /\ ~Sees(at, r.ok, shown') /\ noted' = noted \cup ({at} \cap Noted)
                    /\ at' = After(at, FALSE) /\ asked' = Asked(After(at, FALSE))
              /\ InTime' /\ at' \in Stages
<1>1. PICK r \in Reads(at) :
          /\ Show(r)
          /\ Smooth(r, Best(at))
          /\ IF Sees(at, r.ok, shown')
             THEN Goto(After(at, TRUE), flag) /\ UNCHANGED noted
             ELSE IF Counted <= Patience
             THEN flag' = Counted /\ UNCHANGED <<at, asked, noted>>
             ELSE Goto(After(at, FALSE), Counted) /\ noted' = noted \cup ({at} \cap Noted)
          /\ met' = (met \/ (r.brings # "nothing" /\ at \in {"in", "unplug", "out"}))
          /\ known' = (known \/ (r.brings \in {"shunt", "all"} /\ at \notin {"trip", "reclose"}))
      BY DEF Wait
<1>2. at \in Waits /\ at \in Stages /\ UNCHANGED <<settingVars, ret, saved>> /\ InTime
      BY DEF Wait, Typed, RunTyped
<1>3. r.ok \in BOOLEAN /\ r.brings \in {"nothing", "serial", "shunt", "all"}
      BY ReadTyped DEF Reads
<1>4. /\ After(at, TRUE) \in Stages /\ After(at, FALSE) \in Stages
      /\ at \in Carries => After(at, TRUE) \notin Carries /\ After(at, FALSE) \notin Carries
      BY <1>2, AfterTyped
<1>5. CASE Sees(at, r.ok, shown')
  <2>1. Goto(After(at, TRUE), flag) /\ noted' = noted
        BY <1>1, <1>5
  <2>2. InTime' /\ at' \in Stages
        BY <1>2, <1>4, <2>1, GotoTyped DEF InTime
  <2> QED BY <1>1, <1>2, <1>3, <1>5, <2>1, <2>2 DEF Goto
<1>6. CASE ~Sees(at, r.ok, shown') /\ Counted <= Patience
  <2>1. flag' = Counted /\ UNCHANGED <<at, asked, noted>>
        BY <1>1, <1>6
  <2>2. InTime'
        BY <1>2, <1>6, <2>1, PatienceAssumption DEF InTime, Counted
  <2> QED BY <1>1, <1>2, <1>3, <1>6, <2>1, <2>2
<1>7. CASE ~Sees(at, r.ok, shown') /\ ~(Counted <= Patience)
  <2>1. Goto(After(at, FALSE), Counted) /\ noted' = noted \cup ({at} \cap Noted)
        BY <1>1, <1>7
  <2>2. InTime' /\ at' \in Stages
    <3>1. CASE at \in Carries
          BY <1>4, <2>1, <3>1, GotoTyped
    <3>2. CASE at \notin Carries
      <4>1. Counted \in 0 .. Patience + 1
            BY <1>2, <3>2, PatienceAssumption DEF InTime, Counted
      <4> QED BY <1>4, <2>1, <4>1, GotoTyped
    <3> QED BY <3>1, <3>2
  <2> QED BY <1>1, <1>2, <1>3, <1>7, <2>1, <2>2 DEF Goto
<1> QED BY <1>5, <1>6, <1>7

\* A check that asks nothing of the operator, and begins its rounds anew.
LEMMA GotoQuietly ==
    ASSUME Typed, NEW next \in {"shunt", "ranges", "residue", "version", "env", "spdIn", "trip"} \cup Testing,
           Goto(next, 0)
    PROVE  at' = next /\ asked' = asked /\ InTime' /\ at' \in Stages
<1>1. next \in Stages /\ 0 \in 0 .. Patience + 1
      BY PatienceAssumption DEF Stages, Waits, Testing
<1>2. Asked(next) = asked
      BY DEF Asked, Testing
<1> QED BY <1>1, <1>2, GotoTyped DEF Goto

\* A write to the box.
LEMMA SetTyped ==
    ASSUME Typed, NEW new \in Settings, Set(new)
    PROVE  /\ box' = box \/ box' = new
           /\ box' \in Settings /\ calm' \in BOOLEAN
           /\ calm' => calm /\ box' = new
BY DEF Typed, ThingsTyped, RunTyped, Set

\* What the steps of a run do that read or ask.
LEMMA CompareDoes ==
    ASSUME Typed, Compare
    PROVE  /\ at = "compare" /\ UNCHANGED <<settingVars, ret>>
           /\ shown' \in Readings /\ met' \in BOOLEAN /\ known' \in BOOLEAN /\ calm' \in BOOLEAN
           /\ \/ Like(shown', Data(product, box, bench)) /\ met'
              \/ shown' = shown /\ met' = met
           /\ known' = known \/ shown'.options = product.options
           /\ (met => met') /\ (known => known')
           /\ calm' => calm /\ bench = asked /\ (Both => shown' = Data(product, box, bench) /\ met' /\ known')
           /\ saved' = [saved EXCEPT !.filter = shown'.filter]
           /\ noted' = noted \cup Differ({"buzzer", "spd"}, shown')
                             \cup (IF shown'.filter >= 5 THEN {} ELSE {"filter"})
           /\ at' = (IF product.kind = "insert" THEN "ranges"
                     ELSE IF "spd" \in shown'.options \cap product.expected THEN "spdIn" ELSE Contacts)
           /\ asked' = Asked(at')
           /\ asked' \in Positions /\ InTime' /\ at' \in Stages
<1>1. PICK r \in ReadData : /\ Show(r)
                            /\ Smooth(r, BestData)
                            /\ met' = (met \/ r.brings # "nothing")
                            /\ known' = (known \/ r.brings \in {"shunt", "all"})
      BY DEF Compare
<1>2. /\ r.brings \in {"nothing", "serial", "shunt", "all"}
      /\ met \in BOOLEAN /\ known \in BOOLEAN /\ calm \in BOOLEAN
      BY ReadTyped DEF Typed, RunTyped
<1>3. /\ shown' \in Readings
      /\ r.brings = "nothing" => shown' = shown
      /\ r.brings # "nothing" => Like(shown', Data(product, box, bench))
      /\ r.brings \in {"shunt", "all"} => shown'.options = product.options
      /\ r.brings = "all" => shown' = Data(product, box, bench)
      BY <1>1, <1>2, ShowDoes
<1>4. calm' \in BOOLEAN /\ (calm' => calm /\ bench = asked /\ r = BestData)
      BY <1>1, <1>2 DEF Smooth
<1>5. ASSUME calm', Both PROVE r.brings = "all"
  <2>1. Both = TRUE
        BY <1>5
  <2>2. r = Outcome(TRUE, "all")
        BY <1>4, <1>5, <2>1 DEF BestData
  <2> QED BY <2>2, OutcomeFields
<1> DEFINE next == IF product.kind = "insert" THEN "ranges"
                   ELSE IF "spd" \in shown'.options \cap product.expected THEN "spdIn" ELSE Contacts
<1>6. next \in Stages /\ 0 \in 0 .. Patience + 1 /\ Goto(next, 0)
      BY PatienceAssumption DEF Compare, Stages, Waits, Contacts
<1> HIDE DEF next
<1>7. at' = next /\ asked' = Asked(next) /\ asked' \in Positions /\ InTime' /\ at' \in Stages
      BY <1>6, GotoTyped DEF Goto
<1>8. /\ \/ Like(shown', Data(product, box, bench)) /\ met'
         \/ shown' = shown /\ met' = met
      /\ known' = known \/ shown'.options = product.options
      /\ met' \in BOOLEAN /\ known' \in BOOLEAN /\ (met => met') /\ (known => known')
      BY <1>1, <1>2, <1>3
<1>9. calm' => calm /\ bench = asked /\ (Both => shown' = Data(product, box, bench) /\ met' /\ known')
      BY <1>1, <1>3, <1>4, <1>5
<1> QED BY <1>1, <1>2, <1>3, <1>4, <1>7, <1>8, <1>9 DEF Compare, next

\* A box that shows a shunt where one is expected is commanded to trip its breaker; a
\* shunt too much or too few is noted.
LEMMA ShuntDoes ==
    ASSUME Typed, ShuntRelease
    PROVE  /\ at = "shunt" /\ UNCHANGED <<product, box, shown, ret, saved, met, known>>
           /\ noted' = noted \cup Differ({"shunt"}, shown)
           /\ bench' \in Positions /\ asked' \in Positions /\ calm' \in BOOLEAN /\ InTime' /\ at' \in Stages
           /\ \/ /\ "shunt" \in shown.options \cap product.expected /\ at' = "trip"
                 /\ \/ /\ bench' = [bench EXCEPT !.breaker = "tripped"] /\ (calm' => calm)
                       /\ ~Is("release") /\ "shunt" \in product.options
                    \/ /\ bench' = bench
                       /\ calm' => calm /\ (Is("release") \/ "shunt" \notin product.options)
                 /\ asked' = [asked EXCEPT !.breaker = bench'.breaker]
              \/ /\ "shunt" \notin shown.options \cap product.expected /\ at' = "ranges"
                 /\ asked' = asked /\ bench' = bench /\ calm' = calm
<1>1. CASE "shunt" \in shown.options \cap product.expected
  <2>1. PICK obeyed \in BOOLEAN :
               /\ calm' = (calm /\ obeyed)
               /\ bench' = IF obeyed /\ "shunt" \in product.options /\ ~Is("release")
                           THEN [bench EXCEPT !.breaker = "tripped"] ELSE bench
               /\ asked' = [asked EXCEPT !.breaker = bench'.breaker]
        BY <1>1 DEF ShuntRelease
  <2>2. bench \in Positions /\ asked \in Positions /\ calm \in BOOLEAN
        BY DEF Typed, ThingsTyped, RunTyped
  <2>3. bench' \in Positions /\ asked' \in Positions /\ calm' \in BOOLEAN
        BY <2>1, <2>2 DEF Positions
  <2>4. at' = "trip" /\ flag' = 0
        BY <1>1 DEF ShuntRelease
  <2>5. InTime' /\ at' \in Stages
        BY <2>4, PatienceAssumption DEF InTime, Stages, Waits
  <2>6. \/ /\ bench' = [bench EXCEPT !.breaker = "tripped"] /\ (calm' => calm)
           /\ ~Is("release") /\ "shunt" \in product.options
        \/ /\ bench' = bench
           /\ calm' => calm /\ (Is("release") \/ "shunt" \notin product.options)
        BY <2>1, <2>2
  <2> QED BY <1>1, <2>1, <2>3, <2>4, <2>5, <2>6 DEF ShuntRelease
<1>2. CASE "shunt" \notin shown.options \cap product.expected
  <2>1. Goto("ranges", 0) /\ UNCHANGED <<bench, calm>>
        BY <1>2 DEF ShuntRelease
  <2>2. at' = "ranges" /\ asked' = asked /\ InTime' /\ at' \in Stages
        BY <2>1, GotoQuietly
  <2> QED BY <1>2, <2>1, <2>2 DEF ShuntRelease, Typed, ThingsTyped, RunTyped
<1> QED BY <1>1, <1>2

\* The voltage range: one read; a voltage out of range is noted.
LEMMA VolDoes ==
    ASSUME Typed, VolErrRange
    PROVE  /\ at = "ranges" /\ at' = "residue" /\ asked' = asked /\ InTime' /\ at' \in Stages
           /\ UNCHANGED <<settingVars, ret, saved, met, known>>
           /\ shown' \in Readings /\ (shown' = shown \/ Like(shown', Data(product, box, bench)))
           /\ calm' \in BOOLEAN /\ (calm' => calm)
           /\ \/ shown.vol = "good" /\ noted' = noted
              \/ shown.vol # "good" /\ noted' = noted \cup {"vol"}
<1>1. Goto("residue", 0) /\ at = "ranges" /\ UNCHANGED <<settingVars, ret, saved, met, known>>
      BY DEF VolErrRange, Look
<1>2. at' = "residue" /\ asked' = asked /\ InTime' /\ at' \in Stages
      BY <1>1, GotoQuietly
<1>3. shown \in Readings /\ calm \in BOOLEAN
      BY DEF Typed, RunTyped
<1>4. CASE shown.vol = "good" /\ UNCHANGED <<shown, noted, calm>>
      BY <1>1, <1>2, <1>3, <1>4
<1>5. CASE /\ shown.vol # "good" /\ noted' = noted \cup {"vol"}
           /\ \E r \in ReadData : Show(r) /\ Smooth(r, BestData)
  <2>1. PICK r \in ReadData : Show(r) /\ Smooth(r, BestData)
        BY <1>5
  <2>2. r.brings \in {"nothing", "serial", "shunt", "all"}
        BY ReadTyped
  <2>3. shown' \in Readings /\ (shown' = shown \/ Like(shown', Data(product, box, bench)))
        BY <2>1, <2>2, ShowDoes
  <2>4. calm' \in BOOLEAN /\ (calm' => calm)
        BY <1>3, <2>1 DEF Smooth
  <2> QED BY <1>1, <1>2, <1>5, <2>3, <2>4
<1> QED BY <1>4, <1>5 DEF VolErrRange, Look

\* The current residue: one read; a current is noted.
LEMMA CurDoes ==
    ASSUME Typed, CurErrRange
    PROVE  /\ at = "residue" /\ at' = "version" /\ asked' = asked /\ InTime' /\ at' \in Stages
           /\ UNCHANGED <<settingVars, ret, saved, met, known>>
           /\ shown' \in Readings /\ (shown' = shown \/ Like(shown', Data(product, box, bench)))
           /\ calm' \in BOOLEAN /\ (calm' => calm)
           /\ \/ shown.cur = "zero" /\ noted' = noted
              \/ shown.cur # "zero" /\ noted' = noted \cup {"cur"}
<1>1. Goto("version", 0) /\ at = "residue" /\ UNCHANGED <<settingVars, ret, saved, met, known>>
      BY DEF CurErrRange, Look
<1>2. at' = "version" /\ asked' = asked /\ InTime' /\ at' \in Stages
      BY <1>1, GotoQuietly
<1>3. shown \in Readings /\ calm \in BOOLEAN
      BY DEF Typed, RunTyped
<1>4. CASE shown.cur = "zero" /\ UNCHANGED <<shown, noted, calm>>
      BY <1>1, <1>2, <1>3, <1>4
<1>5. CASE /\ shown.cur # "zero" /\ noted' = noted \cup {"cur"}
           /\ \E r \in ReadData : Show(r) /\ Smooth(r, BestData)
  <2>1. PICK r \in ReadData : Show(r) /\ Smooth(r, BestData)
        BY <1>5
  <2>2. r.brings \in {"nothing", "serial", "shunt", "all"}
        BY ReadTyped
  <2>3. shown' \in Readings /\ (shown' = shown \/ Like(shown', Data(product, box, bench)))
        BY <2>1, <2>2, ShowDoes
  <2>4. calm' \in BOOLEAN /\ (calm' => calm)
        BY <1>3, <2>1 DEF Smooth
  <2> QED BY <1>1, <1>2, <1>5, <2>3, <2>4
<1> QED BY <1>4, <1>5 DEF CurErrRange, Look

\* The branch tests may put energy onto the counters, and touch no setting.
LEMMA BranchesDo ==
    ASSUME Typed, Branches
    PROVE  /\ at = "branches" /\ UNCHANGED <<product, bench, saved, noted, historyVars, asked>>
           /\ ret' \in BOOLEAN /\ box' \in Settings /\ shown' \in Readings /\ InTime' /\ at' \in Stages
           /\ box'.filter = box.filter /\ box'.workMode = box.workMode
           /\ ret' => at' = "connect" /\ shown' = Data(product, box', bench)
           /\ ~ret' => at' = "filterOn" /\ (shown' = shown \/ shown' = Data(product, box', bench))
<1>1. ret' \in BOOLEAN /\ box \in Settings /\ bench \in Positions
      BY DEF Typed, ThingsTyped, Branches
<1>2. PICK e \in {box.energy, ret'} : box' = [box EXCEPT !.energy = e]
      BY DEF Branches
<1>3. e \in BOOLEAN
      BY <1>1, <1>2 DEF Settings
<1>4. box' \in Settings /\ box'.filter = box.filter /\ box'.workMode = box.workMode
      BY <1>1, <1>2, <1>3 DEF Settings
<1>5. Data(product, box', bench) \in Readings /\ shown \in Readings
      BY <1>1, <1>4, ProductTyped, DataTyped DEF Typed, RunTyped
<1>6. CASE ret'
  <2>1. Goto("connect", 0)
        BY <1>6 DEF Branches
  <2>2. at' = "connect" /\ asked' = asked /\ InTime' /\ at' \in Stages
        BY <2>1, GotoQuietly DEF Testing
  <2>3. shown' = Data(product, box', bench)
        BY <1>6 DEF Branches
  <2> QED BY <1>1, <1>4, <1>5, <1>6, <2>2, <2>3 DEF Branches
<1>7. CASE ~ret'
  <2>1. Goto("filterOn", 0)
        BY <1>7 DEF Branches
  <2>2. at' = "filterOn" /\ asked' = asked /\ InTime' /\ at' \in Stages
        BY <2>1, GotoQuietly DEF Testing
  <2>3. shown' = shown \/ shown' = Data(product, box', bench)
        BY <1>7 DEF Branches
  <2> QED BY <1>1, <1>4, <1>5, <1>7, <2>2, <2>3 DEF Branches
<1> QED BY <1>1, <1>6, <1>7

\* The protocol is taken from the last reading before it is switched.
LEMMA ConnectDoes ==
    ASSUME Typed, Connect
    PROVE  /\ at = "connect" /\ at' = "clean" /\ UNCHANGED <<product, bench, shown, ret, noted, met, known, asked>>
           /\ saved' = [saved EXCEPT !.tag = shown.workMode] /\ saved' \in [filter : Filters, tag : {0, 1}]
           /\ box' \in Settings /\ calm' \in BOOLEAN /\ InTime' /\ at' \in Stages
           /\ \/ box' = box
              \/ product.kind = "start" /\ box' = [box EXCEPT !.workMode = 1]
           /\ calm' => calm
<1>1. Goto("clean", 0)
      BY DEF Connect
<1>2. at' = "clean" /\ asked' = asked /\ InTime' /\ at' \in Stages
      BY <1>1, GotoQuietly DEF Testing
<1>3. [saved EXCEPT !.tag = shown.workMode] \in [filter : Filters, tag : {0, 1}]
      BY DEF Typed, RunTyped, Readings
<1>4. [box EXCEPT !.workMode = 1] \in Settings
      BY DEF Typed, ThingsTyped, Settings
<1>5. CASE product.kind = "start" /\ Set([box EXCEPT !.workMode = 1])
  <2>1. box' = box \/ box' = [box EXCEPT !.workMode = 1]
        BY <1>4, <1>5, SetTyped
  <2>2. box' \in Settings /\ calm' \in BOOLEAN /\ (calm' => calm)
        BY <1>4, <1>5, SetTyped
  <2> QED BY <1>2, <1>3, <1>5, <2>1, <2>2 DEF Connect
<1>6. CASE UNCHANGED <<box, calm>>
      BY <1>2, <1>3, <1>6 DEF Connect, Typed, ThingsTyped, RunTyped
<1> QED BY <1>5, <1>6 DEF Connect

\* The counters are cleared, or the command is lost; what follows is the reading.
LEMMA CleanDoes ==
    ASSUME Typed, EleClean
    PROVE  /\ at \in {"clean", "again"} /\ UNCHANGED <<product, bench, ret, saved, noted, met, known, asked>>
           /\ box' \in Settings /\ box'.filter = box.filter /\ box'.workMode = box.workMode
           /\ box'.energy => box.energy
           /\ shown' \in Readings /\ (shown' = shown \/ Like(shown', Data(product, box', bench)))
           /\ calm' \in BOOLEAN
           /\ calm' => calm /\ ~shown'.energy
           /\ at' \in {"again", "cleaned"} /\ InTime' /\ at' \in Stages
<1> DEFINE fresh == Data(product, box', bench)
<1>1. PICK obeyed \in BOOLEAN, arrived \in BOOLEAN :
             /\ box' = IF obeyed THEN [box EXCEPT !.energy = FALSE] ELSE box
             /\ shown' = IF arrived THEN [fresh EXCEPT !.lps = shown.lps] ELSE shown
             /\ calm' = (calm /\ obeyed /\ arrived)
      BY DEF EleClean
<1>3. box \in Settings /\ bench \in Positions /\ shown \in Readings /\ calm \in BOOLEAN
      BY DEF Typed, ThingsTyped, RunTyped
<1>4. /\ box' \in Settings /\ box'.filter = box.filter /\ box'.workMode = box.workMode
      /\ box'.energy => box.energy
      /\ obeyed => ~box'.energy
  <2>1. CASE obeyed
        BY <1>1, <1>3, <2>1 DEF Settings
  <2>2. CASE ~obeyed
        BY <1>1, <1>3, <2>2
  <2> QED BY <2>1, <2>2
<1>5. fresh \in Readings /\ fresh.energy = box'.energy
      BY <1>3, <1>4, ProductTyped, DataTyped, DataFields
<1> HIDE DEF fresh
<1>6. /\ shown' \in Readings /\ (shown' = shown \/ Like(shown', fresh))
      /\ arrived => shown'.energy = box'.energy
  <2>1. CASE arrived
    <3>1. shown' = [fresh EXCEPT !.lps = shown.lps]
          BY <1>1, <2>1
    <3>2. shown' \in Readings
          BY <1>3, <1>5, <3>1 DEF Readings
    <3>3. /\ shown'.filter = fresh.filter /\ shown'.workMode = fresh.workMode /\ shown'.energy = fresh.energy
          /\ shown'.vol = fresh.vol /\ shown'.cur = fresh.cur /\ shown'.tem = fresh.tem
          /\ shown'.options = fresh.options /\ shown'.sw = fresh.sw /\ shown'.lps = shown.lps
          BY <1>5, <3>1 DEF Readings
    <3>4. Like(shown', fresh)
          BY <3>3 DEF Like
    <3> QED BY <1>5, <3>2, <3>3, <3>4
  <2>2. CASE ~arrived
        BY <1>1, <1>3, <2>2
  <2> QED BY <2>1, <2>2
<1>7. calm' \in BOOLEAN /\ (calm' => calm /\ obeyed /\ arrived)
      BY <1>1, <1>3
<1>8. at \in {"clean", "again"} /\ at' \in {"again", "cleaned"} /\ asked' = asked /\ InTime' /\ at' \in Stages
  <2>1. Goto("again", 0) \/ Goto("cleaned", 0)
        BY DEF EleClean
  <2>2. CASE Goto("again", 0)
        BY <2>2, GotoQuietly DEF Testing, EleClean
  <2>3. CASE Goto("cleaned", 0)
        BY <2>3, GotoQuietly DEF Testing, EleClean
  <2> QED BY <2>1, <2>2, <2>3
<1>9. calm' => calm /\ ~shown'.energy
      BY <1>4, <1>6, <1>7
<1> QED BY <1>4, <1>6, <1>7, <1>8, <1>9 DEF EleClean, fresh

\* Energy that is still counted is noted.
LEMMA CleanedDoes ==
    ASSUME Typed, Cleaned
    PROVE  /\ at = "cleaned" /\ at' \in {"restore", "filterOn"} /\ UNCHANGED <<product, bench, shown, saved, met, known, asked>>
           /\ ret' = ~shown.energy /\ noted' = (IF ret' THEN noted ELSE noted \cup {"energy"})
           /\ box' \in Settings /\ calm' \in BOOLEAN /\ InTime' /\ at' \in Stages
           /\ box'.filter = box.filter /\ box'.energy = box.energy
           /\ product.kind = "insert" => box' = box
           /\ calm' => calm /\ (product.kind = "start" => box'.workMode = saved.tag)
<1>1. Goto("restore", 0) \/ Goto("filterOn", 0)
      BY DEF Cleaned
<1>2. at' \in {"restore", "filterOn"} /\ asked' = asked /\ InTime' /\ at' \in Stages
  <2>1. CASE Goto("restore", 0)
        BY <2>1, GotoQuietly DEF Testing
  <2>2. CASE Goto("filterOn", 0)
        BY <2>2, GotoQuietly DEF Testing
  <2> QED BY <1>1, <2>1, <2>2
<1>3. box \in Settings /\ saved \in [filter : Filters, tag : {0, 1}] /\ calm \in BOOLEAN
      BY DEF Typed, ThingsTyped, RunTyped
<1> DEFINE new == [box EXCEPT !.workMode = saved.tag]
<1>4. new \in Settings /\ new.filter = box.filter /\ new.energy = box.energy /\ new.workMode = saved.tag
      BY <1>3 DEF Settings
<1>5. \/ product.kind = "start" /\ Set(new)
      \/ product.kind # "start" /\ UNCHANGED <<box, calm>>
      BY DEF Cleaned
<1> HIDE DEF new
<1>6. CASE product.kind = "start" /\ Set(new)
  <2>1. /\ box' = box \/ box' = new
        /\ box' \in Settings /\ calm' \in BOOLEAN
        /\ calm' => calm /\ box' = new
        BY <1>4, <1>6, SetTyped
  <2> QED BY <1>2, <1>3, <1>4, <1>6, <2>1 DEF Cleaned
<1>7. CASE product.kind # "start" /\ UNCHANGED <<box, calm>>
      BY <1>2, <1>3, <1>7 DEF Cleaned
<1> QED BY <1>5, <1>6, <1>7

\* The writes that change nothing but the filter.
LEMMA FilterDoes ==
    ASSUME Typed, FilterOff \/ Restore \/ FilterOn
    PROVE  /\ UNCHANGED <<product, bench, shown, ret, saved, noted, met, known, asked>>
           /\ box' \in Settings /\ box'.energy = box.energy /\ box'.workMode = box.workMode
           /\ calm' \in BOOLEAN /\ (calm' => calm) /\ InTime' /\ at' \in Stages
           /\ \/ at = "filterOff" /\ at' = "branches"
              \/ at = "restore" /\ at' = "filterOn"
              \/ at = "filterOn" /\ at' = "over" /\ (calm' => box'.filter = saved.filter)
<1>1. box \in Settings /\ saved \in [filter : Filters, tag : {0, 1}] /\ calm \in BOOLEAN
      BY DEF Typed, ThingsTyped, RunTyped
<1>2. ASSUME NEW f \in Filters
      PROVE  LET new == [box EXCEPT !.filter = f]
             IN new \in Settings /\ new.energy = box.energy /\ new.workMode = box.workMode /\ new.filter = f
      BY <1>1 DEF Settings
<1>3. ASSUME NEW f \in Filters, Set([box EXCEPT !.filter = f])
      PROVE  /\ box' \in Settings /\ box'.energy = box.energy /\ box'.workMode = box.workMode
             /\ calm' \in BOOLEAN /\ (calm' => calm /\ box'.filter = f)
  <2> DEFINE new == [box EXCEPT !.filter = f]
  <2>1. new \in Settings /\ new.energy = box.energy /\ new.workMode = box.workMode /\ new.filter = f
        BY <1>2
  <2>2. Set(new)
        BY <1>3
  <2> HIDE DEF new
  <2> QED BY <2>1, <2>2, SetTyped
<1>4. 0 \in Filters /\ 5 \in Filters /\ saved.filter \in Filters
      BY <1>1 DEF Filters
<1>5. CASE FilterOff
  <2>1. Goto("branches", 0) /\ Set([box EXCEPT !.filter = 0])
        BY <1>5 DEF FilterOff
  <2>2. at' = "branches" /\ asked' = asked /\ InTime' /\ at' \in Stages
        BY <2>1, GotoQuietly DEF Testing
  <2> QED BY <1>3, <1>4, <1>5, <2>1, <2>2 DEF FilterOff
<1>6. CASE Restore
  <2>1. Goto("filterOn", 0) /\ (Set(box) \/ Set([box EXCEPT !.filter = 5]))
        BY <1>6 DEF Restore
  <2>2. at' = "filterOn" /\ asked' = asked /\ InTime' /\ at' \in Stages
        BY <2>1, GotoQuietly DEF Testing
  <2>3. CASE Set(box)
    <3>1. box' = box /\ calm' \in BOOLEAN /\ (calm' => calm)
          BY <1>1, <2>3, SetTyped
    <3> QED BY <1>1, <1>6, <2>2, <3>1 DEF Restore
  <2>4. CASE Set([box EXCEPT !.filter = 5])
        BY <1>3, <1>4, <1>6, <2>2, <2>4 DEF Restore
  <2> QED BY <2>1, <2>3, <2>4
<1>7. CASE FilterOn
  <2>1. Set([box EXCEPT !.filter = saved.filter]) /\ at' = "over"
        BY <1>7 DEF FilterOn
  <2>2. InTime' /\ at' \in Stages
        BY <1>7, PatienceAssumption DEF FilterOn, Typed, InTime, Stages, Testing, Carries
  <2> QED BY <1>3, <1>4, <1>7, <2>1, <2>2 DEF FilterOn
<1> QED BY <1>5, <1>6, <1>7

\* The steps that only ask, or only look at what is shown.
LEMMA LooksDo ==
    ASSUME Typed, Begin \/ Version \/ EnvErrRange
    PROVE  /\ UNCHANGED <<settingVars, shown, ret, saved, historyVars>>
           /\ asked' \in Positions /\ InTime' /\ at' \in Stages
           /\ \/ at = "begin" /\ at' = "in" /\ asked' = [asked EXCEPT !.cable = "in"] /\ noted' = noted
              \/ at = "version" /\ at' = "env" /\ asked' = asked
                 /\ noted' = noted \cup Differ({"version"}, shown)
              \/ at = "env" /\ at' = "filterOff" /\ asked' = asked
                 /\ noted' = IF \A i \in 1..4 : CheckErrRange(Average4(shown.tem), shown.tem[i], 5)
                             THEN noted ELSE noted \cup {"tem"}
<1>0. asked \in Positions
      BY DEF Typed, ThingsTyped
<1>1. CASE Begin
  <2>1. Goto("in", 0)
        BY <1>1 DEF Begin
  <2>2. "in" \in Stages /\ 0 \in 0 .. Patience + 1
        BY PatienceAssumption DEF Stages, Waits
  <2>3. at' = "in" /\ asked' \in Positions /\ InTime' /\ at' \in Stages
        BY <2>1, <2>2, GotoTyped
  <2>4. asked' = [asked EXCEPT !.cable = "in"]
        BY <2>1 DEF Goto, Asked
  <2> QED BY <1>1, <2>3, <2>4 DEF Begin
<1>2. CASE Version
  <2>1. Goto("env", 0)
        BY <1>2 DEF Version
  <2>2. at' = "env" /\ asked' = asked /\ InTime' /\ at' \in Stages
        BY <2>1, GotoQuietly
  <2> QED BY <1>0, <1>2, <2>2 DEF Version
<1>3. CASE EnvErrRange
  <2>1. Goto("filterOff", 0)
        BY <1>3 DEF EnvErrRange
  <2>2. at' = "filterOff" /\ asked' = asked /\ InTime' /\ at' \in Stages
        BY <2>1, GotoQuietly DEF Testing
  <2> QED BY <1>0, <1>3, <2>2 DEF EnvErrRange
<1> QED BY <1>1, <1>2, <1>3

\* What differs from what is expected is a set of checks.
LEMMA DifferTyped ==
    ASSUME NEW options, NEW data, options \subseteq Options
    PROVE  Differ(options, data) \subseteq Checks
BY DEF Differ, Checks

\* Typed is inductive.
LEMMA TypedStep == Typed /\ [Next]_vars => Typed'
<1> SUFFICES ASSUME Typed, [Next]_vars PROVE Typed'
    OBVIOUS
<1> USE DEF settingVars, historyVars
<1>0. ThingsTyped /\ RunTyped /\ InTime
      BY DEF Typed
<1>1. CASE Begin \/ Version \/ EnvErrRange
  <2>1. noted' \subseteq Checks
    <3>1. {"tem"} \subseteq Checks /\ Differ({"version"}, shown) \subseteq Checks /\ noted \subseteq Checks
          BY <1>0, DifferTyped DEF Checks, RunTyped, Options
    <3> QED BY <1>1, <3>1, LooksDo
  <2> QED BY <1>0, <1>1, <2>1, LooksDo DEF Typed, ThingsTyped, RunTyped
<1>2. CASE Wait
  <2>1. PICK r \in Reads(at) :
              /\ r.ok \in BOOLEAN /\ r.brings \in {"nothing", "serial", "shunt", "all"}
              /\ Show(r) /\ Smooth(r, Best(at))
              /\ met' = (met \/ (r.brings # "nothing" /\ at \in {"in", "unplug", "out"}))
              /\ known' = (known \/ (r.brings \in {"shunt", "all"} /\ at \notin {"trip", "reclose"}))
              /\ UNCHANGED <<settingVars, ret, saved>>
              /\ \/ noted' = noted /\ asked' = Asked(After(at, TRUE))
                 \/ noted' = noted /\ asked' = asked
                 \/ noted' = noted \cup ({at} \cap Noted) /\ asked' = Asked(After(at, FALSE))
              /\ InTime' /\ at' \in Stages
        BY <1>2, WaitRound
  <2>2. shown' \in Readings
        BY <2>1, ShowDoes
  <2>3. asked' \in Positions
        BY <1>0, <2>1, AskedTyped DEF ThingsTyped
  <2>4. noted' \subseteq Checks
        BY <1>0, <2>1 DEF RunTyped, Checks
  <2>5. calm' \in BOOLEAN /\ met' \in BOOLEAN /\ known' \in BOOLEAN
        BY <1>0, <2>1 DEF RunTyped, Smooth
  <2> QED BY <1>0, <2>1, <2>2, <2>3, <2>4, <2>5 DEF Typed, ThingsTyped, RunTyped
<1>3. CASE Compare
  <2>1. noted' \subseteq Checks
    <3>1. Differ({"buzzer", "spd"}, shown') \subseteq Checks /\ {"filter"} \subseteq Checks /\ noted \subseteq Checks
          BY <1>0, DifferTyped DEF Checks, RunTyped, Options
    <3> QED BY <1>3, <3>1, CompareDoes
  <2>2. saved' \in [filter : Filters, tag : {0, 1}]
    <3>1. shown'.filter \in Filters
          BY <1>3, CompareDoes DEF Readings
    <3> QED BY <1>0, <1>3, <3>1, CompareDoes DEF RunTyped
  <2> QED BY <1>0, <1>3, <2>1, <2>2, CompareDoes DEF Typed, ThingsTyped, RunTyped
<1>4. CASE ShuntRelease
  <2>1. noted' \subseteq Checks
    <3>1. Differ({"shunt"}, shown) \subseteq Checks /\ noted \subseteq Checks
          BY <1>0, DifferTyped DEF RunTyped, Options
    <3> QED BY <1>4, <3>1, ShuntDoes
  <2> QED BY <1>0, <1>4, <2>1, ShuntDoes DEF Typed, ThingsTyped, RunTyped
<1>5. CASE VolErrRange
  <2>1. noted' \subseteq Checks
        BY <1>0, <1>5, VolDoes DEF RunTyped, Checks
  <2> QED BY <1>0, <1>5, <2>1, VolDoes DEF Typed, ThingsTyped, RunTyped
<1>6. CASE CurErrRange
  <2>1. noted' \subseteq Checks
        BY <1>0, <1>6, CurDoes DEF RunTyped, Checks
  <2> QED BY <1>0, <1>6, <2>1, CurDoes DEF Typed, ThingsTyped, RunTyped
<1>7. CASE Branches
      BY <1>0, <1>7, BranchesDo DEF Typed, ThingsTyped, RunTyped
<1>8. CASE Connect
      BY <1>0, <1>8, ConnectDoes DEF Typed, ThingsTyped, RunTyped
<1>9. CASE EleClean
      BY <1>0, <1>9, CleanDoes DEF Typed, ThingsTyped, RunTyped
<1>10. CASE Cleaned
  <2>1. noted' \subseteq Checks /\ ret' \in BOOLEAN
        BY <1>0, <1>10, CleanedDoes DEF RunTyped, Checks
  <2> QED BY <1>0, <1>10, <2>1, CleanedDoes DEF Typed, ThingsTyped, RunTyped
<1>11. CASE FilterOff \/ Restore \/ FilterOn
      BY <1>0, <1>11, FilterDoes DEF Typed, ThingsTyped, RunTyped
<1>12. CASE Operator
      BY <1>0, <1>12 DEF Operator, Typed, ThingsTyped, RunTyped, InTime
<1>13. CASE UNCHANGED vars
      BY <1>0, <1>13 DEF vars, Typed, ThingsTyped, RunTyped, InTime
<1> QED BY <1>1, <1>2, <1>3, <1>4, <1>5, <1>6, <1>7, <1>8, <1>9, <1>10, <1>11, <1>12, <1>13
        DEF Next, Run

\* The run, its box and its bench keep to their values.
LEMMA TypedAlways == Spec => []Typed
<1>1. Init => Typed
  <2> SUFFICES ASSUME Init PROVE Typed
      OBVIOUS
  <2>1. product \in Products /\ product \in Boxes
        BY ProductsAssumption DEF Init, IsProduct, Boxes
  <2>2. box \in Settings
        BY <2>1 DEF Init, Settings, Boxes
  <2>3. bench \in Positions /\ asked = bench
    <3>1. InUse \in Positions
          BY DEF InUse, Positions
    <3>2. ASSUME NEW n \in BOOLEAN PROVE [InUse EXCEPT !.cable = "none", !.net = n] \in Positions
          BY DEF InUse, Positions
    <3>3. bench \in {[InUse EXCEPT !.cable = "none", !.net = n] : n \in BOOLEAN} \/ bench = InUse
          BY DEF Init
    <3> QED BY <3>1, <3>2, <3>3 DEF Init
  <2>4. shown \in Readings
        BY <2>1, LeftoverTyped DEF Init
  <2>5. at \in {"begin", "compare"} /\ at \in Stages
        BY DEF Init, Stages
  <2>6. saved \in [filter : Filters, tag : {0, 1}] /\ noted \subseteq Checks
        BY DEF Init, Filters
  <2>7. InTime
    <3>1. flag = 0
          BY DEF Init
    <3> QED BY <3>1, PatienceAssumption DEF InTime
  <2> QED BY <2>1, <2>2, <2>3, <2>4, <2>5, <2>6, <2>7 DEF Init, Typed, ThingsTyped, RunTyped
<1> QED BY <1>1, TypedStep, PTL DEF Spec

\* Every variable keeps to its values, and no wait is left with more than one round too
\* many, for every set of boxes and any patience.
THEOREM TypeCorrect == Spec => []TypeOK
BY TypedAlways, TypedIsTypeOK, PTL

-----------------------------------------------------------------------------
(* How far a run is.                                                       *)

ToIn == {"begin", "in"}
ToOut == ToIn \cup {"unplug", "out"}
ToNet == ToOut \cup {"net"}
ToCompare == ToNet \cup {"compare"}
ToSpd == ToCompare \cup {"spdIn", "spdOut"}
ToOpen == ToSpd \cup {"spdBack", "open"}
ToTrip == ToOpen \cup {"close", "shunt", "trip"}
ToRanges == ToTrip \cup {"reclose", "ranges"}
ToResidue == ToRanges \cup {"residue"}
ToVersion == ToResidue \cup {"version"}
ToEnv == ToVersion \cup {"env"}

\* The energy that the branch tests counted is seen, or gone.
Energy == /\ at \in {"connect", "clean", "again", "cleaned"} => (box.energy => shown.energy)
          /\ at \in {"restore", "filterOn", "over"} => (ret => ~box.energy)
          /\ at = "cleaned" /\ calm => ~shown.energy

\* What is put back is what was there.
Filter == /\ at \in ToEnv \cup {"filterOff"} => box.filter = product.filter
          /\ met /\ at \in ToEnv => shown.filter = product.filter
          /\ met /\ at \notin ToCompare => saved.filter = product.filter
          /\ at = "over" /\ calm /\ met => box.filter = product.filter
Protocol == /\ at \in ToEnv \cup {"filterOff", "branches", "connect"} => box.workMode = product.workMode
            /\ at = "connect" => shown.workMode = product.workMode
            /\ at \in {"clean", "again", "cleaned"} => saved.tag = product.workMode
            /\ product.kind = "insert" => box.workMode = product.workMode
            /\ at \in {"restore", "filterOn", "over"} /\ calm => box.workMode = product.workMode

\* Where the operator was asked to have things.
Place == /\ at = "begin" => asked.cable = "none" /\ bench.cable = "none"
         /\ at = "in" => asked.cable = "in" /\ bench.cable \in {"none", "in"}
         /\ at = "unplug" => asked.cable = "none"
         /\ at = "out" => asked.cable = "out"
         /\ at \in ToNet => product.kind = "start"
         /\ at \notin ToOut => asked.cable = (IF product.kind = "start" THEN "out" ELSE "in") /\ asked.net
         /\ at \in ToCompare \cup {"spdIn", "spdBack"} => asked.spd
         /\ at = "spdOut" => ~asked.spd
         /\ at = "open" => asked.breaker = "open"
         /\ at \notin {"open", "trip"} => asked.breaker = "closed"

\* What is shown, of this box or another, says so much about this one.
Telling(d) == /\ d.sw \in {2, 3} => d.vol = "zero" /\ "contact" \notin product.broken
              /\ d.sw = 3 => "release" \notin product.broken /\ "shunt" \in product.options
              /\ d.lps = "damaged" => "alarm" \notin product.broken
OfThisBox(d) == /\ \A o \in Options \ {"shunt"} : o \in d.options <=> o \in product.options
                /\ d.tem = product.temperatures
                /\ d.vol # "zero" => (d.vol = "good" <=> "vol" \notin product.broken)
                /\ d.cur = "zero" <=> "cur" \notin product.broken
ShowsShunt(d) == "shunt" \in d.options <=> "shunt" \in product.options
Tripped == bench.breaker = "tripped" \/ asked.breaker = "tripped" =>
               "release" \notin product.broken /\ "shunt" \in product.options
Tells == Telling(shown) /\ Tripped /\ (met => OfThisBox(shown)) /\ (known => ShowsShunt(shown))

\* A voltage that is shown was read from a closed breaker, which nobody opened since,
\* unless a failure was noted.
Breaker == noted = {} =>
    /\ at \notin {"open", "trip"} /\ shown.vol # "zero" => bench.breaker = "closed"
    /\ at \notin ToRanges => bench.breaker = "closed"

\* What is known of a box in which no failure was noted so far.
Cleared(stages, faults) == at \notin stages => faults \cap product.broken = {}
Same(stages, options) ==
    at \notin stages /\ met => \A o \in options : o \in product.options <=> o \in product.expected
Innocent == noted = {} =>
    /\ Cleared(ToIn, {"in"}) /\ Cleared(ToNet, {"net"})
    /\ calm => Cleared(ToOut, {"out"})
    /\ "spd" \in product.expected => Cleared(ToSpd, {"alarm"})
    /\ at = "spdIn" => "spd" \in product.expected
    /\ product.ip_break => Cleared(ToOpen, {"contact"})
    /\ "shunt" \in product.expected => Cleared(ToTrip, {"contact", "release"})
    /\ met => Cleared(ToRanges, {"vol"}) /\ Cleared(ToResidue, {"cur"})
    /\ Same(ToCompare, {"buzzer", "spd"}) /\ Same(ToVersion, {"version"})
    /\ known /\ at \notin ToTrip \ {"trip"} => ("shunt" \in product.options <=> "shunt" \in product.expected)
    /\ "shunt" \in product.expected /\ at \notin ToTrip => "shunt" \in product.options
    /\ at \notin ToCompare /\ met => product.filter >= 5
    /\ at \notin ToEnv /\ met =>
          \A i, j \in 1..4 : product.temperatures[i] - product.temperatures[j] <= 10

\* A sound box in the hands of a prompt operator is read at every step and never blamed.
Blameless == SoundBox /\ calm =>
    /\ noted = {}
    /\ at \notin ToCompare => met /\ known
    /\ at \in {"spdIn", "spdOut", "spdBack", "shunt", "ranges"} => shown.vol # "zero"
    /\ at = "trip" => bench.breaker = "tripped" /\ asked.breaker = "tripped"

-----------------------------------------------------------------------------
(* Energy, filter and protocol.                                            *)

\* The checks; the rest of a run tests, writes to the box and puts back.
Check == Begin \/ Wait \/ Compare \/ ShuntRelease \/ VolErrRange \/ CurErrRange \/ Version \/ EnvErrRange

\* Where a wait may lead.
LEMMA WaitMoves ==
    ASSUME Typed, Wait
    PROVE  \/ at' = at
           \/ at = "in" /\ at' = "unplug"
           \/ at = "unplug" /\ at' = "out"
           \/ at = "out" /\ at' = "net"
           \/ at = "net" /\ at' = "compare"
           \/ at = "spdIn" /\ at' = "spdOut"
           \/ at = "spdOut" /\ at' = "spdBack"
           \/ at \in {"spdIn", "spdBack"} /\ at' = Contacts
           \/ at = "open" /\ at' = "close"
           \/ at = "close" /\ at' = "shunt"
           \/ at = "trip" /\ at' = "reclose"
           \/ at = "reclose" /\ at' = "ranges"
<1>1. at \in Waits /\ (at' = at \/ at' = After(at, TRUE) \/ at' = After(at, FALSE))
      BY WaitRound DEF Wait
<1>2. CASE at' = at
      BY <1>2
<1>3. CASE at' = After(at, TRUE)
      BY <1>1, <1>3 DEF After, Waits
<1>4. CASE at' = After(at, FALSE)
      BY <1>1, <1>4 DEF After, Waits
<1> QED BY <1>1, <1>2, <1>3, <1>4

\* A check moves on, never back, and it leaves the box alone.
LEMMA CheckMoves ==
    ASSUME Typed, Check
    PROVE  /\ UNCHANGED <<product, box, ret>>
           /\ \/ at \in Waits /\ Wait
              \/ at = "begin" /\ at' = "in"
              \/ at = "compare" /\ at' \in {"ranges", "spdIn", Contacts}
              \/ at = "shunt" /\ at' \in {"trip", "ranges"}
              \/ at = "ranges" /\ at' = "residue"
              \/ at = "residue" /\ at' = "version"
              \/ at = "version" /\ at' = "env"
              \/ at = "env" /\ at' = "filterOff"
<1> USE DEF settingVars
<1>1. CASE Begin \/ Version \/ EnvErrRange
      BY <1>1, LooksDo
<1>2. CASE Wait
      BY <1>2 DEF Wait
<1>3. CASE Compare
      BY <1>3, CompareDoes
<1>4. CASE ShuntRelease
      BY <1>4, ShuntDoes
<1>5. CASE VolErrRange
      BY <1>5, VolDoes
<1>6. CASE CurErrRange
      BY <1>6, CurDoes
<1> QED BY <1>1, <1>2, <1>3, <1>4, <1>5, <1>6 DEF Check

\* The checks come before the filter is touched.
LEMMA CheckIsEarly ==
    ASSUME Typed, Check
    PROVE  at \in ToEnv /\ at' \in ToEnv \cup {"filterOff"}
BY CheckMoves, WaitMoves
   DEF Contacts, Waits, ToIn, ToOut, ToNet, ToCompare, ToSpd, ToOpen, ToTrip, ToRanges, ToResidue,
       ToVersion, ToEnv

\* What is shown is this box, or what was shown before; what is read after the
\* comparisons does not count for met, nor what is read after that of the shunt for known.
LEMMA CheckShows ==
    ASSUME Typed, Check
    PROVE  /\ Like(shown', Data(product, box, bench)) \/ (shown' = shown /\ met' = met)
           /\ known' = known \/ shown'.options = product.options
           /\ at \notin ToCompare => met' = met
           /\ at \notin ToTrip \ {"shunt", "trip"} => known' = known
           /\ ~Compare => saved' = saved
           /\ (met => met') /\ (known => known')
<1> USE DEF settingVars, historyVars, ToIn, ToOut, ToNet, ToCompare, ToSpd, ToOpen, ToTrip
<1>0. met \in BOOLEAN /\ known \in BOOLEAN
      BY DEF Typed, RunTyped
<1>1. CASE Begin \/ Version \/ EnvErrRange
      BY <1>1, LooksDo
<1>2. CASE Wait
  <2>1. PICK r \in Reads(at) :
              /\ r.brings \in {"nothing", "serial", "shunt", "all"} /\ Show(r) /\ saved' = saved
              /\ met' = (met \/ (r.brings # "nothing" /\ at \in {"in", "unplug", "out"}))
              /\ known' = (known \/ (r.brings \in {"shunt", "all"} /\ at \notin {"trip", "reclose"}))
        BY <1>2, WaitRound
  <2>a. r.brings \in {"nothing", "serial", "shunt", "all"} /\ Show(r)
        BY <2>1
  <2>2. /\ r.brings = "nothing" => shown' = shown
        /\ r.brings # "nothing" => Like(shown', Data(product, box, bench))
        /\ r.brings \in {"shunt", "all"} => shown'.options = product.options
        BY <2>a, ShowDoes
  <2>4. r.brings = "nothing" => met' = met
        BY <1>0, <2>1
  <2>5. /\ at \notin ToCompare => met' = met
        /\ at \notin ToTrip \ {"shunt", "trip"} => known' = known
    <3>1. at \in Waits
          BY <1>2 DEF Wait
    <3> QED BY <1>0, <2>1, <3>1 DEF Waits
  <2>6. (met => met') /\ (known => known')
        BY <2>1
  <2>7. known' = known \/ shown'.options = product.options
        BY <1>0, <2>1, <2>2
  <2> QED BY <2>1, <2>2, <2>4, <2>5, <2>6, <2>7
<1>3. CASE Compare
      BY <1>0, <1>3, CompareDoes
<1>4. CASE ShuntRelease
      BY <1>4, ShuntDoes
<1>5. CASE VolErrRange
      BY <1>5, VolDoes
<1>6. CASE CurErrRange
      BY <1>6, CurDoes
<1> QED BY <1>1, <1>2, <1>3, <1>4, <1>5, <1>6 DEF Check

\* Energy is inductive.
LEMMA EnergyStep == Typed /\ Energy /\ [Next]_vars => Energy'
<1> SUFFICES ASSUME Typed, Energy, [Next]_vars PROVE Energy'
    OBVIOUS
<1> USE DEF settingVars, historyVars
<1>1. CASE Check
      BY <1>1, CheckIsEarly
         DEF Energy, ToIn, ToOut, ToNet, ToCompare, ToSpd, ToOpen, ToTrip, ToRanges, ToResidue,
             ToVersion, ToEnv, Waits
<1>2. CASE Branches
      BY <1>2, BranchesDo, DataFields DEF Energy
<1>3. CASE Connect
  <2>1. box'.energy = box.energy
        BY <1>3, ConnectDoes DEF Typed, ThingsTyped, Settings
  <2> QED BY <1>3, <2>1, ConnectDoes DEF Energy
<1>4. CASE EleClean
  <2>1. shown' = shown \/ shown'.energy = box'.energy
        BY <1>4, CleanDoes, DataFields DEF Like
  <2> QED BY <1>4, <2>1, CleanDoes DEF Energy
<1>5. CASE Cleaned
      BY <1>5, CleanedDoes DEF Energy
<1>6. CASE FilterOff \/ Restore \/ FilterOn
      BY <1>6, FilterDoes DEF Energy
<1>7. CASE Operator \/ UNCHANGED vars
      BY <1>7 DEF Operator, vars, Energy
<1> QED BY <1>1, <1>2, <1>3, <1>4, <1>5, <1>6, <1>7 DEF Next, Run, Check

\* It is an invariant.
LEMMA EnergyAlways == Spec => []Energy
<1>1. Init => Energy
      BY DEF Init, Energy
<1> QED BY <1>1, EnergyStep, TypedAlways, PTL DEF Spec

\* The tests count energy, and factorySet loses commands and reads: a box that passed has
\* none left all the same, since what was shown before does count it.
THEOREM NoEnergyLeft == Spec => []EnergyCleared
<1>1. Energy => EnergyCleared
      BY DEF Energy, EnergyCleared, Over
<1> QED BY <1>1, EnergyAlways, PTL

\* Filter is inductive.
LEMMA FilterStep == Typed /\ Filter /\ [Next]_vars => Filter'
<1> SUFFICES ASSUME Typed, Filter, [Next]_vars PROVE Filter'
    OBVIOUS
<1> USE DEF settingVars, historyVars
<1>0. /\ \A x \in Testing : x \notin ToEnv /\ x \notin ToCompare
      /\ ToCompare \subseteq ToEnv
      BY DEF Testing, ToIn, ToOut, ToNet, ToCompare, ToSpd, ToOpen, ToTrip, ToRanges, ToResidue,
             ToVersion, ToEnv
<1>1. CASE Check
  <2>1. /\ UNCHANGED <<product, box>> /\ box.filter = product.filter /\ at \in ToEnv
        /\ at' \in ToEnv \cup {"filterOff"}
        BY <1>1, CheckMoves, CheckIsEarly DEF Filter
  <2>2. met' => shown'.filter = product.filter
    <3>1. Data(product, box, bench).filter = box.filter
          BY DataFields
    <3> QED BY <1>1, <2>1, <3>1, CheckShows DEF Filter, Like
  <2>3. met' /\ at' \notin ToCompare => saved'.filter = product.filter
    <3>1. CASE Compare
      <4>1. saved'.filter = shown'.filter
            BY <3>1, CompareDoes DEF Typed, RunTyped
      <4> QED BY <2>2, <4>1
    <3>2. CASE ~Compare /\ at \in ToCompare
      <4>1. at # "compare"
        <5>1. Check /\ at = "compare" => Compare
              BY LooksDo, ShuntDoes, VolDoes, CurDoes DEF Check, Wait, Waits
        <5> QED BY <1>1, <3>2, <5>1
      <4>2. at' \in ToCompare
            BY <1>1, <3>2, <4>1, CheckMoves, WaitMoves DEF ToCompare, ToNet, ToOut, ToIn
      <4> QED BY <4>2
    <3>3. CASE at \notin ToCompare
      <4>1. ~Compare
            BY <3>3, CompareDoes DEF ToCompare
      <4> QED BY <1>1, <3>3, <4>1, CheckShows DEF Filter
    <3> QED BY <3>1, <3>2, <3>3
  <2>4. at' # "over"
        BY <1>0, <2>1 DEF Testing
  <2> QED BY <2>1, <2>2, <2>3, <2>4 DEF Filter
<1>2. CASE Branches
      BY <1>0, <1>2, BranchesDo DEF Filter, Testing
<1>3. CASE Connect
  <2>1. saved'.filter = saved.filter
        BY <1>3, ConnectDoes DEF Typed, RunTyped
  <2> QED BY <1>0, <1>3, <2>1, ConnectDoes DEF Filter, Testing
<1>4. CASE EleClean
      BY <1>0, <1>4, CleanDoes DEF Filter, Testing
<1>5. CASE Cleaned
      BY <1>0, <1>5, CleanedDoes DEF Filter, Testing
<1>6. CASE FilterOff \/ Restore \/ FilterOn
      BY <1>0, <1>6, FilterDoes DEF Filter, Testing
<1>7. CASE Operator \/ UNCHANGED vars
      BY <1>7 DEF Operator, vars, Filter
<1> QED BY <1>1, <1>2, <1>3, <1>4, <1>5, <1>6, <1>7 DEF Next, Run, Check

\* Protocol is inductive.
LEMMA ProtocolStep == Typed /\ Protocol /\ [Next]_vars => Protocol'
<1> SUFFICES ASSUME Typed, Protocol, [Next]_vars PROVE Protocol'
    OBVIOUS
<1> USE DEF settingVars, historyVars
<1>0. \A x \in Testing : x \notin ToEnv
      BY DEF Testing, ToIn, ToOut, ToNet, ToCompare, ToSpd, ToOpen, ToTrip, ToRanges, ToResidue,
             ToVersion, ToEnv
<1>1. CASE Check
      BY <1>0, <1>1, CheckMoves, CheckIsEarly DEF Protocol, Testing
<1>2. CASE Branches
      BY <1>0, <1>2, BranchesDo, DataFields DEF Protocol, Testing
<1>3. CASE Connect
  <2>1. saved'.tag = shown.workMode
        BY <1>3, ConnectDoes DEF Typed, RunTyped
  <2> QED BY <1>0, <1>3, <2>1, ConnectDoes DEF Protocol, Testing
<1>4. CASE EleClean
      BY <1>0, <1>4, CleanDoes DEF Protocol, Testing
<1>5. CASE Cleaned
  <2>1. product.kind \in {"start", "insert"}
        BY ProductTyped DEF Boxes
  <2> QED BY <1>0, <1>5, <2>1, CleanedDoes DEF Protocol, Testing
<1>6. CASE FilterOff \/ Restore \/ FilterOn
      BY <1>0, <1>6, FilterDoes DEF Protocol, Testing
<1>7. CASE Operator \/ UNCHANGED vars
      BY <1>7 DEF Operator, vars, Protocol
<1> QED BY <1>1, <1>2, <1>3, <1>4, <1>5, <1>6, <1>7 DEF Next, Run, Check

\* What is put back is what was there.
LEMMA FilterAlways == Spec => [](Filter /\ Protocol)
<1>1. Init => Filter /\ Protocol
  <2> SUFFICES ASSUME Init PROVE Filter /\ Protocol
      OBVIOUS
  <2>1. at \in {"begin", "compare"} /\ ~met /\ box.filter = product.filter /\ box.workMode = product.workMode
        BY DEF Init
  <2> QED BY <2>1 DEF Filter, Protocol
<1> QED BY <1>1, FilterStep, ProtocolStep, TypedAlways, PTL DEF Spec

\* A run that went smoothly, and read its box before the settings were compared, leaves
\* the filter and the protocol as it found them.
THEOREM SettingsPutBack == Spec => []SettingsKept
<1>1. Filter /\ Protocol => SettingsKept
      BY DEF Filter, Protocol, SettingsKept, Over
<1> QED BY <1>1, FilterAlways, PTL

-----------------------------------------------------------------------------
(* The bench.                                                              *)

\* The rest of a run leaves the bench alone, and a failure that was noted stays noted.
Late == Branches \/ Connect \/ EleClean \/ Cleaned \/ FilterOff \/ Restore \/ FilterOn

\* What comes after the checks leaves the bench alone, and a note stays.
LEMMA LateSteps ==
    ASSUME Typed, Late
    PROVE  /\ UNCHANGED <<product, bench, asked, met, known>> /\ noted \subseteq noted'
           /\ at \in Testing /\ at' \in Testing /\ (calm' => calm)
           /\ shown' = shown \/ Like(shown', Data(product, box', bench))
           /\ Cleaned \/ noted' = noted
<1> USE DEF historyVars, Testing
<1>1. CASE Branches
      BY <1>1, BranchesDo DEF Like
<1>2. CASE Connect
      BY <1>2, ConnectDoes
<1>3. CASE EleClean
      BY <1>3, CleanDoes
<1>4. CASE Cleaned
      BY <1>4, CleanedDoes
<1>5. CASE FilterOff \/ Restore \/ FilterOn
      BY <1>5, FilterDoes
<1> QED BY <1>1, <1>2, <1>3, <1>4, <1>5 DEF Late

\* What the operator is asked for, thing by thing.
LEMMA AskedFields ==
    ASSUME asked \in Positions, NEW next
    PROVE  /\ Asked(next).cable = (IF next \in {"in", "out"} THEN next
                                   ELSE IF next = "unplug" THEN "none" ELSE asked.cable)
           /\ Asked(next).net = (IF next = "net" THEN TRUE ELSE asked.net)
           /\ Asked(next).spd = (IF next = "spdOut" THEN FALSE
                                 ELSE IF next = "spdBack" THEN TRUE ELSE asked.spd)
           /\ Asked(next).breaker = (IF next = "open" THEN "open"
                                     ELSE IF next \in {"close", "reclose"} THEN "closed"
                                     ELSE asked.breaker)
BY DEF Positions, Asked

\* A check asks for what its next one needs.  Only the shunt release moves anything.
LEMMA CheckAsks ==
    ASSUME Typed, Check
    PROVE  /\ \/ asked' = Asked(at')
              \/ at' = at /\ asked' = asked
              \/ /\ ShuntRelease /\ at = "shunt" /\ at' = "trip"
                 /\ asked' = [asked EXCEPT !.breaker = bench'.breaker]
           /\ bench' = bench \/ (ShuntRelease /\ at' = "trip" /\ bench' = [bench EXCEPT !.breaker = "tripped"]
                                 /\ ~Is("release") /\ "shunt" \in product.options)
<1> USE DEF settingVars
<1>1. CASE Begin \/ Version \/ EnvErrRange
      BY <1>1, LooksDo DEF Asked
<1>2. CASE Wait
      BY <1>2, WaitRound
<1>3. CASE Compare
      BY <1>3, CompareDoes
<1>4. CASE ShuntRelease
      BY <1>4, ShuntDoes DEF Asked
<1>5. CASE VolErrRange
      BY <1>5, VolDoes DEF Asked
<1>6. CASE CurErrRange
      BY <1>6, CurDoes DEF Asked
<1> QED BY <1>1, <1>2, <1>3, <1>4, <1>5, <1>6 DEF Check

\* Place is inductive.
LEMMA PlaceStep == Typed /\ Place /\ [Next]_vars => Place'
<1> SUFFICES ASSUME Typed, Place, [Next]_vars PROVE Place'
    OBVIOUS
<1> USE DEF settingVars, historyVars
<1>0. /\ \A x \in Testing : x \notin ToCompare /\ x \notin ToOut /\ x \notin ToNet
                            /\ x \notin {"begin", "in", "unplug", "out", "spdIn", "spdOut", "spdBack", "open", "trip"}
      /\ asked \in Positions /\ bench \in Positions
      BY DEF Testing, ToIn, ToOut, ToNet, ToCompare, Typed, ThingsTyped
<1>1. CASE Check
  <2>1. product' = product
        BY <1>1, CheckMoves
  <2>2. \/ at = "begin" /\ at' = "in"
        \/ at' = at
        \/ at = "in" /\ at' = "unplug"
        \/ at = "unplug" /\ at' = "out"
        \/ at = "out" /\ at' = "net"
        \/ at = "net" /\ at' = "compare"
        \/ at = "compare" /\ at' \in {"ranges", "spdIn", "open", "shunt"}
        \/ at = "spdIn" /\ at' \in {"spdOut", "open", "shunt"}
        \/ at = "spdOut" /\ at' = "spdBack"
        \/ at = "spdBack" /\ at' \in {"open", "shunt"}
        \/ at = "open" /\ at' = "close"
        \/ at = "close" /\ at' = "shunt"
        \/ at = "shunt" /\ at' \in {"trip", "ranges"}
        \/ at = "trip" /\ at' = "reclose"
        \/ at = "reclose" /\ at' = "ranges"
        \/ at = "ranges" /\ at' = "residue"
        \/ at = "residue" /\ at' = "version"
        \/ at = "version" /\ at' = "env"
        \/ at = "env" /\ at' = "filterOff"
        BY <1>1, CheckMoves, WaitMoves DEF Contacts
  <2>3. CASE asked' = Asked(at')
    <3>1. bench'.cable = bench.cable
          BY <1>0, <1>1, CheckAsks DEF Positions
    <3>2. asked'.cable = (IF at' \in {"in", "out"} THEN at' ELSE IF at' = "unplug" THEN "none" ELSE asked.cable)
          BY <1>0, <2>3, AskedFields
    <3>3. asked'.net = (IF at' = "net" THEN TRUE ELSE asked.net)
          BY <1>0, <2>3, AskedFields
    <3>4. asked'.spd = (IF at' = "spdOut" THEN FALSE ELSE IF at' = "spdBack" THEN TRUE ELSE asked.spd)
          BY <1>0, <2>3, AskedFields
    <3>5. asked'.breaker = (IF at' = "open" THEN "open"
                            ELSE IF at' \in {"close", "reclose"} THEN "closed" ELSE asked.breaker)
          BY <1>0, <2>3, AskedFields
    <3> QED BY <2>1, <2>2, <3>1, <3>2, <3>3, <3>4, <3>5 DEF Place, ToIn, ToOut, ToNet, ToCompare
  <2>4. CASE at' = at /\ asked' = asked
    <3>1. bench'.cable = bench.cable
          BY <1>0, <1>1, CheckAsks DEF Positions
    <3> QED BY <2>1, <2>4, <3>1 DEF Place
  <2>5. CASE at = "shunt" /\ at' = "trip" /\ asked' = [asked EXCEPT !.breaker = bench'.breaker]
    <3>1. asked'.cable = asked.cable /\ asked'.net = asked.net /\ asked'.spd = asked.spd
          BY <1>0, <2>5 DEF Positions
    <3> QED BY <2>1, <2>5, <3>1 DEF Place, ToIn, ToOut, ToNet, ToCompare
  <2> QED BY <1>1, <2>3, <2>4, <2>5, CheckAsks
<1>2. CASE Late
      BY <1>0, <1>2, LateSteps DEF Place
<1>3. CASE Operator
  <2>1. UNCHANGED <<product, asked, at>> /\ bench' = asked
        BY <1>3 DEF Operator
  <2> QED BY <2>1 DEF Place
<1>4. CASE UNCHANGED vars
      BY <1>4 DEF vars, Place
<1> QED BY <1>1, <1>2, <1>3, <1>4 DEF Next, Run, Check, Late

\* What is read of a box says what Tells says.
LEMMA LikeTells ==
    ASSUME Typed, Tells, NEW x, NEW d, Like(d, Data(product, x, bench))
    PROVE  Telling(d) /\ OfThisBox(d) /\ (known => ShowsShunt(d))
<1> DEFINE e == Data(product, x, bench)
<1>1. /\ e.options = product.options /\ e.tem = product.temperatures
      /\ e.lps = (IF bench.spd \/ "alarm" \in product.broken THEN "works" ELSE "damaged")
      /\ e.sw = NetworkSw(IF "contact" \in product.broken THEN "closed" ELSE bench.breaker)
      /\ e.vol = (IF bench.breaker # "closed" THEN "zero" ELSE IF "vol" \in product.broken THEN "odd" ELSE "good")
      /\ e.cur = (IF "cur" \in product.broken THEN "odd" ELSE "zero")
      BY DataFields
<1>2. bench.breaker \in {"closed", "open", "tripped"}
      BY DEF Typed, ThingsTyped, Positions
<1>3. Like(d, e)
      OBVIOUS
<1> HIDE DEF e
<1>4. /\ e.sw = 2 => bench.breaker = "open" /\ "contact" \notin product.broken
      /\ e.sw = 3 => bench.breaker = "tripped" /\ "contact" \notin product.broken
      BY <1>1, <1>2 DEF NetworkSw
<1>5. d.sw \in {2, 3} => d.sw = e.sw
      BY <1>3 DEF Like
<1>6. Telling(d)
      BY <1>1, <1>3, <1>4, <1>5 DEF Telling, Like, Tells, Tripped
<1>7. OfThisBox(d)
      BY <1>1, <1>3 DEF OfThisBox, Like
<1>8. known => ShowsShunt(d)
      BY <1>1, <1>3 DEF ShowsShunt, Like, Tells
<1> QED BY <1>6, <1>7, <1>8

\* Tells is inductive.
LEMMA TellsStep == Typed /\ Tells /\ [Next]_vars => Tells'
<1> SUFFICES ASSUME Typed, Tells, [Next]_vars PROVE Tells'
    OBVIOUS
<1> USE DEF settingVars, historyVars
<1>0. asked \in Positions /\ bench \in Positions
      BY DEF Typed, ThingsTyped
<1>1. CASE Check
  <2>1. product' = product
        BY <1>1, CheckMoves
  <2>2. Telling(shown') /\ (met' => OfThisBox(shown')) /\ (known => ShowsShunt(shown'))
    <3>1. CASE Like(shown', Data(product, box, bench))
          BY <3>1, LikeTells
    <3>2. CASE shown' = shown /\ met' = met
          BY <3>2 DEF Tells
    <3> QED BY <1>1, <3>1, <3>2, CheckShows
  <2>4. known' => ShowsShunt(shown')
        BY <1>1, <2>2, CheckShows DEF ShowsShunt
  <2>3. Tripped'
    <3>1. bench'.breaker = bench.breaker \/ ("release" \notin product.broken /\ "shunt" \in product.options)
          BY <1>1, CheckAsks DEF Is
    <3>2. \/ asked'.breaker \in {asked.breaker, "open", "closed"}
          \/ asked'.breaker = bench'.breaker
      <4>1. CASE asked' = Asked(at')
        <5>1. Asked(at').breaker \in {asked.breaker, "open", "closed"}
              BY <1>0, AskedFields
        <5> QED BY <4>1, <5>1
      <4>2. CASE asked' = asked
            BY <4>2
      <4>3. CASE asked' = [asked EXCEPT !.breaker = bench'.breaker]
            BY <1>0, <4>3 DEF Positions
      <4> QED BY <1>1, <4>1, <4>2, <4>3, CheckAsks
    <3> QED BY <2>1, <3>1, <3>2 DEF Tells, Tripped
  <2> QED BY <2>1, <2>2, <2>3, <2>4 DEF Tells, Telling, OfThisBox, ShowsShunt
<1>2. CASE Late
  <2>1. /\ UNCHANGED <<product, bench, asked, met, known>>
        /\ shown' = shown \/ Like(shown', Data(product, box', bench))
        BY <1>2, LateSteps
  <2>2. Telling(shown') /\ (met => OfThisBox(shown')) /\ (known => ShowsShunt(shown'))
    <3>1. CASE Like(shown', Data(product, box', bench))
          BY <3>1, LikeTells
    <3>2. CASE shown' = shown
          BY <3>2 DEF Tells
    <3> QED BY <2>1, <3>1, <3>2
  <2> QED BY <2>1, <2>2 DEF Tells, Telling, OfThisBox, ShowsShunt, Tripped
<1>3. CASE Operator
      BY <1>3 DEF Operator, Tells, Telling, OfThisBox, ShowsShunt, Tripped
<1>4. CASE UNCHANGED vars
      BY <1>4 DEF vars, Tells, Telling, OfThisBox, ShowsShunt, Tripped
<1> QED BY <1>1, <1>2, <1>3, <1>4 DEF Next, Run, Check, Late

\* Breaker is inductive, next to Place and Tells.
LEMMA BreakerStep == Typed /\ Place /\ Place' /\ Tells /\ Tells' /\ Breaker /\ [Next]_vars => Breaker'
<1> SUFFICES ASSUME Typed, Place, Place', Tells, Tells', Breaker, [Next]_vars, noted' = {} PROVE Breaker'
    BY DEF Breaker
<1> USE DEF settingVars, historyVars
<1>0. /\ \A x \in Testing : x \notin ToRanges /\ x \notin {"open", "trip"}
      /\ {"residue", "version", "env"} \cap ToRanges = {}
      BY DEF Testing, ToIn, ToOut, ToNet, ToCompare, ToSpd, ToOpen, ToTrip, ToRanges
<1>a. ASSUME NEW x, NEW d, Like(d, Data(product, x, bench)) PROVE d.vol # "zero" => bench.breaker = "closed"
      BY <1>a, DataFields DEF Like
<1>1. CASE Check
  <2>1. noted = {}
    <3>1. noted \subseteq noted'
      <4>1. CASE Wait
            BY <4>1, WaitRound
      <4>2. CASE Compare
            BY <4>2, CompareDoes
      <4>3. CASE ShuntRelease
            BY <4>3, ShuntDoes
      <4>4. CASE Begin \/ VolErrRange \/ CurErrRange \/ Version \/ EnvErrRange
            BY <4>4, LooksDo, VolDoes, CurDoes
      <4> QED BY <1>1, <4>1, <4>2, <4>3, <4>4 DEF Check
    <3> QED BY <3>1
  <2>2. CASE at' \in {"open", "trip"}
        BY <2>2 DEF Breaker, ToRanges, ToTrip, ToOpen
  <2>3. CASE at' \notin {"open", "trip"}
    <3>1. bench' = bench
          BY <1>1, <2>3, CheckAsks
    <3>2. at \notin {"open", "trip"} => (shown.vol # "zero" => bench.breaker = "closed")
          BY <2>1 DEF Breaker
    <3>3. shown'.vol # "zero" => bench.breaker = "closed"
      <4>1. CASE at \notin {"open", "trip"}
            BY <1>1, <1>a, <3>2, <4>1, CheckShows
      <4>2. CASE at \in {"open", "trip"}
        <5>1. Wait /\ at' # at
              BY <1>1, <2>3, <4>2, CheckMoves DEF Waits
        <5>2. PICK r \in Reads(at) : \/ Sees(at, r.ok, shown')
                                     \/ at' = at
                                     \/ noted' = noted \cup ({at} \cap Noted)
              BY <5>1, WaitRound
        <5>3. at \in Noted
              BY <4>2 DEF Noted
        <5>4. Sees(at, r.ok, shown')
              BY <5>1, <5>2, <5>3
        <5>5. shown'.vol = "zero"
          <6>1. CASE at = "open"
                BY <5>4, <6>1 DEF Sees
          <6>2. CASE at = "trip"
            <7>1. shown'.sw = 3
                  BY <5>4, <6>2 DEF Sees
            <7> QED BY <7>1 DEF Tells, Telling
          <6> QED BY <4>2, <6>1, <6>2
        <5> QED BY <5>5
      <4> QED BY <4>1, <4>2
    <3>4. at' \notin ToRanges => bench.breaker = "closed"
      <4>1. CASE at \notin ToRanges
            BY <2>1, <4>1 DEF Breaker
      <4>2. CASE at \in ToRanges /\ at' \notin ToRanges
        <5>1. VolErrRange
          <6>1. Check /\ at = "ranges" => VolErrRange
                BY LooksDo, CompareDoes, ShuntDoes, CurDoes DEF Check, Wait, Waits
          <6>2. at = "ranges"
                BY <1>1, <4>2, CheckMoves, WaitMoves DEF Contacts, ToIn, ToOut, ToNet, ToCompare, ToSpd, ToOpen,
                      ToTrip, ToRanges
          <6> QED BY <1>1, <6>1, <6>2
        <5>2. shown.vol = "good" /\ at = "ranges"
              BY <5>1, VolDoes
        <5> QED BY <3>2, <5>2
      <4> QED BY <4>1, <4>2
    <3> QED BY <2>3, <3>1, <3>3, <3>4 DEF Breaker
  <2> QED BY <2>2, <2>3
<1>2. CASE Late
  <2>1. /\ bench' = bench /\ noted = {} /\ at \in Testing /\ at' \in Testing
        /\ shown' = shown \/ Like(shown', Data(product, box', bench))
        BY <1>2, LateSteps
  <2>2. shown' = shown \/ (shown'.vol # "zero" => bench.breaker = "closed")
        BY <1>a, <2>1
  <2> QED BY <1>0, <2>1, <2>2 DEF Breaker
<1>3. CASE Operator
  <2>1. UNCHANGED <<shown, at, noted>> /\ bench' = asked
        BY <1>3 DEF Operator
  <2>2. {"open", "trip"} \subseteq ToRanges
        BY DEF ToTrip, ToOpen, ToRanges
  <2> QED BY <2>1, <2>2 DEF Breaker, Place
<1>4. CASE UNCHANGED vars
      BY <1>4 DEF vars, Breaker
<1> QED BY <1>1, <1>2, <1>3, <1>4 DEF Next, Run, Check, Late

\* The three hold at the start.
LEMMA BenchInit == Init => Place /\ Tells /\ Breaker
<1> SUFFICES ASSUME Init PROVE Place /\ Tells /\ Breaker
    OBVIOUS
<1>1. product \in Boxes /\ product.kind \in {"start", "insert"}
      BY ProductsAssumption DEF Init, IsProduct, Boxes
<1>2. /\ at = (IF product.kind = "start" THEN "begin" ELSE "compare") /\ asked = bench /\ ~met /\ ~known
      /\ shown = Leftover(product)
      BY DEF Init
<1>3. CASE product.kind = "start"
  <2>1. PICK n \in BOOLEAN : bench = [InUse EXCEPT !.cable = "none", !.net = n]
        BY <1>3 DEF Init
  <2>2. bench.cable = "none" /\ bench.spd /\ bench.breaker = "closed"
        BY <2>1 DEF InUse
  <2>3. Place
        BY <1>2, <1>3, <2>2 DEF Place, ToIn, ToOut, ToNet, ToCompare
  <2>4. Tells /\ Breaker
        BY <1>1, <1>2, <2>2, LeftoverTyped DEF Tells, Telling, Tripped, Breaker
  <2> QED BY <2>3, <2>4
<1>4. CASE product.kind = "insert"
  <2>1. bench = InUse
        BY <1>4 DEF Init
  <2>2. bench.cable = "in" /\ bench.net /\ bench.spd /\ bench.breaker = "closed"
        BY <2>1 DEF InUse
  <2>3. Place
        BY <1>2, <1>4, <2>2 DEF Place, ToIn, ToOut, ToNet, ToCompare
  <2>4. Tells /\ Breaker
        BY <1>1, <1>2, <2>2, LeftoverTyped DEF Tells, Telling, Tripped, Breaker
  <2> QED BY <2>3, <2>4
<1> QED BY <1>1, <1>3, <1>4

\* Where the bench stands, and what the readings tell of it.
Bench == Typed /\ Place /\ Tells /\ Breaker

\* They are invariants.
LEMMA BenchAlways == Spec => []Bench
<1>1. Typed /\ Typed' /\ Place /\ Tells /\ Breaker /\ [Next]_vars => Bench'
      BY PlaceStep, TellsStep, BreakerStep DEF Bench
<1> QED BY <1>1, BenchInit, TypedAlways, PTL DEF Spec, Bench

\* A box in which no failure was noted leaves with its breaker closed, though the waits
\* for closing it again are not noted when they run out.
THEOREM BreakerClosedAgain == Spec => []BreakerBack
<1>1. Bench => BreakerBack
  <2>1. "over" \notin ToRanges
        BY DEF ToIn, ToOut, ToNet, ToCompare, ToSpd, ToOpen, ToTrip, ToRanges
  <2> QED BY <2>1 DEF Bench, Breaker, BreakerBack, Over
<1> QED BY <1>1, BenchAlways, PTL

-----------------------------------------------------------------------------
(* Faults that are looked for, and sound boxes.                            *)

\* The highest of four temperatures is one of them.
LEMMA HighestIs ==
    ASSUME NEW t \in [1..4 -> 0..99]
    PROVE  /\ Max(Range(t)) \in 0..99
           /\ \A i \in 1..4 : t[i] <= Max(Range(t))
           /\ \E i \in 1..4 : t[i] = Max(Range(t))
<1>0. Range(t) = {t[i] : i \in 1..4}
      BY DEF Range
<1>1. PICK h \in 1..4 : \A i \in 1..4 : t[i] <= t[h]
  <2>1. \A i \in 1..4 : t[i] \in Int /\ i \in {1, 2, 3, 4}
        OBVIOUS
  <2>2. PICK a \in {1, 2} : t[1] <= t[a] /\ t[2] <= t[a]
        BY <2>1
  <2>3. PICK b \in {3, 4} : t[3] <= t[b] /\ t[4] <= t[b]
        BY <2>1
  <2>4. PICK c \in {a, b} : t[a] <= t[c] /\ t[b] <= t[c]
        BY <2>1
  <2>5. c \in 1..4
        OBVIOUS
  <2>6. \A i \in {1, 2, 3, 4} : t[i] <= t[c]
        BY <2>1, <2>2, <2>3, <2>4
  <2> QED BY <2>1, <2>5, <2>6
<1>2. \E x \in Range(t) : \A y \in Range(t) : x >= y
      BY <1>0, <1>1
<1>3. Max(Range(t)) \in Range(t) /\ \A y \in Range(t) : Max(Range(t)) >= y
      BY <1>2 DEF Max
<1> QED BY <1>0, <1>3

\* One of the four is the lowest.
LEMMA LowestIs ==
    ASSUME NEW t \in [1..4 -> 0..99]
    PROVE  \E l \in 1..4 : \A i \in 1..4 : t[l] <= t[i]
<1>1. \A i \in 1..4 : t[i] \in Int /\ i \in {1, 2, 3, 4}
      OBVIOUS
<1>2. PICK a \in {1, 2} : t[a] <= t[1] /\ t[a] <= t[2]
      BY <1>1
<1>3. PICK b \in {3, 4} : t[b] <= t[3] /\ t[b] <= t[4]
      BY <1>1
<1>4. PICK c \in {a, b} : t[c] <= t[a] /\ t[c] <= t[b]
      BY <1>1
<1>5. c \in 1..4
      OBVIOUS
<1>6. \A i \in {1, 2, 3, 4} : t[c] <= t[i]
      BY <1>1, <1>2, <1>3, <1>4
<1> QED BY <1>1, <1>5, <1>6

\* The average, without the highest, of four within five of each other is among them.
LEMMA AverageOf ==
    ASSUME NEW t, t[1] \in 0..99, t[2] \in 0..99, t[3] \in 0..99, t[4] \in 0..99,
           NEW m, m = Max(Range(t)), m \in {t[1], t[2], t[3], t[4]}
    PROVE  /\ Average4(t) \in Int
           /\ \A lo \in 0..99 : {t[1], t[2], t[3], t[4]} \subseteq lo .. lo + 5 => Average4(t) \in lo .. lo + 5
<1> DEFINE a == t[1]
           b == t[2]
           c == t[3]
           d == t[4]
<1>0. a \in 0..99 /\ b \in 0..99 /\ c \in 0..99 /\ d \in 0..99 /\ m \in {a, b, c, d}
      OBVIOUS
<1>5. Total(t) = a + b + c + d
      BY DEF Total
<1> SUFFICES /\ Average4(t) \in Int
             /\ \A lo \in 0..99 : {a, b, c, d} \subseteq lo .. lo + 5 => Average4(t) \in lo .. lo + 5
    OBVIOUS
<1> HIDE DEF a, b, c, d
<1>1. PICK s \in Int : s = a + b + c + d - m
      BY <1>0
<1>2. ASSUME NEW lo \in 0..99, {a, b, c, d} \subseteq lo .. lo + 5
      PROVE  s \in 3 * lo .. 3 * lo + 15
  <2>1. a \in lo .. lo + 5 /\ b \in lo .. lo + 5 /\ c \in lo .. lo + 5 /\ d \in lo .. lo + 5
        BY <1>2
  <2> QED BY <1>0, <1>1, <2>1
<1>3. s \div 3 \in Int
      OBVIOUS
<1>4. ASSUME NEW lo \in 0..99, s \in 3 * lo .. 3 * lo + 15
      PROVE  s \div 3 \in lo .. lo + 5
      BY <1>4
<1>6. Total(t) - m = s
      BY <1>0, <1>1, <1>5
<1>7. Average4(t) = s \div 3
      BY <1>6 DEF Average4
<1> QED BY <1>2, <1>3, <1>4, <1>7

\* The same, for the function that mBusData holds.
LEMMA AverageIs ==
    ASSUME NEW t \in [1..4 -> 0..99]
    PROVE  /\ Average4(t) \in Int
           /\ \A lo \in 0..99 : (\A i \in 1..4 : t[i] \in lo .. lo + 5) => Average4(t) \in lo .. lo + 5
<1>1. PICK m \in 0..99 : m = Max(Range(t)) /\ \E h \in 1..4 : t[h] = m
      BY HighestIs
<1>2. t[1] \in 0..99 /\ t[2] \in 0..99 /\ t[3] \in 0..99 /\ t[4] \in 0..99
      OBVIOUS
<1>3. m \in {t[1], t[2], t[3], t[4]}
      BY <1>1
<1>4. /\ Average4(t) \in Int
      /\ \A lo \in 0..99 : {t[1], t[2], t[3], t[4]} \subseteq lo .. lo + 5 => Average4(t) \in lo .. lo + 5
      BY <1>1, <1>2, <1>3, AverageOf, Zenon
<1>5. ASSUME NEW lo \in 0..99, \A i \in 1..4 : t[i] \in lo .. lo + 5
      PROVE  {t[1], t[2], t[3], t[4]} \subseteq lo .. lo + 5
      BY <1>5
<1> QED BY <1>4, <1>5

\* Temperatures that all pass lie within ten of each other, and such as lie within five
\* of each other all pass, unless one is missing.
LEMMA TemperaturesPass ==
    ASSUME NEW t \in [1..4 -> 0..99]
    PROVE  /\ (\A i \in 1..4 : CheckErrRange(Average4(t), t[i], 5)) => \A i, j \in 1..4 : t[i] - t[j] <= 10
           /\ Even(t) => \A i \in 1..4 : CheckErrRange(Average4(t), t[i], 5)
<1>0. Average4(t) \in Int /\ \A i \in 1..4 : t[i] \in 0..99
      BY AverageIs
<1>1. ASSUME \A i \in 1..4 : CheckErrRange(Average4(t), t[i], 5), NEW i \in 1..4, NEW j \in 1..4
      PROVE  t[i] - t[j] <= 10
  <2>1. t[i] \in Average4(t) - 5 .. Average4(t) + 5 /\ t[j] \in Average4(t) - 5 .. Average4(t) + 5
        BY <1>1 DEF CheckErrRange
  <2> QED BY <1>0, <2>1
<1>2. ASSUME Even(t), NEW i \in 1..4
      PROVE  CheckErrRange(Average4(t), t[i], 5)
  <2>1. PICK l \in 1..4 : \A j \in 1..4 : t[l] <= t[j]
        BY LowestIs
  <2>2. ASSUME NEW j \in 1..4 PROVE t[j] \in t[l] .. t[l] + 5 /\ t[j] # 0
    <3>1. t[j] # 0 /\ t[j] - t[l] <= 5
          BY <1>2 DEF Even
    <3>2. t[j] \in 0..99 /\ t[l] \in 0..99 /\ t[l] <= t[j]
          BY <2>1
    <3> QED BY <3>1, <3>2
  <2>3. Average4(t) \in t[l] .. t[l] + 5
        BY <1>0, <2>2, AverageIs
  <2>4. t[i] \in Average4(t) - 5 .. Average4(t) + 5
        BY <1>0, <2>2, <2>3
  <2> QED BY <2>2, <2>4 DEF CheckErrRange
<1> QED BY <1>1, <1>2

\* Options that do not differ are had exactly as expected.
LEMMA DifferEmpty ==
    ASSUME NEW options, NEW data, Differ(options, data) = {}
    PROVE  \A o \in options : o \in data.options <=> o \in product.expected
<1> SUFFICES ASSUME NEW o \in options PROVE o \in data.options <=> o \in product.expected
    OBVIOUS
<1>1. o \notin Differ(options, data)
      OBVIOUS
<1> QED BY <1>1 DEF Differ

\* A check never takes back what was noted.
LEMMA CheckNotes ==
    ASSUME Typed, Check
    PROVE  noted \subseteq noted'
<1>1. CASE Wait
      BY <1>1, WaitRound
<1>2. CASE Compare
      BY <1>2, CompareDoes
<1>3. CASE ShuntRelease
      BY <1>3, ShuntDoes
<1>4. CASE Begin \/ VolErrRange \/ CurErrRange \/ Version \/ EnvErrRange
      BY <1>4, LooksDo, VolDoes, CurDoes
<1> QED BY <1>1, <1>2, <1>3, <1>4 DEF Check

\* What a check that notes no failure finds out about a box when it is left.
Finds ==
    /\ noted = {} /\ product' = product
    /\ at \notin ToCompare => met' = met
    /\ at \notin ToTrip \ {"shunt", "trip"} => known' = known
    /\ \/ at' = at /\ at \in Waits
       \/ at = "begin" /\ at' = "in"
       \/ at = "in" /\ at' = "unplug" /\ ~Is("in")
       \/ at = "unplug" /\ at' = "out"
       \/ at = "out" /\ at' = "net" /\ (calm' => ~Is("out"))
       \/ at = "net" /\ at' = "compare" /\ ~Is("net")
       \/ /\ at = "compare"
          /\ \/ at' = "ranges" /\ product.kind = "insert"
             \/ at' = "spdIn" /\ "spd" \in product.expected
             \/ at' = Contacts /\ "spd" \notin product.expected
          /\ met' => /\ \A o \in {"buzzer", "spd"} : o \in product.options <=> o \in product.expected
                     /\ product.filter >= 5
       \/ at = "spdIn" /\ at' = "spdOut"
       \/ at = "spdOut" /\ at' = "spdBack" /\ ~Is("alarm")
       \/ at = "spdBack" /\ at' = Contacts
       \/ at = "open" /\ at' = "close" /\ ~Is("contact")
       \/ at = "close" /\ at' = "shunt"
       \/ /\ at = "shunt"
          /\ \/ at' = "trip"
             \/ at' = "ranges" /\ "shunt" \notin product.expected
          /\ known => ("shunt" \in product.options <=> "shunt" \in product.expected)
       \/ at = "trip" /\ at' = "reclose" /\ ~Is("contact") /\ ~Is("release") /\ "shunt" \in product.options
       \/ at = "reclose" /\ at' = "ranges"
       \/ at = "ranges" /\ at' = "residue" /\ (met' => ~Is("vol"))
       \/ at = "residue" /\ at' = "version" /\ (met' => ~Is("cur"))
       \/ /\ at = "version" /\ at' = "env"
          /\ met' => ("version" \in product.options <=> "version" \in product.expected)
       \/ /\ at = "env" /\ at' = "filterOff"
          /\ met' => \A i, j \in 1..4 : product.temperatures[i] - product.temperatures[j] <= 10

\* And that is what every check does that notes none.
LEMMA CheckFinds ==
    ASSUME Typed, Place, Tells, Tells', Filter', Check, noted' = {}
    PROVE  Finds
<1> USE DEF settingVars, historyVars, Finds
<1>0. /\ product' = product /\ noted = {} /\ Telling(shown') /\ Telling(shown)
      /\ met' => OfThisBox(shown')
      /\ met => OfThisBox(shown)
      BY CheckMoves, CheckNotes DEF Tells, Telling, OfThisBox
<1>a. /\ at \notin ToCompare => met' = met
      /\ at \notin ToTrip \ {"shunt", "trip"} => known' = known
      BY CheckShows
<1>1. CASE Begin
      BY <1>0, <1>1, LooksDo DEF Begin, ToCompare, ToNet, ToOut, ToIn
<1>2. CASE Version
  <2>1. at = "version" /\ at' = "env" /\ Differ({"version"}, shown) = {} /\ met' = met
        BY <1>2, LooksDo DEF Version
  <2>2. "version" \in shown.options <=> "version" \in product.expected
        BY <2>1, DifferEmpty
  <2> QED BY <1>0, <1>a, <2>1, <2>2 DEF OfThisBox, Options
<1>3. CASE EnvErrRange
  <2>1. at = "env" /\ at' = "filterOff" /\ met' = met
        BY <1>3, LooksDo DEF EnvErrRange
  <2>2. \A i \in 1..4 : CheckErrRange(Average4(shown.tem), shown.tem[i], 5)
        BY <1>3 DEF EnvErrRange
  <2>3. shown.tem \in [1..4 -> 0..99]
        BY DEF Typed, RunTyped, Readings
  <2>4. \A i, j \in 1..4 : shown.tem[i] - shown.tem[j] <= 10
        BY <2>2, <2>3, TemperaturesPass
  <2> QED BY <1>0, <1>a, <2>1, <2>4 DEF OfThisBox
<1>4. CASE Compare
  <2>1. Differ({"buzzer", "spd"}, shown') = {} /\ shown'.filter >= 5 /\ at = "compare"
        BY <1>4, CompareDoes
  <2>2. \A o \in {"buzzer", "spd"} : o \in shown'.options <=> o \in product.expected
        BY <2>1, DifferEmpty
  <2>3. saved'.filter = shown'.filter
        BY <1>4, CompareDoes DEF Typed, RunTyped
  <2>4. /\ at' = (IF product.kind = "insert" THEN "ranges"
                  ELSE IF "spd" \in shown'.options \cap product.expected THEN "spdIn" ELSE Contacts)
        /\ at' \notin ToCompare
        BY <1>4, CompareDoes DEF Contacts, ToCompare, ToNet, ToOut, ToIn
  <2>5. met' => product.filter >= 5
        BY <1>0, <2>1, <2>3, <2>4 DEF Filter
  <2>7. met' => \A o \in {"buzzer", "spd"} : o \in product.options <=> o \in product.expected
        BY <1>0, <2>2 DEF OfThisBox, Options
  <2>8. \/ at' = "ranges" /\ product.kind = "insert"
        \/ at' = "spdIn" /\ "spd" \in product.expected
        \/ at' = Contacts /\ "spd" \notin product.expected
        BY <2>2, <2>4
  <2> QED BY <1>0, <1>a, <2>1, <2>5, <2>7, <2>8
<1>5. CASE ShuntRelease
  <2>1. Differ({"shunt"}, shown) = {} /\ at = "shunt" /\ met' = met
        BY <1>5, ShuntDoes
  <2>2. "shunt" \in shown.options <=> "shunt" \in product.expected
        BY <2>1, DifferEmpty
  <2>3. \/ at' = "trip"
        \/ at' = "ranges" /\ "shunt" \notin shown.options \cap product.expected
        BY <1>5, ShuntDoes
  <2>4. known => ("shunt" \in product.options <=> "shunt" \in product.expected)
        BY <2>2 DEF Tells, ShowsShunt
  <2> QED BY <1>0, <1>a, <2>1, <2>2, <2>3, <2>4
<1>6. CASE VolErrRange
  <2>1. at = "ranges" /\ at' = "residue" /\ shown.vol = "good" /\ met' = met
        BY <1>6, VolDoes
  <2> QED BY <1>0, <1>a, <2>1 DEF OfThisBox, Is
<1>7. CASE CurErrRange
  <2>1. at = "residue" /\ at' = "version" /\ shown.cur = "zero" /\ met' = met
        BY <1>7, CurDoes
  <2> QED BY <1>0, <1>a, <2>1 DEF OfThisBox, Is
<1>8. CASE Wait
  <2> USE <1>8
  <2>1. PICK r \in Reads(at) :
              /\ Smooth(r, Best(at))
              /\ \/ Sees(at, r.ok, shown') /\ at' = After(at, TRUE)
                 \/ at' = at
                 \/ noted' = noted \cup ({at} \cap Noted) /\ at' = After(at, FALSE)
        BY WaitRound
  <2>2. at \in Waits
        BY DEF Wait
  <2>3. CASE at' = at
        BY <1>0, <1>a, <2>2, <2>3
  <2>4. CASE noted' = noted \cup ({at} \cap Noted) /\ at' = After(at, FALSE)
    <3>1. at \in {"unplug", "spdBack", "close", "reclose"}
          BY <2>2, <2>4 DEF Waits, Noted
    <3> QED BY <1>0, <1>a, <2>4, <3>1 DEF After
  <2>5. CASE Sees(at, r.ok, shown') /\ at' = After(at, TRUE)
    <3>1. CASE at = "in"
      <4>1. r \in ReadPduData /\ r.ok
            BY <2>5, <3>1 DEF Reads, Sees
      <4>2. Serial /\ bench.cable = "in"
            BY <3>1, <4>1, ReadNeeds DEF Serial, Place
      <4> QED BY <1>0, <1>a, <2>5, <3>1, <4>2 DEF After, Serial
    <3>2. CASE at = "out"
      <4>1. r \in ReadPduData /\ r.ok
            BY <2>5, <3>2 DEF Reads, Sees
      <4>2. bench.cable # "none" /\ ~Is(bench.cable)
            BY <4>1, ReadNeeds DEF Serial
      <4>a. calm' => bench = asked
            BY <2>1 DEF Smooth
      <4>3. calm' => bench.cable = "out"
            BY <3>2, <4>a DEF Place
      <4> QED BY <1>0, <1>a, <2>5, <3>2, <4>2, <4>3 DEF After
    <3>3. CASE at = "net"
      <4>1. r \in CheckNet /\ r.ok
            BY <2>5, <3>3 DEF Reads, Sees
      <4>2. Network
            BY <4>1, ReadNeeds
      <4> QED BY <1>0, <1>a, <2>5, <3>3, <4>2 DEF After, Network
    <3>4. CASE at = "spdOut"
          BY <1>0, <1>a, <2>5, <3>4 DEF After, Sees, Telling, Is
    <3>5. CASE at = "open"
          BY <1>0, <1>a, <2>5, <3>5 DEF After, Sees, Telling, Is
    <3>6. CASE at = "trip"
          BY <1>0, <1>a, <2>5, <3>6 DEF After, Sees, Telling, Is
    <3>7. CASE at \in {"unplug", "spdIn", "spdBack", "close", "reclose"}
          BY <1>0, <1>a, <2>5, <3>7 DEF After
    <3> QED BY <2>2, <3>1, <3>2, <3>3, <3>4, <3>5, <3>6, <3>7 DEF Waits
  <2> QED BY <2>1, <2>3, <2>4, <2>5
<1> QED BY <1>1, <1>2, <1>3, <1>4, <1>5, <1>6, <1>7, <1>8 DEF Check

\* Nor does a run that did not go smoothly become one that did.
LEMMA CheckCalm ==
    ASSUME Typed, Check
    PROVE  calm' => calm
<1> USE DEF historyVars
<1>1. CASE Wait
  <2>1. \E r \in Reads(at) : Smooth(r, Best(at))
        BY <1>1, WaitRound
  <2> QED BY <2>1 DEF Smooth
<1>2. CASE Compare
      BY <1>2, CompareDoes
<1>3. CASE ShuntRelease
      BY <1>3, ShuntDoes
<1>4. CASE Begin \/ VolErrRange \/ CurErrRange \/ Version \/ EnvErrRange
      BY <1>4, LooksDo, VolDoes, CurDoes
<1> QED BY <1>1, <1>2, <1>3, <1>4 DEF Check

\* Innocent is inductive, together with the invariants before.
LEMMA InnocentStep == Bench /\ Bench' /\ Filter' /\ Innocent /\ [Next]_vars => Innocent'
<1> SUFFICES ASSUME Bench, Bench', Filter', Innocent, [Next]_vars, noted' = {} PROVE Innocent'
    BY DEF Innocent
<1> USE DEF settingVars, historyVars
<1>0. /\ \A x \in Testing :
            /\ x \notin ToIn /\ x \notin ToOut /\ x \notin ToNet /\ x \notin ToCompare /\ x \notin ToSpd
            /\ x \notin ToOpen /\ x \notin ToTrip /\ x \notin ToRanges /\ x \notin ToResidue
            /\ x \notin ToVersion /\ x \notin ToEnv /\ x # "spdIn"
      /\ Typed /\ Place /\ Tells /\ Tells'
      BY DEF Testing, ToIn, ToOut, ToNet, ToCompare, ToSpd, ToOpen, ToTrip, ToRanges, ToResidue,
             ToVersion, ToEnv, Bench
<1>1. CASE Check
  <2>0. Finds
        BY <1>0, <1>1, CheckFinds
  <2>1. /\ noted = {} /\ product' = product /\ (calm' => calm)
        /\ at \notin ToCompare => met' = met
        /\ at \notin ToTrip \ {"shunt", "trip"} => known' = known
        /\ product.kind = "insert" => product.broken \subseteq {"vol", "cur"}
                                      /\ product.options \cup product.expected \subseteq {"buzzer", "version"}
        BY <1>0, <1>1, <2>0, CheckCalm, ProductsAssumption DEF Finds, IsProduct, Typed, ThingsTyped
  <2> USE DEF Finds, Innocent, Cleared, Same, Is, Contacts, Waits, ToIn, ToOut, ToNet, ToCompare, ToSpd, ToOpen,
              ToTrip, ToRanges, ToResidue, ToVersion, ToEnv
  <2>2. Cleared(ToIn, {"in"})' /\ Cleared(ToNet, {"net"})' /\ (calm' => Cleared(ToOut, {"out"})')
        BY <1>0, <2>0, <2>1
  <2>3. "spd" \in product.expected => Cleared(ToSpd, {"alarm"})'
        BY <1>0, <2>0, <2>1
  <2>4. at' = "spdIn" => "spd" \in product.expected
        BY <1>0, <2>0, <2>1
  <2>5. product.ip_break => Cleared(ToOpen, {"contact"})'
        BY <1>0, <2>0, <2>1
  <2>6. "shunt" \in product.expected => Cleared(ToTrip, {"contact", "release"})'
        BY <1>0, <2>0, <2>1
  <2>7. met' => Cleared(ToRanges, {"vol"})' /\ Cleared(ToResidue, {"cur"})'
        BY <1>0, <2>0, <2>1, ZenonT(40)
  <2>8. Same(ToCompare, {"buzzer", "spd"})' /\ Same(ToVersion, {"version"})'
        BY <1>0, <2>0, <2>1
  <2>11. known' /\ at' \notin ToTrip \ {"trip"} => ("shunt" \in product.options <=> "shunt" \in product.expected)
        BY <1>0, <2>0, <2>1
  <2>12. "shunt" \in product.expected /\ at' \notin ToTrip => "shunt" \in product.options
        BY <1>0, <2>0, <2>1
  <2>9. at' \notin ToCompare /\ met' => product.filter >= 5
        BY <1>0, <2>0, <2>1
  <2>10. at' \notin ToEnv /\ met' =>
            \A i, j \in 1..4 : product.temperatures[i] - product.temperatures[j] <= 10
        BY <1>0, <2>0, <2>1
  <2> QED BY <2>1, <2>2, <2>3, <2>4, <2>5, <2>6, <2>7, <2>8, <2>9, <2>10, <2>11, <2>12
<1>2. CASE Late
  <2>1. /\ UNCHANGED <<product, met, known>> /\ noted = {} /\ at \in Testing /\ at' \in Testing /\ (calm' => calm)
        BY <1>0, <1>2, LateSteps
  <2> QED BY <1>0, <2>1 DEF Innocent, Cleared, Same
<1>3. CASE Operator
      BY <1>3 DEF Operator, Innocent, Cleared, Same
<1>4. CASE UNCHANGED vars
      BY <1>4 DEF vars, Innocent, Cleared, Same
<1> QED BY <1>1, <1>2, <1>3, <1>4 DEF Next, Run, Check, Late

\* A run that notes no failure had a box in front of it with none of the faults that it
\* looks for and the settings expected, whatever the operator was late with and whichever
\* reads failed, provided one of them brought data of this box; its shunt setting counts
\* when the network brought it, or when a shunt release is expected, which has to trip.
THEOREM FaultsFound == Spec => []FaultIsNoted
<1>1. Init => Innocent
  <2> SUFFICES ASSUME Init PROVE Innocent
      OBVIOUS
  <2>1. /\ ~met /\ ~known /\ at = (IF product.kind = "start" THEN "begin" ELSE "compare")
        /\ product.kind \in {"start", "insert"}
        /\ product.kind = "insert" => product.broken \subseteq {"vol", "cur"} /\ "shunt" \notin product.expected
        BY ProductsAssumption DEF Init, IsProduct
  <2> QED BY <2>1 DEF Innocent, Cleared, Same, ToIn, ToOut, ToNet, ToCompare, ToSpd, ToOpen, ToTrip
<1>2. Typed /\ Innocent => FaultIsNoted
  <2> SUFFICES ASSUME Typed, Innocent, Over, noted = {}, met PROVE FaultIsNoted
      BY DEF FaultIsNoted
  <2>1. at \notin ToEnv
        BY DEF Over, ToIn, ToOut, ToNet, ToCompare, ToSpd, ToOpen, ToTrip, ToRanges, ToResidue,
               ToVersion, ToEnv
  <2> USE DEF ToIn, ToOut, ToNet, ToCompare, ToSpd, ToOpen, ToTrip, ToRanges, ToResidue, ToVersion, ToEnv
  <2>2. product.broken \subseteq Faults /\ product.options \subseteq Options /\ product.expected \subseteq Options
        BY ProductTyped DEF Boxes
  <2>3. Found = {}
    <3>1. /\ "in" \notin product.broken /\ "net" \notin product.broken
          /\ "vol" \notin product.broken /\ "cur" \notin product.broken
          /\ calm => "out" \notin product.broken
          /\ "spd" \in product.expected => "alarm" \notin product.broken
          /\ product.ip_break \/ "shunt" \in product.expected => "contact" \notin product.broken
          /\ "shunt" \in product.expected => "release" \notin product.broken
          BY <2>1 DEF Innocent, Cleared
    <3> QED BY <2>2, <3>1 DEF Found, Faults
  <2>4. product.options \cap Told = product.expected \cap Told
    <3>1. \A o \in Options \ {"shunt"} : o \in product.options <=> o \in product.expected
          BY <2>1 DEF Innocent, Same, Options
    <3>2. known \/ "shunt" \in product.expected => ("shunt" \in product.options <=> "shunt" \in product.expected)
          BY <2>1 DEF Innocent
    <3> QED BY <2>2, <3>1, <3>2 DEF Told
  <2>5. /\ product.filter >= 5
        /\ \A i, j \in 1..4 : product.temperatures[i] - product.temperatures[j] <= 10
        BY <2>1 DEF Innocent
  <2> QED BY <2>3, <2>4, <2>5 DEF FaultIsNoted
<1>3. Bench => Typed
      BY DEF Bench
<1> QED BY <1>1, <1>2, <1>3, InnocentStep, FilterAlways, BenchAlways, PTL DEF Spec

\* A sound box can be read wherever its cable was asked to be.
LEMMA SoundReads ==
    ASSUME Typed, Place, SoundBox, bench = asked
    PROVE  /\ at \in {"in", "out"} => Serial
           /\ at \notin ToOut => Network /\ Both
<1>1. ~Is("in") /\ ~Is("out") /\ ~Is("net") /\ ~Is("none")
      BY DEF SoundBox, Is
<1>2. CASE at \in {"in", "out"}
  <2>1. bench.cable = at
        BY <1>2 DEF Place
  <2> QED BY <1>1, <1>2, <2>1 DEF Serial, ToOut, ToIn
<1>3. CASE at \notin ToOut
  <2>1. bench.cable \in {"in", "out"} /\ bench.net
        BY <1>3 DEF Place
  <2> QED BY <1>1, <1>3, <2>1 DEF Serial, Network, Both, ToOut, ToIn
<1>4. CASE at \in ToOut /\ at \notin {"in", "out"}
      BY <1>4
<1> QED BY <1>2, <1>3, <1>4

\* Of a sound box every wait sees what it waits for, when the operator has done what
\* he was asked.
LEMMA SoundIsSeen ==
    ASSUME Typed, Place, Blameless, SoundBox, calm, Wait, calm'
    PROVE  /\ noted' = noted
           /\ at \notin ToOut /\ at # "net" => shown' = Data(product, box, bench) /\ bench = asked
<1>1. PICK r \in Reads(at) :
              /\ r.ok \in BOOLEAN /\ r.brings \in {"nothing", "serial", "shunt", "all"}
              /\ Show(r) /\ Smooth(r, Best(at))
              /\ \/ noted' = noted
                 \/ ~Sees(at, r.ok, shown') /\ noted' = noted \cup ({at} \cap Noted)
      BY WaitRound
<1>2. bench = asked /\ r = Best(at) /\ at \in Waits
      BY <1>1 DEF Smooth, Wait
<1>3. /\ at \in {"in", "out"} => Serial
      /\ at \notin ToOut => Network /\ Both
      BY <1>2, SoundReads
<1>4. at \notin ToOut /\ at # "net" => r.ok /\ r.brings = "all"
  <2> SUFFICES ASSUME at \notin ToOut, at # "net" PROVE r.ok /\ r.brings = "all"
      OBVIOUS
  <2>1. Both = TRUE
        BY <1>3
  <2>2. r = Outcome(TRUE, "all")
        BY <1>2, <2>1 DEF Best, BestData, ToOut, ToIn
  <2> QED BY <2>2, OutcomeFields
<1>5. at \notin ToOut /\ at # "net" => shown' = Data(product, box, bench)
      BY <1>1, <1>4, ShowDoes
<1>6. at \in Noted => Sees(at, r.ok, shown')
  <2>1. CASE at \in {"in", "out"}
    <3>1. Serial = TRUE
          BY <1>3, <2>1
    <3>2. r = Outcome(TRUE, "serial")
          BY <1>2, <2>1, <3>1 DEF Best
    <3> QED BY <2>1, <3>2, OutcomeFields DEF Sees
  <2>2. CASE at = "net"
    <3>1. Network = TRUE
          BY <1>3, <2>2 DEF ToOut, ToIn
    <3>2. r = Outcome(TRUE, "nothing")
          BY <1>2, <2>2, <3>1 DEF Best
    <3> QED BY <2>2, <3>2, OutcomeFields DEF Sees
  <2>3. CASE at \in {"spdIn", "spdOut", "open", "trip"}
    <3>1. r.ok /\ shown' = Data(product, box, bench)
          BY <1>4, <1>5, <2>3 DEF ToOut, ToIn
    <3>2. product.broken = {}
          BY DEF SoundBox
    <3>3. /\ shown'.lps = (IF bench.spd THEN "works" ELSE "damaged")
          /\ shown'.sw = NetworkSw(bench.breaker)
          /\ bench.breaker # "closed" => shown'.vol = "zero"
          BY <3>1, <3>2, DataFields
    <3>4. /\ at = "spdIn" => bench.spd
          /\ at = "spdOut" => ~bench.spd
          /\ at = "open" => bench.breaker = "open"
          /\ at = "trip" => bench.breaker = "tripped"
          BY <1>2 DEF Place, Blameless
    <3> QED BY <2>3, <3>1, <3>3, <3>4 DEF Sees, NetworkSw
  <2> QED BY <2>1, <2>2, <2>3 DEF Noted
<1> QED BY <1>1, <1>2, <1>5, <1>6

\* Options that are as expected do not differ.
LEMMA DifferNone ==
    ASSUME NEW options, NEW data, \A o \in options : o \in data.options <=> o \in product.expected
    PROVE  Differ(options, data) = {}
BY DEF Differ

\* Blameless is inductive, together with the invariants before.
LEMMA BlamelessStep ==
    Bench /\ Filter /\ Energy /\ Bench' /\ Blameless /\ [Next]_vars => Blameless'
<1> SUFFICES ASSUME Bench, Filter, Energy, Bench', Blameless, [Next]_vars, SoundBox', calm' PROVE Blameless'
    BY DEF Blameless
<1> USE DEF settingVars, historyVars
<1>0. /\ Typed /\ Place /\ Tells
      /\ \A x \in Testing : x \notin {"spdIn", "spdOut", "spdBack", "shunt", "ranges", "trip"} /\ x \notin ToCompare
      BY DEF Bench, Testing, ToIn, ToOut, ToNet, ToCompare
<1>1. CASE Check
  <2>1. product' = product /\ SoundBox /\ calm
    <3>1. product' = product
          BY <1>0, <1>1, CheckMoves
    <3> QED BY <1>0, <1>1, <3>1, CheckCalm DEF SoundBox
  <2>2. /\ noted = {} /\ (at \notin ToCompare => met /\ known)
        /\ at \in {"spdIn", "spdOut", "spdBack", "shunt", "ranges"} => shown.vol # "zero"
        /\ at = "trip" => bench.breaker = "tripped" /\ asked.breaker = "tripped"
        /\ product.options = product.expected /\ product.broken = {}
        /\ met => /\ \A o \in Options \ {"shunt"} : o \in shown.options <=> o \in product.expected
                  /\ shown.tem = product.temperatures
        /\ known => ("shunt" \in shown.options <=> "shunt" \in product.expected)
        BY <1>0, <2>1 DEF Blameless, Tells, OfThisBox, ShowsShunt, SoundBox
  <2>a. at \notin ToCompare => met' /\ known'
        BY <1>0, <1>1, <2>2, CheckShows
  <2>3. CASE Begin
    <3>1. at' = "in" /\ noted' = {}
          BY <1>0, <2>2, <2>3, LooksDo DEF Begin
    <3> QED BY <3>1 DEF Blameless, ToCompare, ToNet, ToOut, ToIn
  <2>4. CASE Version
    <3>1. at = "version" /\ at' = "env" /\ noted' = noted \cup Differ({"version"}, shown) /\ met' = met
          BY <1>0, <2>4, LooksDo DEF Version
    <3>2. met /\ known /\ met' /\ known'
          BY <2>2, <2>a, <3>1 DEF ToCompare, ToNet, ToOut, ToIn
    <3>a. "version" \in shown.options <=> "version" \in product.expected
          BY <2>2, <3>2 DEF Options
    <3>3. Differ({"version"}, shown) = {}
          BY <3>a, DifferNone
    <3> QED BY <2>2, <3>1, <3>2, <3>3 DEF Blameless
  <2>5. CASE EnvErrRange
    <3>1. at = "env" /\ at' = "filterOff" /\ met' = met
          BY <1>0, <2>5, LooksDo DEF EnvErrRange
    <3>2. met /\ known /\ met' /\ known'
          BY <2>2, <2>a, <3>1 DEF ToCompare, ToNet, ToOut, ToIn
    <3>a. shown.tem = product.temperatures
          BY <2>2, <3>2
    <3>3. shown.tem \in [1..4 -> 0..99] /\ Even(shown.tem)
          BY <1>0, <2>1, <3>a DEF Typed, RunTyped, Readings, SoundBox
    <3>4. noted' = noted
          BY <2>5, <3>3, TemperaturesPass DEF EnvErrRange
    <3> QED BY <2>2, <3>1, <3>2, <3>4 DEF Blameless
  <2>6. CASE Compare
    <3>1. /\ at = "compare" /\ bench = asked /\ UNCHANGED <<settingVars>>
          /\ at' \in {"ranges", "spdIn", "open", "shunt"}
          BY <1>0, <2>6, CompareDoes DEF Contacts
    <3>2. Both
          BY <1>0, <2>1, <3>1, SoundReads DEF ToOut, ToIn
    <3>3. shown' = Data(product, box, bench) /\ met' /\ known'
          BY <1>0, <2>6, <3>2, CompareDoes
    <3>4. /\ shown'.options = product.expected /\ shown'.filter = product.filter
          /\ shown'.vol # "zero"
      <4>1. bench.breaker = "closed" /\ box.filter = product.filter
            BY <1>0, <3>1 DEF Place, Filter, ToEnv, ToVersion, ToResidue, ToRanges, ToTrip, ToOpen, ToSpd, ToCompare
      <4> QED BY <2>1, <3>3, <4>1, DataFields DEF SoundBox
    <3>5. noted' = {}
      <4>1. Differ({"buzzer", "spd"}, shown') = {} /\ shown'.filter >= 5
            BY <2>1, <3>4, DifferNone DEF SoundBox
      <4> QED BY <1>0, <2>2, <2>6, <4>1, CompareDoes
    <3> QED BY <3>1, <3>3, <3>4, <3>5 DEF Blameless
  <2>7. CASE ShuntRelease
    <3>1. /\ at = "shunt" /\ met' = met /\ shown' = shown /\ at' \in {"trip", "ranges"}
          /\ noted' = noted \cup Differ({"shunt"}, shown)
          BY <1>0, <2>7, ShuntDoes
    <3>2. met /\ known /\ met' /\ known'
          BY <2>2, <2>a, <3>1 DEF ToCompare, ToNet, ToOut, ToIn
    <3>3. noted' = {}
          BY <2>2, <3>1, <3>2, DifferNone
    <3>4. at' = "trip" => bench'.breaker = "tripped" /\ asked'.breaker = "tripped"
      <4> SUFFICES ASSUME at' = "trip" PROVE bench'.breaker = "tripped" /\ asked'.breaker = "tripped"
          OBVIOUS
      <4>1. /\ bench' = [bench EXCEPT !.breaker = "tripped"]
            /\ asked' = [asked EXCEPT !.breaker = bench'.breaker]
            BY <1>0, <2>2, <2>7, ShuntDoes DEF Is
      <4> QED BY <1>0, <4>1 DEF Typed, ThingsTyped, Positions
    <3> QED BY <2>2, <3>1, <3>2, <3>3, <3>4 DEF Blameless
  <2>8. CASE VolErrRange
    <3>1. at = "ranges" /\ at' = "residue" /\ met' = met
          BY <1>0, <2>8, VolDoes
    <3>2. met /\ known /\ met' /\ known'
          BY <2>2, <2>a, <3>1 DEF ToCompare, ToNet, ToOut, ToIn
    <3>3. shown.vol = "good"
          BY <1>0, <2>2, <3>1, <3>2 DEF Tells, OfThisBox
    <3> QED BY <1>0, <2>2, <2>8, <3>1, <3>2, <3>3, VolDoes DEF Blameless
  <2>9. CASE CurErrRange
    <3>1. at = "residue" /\ at' = "version" /\ met' = met
          BY <1>0, <2>9, CurDoes
    <3>2. met /\ known /\ met' /\ known'
          BY <2>2, <2>a, <3>1 DEF ToCompare, ToNet, ToOut, ToIn
    <3>3. shown.cur = "zero"
          BY <1>0, <2>2, <3>2 DEF Tells, OfThisBox
    <3> QED BY <1>0, <2>2, <2>9, <3>1, <3>2, <3>3, CurDoes DEF Blameless
  <2>10. CASE Wait
    <3>1. /\ noted' = {}
          /\ at \notin ToOut /\ at # "net" => shown' = Data(product, box, bench) /\ bench = asked
          BY <1>0, <2>1, <2>2, <2>10, SoundIsSeen
    <3>2. (met => met') /\ (known => known') /\ bench' = bench
          BY <1>0, <1>1, <2>10, CheckShows DEF Wait
    <3>3. at' \notin ToCompare => at \notin ToCompare
          BY <1>0, <2>10, WaitMoves DEF ToCompare, ToNet, ToOut, ToIn
    <3>4. at' \in {"spdIn", "spdOut", "spdBack", "shunt", "ranges"} => shown'.vol # "zero"
      <4> SUFFICES ASSUME at' \in {"spdIn", "spdOut", "spdBack", "shunt", "ranges"} PROVE shown'.vol # "zero"
          OBVIOUS
      <4>1. at \in {"spdIn", "spdOut", "spdBack", "close", "reclose"}
            BY <1>0, <2>10, WaitMoves DEF Wait, Waits
      <4>2. shown' = Data(product, box, bench) /\ bench.breaker = "closed"
            BY <1>0, <3>1, <4>1 DEF Place, ToOut, ToIn
      <4> QED BY <2>2, <4>2, DataFields
    <3>5. at' = "trip" => at = "trip" /\ asked' = asked
      <4>1. at' = "trip" => at = "trip"
            BY <1>0, <2>10, WaitMoves DEF Contacts
      <4>2. asked' = asked \/ at' = After(at, TRUE) \/ at' = After(at, FALSE)
            BY <1>0, <2>10, WaitRound
      <4> QED BY <4>1, <4>2 DEF After
    <3> QED BY <2>2, <3>1, <3>2, <3>3, <3>4, <3>5 DEF Blameless
  <2> QED BY <1>1, <2>3, <2>4, <2>5, <2>6, <2>7, <2>8, <2>9, <2>10 DEF Check
<1>2. CASE Late
  <2>1. /\ UNCHANGED <<product, met, known>> /\ at \in Testing /\ at' \in Testing /\ (calm' => calm)
        /\ Cleaned \/ noted' = noted
        BY <1>0, <1>2, LateSteps
  <2>2. SoundBox /\ calm /\ noted = {} /\ met /\ known
        BY <1>0, <2>1 DEF SoundBox, Blameless
  <2>3. noted' = {}
    <3>1. CASE Cleaned
      <4>1. at = "cleaned" /\ ~shown.energy
            BY <2>2, <3>1 DEF Cleaned, Energy
      <4>2. ret' /\ noted' = (IF ret' THEN noted ELSE noted \cup {"energy"})
            BY <1>0, <3>1, <4>1, CleanedDoes
      <4> QED BY <2>2, <4>2
    <3> QED BY <2>1, <2>2, <3>1
  <2> QED BY <1>0, <2>1, <2>2, <2>3 DEF Blameless
<1>3. CASE Operator
      BY <1>3 DEF Operator, Blameless, SoundBox
<1>4. CASE UNCHANGED vars
      BY <1>4 DEF vars, Blameless, SoundBox
<1> QED BY <1>1, <1>2, <1>3, <1>4 DEF Next, Run, Check, Late

\* A sound box, configured as expected, is not blamed by any check of a run in which the
\* operator did what he was asked and no read or command was lost.
THEOREM SoundNotBlamed == Spec => []SoundPasses
<1>1. Init => Blameless
      BY DEF Init, Blameless, ToCompare, ToNet, ToOut, ToIn
<1>2. Blameless => SoundPasses
      BY DEF Blameless, SoundPasses
<1> QED BY <1>1, <1>2, BlamelessStep, FilterAlways, EnergyAlways, BenchAlways, PTL DEF Spec
=============================================================================
