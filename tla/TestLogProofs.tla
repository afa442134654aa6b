---------------------------- MODULE TestLogProofs ----------------------------
(***************************************************************************)
(* Theorems about TestLog, for any number of checks, rows of the dialog    *)
(* and sessions.                                                           *)
(***************************************************************************)
EXTENDS TestLog, FiniteSetTheorems, TLAPS

-----------------------------------------------------------------------------
(* The values of the variables.                                            *)

Strokes == {x \in [list : Lists \cup {"result"}, item : Marks \cup Items] : x.item \in Held(x.list)}
Entries == [name : Items, data : Items]
Places  == {"off", "initDev", "note", "row", "decide", "await", "save", "read", "outOfRange"}
Signals == {"good", "bad", "judg"}

RecordTyped == step \in Steps /\ result \in Results /\ issure \in BOOLEAN

ListsTyped ==
    /\ lists \in [Lists -> Seq(Marks \cup Items)]
    /\ \A l \in Lists : lists[l] \in Seq(Held(l))

PensTyped == pen \in [Threads -> Seq(Strokes)]

\* The number of the check, and of the rows, where the worker is.
CountsTyped ==
    /\ at \in Places /\ check \in 0 .. Checks + 1 /\ rows \in 0 .. Checks /\ ok \in BOOLEAN
    /\ at \in {"note", "row"} => check \in 1 .. Checks + 1 /\ rows < check
    /\ at = "row" => check <= Checks
    /\ at = "initDev" => rows = 0

LogTyped ==
    /\ num \in Nat /\ memo \in Seq(Entries)
    /\ entry.kind \in {"none", "open", "saved"}
    /\ at = "read" => entry.kind = "open"

SlotsTyped == inbox \in Seq(Signals) /\ dialog \in BOOLEAN

\* Before the first session nobody writes.
HistoryTyped ==
    /\ session \in 0 .. MaxSessions /\ torn \in BOOLEAN
    /\ session = 0 => at = "off" /\ inbox = <<>> /\ ~dialog /\ lists = Empty
                     /\ pen = [t \in Threads |-> <<>>] /\ step = Test_End

\* The worker goes on with an empty pen.
Resting == at \in {"off", "initDev", "decide", "save", "read"} => pen["worker"] = <<>>

Typed == RecordTyped /\ ListsTyped /\ PensTyped /\ CountsTyped /\ LogTyped /\ SlotsTyped /\ HistoryTyped
         /\ Resting

-----------------------------------------------------------------------------
(* What the theorems rest on.  A run is alone as long as it is not torn.   *)

\* The line or row that a stroke belongs to.
Of(x) == IF x.list \in {"pass", "results", "result"} THEN x.item.of ELSE x.item

\* Which stroke comes after which, and with which a thread lays down its pen.
Follows(x, y) ==
    \/ x.list = "pass" /\ y.list = "status" /\ Of(y) = Of(x)
    \/ x.list = "status" /\ y.list = "result" /\ Of(y) = Of(x)
    \/ x.list = "result" /\ y.list = "results" /\ y.item = x.item /\ Of(x).who = "address"
    \/ x.list = "result" /\ y.list = "pass" /\ Of(y) = Of(x) /\ Of(x).who = "address"
    \/ x.list = "results" /\ y.list = "data" /\ (Of(y) = Of(x) \/ (Of(x).who = "dialog" /\ Of(y).who = "dialog"))
    \/ x.list = "data" /\ y.list = "names" /\ Of(y) = Of(x)
    \/ x.list = "names" /\ y.list = "results" /\ Of(y) = Of(x) /\ Of(x).who = "dialog"

Final(x) ==
    \/ x.list = "result" /\ Of(x).who \in {"check", "label"}
    \/ x.list = "names" /\ Of(x).who \in {"check", "address"}
    \/ x.list = "results" /\ Of(x).who = "dialog"

\* A pen lays down one line or row stroke by stroke, the dialog's one after the other.
Script(s) ==
    /\ \A i \in 1 .. Len(s) - 1 : Follows(s[i], s[i + 1])
    /\ s # <<>> => Final(s[Len(s)])
    /\ \A i, j \in 1 .. Len(s) :
          i < j /\ s[i].list = "data" /\ s[j].list = "data" => Of(s[i]).n < Of(s[j]).n

\* What the worker is writing, by its place.
WorkerWrites ==
    \A i \in 1 .. Len(pen["worker"]) :
       LET x == pen["worker"][i]
       IN /\ Of(x).session = session
          /\ \/ /\ at = "note" /\ x.list \in {"results", "data", "names"}
                /\ Of(x) = Item("check", rows) /\ rows > 0
             \/ /\ at = "row" /\ x.list \in {"pass", "status", "result"}
                /\ Of(x).who = "check"
             \/ /\ at = "await" /\ x.list \in {"pass", "status", "result"}
                /\ Of(x).who = "label"

GuiWrites ==
    \A i \in 1 .. Len(pen["gui"]) :
       LET x == pen["gui"][i]
       IN \/ Of(x) = Item("address", 0)
          \/ /\ Of(x) \in {Item("dialog", n) : n \in 1 .. Confirmed}
             /\ x.list \in {"data", "names", "results"}

\* The GUI thread writes for the address, or for the dialog.
OneKind == \A i, j \in 1 .. Len(pen["gui"]) : Of(pen["gui"][i]).who = Of(pen["gui"][j]).who

Pens == /\ \A t \in Threads : Script(pen[t])
        /\ ~Clash(pen, at) /\ WorkerWrites /\ GuiWrites

Writes(t, list) == pen[t] # <<>> /\ Head(pen[t]).list = list

\* Every line has its mark; a thread that wrote the mark of a line writes the line next.
Lines ==
    /\ \A i \in 1 .. Len(lists["status"]) : i <= Len(lists["pass"]) /\ lists["pass"][i].of = lists["status"][i]
    /\ \A t \in Threads :
          Writes(t, "status") => /\ Len(lists["pass"]) = Len(lists["status"]) + 1
                                 /\ lists["pass"][Len(lists["pass"])].of = Head(pen[t]).item
    /\ (\A t \in Threads : ~Writes(t, "status")) => Len(lists["pass"]) = Len(lists["status"])

\* A row whose result came first, and one whose result comes last.
Late(t)  == Writes(t, "data") /\ Of(Head(pen[t])).who # "dialog"
Early(t) == (Writes(t, "names") \/ Writes(t, "results")) /\ Of(Head(pen[t])).who = "dialog"

\* The text that came last is the one of the stroke that comes next.
LastText(t) == lists["data"] # <<>> /\ lists["data"][Len(lists["data"])] = Of(Head(pen[t]))

\* As many results as texts, but for the row that is being written.
Outcomes ==
    /\ \A t \in Threads : Late(t) => Len(lists["results"]) = Len(lists["data"]) + 1
    /\ \A t \in Threads : Early(t) => Len(lists["results"]) + 1 = Len(lists["data"]) /\ LastText(t)
    /\ (\A t \in Threads : ~Late(t) /\ ~Early(t)) => Len(lists["results"]) = Len(lists["data"])

\* In the first session as many names as texts, later those of earlier sessions as well.
Names ==
    /\ \A t \in Threads :
          Writes(t, "names") => /\ LastText(t)
                                /\ Len(lists["names"]) + 1 >= Len(lists["data"])
                                /\ session = 1 => Len(lists["names"]) + 1 = Len(lists["data"])
    /\ (\A t \in Threads : ~Writes(t, "names")) =>
          /\ Len(lists["names"]) >= Len(lists["data"])
          /\ session = 1 => Len(lists["names"]) = Len(lists["data"])
    /\ session = 1 => \A i \in 1 .. Len(lists["names"]) :
                         i <= Len(lists["data"]) /\ lists["names"][i] = lists["data"][i]

\* The row of the address, and those of the dialog, are written or being written.
Wrote(who) ==
    \/ \E i \in 1 .. Len(lists["data"]) : lists["data"][i].who = who
    \/ \E i \in 1 .. Len(pen["gui"]) : Of(pen["gui"][i]).who = who

\* The address is signalled once, the dialog opened once, after the checks.
Stage ==
    /\ inbox \in {<<>>, <<"good">>, <<"bad">>, <<"judg">>, <<"good", "judg">>, <<"bad", "judg">>}
    /\ at = "initDev" => inbox = <<>> /\ ~Wrote("address")
    /\ inbox # <<>> /\ Head(inbox) # "judg" => ~Wrote("address")
    /\ at \in {"initDev", "note", "row"} => ~dialog /\ ~Wrote("dialog") /\ inbox \in {<<>>, <<"good">>, <<"bad">>}
    /\ inbox # <<>> \/ dialog => ~Wrote("dialog")
    /\ dialog => inbox = <<>> /\ pen["gui"] = <<>>

\* The rows written up to now, of each check one.
Texts ==
    /\ \A i \in 1 .. Len(lists["data"]) :
          \/ lists["data"][i] \in {Item("check", n) : n \in 1 .. rows}
          \/ lists["data"][i] = Item("address", 0)
          \/ lists["data"][i] \in {Item("dialog", n) : n \in 1 .. Confirmed}
    /\ \A i, j \in 1 .. Len(lists["data"]) : lists["data"][i] = lists["data"][j] => i = j

\* What a thread is about to write is not there yet, nor is anything of the dialog that
\* comes later.
Fresh ==
    /\ \A t \in Threads : \A j \in 1 .. Len(pen[t]) :
          pen[t][j].list = "data" =>
             \A i \in 1 .. Len(lists["data"]) :
                lists["data"][i] # Of(pen[t][j])
                /\ (Of(pen[t][j]).who = "dialog" /\ lists["data"][i].who = "dialog" =>
                       lists["data"][i].n < Of(pen[t][j]).n)

\* Every check that wrote a row is among the texts, or its text is being written.
AllThere ==
    /\ \A n \in 1 .. rows : \/ \E i \in 1 .. Len(lists["data"]) : lists["data"][i] = Item("check", n)
                            \/ \E j \in 1 .. Len(pen["worker"]) :
                                  pen["worker"][j].list = "data" /\ Of(pen["worker"][j]) = Item("check", n)
    /\ at \in {"note", "row"} /\ LogsOpen(step) => rows = check - 1
    /\ at = "initDev" => rows = 0 /\ lists["data"] = <<>>

\* As long as the verdict is not bad, no result is but the operator's.
Marked ==
    /\ result # Test_Fail => \A i \in 1 .. Len(lists["results"]) :
          lists["results"][i].good \/ lists["results"][i].of.who = "dialog"
    /\ \A t \in Threads : Writes(t, "results") =>
          Head(pen[t]).item.good \/ Of(Head(pen[t])).who = "dialog" \/ result = Test_Fail
    /\ at = "row" => \A i \in 1 .. Len(pen["worker"]) :
          pen["worker"][i].list = "result" => pen["worker"][i].item.good = ok
    /\ at = "row" /\ LogsOpen(step) => ok \/ result = Test_Fail \/ pen["worker"] # <<>>

\* writeLog has got so far.
Reading ==
    at = "read" =>
      /\ num <= Len(lists["data"]) /\ num <= Len(lists["names"])
      /\ Len(memo) <= num
      /\ \A i \in 1 .. Len(memo) : /\ memo[i].data = lists["data"][i]
                                   /\ session = 1 => memo[i].name = memo[i].data
      /\ \A i \in 1 .. Len(lists["data"]) : lists["data"][i].who = "check" => i <= num
      /\ entry.passed => entry.failures = {}

Alone == /\ at # "outOfRange" /\ Pens /\ Lines /\ Outcomes /\ Names /\ Stage
         /\ Texts /\ Fresh /\ AllThere /\ Marked /\ Reading /\ OneKind

Ordered == ~torn => Alone

-----------------------------------------------------------------------------
(* Lines, rows and pens.                                                    *)

\* A stroke is of a line or row, and what it appends fits its list.
LEMMA StrokeIs ==
    ASSUME NEW x \in Strokes
    PROVE  /\ Of(x) \in Items /\ x.list \in Lists \cup {"result"} /\ x.item \in Held(x.list)
           /\ x.list \in {"pass", "results", "result"} => x.item.good \in BOOLEAN /\ x.item \in Marks
           /\ x.list \in {"status", "data", "names"} => x.item = Of(x)
BY DEF Strokes, Of, Held, Marks, Lists

\* The strokes a thread makes of an item.
LEMMA OnIs ==
    ASSUME NEW list \in Lists \cup {"result"}, NEW of \in Items, NEW good \in BOOLEAN
    PROVE  /\ list \in {"pass", "results", "result"} =>
                /\ On(list, Mark(of, good)) \in Strokes /\ On(list, Mark(of, good)).list = list
                /\ Of(On(list, Mark(of, good))) = of
                /\ On(list, Mark(of, good)).item = Mark(of, good)
                /\ On(list, Mark(of, good)).item.good = good
           /\ list \notin {"pass", "results", "result"} =>
                /\ On(list, of) \in Strokes /\ On(list, of).list = list
                /\ Of(On(list, of)) = of
BY DEF On, Mark, Of, Strokes, Held, Marks, Lists

\* A line.
LEMMA LineIs ==
    ASSUME NEW of \in Items, NEW good \in BOOLEAN
    PROVE  /\ Line(of, good) \in Seq(Strokes) /\ Len(Line(of, good)) = 3
           /\ Line(of, good)[1].list = "pass" /\ Line(of, good)[2].list = "status"
           /\ Line(of, good)[3].list = "result" /\ Line(of, good)[3].item = Mark(of, good)
           /\ \A i \in 1..3 : Of(Line(of, good)[i]) = of
<1>1. /\ On("pass", Mark(of, good)) \in Strokes /\ On("pass", Mark(of, good)).list = "pass"
      /\ Of(On("pass", Mark(of, good))) = of
      BY OnIs DEF Lists
<1>2. /\ On("status", of) \in Strokes /\ On("status", of).list = "status" /\ Of(On("status", of)) = of
      BY OnIs DEF Lists
<1>3. /\ On("result", Mark(of, good)) \in Strokes /\ On("result", Mark(of, good)).list = "result"
      /\ Of(On("result", Mark(of, good))) = of /\ On("result", Mark(of, good)).item = Mark(of, good)
      BY OnIs DEF Lists
<1> QED BY <1>1, <1>2, <1>3 DEF Line

\* A row.
LEMMA RowIs ==
    ASSUME NEW of \in Items, NEW good \in BOOLEAN
    PROVE  /\ Row(of, good) \in Seq(Strokes) /\ Len(Row(of, good)) = 3
           /\ Row(of, good)[1].list = "results" /\ Row(of, good)[1].item = Mark(of, good)
           /\ Row(of, good)[2].list = "data" /\ Row(of, good)[3].list = "names"
           /\ \A i \in 1..3 : Of(Row(of, good)[i]) = of
<1>1. /\ On("results", Mark(of, good)) \in Strokes /\ On("results", Mark(of, good)).list = "results"
      /\ Of(On("results", Mark(of, good))) = of /\ On("results", Mark(of, good)).item = Mark(of, good)
      BY OnIs DEF Lists
<1>2. /\ On("data", of) \in Strokes /\ On("data", of).list = "data" /\ Of(On("data", of)) = of
      BY OnIs DEF Lists
<1>3. /\ On("names", of) \in Strokes /\ On("names", of).list = "names" /\ Of(On("names", of)) = of
      BY OnIs DEF Lists
<1> QED BY <1>1, <1>2, <1>3 DEF Row

\* A row of the dialog.
LEMMA ConfirmedRowIs ==
    ASSUME NEW of \in Items, NEW good \in BOOLEAN
    PROVE  /\ ConfirmedRow(of, good) \in Seq(Strokes) /\ Len(ConfirmedRow(of, good)) = 3
           /\ ConfirmedRow(of, good)[1].list = "data" /\ ConfirmedRow(of, good)[2].list = "names"
           /\ ConfirmedRow(of, good)[3].list = "results"
           /\ \A i \in 1..3 : Of(ConfirmedRow(of, good)[i]) = of
<1>1. /\ On("results", Mark(of, good)) \in Strokes /\ On("results", Mark(of, good)).list = "results"
      /\ Of(On("results", Mark(of, good))) = of
      BY OnIs DEF Lists
<1>2. /\ On("data", of) \in Strokes /\ On("data", of).list = "data" /\ Of(On("data", of)) = of
      BY OnIs DEF Lists
<1>3. /\ On("names", of) \in Strokes /\ On("names", of).list = "names" /\ Of(On("names", of)) = of
      BY OnIs DEF Lists
<1> QED BY <1>1, <1>2, <1>3 DEF ConfirmedRow

\* What is in a sequence of strokes.
LEMMA ElementIs ==
    ASSUME NEW s \in Seq(Strokes)
    PROVE  Len(s) \in Nat /\ \A i \in 1..Len(s) : s[i] \in Strokes
OBVIOUS

\* Two of them in a row.
LEMMA ConcatIs ==
    ASSUME NEW a \in Seq(Strokes), NEW b \in Seq(Strokes)
    PROVE  /\ a \o b \in Seq(Strokes) /\ Len(a \o b) = Len(a) + Len(b)
           /\ \A i \in 1 .. Len(a) + Len(b) : (a \o b)[i] = IF i <= Len(a) THEN a[i] ELSE b[i - Len(a)]
OBVIOUS

\* A line of three strokes and what follows it, n strokes in all, in one go.
Joined(a, b, n) ==
    /\ a \o b \in Seq(Strokes) /\ Len(a \o b) = n
    /\ \A i \in 1..n : (a \o b)[i] = IF i <= 3 THEN a[i] ELSE b[i - 3]

\* They are.
LEMMA JoinIs ==
    ASSUME NEW a \in Seq(Strokes), NEW b \in Seq(Strokes), NEW n \in Nat, Len(a) = 3, Len(b) = n - 3
    PROVE  Joined(a, b, n)
<1>1. a \o b \in Seq(Strokes)
      BY ConcatIs
<1>2. Len(a \o b) = Len(a) + Len(b)
      BY ConcatIs
<1>3. Len(a \o b) = n
      BY <1>2
<1>4. \A i \in 1 .. Len(a) + Len(b) : (a \o b)[i] = IF i <= Len(a) THEN a[i] ELSE b[i - Len(a)]
      BY ConcatIs
<1>5. ASSUME NEW i \in 1..n
      PROVE  (a \o b)[i] = IF i <= 3 THEN a[i] ELSE b[i - 3]
  <2>1. i \in 1 .. Len(a) + Len(b)
        OBVIOUS
  <2>2. (a \o b)[i] = IF i <= Len(a) THEN a[i] ELSE b[i - Len(a)]
        BY <1>4, <2>1
  <2> QED BY <2>2
<1> QED BY <1>1, <1>3, <1>5 DEF Joined

\* A line and its row.
LEMMA LineAndRow ==
    ASSUME NEW of \in Items, NEW good \in BOOLEAN
    PROVE  LET s == Line(of, good) \o Row(of, good)
           IN /\ s \in Seq(Strokes) /\ Len(s) = 6
              /\ s[1].list = "pass" /\ s[2].list = "status" /\ s[3].list = "result"
              /\ s[4].list = "results" /\ s[5].list = "data" /\ s[6].list = "names"
              /\ s[3].item = s[4].item
              /\ \A i \in 1..6 : Of(s[i]) = of
<1> DEFINE l == Line(of, good)
           r == Row(of, good)
<1>1. /\ l \in Seq(Strokes) /\ Len(l) = 3 /\ l[1].list = "pass" /\ l[2].list = "status"
      /\ l[3].list = "result" /\ l[3].item = Mark(of, good) /\ Of(l[1]) = of /\ Of(l[2]) = of /\ Of(l[3]) = of
      BY LineIs
<1>2. /\ r \in Seq(Strokes) /\ Len(r) = 3 /\ r[1].list = "results" /\ r[2].list = "data"
      /\ r[3].list = "names" /\ r[1].item = Mark(of, good) /\ Of(r[1]) = of /\ Of(r[2]) = of /\ Of(r[3]) = of
      BY RowIs
<1> HIDE DEF l, r
<1>3. /\ l \o r \in Seq(Strokes) /\ Len(l \o r) = 6
      /\ \A i \in 1..6 : (l \o r)[i] = IF i <= 3 THEN l[i] ELSE r[i - 3]
  <2>1. l \in Seq(Strokes) /\ r \in Seq(Strokes) /\ Len(l) = 3 /\ Len(r) = 6 - 3
        BY <1>1, <1>2
  <2> HIDE <1>1, <1>2
  <2>2. Joined(l, r, 6)
        BY <2>1, JoinIs
  <2> QED BY <2>1, <2>2 DEF Joined
<1>4. /\ (l \o r)[1] = l[1] /\ (l \o r)[2] = l[2] /\ (l \o r)[3] = l[3]
      /\ (l \o r)[4] = r[1] /\ (l \o r)[5] = r[2] /\ (l \o r)[6] = r[3]
      BY <1>3
<1>5. \A i \in 1..6 : Of((l \o r)[i]) = of
  <2> SUFFICES ASSUME NEW i \in 1..6 PROVE Of((l \o r)[i]) = of
      OBVIOUS
  <2>1. i = 1 \/ i = 2 \/ i = 3 \/ i = 4 \/ i = 5 \/ i = 6
        OBVIOUS
  <2> QED BY <1>1, <1>2, <1>4, <2>1
<1> QED BY <1>1, <1>2, <1>3, <1>4, <1>5 DEF l, r

\* What the slots of the address assignment write.
LEMMA AddressIs ==
    ASSUME NEW of \in Items, NEW good \in BOOLEAN
    PROVE  LET s == AddressNote(of, good)
           IN /\ s \in Seq(Strokes) /\ Len(s) \in {6, 9}
              /\ s[1].list = "pass"
              /\ \A i \in 1 .. Len(s) : Of(s[i]) = of
<1> DEFINE l == Line(of, good)
           n == Line(of, good) \o Row(of, good)
<1>1. /\ n \in Seq(Strokes) /\ Len(n) = 6 /\ n[1].list = "pass"
      /\ \A i \in 1..6 : Of(n[i]) = of
      BY LineAndRow
<1>2. /\ l \in Seq(Strokes) /\ Len(l) = 3 /\ l[1].list = "pass"
      /\ Of(l[1]) = of /\ Of(l[2]) = of /\ Of(l[3]) = of
      BY LineIs
<1>3. AddressNote(of, good) = IF good THEN n ELSE l \o n
      BY DEF AddressNote
<1> HIDE DEF l, n
<1>4. /\ l \o n \in Seq(Strokes) /\ Len(l \o n) = 9
      /\ \A i \in 1..9 : (l \o n)[i] = IF i <= 3 THEN l[i] ELSE n[i - 3]
  <2>1. l \in Seq(Strokes) /\ n \in Seq(Strokes) /\ Len(l) = 3 /\ Len(n) = 9 - 3
        BY <1>1, <1>2
  <2> HIDE <1>1, <1>2
  <2>2. Joined(l, n, 9)
        BY <2>1, JoinIs
  <2> QED BY <2>2 DEF Joined
<1>5. ASSUME NEW i \in 1..9 PROVE Of((l \o n)[i]) = of
  <2>1. CASE i <= 3
    <3>1. (i = 1 \/ i = 2 \/ i = 3) /\ (l \o n)[i] = l[i]
          BY <1>4, <2>1
    <3> QED BY <1>2, <3>1
  <2>2. CASE ~(i <= 3)
    <3>1. i - 3 \in 1..6
          BY <2>2
    <3>2. (l \o n)[i] = n[i - 3]
          BY <1>4, <2>2
    <3> QED BY <1>1, <3>1, <3>2
  <2> QED BY <2>1, <2>2
<1>6. (l \o n)[1] = l[1]
      BY <1>4
<1> QED BY <1>1, <1>2, <1>3, <1>4, <1>5, <1>6

\* The three strokes of a row of the dialog stand at 3n - 2 .. 3n.
LEMMA Thirds ==
    ASSUME NEW k \in Nat \ {0}
    PROVE  /\ (k - 1) \div 3 + 1 \in Nat \ {0}
           /\ (k - 1) % 3 \in 0..2
           /\ k - 1 = 3 * ((k - 1) \div 3) + ((k - 1) % 3)
OBVIOUS

\* What on_sureButton_clicked writes.
LEMMA ConfirmedIs ==
    ASSUME NEW meets \in [1..Confirmed -> BOOLEAN], session \in 1..MaxSessions
    PROVE  /\ ConfirmedRows(meets) \in Seq(Strokes) /\ Len(ConfirmedRows(meets)) = 3 * Confirmed
           /\ \A k \in 1 .. 3 * Confirmed :
                /\ (k - 1) \div 3 + 1 \in 1..Confirmed
                /\ Of(ConfirmedRows(meets)[k]) = Item("dialog", (k - 1) \div 3 + 1)
                /\ ConfirmedRows(meets)[k].list =
                      IF (k - 1) % 3 = 0 THEN "data" ELSE IF (k - 1) % 3 = 1 THEN "names" ELSE "results"
<1>1. ASSUME NEW k \in 1 .. 3 * Confirmed
      PROVE  /\ (k - 1) \div 3 + 1 \in 1..Confirmed
             /\ ConfirmedRow(Item("dialog", (k - 1) \div 3 + 1), meets[(k - 1) \div 3 + 1])[((k - 1) % 3) + 1] \in Strokes
             /\ Of(ConfirmedRow(Item("dialog", (k - 1) \div 3 + 1), meets[(k - 1) \div 3 + 1])[((k - 1) % 3) + 1])
                   = Item("dialog", (k - 1) \div 3 + 1)
             /\ ConfirmedRow(Item("dialog", (k - 1) \div 3 + 1), meets[(k - 1) \div 3 + 1])[((k - 1) % 3) + 1].list =
                   IF (k - 1) % 3 = 0 THEN "data" ELSE IF (k - 1) % 3 = 1 THEN "names" ELSE "results"
  <2> DEFINE n == (k - 1) \div 3 + 1
             m == (k - 1) % 3
  <2>1. n \in 1..Confirmed /\ m \in 0..2
        BY Thirds, TestLogAssumption
  <2> HIDE DEF n, m
  <2>2. Item("dialog", n) \in Items /\ meets[n] \in BOOLEAN
        BY <2>1, TestLogAssumption DEF Item, Items, Writers
  <2> DEFINE r == ConfirmedRow(Item("dialog", n), meets[n])
  <2>3. /\ r \in Seq(Strokes) /\ Len(r) = 3 /\ r[1].list = "data" /\ r[2].list = "names" /\ r[3].list = "results"
        /\ \A i \in 1..3 : Of(r[i]) = Item("dialog", n)
        BY <2>2, ConfirmedRowIs
  <2> HIDE DEF r
  <2>4. m + 1 \in 1..3 /\ r[m + 1] \in Strokes
    <3>1. m + 1 \in 1..3
          BY <2>1
    <3>2. \A j \in 1..Len(r) : r[j] \in Strokes
      <4>1. r \in Seq(Strokes)
            BY <2>3
      <4> QED BY <4>1, ElementIs
    <3>3. m + 1 \in 1..Len(r)
          BY <2>3, <3>1
    <3> QED BY <3>1, <3>2, <3>3
  <2>5. r[m + 1].list = IF m = 0 THEN "data" ELSE IF m = 1 THEN "names" ELSE "results"
        BY <2>1, <2>3
  <2>6. Of(r[m + 1]) = Item("dialog", n)
        BY <2>3, <2>4
  <2> QED BY <2>1, <2>4, <2>5, <2>6 DEF n, m, r
<1>2. 3 * Confirmed \in Nat
      BY TestLogAssumption
<1>3. ConfirmedRows(meets) = [k \in 1 .. 3 * Confirmed |->
         ConfirmedRow(Item("dialog", (k - 1) \div 3 + 1), meets[(k - 1) \div 3 + 1])[((k - 1) % 3) + 1]]
      BY DEF ConfirmedRows
<1> DEFINE f(k) == ConfirmedRow(Item("dialog", (k - 1) \div 3 + 1), meets[(k - 1) \div 3 + 1])[((k - 1) % 3) + 1]
<1>4. \A k \in 1 .. 3 * Confirmed : f(k) \in Strokes
      BY <1>1
<1> HIDE DEF f
<1>5. [k \in 1 .. 3 * Confirmed |-> f(k)] \in Seq(Strokes) /\ Len([k \in 1 .. 3 * Confirmed |-> f(k)]) = 3 * Confirmed
      BY <1>2, <1>4
<1>6. ConfirmedRows(meets) = [k \in 1 .. 3 * Confirmed |-> f(k)]
      BY <1>3 DEF f
<1>7. \A k \in 1 .. 3 * Confirmed : ConfirmedRows(meets)[k] = f(k)
      BY <1>6
<1> QED BY <1>1, <1>5, <1>6, <1>7 DEF f

\* The stroke that comes next, and the ones after it.
LEMMA TailIs ==
    ASSUME NEW s \in Seq(Strokes), s # <<>>
    PROVE  /\ Head(s) = s[1] /\ Head(s) \in Strokes /\ Tail(s) \in Seq(Strokes)
           /\ Len(s) \in Nat \ {0} /\ Len(Tail(s)) = Len(s) - 1
           /\ \A i \in 1 .. Len(s) - 1 : Tail(s)[i] = s[i + 1]
OBVIOUS

\* What remains of a pen is laid down to its end as well.
LEMMA ScriptTail ==
    ASSUME NEW s \in Seq(Strokes), s # <<>>, Script(s)
    PROVE  /\ Script(Tail(s))
           /\ Tail(s) = <<>> => Final(Head(s))
           /\ Tail(s) # <<>> => Follows(Head(s), Head(Tail(s))) /\ Head(Tail(s)) = s[2] /\ Len(s) >= 2
<1>1. /\ Head(s) = s[1] /\ Tail(s) \in Seq(Strokes)
      /\ Len(s) \in Nat \ {0} /\ Len(Tail(s)) = Len(s) - 1
      /\ \A i \in 1 .. Len(s) - 1 : Tail(s)[i] = s[i + 1]
      BY TailIs
<1> DEFINE r == Tail(s)
<1> HIDE DEF r
<1>2. r = <<>> <=> Len(s) = 1
      BY <1>1, SMTT(30) DEF r
<1>3. r # <<>> => Head(r) = s[2] /\ Len(s) >= 2 /\ r[Len(r)] = s[Len(s)]
      BY <1>1, <1>2 DEF r
<1>4. \A i \in 1 .. Len(r) - 1 : Follows(r[i], r[i + 1])
  <2> SUFFICES ASSUME NEW i \in 1 .. Len(r) - 1 PROVE Follows(r[i], r[i + 1])
      OBVIOUS
  <2>1. i + 1 \in 1 .. Len(s) - 1 /\ r[i] = s[i + 1] /\ r[i + 1] = s[(i + 1) + 1]
        BY <1>1 DEF r
  <2> QED BY <2>1 DEF Script
<1>5. \A i, j \in 1 .. Len(r) :
          i < j /\ r[i].list = "data" /\ r[j].list = "data" => Of(r[i]).n < Of(r[j]).n
  <2> SUFFICES ASSUME NEW i \in 1 .. Len(r), NEW j \in 1 .. Len(r), i < j, r[i].list = "data", r[j].list = "data"
               PROVE  Of(r[i]).n < Of(r[j]).n
      OBVIOUS
  <2>1. i + 1 \in 1 .. Len(s) /\ j + 1 \in 1 .. Len(s) /\ i + 1 < j + 1 /\ r[i] = s[i + 1] /\ r[j] = s[j + 1]
        BY <1>1 DEF r
  <2> QED BY <2>1 DEF Script
<1>6. Script(r)
      BY <1>3, <1>4, <1>5 DEF Script
<1>7. r = <<>> => Final(s[1])
      BY <1>2 DEF Script
<1>8. r # <<>> => Follows(s[1], s[2])
      BY <1>1, <1>3 DEF Script
<1> QED BY <1>1, <1>3, <1>6, <1>7, <1>8 DEF r

-----------------------------------------------------------------------------
(* The actions, and the values they keep.                                   *)

\* The lists are each of its kind.
LEMMA ListIs ==
    ASSUME ListsTyped
    PROVE  /\ lists["pass"] \in Seq(Marks) /\ lists["results"] \in Seq(Marks)
           /\ lists["status"] \in Seq(Items) /\ lists["data"] \in Seq(Items) /\ lists["names"] \in Seq(Items)
BY DEF ListsTyped, Lists, Held

\* A thread appends what its pen holds next, or turns the verdict.
LEMMA PushIs ==
    ASSUME PensTyped, ListsTyped, NEW t \in Threads, Push(t)
    PROVE  /\ pen[t] \in Seq(Strokes) /\ pen[t] # <<>> /\ Head(pen[t]) \in Strokes
           /\ pen' \in [Threads -> Seq(Strokes)]
           /\ \A u \in Threads : pen'[u] = IF u = t THEN Tail(pen[t]) ELSE pen[u]
           /\ Head(pen[t]).list = "result" =>
                 lists' = lists /\ result' = NotedResult(result, Head(pen[t]).item.good)
           /\ Head(pen[t]).list # "result" =>
                 /\ result' = result
                 /\ lists' = [lists EXCEPT ![Head(pen[t]).list] = Append(lists[Head(pen[t]).list], Head(pen[t]).item)]
<1>1. pen[t] \in Seq(Strokes) /\ pen[t] # <<>>
      BY DEF PensTyped, Push
<1>2. Head(pen[t]) \in Strokes /\ Tail(pen[t]) \in Seq(Strokes)
      BY <1>1, TailIs
<1>3. pen' = [pen EXCEPT ![t] = Tail(pen[t])]
      BY DEF Push
<1>4. /\ pen' \in [Threads -> Seq(Strokes)]
      /\ \A u \in Threads : pen'[u] = IF u = t THEN Tail(pen[t]) ELSE pen[u]
      BY <1>2, <1>3 DEF PensTyped
<1> QED BY <1>1, <1>2, <1>4 DEF Push

\* What lies in the lists after a stroke other than that of the verdict.
LEMMA AppendIs ==
    ASSUME ListsTyped, NEW x \in Strokes, x.list # "result",
           lists' = [lists EXCEPT ![x.list] = Append(lists[x.list], x.item)]
    PROVE  /\ x.list \in Lists /\ x.item \in Held(x.list)
           /\ \A l \in Lists : lists'[l] = IF l = x.list THEN Append(lists[l], x.item) ELSE lists[l]
           /\ ListsTyped'
<1>1. x.list \in Lists /\ x.item \in Held(x.list) /\ x.item \in Marks \cup Items
      BY DEF Strokes
<1>2. lists[x.list] \in Seq(Marks \cup Items) /\ lists[x.list] \in Seq(Held(x.list))
      BY <1>1 DEF ListsTyped
<1>3. /\ Append(lists[x.list], x.item) \in Seq(Marks \cup Items)
      /\ Append(lists[x.list], x.item) \in Seq(Held(x.list))
      BY <1>1, <1>2
<1>4. \A l \in Lists : lists'[l] = IF l = x.list THEN Append(lists[l], x.item) ELSE lists[l]
      BY <1>1 DEF ListsTyped
<1>5. lists' \in [Lists -> Seq(Marks \cup Items)]
      BY <1>3 DEF ListsTyped
<1>6. \A l \in Lists : lists'[l] \in Seq(Held(l))
      BY <1>3, <1>4 DEF ListsTyped
<1> QED BY <1>1, <1>4, <1>5, <1>6 DEF ListsTyped

\* The first line is shown and forgotten.
LEMMA InsertTextIs ==
    ASSUME ListsTyped, lists["status"] # <<>> => lists["pass"] # <<>>, lists' = InsertText
    PROVE  /\ ListsTyped'
           /\ lists["status"] = <<>> => lists' = lists
           /\ lists["status"] # <<>> => /\ lists'["status"] = Tail(lists["status"])
                                        /\ lists'["pass"] = Tail(lists["pass"])
           /\ \A l \in Lists \ {"status", "pass"} : lists'[l] = lists[l]
<1>1. CASE lists["status"] = <<>>
      BY <1>1 DEF InsertText, ListsTyped
<1>2. CASE lists["status"] # <<>>
  <2>1. /\ lists["status"] \in Seq(Marks \cup Items) /\ lists["status"] \in Seq(Items)
        /\ lists["pass"] \in Seq(Marks \cup Items) /\ lists["pass"] \in Seq(Marks) /\ lists["pass"] # <<>>
        BY <1>2 DEF ListsTyped, Lists, Held
  <2>2. /\ Tail(lists["status"]) \in Seq(Marks \cup Items) /\ Tail(lists["status"]) \in Seq(Items)
        /\ Tail(lists["pass"]) \in Seq(Marks \cup Items) /\ Tail(lists["pass"]) \in Seq(Marks)
        BY <1>2, <2>1
  <2>3. lists' = [lists EXCEPT !["status"] = Tail(lists["status"]), !["pass"] = Tail(lists["pass"])]
        BY <1>2 DEF InsertText
  <2>4. /\ lists'["status"] = Tail(lists["status"]) /\ lists'["pass"] = Tail(lists["pass"])
        /\ \A l \in Lists \ {"status", "pass"} : lists'[l] = lists[l]
        BY <2>3 DEF ListsTyped, Lists
  <2>5. lists' \in [Lists -> Seq(Marks \cup Items)]
        BY <2>2, <2>3 DEF ListsTyped
  <2>6. \A l \in Lists : lists'[l] \in Seq(Held(l))
        BY <2>2, <2>4 DEF ListsTyped, Held
  <2> QED BY <1>2, <2>4, <2>5, <2>6 DEF ListsTyped
<1> QED BY <1>1, <1>2

\* A new session forgets all lists but the names.
LEMMA ClearedIs ==
    ASSUME ListsTyped, lists' = Cleared
    PROVE  /\ ListsTyped'
           /\ \A l \in Lists : lists'[l] = IF l = "names" THEN lists["names"] ELSE <<>>
<1>1. Empty = [l \in Lists |-> <<>>] /\ "names" \in Lists /\ lists["names"] \in Seq(Items)
      BY ListIs DEF Empty, Lists
<1>2. \A l \in Lists : lists'[l] = IF l = "names" THEN lists["names"] ELSE <<>>
      BY <1>1 DEF Cleared
<1>3. <<>> \in Seq(Marks \cup Items) /\ <<>> \in Seq(Marks) /\ <<>> \in Seq(Items)
      OBVIOUS
<1>4. lists["names"] \in Seq(Marks \cup Items)
      BY <1>1 DEF ListsTyped
<1>5. lists' \in [Lists -> Seq(Marks \cup Items)]
      BY <1>1, <1>3, <1>4 DEF Cleared
<1>6. \A l \in Lists : lists'[l] \in Seq(Held(l))
      BY <1>1, <1>2, <1>3 DEF Held
<1> QED BY <1>2, <1>5, <1>6 DEF ListsTyped

\* The lists and the record keep to their values.
LEMMA ListsTypedStep ==
    ASSUME ListsTyped, PensTyped, Next
    PROVE  ListsTyped'
<1>1. CASE \E t \in Threads : Push(t)
  <2>1. PICK t \in Threads : Push(t)
        BY <1>1
  <2>2. /\ Head(pen[t]) \in Strokes
        /\ Head(pen[t]).list = "result" => lists' = lists
        /\ Head(pen[t]).list # "result" =>
              lists' = [lists EXCEPT ![Head(pen[t]).list] = Append(lists[Head(pen[t]).list], Head(pen[t]).item)]
        BY <2>1, PushIs
  <2>3. CASE Head(pen[t]).list = "result"
        BY <2>2, <2>3 DEF ListsTyped
  <2>4. CASE Head(pen[t]).list # "result"
        BY <2>2, <2>4, AppendIs
  <2> QED BY <2>3, <2>4
<1>2. CASE StartFunc
  <2>1. lists' = Cleared
        BY <1>2 DEF StartFunc
  <2> QED BY <2>1, ClearedIs
<1>3. CASE Timer
  <2>1. CASE lists["status"] # <<>> /\ lists["pass"] = <<>>
        BY <1>3, <2>1 DEF Timer, ListsTyped
  <2>2. CASE ~(lists["status"] # <<>> /\ lists["pass"] = <<>>)
    <3>1. lists' = InsertText
          BY <1>3, <2>2 DEF Timer
    <3> QED BY <2>2, <3>1, InsertTextIs
  <2> QED BY <2>1, <2>2
<1>4. CASE UNCHANGED lists
      BY <1>4 DEF ListsTyped
<1> QED BY <1>1, <1>2, <1>3, <1>4 DEF Next, Worker, Gui, InitDev, Note, WriteRow, EndChecks, Decide,
            Await, EnterLog, ReadNext, Save, StopFunc, Deliver, JudgeSure, JudgeDismiss, Threads

\* A line or row of a session is one.
LEMMA ItemIs ==
    ASSUME session \in 1..MaxSessions, NEW who \in Writers, NEW n \in 0 .. Checks + Confirmed
    PROVE  /\ Item(who, n) \in Items /\ Item(who, n).who = who
           /\ Item(who, n).n = n /\ Item(who, n).session = session
BY DEF Item, Items

\* While somebody is busy a session has begun.
LEMMA Begun ==
    ASSUME HistoryTyped, at # "off" \/ inbox # <<>> \/ dialog
    PROVE  session \in 1..MaxSessions
BY TestLogAssumption DEF HistoryTyped

\* The pens keep to their values.
LEMMA PensTypedStep ==
    ASSUME PensTyped, ListsTyped, CountsTyped, HistoryTyped, RecordTyped, Next
    PROVE  PensTyped'
<1> USE TestLogAssumption
<1>1. CASE \E t \in Threads : Push(t)
  <2>1. PICK t \in Threads : Push(t)
        BY <1>1
  <2> QED BY <2>1, PushIs DEF PensTyped
<1>2. <<>> \in Seq(Strokes)
      OBVIOUS
<1>3. ASSUME NEW t \in Threads, NEW s \in Seq(Strokes), pen' = [pen EXCEPT ![t] = s]
      PROVE  PensTyped'
      BY <1>3 DEF PensTyped
<1>4. CASE Note
  <2>1. session \in 1..MaxSessions /\ check \in 1..Checks /\ ok' \in BOOLEAN
        BY <1>4, Begun DEF Note, Ready, CountsTyped
  <2>2. Item("check", check) \in Items
        BY <2>1, ItemIs DEF Writers
  <2>3. Line(Item("check", check), ok') \in Seq(Strokes)
        BY <2>1, <2>2, LineIs
  <2> DEFINE s == IF LogsOpen(step) THEN Line(Item("check", check), ok') ELSE <<>>
  <2>4. s \in Seq(Strokes)
        BY <1>2, <2>3
  <2>5. pen' = [pen EXCEPT !["worker"] = s]
        BY <1>4 DEF Note, Take
  <2> HIDE DEF s
  <2> QED BY <1>3, <2>4, <2>5 DEF Threads
<1>5. CASE WriteRow
  <2>1. session \in 1..MaxSessions /\ check \in 1..Checks /\ ok \in BOOLEAN
        BY <1>5, Begun DEF WriteRow, Ready, CountsTyped
  <2>2. Item("check", check) \in Items
        BY <2>1, ItemIs DEF Writers
  <2>3. Row(Item("check", check), ok) \in Seq(Strokes)
        BY <2>1, <2>2, RowIs
  <2> DEFINE s == IF LogsOpen(step) THEN Row(Item("check", check), ok) ELSE <<>>
  <2>4. s \in Seq(Strokes)
        BY <1>2, <2>3
  <2>5. pen' = [pen EXCEPT !["worker"] = s]
        BY <1>5 DEF WriteRow, Take
  <2> HIDE DEF s
  <2> QED BY <1>3, <2>4, <2>5 DEF Threads
<1>6. CASE Decide
  <2>1. session \in 1..MaxSessions
        BY <1>6, Begun DEF Decide, Ready
  <2>2. Item("label", 0) \in Items
        BY <2>1, ItemIs DEF Writers
  <2>3. PICK printed \in BOOLEAN : pen' = [pen EXCEPT !["worker"] = Line(Item("label", 0), printed /\ result # Test_Fail)]
        BY <1>6 DEF Decide, Take
  <2>4. (printed /\ result # Test_Fail) \in BOOLEAN
        OBVIOUS
  <2>5. Line(Item("label", 0), printed /\ result # Test_Fail) \in Seq(Strokes)
        BY <2>2, <2>4, LineIs
  <2> QED BY <1>3, <2>3, <2>5 DEF Threads
<1>7. CASE Deliver
  <2>1. session \in 1..MaxSessions
        BY <1>7, Begun DEF Deliver
  <2>2. Item("address", 0) \in Items
        BY <2>1, ItemIs DEF Writers
  <2> DEFINE good == Head(inbox) = "good"
             s == AddressNote(Item("address", 0), good)
  <2>3. s \in Seq(Strokes)
        BY <2>2, AddressIs
  <2>4. pen' = pen \/ pen' = [pen EXCEPT !["gui"] = s]
        BY <1>7 DEF Deliver
  <2> HIDE DEF s
  <2> QED BY <1>3, <2>3, <2>4 DEF Threads, PensTyped
<1>8. CASE JudgeSure
  <2>1. session \in 1..MaxSessions
        BY <1>8, Begun DEF JudgeSure
  <2>2. PICK meets \in [1..Confirmed -> BOOLEAN] : pen' = [pen EXCEPT !["gui"] = ConfirmedRows(meets)]
        BY <1>8 DEF JudgeSure
  <2>3. ConfirmedRows(meets) \in Seq(Strokes)
        BY <2>1, ConfirmedIs
  <2> QED BY <1>3, <2>2, <2>3 DEF Threads
<1>9. CASE UNCHANGED pen
      BY <1>9 DEF PensTyped
<1> QED BY <1>1, <1>4, <1>5, <1>6, <1>7, <1>8, <1>9 DEF Next, Worker, Gui, InitDev, EndChecks,
            Await, EnterLog, ReadNext, Save, StartFunc, StopFunc, Timer, JudgeDismiss, Threads

\* The texts that writeLog takes are rows.
LEMMA TakenIs ==
    ASSUME ListsTyped, NEW i \in Nat \ {0}, ~(i > Len(lists["names"]) \/ i > Len(lists["data"]))
    PROVE  [name |-> At("names", i), data |-> At("data", i)] \in Entries
<1>1. lists["names"] \in Seq(Items) /\ lists["data"] \in Seq(Items)
      BY ListIs
<1>2. At("names", i) \in Items /\ At("data", i) \in Items
      BY <1>1 DEF At
<1> QED BY <1>2 DEF Entries

\* The log keeps to its values.
LEMMA LogTypedStep ==
    ASSUME LogTyped, ListsTyped, CountsTyped, Next
    PROVE  LogTyped'
<1>1. CASE EnterLog
  <2>1. lists["results"] \in Seq(Marks) /\ <<>> \in Seq(Entries)
        BY ListIs
  <2>2. num' \in Nat /\ memo' \in Seq(Entries) /\ entry'.kind = "open" /\ at' = "read"
        BY <1>1, <2>1 DEF EnterLog
  <2> QED BY <2>2 DEF LogTyped
<1>2. CASE ReadNext
  <2> DEFINE i == Len(memo) + 1
             x == [name |-> At("names", i), data |-> At("data", i)]
  <2>1. i \in Nat \ {0} /\ memo \in Seq(Entries)
        BY DEF LogTyped
  <2>2. /\ UNCHANGED <<num, entry>>
        /\ \/ at' = "outOfRange" /\ UNCHANGED memo
           \/ ~(i > Len(lists["names"]) \/ i > Len(lists["data"])) /\ memo' = Append(memo, x) /\ at' = "read"
        BY <1>2 DEF ReadNext, Ready
  <2>3. ~(i > Len(lists["names"]) \/ i > Len(lists["data"])) => x \in Entries
        BY <2>1, TakenIs
  <2> HIDE DEF i, x
  <2>4. memo' \in Seq(Entries)
        BY <2>1, <2>2, <2>3
  <2>5. at = "read"
        BY <1>2 DEF ReadNext, Ready
  <2> QED BY <2>2, <2>4, <2>5 DEF LogTyped
<1>3. CASE Save
  <2>1. <<>> \in Seq(Entries)
        OBVIOUS
  <2> QED BY <1>3, <2>1 DEF LogTyped, Save
<1>4. CASE StartFunc
  <2>1. UNCHANGED <<num, memo>> /\ (at' = at \/ at' = "initDev")
        BY <1>4 DEF StartFunc
  <2>2. entry' = IF entry.kind = "saved" THEN [kind |-> "none"] ELSE entry
        BY <1>4 DEF StartFunc
  <2>3. CASE entry.kind = "saved"
        BY <2>1, <2>2, <2>3 DEF LogTyped
  <2>4. CASE entry.kind # "saved"
        BY <2>1, <2>2, <2>4 DEF LogTyped
  <2> QED BY <2>3, <2>4
<1>5. CASE UNCHANGED <<num, memo, entry>> /\ (at' = at \/ at' # "read")
      BY <1>5 DEF LogTyped
<1> QED BY <1>1, <1>2, <1>3, <1>4, <1>5 DEF Next, Worker, Gui, InitDev, Note, WriteRow, EndChecks, Decide,
            Await, StopFunc, Deliver, JudgeSure, JudgeDismiss, Timer, Push, workerVars

\* What remains keeps to its values.
LEMMA CountsTypedStep ==
    ASSUME CountsTyped, Next
    PROVE  CountsTyped'
<1> USE TestLogAssumption DEF CountsTyped, Places
<1>1. CASE \E t \in Threads : Push(t)
      BY <1>1 DEF Push, workerVars
<1>2. CASE InitDev
      BY <1>2 DEF InitDev, Ready
<1>3. CASE Note
      BY <1>3 DEF Note, Ready
<1>4. CASE WriteRow
  <2>1. at = "row" /\ at' = "note" /\ check' = check + 1 /\ ok' = ok /\ (rows' = rows + 1 \/ rows' = rows)
        BY <1>4 DEF WriteRow, Ready
  <2>2. check \in 1..Checks /\ rows \in 0 .. Checks /\ rows < check
        BY <2>1
  <2> QED BY <2>1, <2>2
<1>5. CASE EndChecks \/ Decide \/ Await \/ EnterLog \/ ReadNext \/ Save
  <2>1. at' \in {"decide", "await", "save", "read", "outOfRange", "off"} /\ rows' = rows
        BY <1>5 DEF EndChecks, Decide, Await, EnterLog, ReadNext, Save, Ready
  <2>2. check' = check \/ check' = 0
        BY <1>5 DEF EndChecks, Decide, Await, EnterLog, ReadNext, Save
  <2>3. UNCHANGED ok \/ ok'
        BY <1>5 DEF EndChecks, Decide, Await, EnterLog, ReadNext, Save
  <2>4. ok' \in BOOLEAN
        BY <2>3
  <2> QED BY <2>1, <2>2, <2>4
<1>6. CASE StartFunc
      BY <1>6 DEF StartFunc
<1>7. CASE StopFunc \/ Timer \/ Deliver \/ JudgeSure \/ JudgeDismiss
      BY <1>7 DEF StopFunc, Timer, Deliver, JudgeSure, JudgeDismiss, workerVars
<1> QED BY <1>1, <1>2, <1>3, <1>4, <1>5, <1>6, <1>7 DEF Next, Worker, Gui, Threads

\* So does the record,
LEMMA RecordTypedStep ==
    ASSUME RecordTyped, ListsTyped, PensTyped, Next
    PROVE  RecordTyped'
<1> USE DEF RecordTyped, Steps, Results
<1>1. ASSUME NEW t \in Threads, Push(t) PROVE RecordTyped'
  <2>1. result' = result \/ (\E good \in BOOLEAN : result' = NotedResult(result, good))
    <3>1. CASE Head(pen[t]).list = "result"
      <4>1. result' = NotedResult(result, Head(pen[t]).item.good) /\ Head(pen[t]) \in Strokes
            BY <1>1, <3>1, PushIs
      <4>2. Head(pen[t]).item.good \in BOOLEAN
            BY <3>1, <4>1, StrokeIs
      <4> QED BY <4>1, <4>2
    <3>2. CASE Head(pen[t]).list # "result"
          BY <1>1, <3>2, PushIs
    <3> QED BY <3>1, <3>2
  <2>2. UNCHANGED <<step, issure>>
        BY <1>1 DEF Push
  <2>3. result' \in Results
        BY <2>1 DEF NotedResult
  <2> QED BY <2>2, <2>3
<1>2. CASE StartFunc \/ StopFunc
      BY <1>2 DEF StartFunc, StopFunc
<1>3. CASE Timer
  <2>1. (step' = step \/ step' = Test_End) /\ UNCHANGED <<result, issure>>
        BY <1>3 DEF Timer
  <2> QED BY <2>1
<1>4. CASE EndChecks
  <2>1. (result' = result \/ result' = Test_Fail) /\ UNCHANGED <<step, issure>>
        BY <1>4 DEF EndChecks
  <2> QED BY <2>1
<1>5. CASE Save \/ JudgeSure
      BY <1>5 DEF Save, JudgeSure
<1>6. CASE UNCHANGED progressVars
      BY <1>6 DEF progressVars
<1> QED BY <1>1, <1>2, <1>3, <1>4, <1>5, <1>6 DEF Next, Worker, Gui, InitDev, Note, WriteRow, Decide,
            Await, EnterLog, ReadNext, Deliver, JudgeDismiss, Threads

\* the mailbox of the GUI thread,
LEMMA SlotsTypedStep ==
    ASSUME SlotsTyped, Next
    PROVE  SlotsTyped'
<1>1. inbox \in Seq(Signals) /\ dialog \in BOOLEAN
      BY DEF SlotsTyped
<1>2. \A x \in Signals : Append(inbox, x) \in Seq(Signals)
      BY <1>1
<1>3. inbox # <<>> => Tail(inbox) \in Seq(Signals)
      BY <1>1
<1>4. CASE InitDev
      BY <1>1, <1>2, <1>4 DEF InitDev, SlotsTyped, Signals
<1>5. CASE EndChecks
      BY <1>1, <1>2, <1>5 DEF EndChecks, SlotsTyped, Signals
<1>6. CASE Deliver
      BY <1>1, <1>3, <1>6 DEF Deliver, SlotsTyped
<1>7. CASE JudgeSure \/ JudgeDismiss
      BY <1>1, <1>7 DEF JudgeSure, JudgeDismiss, SlotsTyped
<1>8. CASE UNCHANGED guiVars
      BY <1>8 DEF guiVars, SlotsTyped
<1> QED BY <1>4, <1>5, <1>6, <1>7, <1>8 DEF Next, Worker, Gui, Push, Note, WriteRow, Decide,
            Await, EnterLog, ReadNext, Save, StartFunc, StopFunc, Timer, guiVars

\* and what the properties remember.
LEMMA HistoryTypedStep ==
    ASSUME HistoryTyped, ListsTyped, PensTyped, RecordTyped, Next
    PROVE  HistoryTyped'
<1> USE TestLogAssumption DEF HistoryTyped
<1>1. CASE StartFunc
  <2>1. session' = session + 1 /\ session < MaxSessions
        BY <1>1 DEF StartFunc
  <2>2. torn' = FALSE \/ torn' = TRUE
        BY <1>1 DEF StartFunc
  <2>3. torn' \in BOOLEAN
        BY <2>2
  <2>4. session' \in 1 .. MaxSessions
        BY <2>1
  <2> QED BY <2>3, <2>4
<1>2. CASE ~StartFunc
  <2>1. session' = session
        BY <1>2 DEF Next, Worker, Gui, Push, InitDev, Note, WriteRow, EndChecks, Decide,
            Await, EnterLog, ReadNext, Save, StopFunc, Timer, Deliver, JudgeSure, JudgeDismiss
  <2>2. Observe
        BY <1>2 DEF Next, Worker, Gui, Push, InitDev, Note, WriteRow, EndChecks, Decide,
            Await, EnterLog, ReadNext, Save, StopFunc, Timer, Deliver, JudgeSure, JudgeDismiss
  <2>3. torn' \in BOOLEAN
    <3>1. Clash(pen', at') \in BOOLEAN
          BY DEF Clash
    <3> QED BY <2>2, <3>1 DEF Observe
  <2>4. ASSUME session = 0
        PROVE  StopFunc
    <3>1. /\ at = "off" /\ inbox = <<>> /\ ~dialog /\ step = Test_End
          /\ lists["status"] = <<>> /\ \A t \in Threads : pen[t] = <<>>
          BY <2>4 DEF Empty, Lists
    <3>2. ~Worker /\ ~Push("gui")
          BY <3>1 DEF Worker, Ready, Push, InitDev, Note, WriteRow, EndChecks, Decide,
            Await, EnterLog, ReadNext, Save, Threads
    <3>3. ~Timer
          BY <3>1 DEF Timer, InsertText, Test_Over, Test_End
    <3> QED BY <1>2, <3>1, <3>2, <3>3 DEF Next, Gui, Deliver, JudgeSure, JudgeDismiss
  <2>5. session # 0
        BY <2>4 DEF StopFunc
  <2> QED BY <2>1, <2>3, <2>5
<1> QED BY <1>1, <1>2

\* The worker moves on only when it has laid down its pen.
LEMMA RestingStep ==
    ASSUME Resting, Next, PensTyped
    PROVE  Resting'
<1> USE DEF Resting
<1>1. ASSUME NEW t \in Threads, Push(t) PROVE Resting'
  <2>1. at' = at /\ pen[t] # <<>> /\ pen' = [pen EXCEPT ![t] = Tail(pen[t])]
        BY <1>1 DEF Push, workerVars
  <2>2. t # "worker" => pen'["worker"] = pen["worker"]
        BY <2>1 DEF PensTyped
  <2> QED BY <2>1, <2>2
<1>2. CASE Note \/ WriteRow \/ Decide
      BY <1>2 DEF Note, WriteRow, Decide
<1>3. CASE InitDev \/ EndChecks \/ Await \/ EnterLog \/ ReadNext \/ Save
      BY <1>3 DEF InitDev, EndChecks, Await, EnterLog, ReadNext, Save, Ready
<1>4. CASE StartFunc \/ StopFunc \/ Timer \/ JudgeDismiss
      BY <1>4 DEF StartFunc, StopFunc, Timer, JudgeDismiss, workerVars
<1>5. CASE Deliver \/ JudgeSure
  <2>1. pen'["worker"] = pen["worker"] /\ at' = at
        BY <1>5 DEF Deliver, JudgeSure, workerVars, PensTyped, Threads
  <2> QED BY <2>1
<1> QED BY <1>1, <1>2, <1>3, <1>4, <1>5 DEF Next, Worker, Gui, Threads

\* All of it in one step.
LEMMA TypedStep ==
    ASSUME Typed, [Next]_vars
    PROVE  Typed'
<1>1. CASE Next
      BY <1>1, RecordTypedStep, ListsTypedStep, PensTypedStep, CountsTypedStep, LogTypedStep, SlotsTypedStep,
         HistoryTypedStep, RestingStep DEF Typed
<1>2. CASE UNCHANGED vars
      BY <1>2 DEF vars, progressVars, workerVars, guiVars, historyVars, Typed, RecordTyped, ListsTyped,
         PensTyped, CountsTyped, LogTyped, SlotsTyped, HistoryTyped, Resting
<1> QED BY <1>1, <1>2

\* Every variable keeps to its values.
LEMMA TypedAlways == Spec => []Typed
<1>1. Init => Typed
  <2> SUFFICES ASSUME Init PROVE Typed
      OBVIOUS
  <2> USE TestLogAssumption DEF Init
  <2>1. RecordTyped
        BY DEF RecordTyped, Steps, Results
  <2>2. ListsTyped
    <3>1. <<>> \in Seq(Marks \cup Items) /\ <<>> \in Seq(Marks) /\ <<>> \in Seq(Items)
          OBVIOUS
    <3> QED BY <3>1 DEF ListsTyped, Empty, Held
  <2>3. PensTyped
    <3>1. <<>> \in Seq(Strokes)
          OBVIOUS
    <3> QED BY <3>1 DEF PensTyped
  <2>4. CountsTyped
        BY DEF CountsTyped, Places
  <2>5. LogTyped
    <3>1. <<>> \in Seq(Entries)
          OBVIOUS
    <3> QED BY <3>1 DEF LogTyped
  <2>6. SlotsTyped
    <3>1. <<>> \in Seq(Signals)
          OBVIOUS
    <3> QED BY <3>1 DEF SlotsTyped
  <2>7. HistoryTyped
    <3>1. session = 0 /\ 0 \in 0 .. MaxSessions /\ at = "off" /\ inbox = <<>> /\ lists = Empty /\ step = Test_End
          OBVIOUS
    <3>2. torn = FALSE /\ dialog = FALSE
          OBVIOUS
    <3>3. pen = [t \in Threads |-> <<>>]
          OBVIOUS
    <3> HIDE DEF Init
    <3> QED BY <3>1, <3>2, <3>3 DEF HistoryTyped
  <2>8. Resting
        BY DEF Resting, Threads
  <2> QED BY <2>1, <2>2, <2>3, <2>4, <2>5, <2>6, <2>7, <2>8 DEF Typed
<1> QED BY <1>1, TypedStep, PTL DEF Spec

-----------------------------------------------------------------------------
(* What lies ahead of a pen.                                                *)

\* In a run that stays alone both threads kept apart before the step as well.
LEMMA StaysAlone ==
    ASSUME HistoryTyped, Next, ~StartFunc, ~torn'
    PROVE  ~torn /\ ~Clash(pen', at') /\ session' = session
<1>1. Observe /\ session' = session
      BY DEF Next, Worker, Gui, Push, InitDev, Note, WriteRow, EndChecks, Decide,
            Await, EnterLog, ReadNext, Save, StopFunc, Timer, Deliver, JudgeSure, JudgeDismiss
<1> QED BY <1>1 DEF Observe

\* A line is written to its end.
LEMMA LineScript ==
    ASSUME NEW of \in Items, NEW good \in BOOLEAN, of.who \in {"check", "label"}
    PROVE  Script(Line(of, good))
<1> DEFINE s == Line(of, good)
<1>1. /\ s \in Seq(Strokes) /\ Len(s) = 3 /\ s[1].list = "pass" /\ s[2].list = "status"
      /\ s[3].list = "result" /\ Of(s[1]) = of /\ Of(s[2]) = of /\ Of(s[3]) = of
      BY LineIs
<1> HIDE DEF s
<1>2. Follows(s[1], s[2]) /\ Follows(s[2], s[3]) /\ Final(s[3])
      BY <1>1 DEF Follows, Final
<1>3. \A i \in 1 .. Len(s) - 1 : Follows(s[i], s[i + 1])
  <2> SUFFICES ASSUME NEW i \in 1 .. Len(s) - 1 PROVE Follows(s[i], s[i + 1])
      OBVIOUS
  <2>1. i = 1 \/ i = 2
        BY <1>1
  <2> QED BY <1>2, <2>1
<1>4. ASSUME NEW i \in 1 .. Len(s), NEW j \in 1 .. Len(s), i < j, s[i].list = "data", s[j].list = "data"
      PROVE  Of(s[i]).n < Of(s[j]).n
  <2>1. i = 1 \/ i = 2
        BY <1>1, <1>4
  <2> QED BY <1>1, <1>4, <2>1
<1> QED BY <1>1, <1>2, <1>3, <1>4 DEF Script, s

\* So is the row of a check.
LEMMA RowScript ==
    ASSUME NEW of \in Items, NEW good \in BOOLEAN, of.who = "check"
    PROVE  Script(Row(of, good))
<1> DEFINE s == Row(of, good)
<1>1. /\ s \in Seq(Strokes) /\ Len(s) = 3 /\ s[1].list = "results" /\ s[2].list = "data"
      /\ s[3].list = "names" /\ Of(s[1]) = of /\ Of(s[2]) = of /\ Of(s[3]) = of
      BY RowIs
<1> HIDE DEF s
<1>2. Follows(s[1], s[2]) /\ Follows(s[2], s[3]) /\ Final(s[3])
      BY <1>1 DEF Follows, Final
<1>3. \A i \in 1 .. Len(s) - 1 : Follows(s[i], s[i + 1])
  <2> SUFFICES ASSUME NEW i \in 1 .. Len(s) - 1 PROVE Follows(s[i], s[i + 1])
      OBVIOUS
  <2>1. i = 1 \/ i = 2
        BY <1>1
  <2> QED BY <1>2, <2>1
<1>4. ASSUME NEW i \in 1 .. Len(s), NEW j \in 1 .. Len(s), i < j, s[i].list = "data", s[j].list = "data"
      PROVE  Of(s[i]).n < Of(s[j]).n
  <2>1. i = 2 /\ j = 3
        BY <1>1, <1>4
  <2> QED BY <1>1, <1>4, <2>1
<1> QED BY <1>1, <1>2, <1>3, <1>4 DEF Script, s

\* So are line and row of the address.
LEMMA LineAndRowScript ==
    ASSUME NEW of \in Items, NEW good \in BOOLEAN, of.who = "address"
    PROVE  Script(Line(of, good) \o Row(of, good))
<1> DEFINE s == Line(of, good) \o Row(of, good)
<1>1. /\ s \in Seq(Strokes) /\ Len(s) = 6
      /\ s[1].list = "pass" /\ s[2].list = "status" /\ s[3].list = "result"
      /\ s[4].list = "results" /\ s[5].list = "data" /\ s[6].list = "names"
      /\ s[3].item = s[4].item
      /\ \A i \in 1..6 : Of(s[i]) = of
      BY LineAndRow
<1> HIDE DEF s
<1>2. Of(s[1]) = of /\ Of(s[2]) = of /\ Of(s[3]) = of /\ Of(s[4]) = of /\ Of(s[5]) = of /\ Of(s[6]) = of
      BY <1>1
<1>3. /\ Follows(s[1], s[2]) /\ Follows(s[2], s[3]) /\ Follows(s[3], s[4])
      /\ Follows(s[4], s[5]) /\ Follows(s[5], s[6]) /\ Final(s[6])
      BY <1>1, <1>2 DEF Follows, Final
<1>4. \A i \in 1 .. Len(s) - 1 : Follows(s[i], s[i + 1])
  <2> SUFFICES ASSUME NEW i \in 1 .. Len(s) - 1 PROVE Follows(s[i], s[i + 1])
      OBVIOUS
  <2>1. i = 1 \/ i = 2 \/ i = 3 \/ i = 4 \/ i = 5
        BY <1>1
  <2> QED BY <1>3, <2>1
<1>5. ASSUME NEW i \in 1 .. Len(s), NEW j \in 1 .. Len(s), i < j, s[i].list = "data", s[j].list = "data"
      PROVE  Of(s[i]).n < Of(s[j]).n
  <2>1. \A k \in 1 .. Len(s) : s[k].list = "data" => k = 5
    <3> SUFFICES ASSUME NEW k \in 1 .. Len(s), s[k].list = "data" PROVE k = 5
        OBVIOUS
    <3>1. k = 1 \/ k = 2 \/ k = 3 \/ k = 4 \/ k = 5 \/ k = 6
          BY <1>1
    <3> QED BY <1>1, <3>1
  <2> QED BY <1>5, <2>1
<1> QED BY <1>1, <1>3, <1>4, <1>5 DEF Script, s

\* And all that is noted of it.
LEMMA AddressScript ==
    ASSUME NEW of \in Items, NEW good \in BOOLEAN, of.who = "address"
    PROVE  Script(AddressNote(of, good))
<1> DEFINE l == Line(of, good)
           n == Line(of, good) \o Row(of, good)
           s == l \o n
<1>1. n \in Seq(Strokes) /\ Len(n) = 6 /\ n[1].list = "pass" /\ Of(n[1]) = of
      BY LineAndRow
<1>2. /\ l \in Seq(Strokes) /\ Len(l) = 3 /\ l[1].list = "pass" /\ l[2].list = "status" /\ l[3].list = "result"
      /\ Of(l[1]) = of /\ Of(l[2]) = of /\ Of(l[3]) = of
      BY LineIs
<1>3. Script(n)
      BY LineAndRowScript
<1>4. AddressNote(of, good) = IF good THEN n ELSE s
      BY DEF AddressNote
<1> HIDE DEF l, n
<1>5. /\ s \in Seq(Strokes) /\ Len(s) = 9
      /\ \A i \in 1..9 : s[i] = IF i <= 3 THEN l[i] ELSE n[i - 3]
  <2>1. l \in Seq(Strokes) /\ n \in Seq(Strokes) /\ Len(l) = 3 /\ Len(n) = 9 - 3
        BY <1>1, <1>2
  <2> HIDE <1>1, <1>2
  <2>2. Joined(l, n, 9)
        BY <2>1, JoinIs
  <2> QED BY <2>2 DEF Joined
<1> HIDE DEF s
<1>6. s[1] = l[1] /\ s[2] = l[2] /\ s[3] = l[3] /\ s[4] = n[1] /\ s[9] = n[6]
      BY <1>5
<1>7. Follows(s[1], s[2]) /\ Follows(s[2], s[3]) /\ Follows(s[3], s[4])
      BY <1>1, <1>2, <1>6 DEF Follows
<1>8. ASSUME NEW i \in 1 .. Len(s) - 1 PROVE Follows(s[i], s[i + 1])
  <2>1. CASE i <= 3
    <3>1. i = 1 \/ i = 2 \/ i = 3
          BY <1>5, <2>1
    <3> QED BY <1>7, <3>1
  <2>2. CASE ~(i <= 3)
    <3>1. i - 3 \in 1 .. Len(n) - 1 /\ s[i] = n[i - 3] /\ s[i + 1] = n[(i - 3) + 1]
          BY <1>1, <1>5, <2>2
    <3> QED BY <1>3, <3>1 DEF Script
  <2> QED BY <2>1, <2>2
<1>9. Final(s[Len(s)])
  <2>1. n # <<>>
    <3>1. Len(n) = 6
          BY <1>1
    <3>2. Len(<<>>) = 0
          OBVIOUS
    <3> QED BY <3>1, <3>2
  <2> QED BY <1>1, <1>3, <1>5, <1>6, <2>1 DEF Script
<1>10. ASSUME NEW i \in 1 .. Len(s), NEW j \in 1 .. Len(s), i < j, s[i].list = "data", s[j].list = "data"
       PROVE  Of(s[i]).n < Of(s[j]).n
  <2>1. i \notin {1, 2, 3}
        BY <1>2, <1>6, <1>10
  <2>2. i - 3 \in 1 .. Len(n) /\ j - 3 \in 1 .. Len(n) /\ s[i] = n[i - 3] /\ s[j] = n[j - 3] /\ i - 3 < j - 3
        BY <1>1, <1>5, <1>10, <2>1
  <2> QED BY <1>3, <1>10, <2>2 DEF Script
<1>11. Script(s)
       BY <1>8, <1>9, <1>10 DEF Script
<1> QED BY <1>3, <1>4, <1>11

\* Where one row of the dialog ends and the next begins.
LEMMA NextThird ==
    ASSUME NEW k \in Nat \ {0}
    PROVE  /\ (k - 1) % 3 = 2 => /\ ((k + 1) - 1) % 3 = 0
                                 /\ ((k + 1) - 1) \div 3 = ((k - 1) \div 3) + 1
           /\ (k - 1) % 3 # 2 => /\ ((k + 1) - 1) % 3 = ((k - 1) % 3) + 1
                                 /\ ((k + 1) - 1) \div 3 = (k - 1) \div 3
OBVIOUS

\* Rows whose texts stand at different places are of different numbers.
LEMMA RisingThirds ==
    ASSUME NEW i \in Nat \ {0}, NEW j \in Nat \ {0}, i < j, (i - 1) % 3 = 0, (j - 1) % 3 = 0
    PROVE  (i - 1) \div 3 < (j - 1) \div 3
OBVIOUS

\* So are the rows of the dialog, in the order of their numbers.
LEMMA ConfirmedScript ==
    ASSUME NEW meets \in [1..Confirmed -> BOOLEAN], session \in 1..MaxSessions
    PROVE  Script(ConfirmedRows(meets))
<1> USE TestLogAssumption
<1> DEFINE s == ConfirmedRows(meets)
<1>1. /\ s \in Seq(Strokes) /\ Len(s) = 3 * Confirmed
      /\ \A k \in 1 .. 3 * Confirmed :
           /\ (k - 1) \div 3 + 1 \in 1..Confirmed
           /\ Of(s[k]) = Item("dialog", (k - 1) \div 3 + 1)
           /\ s[k].list = IF (k - 1) % 3 = 0 THEN "data" ELSE IF (k - 1) % 3 = 1 THEN "names" ELSE "results"
      BY ConfirmedIs
<1> HIDE DEF s
<1>2. ASSUME NEW k \in 1 .. 3 * Confirmed
      PROVE  k \in Nat \ {0} /\ (k - 1) % 3 \in 0..2 /\ Of(s[k]).who = "dialog" /\ Of(s[k]).n = (k - 1) \div 3 + 1
      BY <1>1, Thirds DEF Item
<1>3. ASSUME NEW i \in 1 .. Len(s) - 1 PROVE Follows(s[i], s[i + 1])
  <2>1. i \in 1 .. 3 * Confirmed /\ i + 1 \in 1 .. 3 * Confirmed
        BY <1>1, <1>3
  <2>2. /\ (i - 1) % 3 \in 0..2 /\ Of(s[i]).who = "dialog" /\ i \in Nat \ {0}
        /\ Of(s[i]) = Item("dialog", (i - 1) \div 3 + 1) /\ Of(s[i + 1]) = Item("dialog", ((i + 1) - 1) \div 3 + 1)
        BY <1>1, <1>2, <2>1
  <2> DEFINE m == (i - 1) % 3
             n == ((i + 1) - 1) % 3
  <2>3. /\ s[i].list = IF m = 0 THEN "data" ELSE IF m = 1 THEN "names" ELSE "results"
        /\ s[i + 1].list = IF n = 0 THEN "data" ELSE IF n = 1 THEN "names" ELSE "results"
        BY <1>1, <2>1
  <2>4. /\ m = 2 => n = 0
        /\ m # 2 => n = m + 1 /\ ((i + 1) - 1) \div 3 = (i - 1) \div 3
        BY <2>2, NextThird
  <2>5. m \in 0..2
        BY <2>2
  <2> HIDE DEF m, n
  <2>6. CASE m = 2
    <3>1. s[i].list = "results" /\ s[i + 1].list = "data"
          BY <2>3, <2>4, <2>6
    <3>2. Of(s[i + 1]).who = "dialog"
          BY <2>2 DEF Item
    <3> QED BY <2>2, <3>1, <3>2 DEF Follows
  <2>7. CASE m # 2
    <3>1. Of(s[i + 1]) = Of(s[i]) /\ n = m + 1
          BY <2>2, <2>4, <2>7
    <3>2. \/ s[i].list = "data" /\ s[i + 1].list = "names"
          \/ s[i].list = "names" /\ s[i + 1].list = "results"
          BY <2>3, <2>5, <2>7, <3>1
    <3> QED BY <2>2, <3>1, <3>2 DEF Follows
  <2> QED BY <2>6, <2>7
<1>4. ASSUME NEW i \in 1 .. Len(s), NEW j \in 1 .. Len(s), i < j, s[i].list = "data", s[j].list = "data"
      PROVE  Of(s[i]).n < Of(s[j]).n
  <2>1. i \in 1 .. 3 * Confirmed /\ j \in 1 .. 3 * Confirmed
        BY <1>1, <1>4
  <2>2. (i - 1) % 3 = 0 /\ (j - 1) % 3 = 0
        BY <1>1, <1>4, <2>1
  <2>3. (i - 1) \div 3 < (j - 1) \div 3
        BY <1>2, <1>4, <2>1, <2>2, RisingThirds
  <2>4. (i - 1) \div 3 + 1 \in 1..Confirmed /\ (j - 1) \div 3 + 1 \in 1..Confirmed
        BY <1>1, <2>1
  <2>5. Of(s[i]).n = (i - 1) \div 3 + 1 /\ Of(s[j]).n = (j - 1) \div 3 + 1
        BY <1>2, <2>1
  <2> QED BY <2>3, <2>4, <2>5
<1>5. ASSUME s # <<>> PROVE Final(s[Len(s)])
  <2>1. 3 * Confirmed \in Nat \ {0} /\ 3 * Confirmed \in 1 .. 3 * Confirmed
        BY <1>1, <1>5
  <2>2. (3 * Confirmed - 1) % 3 = 2
        OBVIOUS
  <2>3. s[3 * Confirmed].list = "results" /\ Of(s[3 * Confirmed]).who = "dialog"
        BY <1>1, <1>2, <2>1, <2>2
  <2> QED BY <1>1, <2>3 DEF Final
<1> QED BY <1>3, <1>4, <1>5 DEF Script, s

-----------------------------------------------------------------------------
(* A run that is alone stays ordered: the steps.                            *)

\* A step within a run that was alone and still is.
Goes == /\ Typed /\ Typed' /\ ~torn /\ ~torn' /\ Alone /\ Next /\ ~StartFunc
        /\ session' = session /\ ~Clash(pen', at')

\* A stroke: what the thread does next follows upon it, the other thread does not move.
LEMMA StrokeMade ==
    ASSUME Goes, NEW t \in Threads, Push(t)
    PROVE  /\ pen[t] # <<>> /\ Head(pen[t]) \in Strokes
           /\ \A l \in Lists : Writes(t, l) <=> Head(pen[t]).list = l
           /\ pen'[t] # <<>> => /\ Follows(Head(pen[t]), Head(pen'[t])) /\ Head(pen'[t]) \in Strokes
                                /\ Head(pen'[t]) = pen[t][2] /\ 2 \in 1 .. Len(pen[t])
           /\ pen'[t] = <<>> => Final(Head(pen[t]))
           /\ \A u \in Threads \ {t} : pen'[u] = pen[u] /\ \A l \in Lists : Writes(u, l)' <=> Writes(u, l)
           /\ UNCHANGED <<step, at, check, ok, num, memo, inbox, dialog, entry, rows, session>>
<1>1. /\ pen[t] \in Seq(Strokes) /\ pen[t] # <<>> /\ Head(pen[t]) \in Strokes
      /\ \A u \in Threads : pen'[u] = IF u = t THEN Tail(pen[t]) ELSE pen[u]
      BY PushIs DEF Goes, Typed
<1>2. Script(pen[t])
      BY DEF Goes, Alone, Pens
<1>3. /\ pen'[t] = <<>> => Final(Head(pen[t]))
      /\ pen'[t] # <<>> => Follows(Head(pen[t]), Head(pen'[t])) /\ Head(pen'[t]) = pen[t][2] /\ Len(pen[t]) >= 2
      BY <1>1, <1>2, ScriptTail
<1>4. pen'[t] # <<>> => Head(pen'[t]) \in Strokes /\ 2 \in 1 .. Len(pen[t])
  <2>1. pen'[t] \in Seq(Strokes)
        BY DEF Goes, Typed, PensTyped
  <2>2. Len(pen[t]) \in Nat
        BY <1>1
  <2> QED BY <1>3, <2>1, <2>2
<1>5. \A u \in Threads \ {t} : pen'[u] = pen[u]
      BY <1>1
<1> QED BY <1>1, <1>3, <1>4, <1>5 DEF Push, Writes, workerVars, guiVars

\* The two threads never stroke one list.
LEMMA Apart ==
    ASSUME Pens, PensTyped, NEW t \in Threads, NEW u \in Threads, t # u,
           NEW i \in 1 .. Len(pen[t]), NEW j \in 1 .. Len(pen[u])
    PROVE  pen[t][i].list # pen[u][j].list
<1>1. /\ pen[t] \in Seq(Strokes) /\ pen[u] \in Seq(Strokes)
      BY DEF PensTyped
<1>2. i \in DOMAIN pen[t] /\ j \in DOMAIN pen[u]
      BY <1>1
<1>3. \A a \in DOMAIN pen["worker"], b \in DOMAIN pen["gui"] : pen["worker"][a].list # pen["gui"][b].list
      BY DEF Pens, Clash
<1>4. (t = "worker" /\ u = "gui") \/ (t = "gui" /\ u = "worker")
      BY DEF Threads
<1> QED BY <1>2, <1>3, <1>4

\* Nor do the one that is next and any other of the other thread.
LEMMA HeadApart ==
    ASSUME Pens, PensTyped, NEW t \in Threads, NEW u \in Threads, t # u, NEW l, Writes(u, l),
           NEW i \in 1 .. Len(pen[t])
    PROVE  pen[t][i].list # l
<1>1. pen[u] \in Seq(Strokes) /\ pen[u] # <<>> /\ Head(pen[u]).list = l
      BY DEF PensTyped, Writes
<1>2. Len(pen[u]) \in Nat \ {0} /\ Head(pen[u]) = pen[u][1]
      BY <1>1, TailIs
<1>3. 1 \in 1 .. Len(pen[u])
      BY <1>2
<1> QED BY <1>1, <1>2, <1>3, Apart

\* The worker writes what belongs to its place.
LEMMA WorkerWritesStep ==
    ASSUME Goes
    PROVE  WorkerWrites'
<1> DEFINE w == pen["worker"]
<1>1. w \in Seq(Strokes) /\ w' \in Seq(Strokes) /\ WorkerWrites /\ session' = session
      BY DEF Goes, Typed, PensTyped, Threads, Alone, Pens
<1>2. ASSUME NEW t \in Threads, Push(t) PROVE WorkerWrites'
  <2>1. UNCHANGED <<at, rows, session>> /\ pen[t] # <<>>
        /\ \A u \in Threads : pen'[u] = IF u = t THEN Tail(pen[t]) ELSE pen[u]
        BY <1>2, StrokeMade, PushIs DEF Goes, Typed
  <2>2. ASSUME NEW i \in 1 .. Len(w') PROVE \E j \in 1 .. Len(w) : w'[i] = w[j]
    <3>1. CASE t = "worker"
      <4>1. w # <<>> /\ w' = Tail(w)
            BY <2>1, <3>1
      <4>2. Len(w) \in Nat \ {0} /\ Len(w') = Len(w) - 1 /\ i + 1 \in 1 .. Len(w) /\ w'[i] = w[i + 1]
            BY <1>1, <4>1, <2>2, TailIs
      <4> QED BY <4>2
    <3>2. CASE t # "worker"
          BY <2>1, <3>2 DEF Threads
    <3> QED BY <3>1, <3>2
  <2> QED BY <1>1, <2>1, <2>2 DEF WorkerWrites, Item
<1>3. CASE Note
  <2>1. session \in 1..MaxSessions /\ check \in 1..Checks /\ ok' \in BOOLEAN
        BY <1>3, Begun DEF Goes, Typed, Note, Ready, CountsTyped
  <2>2. Item("check", check) \in Items
        BY <2>1, ItemIs, TestLogAssumption DEF Writers
  <2> DEFINE s == Line(Item("check", check), ok')
  <2>3. /\ s \in Seq(Strokes) /\ Len(s) = 3 /\ s[1].list = "pass" /\ s[2].list = "status" /\ s[3].list = "result"
        /\ \A i \in 1..3 : Of(s[i]) = Item("check", check)
        BY <2>1, <2>2, LineIs
  <2>4. (w' = s \/ w' = <<>>) /\ at' = "row"
        BY <1>3 DEF Note, Take, Goes, Typed, PensTyped, Threads
  <2> HIDE DEF s
  <2>5. ASSUME NEW i \in 1 .. Len(w')
        PROVE  /\ Of(w'[i]).session = session' /\ Of(w'[i]).who = "check"
               /\ w'[i].list \in {"pass", "status", "result"}
    <3>1. w' = s
          BY <2>4, <2>5
    <3>4. Len(s) = 3
          BY <2>3
    <3>0. Len(w') = 3
          BY <3>1, <3>4
    <3>2. i = 1 \/ i = 2 \/ i = 3
          BY <3>0
    <3> QED BY <1>1, <2>3, <3>1, <3>2 DEF Item
  <2> QED BY <2>4, <2>5 DEF WorkerWrites
<1>4. CASE WriteRow
  <2>1. session \in 1..MaxSessions /\ check \in 1..Checks /\ ok \in BOOLEAN
        BY <1>4, Begun DEF Goes, Typed, WriteRow, Ready, CountsTyped
  <2>2. Item("check", check) \in Items
        BY <2>1, ItemIs, TestLogAssumption DEF Writers
  <2> DEFINE s == Row(Item("check", check), ok)
  <2>3. /\ s \in Seq(Strokes) /\ Len(s) = 3 /\ s[1].list = "results" /\ s[2].list = "data" /\ s[3].list = "names"
        /\ \A i \in 1..3 : Of(s[i]) = Item("check", check)
        BY <2>1, <2>2, RowIs
  <2>4. ((w' = s /\ LogsOpen(step) /\ rows' = rows + 1) \/ w' = <<>>) /\ at = "row" /\ at' = "note"
        BY <1>4 DEF WriteRow, Ready, Take, Goes, Typed, PensTyped, Threads
  <2> HIDE DEF s
  <2>5. LogsOpen(step) => rows = check - 1
        BY <2>4 DEF Goes, Alone, AllThere
  <2>6. ASSUME NEW i \in 1 .. Len(w')
        PROVE  /\ Of(w'[i]).session = session' /\ Of(w'[i]) = Item("check", rows)' /\ rows' > 0
               /\ w'[i].list \in {"results", "data", "names"}
    <3>1. w' = s /\ rows' = check
          BY <2>1, <2>4, <2>5, <2>6
    <3>4. Len(s) = 3
          BY <2>3
    <3>0. Len(w') = 3
          BY <3>1, <3>4
    <3>2. i = 1 \/ i = 2 \/ i = 3
          BY <3>0
    <3>3. Of(w'[i]) = Item("check", check)
          BY <2>3, <3>1, <3>2
    <3> QED BY <1>1, <2>1, <2>3, <3>1, <3>2, <3>3 DEF Item
  <2> QED BY <2>4, <2>6 DEF WorkerWrites
<1>5. CASE Decide
  <2>1. session \in 1..MaxSessions
        BY <1>5, Begun DEF Goes, Typed, Decide, Ready
  <2>2. Item("label", 0) \in Items
        BY <2>1, ItemIs, TestLogAssumption DEF Writers
  <2>3. PICK printed \in BOOLEAN : pen' = [pen EXCEPT !["worker"] = Line(Item("label", 0), printed /\ result # Test_Fail)]
        BY <1>5 DEF Decide, Take
  <2>4. (printed /\ result # Test_Fail) \in BOOLEAN
        OBVIOUS
  <2> DEFINE s == Line(Item("label", 0), printed /\ result # Test_Fail)
  <2>5. /\ s \in Seq(Strokes) /\ Len(s) = 3 /\ s[1].list = "pass" /\ s[2].list = "status" /\ s[3].list = "result"
        /\ \A i \in 1..3 : Of(s[i]) = Item("label", 0)
        BY <2>2, <2>4, LineIs
  <2>6. w' = s /\ at' = "await"
        BY <1>5, <2>3 DEF Decide, Goes, Typed, PensTyped, Threads
  <2> HIDE DEF s
  <2>7. ASSUME NEW i \in 1 .. Len(w')
        PROVE  /\ Of(w'[i]).session = session' /\ Of(w'[i]).who = "label"
               /\ w'[i].list \in {"pass", "status", "result"}
    <3>0. Len(w') = 3
          BY <2>5, <2>6
    <3>1. i = 1 \/ i = 2 \/ i = 3
          BY <3>0
    <3> QED BY <1>1, <2>5, <2>6, <3>1 DEF Item
  <2> QED BY <2>6, <2>7 DEF WorkerWrites
<1>6. CASE w = <<>> /\ w' = <<>>
      BY <1>6 DEF WorkerWrites
<1>7. CASE UNCHANGED <<at, rows>> /\ w' = w
      BY <1>1, <1>7 DEF WorkerWrites, Item
<1>8. CASE InitDev \/ EndChecks \/ Await \/ EnterLog \/ ReadNext \/ Save
  <2>1. w = <<>> /\ w' = <<>>
        BY <1>8 DEF InitDev, EndChecks, Await, EnterLog, ReadNext, Save, Ready
  <2> QED BY <1>6, <2>1
<1>9. CASE StopFunc \/ Deliver \/ JudgeSure \/ JudgeDismiss
  <2>1. UNCHANGED <<at, rows>> /\ w' = w
        BY <1>9 DEF StopFunc, Deliver, JudgeSure, JudgeDismiss, workerVars, Goes, Typed, PensTyped, Threads
  <2> QED BY <1>7, <2>1
<1>10. CASE Timer
  <2>1. ~(lists["status"] # <<>> /\ lists["pass"] = <<>>)
    <3>1. lists["status"] \in Seq(Items) /\ lists["pass"] \in Seq(Marks)
          BY ListIs DEF Goes, Typed
    <3>2. \A i \in 1 .. Len(lists["status"]) : i <= Len(lists["pass"])
          BY DEF Goes, Alone, Lines
    <3>3. lists["status"] # <<>> => 1 \in 1 .. Len(lists["status"])
          BY <3>1
    <3> QED BY <3>1, <3>2, <3>3
  <2>2. UNCHANGED <<at, rows>> /\ w' = w
        BY <1>10, <2>1 DEF Timer
  <2> QED BY <1>7, <2>2
<1> QED BY <1>2, <1>3, <1>4, <1>5, <1>8, <1>9, <1>10 DEF Goes, Next, Worker, Gui, Threads

\* Who takes up a pen.
LEMMA PenKept ==
    ASSUME Goes
    PROVE  /\ pen'["gui"] = pen["gui"] \/ Push("gui") \/ Deliver \/ JudgeSure
           /\ pen'["worker"] = pen["worker"] \/ Push("worker") \/ Note \/ WriteRow \/ Decide
<1>1. CASE Push("worker") \/ Push("gui")
      BY <1>1 DEF Push, Goes, Typed, PensTyped, Threads
<1>2. CASE Note \/ WriteRow \/ Decide
      BY <1>2 DEF Note, WriteRow, Decide, Take, Goes, Typed, PensTyped, Threads
<1>3. CASE InitDev \/ EndChecks \/ Await \/ EnterLog \/ ReadNext \/ Save
      BY <1>3 DEF InitDev, EndChecks, Await, EnterLog, ReadNext, Save
<1>4. CASE StopFunc \/ Timer \/ JudgeDismiss \/ Deliver \/ JudgeSure
      BY <1>4 DEF StopFunc, Timer, JudgeDismiss, Deliver, JudgeSure, Goes, Typed, PensTyped, Threads
<1> QED BY <1>1, <1>2, <1>3, <1>4 DEF Goes, Next, Worker, Gui

\* What the slot of the address assignment takes up.
LEMMA DeliverIs ==
    ASSUME Goes, Deliver
    PROVE  /\ pen["gui"] = <<>> /\ inbox # <<>> /\ inbox' = Tail(inbox) /\ pen'["worker"] = pen["worker"]
           /\ Head(inbox) \in Signals
           /\ dialog' = (dialog \/ Head(inbox) = "judg")
           /\ UNCHANGED <<step, result, lists, at, check, ok, num, memo, entry, rows>>
           /\ \/ pen'["gui"] = <<>>
              \/ /\ Head(inbox) # "judg" /\ LogsOpen(step)
                 /\ pen'["gui"] = AddressNote(Item("address", 0), Head(inbox) = "good")
<1>1. inbox \in Seq(Signals)
      BY DEF Goes, Typed, SlotsTyped
<1>2. inbox # <<>> /\ pen["gui"] = <<>>
      BY DEF Deliver, Idle
<1>3. Head(inbox) \in Signals
      BY <1>1, <1>2
<1> QED BY <1>2, <1>3 DEF Deliver, Goes, Typed, PensTyped, Threads, progressVars, workerVars

\* What People_judg takes up.
LEMMA JudgeSureIs ==
    ASSUME Goes, JudgeSure
    PROVE  /\ pen["gui"] = <<>> /\ dialog /\ ~dialog' /\ inbox' = inbox /\ pen'["worker"] = pen["worker"]
           /\ UNCHANGED <<step, result, lists, at, check, ok, num, memo, entry, rows>>
           /\ \E meets \in [1..Confirmed -> BOOLEAN] : pen'["gui"] = ConfirmedRows(meets)
<1>1. PICK meets \in [1..Confirmed -> BOOLEAN] : pen' = [pen EXCEPT !["gui"] = ConfirmedRows(meets)]
      BY DEF JudgeSure
<1>2. pen'["gui"] = ConfirmedRows(meets) /\ pen'["worker"] = pen["worker"]
      BY <1>1 DEF Goes, Typed, PensTyped, Threads
<1> QED BY <1>2 DEF JudgeSure, Idle, workerVars

\* The GUI thread writes for the address or for the dialog.
LEMMA GuiWritesStep ==
    ASSUME Goes
    PROVE  GuiWrites'
<1> DEFINE g == pen["gui"]
<1>1. g \in Seq(Strokes) /\ g' \in Seq(Strokes) /\ GuiWrites /\ session' = session
      BY DEF Goes, Typed, PensTyped, Threads, Alone, Pens
<1>2. CASE Push("gui")
  <2>1. g # <<>> /\ g' = Tail(g)
        BY <1>2, PushIs DEF Goes, Typed, Threads
  <2>2. ASSUME NEW i \in 1 .. Len(g') PROVE \E j \in 1 .. Len(g) : g'[i] = g[j]
    <3>1. Len(g) \in Nat \ {0} /\ Len(g') = Len(g) - 1 /\ i + 1 \in 1 .. Len(g) /\ g'[i] = g[i + 1]
          BY <1>1, <2>1, <2>2, TailIs
    <3> QED BY <3>1
  <2> QED BY <1>1, <2>2 DEF GuiWrites, Item
<1>3. CASE Deliver
  <2>1. session \in 1..MaxSessions
        BY <1>3, Begun, DeliverIs DEF Goes, Typed
  <2>2. Item("address", 0) \in Items
        BY <2>1, ItemIs, TestLogAssumption DEF Writers
  <2> DEFINE good == Head(inbox) = "good"
             s == AddressNote(Item("address", 0), good)
  <2>3. Len(s) \in {6, 9} /\ \A i \in 1 .. Len(s) : Of(s[i]) = Item("address", 0)
        BY <2>2, AddressIs
  <2>4. g' = s \/ g' = <<>>
        BY <1>3, DeliverIs
  <2> HIDE DEF s
  <2>5. ASSUME NEW i \in 1 .. Len(g') PROVE Of(g'[i]) = Item("address", 0)'
    <3>1. g' = s
          BY <2>4, <2>5
    <3>3. i \in 1 .. Len(s)
          BY <3>1
    <3> QED BY <1>1, <2>3, <3>1, <3>3 DEF Item
  <2> QED BY <2>5 DEF GuiWrites
<1>4. CASE JudgeSure
  <2>1. session \in 1..MaxSessions
        BY <1>4, Begun, JudgeSureIs DEF Goes, Typed
  <2>2. PICK meets \in [1..Confirmed -> BOOLEAN] : g' = ConfirmedRows(meets)
        BY <1>4, JudgeSureIs
  <2> DEFINE s == ConfirmedRows(meets)
  <2>3. /\ Len(s) = 3 * Confirmed
        /\ \A k \in 1 .. 3 * Confirmed :
              /\ (k - 1) \div 3 + 1 \in 1..Confirmed
              /\ Of(s[k]) = Item("dialog", (k - 1) \div 3 + 1)
              /\ s[k].list = IF (k - 1) % 3 = 0 THEN "data" ELSE IF (k - 1) % 3 = 1 THEN "names" ELSE "results"
        BY <2>1, ConfirmedIs
  <2> HIDE DEF s
  <2>4. ASSUME NEW i \in 1 .. Len(g')
        PROVE  /\ Of(g'[i]) \in {Item("dialog", n)' : n \in 1 .. Confirmed}
               /\ g'[i].list \in {"data", "names", "results"}
    <3>1. i \in 1 .. 3 * Confirmed /\ g' = s
          BY <2>2, <2>3, <2>4 DEF s
    <3>2. /\ (i - 1) \div 3 + 1 \in 1..Confirmed
          /\ Of(s[i]) = Item("dialog", (i - 1) \div 3 + 1)
          /\ s[i].list \in {"data", "names", "results"}
          BY <2>3, <3>1
    <3>3. Item("dialog", (i - 1) \div 3 + 1)' = Item("dialog", (i - 1) \div 3 + 1)
          BY <1>1 DEF Item
    <3> QED BY <3>1, <3>2, <3>3
  <2> QED BY <2>4 DEF GuiWrites
<1>5. CASE g' = g
      BY <1>1, <1>5 DEF GuiWrites, Item
<1> QED BY <1>2, <1>3, <1>4, <1>5, PenKept

\* Each pen goes on laying down lines and rows, and the threads keep apart.
LEMMA PensStep ==
    ASSUME Goes
    PROVE  Pens'
<1>1. Script(pen["gui"]) /\ Script(pen["worker"])
      BY DEF Goes, Alone, Pens, Threads
<1>2. ASSUME NEW t \in Threads, Push(t) PROVE Script(pen'[t])
  <2>1. pen[t] \in Seq(Strokes) /\ pen[t] # <<>> /\ pen'[t] = Tail(pen[t])
        BY <1>2, PushIs DEF Goes, Typed
  <2> QED BY <1>1, <2>1, ScriptTail DEF Threads
<1>3. Script(<<>>)
  <2>1. Len(<<>>) = 0
        OBVIOUS
  <2> QED BY <2>1 DEF Script
<1>4. Script(pen'["gui"])
  <2>1. CASE Deliver
    <3>1. session \in 1..MaxSessions
          BY <2>1, Begun, DeliverIs DEF Goes, Typed
    <3>2. Item("address", 0) \in Items /\ Item("address", 0).who = "address"
          BY <3>1, ItemIs, TestLogAssumption DEF Writers
    <3> DEFINE good == Head(inbox) = "good"
    <3>3. Script(AddressNote(Item("address", 0), good))
          BY <3>2, AddressScript
    <3> QED BY <1>3, <2>1, <3>3, DeliverIs
  <2>2. CASE JudgeSure
    <3>1. session \in 1..MaxSessions
          BY <2>2, Begun, JudgeSureIs DEF Goes, Typed
    <3>2. PICK meets \in [1..Confirmed -> BOOLEAN] : pen'["gui"] = ConfirmedRows(meets)
          BY <2>2, JudgeSureIs
    <3> QED BY <3>1, <3>2, ConfirmedScript
  <2> QED BY <1>1, <1>2, <2>1, <2>2, PenKept DEF Threads
<1>5. Script(pen'["worker"])
  <2>1. CASE Note
    <3>1. session \in 1..MaxSessions /\ check \in 1..Checks /\ ok' \in BOOLEAN
          BY <2>1, Begun DEF Goes, Typed, Note, Ready, CountsTyped
    <3>2. Item("check", check) \in Items /\ Item("check", check).who = "check"
          BY <3>1, ItemIs, TestLogAssumption DEF Writers
    <3>3. Script(Line(Item("check", check), ok'))
          BY <3>1, <3>2, LineScript
    <3>4. pen'["worker"] = Line(Item("check", check), ok') \/ pen'["worker"] = <<>>
          BY <2>1 DEF Note, Take, Goes, Typed, PensTyped, Threads
    <3> QED BY <1>3, <3>3, <3>4
  <2>2. CASE WriteRow
    <3>1. session \in 1..MaxSessions /\ check \in 1..Checks /\ ok \in BOOLEAN
          BY <2>2, Begun DEF Goes, Typed, WriteRow, Ready, CountsTyped
    <3>2. Item("check", check) \in Items /\ Item("check", check).who = "check"
          BY <3>1, ItemIs, TestLogAssumption DEF Writers
    <3>3. Script(Row(Item("check", check), ok))
          BY <3>1, <3>2, RowScript
    <3>4. pen'["worker"] = Row(Item("check", check), ok) \/ pen'["worker"] = <<>>
          BY <2>2 DEF WriteRow, Take, Goes, Typed, PensTyped, Threads
    <3> QED BY <1>3, <3>3, <3>4
  <2>3. CASE Decide
    <3>1. session \in 1..MaxSessions
          BY <2>3, Begun DEF Goes, Typed, Decide, Ready
    <3>2. Item("label", 0) \in Items /\ Item("label", 0).who = "label"
          BY <3>1, ItemIs, TestLogAssumption DEF Writers
    <3>3. PICK printed \in BOOLEAN : pen' = [pen EXCEPT !["worker"] = Line(Item("label", 0), printed /\ result # Test_Fail)]
          BY <2>3 DEF Decide, Take
    <3>4. (printed /\ result # Test_Fail) \in BOOLEAN
          OBVIOUS
    <3>5. Script(Line(Item("label", 0), printed /\ result # Test_Fail))
          BY <3>2, <3>4, LineScript
    <3>6. pen'["worker"] = Line(Item("label", 0), printed /\ result # Test_Fail)
          BY <3>3 DEF Goes, Typed, PensTyped, Threads
    <3> QED BY <3>5, <3>6
  <2> QED BY <1>1, <1>2, <2>1, <2>2, <2>3, PenKept DEF Threads
<1>6. ~Clash(pen, at)'
      BY DEF Goes, Clash, Item
<1>7. \A t \in Threads : Script(pen[t])'
      BY <1>4, <1>5 DEF Threads
<1> QED BY <1>6, <1>7, WorkerWritesStep, GuiWritesStep DEF Pens

\* With what a thread begins that takes up its pen.
LEMMA Begins ==
    ASSUME Goes, NEW t \in Threads, ~Push(t)
    PROVE  \/ pen'[t] = pen[t]
           \/ /\ pen[t] = <<>> /\ pen'[t] # <<>> /\ Head(pen'[t]) = pen'[t][1] /\ Head(pen'[t]) \in Strokes
              /\ \/ Head(pen'[t]).list = "pass"
                 \/ /\ Head(pen'[t]).list = "results" /\ Of(Head(pen'[t])).who = "check" /\ t = "worker"
                    /\ WriteRow /\ Head(pen'[t]).item = Mark(Item("check", check), ok) /\ LogsOpen(step)
                 \/ Head(pen'[t]).list = "data" /\ Of(Head(pen'[t])).who = "dialog" /\ t = "gui" /\ JudgeSure
<1> DEFINE p == pen'[t]
<1>0. p \in Seq(Strokes)
      BY DEF Goes, Typed, PensTyped
<1>1. p # <<>> => Head(p) = p[1] /\ Head(p) \in Strokes
      BY <1>0
<1>2. CASE Deliver /\ t = "gui"
  <2>1. session \in 1..MaxSessions
        BY <1>2, Begun, DeliverIs DEF Goes, Typed
  <2>2. Item("address", 0) \in Items
        BY <2>1, ItemIs, TestLogAssumption DEF Writers
  <2> DEFINE good == Head(inbox) = "good"
             s == AddressNote(Item("address", 0), good)
  <2>3. s[1].list = "pass" /\ Len(s) \in {6, 9}
        BY <2>2, AddressIs
  <2>4. pen[t] = <<>> /\ (p = <<>> \/ p = s)
        BY <1>2, DeliverIs
  <2> HIDE DEF s, p
  <2>5. CASE p = s
    <3>1. p # <<>>
          BY <2>3, <2>5
    <3> QED BY <1>1, <2>3, <2>4, <2>5, <3>1 DEF p
  <2> QED BY <2>4, <2>5 DEF p
<1>3. CASE JudgeSure /\ t = "gui"
  <2>1. session \in 1..MaxSessions
        BY <1>3, Begun, JudgeSureIs DEF Goes, Typed
  <2>2. PICK meets \in [1..Confirmed -> BOOLEAN] : p = ConfirmedRows(meets)
        BY <1>3, JudgeSureIs
  <2> DEFINE s == ConfirmedRows(meets)
  <2>3. /\ Len(s) = 3 * Confirmed /\ s \in Seq(Strokes)
        /\ \A k \in 1 .. 3 * Confirmed :
              /\ Of(s[k]) = Item("dialog", (k - 1) \div 3 + 1)
              /\ s[k].list = IF (k - 1) % 3 = 0 THEN "data" ELSE IF (k - 1) % 3 = 1 THEN "names" ELSE "results"
        BY <2>1, ConfirmedIs
  <2> HIDE DEF s
  <2>4. pen[t] = <<>> /\ p = s
        BY <1>3, <2>2, JudgeSureIs DEF s
  <2> HIDE DEF p
  <2>5. CASE p # <<>>
    <3>1. 1 \in 1 .. 3 * Confirmed
      <4>1. Len(s) \in Nat \ {0}
            BY <2>3, <2>4, <2>5
      <4> QED BY <2>3, <4>1
    <3>2. Of(s[1]) = Item("dialog", (1 - 1) \div 3 + 1) /\ ((1 - 1) % 3 = 0 => s[1].list = "data")
          BY <2>3, <3>1
    <3>3. (1 - 1) % 3 = 0
          OBVIOUS
    <3>4. Of(s[1]).who = "dialog" /\ s[1].list = "data"
          BY <3>2, <3>3 DEF Item
    <3> QED BY <1>1, <1>3, <2>4, <2>5, <3>4 DEF p
  <2> QED BY <2>4, <2>5 DEF p
<1>4. CASE Note /\ t = "worker"
  <2>1. session \in 1..MaxSessions /\ check \in 1..Checks /\ ok' \in BOOLEAN
        BY <1>4, Begun DEF Goes, Typed, Note, Ready, CountsTyped
  <2>2. Item("check", check) \in Items
        BY <2>1, ItemIs, TestLogAssumption DEF Writers
  <2> DEFINE s == Line(Item("check", check), ok')
  <2>3. Len(s) = 3 /\ s[1].list = "pass"
        BY <2>1, <2>2, LineIs
  <2>4. (p = s \/ p = <<>>) /\ pen[t] = <<>>
        BY <1>4 DEF Note, Ready, Take, Goes, Typed, PensTyped, Threads
  <2> HIDE DEF s, p
  <2>5. CASE p = s
    <3>1. p # <<>>
          BY <2>3, <2>5
    <3> QED BY <1>1, <2>3, <2>4, <2>5, <3>1 DEF p
  <2> QED BY <2>4, <2>5 DEF p
<1>5. CASE WriteRow /\ t = "worker"
  <2>1. session \in 1..MaxSessions /\ check \in 1..Checks /\ ok \in BOOLEAN
        BY <1>5, Begun DEF Goes, Typed, WriteRow, Ready, CountsTyped
  <2>2. Item("check", check) \in Items /\ Item("check", check).who = "check"
        BY <2>1, ItemIs, TestLogAssumption DEF Writers
  <2> DEFINE s == Row(Item("check", check), ok)
  <2>3. /\ Len(s) = 3 /\ s[1].list = "results" /\ s[1].item = Mark(Item("check", check), ok)
        /\ Of(s[1]) = Item("check", check)
        BY <2>1, <2>2, RowIs
  <2>4. ((p = s /\ LogsOpen(step)) \/ p = <<>>) /\ pen[t] = <<>>
        BY <1>5 DEF WriteRow, Ready, Take, Goes, Typed, PensTyped, Threads
  <2> HIDE DEF s, p
  <2>5. CASE p = s /\ LogsOpen(step)
    <3>1. p # <<>>
          BY <2>3, <2>5
    <3> QED BY <1>1, <1>5, <2>2, <2>3, <2>4, <2>5, <3>1 DEF p
  <2> QED BY <2>4, <2>5 DEF p
<1>6. CASE Decide /\ t = "worker"
  <2>1. session \in 1..MaxSessions
        BY <1>6, Begun DEF Goes, Typed, Decide, Ready
  <2>2. Item("label", 0) \in Items
        BY <2>1, ItemIs, TestLogAssumption DEF Writers
  <2>3. PICK printed \in BOOLEAN : pen' = [pen EXCEPT !["worker"] = Line(Item("label", 0), printed /\ result # Test_Fail)]
        BY <1>6 DEF Decide, Take
  <2>4. (printed /\ result # Test_Fail) \in BOOLEAN
        OBVIOUS
  <2> DEFINE s == Line(Item("label", 0), printed /\ result # Test_Fail)
  <2>5. Len(s) = 3 /\ s[1].list = "pass"
        BY <2>2, <2>4, LineIs
  <2>6. p = s /\ pen[t] = <<>>
        BY <1>6, <2>3 DEF Decide, Ready, Goes, Typed, PensTyped, Threads
  <2> HIDE DEF s, p
  <2>7. p # <<>>
        BY <2>5, <2>6
  <2> QED BY <1>1, <2>5, <2>6, <2>7 DEF p
<1> QED BY <1>2, <1>3, <1>4, <1>5, <1>6, PenKept DEF Threads

\* So nobody is then in the middle of a line or row.
LEMMA BeginsOutside ==
    ASSUME Goes, NEW t \in Threads, ~Push(t)
    PROVE  \/ pen'[t] = pen[t]
           \/ /\ ~Writes(t, "status") /\ ~Writes(t, "names") /\ ~Late(t) /\ ~Early(t)
              /\ ~Writes(t, "status")' /\ ~Writes(t, "names")' /\ ~Late(t)' /\ ~Early(t)'
BY Begins DEF Writes, Late, Early

\* Which lists change.
LEMMA ListsKept ==
    ASSUME Goes
    PROVE  lists' = lists \/ Push("worker") \/ Push("gui") \/ Timer
BY DEF Goes, Next, Worker, Gui, InitDev, Note, WriteRow, EndChecks, Decide,
            Await, EnterLog, ReadNext, Save, StopFunc, Deliver, JudgeSure, JudgeDismiss

\* The timer finds a mark for every line.
LEMMA TimerIs ==
    ASSUME Goes, Timer
    PROVE  /\ lists["status"] # <<>> => lists["pass"] # <<>>
           /\ lists' = InsertText /\ UNCHANGED <<pen, result, at, check, ok, num, memo, inbox, dialog, entry, rows>>
           /\ step' = step \/ step' = Test_End
           /\ pen["gui"] = <<>>
<1>1. lists["status"] \in Seq(Items) /\ lists["pass"] \in Seq(Marks)
      BY ListIs DEF Goes, Typed
<1>2. \A i \in 1 .. Len(lists["status"]) : i <= Len(lists["pass"])
      BY DEF Goes, Alone, Lines
<1>3. lists["status"] # <<>> => 1 \in 1 .. Len(lists["status"])
      BY <1>1
<1>4. lists["status"] # <<>> => lists["pass"] # <<>>
      BY <1>1, <1>2, <1>3
<1> QED BY <1>4 DEF Timer, Idle, guiVars

\* A list grows by what the thread appends.
LEMMA Grows ==
    ASSUME Goes, NEW t \in Threads, Push(t), NEW l \in Lists
    PROVE  /\ lists[l] \in Seq(Held(l)) /\ lists'[l] \in Seq(Held(l))
           /\ Head(pen[t]).list # l => lists'[l] = lists[l]
           /\ Head(pen[t]).list = l =>
                 /\ Head(pen[t]).item \in Held(l)
                 /\ Len(lists'[l]) = Len(lists[l]) + 1 /\ lists'[l] # <<>>
                 /\ lists'[l][Len(lists[l]) + 1] = Head(pen[t]).item
                 /\ \A i \in 1 .. Len(lists[l]) : lists'[l][i] = lists[l][i]
<1>1. lists[l] \in Seq(Held(l)) /\ lists'[l] \in Seq(Held(l)) /\ ListsTyped /\ PensTyped
      BY DEF Goes, Typed, ListsTyped
<1>2. /\ Head(pen[t]) \in Strokes
      /\ Head(pen[t]).list = "result" => lists' = lists
      /\ Head(pen[t]).list # "result" =>
            lists' = [lists EXCEPT ![Head(pen[t]).list] = Append(lists[Head(pen[t]).list], Head(pen[t]).item)]
      BY <1>1, PushIs
<1>3. CASE Head(pen[t]).list = "result"
      BY <1>1, <1>2, <1>3 DEF Lists
<1>4. CASE Head(pen[t]).list # "result"
  <2>1. /\ Head(pen[t]).item \in Held(Head(pen[t]).list)
        /\ \A k \in Lists : lists'[k] = IF k = Head(pen[t]).list THEN Append(lists[k], Head(pen[t]).item) ELSE lists[k]
        BY <1>1, <1>2, <1>4, AppendIs
  <2>2. CASE Head(pen[t]).list = l
    <3> DEFINE s == lists[l]
               S == Held(l)
               x == Head(pen[t]).item
    <3>1. s \in Seq(S) /\ x \in S /\ lists'[l] = Append(s, x)
          BY <1>1, <2>1, <2>2
    <3> HIDE DEF s, S, x
    <3>2. /\ Len(Append(s, x)) = Len(s) + 1 /\ Append(s, x) # <<>> /\ Append(s, x)[Len(s) + 1] = x
          /\ \A i \in 1 .. Len(s) : Append(s, x)[i] = s[i]
          BY <3>1
    <3> QED BY <1>1, <2>1, <2>2, <3>1, <3>2 DEF s, S, x
  <2>3. CASE Head(pen[t]).list # l
        BY <1>1, <2>1, <2>3
  <2> QED BY <2>2, <2>3
<1> QED BY <1>3, <1>4

\* Every line keeps its mark.
LEMMA LinesStep ==
    ASSUME Goes
    PROVE  Lines'
<1>0. /\ Lines /\ Pens /\ PensTyped
      /\ lists["pass"] \in Seq(Marks) /\ lists["status"] \in Seq(Items)
      /\ lists'["pass"] \in Seq(Marks) /\ lists'["status"] \in Seq(Items)
      BY DEF Goes, Typed, Alone, ListsTyped, Lists, Held
<1>10. Len(lists["pass"]) \in Nat /\ Len(lists["status"]) \in Nat
      BY <1>0
<1>1. ASSUME NEW t \in Threads, Push(t) PROVE Lines'
  <2> DEFINE x == Head(pen[t])
             y == Head(pen'[t])
  <2>1. /\ pen[t] # <<>> /\ x \in Strokes
        /\ pen'[t] # <<>> => Follows(x, y) /\ y \in Strokes /\ y = pen[t][2] /\ 2 \in 1 .. Len(pen[t])
        /\ \A u \in Threads \ {t} : pen'[u] = pen[u]
        BY <1>1, StrokeMade
  <2> HIDE DEF x, y
  <2>2. /\ x.list # "pass" => lists'["pass"] = lists["pass"]
        /\ x.list # "status" => lists'["status"] = lists["status"]
        BY <1>1, Grows DEF x, Lists
  <2>3. Writes(t, "status") <=> x.list = "status"
        BY <2>1 DEF Writes, x
  <2>4. Writes(t, "status")' => x.list = "pass" /\ y.list = "status" /\ Of(y) = Of(x)
        BY <2>1 DEF Writes, Follows, y
  <2>5. CASE x.list = "pass"
    <3>1. /\ x.item \in Marks /\ Len(lists'["pass"]) = Len(lists["pass"]) + 1
          /\ lists'["pass"][Len(lists["pass"]) + 1] = x.item
          /\ \A i \in 1 .. Len(lists["pass"]) : lists'["pass"][i] = lists["pass"][i]
          BY <1>1, <2>5, Grows DEF x, Lists, Held
    <3>2. pen'[t] # <<>>
      <4>1. pen'[t] = <<>> => Final(x)
            BY <1>1, StrokeMade DEF x
      <4> QED BY <2>5, <4>1 DEF Final
    <3>3. y.list = "status" /\ Of(y) = Of(x) /\ y = pen[t][2] /\ 2 \in 1 .. Len(pen[t]) /\ y \in Strokes
          BY <2>1, <2>5, <3>2 DEF Follows
    <3>4. y.item = x.item.of
          BY <2>5, <3>3 DEF Of
    <3>5. \A u \in Threads : ~Writes(u, "status")
          BY <1>0, <2>3, <2>5, <3>3, HeadApart
    <3>6. Len(lists["pass"]) = Len(lists["status"])
          BY <1>0, <3>5 DEF Lines
    <3>7. /\ Len(lists'["pass"]) = Len(lists'["status"]) + 1
          /\ lists'["pass"][Len(lists'["pass"])].of = y.item
          BY <1>10, <2>2, <2>5, <3>1, <3>4, <3>6
    <3>8. \A i \in 1 .. Len(lists'["status"]) :
             i <= Len(lists'["pass"]) /\ lists'["pass"][i].of = lists'["status"][i]
          BY <1>0, <1>10, <2>2, <2>5, <3>1, <3>6 DEF Lines
    <3>9. \A u \in Threads : Writes(u, "status")' => u = t
          BY <2>1, <3>5 DEF Writes
    <3>10. Writes(t, "status")'
          BY <3>2, <3>3 DEF Writes, y
    <3> QED BY <3>7, <3>8, <3>9, <3>10 DEF Lines, y
  <2>6. CASE x.list = "status"
    <3>1. /\ x.item \in Items /\ Len(lists'["status"]) = Len(lists["status"]) + 1
          /\ lists'["status"][Len(lists["status"]) + 1] = x.item
          /\ \A i \in 1 .. Len(lists["status"]) : lists'["status"][i] = lists["status"][i]
          BY <1>1, <2>6, Grows DEF x, Lists, Held
    <3>2. Len(lists["pass"]) = Len(lists["status"]) + 1 /\ lists["pass"][Len(lists["pass"])].of = x.item
          BY <1>0, <2>3, <2>6 DEF Lines, x
    <3>3. \A u \in Threads : ~Writes(u, "status")'
      <4>1. x = pen[t][1] /\ 1 \in 1 .. Len(pen[t])
        <5>1. pen[t] \in Seq(Strokes)
              BY <1>0 DEF PensTyped
        <5>2. Len(pen[t]) \in Nat \ {0}
              BY <2>1, <5>1, TailIs
        <5> QED BY <2>1, <5>1, <5>2, TailIs DEF x
      <4>2. \A u \in Threads \ {t} : ~Writes(u, "status")
            BY <1>0, <2>6, <4>1, HeadApart
      <4> QED BY <2>1, <2>4, <2>6, <4>2 DEF Writes
    <3>4. Len(lists'["pass"]) = Len(lists'["status"])
          BY <2>2, <2>6, <3>1, <3>2
    <3>5. \A i \in 1 .. Len(lists'["status"]) :
             i <= Len(lists'["pass"]) /\ lists'["pass"][i].of = lists'["status"][i]
      <4> SUFFICES ASSUME NEW i \in 1 .. Len(lists'["status"])
                   PROVE  i <= Len(lists'["pass"]) /\ lists'["pass"][i].of = lists'["status"][i]
          OBVIOUS
      <4>1. CASE i \in 1 .. Len(lists["status"])
            BY <1>0, <2>2, <2>6, <3>1, <3>2, <4>1 DEF Lines
      <4>2. CASE i = Len(lists["status"]) + 1
            BY <2>2, <2>6, <3>1, <3>2, <3>4, <4>2
      <4> QED BY <1>10, <3>1, <4>1, <4>2
    <3> QED BY <3>3, <3>4, <3>5 DEF Lines
  <2>7. CASE x.list \notin {"pass", "status"}
    <3>1. lists'["pass"] = lists["pass"] /\ lists'["status"] = lists["status"]
          BY <2>2, <2>7
    <3>2. ~Writes(t, "status") /\ ~Writes(t, "status")'
          BY <2>3, <2>4, <2>7
    <3>3. \A u \in Threads \ {t} : pen'[u] = pen[u]
          BY <2>1
    <3> QED BY <1>0, <3>1, <3>2, <3>3 DEF Lines, Writes
  <2> QED BY <2>5, <2>6, <2>7
<1>2. ASSUME ~Push("worker"), ~Push("gui") PROVE Lines'
  <2>1. \A t \in Threads : pen'[t] = pen[t] \/ (~Writes(t, "status") /\ ~Writes(t, "status")')
        BY <1>2, BeginsOutside DEF Threads
  <2>2. CASE lists' = lists
        BY <1>0, <2>1, <2>2 DEF Lines, Writes
  <2>3. CASE Timer
    <3>1. /\ lists["status"] = <<>> => lists' = lists
          /\ lists["status"] # <<>> => /\ lists'["status"] = Tail(lists["status"]) /\ lists'["pass"] = Tail(lists["pass"])
                                       /\ lists["pass"] # <<>>
          /\ pen' = pen
          BY <2>3, TimerIs, InsertTextIs DEF Goes, Typed
    <3>2. CASE lists["status"] # <<>>
      <4> DEFINE p == lists["pass"]
                 s == lists["status"]
      <4>1. p \in Seq(Marks) /\ s \in Seq(Items) /\ p # <<>> /\ s # <<>> /\ lists'["pass"] = Tail(p) /\ lists'["status"] = Tail(s)
            BY <1>0, <3>1, <3>2
      <4> HIDE DEF p, s
      <4>2. /\ Len(p) \in Nat \ {0} /\ Len(Tail(p)) = Len(p) - 1 /\ \A i \in 1 .. Len(p) - 1 : Tail(p)[i] = p[i + 1]
            /\ Len(s) \in Nat \ {0} /\ Len(Tail(s)) = Len(s) - 1 /\ \A i \in 1 .. Len(s) - 1 : Tail(s)[i] = s[i + 1]
            BY <4>1
      <4>3. ASSUME NEW i \in 1 .. Len(lists'["status"])
            PROVE  i <= Len(lists'["pass"]) /\ lists'["pass"][i].of = lists'["status"][i]
        <5>1. i + 1 \in 1 .. Len(s) /\ i \in 1 .. Len(s) - 1 /\ lists'["status"][i] = s[i + 1]
              BY <4>1, <4>2
        <5>2. i + 1 <= Len(p) /\ p[i + 1].of = s[i + 1]
              BY <1>0, <5>1 DEF Lines, p, s
        <5>3. i \in 1 .. Len(p) - 1
              BY <4>2, <5>1, <5>2
        <5> QED BY <4>1, <4>2, <5>1, <5>2, <5>3
      <4>4. ASSUME NEW t \in Threads, Writes(t, "status")'
            PROVE  /\ Len(lists'["pass"]) = Len(lists'["status"]) + 1
                   /\ lists'["pass"][Len(lists'["pass"])].of = Head(pen'[t]).item
        <5>1. Len(p) = Len(s) + 1 /\ p[Len(p)].of = Head(pen[t]).item
              BY <1>0, <3>1, <4>4 DEF Lines, Writes, p, s
        <5>2. Len(p) - 1 \in 1 .. Len(p) - 1 /\ (Len(p) - 1) + 1 = Len(p)
              BY <4>2, <5>1
        <5>3. Tail(p)[Len(p) - 1] = p[Len(p)]
              BY <4>2, <5>2
        <5> QED BY <3>1, <4>1, <4>2, <5>1, <5>3
      <4>5. ASSUME \A t \in Threads : ~Writes(t, "status")'
            PROVE  Len(lists'["pass"]) = Len(lists'["status"])
        <5>1. Len(p) = Len(s)
              BY <1>0, <3>1, <4>5 DEF Lines, Writes, p, s
        <5> QED BY <4>1, <4>2, <5>1
      <4> QED BY <4>3, <4>4, <4>5 DEF Lines
    <3>3. CASE lists["status"] = <<>>
          BY <1>0, <3>1, <3>3 DEF Lines, Writes
    <3> QED BY <3>2, <3>3
  <2> QED BY <1>2, <2>2, <2>3, ListsKept
<1> QED BY <1>1, <1>2 DEF Threads

\* The last stroke of a pen.
LEMMA LastIs ==
    ASSUME Goes, NEW t \in Threads, pen[t] # <<>>
    PROVE  /\ Len(pen[t]) \in 1 .. Len(pen[t]) /\ 1 \in 1 .. Len(pen[t]) /\ Head(pen[t]) = pen[t][1]
           /\ pen[t][Len(pen[t])] \in Strokes /\ Final(pen[t][Len(pen[t])])
<1> DEFINE s == pen[t]
<1>1. s \in Seq(Strokes) /\ s # <<>> /\ Script(s)
      BY DEF Goes, Typed, PensTyped, Alone, Pens
<1> HIDE DEF s
<1>2. Len(s) \in Nat \ {0} /\ Head(s) = s[1]
      BY <1>1, TailIs
<1>3. Len(s) \in 1 .. Len(s) /\ 1 \in 1 .. Len(s)
      BY <1>2
<1>4. s[Len(s)] \in Strokes /\ Final(s[Len(s)])
      BY <1>1, <1>3, ElementIs DEF Script
<1> QED BY <1>2, <1>3, <1>4 DEF s

\* While the worker writes a row the other thread writes nothing: the rows of the dialog
\* come later, and a row of the address would end with a name as well.
LEMMA OneRow ==
    ASSUME Goes, NEW i \in 1 .. Len(pen["worker"]), pen["worker"][i].list \in {"results", "data", "names"}
    PROVE  pen["gui"] = <<>>
<1> SUFFICES ASSUME pen["gui"] # <<>> PROVE FALSE
    OBVIOUS
<1>1. /\ WorkerWrites /\ GuiWrites /\ Stage /\ Pens /\ PensTyped
      BY DEF Goes, Alone, Pens, Typed
<1>2. at = "note"
      BY <1>1 DEF WorkerWrites
<1>3. pen["worker"] # <<>>
  <2>1. pen["worker"] \in Seq(Strokes)
        BY <1>1 DEF PensTyped, Threads
  <2> QED BY <2>1
<1> DEFINE m == Len(pen["worker"])
           n == Len(pen["gui"])
           v == pen["worker"][m]
           w == pen["gui"][n]
<1>4. m \in 1 .. Len(pen["worker"]) /\ Final(v) /\ n \in 1 .. Len(pen["gui"]) /\ Final(w)
      BY <1>3, LastIs DEF Threads
<1>5. v.list = "names"
  <2>1. v.list \in {"results", "data", "names"} /\ Of(v) = Item("check", rows)
        BY <1>1, <1>2, <1>4 DEF WorkerWrites
  <2> QED BY <1>4, <2>1 DEF Final, Item
<1>6. w.list = "names"
  <2>1. Of(w).who # "dialog"
        BY <1>1, <1>2, <1>4 DEF Stage, Wrote
  <2> HIDE DEF w, n
  <2>2. Of(w) = Item("address", 0) \/ Of(w) \in {Item("dialog", k) : k \in 1 .. Confirmed}
        BY <1>1, <1>4 DEF GuiWrites, w
  <2>3. Of(w) = Item("address", 0)
        BY <2>1, <2>2 DEF Item
  <2> QED BY <1>4, <2>3 DEF Final, Item
<1> QED BY <1>1, <1>4, <1>5, <1>6, Apart DEF Threads

\* So at most one of the threads writes a row.
LEMMA RowAlone ==
    ASSUME Goes, NEW t \in Threads, NEW u \in Threads, t # u, pen[t] # <<>>,
           Head(pen[t]).list \in {"results", "data", "names"}
    PROVE  ~Writes(u, "results") /\ ~Writes(u, "data") /\ ~Writes(u, "names")
<1>1. 1 \in 1 .. Len(pen[t]) /\ Head(pen[t]) = pen[t][1]
      BY LastIs
<1>2. CASE t = "worker"
  <2>1. pen["gui"] = <<>> /\ u = "gui"
        BY <1>1, <1>2, OneRow DEF Threads
  <2> QED BY <2>1 DEF Writes
<1>3. CASE t = "gui"
  <2> SUFFICES ASSUME NEW l \in {"results", "data", "names"}, Writes(u, l) PROVE FALSE
      OBVIOUS
  <2>1. u = "worker" /\ pen[u] # <<>> /\ Head(pen[u]).list = l
        BY <1>3 DEF Threads, Writes
  <2>2. 1 \in 1 .. Len(pen[u]) /\ Head(pen[u]) = pen[u][1]
        BY <2>1, LastIs
  <2>3. pen["gui"] = <<>>
        BY <2>1, <2>2, OneRow
  <2> QED BY <1>3, <2>3
<1> QED BY <1>2, <1>3 DEF Threads

\* Lists that only rows change.
LEMMA RowsKept ==
    ASSUME Goes, ~Push("worker"), ~Push("gui"), NEW l \in {"results", "data", "names"}
    PROVE  lists'[l] = lists[l]
<1>1. CASE lists' = lists
      BY <1>1
<1>2. CASE Timer
  <2>1. \A k \in Lists \ {"status", "pass"} : lists'[k] = lists[k]
        BY <1>2, TimerIs, InsertTextIs DEF Goes, Typed
  <2> QED BY <2>1 DEF Lists
<1> QED BY <1>1, <1>2, ListsKept

\* The results keep up with the texts.
LEMMA OutcomesStep ==
    ASSUME Goes
    PROVE  Outcomes'
<1>1. /\ Outcomes /\ Pens /\ PensTyped
      /\ lists["results"] \in Seq(Marks) /\ lists["data"] \in Seq(Items)
      /\ lists'["results"] \in Seq(Marks) /\ lists'["data"] \in Seq(Items)
      BY DEF Goes, Typed, Alone, ListsTyped, Lists, Held
<1>2. Len(lists["results"]) \in Nat /\ Len(lists["data"]) \in Nat
      BY <1>1
<1>3. ASSUME NEW t \in Threads, Push(t) PROVE Outcomes'
  <2> DEFINE x == Head(pen[t])
             y == Head(pen'[t])
  <2>1. /\ pen[t] # <<>> /\ x \in Strokes
        /\ pen'[t] # <<>> => Follows(x, y) /\ y \in Strokes
        /\ pen'[t] = <<>> => Final(x)
        /\ \A u \in Threads \ {t} : pen'[u] = pen[u]
        BY <1>3, StrokeMade
  <2>2. /\ Late(t) <=> x.list = "data" /\ Of(x).who # "dialog"
        /\ Early(t) <=> x.list \in {"names", "results"} /\ Of(x).who = "dialog"
        /\ Late(t)' <=> pen'[t] # <<>> /\ y.list = "data" /\ Of(y).who # "dialog"
        /\ Early(t)' <=> pen'[t] # <<>> /\ y.list \in {"names", "results"} /\ Of(y).who = "dialog"
        BY <2>1 DEF Late, Early, Writes, Of
  <2>3. x.list \in {"results", "data", "names"} =>
           \A u \in Threads \ {t} : ~Late(u) /\ ~Early(u) /\ ~Late(u)' /\ ~Early(u)'
        BY <2>1, RowAlone DEF Late, Early, Writes
  <2> HIDE DEF x, y
  <2>4. /\ x.list # "results" => lists'["results"] = lists["results"]
        /\ x.list # "data" => lists'["data"] = lists["data"]
        BY <1>3, Grows DEF x, Lists
  <2>5. CASE x.list = "results"
    <3>1. Len(lists'["results"]) = Len(lists["results"]) + 1
          BY <1>3, <2>5, Grows DEF x, Lists
    <3>2. CASE Of(x).who = "dialog"
      <4>1. Len(lists["results"]) + 1 = Len(lists["data"])
            BY <1>1, <2>2, <2>5, <3>2 DEF Outcomes
      <4>2. ~Late(t)' /\ ~Early(t)'
            BY <2>1, <2>2, <2>5, <3>2 DEF Follows
      <4> QED BY <1>2, <2>3, <2>4, <2>5, <3>1, <4>1, <4>2 DEF Outcomes
    <3>3. CASE Of(x).who # "dialog"
      <4>1. Len(lists["results"]) = Len(lists["data"])
            BY <1>1, <2>2, <2>3, <2>5, <3>3 DEF Outcomes
      <4>2. pen'[t] # <<>> /\ Late(t)' /\ ~Early(t)'
            BY <2>1, <2>2, <2>5, <3>3 DEF Follows, Final
      <4> QED BY <1>2, <2>3, <2>4, <2>5, <3>1, <4>1, <4>2 DEF Outcomes
    <3> QED BY <3>2, <3>3
  <2>6. CASE x.list = "data"
    <3>1. /\ Len(lists'["data"]) = Len(lists["data"]) + 1 /\ lists'["data"] # <<>>
          /\ lists'["data"][Len(lists["data"]) + 1] = x.item /\ x.item = Of(x)
          BY <1>3, <2>1, <2>6, Grows DEF x, Lists, Of
    <3>2. pen'[t] # <<>> /\ y.list = "names" /\ Of(y) = Of(x)
          BY <2>1, <2>6 DEF Follows, Final
    <3>3. CASE Of(x).who = "dialog"
      <4>1. Len(lists["results"]) = Len(lists["data"])
            BY <1>1, <2>2, <2>3, <2>6, <3>3 DEF Outcomes
      <4>2. ~Late(t)' /\ Early(t)'
            BY <2>2, <3>2, <3>3
      <4>3. LastText(t)'
            BY <3>1, <3>2 DEF LastText, y
      <4> QED BY <1>2, <2>3, <2>4, <2>6, <3>1, <4>1, <4>2, <4>3 DEF Outcomes
    <3>4. CASE Of(x).who # "dialog"
      <4>1. Len(lists["results"]) = Len(lists["data"]) + 1
            BY <1>1, <2>2, <2>6, <3>4 DEF Outcomes
      <4>2. ~Late(t)' /\ ~Early(t)'
            BY <2>2, <3>2, <3>4
      <4> QED BY <1>2, <2>3, <2>4, <2>6, <3>1, <4>1, <4>2 DEF Outcomes
    <3> QED BY <3>3, <3>4
  <2>7. CASE x.list = "names"
    <3>1. lists'["data"] = lists["data"] /\ lists'["results"] = lists["results"]
          BY <2>4, <2>7
    <3>2. CASE Of(x).who = "dialog"
      <4>1. Len(lists["results"]) + 1 = Len(lists["data"]) /\ LastText(t)
            BY <1>1, <2>2, <2>7, <3>2 DEF Outcomes
      <4>2. pen'[t] # <<>> /\ y.list = "results" /\ Of(y) = Of(x)
            BY <2>1, <2>7, <3>2 DEF Follows, Final
      <4>3. LastText(t)' /\ ~Late(t)' /\ Early(t)'
            BY <2>2, <3>1, <3>2, <4>1, <4>2 DEF LastText, x, y
      <4> QED BY <2>3, <2>7, <3>1, <4>1, <4>3 DEF Outcomes
    <3>3. CASE Of(x).who # "dialog"
      <4>1. Len(lists["results"]) = Len(lists["data"])
            BY <1>1, <2>2, <2>3, <2>7, <3>3 DEF Outcomes
      <4>2. ~Late(t)' /\ ~Early(t)'
            BY <2>1, <2>2, <2>7, <3>3 DEF Follows
      <4> QED BY <2>3, <2>7, <3>1, <4>1, <4>2 DEF Outcomes
    <3> QED BY <3>2, <3>3
  <2>8. CASE x.list \notin {"results", "data", "names"}
    <3>1. lists'["data"] = lists["data"] /\ lists'["results"] = lists["results"]
          BY <2>4, <2>8
    <3>2. ~Late(t) /\ ~Early(t)
          BY <2>2, <2>8
    <3>3. ~Late(t)' /\ ~Early(t)'
      <4>1. pen'[t] # <<>> => y.list \notin {"data", "names"} /\ (y.list = "results" => Of(y).who = "address")
            BY <2>1, <2>8 DEF Follows, Of
      <4> QED BY <2>2, <4>1
    <3> QED BY <1>1, <2>1, <3>1, <3>2, <3>3 DEF Outcomes, Late, Early, Writes, LastText
  <2> QED BY <2>5, <2>6, <2>7, <2>8
<1>4. ASSUME ~Push("worker"), ~Push("gui") PROVE Outcomes'
  <2>1. \A t \in Threads : pen'[t] = pen[t] \/ (~Late(t) /\ ~Early(t) /\ ~Late(t)' /\ ~Early(t)')
        BY <1>4, BeginsOutside DEF Threads
  <2>2. lists'["data"] = lists["data"] /\ lists'["results"] = lists["results"]
        BY <1>4, RowsKept
  <2> QED BY <1>1, <2>1, <2>2 DEF Outcomes, Late, Early, Writes, LastText
<1> QED BY <1>3, <1>4 DEF Threads


\* The names keep up with the texts.
LEMMA NamesStep ==
    ASSUME Goes
    PROVE  Names'
<1>1. /\ Names /\ session' = session
      /\ lists["names"] \in Seq(Items) /\ lists["data"] \in Seq(Items)
      /\ lists'["names"] \in Seq(Items) /\ lists'["data"] \in Seq(Items)
      BY DEF Goes, Typed, Alone, ListsTyped, Lists, Held
<1>2. Len(lists["names"]) \in Nat /\ Len(lists["data"]) \in Nat
      BY <1>1
<1>3. ASSUME NEW t \in Threads, Push(t) PROVE Names'
  <2> DEFINE x == Head(pen[t])
             y == Head(pen'[t])
  <2>1. /\ pen[t] # <<>> /\ x \in Strokes
        /\ pen'[t] # <<>> => Follows(x, y) /\ y \in Strokes
        /\ pen'[t] = <<>> => Final(x)
        /\ \A u \in Threads \ {t} : pen'[u] = pen[u]
        BY <1>3, StrokeMade
  <2>2. /\ Writes(t, "names") <=> x.list = "names"
        /\ Writes(t, "names")' <=> pen'[t] # <<>> /\ y.list = "names"
        BY <2>1 DEF Writes
  <2>3. x.list \in {"results", "data", "names"} =>
           \A u \in Threads \ {t} : ~Writes(u, "names") /\ ~Writes(u, "names")'
        BY <2>1, RowAlone DEF Writes
  <2> HIDE DEF x, y
  <2>4. /\ x.list # "names" => lists'["names"] = lists["names"]
        /\ x.list # "data" => lists'["data"] = lists["data"]
        BY <1>3, Grows DEF x, Lists
  <2>5. CASE x.list = "names"
    <3>1. /\ Len(lists'["names"]) = Len(lists["names"]) + 1 /\ x.item = Of(x)
          /\ lists'["names"][Len(lists["names"]) + 1] = x.item
          /\ \A i \in 1 .. Len(lists["names"]) : lists'["names"][i] = lists["names"][i]
          BY <1>3, <2>1, <2>5, Grows DEF x, Lists, Of
    <3>2. /\ lists["data"] # <<>> /\ lists["data"][Len(lists["data"])] = x.item
          /\ Len(lists["names"]) + 1 >= Len(lists["data"])
          /\ session = 1 => Len(lists["names"]) + 1 = Len(lists["data"])
          BY <1>1, <2>2, <2>5, <3>1 DEF Names, LastText, x
    <3>3. \A u \in Threads : ~Writes(u, "names")'
          BY <2>1, <2>2, <2>3, <2>5 DEF Follows
    <3>4. ASSUME session' = 1, NEW i \in 1 .. Len(lists'["names"])
          PROVE  i <= Len(lists'["data"]) /\ lists'["names"][i] = lists'["data"][i]
      <4>1. CASE i \in 1 .. Len(lists["names"])
            BY <1>1, <2>4, <2>5, <3>1, <3>4, <4>1 DEF Names
      <4>2. CASE i = Len(lists["names"]) + 1
            BY <1>1, <2>4, <2>5, <3>1, <3>2, <3>4, <4>2
      <4> QED BY <1>2, <3>1, <4>1, <4>2
    <3> QED BY <1>1, <1>2, <2>4, <2>5, <3>1, <3>2, <3>3, <3>4 DEF Names
  <2>6. CASE x.list = "data"
    <3>1. /\ Len(lists'["data"]) = Len(lists["data"]) + 1 /\ lists'["data"] # <<>> /\ x.item = Of(x)
          /\ lists'["data"][Len(lists["data"]) + 1] = x.item
          /\ \A i \in 1 .. Len(lists["data"]) : lists'["data"][i] = lists["data"][i]
          BY <1>3, <2>1, <2>6, Grows DEF x, Lists, Of
    <3>2. pen'[t] # <<>> /\ y.list = "names" /\ Of(y) = Of(x)
          BY <2>1, <2>6 DEF Follows, Final
    <3>3. LastText(t)'
          BY <3>1, <3>2 DEF LastText, y
    <3>4. Len(lists["names"]) >= Len(lists["data"]) /\ (session = 1 => Len(lists["names"]) = Len(lists["data"]))
          BY <1>1, <2>2, <2>3, <2>6 DEF Names
    <3>5. /\ Len(lists'["names"]) + 1 >= Len(lists'["data"])
          /\ session' = 1 => Len(lists'["names"]) + 1 = Len(lists'["data"])
          BY <1>1, <1>2, <2>4, <2>6, <3>1, <3>4
    <3>6. ASSUME session' = 1, NEW i \in 1 .. Len(lists'["names"])
          PROVE  i <= Len(lists'["data"]) /\ lists'["names"][i] = lists'["data"][i]
      <4>1. session = 1 /\ i \in 1 .. Len(lists["names"]) /\ lists'["names"] = lists["names"]
            BY <1>1, <2>4, <2>6, <3>6
      <4>2. i <= Len(lists["data"]) /\ lists["names"][i] = lists["data"][i]
            BY <1>1, <4>1 DEF Names
      <4>3. i \in 1 .. Len(lists["data"])
            BY <1>2, <4>1, <4>2
      <4> QED BY <1>2, <3>1, <4>1, <4>2, <4>3
    <3> QED BY <2>2, <2>3, <2>6, <3>2, <3>3, <3>5, <3>6 DEF Names
  <2>7. CASE x.list \notin {"data", "names"}
    <3>1. lists'["data"] = lists["data"] /\ lists'["names"] = lists["names"]
          BY <2>4, <2>7
    <3>2. ~Writes(t, "names") /\ ~Writes(t, "names")'
          BY <2>1, <2>2, <2>7 DEF Follows
    <3> QED BY <1>1, <2>1, <3>1, <3>2 DEF Names, Writes, LastText
  <2> QED BY <2>5, <2>6, <2>7
<1>4. ASSUME ~Push("worker"), ~Push("gui") PROVE Names'
  <2>1. \A t \in Threads : pen'[t] = pen[t] \/ (~Writes(t, "names") /\ ~Writes(t, "names")')
        BY <1>4, BeginsOutside DEF Threads
  <2>2. lists'["data"] = lists["data"] /\ lists'["names"] = lists["names"]
        BY <1>4, RowsKept
  <2> QED BY <1>1, <2>1, <2>2 DEF Names, Writes, LastText
<1> QED BY <1>3, <1>4 DEF Threads

-----------------------------------------------------------------------------
(* The rows of the address and of the dialog.                               *)

\* They come from the two slots only.
LEMMA WroteKept ==
    ASSUME Goes, NEW who \in {"address", "dialog"}, Wrote(who)'
    PROVE  \/ Wrote(who)
           \/ Deliver /\ who = "address" /\ inbox # <<>> /\ Head(inbox) # "judg"
           \/ JudgeSure /\ who = "dialog"
<1>1. /\ WorkerWrites /\ PensTyped /\ PensTyped' /\ ListsTyped
      /\ lists["data"] \in Seq(Items) /\ lists'["data"] \in Seq(Items)
      BY DEF Goes, Typed, Alone, Pens, ListsTyped, Lists, Held
<1>2. Len(lists["data"]) \in Nat
      BY <1>1
<1>3. CASE \E i \in 1 .. Len(lists'["data"]) : lists'["data"][i].who = who
  <2>1. PICK i \in 1 .. Len(lists'["data"]) : lists'["data"][i].who = who
        BY <1>3
  <2>2. ASSUME NEW t \in Threads, Push(t) PROVE Wrote(who)
    <3> DEFINE x == Head(pen[t])
    <3>1. /\ pen[t] # <<>> /\ x \in Strokes /\ 1 \in 1 .. Len(pen[t]) /\ x = pen[t][1]
          BY <2>2, StrokeMade, LastIs
    <3> HIDE DEF x
    <3>2. CASE x.list # "data"
      <4>1. lists'["data"] = lists["data"]
            BY <2>2, <3>2, Grows DEF x, Lists
      <4> QED BY <2>1, <4>1 DEF Wrote
    <3>3. CASE x.list = "data"
      <4>1. /\ Len(lists'["data"]) = Len(lists["data"]) + 1 /\ x.item = Of(x)
            /\ lists'["data"][Len(lists["data"]) + 1] = x.item
            /\ \A k \in 1 .. Len(lists["data"]) : lists'["data"][k] = lists["data"][k]
            BY <2>2, <3>3, Grows DEF x, Lists, Of
      <4>2. CASE i \in 1 .. Len(lists["data"])
            BY <2>1, <4>1, <4>2 DEF Wrote
      <4>3. CASE i = Len(lists["data"]) + 1
        <5>1. Of(x).who = who
              BY <2>1, <4>1, <4>3
        <5>2. CASE t = "gui"
              BY <3>1, <5>1, <5>2 DEF Wrote
        <5>3. CASE t = "worker"
              BY <1>1, <3>1, <3>3, <5>1, <5>3 DEF WorkerWrites, Item
        <5> QED BY <5>2, <5>3 DEF Threads
      <4> QED BY <1>2, <4>1, <4>2, <4>3
    <3> QED BY <3>2, <3>3
  <2>3. CASE ~Push("worker") /\ ~Push("gui")
    <3>1. lists'["data"] = lists["data"]
          BY <2>3, RowsKept
    <3> QED BY <2>1, <3>1 DEF Wrote
  <2> QED BY <2>2, <2>3 DEF Threads
<1>4. CASE \E i \in 1 .. Len(pen'["gui"]) : Of(pen'["gui"][i]).who = who
  <2>1. PICK i \in 1 .. Len(pen'["gui"]) : Of(pen'["gui"][i]).who = who
        BY <1>4
  <2>2. CASE pen'["gui"] = pen["gui"]
        BY <2>1, <2>2 DEF Wrote
  <2>3. CASE Push("gui")
    <3> DEFINE s == pen["gui"]
    <3>1. s \in Seq(Strokes) /\ s # <<>> /\ pen'["gui"] = Tail(s)
          BY <1>1, <2>3, PushIs DEF Threads
    <3> HIDE DEF s
    <3>2. Len(s) \in Nat \ {0} /\ Len(Tail(s)) = Len(s) - 1 /\ \A k \in 1 .. Len(s) - 1 : Tail(s)[k] = s[k + 1]
          BY <3>1, TailIs
    <3>3. i + 1 \in 1 .. Len(s) /\ Of(s[i + 1]).who = who
          BY <2>1, <3>1, <3>2
    <3> QED BY <3>3 DEF Wrote, s
  <2>4. CASE Deliver
    <3>1. inbox # <<>>
          BY <2>4, DeliverIs
    <3> DEFINE good == Head(inbox) = "good"
               s == AddressNote(Item("address", 0), good)
    <3>2. /\ pen'["gui"] = <<>> \/ (Head(inbox) # "judg" /\ pen'["gui"] = s)
          BY <2>4, DeliverIs
    <3>3. Item("address", 0) \in Items
      <4>1. session \in 1..MaxSessions
            BY <3>1, Begun DEF Goes, Typed
      <4> QED BY <4>1, ItemIs, TestLogAssumption DEF Writers
    <3>4. Len(s) \in {6, 9} /\ \A k \in 1 .. Len(s) : Of(s[k]) = Item("address", 0)
          BY <3>3, AddressIs
    <3> HIDE DEF s
    <3>5. pen'["gui"] # <<>>
          BY <2>1
    <3>6. Of(pen'["gui"][i]) = Item("address", 0) /\ Head(inbox) # "judg"
          BY <2>1, <3>2, <3>4, <3>5
    <3> QED BY <2>1, <2>4, <3>1, <3>6 DEF Item
  <2>5. CASE JudgeSure
    <3>1. session \in 1..MaxSessions
          BY <2>5, Begun, JudgeSureIs DEF Goes, Typed
    <3>2. PICK meets \in [1..Confirmed -> BOOLEAN] : pen'["gui"] = ConfirmedRows(meets)
          BY <2>5, JudgeSureIs
    <3>3. i \in 1 .. 3 * Confirmed
          BY <2>1, <3>1, <3>2, ConfirmedIs
    <3>4. Of(pen'["gui"][i]) = Item("dialog", (i - 1) \div 3 + 1)
          BY <3>1, <3>2, <3>3, ConfirmedIs
    <3> QED BY <2>1, <2>5, <3>4 DEF Item
  <2> QED BY <2>2, <2>3, <2>4, <2>5, PenKept
<1> QED BY <1>3, <1>4 DEF Wrote

\* The signals that can be waiting.
LEMMA Mailbox ==
    /\ \A g \in {"good", "bad"} :
          /\ Append(<<g>>, "judg") = <<g, "judg">> /\ Tail(<<g, "judg">>) = <<"judg">> /\ Tail(<<g>>) = <<>>
          /\ <<g>> # <<>> /\ <<g, "judg">> # <<>> /\ Head(<<g>>) = g /\ Head(<<g, "judg">>) = g
          /\ <<g, "judg">> \notin {<<>>, <<"good">>, <<"bad">>}
    /\ Append(<<>>, "judg") = <<"judg">> /\ Head(<<"judg">>) = "judg" /\ <<"judg">> # <<>>
    /\ <<"judg">> \notin {<<>>, <<"good">>, <<"bad">>}
<1>1. ASSUME NEW g \in {"good", "bad"}
      PROVE  /\ Append(<<g>>, "judg") = <<g, "judg">> /\ Tail(<<g, "judg">>) = <<"judg">> /\ Tail(<<g>>) = <<>>
             /\ <<g>> # <<>> /\ <<g, "judg">> # <<>> /\ Head(<<g>>) = g /\ Head(<<g, "judg">>) = g
             /\ <<g, "judg">> \notin {<<>>, <<"good">>, <<"bad">>}
  <2>1. Append(<<g>>, "judg") = <<g, "judg">>
    <3>1. /\ <<g>> \in Seq(Signals) /\ <<g, "judg">> \in Seq(Signals) /\ "judg" \in Signals
          /\ Len(<<g>>) = 1 /\ <<g>>[1] = g
          BY DEF Signals
    <3> DEFINE s == <<g>>
               t == <<g, "judg">>
    <3>2. Len(t) = 2 /\ t[1] = g /\ t[2] = "judg" /\ t \in Seq(Signals)
          BY <3>1
    <3> HIDE DEF s, t
    <3>3. s \in Seq(Signals) /\ Len(s) = 1 /\ s[1] = g
          BY <3>1 DEF s
    <3>4. /\ Append(s, "judg") \in Seq(Signals) /\ Len(Append(s, "judg")) = 2
          /\ Append(s, "judg")[1] = g /\ Append(s, "judg")[2] = "judg"
      <4> DEFINE j == "judg"
      <4>1. j \in Signals /\ s \in Seq(Signals)
            BY <3>1, <3>3
      <4> HIDE DEF j
      <4>2. /\ Append(s, j) \in Seq(Signals) /\ Len(Append(s, j)) = Len(s) + 1
            /\ Append(s, j)[Len(s) + 1] = j /\ \A i \in 1 .. Len(s) : Append(s, j)[i] = s[i]
            BY <4>1
      <4> QED BY <3>3, <4>2 DEF j
    <3>5. \A i \in 1..2 : Append(s, "judg")[i] = t[i]
          BY <3>2, <3>4
    <3>6. Append(s, "judg") = t
          BY <3>2, <3>4, <3>5
    <3> QED BY <3>6 DEF s, t
  <2>2. Tail(<<g, "judg">>) = <<"judg">>
        OBVIOUS
  <2>3. Tail(<<g>>) = <<>>
        OBVIOUS
  <2>4. Len(<<g, "judg">>) = 2 /\ Len(<<"good">>) = 1 /\ Len(<<"bad">>) = 1
        OBVIOUS
  <2>5. <<g, "judg">> \notin {<<>>, <<"good">>, <<"bad">>}
        BY <2>4
  <2> QED BY <2>1, <2>2, <2>3, <2>5
<1>2. Append(<<>>, "judg") = <<"judg">> /\ Head(<<"judg">>) = "judg" /\ <<"judg">> # <<>>
      OBVIOUS
<1>3. <<"judg">>[1] = "judg" /\ <<"good">>[1] = "good" /\ <<"bad">>[1] = "bad"
      OBVIOUS
<1>4. <<"judg">> \notin {<<>>, <<"good">>, <<"bad">>}
      BY <1>2, <1>3
<1> QED BY <1>1, <1>2, <1>4

\* What is in the mailbox of the GUI thread, and when.
LEMMA StageStep ==
    ASSUME Goes
    PROVE  Stage'
<1>1. Stage /\ SlotsTyped /\ SlotsTyped'
      BY DEF Goes, Alone, Typed
<1>2. CASE InitDev
  <2>1. inbox = <<>> /\ at = "initDev" /\ at' = "note" /\ dialog' = dialog /\ pen' = pen /\ ~Deliver /\ ~JudgeSure
        BY <1>1, <1>2 DEF Stage, InitDev, Ready, Deliver, JudgeSure, guiVars
  <2>2. inbox' \in {<<>>, <<"good">>, <<"bad">>}
        BY <1>2, <2>1 DEF InitDev
  <2>3. ~Wrote("address")' /\ ~Wrote("dialog")' /\ ~dialog'
        BY <1>1, <2>1, WroteKept DEF Stage
  <2> QED BY <2>1, <2>2, <2>3 DEF Stage
<1>3. CASE EndChecks
  <2>1. at = "note" /\ at' = "decide" /\ dialog' = dialog /\ pen' = pen /\ ~Deliver /\ ~JudgeSure
        BY <1>1, <1>3 DEF EndChecks, Ready, Deliver, JudgeSure
  <2>2. inbox \in {<<>>, <<"good">>, <<"bad">>} /\ ~dialog /\ ~Wrote("dialog")
        BY <1>1, <2>1 DEF Stage
  <2>3. inbox' \in {<<>>, <<"good">>, <<"bad">>, <<"judg">>, <<"good", "judg">>, <<"bad", "judg">>}
        BY <1>3, <2>2, Mailbox DEF EndChecks
  <2>4. ~Wrote("dialog")' /\ ~dialog'
        BY <2>1, <2>2, WroteKept
  <2>5. inbox' # <<>> /\ Head(inbox') # "judg" => inbox # <<>> /\ Head(inbox) # "judg"
        BY <1>3, <2>2 DEF EndChecks
  <2>6. inbox' # <<>> /\ Head(inbox') # "judg" => ~Wrote("address")'
        BY <1>1, <2>1, <2>5, WroteKept DEF Stage
  <2> QED BY <2>1, <2>3, <2>4, <2>6 DEF Stage
<1>4. CASE Deliver
  <2>1. /\ pen["gui"] = <<>> /\ inbox # <<>> /\ inbox' = Tail(inbox) /\ at' = at
        /\ dialog' = (dialog \/ Head(inbox) = "judg")
        /\ pen'["gui"] = <<>> \/ Head(inbox) # "judg"
        BY <1>4, DeliverIs
  <2>2. ~dialog /\ ~Wrote("dialog")
        BY <1>1, <2>1 DEF Stage
  <2>3. ~Wrote("dialog")'
        BY <1>4, <2>2, WroteKept DEF Deliver, JudgeSure
  <2>4. inbox \in {<<"good">>, <<"bad">>, <<"judg">>, <<"good", "judg">>, <<"bad", "judg">>}
        BY <1>1, <2>1 DEF Stage
  <2>5. CASE inbox = <<"judg">>
    <3>1. inbox' = <<>> /\ Head(inbox) = "judg" /\ pen'["gui"] = <<>> /\ at \notin {"initDev", "note", "row"}
          BY <1>1, <2>1, <2>5 DEF Stage
    <3> QED BY <2>1, <2>3, <3>1 DEF Stage
  <2>6. CASE inbox \in {<<"good">>, <<"bad">>}
    <3>1. inbox' = <<>> /\ Head(inbox) # "judg" /\ at # "initDev"
          BY <1>1, <2>1, <2>6, Mailbox DEF Stage
    <3> QED BY <2>1, <2>2, <2>3, <3>1 DEF Stage
  <2>7. CASE inbox \in {<<"good", "judg">>, <<"bad", "judg">>}
    <3>1. inbox' = <<"judg">> /\ Head(inbox) # "judg"
          BY <2>1, <2>7, Mailbox
    <3>2. at \notin {"initDev", "note", "row"}
          BY <1>1, <2>7, Mailbox DEF Stage
    <3>3. Head(inbox') = "judg" /\ inbox' # <<>>
          BY <3>1, Mailbox
    <3>4. ~dialog'
          BY <2>1, <2>2, <3>1
    <3>5. at' \notin {"initDev", "note", "row"}
          BY <2>1, <3>2
    <3> QED BY <2>3, <3>1, <3>3, <3>4, <3>5 DEF Stage
  <2> QED BY <2>4, <2>5, <2>6, <2>7
<1>5. CASE JudgeSure
  <2>1. pen["gui"] = <<>> /\ dialog /\ ~dialog' /\ inbox' = inbox /\ at' = at
        BY <1>5, JudgeSureIs
  <2>2. inbox = <<>> /\ at \notin {"initDev", "note", "row"}
        BY <1>1, <2>1 DEF Stage
  <2> QED BY <2>1, <2>2 DEF Stage
<1>6. CASE JudgeDismiss
  <2>1. pen' = pen /\ dialog /\ ~dialog' /\ inbox' = inbox /\ at' = at
        BY <1>6 DEF JudgeDismiss, workerVars
  <2>2. inbox = <<>> /\ at \notin {"initDev", "note", "row"}
        BY <1>1, <2>1 DEF Stage
  <2> QED BY <2>1, <2>2 DEF Stage
<1>7. CASE ~InitDev /\ ~EndChecks /\ ~Deliver /\ ~JudgeSure /\ ~JudgeDismiss
  <2>1. /\ inbox' = inbox /\ dialog' = dialog
        /\ at' = "initDev" => at = "initDev"
        /\ at' \in {"initDev", "note", "row"} => at \in {"initDev", "note", "row"}
        BY <1>7 DEF Goes, Next, Worker, Gui, Push, Note, WriteRow, Decide, Await, EnterLog, ReadNext, Save,
                    StopFunc, Timer, Ready, workerVars, guiVars
  <2>2. \A who \in {"address", "dialog"} : Wrote(who)' => Wrote(who)
        BY <1>7, WroteKept
  <2>3. dialog' => pen'["gui"] = <<>>
    <3>1. dialog' => dialog /\ pen["gui"] = <<>>
          BY <1>1, <2>1 DEF Stage
    <3>2. pen["gui"] = <<>> => ~Push("gui")
          BY DEF Push
    <3> QED BY <1>7, <3>1, <3>2, PenKept
  <2> QED BY <1>1, <2>1, <2>2, <2>3 DEF Stage
<1> QED BY <1>2, <1>3, <1>4, <1>5, <1>6, <1>7

-----------------------------------------------------------------------------
(* The texts of the rows.                                                   *)

\* They change by one more text at a time.
LEMMA TextsGrow ==
    ASSUME Goes
    PROVE  \/ lists'["data"] = lists["data"]
           \/ \E t \in Threads :
                /\ Push(t) /\ pen[t] # <<>> /\ Head(pen[t]).list = "data"
                /\ Head(pen[t]) = pen[t][1] /\ 1 \in 1 .. Len(pen[t])
                /\ Len(lists'["data"]) = Len(lists["data"]) + 1
                /\ lists'["data"][Len(lists["data"]) + 1] = Of(Head(pen[t]))
                /\ \A i \in 1 .. Len(lists["data"]) : lists'["data"][i] = lists["data"][i]
<1>1. ASSUME NEW t \in Threads, Push(t), Head(pen[t]).list = "data"
      PROVE  /\ pen[t] # <<>> /\ Head(pen[t]) = pen[t][1] /\ 1 \in 1 .. Len(pen[t])
             /\ Len(lists'["data"]) = Len(lists["data"]) + 1
             /\ lists'["data"][Len(lists["data"]) + 1] = Of(Head(pen[t]))
             /\ \A i \in 1 .. Len(lists["data"]) : lists'["data"][i] = lists["data"][i]
  <2>1. pen[t] # <<>> /\ Head(pen[t]) = pen[t][1] /\ 1 \in 1 .. Len(pen[t])
        BY <1>1, StrokeMade, LastIs
  <2>2. /\ Len(lists'["data"]) = Len(lists["data"]) + 1
        /\ lists'["data"][Len(lists["data"]) + 1] = Head(pen[t]).item
        /\ \A i \in 1 .. Len(lists["data"]) : lists'["data"][i] = lists["data"][i]
        BY <1>1, Grows DEF Lists
  <2>3. Of(Head(pen[t])) = Head(pen[t]).item
        BY <1>1 DEF Of
  <2> QED BY <2>1, <2>2, <2>3
<1>2. ASSUME NEW t \in Threads, Push(t), Head(pen[t]).list # "data"
      PROVE  lists'["data"] = lists["data"]
      BY <1>2, Grows DEF Lists
<1>3. ~Push("worker") /\ ~Push("gui") => lists'["data"] = lists["data"]
      BY RowsKept
<1> QED BY <1>1, <1>2, <1>3 DEF Threads

\* The rows that have been begun become more, and only WriteRow begins one.
LEMMA RowsGrow ==
    ASSUME Goes
    PROVE  /\ rows \in Nat /\ rows' \in Nat /\ rows' >= rows
           /\ rows' # rows => WriteRow /\ LogsOpen(step) /\ rows' = rows + 1
<1>1. rows \in Nat /\ rows' \in Nat
      BY TestLogAssumption DEF Goes, Typed, CountsTyped
<1>2. rows' = rows \/ (WriteRow /\ LogsOpen(step) /\ rows' = rows + 1)
      BY DEF Goes, Next, Worker, Gui, Push, InitDev, Note, WriteRow, EndChecks, Decide, Await, EnterLog, ReadNext,
             Save, StopFunc, Timer, Deliver, JudgeSure, JudgeDismiss
<1> QED BY <1>1, <1>2

\* A text in a pen was there before the step, behind the stroke that is made, or is new.
LEMMA TextStrokes ==
    ASSUME Goes, NEW t \in Threads, NEW j \in 1 .. Len(pen'[t]), pen'[t][j].list = "data"
    PROVE  \/ \E k \in 1 .. Len(pen[t]) : pen[t][k] = pen'[t][j] /\ (Push(t) => k > 1)
           \/ /\ lists'["data"] = lists["data"]
              /\ \A i \in 1 .. Len(lists["data"]) :
                    /\ lists["data"][i] # Of(pen'[t][j])
                    /\ ~(Of(pen'[t][j]).who = "dialog" /\ lists["data"][i].who = "dialog")
<1>1. PensTyped /\ Texts /\ Stage /\ CountsTyped /\ TestLogAssumption
      BY TestLogAssumption DEF Goes, Alone, Typed
<1>2. CASE Push(t)
  <2> DEFINE s == pen[t]
  <2>1. s \in Seq(Strokes) /\ s # <<>> /\ pen'[t] = Tail(s)
        BY <1>1, <1>2, PushIs DEF Goes, Typed
  <2> HIDE DEF s
  <2>2. Len(s) \in Nat \ {0} /\ Len(Tail(s)) = Len(s) - 1 /\ \A k \in 1 .. Len(s) - 1 : Tail(s)[k] = s[k + 1]
        BY <2>1, TailIs
  <2>3. j + 1 \in 1 .. Len(s) /\ s[j + 1] = pen'[t][j] /\ j + 1 > 1
        BY <2>1, <2>2
  <2> QED BY <2>3 DEF s
<1>3. CASE ~Push(t) /\ pen'[t] = pen[t]
      BY <1>3
<1>4. CASE Note /\ t = "worker"
  <2>1. session \in 1..MaxSessions /\ check \in 1..Checks /\ ok' \in BOOLEAN
        BY <1>1, <1>4, Begun DEF Goes, Typed, Note, Ready, CountsTyped
  <2>2. Item("check", check) \in Items
        BY <1>1, <2>1, ItemIs DEF Writers
  <2> DEFINE s == Line(Item("check", check), ok')
  <2>3. Len(s) = 3 /\ s[1].list = "pass" /\ s[2].list = "status" /\ s[3].list = "result"
        BY <2>1, <2>2, LineIs
  <2>4. pen'[t] = s \/ pen'[t] = <<>>
        BY <1>1, <1>4 DEF Note, Take, PensTyped, Threads
  <2> HIDE DEF s
  <2>5. j \in 1..3 /\ pen'[t] = s
        BY <2>3, <2>4
  <2>6. j = 1 \/ j = 2 \/ j = 3
        BY <2>5
  <2> QED BY <2>3, <2>5, <2>6
<1>5. CASE Decide /\ t = "worker"
  <2>1. session \in 1..MaxSessions
        BY <1>5, Begun DEF Goes, Typed, Decide, Ready
  <2>2. Item("label", 0) \in Items
        BY <1>1, <2>1, ItemIs DEF Writers
  <2>3. PICK printed \in BOOLEAN : pen' = [pen EXCEPT !["worker"] = Line(Item("label", 0), printed /\ result # Test_Fail)]
        BY <1>5 DEF Decide, Take
  <2>4. (printed /\ result # Test_Fail) \in BOOLEAN
        OBVIOUS
  <2> DEFINE s == Line(Item("label", 0), printed /\ result # Test_Fail)
  <2>5. Len(s) = 3 /\ s[1].list = "pass" /\ s[2].list = "status" /\ s[3].list = "result"
        BY <2>2, <2>4, LineIs
  <2>6. pen'[t] = s
        BY <1>1, <1>5, <2>3 DEF PensTyped, Threads
  <2> HIDE DEF s
  <2>7. j \in 1..3
        BY <2>5, <2>6
  <2>8. j = 1 \/ j = 2 \/ j = 3
        BY <2>7
  <2> QED BY <2>5, <2>6, <2>8
<1>6. CASE WriteRow /\ t = "worker"
  <2>1. session \in 1..MaxSessions /\ check \in 1..Checks /\ ok \in BOOLEAN /\ rows < check /\ rows \in Nat /\ lists' = lists
        BY <1>1, <1>6, Begun DEF Goes, Typed, WriteRow, Ready, CountsTyped
  <2>2. Item("check", check) \in Items
        BY <1>1, <2>1, ItemIs DEF Writers
  <2> DEFINE s == Row(Item("check", check), ok)
  <2>3. Len(s) = 3 /\ \A i \in 1..3 : Of(s[i]) = Item("check", check)
        BY <2>1, <2>2, RowIs
  <2>4. pen'[t] = s \/ pen'[t] = <<>>
        BY <1>1, <1>6 DEF WriteRow, Take, PensTyped, Threads
  <2> HIDE DEF s
  <2>5. j \in 1..3 /\ pen'[t] = s
        BY <2>3, <2>4
  <2>6. Of(pen'[t][j]) = Item("check", check)
        BY <2>3, <2>5
  <2>7. ASSUME NEW i \in 1 .. Len(lists["data"])
        PROVE  lists["data"][i] # Item("check", check)
    <3>1. \/ lists["data"][i] \in {Item("check", n) : n \in 1 .. rows}
          \/ lists["data"][i] = Item("address", 0)
          \/ lists["data"][i] \in {Item("dialog", n) : n \in 1 .. Confirmed}
          BY <1>1 DEF Texts
    <3>2. ASSUME NEW n \in 1 .. rows PROVE Item("check", n) # Item("check", check)
          BY <2>1 DEF Item
    <3> QED BY <3>1, <3>2 DEF Item
  <2>8. Of(pen'[t][j]).who # "dialog"
        BY <2>6 DEF Item
  <2> QED BY <2>1, <2>6, <2>7, <2>8
<1>7. CASE Deliver /\ t = "gui"
  <2>1. session \in 1..MaxSessions
        BY <1>7, Begun, DeliverIs DEF Goes, Typed
  <2>2. Item("address", 0) \in Items
        BY <1>1, <2>1, ItemIs DEF Writers
  <2> DEFINE good == Head(inbox) = "good"
             s == AddressNote(Item("address", 0), good)
  <2>3. Len(s) \in {6, 9} /\ \A i \in 1 .. Len(s) : Of(s[i]) = Item("address", 0)
        BY <2>2, AddressIs
  <2>4. pen'[t] = <<>> \/ (Head(inbox) # "judg" /\ pen'[t] = s)
        BY <1>7, DeliverIs
  <2> HIDE DEF s
  <2>5. j \in 1 .. Len(s) /\ pen'[t] = s /\ Head(inbox) # "judg"
        BY <2>3, <2>4
  <2>6. Of(pen'[t][j]) = Item("address", 0)
        BY <2>3, <2>5
  <2>7. inbox # <<>> /\ lists' = lists
        BY <1>7, DeliverIs
  <2>8. ~Wrote("address")
        BY <1>1, <2>5, <2>7 DEF Stage
  <2> QED BY <2>6, <2>7, <2>8 DEF Wrote, Item
<1>8. CASE JudgeSure /\ t = "gui"
  <2>1. session \in 1..MaxSessions /\ dialog /\ lists' = lists
        BY <1>8, Begun, JudgeSureIs DEF Goes, Typed
  <2>2. PICK meets \in [1..Confirmed -> BOOLEAN] : pen'[t] = ConfirmedRows(meets)
        BY <1>8, JudgeSureIs
  <2>3. j \in 1 .. 3 * Confirmed
        BY <2>1, <2>2, ConfirmedIs
  <2>4. Of(pen'[t][j]) = Item("dialog", (j - 1) \div 3 + 1)
        BY <2>1, <2>2, <2>3, ConfirmedIs
  <2>5. ~Wrote("dialog")
        BY <1>1, <2>1 DEF Stage
  <2> QED BY <2>1, <2>4, <2>5 DEF Wrote, Item
<1> QED BY <1>2, <1>3, <1>4, <1>5, <1>6, <1>7, <1>8, PenKept DEF Threads

\* Every text belongs to a row of this run, and to each row belongs one.
LEMMA TextsStep ==
    ASSUME Goes
    PROVE  Texts'
<1>1. Texts /\ Fresh /\ WorkerWrites /\ GuiWrites /\ session' = session
      BY DEF Goes, Alone, Pens
<1>2. /\ Len(lists["data"]) \in Nat /\ rows \in Nat /\ rows' \in Nat /\ rows' >= rows
  <2>1. lists["data"] \in Seq(Items)
        BY ListIs DEF Goes, Typed
  <2> QED BY <2>1, RowsGrow
<1> DEFINE There(v) == \/ v \in {Item("check", n) : n \in 1 .. rows}
                       \/ v = Item("address", 0)
                       \/ v \in {Item("dialog", n) : n \in 1 .. Confirmed}
           ThereNow(v) == \/ v \in {Item("check", n)' : n \in 1 .. rows'}
                          \/ v = Item("address", 0)'
                          \/ v \in {Item("dialog", n)' : n \in 1 .. Confirmed}
<1>3. ASSUME NEW v, There(v) PROVE ThereNow(v)
  <2>1. \A who, n : Item(who, n)' = Item(who, n)
        BY <1>1 DEF Item
  <2>2. \A n \in 1 .. rows : n \in 1 .. rows'
        BY <1>2
  <2> QED BY <1>3, <2>1, <2>2
<1>4. \A i \in 1 .. Len(lists["data"]) : There(lists["data"][i])
      BY <1>1 DEF Texts
<1>5. CASE lists'["data"] = lists["data"]
  <2>1. \A i \in 1 .. Len(lists'["data"]) : ThereNow(lists'["data"][i])
    <3> HIDE DEF There, ThereNow
    <3> QED BY <1>3, <1>4, <1>5
  <2> QED BY <1>1, <1>5, <2>1 DEF Texts
<1>6. ASSUME NEW t \in Threads, pen[t] # <<>>, Head(pen[t]).list = "data",
             Head(pen[t]) = pen[t][1], 1 \in 1 .. Len(pen[t]),
             Len(lists'["data"]) = Len(lists["data"]) + 1,
             lists'["data"][Len(lists["data"]) + 1] = Of(Head(pen[t])),
             \A i \in 1 .. Len(lists["data"]) : lists'["data"][i] = lists["data"][i]
      PROVE  Texts'
  <2>1. There(Of(Head(pen[t])))
    <3>1. CASE t = "worker"
      <4>1. Of(Head(pen[t])) = Item("check", rows) /\ rows > 0
            BY <1>1, <1>6, <3>1 DEF WorkerWrites
      <4>2. rows \in 1 .. rows
            BY <1>2, <4>1
      <4> QED BY <4>1, <4>2
    <3>2. CASE t = "gui"
          BY <1>1, <1>6, <3>2 DEF GuiWrites
    <3> QED BY <3>1, <3>2 DEF Threads
  <2>2. \A i \in 1 .. Len(lists'["data"]) : ThereNow(lists'["data"][i])
    <3> HIDE DEF There, ThereNow
    <3> QED BY <1>2, <1>3, <1>4, <1>6, <2>1
  <2>3. \A i \in 1 .. Len(lists["data"]) : lists["data"][i] # Of(Head(pen[t]))
        BY <1>1, <1>6 DEF Fresh
  <2>4. \A i, j \in 1 .. Len(lists'["data"]) : lists'["data"][i] = lists'["data"][j] => i = j
    <3>1. \A i \in 1 .. Len(lists'["data"]) : i \in 1 .. Len(lists["data"]) \/ i = Len(lists["data"]) + 1
          BY <1>2, <1>6
    <3> QED BY <1>1, <1>6, <2>3, <3>1 DEF Texts
  <2> QED BY <2>2, <2>4 DEF Texts
<1> QED BY <1>5, <1>6, TextsGrow

\* No text is written twice, and those of the dialog come in their order.
LEMMA FreshStep ==
    ASSUME Goes
    PROVE  Fresh'
<1>1. Fresh /\ Pens /\ PensTyped /\ Script(pen["worker"]) /\ Script(pen["gui"])
      BY DEF Goes, Alone, Pens, Typed, Threads
<1>2. Len(lists["data"]) \in Nat
  <2>1. lists["data"] \in Seq(Items)
        BY ListIs DEF Goes, Typed
  <2> QED BY <2>1
<1> SUFFICES ASSUME NEW t \in Threads, NEW j \in 1 .. Len(pen'[t]), pen'[t][j].list = "data",
                    NEW i \in 1 .. Len(lists'["data"])
             PROVE  /\ lists'["data"][i] # Of(pen'[t][j])
                    /\ Of(pen'[t][j]).who = "dialog" /\ lists'["data"][i].who = "dialog" =>
                          lists'["data"][i].n < Of(pen'[t][j]).n
    BY DEF Fresh, Of
<1>3. CASE \E k \in 1 .. Len(pen[t]) : pen[t][k] = pen'[t][j] /\ (Push(t) => k > 1)
  <2>1. PICK k \in 1 .. Len(pen[t]) : pen[t][k] = pen'[t][j] /\ (Push(t) => k > 1)
        BY <1>3
  <2>2. ASSUME i \in 1 .. Len(lists["data"]), lists'["data"][i] = lists["data"][i]
        PROVE  /\ lists'["data"][i] # Of(pen'[t][j])
               /\ Of(pen'[t][j]).who = "dialog" /\ lists'["data"][i].who = "dialog" =>
                     lists'["data"][i].n < Of(pen'[t][j]).n
        BY <1>1, <2>1, <2>2 DEF Fresh
  <2>3. CASE lists'["data"] = lists["data"]
        BY <2>2, <2>3
  <2>4. ASSUME NEW u \in Threads, Push(u), pen[u] # <<>>, Head(pen[u]).list = "data",
               Head(pen[u]) = pen[u][1], 1 \in 1 .. Len(pen[u]),
               Len(lists'["data"]) = Len(lists["data"]) + 1,
               lists'["data"][Len(lists["data"]) + 1] = Of(Head(pen[u])),
               \A m \in 1 .. Len(lists["data"]) : lists'["data"][m] = lists["data"][m]
        PROVE  /\ lists'["data"][i] # Of(pen'[t][j])
               /\ Of(pen'[t][j]).who = "dialog" /\ lists'["data"][i].who = "dialog" =>
                     lists'["data"][i].n < Of(pen'[t][j]).n
    <3>1. u = t
          BY <1>1, <2>1, <2>4, Apart
    <3>2. Of(pen[t][1]).n < Of(pen[t][k]).n
      <4>1. 1 < k /\ pen[t][1].list = "data" /\ pen[t][k].list = "data"
            BY <2>1, <2>4, <3>1
      <4>2. Script(pen[t])
            BY <1>1 DEF Threads
      <4> QED BY <2>4, <3>1, <4>1, <4>2 DEF Script
    <3>3. CASE i \in 1 .. Len(lists["data"])
          BY <2>2, <2>4, <3>3
    <3>4. CASE i = Len(lists["data"]) + 1
      <4>1. lists'["data"][i] = Of(pen[t][1]) /\ Of(pen'[t][j]) = Of(pen[t][k])
            BY <2>1, <2>4, <3>1, <3>4
      <4>2. Of(pen[t][1]).n \in Int
        <5>1. pen[t] \in Seq(Strokes)
              BY <1>1 DEF PensTyped
        <5>2. Of(pen[t][1]) \in Items
              BY <2>4, <3>1, <5>1, ElementIs, StrokeIs
        <5> QED BY <5>2 DEF Items
      <4> QED BY <3>2, <4>1, <4>2
    <3> QED BY <1>2, <2>4, <3>3, <3>4
  <2> QED BY <2>3, <2>4, TextsGrow
<1>4. CASE /\ lists'["data"] = lists["data"]
           /\ \A m \in 1 .. Len(lists["data"]) :
                 /\ lists["data"][m] # Of(pen'[t][j])
                 /\ ~(Of(pen'[t][j]).who = "dialog" /\ lists["data"][m].who = "dialog")
      BY <1>4
<1> QED BY <1>3, <1>4, TextStrokes


\* Every check that wrote a row is there or about to be.
LEMMA AllThereStep ==
    ASSUME Goes
    PROVE  AllThere'
<1>1. /\ AllThere /\ Stage /\ Resting /\ PensTyped /\ GuiWrites /\ CountsTyped /\ session' = session
      /\ lists["data"] \in Seq(Items)
      BY ListIs DEF Goes, Alone, Pens, Typed
<1>2. Len(lists["data"]) \in Nat /\ TestLogAssumption
      BY <1>1, TestLogAssumption
<1>3. \A k : Item("check", k)' = Item("check", k)
      BY <1>1 DEF Item
<1>4. ASSUME NEW v, NEW i \in 1 .. Len(lists["data"]), lists["data"][i] = v
      PROVE  \E k \in 1 .. Len(lists'["data"]) : lists'["data"][k] = v
  <2>1. CASE lists'["data"] = lists["data"]
        BY <1>4, <2>1
  <2>2. CASE /\ Len(lists'["data"]) = Len(lists["data"]) + 1
             /\ \A k \in 1 .. Len(lists["data"]) : lists'["data"][k] = lists["data"][k]
    <3>1. i \in 1 .. Len(lists'["data"])
          BY <1>2, <2>2
    <3> QED BY <1>4, <2>2, <3>1
  <2> QED BY <2>1, <2>2, TextsGrow
<1>5. ASSUME NEW n \in 1 .. rows'
      PROVE  \/ \E i \in 1 .. Len(lists'["data"]) : lists'["data"][i] = Item("check", n)
             \/ \E j \in 1 .. Len(pen'["worker"]) :
                   pen'["worker"][j].list = "data" /\ Of(pen'["worker"][j]) = Item("check", n)
  <2>1. CASE n \in 1 .. rows
    <3>1. CASE \E i \in 1 .. Len(lists["data"]) : lists["data"][i] = Item("check", n)
          BY <1>4, <3>1
    <3>2. CASE \E j \in 1 .. Len(pen["worker"]) :
                  pen["worker"][j].list = "data" /\ Of(pen["worker"][j]) = Item("check", n)
      <4>1. PICK j \in 1 .. Len(pen["worker"]) :
                  pen["worker"][j].list = "data" /\ Of(pen["worker"][j]) = Item("check", n)
            BY <3>2
      <4>2. CASE pen'["worker"] = pen["worker"]
            BY <4>1, <4>2
      <4>3. CASE Push("worker")
        <5> DEFINE s == pen["worker"]
        <5>1. s \in Seq(Strokes) /\ s # <<>> /\ pen'["worker"] = Tail(s)
              BY <1>1, <4>3, PushIs DEF Goes, Typed, Threads
        <5>2. /\ Len(s) \in Nat \ {0} /\ Len(Tail(s)) = Len(s) - 1
              /\ \A k \in 1 .. Len(s) - 1 : Tail(s)[k] = s[k + 1]
          <6> HIDE DEF s
          <6> QED BY <5>1, TailIs
        <5>3. CASE j = 1
          <6>1. Head(s) = s[1] /\ Head(s).list = "data" /\ Of(Head(s)) = Item("check", n)
                BY <4>1, <4>3, <5>3, StrokeMade, LastIs DEF Threads
          <6>2. /\ Len(lists'["data"]) = Len(lists["data"]) + 1
                /\ lists'["data"][Len(lists["data"]) + 1] = Head(s).item
                BY <4>3, <6>1, Grows DEF Lists, Threads
          <6>3. Len(lists["data"]) + 1 \in 1 .. Len(lists'["data"])
                BY <1>2, <6>2
          <6> QED BY <6>1, <6>2, <6>3 DEF Of
        <5>4. CASE j # 1
          <6>1. j - 1 \in 1 .. Len(s) - 1 /\ (j - 1) + 1 = j
                BY <4>1, <5>2, <5>4
          <6>2. Tail(s)[j - 1] = s[j] /\ j - 1 \in 1 .. Len(Tail(s))
                BY <5>2, <6>1
          <6> QED BY <4>1, <5>1, <6>2
        <5> QED BY <5>3, <5>4
      <4>4. CASE Note \/ WriteRow \/ Decide
        <5>1. pen["worker"] = <<>>
              BY <4>4 DEF Note, WriteRow, Decide, Ready
        <5> QED BY <4>1, <5>1
      <4> QED BY <4>2, <4>3, <4>4, PenKept
    <3> QED BY <1>1, <2>1, <3>1, <3>2 DEF AllThere
  <2>2. CASE n \notin 1 .. rows
    <3>1. WriteRow /\ LogsOpen(step) /\ rows' = rows + 1 /\ n = rows + 1
          BY <2>2, RowsGrow
    <3>2. n = check
          BY <1>1, <3>1 DEF AllThere, WriteRow, Ready, CountsTyped
    <3>3. session \in 1..MaxSessions /\ check \in 1..Checks /\ ok \in BOOLEAN
          BY <1>1, <3>1, Begun DEF Goes, Typed, WriteRow, Ready, CountsTyped
    <3>4. Item("check", check) \in Items
          BY <1>2, <3>3, ItemIs DEF Writers
    <3> DEFINE s == Row(Item("check", check), ok)
    <3>5. Len(s) = 3 /\ s[2].list = "data" /\ \A i \in 1..3 : Of(s[i]) = Item("check", check)
          BY <3>3, <3>4, RowIs
    <3>6. pen'["worker"] = s
          BY <1>1, <3>1 DEF WriteRow, Take, PensTyped, Threads
    <3> HIDE DEF s
    <3>7. 2 \in 1 .. Len(pen'["worker"]) /\ 2 \in 1..3
          BY <3>5, <3>6, SMTT(30)
    <3> QED BY <3>2, <3>5, <3>6, <3>7
  <2> QED BY <2>1, <2>2
<1>6. LogsOpen(step') => LogsOpen(step) \/ at' \notin {"note", "row"}
  <2>1. step' = step \/ step' = Test_End \/ (Save /\ at' = "off")
        BY DEF Goes, Next, Worker, Gui, Push, InitDev, Note, WriteRow, EndChecks, Decide, Await, EnterLog, ReadNext,
               Save, StopFunc, Timer, Deliver, JudgeSure, JudgeDismiss, progressVars
  <2> QED BY <2>1 DEF LogsOpen, Test_End
<1>7. at' \in {"note", "row"} /\ LogsOpen(step') => rows' = check' - 1
  <2> SUFFICES ASSUME at' \in {"note", "row"}, LogsOpen(step') PROVE rows' = check' - 1
      OBVIOUS
  <2>1. LogsOpen(step)
        BY <1>6
  <2>2. \/ at \in {"note", "row"} /\ check' = check /\ rows' = rows
        \/ InitDev
        \/ WriteRow
        BY DEF Goes, Next, Worker, Gui, Push, InitDev, Note, WriteRow, EndChecks, Decide, Await, EnterLog, ReadNext,
               Save, StopFunc, Timer, Deliver, JudgeSure, JudgeDismiss, workerVars, Ready
  <2>3. CASE InitDev
        BY <1>1, <2>3 DEF AllThere, InitDev, Ready
  <2>4. CASE WriteRow
    <3>1. rows = check - 1 /\ rows' = rows + 1 /\ check' = check + 1 /\ check \in Nat
          BY <1>1, <1>2, <2>1, <2>4 DEF AllThere, WriteRow, Ready, CountsTyped
    <3> QED BY <3>1
  <2> QED BY <1>1, <2>1, <2>2, <2>3, <2>4 DEF AllThere
<1>8. at' = "initDev" => rows' = 0 /\ lists'["data"] = <<>>
  <2> SUFFICES ASSUME at' = "initDev" PROVE rows' = 0 /\ lists'["data"] = <<>>
      OBVIOUS
  <2>1. at = "initDev" /\ ~WriteRow
        BY DEF Goes, Next, Worker, Gui, Push, InitDev, Note, WriteRow, EndChecks, Decide, Await, EnterLog, ReadNext,
               Save, StopFunc, Timer, Deliver, JudgeSure, JudgeDismiss, workerVars, Ready
  <2>2. rows = 0 /\ lists["data"] = <<>> /\ ~Wrote("address") /\ ~Wrote("dialog") /\ pen["worker"] = <<>>
        BY <1>1, <2>1 DEF AllThere, Stage, Resting
  <2>3. pen["gui"] = <<>>
    <3> SUFFICES ASSUME pen["gui"] # <<>> PROVE FALSE
        OBVIOUS
    <3>1. 1 \in 1 .. Len(pen["gui"])
          BY LastIs DEF Threads
    <3> DEFINE w == Of(pen["gui"][1])
    <3>2. w = Item("address", 0) \/ w \in {Item("dialog", k) : k \in 1 .. Confirmed}
          BY <1>1, <3>1 DEF GuiWrites
    <3> HIDE DEF w
    <3>3. w.who \in {"address", "dialog"}
          BY <3>2 DEF Item
    <3> QED BY <2>2, <3>1, <3>3 DEF Wrote, w
  <2>4. lists'["data"] = lists["data"]
        BY <2>2, <2>3, TextsGrow DEF Threads
  <2> QED BY <2>1, <2>2, <2>4, RowsGrow
<1>9. \A n \in 1 .. rows' :
         \/ \E i \in 1 .. Len(lists'["data"]) : lists'["data"][i] = Item("check", n)'
         \/ \E j \in 1 .. Len(pen'["worker"]) :
               pen'["worker"][j].list = "data" /\ Of(pen'["worker"][j]) = Item("check", n)'
      BY <1>3, <1>5
<1> QED BY <1>7, <1>8, <1>9 DEF AllThere, Of


-----------------------------------------------------------------------------
(* The verdict, and what writeLog reads.                                    *)

\* A bad verdict stays until the next session.
LEMMA BadStays ==
    ASSUME Goes, result = Test_Fail
    PROVE  result' = Test_Fail
BY DEF Goes, Next, Worker, Gui, Push, InitDev, Note, WriteRow, EndChecks, Decide, Await, EnterLog, ReadNext,
       Save, StopFunc, Timer, Deliver, JudgeSure, JudgeDismiss, progressVars, NotedResult

\* No row is worse than the verdict.
LEMMA MarkedStep ==
    ASSUME Goes
    PROVE  Marked'
<1>1. /\ Marked /\ WorkerWrites /\ PensTyped /\ PensTyped' /\ (result' # Test_Fail => result # Test_Fail)
      /\ lists["results"] \in Seq(Marks) /\ lists'["results"] \in Seq(Marks) /\ CountsTyped
  <2>1. result' # Test_Fail => result # Test_Fail
        BY BadStays
  <2> QED BY <2>1 DEF Goes, Alone, Pens, Typed, ListsTyped, Lists, Held
<1>2. Len(lists["results"]) \in Nat
      BY <1>1
<1>3. ASSUME result' # Test_Fail, NEW i \in 1 .. Len(lists'["results"])
      PROVE  lists'["results"][i].good \/ lists'["results"][i].of.who = "dialog"
  <2>1. ASSUME NEW t \in Threads, Push(t), Head(pen[t]).list = "results"
        PROVE  lists'["results"][i].good \/ lists'["results"][i].of.who = "dialog"
    <3>1. /\ Len(lists'["results"]) = Len(lists["results"]) + 1
          /\ lists'["results"][Len(lists["results"]) + 1] = Head(pen[t]).item
          /\ \A k \in 1 .. Len(lists["results"]) : lists'["results"][k] = lists["results"][k]
          BY <2>1, Grows DEF Lists
    <3>2. Writes(t, "results") /\ Of(Head(pen[t])) = Head(pen[t]).item.of
          BY <2>1, StrokeMade DEF Writes, Of
    <3>3. Head(pen[t]).item.good \/ Head(pen[t]).item.of.who = "dialog"
          BY <1>1, <1>3, <3>2 DEF Marked
    <3>4. CASE i \in 1 .. Len(lists["results"])
          BY <1>1, <1>3, <3>1, <3>4 DEF Marked
    <3>5. CASE i = Len(lists["results"]) + 1
          BY <3>1, <3>3, <3>5
    <3> QED BY <1>2, <3>1, <3>4, <3>5
  <2>2. CASE lists'["results"] = lists["results"]
        BY <1>1, <1>3, <2>2 DEF Marked
  <2>3. ASSUME NEW t \in Threads, Push(t), Head(pen[t]).list # "results"
        PROVE  lists'["results"] = lists["results"]
        BY <2>3, Grows DEF Lists
  <2>4. ~Push("worker") /\ ~Push("gui") => lists'["results"] = lists["results"]
        BY RowsKept
  <2> QED BY <2>1, <2>2, <2>3, <2>4 DEF Threads
<1>4. ASSUME NEW t \in Threads, Writes(t, "results")'
      PROVE  Head(pen'[t]).item.good \/ Of(Head(pen'[t])).who = "dialog" \/ result' = Test_Fail
  <2>1. pen'[t] # <<>> /\ Head(pen'[t]).list = "results"
        BY <1>4 DEF Writes
  <2>2. CASE pen'[t] = pen[t]
        BY <1>1, <1>4, <2>2 DEF Marked, Writes
  <2>3. CASE Push(t)
    <3> DEFINE x == Head(pen[t])
               y == Head(pen'[t])
    <3>1. pen[t] # <<>> /\ x \in Strokes /\ y \in Strokes /\ Follows(x, y) /\ y.list = "results"
          BY <2>1, <2>3, StrokeMade
    <3>2. x.list = "result" => result' = NotedResult(result, x.item.good)
          BY <1>1, <2>3, PushIs DEF Goes, Typed
    <3> HIDE DEF x, y
    <3>3. CASE x.list = "result" /\ y.item = x.item
      <4>1. x.item.good \in BOOLEAN
            BY <3>1, <3>3, StrokeIs
      <4> QED BY <3>2, <3>3, <4>1 DEF NotedResult, y
    <3>4. CASE Of(y) = Of(x) /\ Of(x).who = "dialog"
          BY <3>4 DEF y
    <3> QED BY <3>1, <3>3, <3>4 DEF Follows
  <2>4. CASE ~Push(t) /\ pen'[t] # pen[t]
    <3>1. /\ t = "worker" /\ WriteRow /\ pen[t] = <<>> /\ LogsOpen(step)
          /\ Head(pen'[t]).item = Mark(Item("check", check), ok)
          BY <2>1, <2>4, Begins
    <3>2. ok \/ result = Test_Fail
          BY <1>1, <3>1 DEF Marked, WriteRow, Ready
    <3> QED BY <1>1, <3>1, <3>2 DEF Mark
  <2> QED BY <2>2, <2>3, <2>4
<1>5. ASSUME at' = "row", NEW j \in 1 .. Len(pen'["worker"]), pen'["worker"][j].list = "result"
      PROVE  pen'["worker"][j].item.good = ok'
  <2>1. ~WriteRow /\ ~Decide
        BY <1>5 DEF WriteRow, Decide
  <2>1a. (at = "row" /\ ok' = ok) \/ Note
        BY <1>5 DEF Goes, Next, Worker, Gui, Push, InitDev, Note, WriteRow, EndChecks, Decide, Await, EnterLog,
               ReadNext, Save, StopFunc, Timer, Deliver, JudgeSure, JudgeDismiss, workerVars, Ready
  <2>2. CASE at = "row" /\ ok' = ok /\ pen'["worker"] = pen["worker"]
        BY <1>1, <1>5, <2>2 DEF Marked
  <2>3. CASE at = "row" /\ ok' = ok /\ Push("worker")
    <3> DEFINE s == pen["worker"]
    <3>1. s \in Seq(Strokes) /\ s # <<>> /\ pen'["worker"] = Tail(s)
          BY <1>1, <2>3, PushIs DEF Goes, Typed, Threads
    <3> HIDE DEF s
    <3>2. Len(s) \in Nat \ {0} /\ Len(Tail(s)) = Len(s) - 1 /\ \A k \in 1 .. Len(s) - 1 : Tail(s)[k] = s[k + 1]
          BY <3>1, TailIs
    <3>3. j + 1 \in 1 .. Len(s) /\ s[j + 1] = pen'["worker"][j]
          BY <3>1, <3>2
    <3> QED BY <1>1, <1>5, <2>3, <3>3 DEF Marked, s
  <2>4. CASE Note
    <3>1. session \in 1..MaxSessions /\ check \in 1..Checks /\ ok' \in BOOLEAN
          BY <2>4, Begun DEF Goes, Typed, Note, Ready, CountsTyped
    <3>2. Item("check", check) \in Items
          BY <3>1, ItemIs, TestLogAssumption DEF Writers
    <3> DEFINE s == Line(Item("check", check), ok')
    <3>3. /\ Len(s) = 3 /\ s[1].list = "pass" /\ s[2].list = "status" /\ s[3].item = Mark(Item("check", check), ok')
          BY <3>1, <3>2, LineIs
    <3>4. pen'["worker"] = s \/ pen'["worker"] = <<>>
          BY <1>1, <2>4 DEF Note, Take, PensTyped, Threads
    <3> HIDE DEF s
    <3>5. pen'["worker"] = s
          BY <3>4
    <3>6. j \in 1..3
          BY <3>3, <3>5
    <3>7. j = 1 \/ j = 2 \/ j = 3
          BY <3>6
    <3>8. j = 3
          BY <1>5, <3>3, <3>5, <3>7
    <3> QED BY <3>3, <3>5, <3>8 DEF Mark
  <2> QED BY <2>1, <2>1a, <2>2, <2>3, <2>4, PenKept
<1>6. ASSUME at' = "row", LogsOpen(step')
      PROVE  ok' \/ result' = Test_Fail \/ pen'["worker"] # <<>>
  <2> SUFFICES ASSUME pen'["worker"] = <<>> PROVE ok' \/ result' = Test_Fail
      OBVIOUS
  <2>1. ~WriteRow /\ ~Decide
        BY <1>6 DEF WriteRow, Decide
  <2>1a. \/ at = "row" /\ ok' = ok /\ (LogsOpen(step') => LogsOpen(step))
         \/ Note
    <3> DEFINE Kept == at = "row" /\ ok' = ok /\ (LogsOpen(step') => LogsOpen(step))
    <3>0. ~StartFunc /\ (Worker \/ Gui)
          BY DEF Goes, Next
    <3>1. ASSUME Worker PROVE Kept \/ Note
      <4>1. ASSUME NEW t \in Threads, Push(t) PROVE Kept
            BY <1>6, <4>1 DEF Push, workerVars
      <4>2. ~InitDev /\ ~EndChecks /\ ~Await /\ ~EnterLog /\ ~ReadNext /\ ~Save
            BY <1>6 DEF InitDev, EndChecks, Await, EnterLog, ReadNext, Save, workerVars, Ready
      <4> QED BY <2>1, <3>1, <4>1, <4>2 DEF Worker, Threads
    <3>2. ASSUME Gui PROVE Kept
      <4>1. ASSUME NEW t \in Threads, Push(t) PROVE Kept
            BY <1>6, <4>1 DEF Push, workerVars
      <4>2. CASE StopFunc
            BY <1>6, <4>2 DEF StopFunc, workerVars, LogsOpen, Test_End
      <4>3. CASE Timer
            BY <1>6, <4>3 DEF Timer, LogsOpen, Test_End
      <4>4. CASE Deliver
            BY <1>6, <4>4 DEF Deliver, workerVars, progressVars
      <4>5. CASE JudgeSure
            BY <1>6, <4>5 DEF JudgeSure, workerVars
      <4>6. CASE JudgeDismiss
            BY <1>6, <4>6 DEF JudgeDismiss, workerVars, progressVars
      <4> QED BY <3>0, <3>2, <4>1, <4>2, <4>3, <4>4, <4>5, <4>6 DEF Gui, Threads
    <3> QED BY <3>0, <3>1, <3>2
  <2>2. CASE Note
    <3>0. step' = step
          BY <2>2 DEF Note, progressVars
    <3>1. session \in 1..MaxSessions /\ check \in 1..Checks /\ ok' \in BOOLEAN
          BY <2>2, Begun DEF Goes, Typed, Note, Ready, CountsTyped
    <3>2. Item("check", check) \in Items
          BY <3>1, ItemIs, TestLogAssumption DEF Writers
    <3> DEFINE s == Line(Item("check", check), ok')
    <3>3. Len(s) = 3
          BY <3>1, <3>2, LineIs
    <3>4. pen'["worker"] = s
          BY <1>1, <1>6, <2>2, <3>0 DEF Note, Take, PensTyped, Threads
    <3> HIDE DEF s
    <3> QED BY <3>3, <3>4
  <2>3. CASE at = "row" /\ ok' = ok /\ LogsOpen(step) /\ pen'["worker"] = pen["worker"]
        BY <1>1, <2>3 DEF Marked
  <2>4. CASE at = "row" /\ ok' = ok /\ Push("worker")
    <3> DEFINE x == Head(pen["worker"])
    <3>1. /\ pen["worker"] # <<>> /\ x \in Strokes /\ Final(x) /\ x = pen["worker"][1] /\ 1 \in 1 .. Len(pen["worker"])
          BY <2>4, StrokeMade, LastIs DEF Threads
    <3>2. x.list = "result" => result' = NotedResult(result, x.item.good)
          BY <1>1, <2>4, PushIs DEF Goes, Typed, Threads
    <3> HIDE DEF x
    <3>3. x.list \in {"pass", "status", "result"}
          BY <1>1, <2>4, <3>1 DEF WorkerWrites
    <3>4. x.list = "result"
          BY <3>1, <3>3 DEF Final
    <3>5. x.item.good = ok
          BY <1>1, <2>4, <3>1, <3>4 DEF Marked
    <3> QED BY <2>4, <3>2, <3>4, <3>5 DEF NotedResult
  <2> QED BY <1>6, <2>1, <2>1a, <2>2, <2>3, <2>4, PenKept
<1> QED BY <1>3, <1>4, <1>5, <1>6 DEF Marked, Of


\* Whoever writes, the GUI thread sticks to it.
LEMMA OneKindStep ==
    ASSUME Goes
    PROVE  OneKind'
<1>1. OneKind /\ PensTyped
      BY DEF Goes, Alone, Typed
<1>2. CASE pen'["gui"] = pen["gui"]
      BY <1>1, <1>2 DEF OneKind, Of
<1>3. CASE Push("gui")
  <2> DEFINE s == pen["gui"]
  <2>1. s \in Seq(Strokes) /\ s # <<>> /\ pen'["gui"] = Tail(s)
        BY <1>1, <1>3, PushIs DEF Goes, Typed, Threads
  <2> HIDE DEF s
  <2>2. Len(s) \in Nat \ {0} /\ Len(Tail(s)) = Len(s) - 1 /\ \A k \in 1 .. Len(s) - 1 : Tail(s)[k] = s[k + 1]
        BY <2>1, TailIs
  <2>3. \A k \in 1 .. Len(Tail(s)) : k + 1 \in 1 .. Len(s) /\ Tail(s)[k] = s[k + 1]
        BY <2>2
  <2>4. \A i, j \in 1 .. Len(s) : Of(s[i]).who = Of(s[j]).who
        BY <1>1 DEF OneKind, s
  <2>5. \A i, j \in 1 .. Len(Tail(s)) : Of(Tail(s)[i]).who = Of(Tail(s)[j]).who
        BY <2>3, <2>4
  <2> QED BY <2>1, <2>5 DEF OneKind, Of
<1>4. CASE Deliver
  <2>1. session \in 1..MaxSessions
        BY <1>4, Begun, DeliverIs DEF Goes, Typed
  <2>2. Item("address", 0) \in Items
        BY <2>1, ItemIs, TestLogAssumption DEF Writers
  <2> DEFINE good == Head(inbox) = "good"
             s == AddressNote(Item("address", 0), good)
  <2>3. Len(s) \in {6, 9} /\ \A k \in 1 .. Len(s) : Of(s[k]) = Item("address", 0)
        BY <2>2, AddressIs
  <2>4. pen'["gui"] = <<>> \/ pen'["gui"] = s
        BY <1>4, DeliverIs
  <2> HIDE DEF s
  <2>5. \A i \in 1 .. Len(pen'["gui"]) : Of(pen'["gui"][i]) = Item("address", 0)
        BY <2>3, <2>4
  <2> QED BY <2>5 DEF OneKind, Of
<1>5. CASE JudgeSure
  <2>1. session \in 1..MaxSessions
        BY <1>5, Begun, JudgeSureIs DEF Goes, Typed
  <2>2. PICK meets \in [1..Confirmed -> BOOLEAN] : pen'["gui"] = ConfirmedRows(meets)
        BY <1>5, JudgeSureIs
  <2>3. ASSUME NEW i \in 1 .. Len(pen'["gui"]) PROVE Of(pen'["gui"][i]).who = "dialog"
    <3>1. i \in 1 .. 3 * Confirmed
          BY <2>1, <2>2, ConfirmedIs
    <3>2. Of(pen'["gui"][i]) = Item("dialog", (i - 1) \div 3 + 1)
          BY <2>1, <2>2, <3>1, ConfirmedIs
    <3> QED BY <3>2 DEF Item
  <2> QED BY <2>3 DEF OneKind, Of
<1> QED BY <1>2, <1>3, <1>4, <1>5, PenKept

\* When the log is entered nobody writes but the dialog, whose results come last.
LEMMA EnterIs ==
    ASSUME Goes, EnterLog
    PROVE  /\ at' = "read" /\ num' = Len(lists["results"]) /\ memo' = <<>> /\ lists' = lists
           /\ num' <= Len(lists["data"]) /\ num' <= Len(lists["names"])
           /\ \A i \in 1 .. Len(lists["data"]) : lists["data"][i].who = "check" => i <= num'
<1>1. /\ Outcomes /\ Names /\ GuiWrites /\ PensTyped /\ OneKind
      /\ Len(lists["data"]) \in Nat /\ Len(lists["names"]) \in Nat /\ Len(lists["results"]) \in Nat
  <2>1. ListsTyped
        BY DEF Goes, Typed
  <2>2. Len(lists["data"]) \in Nat /\ Len(lists["names"]) \in Nat /\ Len(lists["results"]) \in Nat
        BY <2>1, ListIs
  <2> QED BY <2>1, <2>2 DEF Goes, Alone, Pens, Typed
<1>2. /\ at' = "read" /\ num' = Len(lists["results"]) /\ memo' = <<>> /\ lists' = lists /\ pen' = pen
      /\ pen["worker"] = <<>>
      BY DEF EnterLog, Ready
<1>3. pen["gui"] # <<>> => Of(Head(pen["gui"])).who = "dialog"
  <2> SUFFICES ASSUME pen["gui"] # <<>> PROVE Of(Head(pen["gui"])).who = "dialog"
      OBVIOUS
  <2> DEFINE s == pen["gui"]
             n == Len(s)
             v == s[n]
  <2>1. n \in 1 .. n /\ 1 \in 1 .. n /\ Head(s) = s[1] /\ v \in Strokes /\ Final(v)
        BY LastIs DEF Threads
  <2>2. Of(s[1]).who = Of(v).who
        BY <1>1, <2>1 DEF OneKind
  <2>3. Of(v) = Item("address", 0) \/ Of(v) \in {Item("dialog", k) : k \in 1 .. Confirmed}
        BY <1>1, <2>1 DEF GuiWrites
  <2>4. v = On("names", Item("address", 0)) => FALSE
    <3>1. ~Clash(pen', at')
          BY DEF Goes
    <3>2. Item("address", 0) = Item("address", 0)'
          BY DEF Goes, Item
    <3>3. n \in DOMAIN pen'["gui"] /\ pen'["gui"][n] = v
      <4>1. s \in Seq(Strokes)
            BY <1>1 DEF PensTyped, Threads
      <4>2. DOMAIN s = 1 .. n
            BY <4>1
      <4> QED BY <1>2, <2>1, <4>2
    <3> QED BY <1>2, <3>1, <3>3 DEF Clash
  <2> HIDE DEF v
  <2>5. Of(v) # Item("address", 0)
    <3> SUFFICES ASSUME Of(v) = Item("address", 0) PROVE FALSE
        OBVIOUS
    <3>1. v.list = "names"
          BY <2>1 DEF Final, Item
    <3>2. v.item = Item("address", 0)
          BY <3>1 DEF Of
    <3>3. v = [list |-> v.list, item |-> v.item]
          BY <2>1 DEF Strokes
    <3> QED BY <2>4, <3>1, <3>2, <3>3 DEF On
  <2>6. Of(v).who = "dialog"
        BY <2>3, <2>5 DEF Item
  <2> QED BY <2>1, <2>2, <2>6
<1>4. ~Late("gui") /\ ~Late("worker") /\ ~Early("worker") /\ ~Writes("worker", "names")
      BY <1>2, <1>3 DEF Late, Early, Writes
<1>5. Writes("gui", "names") => Early("gui")
      BY <1>3 DEF Early, Writes
<1>6. CASE Early("gui")
  <2>1. Len(lists["results"]) + 1 = Len(lists["data"]) /\ LastText("gui")
        BY <1>1, <1>6 DEF Outcomes, Threads
  <2>2. lists["data"][Len(lists["data"])].who = "dialog"
        BY <1>6, <2>1 DEF LastText, Early
  <2>3. Len(lists["names"]) + 1 >= Len(lists["data"])
    <3>1. CASE Writes("gui", "names")
          BY <1>1, <3>1 DEF Names, Threads
    <3>2. CASE ~Writes("gui", "names")
          BY <1>1, <1>4, <3>2 DEF Names, Threads
    <3> QED BY <3>1, <3>2
  <2> QED BY <1>1, <1>2, <2>1, <2>2, <2>3
<1>7. CASE ~Early("gui")
  <2>1. Len(lists["results"]) = Len(lists["data"])
        BY <1>1, <1>4, <1>7 DEF Outcomes, Threads
  <2>2. Len(lists["names"]) >= Len(lists["data"])
        BY <1>1, <1>4, <1>5, <1>7 DEF Names, Threads
  <2> QED BY <1>1, <1>2, <2>1, <2>2
<1> QED BY <1>6, <1>7

\* writeLog finds a name and a text for every result it counted.
LEMMA ReadingStep ==
    ASSUME Goes
    PROVE  Reading' /\ at' # "outOfRange"
<1>1. /\ Reading /\ Marked /\ Names /\ GuiWrites /\ Resting /\ LogTyped /\ ListsTyped /\ session' = session
      /\ at # "outOfRange"
      BY DEF Goes, Alone, Pens, Typed
<1>2. /\ Len(lists["data"]) \in Nat /\ Len(lists["names"]) \in Nat /\ num \in Nat /\ Len(memo) \in Nat
  <2>1. Len(lists["data"]) \in Nat /\ Len(lists["names"]) \in Nat
        BY <1>1, ListIs
  <2> QED BY <1>1, <2>1 DEF LogTyped
<1>3. CASE EnterLog
  <2>1. /\ at' = "read" /\ num' = Len(lists["results"]) /\ memo' = <<>> /\ lists' = lists
        /\ num' <= Len(lists["data"]) /\ num' <= Len(lists["names"])
        /\ \A i \in 1 .. Len(lists["data"]) : lists["data"][i].who = "check" => i <= num'
        BY <1>3, EnterIs
  <2>2. /\ entry'.passed = (result # Test_Fail)
        /\ entry'.failures = {r.of : r \in {m \in ToSet(lists["results"]) : ~m.good /\ m.of.who # "dialog"}}
        BY <1>3 DEF EnterLog
  <2>3. result # Test_Fail => {m \in ToSet(lists["results"]) : ~m.good /\ m.of.who # "dialog"} = {}
    <3>1. ASSUME result # Test_Fail, NEW m \in ToSet(lists["results"]) PROVE m.good \/ m.of.who = "dialog"
      <4>1. lists["results"] \in Seq(Marks)
            BY <1>1, ListIs
      <4>2. PICK i \in 1 .. Len(lists["results"]) : m = lists["results"][i]
            BY <3>1, <4>1 DEF ToSet
      <4> QED BY <1>1, <3>1, <4>2 DEF Marked
    <3> QED BY <3>1
  <2>4. entry'.passed => entry'.failures = {}
        BY <2>2, <2>3
  <2>5. Len(memo') = 0 /\ num' \in Nat
    <3>1. lists["results"] \in Seq(Marks)
          BY <1>1, ListIs
    <3> QED BY <2>1, <3>1
  <2> QED BY <2>1, <2>4, <2>5 DEF Reading
<1>4. CASE ReadNext
  <2> DEFINE k == Len(memo) + 1
             e == [name |-> At("names", k), data |-> At("data", k)]
  <2>1. at = "read" /\ k <= num /\ k \in Nat \ {0}
        BY <1>2, <1>4 DEF ReadNext, Ready
  <2>2. num <= Len(lists["data"]) /\ num <= Len(lists["names"])
        BY <1>1, <2>1 DEF Reading
  <2>3. ~(k > Len(lists["names"]) \/ k > Len(lists["data"]))
        BY <1>2, <2>1, <2>2
  <2>4. at' = at /\ memo' = Append(memo, e) /\ num' = num /\ entry' = entry /\ lists' = lists
        BY <1>4, <2>3 DEF ReadNext
  <2>5. e \in Entries
        BY <1>1, <2>1, <2>3, TakenIs
  <2>6. e.data = lists["data"][k] /\ (session = 1 => e.name = e.data)
    <3>1. k \in 1 .. Len(lists["names"])
          BY <1>2, <2>1, <2>2
    <3>2. session = 1 => lists["names"][k] = lists["data"][k]
          BY <1>1, <3>1 DEF Names
    <3> QED BY <3>2 DEF At
  <2> HIDE DEF e
  <2>7. Len(memo') = k /\ memo'[k] = e /\ \A i \in 1 .. Len(memo) : memo'[i] = memo[i]
        BY <1>1, <2>4, <2>5 DEF LogTyped
  <2>8. \A i \in 1 .. Len(memo') : memo'[i].data = lists'["data"][i] /\ (session' = 1 => memo'[i].name = memo'[i].data)
    <3> SUFFICES ASSUME NEW i \in 1 .. Len(memo')
                 PROVE  memo'[i].data = lists'["data"][i] /\ (session' = 1 => memo'[i].name = memo'[i].data)
        OBVIOUS
    <3>1. CASE i \in 1 .. Len(memo)
          BY <1>1, <2>1, <2>4, <2>7, <3>1 DEF Reading
    <3>2. CASE i = k
          BY <1>1, <2>4, <2>6, <2>7, <3>2
    <3> QED BY <1>2, <2>7, <3>1, <3>2
  <2> QED BY <1>1, <2>1, <2>2, <2>4, <2>7, <2>8 DEF Reading
<1>5. CASE at' = "read" /\ ~EnterLog /\ ~ReadNext
  <2>1. at = "read" /\ num' = num /\ memo' = memo /\ entry' = entry
        BY <1>5 DEF Goes, Next, Worker, Gui, Push, InitDev, Note, WriteRow, EndChecks, Decide, Await, Save, StopFunc,
                    Timer, Deliver, JudgeSure, JudgeDismiss, workerVars, Ready
  <2>2. ~Push("worker")
        BY <1>1, <2>1 DEF Resting, Push
  <2>3. CASE ~Push("gui")
    <3>1. lists'["data"] = lists["data"] /\ lists'["names"] = lists["names"]
          BY <2>2, <2>3, RowsKept
    <3>2. \A i \in 1 .. Len(memo') : memo'[i].data = lists'["data"][i] /\ (session' = 1 => memo'[i].name = memo'[i].data)
          BY <1>1, <2>1, <3>1 DEF Reading
    <3>3. entry'.passed => entry'.failures = {}
          BY <1>1, <2>1 DEF Reading
    <3>4. /\ num' <= Len(lists'["data"]) /\ num' <= Len(lists'["names"]) /\ Len(memo') <= num'
          /\ \A i \in 1 .. Len(lists'["data"]) : lists'["data"][i].who = "check" => i <= num'
          BY <1>1, <2>1, <3>1 DEF Reading
    <3> QED BY <1>5, <3>2, <3>3, <3>4 DEF Reading
  <2>4. CASE Push("gui")
    <3>1. lists'["names"] = lists["names"] \/ Len(lists'["names"]) = Len(lists["names"]) + 1
          BY <2>4, Grows DEF Lists, Threads
    <3>2. \/ lists'["data"] = lists["data"]
          \/ /\ Len(lists'["data"]) = Len(lists["data"]) + 1
             /\ lists'["data"][Len(lists["data"]) + 1].who # "check"
             /\ \A i \in 1 .. Len(lists["data"]) : lists'["data"][i] = lists["data"][i]
      <4> DEFINE w == Of(pen["gui"][1])
      <4>1. 1 \in 1 .. Len(pen["gui"]) => w = Item("address", 0) \/ w \in {Item("dialog", n) : n \in 1 .. Confirmed}
            BY <1>1 DEF GuiWrites
      <4>2. \/ lists'["data"] = lists["data"]
            \/ /\ Len(lists'["data"]) = Len(lists["data"]) + 1 /\ 1 \in 1 .. Len(pen["gui"])
               /\ lists'["data"][Len(lists["data"]) + 1] = w
               /\ \A i \in 1 .. Len(lists["data"]) : lists'["data"][i] = lists["data"][i]
            BY <2>2, TextsGrow DEF Threads
      <4> HIDE DEF w
      <4>3. 1 \in 1 .. Len(pen["gui"]) => w.who # "check"
            BY <4>1 DEF Item
      <4> QED BY <4>2, <4>3
    <3>3. \A i \in 1 .. Len(lists["data"]) : lists'["data"][i] = lists["data"][i]
          BY <3>2
    <3>4. Len(lists'["data"]) \in Nat /\ Len(lists'["data"]) >= Len(lists["data"]) /\ Len(lists'["names"]) >= Len(lists["names"])
          BY <1>2, <3>1, <3>2
    <3>5. \A i \in 1 .. Len(memo) : i \in 1 .. Len(lists["data"])
          BY <1>1, <1>2, <2>1 DEF Reading
    <3>6. \A i \in 1 .. Len(lists'["data"]) : lists'["data"][i].who = "check" => i <= num
      <4> SUFFICES ASSUME NEW i \in 1 .. Len(lists'["data"]), lists'["data"][i].who = "check" PROVE i <= num
          OBVIOUS
      <4>1. i \in 1 .. Len(lists["data"])
            BY <1>2, <3>2
      <4> QED BY <1>1, <2>1, <3>3, <4>1 DEF Reading
    <3>7. num' <= Len(lists'["data"]) /\ num' <= Len(lists'["names"])
      <4>1. num <= Len(lists["data"]) /\ num <= Len(lists["names"])
            BY <1>1, <2>1 DEF Reading
      <4>2. Len(lists'["names"]) \in Nat
            BY <1>2, <3>1
      <4> QED BY <1>2, <2>1, <3>4, <4>1, <4>2
    <3>8. \A i \in 1 .. Len(memo') : memo'[i].data = lists'["data"][i] /\ (session' = 1 => memo'[i].name = memo'[i].data)
          BY <1>1, <2>1, <3>3, <3>5 DEF Reading
    <3>9. Len(memo') <= num'
          BY <1>1, <2>1 DEF Reading
    <3>10. entry'.passed => entry'.failures = {}
          BY <1>1, <2>1 DEF Reading
    <3>11. \A i \in 1 .. Len(lists'["data"]) : lists'["data"][i].who = "check" => i <= num'
          BY <2>1, <3>6
    <3> QED BY <1>5, <3>7, <3>8, <3>9, <3>10, <3>11 DEF Reading
  <2> QED BY <2>3, <2>4
<1>6. at' # "read" => Reading'
      BY DEF Reading
<1>7. at' # "outOfRange"
  <2>1. CASE Timer
        BY <1>1, <2>1, TimerIs
  <2>2. CASE ReadNext
    <3>1. at = "read" /\ Len(memo) + 1 <= num /\ num <= Len(lists["data"]) /\ num <= Len(lists["names"])
          BY <1>1, <2>2 DEF ReadNext, Ready, Reading
    <3>2. ~(Len(memo) + 1 > Len(lists["names"]) \/ Len(memo) + 1 > Len(lists["data"]))
          BY <1>2, <3>1
    <3> QED BY <2>2, <3>1, <3>2 DEF ReadNext
  <2>3. CASE ~Timer /\ ~ReadNext
        BY <1>1, <2>3 DEF Goes, Next, Worker, Gui, Push, InitDev, Note, WriteRow, EndChecks, Decide, Await, EnterLog, Save,
                          StopFunc, Deliver, JudgeSure, JudgeDismiss, workerVars
  <2> QED BY <2>1, <2>2, <2>3
<1> QED BY <1>3, <1>4, <1>5, <1>6, <1>7


-----------------------------------------------------------------------------
(* The inductive invariant.                                                 *)

\* A run that begins while nothing is left of the one before is alone.
LEMMA StartAlone ==
    ASSUME Typed, Typed', StartFunc, ~torn'
    PROVE  Alone'
<1>1. /\ at = "off" /\ at' = "initDev" /\ rows' = 0 /\ lists' = Cleared /\ session' = session + 1
      /\ pen["gui"] = <<>> /\ pen' = pen /\ inbox' = <<>> /\ ~dialog'
      BY DEF StartFunc, Idle, guiVars
<1>2. pen'["worker"] = <<>> /\ pen'["gui"] = <<>>
      BY <1>1 DEF Typed, Resting
<1>3. \A t \in Threads : pen'[t] = <<>>
      BY <1>2 DEF Threads
<1>4. \A l \in Lists : lists'[l] = IF l = "names" THEN lists["names"] ELSE <<>>
      BY <1>1, ClearedIs DEF Typed
<1>5. /\ lists'["pass"] = <<>> /\ lists'["status"] = <<>> /\ lists'["results"] = <<>> /\ lists'["data"] = <<>>
      /\ lists'["names"] = lists["names"]
      BY <1>4 DEF Lists
<1>6. session' = 1 => lists'["names"] = <<>>
  <2> SUFFICES ASSUME session' = 1 PROVE lists'["names"] = <<>>
      OBVIOUS
  <2>1. session = 0
        BY <1>1, TestLogAssumption DEF Typed, HistoryTyped
  <2>2. lists = Empty
        BY <2>1 DEF Typed, HistoryTyped
  <2> QED BY <1>5, <2>2 DEF Empty, Lists
<1>7. Len(<<>>) = 0 /\ Len(lists'["names"]) \in Nat
  <2>1. lists'["names"] \in Seq(Items)
        BY <1>5, ListIs DEF Typed
  <2> QED BY <2>1
<1>8. Pens'
  <2>1. \A t \in Threads : Script(pen[t])'
        BY <1>3, <1>7 DEF Script
  <2>2. ~Clash(pen, at)'
        BY <1>1, <1>2 DEF Clash
  <2>3. WorkerWrites' /\ GuiWrites'
        BY <1>2, <1>7 DEF WorkerWrites, GuiWrites
  <2> QED BY <2>1, <2>2, <2>3 DEF Pens
<1>9. \A t \in Threads, l \in Lists : ~Writes(t, l)'
      BY <1>3 DEF Writes
<1>10. \A t \in Threads : ~Late(t)' /\ ~Early(t)'
      BY <1>9 DEF Late, Early, Lists
<1>11. Lines' /\ Outcomes'
      BY <1>5, <1>7, <1>9, <1>10 DEF Lines, Outcomes, Lists
<1>12. Names'
      BY <1>5, <1>6, <1>7, <1>9 DEF Names, Lists
<1>13. Stage'
  <2>1. ~Wrote("address")' /\ ~Wrote("dialog")'
        BY <1>2, <1>5, <1>7 DEF Wrote
  <2> QED BY <1>1, <2>1 DEF Stage
<1>14. Texts' /\ Fresh' /\ AllThere'
  <2>1. Texts'
        BY <1>5, <1>7 DEF Texts
  <2>2. Fresh'
        BY <1>5, <1>7 DEF Fresh
  <2>3. AllThere'
        BY <1>1, <1>5, <1>7 DEF AllThere
  <2> QED BY <2>1, <2>2, <2>3
<1>15. Marked'
      BY <1>1, <1>2, <1>5, <1>7, <1>9 DEF Marked, Lists
<1>16. Reading' /\ OneKind'
      BY <1>1, <1>2, <1>7 DEF Reading, OneKind
<1> QED BY <1>1, <1>8, <1>11, <1>12, <1>13, <1>14, <1>15, <1>16 DEF Alone

\* Before the first session nobody has written anything.
LEMMA InitAlone == Init => Alone
<1> SUFFICES ASSUME Init PROVE Alone
    OBVIOUS
<1>1. /\ at = "off" /\ rows = 0 /\ lists = Empty /\ pen = [t \in Threads |-> <<>>] /\ inbox = <<>> /\ ~dialog
      BY DEF Init
<1>2. \A t \in Threads : pen[t] = <<>>
      BY <1>1
<1>3. pen["worker"] = <<>> /\ pen["gui"] = <<>> /\ Len(<<>>) = 0
      BY <1>2 DEF Threads
<1>4. /\ lists["pass"] = <<>> /\ lists["status"] = <<>> /\ lists["results"] = <<>> /\ lists["data"] = <<>>
      /\ lists["names"] = <<>>
      BY <1>1 DEF Empty, Lists
<1>5. Pens
  <2>1. \A t \in Threads : Script(pen[t])
        BY <1>2, <1>3 DEF Script
  <2>2. ~Clash(pen, at)
        BY <1>1, <1>3 DEF Clash
  <2>3. WorkerWrites /\ GuiWrites
        BY <1>3 DEF WorkerWrites, GuiWrites
  <2> QED BY <2>1, <2>2, <2>3 DEF Pens
<1>6. \A t \in Threads, l \in Lists : ~Writes(t, l)
      BY <1>2 DEF Writes
<1>7. \A t \in Threads : ~Late(t) /\ ~Early(t)
      BY <1>6 DEF Late, Early, Lists
<1>8. Lines /\ Outcomes
      BY <1>3, <1>4, <1>6, <1>7 DEF Lines, Outcomes, Lists
<1>9. Names
      BY <1>3, <1>4, <1>6 DEF Names, Lists
<1>10. Stage
  <2>1. ~Wrote("address") /\ ~Wrote("dialog")
        BY <1>3, <1>4 DEF Wrote
  <2> QED BY <1>1, <2>1 DEF Stage
<1>11. Texts
      BY <1>3, <1>4 DEF Texts
<1>12. Fresh
      BY <1>3, <1>4 DEF Fresh
<1>13. AllThere
      BY <1>1, <1>3, <1>4 DEF AllThere
<1>14. Marked
      BY <1>1, <1>3, <1>4, <1>6 DEF Marked, Lists
<1>15. Reading /\ OneKind
      BY <1>1, <1>3 DEF Reading, OneKind
<1> QED BY <1>1, <1>5, <1>8, <1>9, <1>10, <1>11, <1>12, <1>13, <1>14, <1>15 DEF Alone

\* Nothing of it moves in a step that changes no variable.
LEMMA AloneStutters ==
    ASSUME Alone, UNCHANGED vars
    PROVE  Alone'
<1> USE DEF vars, progressVars, workerVars, guiVars, historyVars
<1>1. Pens'
  <2>0. pen' = pen /\ \A t \in Threads : Script(pen[t])
        BY DEF Alone, Pens
  <2>1. \A t \in Threads : Script(pen'[t])
        BY <2>0
  <2>2. ~Clash(pen, at)'
        BY DEF Alone, Pens, Clash, On, Item
  <2>3. WorkerWrites' /\ GuiWrites'
        BY DEF Alone, Pens, WorkerWrites, GuiWrites, Of, Item
  <2> QED BY <2>1, <2>2, <2>3 DEF Pens
<1>2. Lines'
      BY DEF Alone, Lines, Writes
<1>3. Outcomes'
      BY DEF Alone, Outcomes, Late, Early, LastText, Writes, Of
<1>4. Names'
      BY DEF Alone, Names, LastText, Writes, Of
<1>5. Stage'
      BY DEF Alone, Stage, Wrote, Of
<1>6. Texts'
      BY DEF Alone, Texts, Item
<1>7. Fresh'
      BY DEF Alone, Fresh, Of
<1>8. AllThere'
      BY DEF Alone, AllThere, Of, Item
<1>9. Marked'
      BY DEF Alone, Marked, Writes, Of
<1>10. Reading' /\ OneKind' /\ at' # "outOfRange"
      BY DEF Alone, Reading, OneKind, Of
<1> QED BY <1>1, <1>2, <1>3, <1>4, <1>5, <1>6, <1>7, <1>8, <1>9, <1>10 DEF Alone

\* Every step leaves a run that is still alone in order.
LEMMA OrderedStep ==
    ASSUME Typed, Ordered, [Next]_vars
    PROVE  Ordered'
<1> SUFFICES ASSUME ~torn' PROVE Alone'
    BY DEF Ordered
<1>1. Typed'
      BY TypedStep
<1>2. CASE UNCHANGED vars
  <2>1. ~torn
        BY <1>2 DEF vars, historyVars
  <2> QED BY <1>2, <2>1, AloneStutters DEF Ordered
<1>3. CASE StartFunc
      BY <1>1, <1>3, StartAlone
<1>4. CASE Next /\ ~StartFunc
  <2>1. ~torn /\ ~Clash(pen', at') /\ session' = session
        BY <1>4, StaysAlone DEF Typed
  <2>2. Goes
        BY <1>1, <1>4, <2>1 DEF Goes, Ordered
  <2> QED BY <2>2, PensStep, LinesStep, OutcomesStep, NamesStep, StageStep, TextsStep, FreshStep, AllThereStep,
             MarkedStep, ReadingStep, OneKindStep DEF Alone
<1> QED BY <1>2, <1>3, <1>4

\* A run that was alone with its lists finds them in order at every step.
LEMMA OrderedAlways == Spec => []Ordered
<1>1. Init => Ordered
      BY InitAlone DEF Ordered
<1> QED BY <1>1, TypedAlways, OrderedStep, PTL DEF Spec

-----------------------------------------------------------------------------
(* Theorems.                                                                *)

\* Nobody reads past the end of a list unless a newer session cleared the lists under a
\* busy run or two threads wrote to one of them: neither writeLog, while People_judg
\* appends its rows, nor the timer that takes line and mark off their lists.
THEOREM NobodyReadsPast == Spec => []InRange
<1>1. Ordered => InRange
      BY DEF Ordered, Alone, InRange
<1> QED BY <1>1, OrderedAlways, PTL

\* Every line of a run that was alone is shown in the colour it was noted with: the first
\* mark of pass is that of the first line of status.
THEOREM ShownInItsColour == Spec => ShownAsNoted
<1>1. Typed /\ Ordered /\ [Next]_vars => [Timer /\ lists["status"] # <<>> /\ ~torn
                                            => Head(lists["pass"]).of = Head(lists["status"])]_vars
  <2> SUFFICES ASSUME Typed, Ordered, lists["status"] # <<>>, ~torn
               PROVE  Head(lists["pass"]).of = Head(lists["status"])
      OBVIOUS
  <2>1. lists["status"] \in Seq(Items) /\ lists["pass"] \in Seq(Marks)
        BY ListIs DEF Typed
  <2>2. 1 \in 1 .. Len(lists["status"])
        BY <2>1
  <2>3. 1 <= Len(lists["pass"]) /\ lists["pass"][1].of = lists["status"][1]
        BY <2>2 DEF Ordered, Alone, Lines
  <2> QED BY <2>1, <2>3
<1> QED BY <1>1, TypedAlways, OrderedAlways, PTL DEF Spec, ShownAsNoted


\* A run that is alone writes each row once: no more texts than there are rows.
LEMMA FewTexts ==
    ASSUME Typed, Texts
    PROVE  Len(lists["data"]) <= Checks + Confirmed + 1
<1> DEFINE d == lists["data"]
           last == Checks + Confirmed
           f == [i \in 1 .. Len(d) |-> IF d[i].who = "check" THEN d[i].n
                                       ELSE IF d[i].who = "dialog" THEN Checks + d[i].n ELSE 0]
<1>1. Len(d) \in Nat /\ rows \in 0 .. Checks /\ Checks \in Nat /\ Confirmed \in Nat
  <2>1. d \in Seq(Items)
        BY ListIs DEF Typed
  <2> QED BY <2>1, TestLogAssumption DEF Typed, CountsTyped
<1>2. ASSUME NEW i \in 1 .. Len(d)
      PROVE  \/ \E n \in 1 .. Checks : d[i] = Item("check", n) /\ f[i] = n
             \/ d[i] = Item("address", 0) /\ f[i] = 0
             \/ \E n \in 1 .. Confirmed : d[i] = Item("dialog", n) /\ f[i] = Checks + n
  <2>1. \/ d[i] \in {Item("check", n) : n \in 1 .. rows}
        \/ d[i] = Item("address", 0)
        \/ d[i] \in {Item("dialog", n) : n \in 1 .. Confirmed}
        BY DEF Texts
  <2>2. \A n \in 1 .. rows : n \in 1 .. Checks
        BY <1>1
  <2>3. f[i] = IF d[i].who = "check" THEN d[i].n ELSE IF d[i].who = "dialog" THEN Checks + d[i].n ELSE 0
        OBVIOUS
  <2>4. CASE \E n \in 1 .. rows : d[i] = Item("check", n)
    <3>1. PICK n \in 1 .. rows : d[i] = Item("check", n)
          BY <2>4
    <3>2. d[i].who = "check" /\ d[i].n = n
          BY <3>1 DEF Item
    <3>3. f[i] = n
          BY <2>3, <3>2
    <3> HIDE DEF f, d
    <3> QED BY <2>2, <3>1, <3>3
  <2>5. CASE d[i] = Item("address", 0)
    <3>1. d[i].who = "address"
          BY <2>5 DEF Item
    <3> QED BY <2>3, <2>5, <3>1
  <2>6. CASE \E n \in 1 .. Confirmed : d[i] = Item("dialog", n)
    <3>1. PICK n \in 1 .. Confirmed : d[i] = Item("dialog", n)
          BY <2>6
    <3>2. d[i].who = "dialog" /\ d[i].n = n
          BY <3>1 DEF Item
    <3>3. f[i] = Checks + n
          BY <2>3, <3>2
    <3> HIDE DEF f, d
    <3> QED BY <3>1, <3>3
  <2> HIDE DEF f, d
  <2> QED BY <2>1, <2>4, <2>5, <2>6
<1>3. DOMAIN f = 1 .. Len(d) /\ f = [i \in 1 .. Len(d) |-> f[i]]
      OBVIOUS
<1>4. \A i, j \in 1 .. Len(d) : d[i] = d[j] => i = j
      BY DEF Texts
<1> HIDE DEF f, d
<1>5. \A i \in 1 .. Len(d) : f[i] \in 0 .. last
      BY <1>1, <1>2
<1>6. \A i, j \in 1 .. Len(d) : f[i] = f[j] => i = j
  <2> SUFFICES ASSUME NEW i \in 1 .. Len(d), NEW j \in 1 .. Len(d), f[i] = f[j] PROVE d[i] = d[j]
      BY <1>4
  <2>1. \/ \E n \in 1 .. Checks : d[i] = Item("check", n) /\ f[i] = n
        \/ d[i] = Item("address", 0) /\ f[i] = 0
        \/ \E n \in 1 .. Confirmed : d[i] = Item("dialog", n) /\ f[i] = Checks + n
        BY <1>2
  <2>2. \/ \E n \in 1 .. Checks : d[j] = Item("check", n) /\ f[j] = n
        \/ d[j] = Item("address", 0) /\ f[j] = 0
        \/ \E n \in 1 .. Confirmed : d[j] = Item("dialog", n) /\ f[j] = Checks + n
        BY <1>2
  <2> QED BY <1>1, <2>1, <2>2
<1>7. f \in Injection(1 .. Len(d), 0 .. last)
      BY <1>3, <1>5, <1>6 DEF Injection, IsInjective
<1>8. IsFiniteSet(0 .. last) /\ Cardinality(0 .. last) = last + 1 /\ Cardinality(1 .. Len(d)) = Len(d)
  <2>1. last \in Nat
        BY <1>1
  <2> HIDE DEF last
  <2>2. IsFiniteSet(0 .. last) /\ Cardinality(0 .. last) = IF 0 > last THEN 0 ELSE last - 0 + 1
        BY <2>1, FS_Interval
  <2>3. Cardinality(1 .. Len(d)) = IF 1 > Len(d) THEN 0 ELSE Len(d) - 1 + 1
        BY <1>1, FS_Interval
  <2> QED BY <1>1, <2>1, <2>2, <2>3
<1>9. Cardinality(1 .. Len(d)) <= Cardinality(0 .. last)
      BY <1>7, <1>8, FS_Injection
<1> QED BY <1>8, <1>9 DEF d

\* Every variable has a value the code gives it, and a run that is alone with its lists
\* writes at most one row for each check, each row of the dialog and the address.
THEOREM TypeCorrect == Spec => []TypeOK
<1>1. Typed /\ Ordered => TypeOK
  <2> SUFFICES ASSUME Typed, Ordered PROVE TypeOK
      OBVIOUS
  <2>1. \A l \in Lists : \A i \in DOMAIN lists[l] : lists[l][i] \in Held(l)
        BY DEF Typed, ListsTyped
  <2>2. ~torn => Len(lists["data"]) <= Checks + Confirmed + 1
        BY FewTexts DEF Ordered, Alone
  <2>3. \A t \in Threads : \A i \in DOMAIN pen[t] :
          pen[t][i].list \in Lists \cup {"result"} /\ pen[t][i].item \in Held(pen[t][i].list)
    <3> SUFFICES ASSUME NEW t \in Threads, NEW i \in DOMAIN pen[t]
                 PROVE  pen[t][i].list \in Lists \cup {"result"} /\ pen[t][i].item \in Held(pen[t][i].list)
        OBVIOUS
    <3>1. pen[t] \in Seq(Strokes)
          BY DEF Typed, PensTyped
    <3>2. pen[t][i] \in Strokes
          BY <3>1
    <3> QED BY <3>2, StrokeIs
  <2>4. \A i \in DOMAIN memo : memo[i] \in [name : Items, data : Items]
    <3>1. memo \in Seq(Entries)
          BY DEF Typed, LogTyped
    <3>2. \A i \in DOMAIN memo : memo[i] \in Entries
          BY <3>1
    <3> QED BY <3>2 DEF Entries
  <2>5. step \in Steps /\ result \in Results /\ issure \in BOOLEAN
        BY DEF Typed, RecordTyped
  <2>6. /\ at \in {"off", "initDev", "note", "row", "decide", "await", "save", "read", "outOfRange"}
        /\ check \in 0 .. Checks + 1 /\ ok \in BOOLEAN /\ num \in Nat /\ rows \in 0 .. Checks
        BY DEF Typed, CountsTyped, Places, LogTyped
  <2>7. inbox \in Seq({"good", "bad", "judg"}) /\ dialog \in BOOLEAN
        BY DEF Typed, SlotsTyped, Signals
  <2>8. entry.kind \in {"none", "open", "saved"}
        BY DEF Typed, LogTyped
  <2>9. session \in 0 .. MaxSessions /\ torn \in BOOLEAN
        BY DEF Typed, HistoryTyped
  <2> QED BY <2>1, <2>2, <2>3, <2>4, <2>5, <2>6, <2>7, <2>8, <2>9 DEF TypeOK
<1> QED BY <1>1, TypedAlways, OrderedAlways, PTL

\* When the entry is saved in a run that was alone, each check that wrote a row has one.
LEMMA EachOnce ==
    ASSUME Typed, Alone, at = "read", Len(memo) = num, pen["worker"] = <<>>
    PROVE  Cardinality({t \in ToSet(memo) : t.data.who = "check"}) = rows
<1> DEFINE T == {t \in ToSet(memo) : t.data.who = "check"}
           d == lists["data"]
           f == [t \in T |-> t.data.n]
<1>1. /\ memo \in Seq(Entries) /\ d \in Seq(Items) /\ rows \in Nat /\ num \in Nat /\ num <= Len(d)
      /\ \A i \in 1 .. Len(memo) : memo[i].data = d[i]
      /\ \A i \in 1 .. Len(d) : d[i].who = "check" => i <= num
      /\ Texts /\ AllThere
      BY ListIs, TestLogAssumption DEF Typed, LogTyped, CountsTyped, Alone, Reading
<1>2. ToSet(memo) = {memo[i] : i \in 1 .. Len(memo)}
      BY <1>1 DEF ToSet
<1>3. ASSUME NEW t \in T
      PROVE  \E i \in 1 .. Len(memo), n \in 1 .. rows : t = memo[i] /\ t.data = d[i] /\ t.data = Item("check", n) /\ t.data.n = n
  <2>1. PICK i \in 1 .. Len(memo) : t = memo[i]
        BY <1>2
  <2>2. t.data = d[i] /\ d[i].who = "check" /\ i \in 1 .. Len(d)
        BY <1>1, <2>1
  <2> HIDE DEF d
  <2>3. \/ d[i] \in {Item("check", n) : n \in 1 .. rows}
        \/ d[i] = Item("address", 0)
        \/ d[i] \in {Item("dialog", n) : n \in 1 .. Confirmed}
        BY <1>1, <2>2 DEF Texts, d
  <2>4. \E n \in 1 .. rows : d[i] = Item("check", n)
        BY <2>2, <2>3 DEF Item
  <2>5. PICK n \in 1 .. rows : d[i] = Item("check", n)
        BY <2>4
  <2>6. Item("check", n).n = n
        BY DEF Item
  <2> QED BY <2>1, <2>2, <2>5, <2>6
<1>4. ASSUME NEW n \in 1 .. rows
      PROVE  \E t \in T : t.data.n = n
  <2>1. PICK i \in 1 .. Len(d) : d[i] = Item("check", n)
        BY <1>1 DEF AllThere
  <2>2. d[i].who = "check" /\ d[i].n = n
        BY <2>1 DEF Item
  <2>3. i \in 1 .. Len(memo)
        BY <1>1, <2>2
  <2>4. memo[i].data = d[i] /\ memo[i] \in ToSet(memo)
        BY <1>1, <1>2, <2>3
  <2> QED BY <2>2, <2>4
<1>5. \A i, j \in 1 .. Len(d) : d[i] = d[j] => i = j
      BY <1>1 DEF Texts
<1>6. \A t \in T : f[t] = t.data.n
      OBVIOUS
<1>7. DOMAIN f = T /\ f = [t \in T |-> f[t]]
      OBVIOUS
<1> HIDE DEF T, d, f
<1>8. \A t \in T : f[t] \in 1 .. rows
      BY <1>3, <1>6
<1>9. \A t, u \in T : f[t] = f[u] => t = u
  <2> SUFFICES ASSUME NEW t \in T, NEW u \in T, f[t] = f[u] PROVE t = u
      OBVIOUS
  <2>1. PICK i \in 1 .. Len(memo), n \in 1 .. rows : t = memo[i] /\ t.data = d[i] /\ t.data = Item("check", n) /\ t.data.n = n
        BY <1>3
  <2>2. PICK j \in 1 .. Len(memo), m \in 1 .. rows : u = memo[j] /\ u.data = d[j] /\ u.data = Item("check", m) /\ u.data.n = m
        BY <1>3
  <2>3. n = m
        BY <1>6, <2>1, <2>2
  <2>4. i \in 1 .. Len(d) /\ j \in 1 .. Len(d)
        BY <1>1
  <2> QED BY <1>5, <2>1, <2>2, <2>3, <2>4
<1>10. \A n \in 1 .. rows : \E t \in T : f[t] = n
      BY <1>4, <1>6
<1>11. f \in [T -> 1 .. rows]
      BY <1>7, <1>8
<1>12. f \in Injection(T, 1 .. rows) /\ f \in Surjection(T, 1 .. rows)
      BY <1>7, <1>9, <1>10, <1>11 DEF Injection, IsInjective, Surjection
<1>13. IsFiniteSet(1 .. rows) /\ Cardinality(1 .. rows) = rows
      BY <1>1, FS_Interval
<1>14. Cardinality(T) = Cardinality(1 .. rows)
      BY <1>12, <1>13, FS_Injection
<1> QED BY <1>13, <1>14 DEF T

\* The entry that writeLog saves of a run that was alone with its lists: it holds one row
\* of each check that wrote one, all its texts are of this session, in the first session
\* under their own names, and it does not say passed of a product one of whose checks
\* wrote a failed row.
THEOREM EntryTrue == Spec => []EntryIsTrue
<1>1. Init => EntryIsTrue
      BY DEF Init, EntryIsTrue
<1>2. Typed /\ Ordered /\ EntryIsTrue /\ [Next]_vars => EntryIsTrue'
  <2> SUFFICES ASSUME Typed, Ordered, EntryIsTrue, [Next]_vars PROVE EntryIsTrue'
      OBVIOUS
  <2>1. CASE entry' = entry
        BY <2>1 DEF EntryIsTrue
  <2>2. CASE StartFunc
    <3>1. entry' = [kind |-> "none"] \/ entry' = entry
          BY <2>2 DEF StartFunc
    <3>2. CASE entry' = [kind |-> "none"]
          BY <3>2 DEF EntryIsTrue
    <3> QED BY <2>1, <3>1, <3>2
  <2>3. CASE EnterLog
    <3>1. entry'.kind = "open"
          BY <2>3 DEF EnterLog
    <3> QED BY <3>1 DEF EntryIsTrue
  <2>4. CASE Save
    <3>1. /\ at = "read" /\ pen["worker"] = <<>> /\ Len(memo) = num
          /\ entry' = [kind |-> "saved", passed |-> entry.passed, failures |-> entry.failures,
                       memo |-> memo, rows |-> rows, session |-> session, torn |-> torn]
          BY <2>4 DEF Save, Ready
    <3>2. /\ entry'.passed = entry.passed /\ entry'.failures = entry.failures /\ entry'.memo = memo
          /\ entry'.rows = rows /\ entry'.session = session /\ entry'.torn = torn
          BY <3>1
    <3> SUFFICES ASSUME ~torn
                 PROVE  /\ Cardinality({t \in ToSet(memo) : t.data.who = "check"}) = rows
                        /\ \A t \in ToSet(memo) : t.data.session = session /\ (session = 1 => t.name = t.data)
                        /\ entry.passed => entry.failures = {}
        BY <3>2 DEF EntryIsTrue
    <3>3. Alone /\ Reading /\ Texts
          BY DEF Ordered, Alone
    <3>4. Cardinality({t \in ToSet(memo) : t.data.who = "check"}) = rows
          BY <3>1, <3>3, EachOnce
    <3>5. ASSUME NEW t \in ToSet(memo) PROVE t.data.session = session /\ (session = 1 => t.name = t.data)
      <4>1. memo \in Seq(Entries) /\ lists["data"] \in Seq(Items)
            BY ListIs DEF Typed, LogTyped
      <4>2. PICK i \in 1 .. Len(memo) : t = memo[i]
            BY <3>5, <4>1 DEF ToSet
      <4>3. t.data = lists["data"][i] /\ (session = 1 => t.name = t.data)
            BY <3>1, <3>3, <4>2 DEF Reading
      <4>4. i \in 1 .. Len(lists["data"])
            BY <3>1, <3>3, <4>1 DEF Reading
      <4> DEFINE v == lists["data"][i]
      <4>5. \/ v \in {Item("check", n) : n \in 1 .. rows}
            \/ v = Item("address", 0)
            \/ v \in {Item("dialog", n) : n \in 1 .. Confirmed}
            BY <3>3, <4>4 DEF Texts
      <4> HIDE DEF v
      <4>6. v.session = session
            BY <4>5 DEF Item
      <4> QED BY <4>3, <4>6 DEF v
    <3>6. entry.passed => entry.failures = {}
          BY <3>1, <3>3 DEF Reading
    <3> QED BY <3>4, <3>5, <3>6
  <2>5. entry' = entry \/ StartFunc \/ EnterLog \/ Save
        BY DEF Next, Worker, Gui, Push, InitDev, Note, WriteRow, EndChecks, Decide, Await, ReadNext, StopFunc, Timer,
               Deliver, JudgeSure, JudgeDismiss, vars
  <2> QED BY <2>1, <2>2, <2>3, <2>4, <2>5
<1> QED BY <1>1, <1>2, TypedAlways, OrderedAlways, PTL DEF Spec
=============================================================================
