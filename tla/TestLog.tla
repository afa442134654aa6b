------------------------------ MODULE TestLog ------------------------------
(***************************************************************************)
(* What a functional run writes, and who reads it: the lines the GUI timer *)
(* takes off the lists pass and status, and the rows (stepResult, itemData *)
(* and test_function) that writeLog joins to the log entry of a product.   *)
(*                                                                         *)
(* None of these lists has a lock.  The worker writes its checks; the GUI  *)
(* thread writes too, when the signal of the address assignment arrives    *)
(* and when the operator confirms People_judg.  A thread appends to one    *)
(* list at a time: its pen holds what it has still to append.              *)
(***************************************************************************)
EXTENDS Progress, SequencesExt

CONSTANTS
    Checks,       \* checks of a run
    Confirmed,    \* rows a confirmation writes
    MaxSessions   \* sessions the operator may start

ASSUME TestLogAssumption == Checks \in Nat /\ Confirmed \in Nat /\ MaxSessions \in Nat

Threads == {"worker", "gui"}
Lists   == {"pass", "status", "results", "data", "names"}

VARIABLES
    step, result, issure,   \* sProgress
    lists,                  \* pass, status, stepResult, itemData, test_function
    pen,                    \* what each thread is about to append, as [list, item]
    at, check, ok,          \* the worker: where it is, its check, the check's outcome
    num, memo,              \* locals of writeLog
    inbox, dialog,          \* queued signals of the worker; People_judg is open
    entry                   \* the last log entry

\* What happened, for the properties; the code never reads it.
VARIABLES
    session,                \* number of the open session
    rows,                   \* rows the checks of this run have written
    torn                    \* two threads were at the same lists in this run

progressVars == <<step, result, issure>>
workerVars   == <<at, check, ok, num, memo>>
guiVars      == <<inbox, dialog>>
historyVars  == <<session, rows, torn>>
vars == <<progressVars, lists, pen, workerVars, guiVars, entry, historyVars>>

\* A line or row is known by its session, its writer and its number there; pass and
\* stepResult hold its mark as well.
Item(who, n) == [session |-> session, who |-> who, n |-> n]
Mark(of, good) == [of |-> of, good |-> good]
On(list, item) == [list |-> list, item |-> item]

\* updatePro: the mark, the text, at last the verdict.
Line(of, good) == <<On("pass", Mark(of, good)), On("status", of), On("result", Mark(of, good))>>

\* Power_Logs::writeData begins with the result, People_judg::writeData ends with it.
Row(of, good) == <<On("results", Mark(of, good)), On("data", of), On("names", of)>>

\* Mutant of ConfirmedRow: in the order of Power_Logs::writeData.
ConfirmedRowLikeLogs(of, good) == Row(of, good)

ConfirmedRow(of, good) == <<On("data", of), On("names", of), On("results", Mark(of, good))>>

\* on_sureButton_clicked: one row after the other, each of three items.
ConfirmedRows(meets) ==
    [k \in 1 .. 3 * Confirmed |->
       LET i == (k - 1) \div 3 + 1
       IN ConfirmedRow(Item("dialog", i), meets[i])[((k - 1) % 3) + 1]]

Empty == [l \in Lists |-> <<>>]

Init ==
    /\ step = Test_End /\ result = Test_Info /\ issure = FALSE
    /\ lists = Empty
    /\ pen = [t \in Threads |-> <<>>]
    /\ at = "off" /\ check = 0 /\ ok = TRUE
    /\ num = 0 /\ memo = <<>>
    /\ inbox = <<>> /\ dialog = FALSE
    /\ entry = [kind |-> "none"]
    /\ session = 0 /\ rows = 0 /\ torn = FALSE

\* Both threads append to one list, or the log is read while the slot of the address
\* assignment writes its row, result first.
Clash(pens, here) ==
    \/ \E i \in DOMAIN pens["worker"], j \in DOMAIN pens["gui"] :
          pens["worker"][i].list = pens["gui"][j].list
    \/ here = "read" /\ \E j \in DOMAIN pens["gui"] : pens["gui"][j] = On("names", Item("address", 0))

Observe == torn' = (torn \/ Clash(pen', at'))

\* A thread appends the next item, or turns the verdict.
Push(thread) ==
    /\ pen[thread] # <<>>
    /\ LET next == Head(pen[thread])
       IN \/ /\ next.list = "result"
             /\ result' = NotedResult(result, next.item.good)
             /\ UNCHANGED lists
          \/ /\ next.list # "result"
             /\ lists' = [lists EXCEPT ![next.list] = Append(@, next.item)]
             /\ UNCHANGED result
    /\ pen' = [pen EXCEPT ![thread] = Tail(@)]
    /\ UNCHANGED <<step, issure, workerVars, guiVars, entry, session, rows>>
    /\ Observe

-----------------------------------------------------------------------------
(* The worker.                                                              *)

Ready(here) == at = here /\ pen["worker"] = <<>>

Take(items) == pen' = [pen EXCEPT !["worker"] = items]

\* initDev: the address assignment signals what came of it, or nothing.
InitDev ==
    /\ Ready("initDev")
    /\ at' = "note" /\ check' = 1
    /\ inbox' \in {inbox, Append(inbox, "good"), Append(inbox, "bad")}
    /\ UNCHANGED <<progressVars, lists, pen, ok, num, memo, dialog, entry, session, rows>>
    /\ Observe

\* A check that is noted, then written into a row, unless the session ended.
Note ==
    /\ Ready("note") /\ check <= Checks
    /\ ok' \in BOOLEAN
    /\ Take(IF LogsOpen(step) THEN Line(Item("check", check), ok') ELSE <<>>)
    /\ at' = "row"
    /\ UNCHANGED <<progressVars, lists, check, num, memo, guiVars, entry, session, rows>>
    /\ Observe

WriteRow ==
    /\ Ready("row")
    /\ Take(IF LogsOpen(step) THEN Row(Item("check", check), ok) ELSE <<>>)
    /\ rows' = IF LogsOpen(step) THEN rows + 1 ELSE rows
    /\ at' = "note" /\ check' = check + 1
    /\ UNCHANGED <<progressVars, lists, ok, num, memo, guiVars, entry, session>>
    /\ Observe

\* A failed voltage, load or breaker test ends the checks; after the others, and
\* after the last one, the operator is asked.
EndChecks ==
    /\ Ready("note")
    /\ \/ /\ check > Checks
          /\ inbox' = Append(inbox, "judg")
          /\ result' = result
       \/ /\ check > 1 /\ ~ok
          /\ inbox' = inbox
          /\ result' = Test_Fail
    /\ at' = "decide"
    /\ UNCHANGED <<step, issure, lists, pen, check, ok, num, memo, dialog, entry, session, rows>>
    /\ Observe

\* workResult: the label is printed, and its outcome noted without looking at step.
Decide ==
    /\ Ready("decide")
    /\ \E printed \in BOOLEAN :
          Take(Line(Item("label", 0), printed /\ result # Test_Fail))
    /\ at' = "await"
    /\ UNCHANGED <<progressVars, lists, check, ok, num, memo, guiVars, entry, session, rows>>
    /\ Observe

Await ==
    /\ Ready("await")
    /\ result # Test_Fail => issure
    /\ at' = "save"
    /\ UNCHANGED <<progressVars, lists, pen, check, ok, num, memo, guiVars, entry, session, rows>>
    /\ Observe

\* writeLog takes the verdict, then the length of stepResult, then the texts one by one.
EnterLog ==
    /\ Ready("save")
    /\ at' = "read"
    /\ num' = Len(lists["results"]) /\ memo' = <<>>
    /\ entry' = [kind |-> "open", passed |-> result # Test_Fail,
                 failures |-> {r.of : r \in {m \in ToSet(lists["results"]) : ~m.good /\ m.of.who # "dialog"}}]
    /\ UNCHANGED <<progressVars, lists, pen, check, ok, guiVars, session, rows>>
    /\ Observe

At(list, i) == lists[list][i]

ReadNext ==
    LET i == Len(memo) + 1
    IN /\ Ready("read") /\ i <= num
       /\ IF i > Len(lists["names"]) \/ i > Len(lists["data"])
          THEN at' = "outOfRange" /\ UNCHANGED memo
          ELSE memo' = Append(memo, [name |-> At("names", i), data |-> At("data", i)])
               /\ UNCHANGED at
       /\ UNCHANGED <<progressVars, lists, pen, check, ok, num, guiVars, entry, session, rows>>
       /\ Observe

\* The entry goes to the database; step says that the run is over.
Save ==
    /\ Ready("read") /\ Len(memo) = num
    /\ entry' = [kind |-> "saved", passed |-> entry.passed, failures |-> entry.failures,
                 memo |-> memo, rows |-> rows, session |-> session, torn |-> torn]
    /\ step' = Test_Over
    /\ at' = "off" /\ num' = 0 /\ memo' = <<>> /\ check' = 0 /\ ok' = TRUE
    /\ UNCHANGED <<result, issure, lists, pen, guiVars, session, rows>>
    /\ Observe

Worker == Push("worker") \/ InitDev \/ Note \/ WriteRow \/ EndChecks \/ Decide \/ Await
          \/ EnterLog \/ ReadNext \/ Save

-----------------------------------------------------------------------------
(* The GUI thread: one slot after the other.                                *)

Idle == pen["gui"] = <<>> /\ at # "outOfRange"

\* Mutant of Cleared: the texts are forgotten as test_function is.
ClearedMarks == [lists EXCEPT !["pass"] = <<>>, !["status"] = <<>>, !["results"] = <<>>]

\* sDataPacket::init clears all lists but test_function.
Cleared == [Empty EXCEPT !["names"] = lists["names"]]

\* on_funcBtn_clicked with no session open.
StartFunc ==
    /\ Idle /\ ~dialog /\ inbox = <<>>
    /\ step = Test_End /\ session < MaxSessions
    /\ session' = session + 1
    /\ step' = Test_Start /\ result' = Test_Info /\ issure' = FALSE
    /\ lists' = Cleared
    /\ IF at = "off"
       THEN at' = "initDev" /\ rows' = 0 /\ torn' = FALSE
       ELSE UNCHANGED <<at, rows>> /\ torn' = TRUE
    /\ entry' = IF entry.kind = "saved" THEN [kind |-> "none"] ELSE entry
    /\ UNCHANGED <<pen, check, ok, num, memo, guiVars>>

\* The question whether to end early, answered with yes.
StopFunc ==
    /\ Idle /\ ~dialog /\ inbox = <<>>
    /\ step # Test_End
    /\ step' = Test_End /\ result' = Test_Fail
    /\ UNCHANGED <<issure, lists, pen, workerVars, guiVars, entry, session, rows>>
    /\ Observe

\* Mutant of InsertText: the mark of the line shown is not taken off its list.
InsertTextOnly ==
    IF lists["status"] = <<>> THEN lists
    ELSE [lists EXCEPT !["status"] = Tail(@)]

InsertText ==
    IF lists["status"] = <<>> THEN lists
    ELSE [lists EXCEPT !["status"] = Tail(@), !["pass"] = Tail(@)]

\* timeoutDone: a line is shown, its colour taken from the first mark, and a run that
\* is over is closed.
Timer ==
    /\ Idle
    /\ IF lists["status"] # <<>> /\ lists["pass"] = <<>>
       THEN at' = "outOfRange" /\ UNCHANGED <<step, lists>>
       ELSE /\ lists' = InsertText
            /\ step' = IF step = Test_Over THEN Test_End ELSE step
            /\ lists' # lists \/ step' # step
            /\ UNCHANGED at
    /\ UNCHANGED <<result, issure, pen, check, ok, num, memo, guiVars, entry, session, rows>>
    /\ Observe

\* getNumAndIndexSlot writes a line and a row of a good address; getDelaySlot, of a bad
\* one, a line for what failed, then a line and a row for the port to look at.
AddressNote(of, good) ==
    LET note == Line(of, good) \o Row(of, good)
    IN IF good THEN note ELSE Line(of, good) \o note

\* A slot takes up its notes, JudgSlots opens the dialog.  Only this thread sets step to Test_End, so both see the same step.
Deliver ==
    /\ Idle /\ inbox # <<>>
    /\ inbox' = Tail(inbox)
    /\ pen' = IF Head(inbox) = "judg" \/ ~LogsOpen(step) THEN pen
              ELSE [pen EXCEPT !["gui"] = AddressNote(Item("address", 0), Head(inbox) = "good")]
    /\ dialog' = (dialog \/ Head(inbox) = "judg")
    /\ UNCHANGED <<progressVars, lists, workerVars, entry, session, rows>>
    /\ Observe

\* on_sureButton_clicked sets issure before it writes its rows, each of which says
\* whether the product meets the request; none of them turns the verdict.
JudgeSure ==
    /\ Idle /\ dialog
    /\ dialog' = FALSE
    /\ issure' = TRUE
    /\ \E meets \in [1..Confirmed -> BOOLEAN] : pen' = [pen EXCEPT !["gui"] = ConfirmedRows(meets)]
    /\ UNCHANGED <<step, result, lists, workerVars, inbox, entry, session, rows>>
    /\ Observe

JudgeDismiss ==
    /\ Idle /\ dialog
    /\ dialog' = FALSE
    /\ UNCHANGED <<progressVars, lists, pen, workerVars, inbox, entry, session, rows>>
    /\ Observe

Gui == Push("gui") \/ StartFunc \/ StopFunc \/ Timer \/ Deliver \/ JudgeSure \/ JudgeDismiss

Next == Worker \/ Gui

Spec == Init /\ [][Next]_vars

-----------------------------------------------------------------------------
(* Properties.                                                              *)

Writers == {"check", "label", "address", "dialog"}
Items == [session : 1..MaxSessions, who : Writers, n : 0 .. (Checks + Confirmed)]
Marks == [of : Items, good : BOOLEAN]
Held(list) == IF list \in {"pass", "results", "result"} THEN Marks ELSE Items

\* A run that is alone with its lists writes at most one row for each check, each row
\* of the dialog and the address.
TypeOK ==
    /\ step \in Steps /\ result \in Results /\ issure \in BOOLEAN
    /\ \A l \in Lists : \A i \in DOMAIN lists[l] : lists[l][i] \in Held(l)
    /\ ~torn => Len(lists["data"]) <= Checks + Confirmed + 1
    /\ \A t \in Threads : \A i \in DOMAIN pen[t] : 
          pen[t][i].list \in Lists \cup {"result"} /\ pen[t][i].item \in Held(pen[t][i].list)
    /\ at \in {"off", "initDev", "note", "row", "decide", "await", "save", "read", "outOfRange"}
    /\ check \in 0 .. Checks + 1 /\ ok \in BOOLEAN /\ num \in Nat
    /\ \A i \in DOMAIN memo : memo[i] \in [name : Items, data : Items]
    /\ inbox \in Seq({"good", "bad", "judg"}) /\ dialog \in BOOLEAN
    /\ entry.kind \in {"none", "open", "saved"}
    /\ session \in 0 .. MaxSessions /\ rows \in 0 .. Checks /\ torn \in BOOLEAN

\* Nobody reads past the end of a list: not writeLog, though People_judg appends rows
\* while it reads, nor the timer.  Only when a newer session cleared the lists under
\* a busy run, or the slot of the address assignment was writing at the same time.
InRange == at = "outOfRange" => torn

\* The entry of a run that was alone with its lists: every row of its checks is in it,
\* every text is of this session, and it does not say passed of a product one of
\* whose checks wrote a failed row.  (What the operator rejects in the dialog does not
\* count: such a product is logged as passed.)  The names fit the texts in the first session;
\* in a later one test_function still begins with the names of the sessions before.
EntryIsTrue ==
    entry.kind = "saved" /\ ~entry.torn =>
        LET texts == ToSet(entry.memo)
        IN /\ Cardinality({t \in texts : t.data.who = "check"}) = entry.rows
           /\ \A t \in texts : /\ t.data.session = entry.session
                               /\ entry.session = 1 => t.name = t.data
           /\ entry.passed => entry.failures = {}

\* Every line is shown in the colour it was noted with, unless two threads were
\* noting at once.
ShownAsNoted ==
    [][Timer /\ lists["status"] # <<>> /\ ~torn => Head(lists["pass"]).of = Head(lists["status"])]_vars
=============================================================================
