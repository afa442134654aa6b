------------------------- MODULE SafetySessionProofs -------------------------
(***************************************************************************)
(* Theorems about SafetySession, for every bench, any fate of the relay    *)
(* commands, and any number of sessions and of clicks that pile up.        *)
(***************************************************************************)
EXTENDS SafetySession, TLAPS

-----------------------------------------------------------------------------
(* The values of the variables.                                            *)

Frames == [at : Calls, p : BOOLEAN]

Stacks == Seq(Frames)
Queues == Seq({"over", "message"})
Places == DOMAIN After \cup {"off"}

\* TypeOK in parts, with names for its larger sets.
RecordTyped ==
    /\ step \in Steps /\ result \in Results /\ issure \in BOOLEAN
    /\ oning \in BOOLEAN /\ breaker \in BOOLEAN /\ workMode \in {0, 1}
    /\ mode \in BOOLEAN /\ device \in Devices

ThreadsTyped ==
    /\ safety \in Places /\ curtain \in Watches
    /\ signals \in Queues /\ stack \in Stacks

CountsTyped ==
    /\ anyErr \in BOOLEAN /\ anyDone \in BOOLEAN
    /\ numbered \in BOOLEAN /\ fresh \in BOOLEAN
    /\ hv \in BOOLEAN /\ reached \in BOOLEAN

ShownTyped ==
    /\ shown \in Verdicts /\ lamp \in {"none", "yellow", "red", "green"}
    /\ logged \in Verdicts

HistoryTyped ==
    /\ session \in Nat /\ runOf \in Nat
    /\ clean \in BOOLEAN /\ complete \in BOOLEAN /\ tripped \in BOOLEAN
    /\ disturbed \in BOOLEAN /\ dismissed \in BOOLEAN

Typed == RecordTyped /\ ThreadsTyped /\ CountsTyped /\ ShownTyped /\ HistoryTyped

\* It is the same.
LEMMA TypedIsTypeOK == Typed <=> TypeOK
BY DEF Typed, RecordTyped, ThreadsTyped, CountsTyped, ShownTyped, HistoryTyped, TypeOK, Stacks, Queues, Places, Frames

\* A call that goes on, as it is pushed or put in the place of the one on top.
LEMMA FrameIs ==
    ASSUME NEW at \in Calls, NEW p \in BOOLEAN
    PROVE  Frame(at, p) \in Frames /\ Frame(at, p).at = at /\ Frame(at, p).p = p
BY DEF Frame, Frames

\* A call on top of the others.
LEMMA Pushed ==
    ASSUME NEW s \in Stacks, NEW f \in Frames
    PROVE  /\ <<f>> \o s \in Stacks /\ <<f>> \o s # <<>> /\ Len(<<f>> \o s) = Len(s) + 1
           /\ (<<f>> \o s)[1] = f /\ \A i \in 1..Len(s) : (<<f>> \o s)[i + 1] = s[i]
BY DEF Stacks

\* The call on top, and those below it.
LEMMA Popped ==
    ASSUME NEW s \in Stacks, s # <<>>
    PROVE  /\ Tail(s) \in Stacks /\ Len(Tail(s)) = Len(s) - 1
           /\ \A i \in 1..Len(s) - 1 : Tail(s)[i] = s[i + 1]
           /\ Head(s) = s[1] /\ s[1].at \in Calls /\ s[1].p \in BOOLEAN
           /\ Len(s) \in Nat \ {0}
<1>1. /\ Tail(s) \in Stacks /\ Len(Tail(s)) = Len(s) - 1
      /\ \A i \in 1..Len(s) - 1 : Tail(s)[i] = s[i + 1]
      /\ Head(s) = s[1] /\ s[1] \in Frames
      /\ Len(s) \in Nat \ {0}
      BY DEF Stacks
<1> QED BY <1>1 DEF Frames

\* A signal behind the others.
LEMMA Queued ==
    ASSUME NEW s \in Queues, NEW x \in {"over", "message"}
    PROVE  /\ Append(s, x) \in Queues /\ Len(Append(s, x)) = Len(s) + 1
           /\ Append(s, x)[Len(s) + 1] = x /\ \A i \in 1..Len(s) : Append(s, x)[i] = s[i]
BY DEF Queues

\* The signal that is next, and those behind it.
LEMMA Delivered ==
    ASSUME NEW s \in Queues, s # <<>>
    PROVE  /\ Tail(s) \in Queues /\ Len(Tail(s)) = Len(s) - 1
           /\ \A i \in 1..Len(s) - 1 : Tail(s)[i] = s[i + 1]
           /\ Head(s) = s[1] /\ s[1] \in {"over", "message"} /\ Len(s) \in Nat \ {0}
BY DEF Queues

\* The call on top goes on as another one, or with another answer.
LEMMA Proceeded ==
    ASSUME stack \in Stacks, stack # <<>>, NEW at \in Calls, NEW p \in BOOLEAN, Proceed(at, p)
    PROVE  /\ stack' \in Stacks /\ stack' # <<>> /\ Len(stack') = Len(stack)
           /\ stack'[1].at = at /\ stack'[1].p = p
           /\ \A i \in 2..Len(stack) : stack'[i] = stack[i]
<1>1. Frame(at, p) \in Frames /\ Frame(at, p).at = at /\ Frame(at, p).p = p
      BY FrameIs
<1>2. /\ Tail(stack) \in Stacks /\ Len(Tail(stack)) = Len(stack) - 1
      /\ \A i \in 1..Len(stack) - 1 : Tail(stack)[i] = stack[i + 1]
      /\ Len(stack) \in Nat \ {0}
      BY Popped
<1>3. stack' = <<Frame(at, p)>> \o Tail(stack)
      BY DEF Proceed
<1> DEFINE f == Frame(at, p)
           t == Tail(stack)
<1> HIDE DEF f, t
<1>4. /\ stack' \in Stacks /\ stack' # <<>> /\ Len(stack') = Len(t) + 1
      /\ stack'[1] = f /\ \A i \in 1..Len(t) : stack'[i + 1] = t[i]
      BY <1>1, <1>2, <1>3, Pushed DEF f, t
<1>5. ASSUME NEW i \in 2..Len(stack) PROVE stack'[i] = stack[i]
  <2>1. i - 1 \in 1..Len(t) /\ (i - 1) + 1 = i
        BY <1>2 DEF t
  <2>2. stack'[(i - 1) + 1] = t[i - 1] /\ t[i - 1] = stack[(i - 1) + 1]
        BY <1>2, <1>4, <2>1 DEF t
  <2> QED BY <2>1, <2>2
<1> QED BY <1>1, <1>2, <1>4, <1>5 DEF f, t

\* A relay command, whatever becomes of it: one that opens the relays and got through
\* has taken the instrument off.
LEMMA Sent ==
    ASSUME Typed, NEW on \in BOOLEAN, SendCtrlGnd(on)
    PROVE  /\ result' \in Results /\ (result = Test_Fail => result' = Test_Fail)
           /\ reached' \in BOOLEAN /\ hv' \in BOOLEAN
           /\ ~on /\ reached' => ~hv'
<1>1. PICK fate \in Fates[device] :
        /\ result' = NotedResult(result, fate = "acked")
        /\ reached' = (fate # "lost")
        /\ hv' \in IF fate = "lost" THEN {hv, on} ELSE {on}
      BY DEF SendCtrlGnd
<1>2. result \in Results /\ hv \in BOOLEAN
      BY DEF Typed, RecordTyped, CountsTyped
<1> QED BY <1>1, <1>2 DEF NotedResult, Results

\* Where the safety thread goes on.
LEMMA AfterIs ==
    ASSUME NEW at \in DOMAIN After
    PROVE  After[at] \in Places
BY DEF After, Places

-----------------------------------------------------------------------------
(* What the theorems rest on.                                              *)

\* The instrument is only left on while the thread runs, or by one that was killed.
Off == hv /\ reached => \/ safety \notin {"off", "gndOver"}
                        \/ safety = "off" /\ tripped

\* A session that nobody disturbed, and one that the curtain left alone as well.
Undisturbed == ~disturbed /\ ~Overlap
Quiet == Undisturbed /\ ~tripped

Voltage   == {"reset", "relay", "irStart", "irRead", "acwStart", "acwRead", "polar", "over", "relayOff"}
Grounding == {"gndReset", "gndRelay", "gndStart", "gndRead", "gndOff", "gndOver"}
Result    == {"begin", "ask", "dialog", "confirm", "wait", "conclude", "printing", "note"}

\* A test is not started for a session that is still to come.
Ran == runOf <= session

\* The test is not announced yet.
Running == safety \notin {"relayOff", "off"}

\* A quiet session is tested, then tells its result once, in one call of the GUI thread
\* that nothing else enters, and is shown after that.
Untold  == /\ Running => ~complete /\ step = Test_Start
           /\ ~complete => signals = <<>> /\ stack = <<>> /\ shown # "pass" /\ step # Test_Over
Told    == /\ signals # <<>> => signals = <<"over">> /\ stack = <<>> /\ step = Test_Start
           /\ stack # <<>> => Len(stack) = 1 /\ stack[1].at \in Result /\ step = Test_Start
Noted   == /\ anyErr => result = Test_Fail
           /\ step = Test_Over /\ result # Test_Fail => lamp = "green" /\ logged = "pass"
           /\ step = Test_End /\ shown = "pass" => lamp = "green" /\ logged = "pass"
Orderly == Quiet => curtain \in {"off", "watch", "reading"} /\ Untold /\ Told /\ Noted

\* Before a label, what was not counted as an error was good.
Branch   == /\ workMode = 0 => breaker
            /\ safety \in Voltage => workMode = 0
            /\ safety \in Grounding => workMode = 1
            /\ device = "busway" => safety # "polar"
Counted  == ~clean => anyErr \/ (workMode = 0 /\ device # "busway")
Passing  == \A i \in 1..Len(stack) :
                stack[i].p /\ stack[i].at # "begin" /\ stack[i].at # "note" => ~anyErr
Measured == Quiet /\ step # Test_End => Branch /\ Counted /\ Passing

\* A call that may yet print a label.
Hopeful(f) == IF f.at = "begin" THEN ~anyErr
              ELSE f.at \in {"ask", "dialog", "confirm", "wait", "conclude", "printing"} /\ f.p

\* There is one at most, or the end of the test that will lead to one, even when the
\* curtain sent its message as well, which comes after an error.
Hopes == {i \in 1..Len(stack) : Hopeful(stack[i])}
Overs == {i \in 1..Len(signals) : signals[i] = "over"}

Telling  == \A i \in 1..Len(stack) : /\ stack[i].at \in Result
                                     /\ stack[i].at = "printing" => stack[i].p
Single   == /\ \A i, j \in Hopes : i = j
            /\ \A i, j \in Overs : i = j
            /\ Overs # {} => complete /\ Hopes = {}
            /\ Hopes # {} => complete
Numbered == \A i \in Hopes : device = "busway" /\ stack[i].at # "begin" => fresh
Erring   == /\ curtain = "tell" => anyErr
            /\ \A i \in 1..Len(signals) : signals[i] = "message" => anyErr
Once == Undisturbed => (Running => ~complete) /\ Telling /\ Single /\ Numbered /\ Erring

-----------------------------------------------------------------------------
(* Type correctness.                                                       *)

\* Typed is inductive.
LEMMA TypeStep == Typed /\ [Next]_vars => Typed'
<1> SUFFICES ASSUME Typed, [Next]_vars PROVE Typed'
    OBVIOUS
<1> USE DEF progressVars, threadVars, countVars, serialVars, benchVars, shownVars, historyVars,
           RecordTyped, ThreadsTyped, CountsTyped, ShownTyped, HistoryTyped
<1>0. /\ stack \in Stacks /\ signals \in Queues
      /\ Test_Start \in Steps /\ Test_Over \in Steps /\ Test_End \in Steps
      /\ Test_Info \in Results /\ Test_Fail \in Results
      BY DEF Typed, Steps, Results
<1>1. CASE Relay
  <2>1. PICK at \in DOMAIN After, on \in BOOLEAN : Advance(at) /\ SendCtrlGnd(on)
        BY <1>1 DEF Relay, After
  <2>2. safety' \in Places
        BY <2>1, AfterIs DEF Advance
  <2> QED BY <1>1, <2>1, <2>2, Sent DEF Relay, Typed
<1>2. CASE \E at \in Readings : Item(at)
  <2>1. PICK at \in Readings : Item(at)
        BY <1>2
  <2>2. safety' \in Places
    <3>1. at \in DOMAIN After /\ "over" \in DOMAIN After
          BY DEF Readings, After
    <3>2. After[at] \in Places /\ "over" \in Places
          BY <3>1, AfterIs DEF Places
    <3>3. safety' = "over" \/ safety' = After[at]
          BY <2>1 DEF Item
    <3> QED BY <3>2, <3>3
  <2>3. result' \in Results /\ anyDone' \in BOOLEAN /\ anyErr' \in BOOLEAN /\ clean' \in BOOLEAN
    <3>1. CASE at \in {"irRead", "acwRead"} /\ ~breaker
          BY <2>1, <3>1 DEF Item, Typed
    <3>2. CASE ~(at \in {"irRead", "acwRead"} /\ ~breaker)
          BY <1>0, <2>1, <3>2 DEF Item, Typed, NotedResult
    <3> QED BY <3>1, <3>2
  <2> QED BY <2>1, <2>2, <2>3 DEF Item, Typed
<1>3. CASE Polar
  <2>1. safety' \in Places
        BY <1>3, AfterIs DEF Polar, Advance, After
  <2>2. result' \in Results /\ reached' \in BOOLEAN /\ hv' \in BOOLEAN /\ clean' \in BOOLEAN
        BY <1>0, <1>3 DEF Polar, Typed
  <2> QED BY <1>3, <2>1, <2>2 DEF Polar, Typed
<1>4. CASE Announce
  <2>1. safety' \in Places
        BY <1>4, AfterIs DEF Announce, Advance, After
  <2>2. signals' \in Queues
        BY <1>0, <1>4, Queued DEF Announce
  <2>3. oning' \in BOOLEAN
        BY <1>4 DEF Announce, Typed
  <2>4. RecordTyped'
        BY <1>4, <2>3 DEF Announce, Typed
  <2>5. ThreadsTyped'
        BY <1>4, <2>1, <2>2 DEF Announce, Typed
  <2>6. CountsTyped' /\ ShownTyped' /\ HistoryTyped'
        BY <1>4 DEF Announce, Typed
  <2> QED BY <2>4, <2>5, <2>6 DEF Typed
<1>5. CASE Look
      BY <1>5 DEF Look, Watching, Typed, Watches
<1>6. CASE ReadDevBus
      BY <1>0, <1>6 DEF ReadDevBus, Watching, Typed, Watches, NotedResult
<1>7. CASE Alarm
  <2>1. result' \in Results /\ oning' \in BOOLEAN
        BY <1>0, <1>7 DEF Alarm, Typed
  <2>2. curtain' \in Watches
        BY <1>7 DEF Alarm, Watching, Watches
  <2>3. RecordTyped'
        BY <1>7, <2>1 DEF Alarm, Typed
  <2>4. ThreadsTyped' /\ CountsTyped' /\ ShownTyped' /\ HistoryTyped'
        BY <1>7, <2>2 DEF Alarm, Typed
  <2> QED BY <2>3, <2>4 DEF Typed
<1>8. CASE CountAlarm
  <2>1. signals' \in Queues
        BY <1>0, <1>8, Queued DEF CountAlarm
  <2>2. curtain' \in Watches /\ anyErr' \in BOOLEAN /\ anyDone' \in BOOLEAN
        BY <1>8 DEF CountAlarm, Watching, Watches, Typed
  <2>3. RecordTyped' /\ ShownTyped' /\ HistoryTyped'
        BY <1>8 DEF CountAlarm, Typed
  <2>4. ThreadsTyped' /\ CountsTyped'
        BY <1>8, <2>1, <2>2 DEF CountAlarm, Typed
  <2> QED BY <2>3, <2>4 DEF Typed
<1>9. ASSUME NEW button \in {0, 1}, StartTest(button) PROVE Typed'
  <2>1. stack' \in Stacks
    <3>1. Frame("info", FALSE) \in Frames
          BY FrameIs DEF Calls
    <3> QED BY <1>0, <1>9, <3>1, Pushed DEF StartTest
  <2>2. /\ safety' \in Places /\ session' \in Nat /\ runOf' \in Nat
        /\ oning' \in BOOLEAN /\ clean' \in BOOLEAN /\ complete' \in BOOLEAN
        /\ disturbed' \in BOOLEAN /\ tripped' \in BOOLEAN /\ mode' \in BOOLEAN
        /\ curtain' \in Watches /\ anyErr' \in BOOLEAN /\ anyDone' \in BOOLEAN
    <3>0. {"reset", "gndReset"} \subseteq Places /\ "watch" \in Watches
          BY DEF After, Places, Watches
    <3>1. session' \in Nat
          BY <1>9 DEF StartTest, Typed
    <3>2. CASE mode
          BY <1>9, <3>1, <3>2 DEF StartTest, Typed
    <3>3. CASE ~mode /\ safety = "off"
          BY <1>9, <3>0, <3>1, <3>3 DEF StartTest, Typed
    <3>4. CASE ~mode /\ safety # "off"
          BY <1>9, <3>0, <3>1, <3>4 DEF StartTest, Typed
    <3> QED BY <3>2, <3>3, <3>4 DEF Typed
  <2>3. numbered' \in BOOLEAN /\ breaker' \in BOOLEAN
        BY <1>9 DEF StartTest, Typed
  <2> QED BY <1>0, <1>9, <2>1, <2>2, <2>3 DEF StartTest, InitRecord, Typed, Verdicts
<1>10. ASSUME NEW button \in {0, 1}, RefuseTest(button) PROVE Typed'
       BY <1>10 DEF RefuseTest, Typed
<1>11. ASSUME NEW button \in {0, 1}, StopTest(button) PROVE Typed'
  <2>1. stack' \in Stacks
    <3>1. Frame("info", TRUE) \in Frames
          BY FrameIs DEF Calls
    <3> QED BY <1>0, <1>11, <3>1, Pushed DEF StopTest
  <2> QED BY <1>11, <2>1 DEF StopTest, Typed
<1>12. CASE AnswerInfo
  <2>1. stack' \in Stacks
    <3> DEFINE b == Frame("begin", FALSE)
               o == Frame(IF Head(stack).p THEN "stop" ELSE "mark", FALSE)
    <3>1. b \in Frames /\ o \in Frames
      <4>1. (IF Head(stack).p THEN "stop" ELSE "mark") \in Calls /\ "begin" \in Calls
            BY DEF Calls
      <4> QED BY <4>1, FrameIs
    <3>2. Tail(stack) \in Stacks /\ stack' = <<b, o>> \o Tail(stack)
          BY <1>0, <1>12, Popped DEF AnswerInfo, In
    <3> HIDE DEF b, o
    <3> QED BY <3>1, <3>2 DEF Stacks
  <2>2. result' \in Results /\ reached' \in BOOLEAN /\ hv' \in BOOLEAN
        BY <1>12, Sent DEF AnswerInfo
  <2>3. RecordTyped' /\ CountsTyped'
        BY <1>12, <2>2 DEF AnswerInfo, Typed
  <2>4. ThreadsTyped' /\ ShownTyped' /\ HistoryTyped'
        BY <1>12, <2>1 DEF AnswerInfo, Typed
  <2> QED BY <2>3, <2>4 DEF Typed
<1>13. CASE AfterOver
  <2>1. stack' \in Stacks
        BY <1>0, <1>13, Popped DEF AfterOver, In
  <2> QED BY <1>0, <1>13, <2>1 DEF AfterOver, Typed, Verdicts
<1>14. CASE Deliver
  <2>1. stack' \in Stacks
    <3>1. Frame("begin", FALSE) \in Frames
          BY FrameIs DEF Calls
    <3> QED BY <1>0, <1>14, <3>1, Pushed DEF Deliver
  <2>2. signals' \in Queues
        BY <1>0, <1>14, Delivered DEF Deliver
  <2>3. safety' \in Places /\ tripped' \in BOOLEAN
    <3>1. "off" \in Places
          BY DEF Places
    <3> QED BY <1>14, <3>1 DEF Deliver, Typed
  <2>4. RecordTyped' /\ CountsTyped' /\ ShownTyped'
        BY <1>14, ZenonT(40) DEF Deliver, Typed
  <2>5. ThreadsTyped' /\ HistoryTyped'
        BY <1>14, <2>1, <2>2, <2>3 DEF Deliver, Typed
  <2> QED BY <2>4, <2>5 DEF Typed
<1>15. ASSUME NEW at \in Calls, NEW p \in BOOLEAN, stack # <<>>, Proceed(at, p)
       PROVE  stack' \in Stacks
       BY <1>0, <1>15, Proceeded
<1>16. stack # <<>> => Head(stack).p \in BOOLEAN
       BY <1>0, Popped
<1>17. CASE BeginResult
  <2>1. stack' \in Stacks
    <3>1. stack # <<>> /\ Proceed("ask", anyDone /\ ~anyErr)
          BY <1>17 DEF BeginResult, In
    <3> QED BY <1>15, <3>1 DEF Calls
  <2>2. numbered' \in BOOLEAN /\ fresh' \in BOOLEAN
        BY <1>17 DEF BeginResult, Typed
  <2>3. RecordTyped' /\ ShownTyped' /\ HistoryTyped'
        BY <1>17 DEF BeginResult, Typed
  <2>4. ThreadsTyped' /\ CountsTyped'
        BY <1>17, <2>1, <2>2 DEF BeginResult, Typed
  <2> QED BY <2>3, <2>4 DEF Typed
<1>18. CASE AskOperator
  <2>1. \E at \in {"conclude", "confirm", "dialog", "wait"} : Proceed(at, Head(stack).p)
        BY <1>18 DEF AskOperator
  <2>2. stack # <<>>
        BY <1>18 DEF AskOperator, In
  <2>3. stack' \in Stacks
        BY <1>15, <1>16, <2>1, <2>2 DEF Calls
  <2> QED BY <1>18, <2>3 DEF AskOperator, Typed
<1>19. CASE CloseDialog
  <2>1. stack' \in Stacks
    <3>1. stack # <<>> /\ Proceed("confirm", Head(stack).p)
          BY <1>19 DEF CloseDialog, In
    <3> QED BY <1>15, <1>16, <3>1 DEF Calls
  <2>2. issure' \in BOOLEAN /\ dismissed' \in BOOLEAN
        BY <1>19 DEF CloseDialog, Typed
  <2>3. RecordTyped' /\ CountsTyped' /\ ShownTyped'
        BY <1>19, <2>2 DEF CloseDialog, Typed
  <2>4. ThreadsTyped' /\ HistoryTyped'
        BY <1>19, <2>1, <2>2 DEF CloseDialog, Typed
  <2> QED BY <2>3, <2>4 DEF Typed
<1>20. CASE Conclude
  <2>1. stack' \in Stacks
    <3>1. stack # <<>> /\ \E at \in {"printing", "note"} : Proceed(at, Head(stack).p)
          BY <1>20 DEF Conclude, In
    <3> QED BY <1>15, <1>16, <3>1 DEF Calls
  <2> QED BY <1>20, <2>1 DEF Conclude, Typed
<1>21. CASE Printer
  <2>1. PICK printed \in BOOLEAN :
               /\ result' = NotedResult(result, printed)
               /\ Proceed("note", NotedReturn(step, printed))
               /\ fresh' = (fresh /\ ~(printed /\ device = "busway"))
        BY <1>21 DEF Printer
  <2>2. stack' \in Stacks
    <3>1. stack # <<>> /\ NotedReturn(step, printed) \in BOOLEAN
          BY <1>21 DEF Printer, In, NotedReturn, Interrupted
    <3> QED BY <1>15, <2>1, <3>1 DEF Calls
  <2> QED BY <1>0, <1>21, <2>1, <2>2 DEF Printer, Typed, NotedResult
<1>22. CASE NoteResult
  <2>1. stack' \in Stacks
        BY <1>0, <1>22, Popped DEF NoteResult, In
  <2> QED BY <1>0, <1>22, <2>1 DEF NoteResult, Typed, NotedResult, Verdicts
<1>23. CASE Timer
       BY <1>0, <1>23 DEF Timer, Typed, Verdicts
<1>24. CASE ChooseDevice
  <2>1. device' \in Devices
        BY <1>24 DEF ChooseDevice, Devices
  <2> QED BY <1>24, <2>1 DEF ChooseDevice, Typed
<1>25. CASE PowerOff
  <2>1. result' \in Results /\ reached' \in BOOLEAN /\ hv' \in BOOLEAN
        BY <1>25, Sent DEF PowerOff
  <2>2. RecordTyped' /\ CountsTyped'
        BY <1>25, <2>1 DEF PowerOff, Typed
  <2>3. ThreadsTyped' /\ ShownTyped' /\ HistoryTyped'
        BY <1>25 DEF PowerOff, Typed
  <2> QED BY <2>2, <2>3 DEF Typed
<1>26. CASE UNCHANGED vars
       BY <1>26 DEF vars, Typed
<1> QED BY <1>1, <1>2, <1>3, <1>4, <1>5, <1>6, <1>7, <1>8, <1>9, <1>10, <1>11, <1>12, <1>13, <1>14,
           <1>17, <1>18, <1>19, <1>20, <1>21, <1>22, <1>23, <1>24, <1>25, <1>26
        DEF Next, Safety, Curtain, ResultSlot, Operator

\* It is an invariant.
LEMMA TypedAlways == Spec => []Typed
<1>1. ASSUME Init PROVE Typed
  <2>1. /\ <<>> \in Stacks /\ <<>> \in Queues /\ "off" \in Places /\ "off" \in Watches
        /\ Test_End \in Steps /\ Test_Info \in Results /\ "none" \in Verdicts
        BY DEF Stacks, Queues, Places, Watches, Steps, Results, Verdicts
  <2>2. RecordTyped /\ ThreadsTyped
        BY <1>1, <2>1 DEF Init, RecordTyped, ThreadsTyped
  <2>3. CountsTyped /\ ShownTyped /\ HistoryTyped
        BY <1>1, <2>1 DEF Init, CountsTyped, ShownTyped, HistoryTyped
  <2> QED BY <2>2, <2>3 DEF Typed
<1> QED BY <1>1, TypeStep, PTL DEF Spec

\* Every variable keeps to its values, for every bench and any number of sessions.
THEOREM TypeCorrect == Spec => []TypeOK
BY TypedAlways, TypedIsTypeOK, PTL

-----------------------------------------------------------------------------
(* The instrument is off the product once the test has ended.              *)

\* Off is inductive.
LEMMA OffStep == Typed /\ Off /\ [Next]_vars => Off'
<1> SUFFICES ASSUME Typed, Off, [Next]_vars PROVE Off'
    OBVIOUS
<1> USE DEF progressVars, threadVars, countVars, serialVars, benchVars, shownVars, historyVars
<1>0. tripped \in BOOLEAN /\ breaker \in BOOLEAN
      BY DEF Typed, RecordTyped, HistoryTyped
<1>1. CASE Relay
  <2>1. CASE \E at \in {"reset", "gndReset", "relayOff", "gndOff"} : Advance(at) /\ SendCtrlGnd(FALSE)
        BY <2>1, Sent DEF Off
  <2>2. CASE \E at \in {"relay", "gndRelay"} : Advance(at) /\ SendCtrlGnd(TRUE)
        BY <2>2 DEF Advance, After, Off
  <2> QED BY <1>1, <2>1, <2>2 DEF Relay
<1>2. CASE \E at \in Readings : Item(at)
  <2>1. PICK at \in Readings : safety' = "over" \/ safety' = After[at]
        BY <1>2 DEF Item
  <2>2. safety' \notin {"off", "gndOver"}
        BY <2>1 DEF Readings, After
  <2> QED BY <2>2 DEF Off
<1>3. CASE Polar
      BY <1>3 DEF Polar, Advance, After, Off
<1>4. CASE Announce
      BY <1>4 DEF Announce, Advance, After, Off
<1>5. CASE Curtain
  <2>1. UNCHANGED <<safety, benchVars>>
        BY <1>5 DEF Curtain, Look, ReadDevBus, Alarm, CountAlarm
  <2>2. ASSUME tripped PROVE tripped'
        BY <1>0, <1>5, <2>2 DEF Curtain, Look, ReadDevBus, Alarm, CountAlarm
  <2> QED BY <2>1, <2>2 DEF Off
<1>6. ASSUME NEW button \in {0, 1}, StartTest(button) PROVE Off'
  <2>1. safety' \in {"reset", "gndReset"} \/ UNCHANGED <<safety, tripped>>
        BY <1>6 DEF StartTest
  <2>2. UNCHANGED benchVars
        BY <1>6 DEF StartTest
  <2> QED BY <2>1, <2>2 DEF Off
<1>7. ASSUME NEW button \in {0, 1}, RefuseTest(button) \/ StopTest(button) PROVE Off'
      BY <1>7 DEF RefuseTest, StopTest, Off
<1>8. CASE AnswerInfo \/ PowerOff
      BY <1>8, Sent DEF AnswerInfo, PowerOff, Off
<1>9. CASE Deliver
  <2>1. UNCHANGED benchVars
        BY <1>9 DEF Deliver
  <2>2. CASE Head(signals) = "message"
    <3>1. tripped'
          BY <1>9, <2>2 DEF Deliver
    <3>2. safety' = "off"
          BY <1>9, <2>2 DEF Deliver
    <3> QED BY <3>1, <3>2 DEF Off
  <2>3. CASE Head(signals) # "message"
    <3>1. safety' = safety
          BY <1>9, <2>3 DEF Deliver
    <3>2. ASSUME tripped PROVE tripped'
          BY <1>9, <3>2 DEF Deliver
    <3> QED BY <2>1, <3>1, <3>2 DEF Off
  <2> QED BY <2>2, <2>3
<1>10. CASE ResultSlot \/ CloseDialog \/ Timer \/ ChooseDevice
  <2>1. UNCHANGED <<safety, benchVars, tripped>>
        BY <1>10 DEF ResultSlot, BeginResult, AskOperator, Conclude, Printer, NoteResult, AfterOver,
                     CloseDialog, Timer, ChooseDevice
  <2> QED BY <2>1 DEF Off
<1>11. CASE UNCHANGED vars
       BY <1>11 DEF vars, Off
<1> QED BY <1>1, <1>2, <1>3, <1>4, <1>5, <1>6, <1>7, <1>8, <1>9, <1>10, <1>11
        DEF Next, Safety, Operator

\* The instrument is only left on the product, once its test ended, by a command that
\* was lost or a thread the light curtain had killed: on every other way to the end the
\* last command opens the relays, whatever polarity and dialogs did before.
THEOREM InstrumentSwitchedOff == Spec => []InstrumentOff
<1>1. Init => Off
      BY DEF Init, Off
<1>2. Off => InstrumentOff
      BY DEF Off, InstrumentOff
<1> QED BY <1>1, <1>2, OffStep, TypedAlways, PTL DEF Spec

-----------------------------------------------------------------------------
(* A quiet session, from its start on.                                     *)

\* A session that starts with a test of its own finds the threads and the GUI at rest.
LEMMA Started ==
    ASSUME Typed, Ran, NEW button \in {0, 1}, StartTest(button), ~Overlap'
    PROVE  /\ safety = "off" /\ safety' = IF button = 0 THEN "reset" ELSE "gndReset"
           /\ workMode' = button /\ clean' = TRUE /\ complete' = FALSE /\ tripped' = FALSE
           /\ disturbed' = (stack # <<>> \/ curtain \in {"reset", "fail", "count", "tell"}
                              \/ (curtain # "off" /\ ~breaker'))
           /\ curtain' \in {curtain, "watch"} /\ anyErr' = FALSE /\ UNCHANGED stack
<1>1. session \in Nat /\ runOf \in Nat
      BY DEF Typed, HistoryTyped
<1>2. ~mode /\ safety = "off"
  <2>1. session' = session + 1
        BY DEF StartTest
  <2>2. ASSUME runOf' = runOf PROVE FALSE
        BY <1>1, <2>1, <2>2 DEF Overlap, Ran
  <2> QED BY <2>2 DEF StartTest
<1> QED BY <1>2 DEF StartTest

\* A test is never that of a later session.
LEMMA RanAlways == Spec => []Ran
<1>1. Init => Ran
      BY DEF Init, Ran
<1>2. Typed /\ Ran /\ [Next]_vars => Ran'
  <2> SUFFICES ASSUME Typed, Ran, [Next]_vars PROVE Ran'
      OBVIOUS
  <2> USE DEF progressVars, threadVars, countVars, serialVars, benchVars, shownVars, historyVars
  <2>1. session \in Nat /\ runOf \in Nat
        BY DEF Typed, HistoryTyped
  <2>2. ASSUME NEW button \in {0, 1}, StartTest(button) PROVE Ran'
    <3>1. session' = session + 1 /\ runOf' \in {runOf, session'}
          BY <2>2 DEF StartTest
    <3> QED BY <2>1, <3>1 DEF Ran
  <2>3. CASE UNCHANGED <<session, runOf>>
        BY <2>3 DEF Ran
  <2>4. CASE Safety \/ Curtain
        BY <2>3, <2>4 DEF Safety, Relay, Item, Polar, Announce, Curtain, Look, ReadDevBus, Alarm, CountAlarm
  <2>5. CASE ResultSlot \/ AnswerInfo \/ CloseDialog \/ Deliver \/ Timer
        BY <2>3, <2>5 DEF ResultSlot, BeginResult, AskOperator, Conclude, Printer, NoteResult, AfterOver,
                          AnswerInfo, CloseDialog, Deliver, Timer
  <2>6. CASE Operator
        BY <2>2, <2>3, <2>6 DEF Operator, RefuseTest, StopTest, ChooseDevice, PowerOff
  <2>7. CASE UNCHANGED vars
        BY <2>3, <2>7 DEF vars
  <2> QED BY <2>4, <2>5, <2>6, <2>7 DEF Next
<1> QED BY <1>1, <1>2, TypedAlways, PTL DEF Spec

\* Any other step leaves a session disturbed, or stopped by the curtain, that was.
LEMMA QuietBefore ==
    ASSUME Typed, [Next]_vars, ~(\E button \in {0, 1} : StartTest(button))
    PROVE  (Undisturbed' => Undisturbed) /\ (Quiet' => Quiet)
<1> USE DEF progressVars, threadVars, countVars, serialVars, benchVars, shownVars, historyVars
<1>1. tripped \in BOOLEAN /\ disturbed \in BOOLEAN
      BY DEF Typed, HistoryTyped
<1>2. UNCHANGED <<session, runOf>>
  <2>1. CASE Safety \/ Curtain
        BY <2>1 DEF Safety, Relay, Item, Polar, Announce, Curtain, Look, ReadDevBus, Alarm, CountAlarm
  <2>2. CASE ResultSlot \/ AnswerInfo \/ CloseDialog \/ Deliver \/ Timer
        BY <2>2 DEF ResultSlot, BeginResult, AskOperator, Conclude, Printer, NoteResult, AfterOver,
                    AnswerInfo, CloseDialog, Deliver, Timer
  <2>3. CASE Operator
        BY <2>3 DEF Operator, RefuseTest, StopTest, ChooseDevice, PowerOff
  <2> QED BY <2>1, <2>2, <2>3 DEF Next, vars
<1>3. ASSUME disturbed PROVE disturbed'
  <2>1. CASE Safety \/ Curtain
        BY <1>3, <2>1 DEF Safety, Relay, Item, Polar, Announce, Curtain, Look, ReadDevBus, Alarm, CountAlarm
  <2>2. CASE ResultSlot \/ AnswerInfo \/ CloseDialog \/ Deliver \/ Timer
        BY <1>3, <2>2 DEF ResultSlot, BeginResult, AskOperator, Conclude, Printer, NoteResult, AfterOver,
                          AnswerInfo, CloseDialog, Deliver, Timer
  <2>3. CASE Operator
        BY <1>3, <2>3 DEF Operator, RefuseTest, StopTest, ChooseDevice, PowerOff
  <2> QED BY <1>3, <2>1, <2>2, <2>3 DEF Next, vars
<1>4. ASSUME tripped PROVE tripped'
  <2>1. CASE Safety \/ Curtain
        BY <1>4, <2>1 DEF Safety, Relay, Item, Polar, Announce, Curtain, Look, ReadDevBus, Alarm, CountAlarm
  <2>2. CASE ResultSlot \/ AnswerInfo \/ CloseDialog \/ Deliver \/ Timer
        BY <1>4, <2>2 DEF ResultSlot, BeginResult, AskOperator, Conclude, Printer, NoteResult, AfterOver,
                          AnswerInfo, CloseDialog, Deliver, Timer
  <2>3. CASE Operator
        BY <1>4, <2>3 DEF Operator, RefuseTest, StopTest, ChooseDevice, PowerOff
  <2> QED BY <1>4, <2>1, <2>2, <2>3 DEF Next, vars
<1> QED BY <1>2, <1>3, <1>4 DEF Undisturbed, Quiet, Overlap

\* Orderly is inductive.
LEMMA OrderlyStep == Typed /\ Ran /\ Orderly /\ [Next]_vars => Orderly'
<1> SUFFICES ASSUME Typed, Ran, Orderly, [Next]_vars, Quiet'
             PROVE  (curtain \in {"off", "watch", "reading"} /\ Untold /\ Told /\ Noted)'
    BY DEF Orderly
<1> USE DEF progressVars, threadVars, countVars, serialVars, benchVars, shownVars, historyVars
<1>1. /\ stack \in Stacks /\ signals \in Queues /\ complete \in BOOLEAN /\ anyErr \in BOOLEAN
      /\ tripped \in BOOLEAN /\ breaker \in BOOLEAN
      BY DEF Typed, RecordTyped, ThreadsTyped, CountsTyped, HistoryTyped
<1>2. ~tripped' /\ ~disturbed' /\ ~Overlap'
      BY DEF Quiet, Undisturbed
<1>3. ASSUME NEW button \in {0, 1}, StartTest(button)
      PROVE  (curtain \in {"off", "watch", "reading"} /\ Untold /\ Told /\ Noted)'
  <2>1. /\ stack = <<>> /\ curtain \notin {"reset", "fail", "count", "tell"}
        /\ curtain' \in {curtain, "watch"} /\ anyErr' = FALSE /\ complete' = FALSE /\ UNCHANGED stack
        BY <1>2, <1>3, Started
  <2>2. /\ signals' = <<>> /\ step' = Test_Start /\ shown' = "none"
        BY <1>3 DEF StartTest, Clickable, InitRecord
  <2>3. curtain \in Watches
        BY DEF Typed, ThreadsTyped
  <2>4. curtain' \in {"off", "watch", "reading"}
        BY <2>1, <2>3 DEF Watches
  <2>5. Untold' /\ Told' /\ Noted'
        BY <2>1, <2>2 DEF Untold, Told, Noted, Test_Start, Test_Over, Test_End
  <2> QED BY <2>4, <2>5
<1> SUFFICES ASSUME ~(\E button \in {0, 1} : StartTest(button))
             PROVE  (curtain \in {"off", "watch", "reading"} /\ Untold /\ Told /\ Noted)'
    BY <1>3
<1>4. ~tripped /\ ~disturbed /\ curtain \in {"off", "watch", "reading"} /\ Untold /\ Told /\ Noted
      BY QuietBefore DEF Orderly, Quiet, Undisturbed
<1>5. stack # <<>> => /\ stack[1] = Head(stack) /\ stack[1].at \in Result /\ Len(stack) = 1
                      /\ complete /\ signals = <<>> /\ step = Test_Start /\ ~Running
      BY <1>1, <1>4, Popped DEF Told, Untold
<1>6. CASE Relay
  <2>1. PICK at \in {"reset", "gndReset", "relayOff", "gndOff", "relay", "gndRelay"}, on \in BOOLEAN :
                 Advance(at) /\ SendCtrlGnd(on)
        BY <1>6 DEF Relay
  <2>2. Running' => Running
        BY <2>1 DEF Advance, After, Running
  <2>3. result = Test_Fail => result' = Test_Fail
        BY <2>1, Sent
  <2>4. UNCHANGED <<curtain, stack, signals, step, complete, shown, anyErr, lamp, logged>>
        BY <1>6 DEF Relay
  <2>5. Untold' /\ Told'
        BY <1>4, <2>2, <2>4 DEF Untold, Told
  <2>6. Noted'
        BY <1>4, <2>3, <2>4 DEF Noted
  <2> QED BY <1>4, <2>4, <2>5, <2>6
<1>7. CASE \E at \in Readings : Item(at)
  <2>1. PICK at \in Readings : Item(at)
        BY <1>7
  <2>2. Running
        BY <2>1 DEF Item, Running, Readings
  <2>3. UNCHANGED <<curtain, stack, signals, step, complete, shown, lamp, logged>>
        BY <2>1 DEF Item
  <2>4. Untold' /\ Told'
        BY <1>4, <2>2, <2>3 DEF Untold, Told
  <2>5. step' = Test_Start
        BY <1>4, <2>2, <2>3 DEF Untold
  <2>6. (anyErr => result = Test_Fail) => (anyErr' => result' = Test_Fail)
    <3>1. CASE at \in {"irRead", "acwRead"} /\ ~breaker
          BY <2>1, <3>1 DEF Item
    <3>2. CASE ~(at \in {"irRead", "acwRead"} /\ ~breaker)
      <4>1. PICK good \in BOOLEAN : anyErr' = (anyErr \/ ~good) /\ result' = NotedResult(result, good)
            BY <2>1, <3>2 DEF Item
      <4> QED BY <4>1 DEF NotedResult
    <3> QED BY <3>1, <3>2
  <2>7. Noted'
        BY <1>4, <2>5, <2>6 DEF Noted, Test_Start, Test_Over, Test_End
  <2> QED BY <1>4, <2>3, <2>4, <2>7
<1>8. CASE Polar
  <2>1. Running /\ (result = Test_Fail => result' = Test_Fail)
        BY <1>8 DEF Polar, Advance, Running
  <2>2. UNCHANGED <<curtain, stack, signals, step, complete, shown, anyErr, lamp, logged>>
        BY <1>8 DEF Polar
  <2> QED BY <1>4, <2>1, <2>2 DEF Untold, Told, Noted
<1>9. CASE Announce
  <2>1. Running /\ ~Running'
        BY <1>9 DEF Announce, Advance, After, Running
  <2>2. complete' = TRUE /\ signals' = Append(signals, "over")
        BY <1>9 DEF Announce
  <2>3. UNCHANGED <<curtain, stack, step, result, shown, anyErr, lamp, logged>>
        BY <1>9 DEF Announce
  <2>4. signals' = <<"over">> /\ stack' = <<>> /\ step' = Test_Start
        BY <1>4, <2>1, <2>2, <2>3 DEF Untold
  <2> QED BY <1>4, <2>1, <2>2, <2>3, <2>4 DEF Untold, Told, Noted, Test_Start, Test_Over, Test_End
<1>10. CASE Curtain
  <2>1. CASE Look
    <3>1. curtain' = "reading"
          BY <1>1, <1>2, <2>1 DEF Look, Watching
    <3>2. UNCHANGED <<safety, stack, signals, step, result, complete, shown, anyErr, lamp, logged>>
          BY <2>1 DEF Look
    <3> QED BY <1>4, <3>1, <3>2 DEF Running, Untold, Told, Noted
  <2>2. CASE ReadDevBus
    <3>1. curtain' = "watch" /\ result' = result
          BY <1>1, <1>2, <2>2 DEF ReadDevBus, Watching, NotedResult
    <3>2. UNCHANGED <<safety, stack, signals, step, complete, shown, anyErr, lamp, logged>>
          BY <2>2 DEF ReadDevBus
    <3> QED BY <1>4, <3>1, <3>2 DEF Running, Untold, Told, Noted
  <2>3. ~Alarm /\ ~CountAlarm
        BY <1>4 DEF Alarm, CountAlarm, Watching
  <2> QED BY <1>10, <2>1, <2>2, <2>3 DEF Curtain
<1>11. CASE Operator
  <2>1. ASSUME NEW button \in {0, 1} PROVE ~StopTest(button)
        BY <1>2 DEF StopTest
  <2>2. ~PowerOff
        BY <1>2 DEF PowerOff
  <2>3. UNCHANGED <<safety, curtain, stack, signals, step, result, complete, shown, anyErr, lamp, logged>>
        BY <1>11, <2>1, <2>2 DEF Operator, RefuseTest, ChooseDevice
  <2> QED BY <1>4, <2>3 DEF Running, Untold, Told, Noted
<1>12. CASE AnswerInfo \/ AfterOver
       BY <1>5, <1>12 DEF AnswerInfo, AfterOver, In, Result
<1>13. CASE Deliver
  <2>1. signals # <<>> /\ signals' = Tail(signals) /\ stack' = <<Frame("begin", FALSE)>> \o stack
        BY <1>13 DEF Deliver
  <2>2. signals = <<"over">> /\ stack = <<>> /\ step = Test_Start /\ complete
        BY <1>1, <1>4, <2>1 DEF Told, Untold
  <2>3. signals' = <<>> /\ stack' = <<Frame("begin", FALSE)>>
        BY <2>1, <2>2
  <2>4. safety' = safety
        BY <1>13, <2>2 DEF Deliver
  <2>5. UNCHANGED <<curtain, step, result, complete, shown, anyErr, lamp, logged>>
        BY <1>13 DEF Deliver
  <2>6. Len(stack') = 1 /\ stack'[1].at \in Result
        BY <2>3 DEF Frame, Result
  <2> QED BY <1>4, <2>2, <2>3, <2>4, <2>5, <2>6 DEF Running, Untold, Told, Noted
<1>14. ASSUME NEW at \in Result, NEW p \in BOOLEAN, stack # <<>>, Proceed(at, p),
              UNCHANGED <<safety, curtain, signals, step, complete, shown, anyErr, lamp, logged>>,
              result = Test_Fail => result' = Test_Fail
       PROVE  (curtain \in {"off", "watch", "reading"} /\ Untold /\ Told /\ Noted)'
  <2>1. at \in Calls
        BY DEF Result, Calls
  <2>2. stack' # <<>> /\ Len(stack') = Len(stack) /\ stack'[1].at = at
        BY <1>1, <1>14, <2>1, Proceeded
  <2> QED BY <1>4, <1>5, <1>14, <2>2 DEF Running, Untold, Told, Noted
<1>15. stack # <<>> => Head(stack).p \in BOOLEAN
       BY <1>1, Popped
<1>16. CASE BeginResult
  <2>1. stack # <<>> /\ Proceed("ask", anyDone /\ ~anyErr)
        BY <1>16 DEF BeginResult, In
  <2>2. UNCHANGED <<safety, curtain, signals, step, result, complete, shown, anyErr, lamp, logged>>
        BY <1>16 DEF BeginResult
  <2> QED BY <1>14, <2>1, <2>2 DEF Result
<1>17. CASE AskOperator
  <2>1. stack # <<>>
        BY <1>17 DEF AskOperator, In
  <2>2. \E at \in {"conclude", "confirm", "dialog", "wait"} : Proceed(at, Head(stack).p)
        BY <1>17 DEF AskOperator
  <2>3. UNCHANGED <<safety, curtain, signals, step, result, complete, shown, anyErr, lamp, logged>>
        BY <1>17 DEF AskOperator
  <2> QED BY <1>14, <1>15, <2>1, <2>2, <2>3 DEF Result
<1>18. CASE CloseDialog
  <2>1. stack # <<>> /\ Proceed("confirm", Head(stack).p)
        BY <1>18 DEF CloseDialog, In
  <2>2. UNCHANGED <<safety, curtain, signals, step, result, complete, shown, anyErr, lamp, logged>>
        BY <1>18 DEF CloseDialog
  <2> QED BY <1>14, <1>15, <2>1, <2>2 DEF Result
<1>19. CASE Conclude
  <2>1. stack # <<>> /\ \E at \in {"printing", "note"} : Proceed(at, Head(stack).p)
        BY <1>19 DEF Conclude, In
  <2>2. UNCHANGED <<safety, curtain, signals, step, result, complete, shown, anyErr, lamp, logged>>
        BY <1>19 DEF Conclude
  <2> QED BY <1>14, <1>15, <2>1, <2>2 DEF Result
<1>20. CASE Printer
  <2>1. PICK printed \in BOOLEAN : /\ result' = NotedResult(result, printed)
                                   /\ Proceed("note", NotedReturn(step, printed))
        BY <1>20 DEF Printer
  <2>2. stack # <<>> /\ NotedReturn(step, printed) \in BOOLEAN
        BY <1>20 DEF Printer, In, NotedReturn, Interrupted
  <2>3. result = Test_Fail => result' = Test_Fail
        BY <2>1 DEF NotedResult
  <2>4. UNCHANGED <<safety, curtain, signals, step, complete, shown, anyErr, lamp, logged>>
        BY <1>20 DEF Printer
  <2> QED BY <1>14, <2>1, <2>2, <2>3, <2>4 DEF Result
<1>21. CASE NoteResult
  <2>1. stack # <<>> /\ stack' = Tail(stack) /\ step' = Test_Over
        BY <1>21 DEF NoteResult, In
  <2>2. stack' = <<>>
    <3>1. Tail(stack) \in Stacks /\ Len(Tail(stack)) = 0
          BY <1>1, <1>5, <2>1, Popped
    <3> QED BY <2>1, <3>1 DEF Stacks
  <2>3. /\ result' = NotedResult(result, Head(stack).p)
        /\ logged' = IF anyErr THEN "fail" ELSE "pass"
        /\ lamp' = IF result' = Test_Fail THEN "red" ELSE "green"
        BY <1>21 DEF NoteResult
  <2>4. UNCHANGED <<safety, curtain, signals, complete, shown, anyErr>>
        BY <1>21 DEF NoteResult
  <2>5. Noted'
    <3>1. result = Test_Fail => result' = Test_Fail
          BY <2>3 DEF NotedResult
    <3> QED BY <1>4, <2>1, <2>3, <2>4, <3>1 DEF Noted, Test_Over, Test_End
  <2> QED BY <1>4, <1>5, <2>1, <2>2, <2>4, <2>5 DEF Running, Untold, Told
<1>22. CASE Timer
  <2>1. /\ step = Test_Over /\ step' = Test_End
        /\ shown' = IF result = Test_Fail THEN "fail" ELSE "pass"
        BY <1>22 DEF Timer
  <2>2. UNCHANGED <<safety, curtain, signals, stack, result, complete, anyErr, lamp, logged>>
        BY <1>22 DEF Timer
  <2>3. complete /\ ~Running /\ signals = <<>> /\ stack = <<>>
        BY <1>1, <1>4, <2>1 DEF Untold, Told, Test_Start, Test_Over
  <2> QED BY <1>4, <2>1, <2>2, <2>3 DEF Running, Untold, Told, Noted, Test_Over, Test_End
<1>23. CASE UNCHANGED vars
       BY <1>4, <1>23 DEF vars, Running, Untold, Told, Noted
<1> QED BY <1>6, <1>7, <1>8, <1>9, <1>10, <1>11, <1>12, <1>13, <1>16, <1>17, <1>18, <1>19, <1>20,
           <1>21, <1>22, <1>23
        DEF Next, Safety, ResultSlot

\* It is an invariant.
LEMMA OrderlyAlways == Spec => []Orderly
<1>1. Init => Orderly
      BY DEF Init, Orderly, Running, Untold, Told, Noted, Test_Start, Test_Over, Test_End
<1> QED BY <1>1, OrderlyStep, TypedAlways, RanAlways, PTL DEF Spec

\* A success at the clock is a green lamp and a pass in the log, whatever the dialogs and
\* the printer did, unless the curtain or the operator interfered.
THEOREM ShownIsWhatWasLogged == Spec => []ShownIsLogged
<1>1. Orderly => ShownIsLogged
      BY DEF Orderly, Quiet, Undisturbed, Noted, ShownIsLogged
<1> QED BY <1>1, OrderlyAlways, PTL

-----------------------------------------------------------------------------
(* Labels.                                                                 *)

\* What a quiet session measured stays so.
LEMMA MeasuredStep == Typed /\ Ran /\ Orderly /\ Measured /\ [Next]_vars => Measured'
<1> SUFFICES ASSUME Typed, Ran, Orderly, Measured, [Next]_vars, Quiet', step' # Test_End
             PROVE  (Branch /\ Counted /\ Passing)'
    BY DEF Measured
<1> USE DEF progressVars, threadVars, countVars, serialVars, benchVars, shownVars, historyVars
<1>1. /\ stack \in Stacks /\ signals \in Queues /\ complete \in BOOLEAN /\ anyErr \in BOOLEAN
      /\ tripped \in BOOLEAN /\ breaker \in BOOLEAN /\ clean \in BOOLEAN
      BY DEF Typed, RecordTyped, ThreadsTyped, CountsTyped, HistoryTyped
<1>2. ~tripped' /\ ~disturbed' /\ ~Overlap'
      BY DEF Quiet, Undisturbed
<1>3. ASSUME NEW button \in {0, 1}, StartTest(button)
      PROVE  (Branch /\ Counted /\ Passing)'
  <2>1. /\ stack' = <<>> /\ safety' = IF button = 0 THEN "reset" ELSE "gndReset"
        /\ workMode' = button /\ clean' = TRUE
        BY <1>2, <1>3, Started
  <2>2. breaker' = (breaker \/ button = 0)
        BY <1>3 DEF StartTest
  <2>3. Branch'
        BY <2>1, <2>2 DEF Branch, Voltage, Grounding
  <2>4. Counted' /\ Passing'
        BY <2>1 DEF Counted, Passing
  <2> QED BY <2>3, <2>4
<1> SUFFICES ASSUME ~(\E button \in {0, 1} : StartTest(button))
             PROVE  (Branch /\ Counted /\ Passing)'
    BY <1>3
<1>4. ~tripped /\ ~disturbed /\ curtain \in {"off", "watch", "reading"} /\ Untold /\ Told /\ Noted
      BY QuietBefore DEF Orderly, Quiet, Undisturbed
<1>5. stack # <<>> => /\ stack[1] = Head(stack) /\ stack[1].at \in Result /\ Len(stack) = 1
                      /\ complete /\ step = Test_Start
      BY <1>1, <1>4, Popped DEF Told, Untold
<1>6. step # Test_End => Branch /\ Counted /\ Passing
      BY QuietBefore DEF Measured
<1>7. Running => step = Test_Start /\ stack = <<>>
      BY <1>1, <1>4 DEF Untold
<1>8. CASE Relay
  <2>1. PICK at \in {"reset", "gndReset", "relayOff", "gndOff", "relay", "gndRelay"} : Advance(at)
        BY <1>8 DEF Relay
  <2>2. UNCHANGED <<workMode, breaker, device, clean, anyErr, stack, step>>
        BY <1>8 DEF Relay
  <2>3. /\ safety' \in Voltage => safety \in Voltage
        /\ safety' \in Grounding => safety \in Grounding
        /\ safety' # "polar"
        BY <2>1 DEF Advance, After, Voltage, Grounding
  <2> QED BY <1>6, <2>2, <2>3 DEF Branch, Counted, Passing
<1>9. CASE \E at \in Readings : Item(at)
  <2>1. PICK at \in Readings : Item(at)
        BY <1>9
  <2>2. step = Test_Start /\ stack = <<>> /\ stack' = <<>>
        BY <1>7, <2>1 DEF Item, Running, Readings
  <2>3. Branch /\ Counted
        BY <1>6, <2>2 DEF Test_Start, Test_End
  <2>4. UNCHANGED <<workMode, breaker, device>>
        BY <2>1 DEF Item
  <2>5. safety = at /\ safety' = IF at = "acwRead" /\ device = "busway" THEN "over" ELSE After[at]
        BY <2>1 DEF Item
  <2>6. /\ safety' \in Voltage => safety \in Voltage
        /\ safety' \in Grounding => safety \in Grounding
        /\ device = "busway" => safety' # "polar"
        BY <2>5 DEF Readings, After, Voltage, Grounding
  <2>7. Branch'
        BY <2>3, <2>4, <2>6 DEF Branch
  <2>8. ~(at \in {"irRead", "acwRead"} /\ ~breaker)
        BY <2>3, <2>5 DEF Branch, Voltage
  <2>9. PICK good \in BOOLEAN : anyErr' = (anyErr \/ ~good) /\ clean' = (clean /\ good)
        BY <2>1, <2>8 DEF Item
  <2>10. Counted'
         BY <2>3, <2>4, <2>9 DEF Counted
  <2>11. Passing'
         BY <2>2 DEF Passing
  <2> QED BY <2>7, <2>10, <2>11
<1>10. CASE Polar
  <2>1. safety = "polar" /\ safety' = "over"
        BY <1>10 DEF Polar, Advance, After
  <2>2. step = Test_Start /\ stack = <<>> /\ stack' = <<>>
        BY <1>7, <1>10, <2>1 DEF Polar, Running
  <2>3. Branch /\ Counted
        BY <1>6, <2>2 DEF Test_Start, Test_End
  <2>4. UNCHANGED <<workMode, breaker, device>>
        BY <1>10 DEF Polar
  <2>5. workMode = 0 /\ device # "busway"
        BY <2>1, <2>3 DEF Branch, Voltage
  <2> QED BY <2>1, <2>2, <2>3, <2>4, <2>5 DEF Branch, Counted, Passing, Voltage, Grounding
<1>11. CASE Announce
  <2>1. \/ safety = "over" /\ safety' = "relayOff"
        \/ safety = "gndOver" /\ safety' = "off"
        BY <1>11 DEF Announce, Advance, After
  <2>2. UNCHANGED <<workMode, breaker, device, clean, anyErr, stack, step>>
        BY <1>11 DEF Announce
  <2> QED BY <1>6, <2>1, <2>2 DEF Branch, Counted, Passing, Voltage, Grounding
<1>12. CASE Curtain
  <2>1. CASE Look
    <3>1. UNCHANGED <<safety, workMode, breaker, device, clean, anyErr, stack, step>>
          BY <2>1 DEF Look
    <3> QED BY <1>6, <3>1 DEF Branch, Counted, Passing
  <2>2. CASE ReadDevBus
    <3>0. PICK ok \in BOOLEAN : breaker' = ok /\ tripped' = (tripped \/ ~ok)
          BY <2>2 DEF ReadDevBus
    <3>1. breaker'
          BY <1>1, <1>2, <3>0
    <3>2. UNCHANGED <<safety, workMode, device, clean, anyErr, stack, step>>
          BY <2>2 DEF ReadDevBus
    <3> QED BY <1>6, <3>1, <3>2 DEF Branch, Counted, Passing
  <2>3. ~Alarm /\ ~CountAlarm
        BY <1>4 DEF Alarm, CountAlarm, Watching
  <2> QED BY <1>12, <2>1, <2>2, <2>3 DEF Curtain
<1>13. ~Operator
  <2>1. ASSUME NEW button \in {0, 1} PROVE ~StopTest(button) /\ ~RefuseTest(button)
        BY <1>2 DEF StopTest, RefuseTest
  <2>2. ~PowerOff /\ ~ChooseDevice
        BY <1>2 DEF PowerOff, ChooseDevice
  <2> QED BY <2>1, <2>2 DEF Operator
<1>14. CASE AnswerInfo \/ AfterOver
       BY <1>5, <1>14 DEF AnswerInfo, AfterOver, In, Result
<1>15. CASE Deliver
  <2>1. signals # <<>> /\ stack' = <<Frame("begin", FALSE)>> \o stack
        BY <1>15 DEF Deliver
  <2>2. signals = <<"over">> /\ stack = <<>>
        BY <1>4, <2>1 DEF Told
  <2>3. stack' = <<Frame("begin", FALSE)>>
        BY <2>1, <2>2
  <2>4. Passing'
        BY <2>3 DEF Passing, Frame
  <2>5. safety' = safety
        BY <1>15, <2>2 DEF Deliver
  <2>6. UNCHANGED <<workMode, breaker, device, clean, anyErr, step>>
        BY <1>15 DEF Deliver
  <2> QED BY <1>6, <2>4, <2>5, <2>6 DEF Branch, Counted
<1>16. ASSUME NEW at \in Result, NEW p \in BOOLEAN, stack # <<>>, Proceed(at, p),
              UNCHANGED <<safety, workMode, breaker, device, clean, anyErr, step>>,
              p /\ at # "note" => ~anyErr
       PROVE  (Branch /\ Counted /\ Passing)'
  <2>1. at \in Calls
        BY DEF Result, Calls
  <2>2. Len(stack') = Len(stack) /\ stack'[1].at = at /\ stack'[1].p = p
        BY <1>1, <1>16, <2>1, Proceeded
  <2>3. Passing'
        BY <1>5, <1>16, <2>2 DEF Passing
  <2> QED BY <1>6, <1>16, <2>3 DEF Branch, Counted
<1>17. stack # <<>> => /\ Head(stack).p \in BOOLEAN
                       /\ Head(stack).p /\ Head(stack).at # "begin" /\ Head(stack).at # "note" => ~anyErr
  <2>1. stack # <<>> => Head(stack).p \in BOOLEAN
        BY <1>1, Popped
  <2>2. stack # <<>> => Passing
        BY <1>5, <1>6 DEF Test_Start, Test_End
  <2> QED BY <1>5, <2>1, <2>2 DEF Passing
<1>18. CASE BeginResult
  <2>1. stack # <<>> /\ Proceed("ask", anyDone /\ ~anyErr)
        BY <1>18 DEF BeginResult, In
  <2>2. UNCHANGED <<safety, workMode, breaker, device, clean, anyErr, step>>
        BY <1>18 DEF BeginResult
  <2> QED BY <1>16, <2>1, <2>2 DEF Result
<1>19. CASE AskOperator
  <2>1. stack # <<>> /\ Head(stack).at \in {"ask", "confirm", "wait"}
        BY <1>19 DEF AskOperator, In
  <2>2. \E at \in {"conclude", "confirm", "dialog", "wait"} : Proceed(at, Head(stack).p)
        BY <1>19 DEF AskOperator
  <2>3. UNCHANGED <<safety, workMode, breaker, device, clean, anyErr, step>>
        BY <1>19 DEF AskOperator
  <2> QED BY <1>16, <1>17, <2>1, <2>2, <2>3 DEF Result
<1>20. CASE CloseDialog
  <2>1. stack # <<>> /\ Head(stack).at = "dialog" /\ Proceed("confirm", Head(stack).p)
        BY <1>20 DEF CloseDialog, In
  <2>2. UNCHANGED <<safety, workMode, breaker, device, clean, anyErr, step>>
        BY <1>20 DEF CloseDialog
  <2> QED BY <1>16, <1>17, <2>1, <2>2 DEF Result
<1>21. CASE Conclude
  <2>1. stack # <<>> /\ Head(stack).at = "conclude" /\ \E at \in {"printing", "note"} : Proceed(at, Head(stack).p)
        BY <1>21 DEF Conclude, In
  <2>2. UNCHANGED <<safety, workMode, breaker, device, clean, anyErr, step>>
        BY <1>21 DEF Conclude
  <2> QED BY <1>16, <1>17, <2>1, <2>2 DEF Result
<1>22. CASE Printer
  <2>1. stack # <<>> /\ \E printed \in BOOLEAN : Proceed("note", NotedReturn(step, printed))
        BY <1>22 DEF Printer, In
  <2>2. ASSUME NEW printed \in BOOLEAN PROVE NotedReturn(step, printed) \in BOOLEAN
        BY DEF NotedReturn, Interrupted
  <2>3. UNCHANGED <<safety, workMode, breaker, device, clean, anyErr, step>>
        BY <1>22 DEF Printer
  <2> QED BY <1>16, <2>1, <2>2, <2>3 DEF Result
<1>23. CASE NoteResult
  <2>1. stack # <<>> /\ stack' = Tail(stack)
        BY <1>23 DEF NoteResult, In
  <2>2. Len(stack') = 0
        BY <1>1, <1>5, <2>1, Popped
  <2>3. Branch /\ Counted
        BY <1>5, <1>6, <2>1 DEF Test_Start, Test_End
  <2>4. UNCHANGED <<safety, workMode, breaker, device, clean, anyErr>>
        BY <1>23 DEF NoteResult
  <2> QED BY <2>2, <2>3, <2>4 DEF Branch, Counted, Passing
<1>24. ~Timer
       BY DEF Timer
<1>25. CASE UNCHANGED vars
       BY <1>6, <1>25 DEF vars, Branch, Counted, Passing
<1> QED BY <1>8, <1>9, <1>10, <1>11, <1>12, <1>13, <1>14, <1>15, <1>18, <1>19, <1>20, <1>21, <1>22,
           <1>23, <1>24, <1>25
        DEF Next, Safety, ResultSlot

\* It is an invariant.
LEMMA MeasuredAlways == Spec => []Measured
<1>1. Init => Measured
      BY DEF Init, Measured
<1> QED BY <1>1, MeasuredStep, OrderlyAlways, TypedAlways, RanAlways, PTL DEF Spec

\* A label is only printed by the result slot that comes to its conclusion.
LEMMA LabelIsConclusion ==
    ASSUME Typed, [Next]_vars, Labelling
    PROVE  /\ stack # <<>> /\ Head(stack).at = "conclude" /\ Head(stack) = stack[1]
           /\ Head(stack).p /\ LabelDue
<1> USE DEF progressVars, threadVars, countVars, serialVars, benchVars, shownVars, historyVars
<1>0. stack \in Stacks
      BY DEF Typed, ThreadsTyped
<1>1. ~In("printing") /\ stack' # <<>> /\ Head(stack').at = "printing" /\ Head(stack).at = "conclude"
      BY DEF Labelling
<1>2. stack' # stack
      BY <1>1 DEF In
<1>3. ASSUME NEW f, NEW t \in Stacks, stack' = <<f>> \o t PROVE f.at = "printing"
  <2>1. Head(stack') = f
        BY <1>3 DEF Stacks
  <2> QED BY <1>1, <2>1
<1>4. CASE Safety \/ Curtain \/ Timer
      BY <1>2, <1>4 DEF Safety, Relay, Item, Polar, Announce, Curtain, Look, ReadDevBus, Alarm, CountAlarm, Timer
<1>5. CASE Operator
  <2>1. stack' = <<Frame("info", FALSE)>> \o stack \/ stack' = <<Frame("info", TRUE)>> \o stack
        BY <1>2, <1>5 DEF Operator, StartTest, RefuseTest, StopTest, ChooseDevice, PowerOff
  <2> QED BY <1>0, <1>3, <2>1 DEF Frame
<1>6. CASE Deliver
  <2>1. stack' = <<Frame("begin", FALSE)>> \o stack
        BY <1>6 DEF Deliver
  <2> QED BY <1>0, <1>3, <2>1 DEF Frame
<1>7. ~AnswerInfo /\ ~AfterOver /\ ~BeginResult /\ ~CloseDialog /\ ~Printer /\ ~NoteResult
      BY <1>1 DEF AnswerInfo, AfterOver, BeginResult, CloseDialog, Printer, NoteResult, In
<1>8. ~AskOperator
      BY <1>1 DEF AskOperator, In
<1>9. CASE Conclude
  <2>1. stack # <<>>
        BY <1>9 DEF Conclude, In
  <2>2. Tail(stack) \in Stacks /\ Head(stack) = stack[1]
        BY <1>0, <2>1, Popped
  <2>3. stack' = <<Frame(IF Head(stack).p /\ LabelDue THEN "printing" ELSE "note", Head(stack).p)>> \o Tail(stack)
        BY <1>9 DEF Conclude, Proceed
  <2> DEFINE f == Frame(IF Head(stack).p /\ LabelDue THEN "printing" ELSE "note", Head(stack).p)
  <2>4. f.at = IF Head(stack).p /\ LabelDue THEN "printing" ELSE "note"
        BY DEF Frame
  <2>5. stack' = <<f>> \o Tail(stack)
        BY <2>3
  <2> HIDE DEF f
  <2>6. f.at = "printing"
        BY <1>3, <2>2, <2>5
  <2>7. Head(stack).p /\ LabelDue
        BY <2>4, <2>6
  <2> QED BY <1>1, <2>1, <2>2, <2>7
<1>10. CASE UNCHANGED vars
       BY <1>2, <1>10 DEF vars
<1> QED BY <1>4, <1>5, <1>6, <1>7, <1>8, <1>9, <1>10 DEF Next, ResultSlot

\* A label is only printed for a product whose test came to its end with every measurement
\* good, unless the curtain or the operator interfered: what was skipped, or noted without
\* being counted as an error, never belongs to a test that prints.
THEOREM LabelsMeasured == Spec => LabelOnlyIfMeasured
<1>1. ASSUME Typed, Orderly, Measured, [Next]_vars
      PROVE  [Labelling /\ ~disturbed /\ ~tripped /\ ~Overlap => complete /\ clean]_vars
  <2> SUFFICES ASSUME Labelling, ~disturbed, ~tripped, ~Overlap PROVE complete /\ clean
      OBVIOUS
  <2>1. /\ stack # <<>> /\ Head(stack).at = "conclude" /\ Head(stack) = stack[1]
        /\ Head(stack).p /\ LabelDue
        BY <1>1, LabelIsConclusion
  <2>2. Untold /\ Told
        BY <1>1 DEF Orderly, Quiet, Undisturbed
  <2>3. complete /\ Len(stack) = 1 /\ step = Test_Start
        BY <2>1, <2>2 DEF Untold, Told
  <2>4. Counted /\ Passing
        BY <1>1, <2>3 DEF Measured, Quiet, Undisturbed, Test_Start, Test_End
  <2>5. ~anyErr
        BY <2>1, <2>3, <2>4 DEF Passing
  <2>6. clean
        BY <2>1, <2>4, <2>5 DEF Counted, LabelDue
  <2> QED BY <2>3, <2>6
<1> QED BY <1>1, TypedAlways, OrderlyAlways, MeasuredAlways, PTL DEF Spec, LabelOnlyIfMeasured

-----------------------------------------------------------------------------
(* Serial numbers.                                                         *)

\* Once is inductive.
LEMMA OnceStep == Typed /\ Ran /\ Once /\ [Next]_vars => Once'
<1> DEFINE Goal == (Running => ~complete) /\ Telling /\ Single /\ Numbered /\ Erring
<1> SUFFICES ASSUME Typed, Ran, Once, [Next]_vars, Undisturbed' PROVE Goal'
    BY DEF Once
<1> USE DEF progressVars, threadVars, countVars, serialVars, benchVars, shownVars, historyVars
<1>1. /\ stack \in Stacks /\ signals \in Queues /\ complete \in BOOLEAN /\ anyErr \in BOOLEAN
      /\ fresh \in BOOLEAN
      BY DEF Typed, ThreadsTyped, CountsTyped, HistoryTyped
<1>2. ~disturbed' /\ ~Overlap'
      BY DEF Undisturbed
<1>3. /\ Len(stack) \in Nat /\ Len(signals) \in Nat
      /\ stack # <<>> => Len(stack) # 0
      /\ signals # <<>> => Len(signals) # 0
      BY <1>1 DEF Stacks, Queues
<1>4. ASSUME NEW button \in {0, 1}, StartTest(button) PROVE Goal'
  <2>1. /\ stack = <<>> /\ stack' = stack /\ curtain # "tell" /\ curtain' \in {curtain, "watch"}
        /\ complete' = FALSE
        BY <1>2, <1>4, Started
  <2>2. signals' = <<>>
        BY <1>4 DEF StartTest, Clickable
  <2>3. Hopes' = {} /\ Overs' = {}
        BY <2>1, <2>2 DEF Hopes, Overs
  <2> QED BY <2>1, <2>2, <2>3 DEF Telling, Single, Numbered, Erring
<1> SUFFICES ASSUME ~(\E button \in {0, 1} : StartTest(button)) PROVE Goal'
    BY <1>4
<1>5. (Running => ~complete) /\ Telling /\ Single /\ Numbered /\ Erring
      BY QuietBefore DEF Once
<1>6. ASSUME UNCHANGED <<stack, signals, complete, fresh>>, Running' => Running, anyErr => anyErr',
             device' = device \/ stack = <<>>, curtain' = "tell" => anyErr'
      PROVE  Goal'
  <2>1. Overs' = Overs /\ Hopes' \subseteq Hopes
        BY <1>6 DEF Overs, Hopes, Hopeful
  <2>2. Numbered'
        BY <1>3, <1>5, <1>6, <2>1 DEF Numbered, Hopes
  <2>3. Single' /\ Telling' /\ Erring'
        BY <1>5, <1>6, <2>1 DEF Single, Telling, Erring
  <2> QED BY <1>5, <1>6, <2>2, <2>3
<1>7. ASSUME NEW at \in Result, NEW p \in BOOLEAN, stack # <<>>, Proceed(at, p),
             UNCHANGED <<safety, curtain, signals, complete, anyErr, device>>,
             at = "printing" => p,
             Hopeful(Frame(at, p)) => 1 \in Hopes,
             Hopeful(Frame(at, p)) /\ device = "busway" /\ at # "begin" => fresh',
             1 \in Hopes \/ (device = "busway" /\ fresh => fresh')
      PROVE  Goal'
  <2>1. at \in Calls
        BY DEF Result, Calls
  <2>2. /\ stack' \in Stacks /\ Len(stack') = Len(stack) /\ stack'[1].at = at /\ stack'[1].p = p
        /\ \A i \in 2..Len(stack) : stack'[i] = stack[i]
        BY <1>1, <1>7, <2>1, Proceeded
  <2>3. Frame(at, p).at = at /\ Frame(at, p).p = p
        BY <2>1, FrameIs
  <2>4. 1 \in Hopes' => Hopeful(Frame(at, p))
        BY <1>7, <2>2, <2>3 DEF Hopes, Hopeful
  <2>5. \A i \in Hopes' : i # 1 => i \in Hopes /\ stack'[i] = stack[i]
        BY <1>3, <1>7, <2>2 DEF Hopes, Hopeful
  <2>6. Overs' = Overs /\ Hopes' \subseteq Hopes
        BY <1>7, <2>4, <2>5 DEF Overs
  <2>7. Numbered'
    <3> SUFFICES ASSUME NEW i \in Hopes', device' = "busway", stack'[i].at # "begin" PROVE fresh'
        BY DEF Numbered
    <3>1. CASE i = 1
          BY <1>7, <2>2, <2>4, <3>1
    <3>2. CASE i # 1
      <4>1. fresh /\ ~(1 \in Hopes)
            BY <1>5, <1>7, <2>5, <3>2 DEF Numbered, Single
      <4> QED BY <1>7, <4>1
    <3> QED BY <3>1, <3>2
  <2>8. Telling'
        BY <1>3, <1>5, <1>7, <2>2 DEF Telling
  <2>9. Single'
        BY <1>5, <1>7, <2>6 DEF Single
  <2>10. Erring' /\ (Running' => ~complete')
         BY <1>5, <1>7 DEF Erring, Running
  <2> QED BY <2>7, <2>8, <2>9, <2>10
<1>8. stack # <<>> => /\ Head(stack) = stack[1] /\ Head(stack).p \in BOOLEAN /\ 1 \in 1..Len(stack)
                      /\ Head(stack).at \in Result
                      /\ Head(stack).at = "printing" => Head(stack).p
                      /\ 1 \in Hopes <=> Hopeful(Head(stack))
  <2>1. stack # <<>> => /\ Head(stack) = stack[1] /\ stack[1].p \in BOOLEAN /\ 1 \in 1..Len(stack)
        BY <1>1, Popped
  <2> QED BY <1>5, <2>1 DEF Telling, Hopes
<1>9. CASE Safety
  <2>1. CASE Relay
    <3>0. PICK at \in {"reset", "gndReset", "relayOff", "gndOff", "relay", "gndRelay"} : Advance(at)
          BY <2>1 DEF Relay
    <3>1. Running' => Running
          BY <3>0 DEF Advance, After, Running
    <3>2. UNCHANGED <<stack, signals, complete, fresh, anyErr, device, curtain>>
          BY <2>1 DEF Relay
    <3> QED BY <1>5, <1>6, <3>1, <3>2 DEF Erring
  <2>2. CASE \E at \in Readings : Item(at)
    <3>1. PICK at \in Readings : Item(at)
          BY <2>2
    <3>2. Running
          BY <3>1 DEF Item, Running, Readings
    <3>3. UNCHANGED <<stack, signals, complete, fresh, device, curtain>>
          BY <3>1 DEF Item
    <3>4. ASSUME anyErr PROVE anyErr'
          BY <3>1, <3>4 DEF Item
    <3> QED BY <1>5, <1>6, <3>2, <3>3, <3>4 DEF Erring
  <2>3. CASE Polar
    <3>1. Running
          BY <2>3 DEF Polar, Advance, Running
    <3>2. UNCHANGED <<stack, signals, complete, fresh, anyErr, device, curtain>>
          BY <2>3 DEF Polar
    <3> QED BY <1>5, <1>6, <3>1, <3>2 DEF Erring
  <2>4. CASE Announce
    <3>1. Running /\ ~Running'
          BY <2>4 DEF Announce, Advance, After, Running
    <3>2. signals' = Append(signals, "over") /\ complete' = TRUE
          BY <2>4 DEF Announce
    <3>3. UNCHANGED <<stack, fresh, anyErr, device, curtain>>
          BY <2>4 DEF Announce
    <3>4. /\ Len(signals') = Len(signals) + 1 /\ signals'[Len(signals) + 1] = "over"
          /\ \A i \in 1..Len(signals) : signals'[i] = signals[i]
          BY <1>1, <3>2, Queued
    <3>5. Overs = {} /\ Hopes = {}
          BY <1>5, <3>1 DEF Single
    <3>6. Hopes' = {}
          BY <3>3, <3>5 DEF Hopes, Hopeful
    <3>7. Overs' = {Len(signals) + 1}
          BY <1>3, <3>4, <3>5 DEF Overs
    <3>8. Single' /\ Numbered'
          BY <3>2, <3>6, <3>7 DEF Single, Numbered
    <3>9. Erring'
          BY <1>3, <1>5, <3>3, <3>4 DEF Erring
    <3> QED BY <1>5, <3>1, <3>3, <3>8, <3>9 DEF Telling
  <2> QED BY <1>9, <2>1, <2>2, <2>3, <2>4 DEF Safety
<1>10. CASE Curtain
  <2>1. CASE Look \/ ReadDevBus \/ Alarm
    <3>1. UNCHANGED <<safety, stack, signals, complete, fresh, anyErr, device>> /\ curtain' # "tell"
          BY <2>1 DEF Look, ReadDevBus, Alarm, Watching
    <3> QED BY <1>6, <3>1 DEF Running
  <2>2. CASE CountAlarm
    <3>1. UNCHANGED <<safety, stack, complete, fresh, device>>
          BY <2>2 DEF CountAlarm
    <3>2. CASE curtain = "count"
      <4>1. anyErr' /\ UNCHANGED signals
            BY <2>2, <3>2 DEF CountAlarm, Watching
      <4> QED BY <1>6, <3>1, <4>1 DEF Running
    <3>3. CASE curtain # "count"
      <4>1. curtain = "tell" /\ curtain' = "off" /\ signals' = Append(signals, "message") /\ UNCHANGED anyErr
            BY <2>2, <3>3 DEF CountAlarm, Watching
      <4>2. /\ Len(signals') = Len(signals) + 1 /\ signals'[Len(signals) + 1] = "message"
            /\ \A i \in 1..Len(signals) : signals'[i] = signals[i]
            BY <1>1, <4>1, Queued
      <4>3. Overs' = Overs
            BY <1>3, <4>2 DEF Overs
      <4>4. Hopes' = Hopes
            BY <3>1, <4>1 DEF Hopes, Hopeful
      <4>5. anyErr
            BY <1>5, <4>1 DEF Erring
      <4>6. Erring'
            BY <4>1, <4>5 DEF Erring
      <4> QED BY <1>5, <3>1, <4>3, <4>4, <4>6 DEF Running, Telling, Single, Numbered
    <3> QED BY <3>2, <3>3
  <2> QED BY <1>10, <2>1, <2>2 DEF Curtain
<1>11. CASE Operator \/ Timer \/ UNCHANGED vars
  <2>1. ASSUME NEW button \in {0, 1} PROVE ~StopTest(button)
        BY <1>2 DEF StopTest
  <2>2. ~PowerOff
        BY <1>2 DEF PowerOff
  <2>3. UNCHANGED <<safety, curtain, stack, signals, complete, fresh, anyErr>> /\ (device' = device \/ stack = <<>>)
        BY <1>11, <2>1, <2>2 DEF Operator, RefuseTest, ChooseDevice, Timer, vars
  <2> QED BY <1>5, <1>6, <2>3 DEF Running, Erring
<1>12. CASE AnswerInfo \/ AfterOver
       BY <1>8, <1>12 DEF AnswerInfo, AfterOver, In, Result
<1>13. CASE Deliver
  <2> DEFINE b == Frame("begin", FALSE)
  <2>1. signals # <<>> /\ signals' = Tail(signals) /\ stack' = <<b>> \o stack
        BY <1>13 DEF Deliver
  <2>2. b \in Frames /\ b.at = "begin"
        BY FrameIs DEF Calls
  <2> HIDE DEF b
  <2>3. /\ Len(signals') = Len(signals) - 1 /\ signals[1] = Head(signals)
        /\ \A i \in 1..Len(signals) - 1 : signals'[i] = signals[i + 1]
        BY <1>1, <2>1, Delivered
  <2>4. /\ Len(stack') = Len(stack) + 1 /\ stack'[1] = b
        /\ \A i \in 1..Len(stack) : stack'[i + 1] = stack[i]
        BY <1>1, <2>1, <2>2, Pushed
  <2>5. UNCHANGED <<curtain, complete, fresh, anyErr, device>> /\ safety' \in {safety, "off"}
        BY <1>13 DEF Deliver
  <2>6. \A i \in 2..Len(stack) + 1 : i - 1 \in 1..Len(stack) /\ stack'[i] = stack[i - 1]
        BY <1>3, <2>4
  <2>7. \A i \in Hopes' : i # 1 => i - 1 \in Hopes /\ stack'[i] = stack[i - 1]
        BY <1>3, <2>4, <2>5, <2>6 DEF Hopes, Hopeful
  <2>8. \A i \in Overs' : i + 1 \in Overs /\ i \in Nat \ {0}
        BY <1>3, <2>3 DEF Overs
  <2>9. 1 \in Hopes' => ~anyErr
        BY <2>2, <2>4, <2>5 DEF Hopes, Hopeful
  <2>10. 1 \in Hopes' => Head(signals) = "over"
    <3>1. 1 \in 1..Len(signals) /\ Head(signals) \in {"over", "message"}
          BY <1>1, <1>3, <2>1, Delivered
    <3> QED BY <1>5, <2>3, <2>9, <3>1 DEF Erring
  <2>11. Head(signals) = "over" => 1 \in Overs
         BY <1>3, <2>1, <2>3 DEF Overs
  <2>12. Hopes' \subseteq Int
         BY DEF Hopes
  <2>13. Single'
    <3>1. CASE 1 \in Overs
      <4>1. complete /\ Hopes = {}
            BY <1>5, <3>1 DEF Single
      <4>2. Overs' = {}
            BY <1>5, <2>8, <3>1 DEF Single
      <4>3. Hopes' \subseteq {1}
            BY <2>7, <4>1
      <4> QED BY <2>5, <4>1, <4>2, <4>3 DEF Single
    <3>2. CASE 1 \notin Overs
      <4>1. 1 \notin Hopes'
            BY <2>10, <2>11, <3>2
      <4>2. \A i \in Hopes' : i - 1 \in Hopes
            BY <2>7, <4>1
      <4>3. \A i, j \in Hopes' : i = j
        <5> SUFFICES ASSUME NEW i \in Hopes', NEW j \in Hopes' PROVE i = j
            OBVIOUS
        <5>1. i - 1 = j - 1
              BY <1>5, <4>2 DEF Single
        <5> QED BY <2>12, <5>1
      <4>4. \A i, j \in Overs' : i = j
        <5> SUFFICES ASSUME NEW i \in Overs', NEW j \in Overs' PROVE i = j
            OBVIOUS
        <5>1. i + 1 = j + 1 /\ i \in Nat /\ j \in Nat
              BY <1>5, <2>8 DEF Single
        <5> QED BY <5>1
      <4> QED BY <1>5, <2>5, <2>8, <4>2, <4>3, <4>4 DEF Single
    <3> QED BY <3>1, <3>2
  <2>14. Numbered'
    <3> SUFFICES ASSUME NEW i \in Hopes', device' = "busway", stack'[i].at # "begin" PROVE fresh'
        BY DEF Numbered
    <3>1. i # 1
          BY <2>2, <2>4
    <3> QED BY <1>5, <2>5, <2>7, <3>1 DEF Numbered
  <2>15. Telling'
    <3> SUFFICES ASSUME NEW i \in 1..Len(stack')
                 PROVE  stack'[i].at \in Result /\ (stack'[i].at = "printing" => stack'[i].p)
        BY DEF Telling
    <3>1. CASE i = 1
          BY <2>2, <2>4, <3>1 DEF Result
    <3>2. CASE i # 1
          BY <1>3, <1>5, <2>4, <2>6, <3>2 DEF Telling
    <3> QED BY <3>1, <3>2
  <2>16. Erring'
         BY <1>3, <1>5, <2>3, <2>5 DEF Erring
  <2>17. Running' => ~complete'
         BY <1>5, <2>5 DEF Running
  <2> QED BY <2>13, <2>14, <2>15, <2>16, <2>17
<1>14. CASE BeginResult
  <2>1. stack # <<>> /\ Head(stack).at = "begin" /\ Proceed("ask", anyDone /\ ~anyErr)
        BY <1>14 DEF BeginResult, In
  <2>2. UNCHANGED <<safety, curtain, signals, complete, anyErr, device>>
        BY <1>14 DEF BeginResult
  <2>3. device = "busway" => fresh'
        BY <1>14 DEF BeginResult
  <2> DEFINE p == anyDone /\ ~anyErr
  <2>4. Hopeful(Frame("ask", p)) => p
        BY DEF Hopeful, Frame
  <2>5. p => Hopeful(Head(stack))
        BY <2>1 DEF Hopeful
  <2>6. p \in BOOLEAN /\ Proceed("ask", p)
        BY <2>1
  <2> HIDE DEF p
  <2> QED BY <1>7, <1>8, <2>1, <2>2, <2>3, <2>4, <2>5, <2>6 DEF Result
<1>15. ASSUME NEW at \in Result, stack # <<>>, Proceed(at, Head(stack).p), at # "begin",
              Head(stack).at \in {"ask", "dialog", "confirm", "wait", "conclude"},
              UNCHANGED <<safety, curtain, signals, complete, fresh, anyErr, device>>,
              at = "printing" => Head(stack).p
       PROVE  Goal'
  <2>1. Hopeful(Frame(at, Head(stack).p)) => Head(stack).p
        BY <1>15 DEF Hopeful, Frame
  <2>2. Head(stack).p => 1 \in Hopes
        BY <1>8, <1>15 DEF Hopeful
  <2>3. 1 \in Hopes /\ device = "busway" => fresh
        BY <1>5, <1>8, <1>15 DEF Numbered
  <2> QED BY <1>7, <1>8, <1>15, <2>1, <2>2, <2>3
<1>16. CASE AskOperator
  <2>1. stack # <<>> /\ Head(stack).at \in {"ask", "confirm", "wait"}
        BY <1>16 DEF AskOperator, In
  <2>2. \E at \in {"conclude", "confirm", "dialog", "wait"} : Proceed(at, Head(stack).p)
        BY <1>16 DEF AskOperator
  <2>3. UNCHANGED <<safety, curtain, signals, complete, fresh, anyErr, device>>
        BY <1>16 DEF AskOperator
  <2> QED BY <1>15, <2>1, <2>2, <2>3 DEF Result
<1>17. CASE CloseDialog
  <2>1. stack # <<>> /\ Head(stack).at = "dialog" /\ Proceed("confirm", Head(stack).p)
        BY <1>17 DEF CloseDialog, In
  <2>2. UNCHANGED <<safety, curtain, signals, complete, fresh, anyErr, device>>
        BY <1>17 DEF CloseDialog
  <2> QED BY <1>15, <2>1, <2>2 DEF Result
<1>18. CASE Conclude
  <2>1. /\ stack # <<>> /\ Head(stack).at = "conclude"
        /\ \E at \in {"printing", "note"} : Proceed(at, Head(stack).p) /\ (at = "printing" => Head(stack).p)
        BY <1>18 DEF Conclude, In
  <2>2. UNCHANGED <<safety, curtain, signals, complete, fresh, anyErr, device>>
        BY <1>18 DEF Conclude
  <2> QED BY <1>15, <2>1, <2>2 DEF Result
<1>19. CASE Printer
  <2>1. PICK printed \in BOOLEAN : Proceed("note", NotedReturn(step, printed))
        BY <1>19 DEF Printer
  <2>2. stack # <<>> /\ Head(stack).at = "printing" /\ NotedReturn(step, printed) \in BOOLEAN
        BY <1>19 DEF Printer, In, NotedReturn, Interrupted
  <2>3. UNCHANGED <<safety, curtain, signals, complete, anyErr, device>>
        BY <1>19 DEF Printer
  <2>4. 1 \in Hopes
        BY <1>8, <2>2 DEF Hopeful
  <2>5. ~Hopeful(Frame("note", NotedReturn(step, printed)))
        BY DEF Hopeful, Frame
  <2> QED BY <1>7, <2>1, <2>2, <2>3, <2>4, <2>5 DEF Result
<1>20. CASE NoteResult
  <2>1. stack # <<>> /\ stack' = Tail(stack)
        BY <1>20 DEF NoteResult, In
  <2>2. Len(stack') = Len(stack) - 1 /\ \A i \in 1..Len(stack) - 1 : stack'[i] = stack[i + 1]
        BY <1>1, <2>1, Popped
  <2>3. UNCHANGED <<safety, curtain, signals, complete, fresh, anyErr, device>>
        BY <1>20 DEF NoteResult
  <2>4. Overs' = Overs
        BY <2>3 DEF Overs
  <2>5. \A i \in Hopes' : i + 1 \in Hopes /\ i \in Nat /\ stack'[i] = stack[i + 1]
        BY <1>3, <2>2, <2>3 DEF Hopes, Hopeful
  <2>6. \A i, j \in Hopes' : i = j
    <3> SUFFICES ASSUME NEW i \in Hopes', NEW j \in Hopes' PROVE i = j
        OBVIOUS
    <3>1. i + 1 = j + 1 /\ i \in Nat /\ j \in Nat
          BY <1>5, <2>5 DEF Single
    <3> QED BY <3>1
  <2>7. Single' /\ Numbered'
        BY <1>5, <2>3, <2>4, <2>5, <2>6 DEF Single, Numbered
  <2>8. Telling'
        BY <1>3, <1>5, <2>2 DEF Telling
  <2> QED BY <1>5, <2>3, <2>7, <2>8 DEF Running, Erring
<1> QED BY <1>9, <1>10, <1>11, <1>12, <1>13, <1>14, <1>16, <1>17, <1>18, <1>19, <1>20
        DEF Next, ResultSlot

\* It is an invariant.
LEMMA OnceAlways == Spec => []Once
<1>1. Init => Once
  <2> SUFFICES ASSUME Init PROVE Once
      OBVIOUS
  <2>1. Hopes = {} /\ Overs = {}
        BY DEF Init, Hopes, Overs
  <2> QED BY <2>1 DEF Init, Once, Running, Telling, Single, Numbered, Erring
<1> QED BY <1>1, OnceStep, TypedAlways, RanAlways, PTL DEF Spec

\* No two busways get labels with the same serial number, although the result slot is
\* entered again, and numbers the product again, while a dialog is open.
THEOREM SerialsDiffer == Spec => SerialsUnique
<1>1. ASSUME Typed, Once, [Next]_vars
      PROVE  [Labelling /\ device = "busway" /\ ~disturbed /\ ~Overlap => fresh]_vars
  <2> SUFFICES ASSUME Labelling, device = "busway", ~disturbed, ~Overlap PROVE fresh
      OBVIOUS
  <2>1. stack # <<>> /\ Head(stack).at = "conclude" /\ Head(stack) = stack[1] /\ Head(stack).p
        BY <1>1, LabelIsConclusion
  <2>2. stack \in Stacks
        BY <1>1 DEF Typed, ThreadsTyped
  <2>3. 1 \in 1..Len(stack)
        BY <2>1, <2>2, Popped
  <2>4. 1 \in Hopes
        BY <2>1, <2>3 DEF Hopes, Hopeful
  <2> QED BY <1>1, <2>1, <2>4 DEF Once, Undisturbed, Numbered
<1> QED BY <1>1, TypedAlways, OnceAlways, PTL DEF Spec, SerialsUnique
=============================================================================
