---------------------------- MODULE SafetySession ----------------------------
(***************************************************************************)
(* A safety-test session (withstand voltage and insulation, or grounding): *)
(* the Test_safety thread that runs the instrument, the Test_Thread that   *)
(* watches the light curtain of a busway, and the GUI thread, whose result *)
(* slot opens dialogs and prints inside nested event loops and so can be   *)
(* entered again before it is finished.  The stack holds its calls.        *)
(***************************************************************************)
EXTENDS Progress, Sequences

CONSTANTS Benches,     \* sets of product types the operator changes between
          Fates,       \* by product type: what can become of a relay command
          MaxSessions, \* sessions the operator may start
          MaxDepth     \* by product type: calls of the GUI thread that buttons may pile up

Devices == UNION Benches

ASSUME BenchesAssumption == Devices \subseteq {"busway", "basic", "smart"}
ASSUME FatesAssumption == Fates \in [Devices -> SUBSET {"acked", "late", "lost"}]
ASSUME BoundsAssumption == MaxSessions \in Nat /\ MaxDepth \in [Devices -> Nat]

VARIABLES
    step, result, issure, \* sProgress
    oning, breaker,       \* sProgress::oning and the global Breaker
    workMode,             \* 0: voltage and insulation, 1: grounding
    mode,                 \* TestConfig's mode: a test was started
    device,               \* modeId and the product's type
    safety, curtain,      \* where the two threads stand
    signals,              \* queued signals to the GUI thread, oldest first
    stack,                \* calls of the GUI thread, innermost first
    anyErr, anyDone,      \* errNum and finishNum of the progress are not 0
    numbered, fresh,      \* a serial number is set; no busway label bears it yet
    hv, reached,          \* instrument on the product; last command got through
    shown, lamp, logged   \* verdict at the clock, lamp, last log of the session

\* What happened, for the properties; the code never reads it.
VARIABLES
    session, runOf,       \* the open session; the one the test was started for
    clean,                \* everything the test measured so far was good
    complete,             \* the test came to its end
    tripped,              \* the curtain thread stopped the test, or is about to
    disturbed,            \* the operator pressed stop or power-off, or started the
                          \* test amid a printout or an alarm of the one before
    dismissed             \* the operator closed a dialog without confirming

progressVars == <<step, result, issure, oning, breaker, workMode, mode, device>>
threadVars   == <<safety, curtain>>
countVars    == <<anyErr, anyDone>>
serialVars   == <<numbered, fresh>>
benchVars    == <<hv, reached>>
shownVars    == <<shown, lamp, logged>>
historyVars  == <<session, runOf, clean, complete, tripped, disturbed, dismissed>>
vars == <<progressVars, threadVars, signals, stack, countVars, serialVars,
          benchVars, shownVars, historyVars>>

Verdicts == {"none", "pass", "fail"}
Readings == {"irStart", "irRead", "acwStart", "acwRead", "gndStart", "gndRead"}
After == [reset    |-> "relay",    relay    |-> "irStart",  irStart  |-> "irRead",
          irRead   |-> "acwStart", acwStart |-> "acwRead",  acwRead  |-> "polar",
          polar    |-> "over",     over     |-> "relayOff", relayOff |-> "off",
          gndReset |-> "gndRelay", gndRelay |-> "gndStart", gndStart |-> "gndRead",
          gndRead  |-> "gndOff",   gndOff   |-> "gndOver",  gndOver  |-> "off"]
Watches  == {"off", "watch", "reading", "reset", "fail", "count", "tell"}
Calls    == {"info", "stop", "mark", "begin", "ask", "dialog", "confirm", "wait",
             "conclude", "printing", "note"}

Init ==
    /\ step = Test_End /\ result = Test_Info /\ issure = FALSE
    /\ oning = FALSE /\ breaker = TRUE /\ workMode = 0 /\ mode = FALSE
    /\ device \in Devices
    /\ safety = "off" /\ curtain = "off"
    /\ signals = <<>> /\ stack = <<>>
    /\ anyErr = FALSE /\ anyDone = FALSE
    /\ numbered = FALSE /\ fresh = FALSE
    /\ hv = FALSE /\ reached = FALSE
    /\ shown = "none" /\ lamp = "none" /\ logged = "none"
    /\ session = 0 /\ runOf = 0
    /\ clean = FALSE /\ complete = FALSE /\ tripped = FALSE
    /\ disturbed = FALSE /\ dismissed = FALSE

\* A new session was opened while the test of an older one goes on.
Overlap == session # runOf

\* Test_TransThread::sendCtrlGnd, as in FuncSession: the answer of the second
\* try is thrown away, a lost command may have reached the relays or not.
SendCtrlGnd(on) ==
    \E fate \in Fates[device] :
        /\ result' = NotedResult(result, fate = "acked")
        /\ reached' = (fate # "lost")
        /\ hv' \in IF fate = "lost" THEN {hv, on} ELSE {on}

-----------------------------------------------------------------------------
(* Test_safety::run: its voltage branch and its grounding branch.          *)

Advance(at) == safety = at /\ safety' = After[at]

\* Mutant of Relay: the last command of the voltage branch is left out.
RelayForgotten ==
    /\ \/ \E at \in {"reset", "gndReset", "gndOff"} : Advance(at) /\ SendCtrlGnd(FALSE)
       \/ \E at \in {"relay", "gndRelay"} : Advance(at) /\ SendCtrlGnd(TRUE)
       \/ Advance("relayOff") /\ UNCHANGED <<result, benchVars>>
    /\ UNCHANGED <<step, issure, oning, breaker, workMode, mode, device, curtain,
                   signals, stack, countVars, serialVars, shownVars, historyVars>>

Relay ==
    /\ \/ \E at \in {"reset", "gndReset", "relayOff", "gndOff"} :
             Advance(at) /\ SendCtrlGnd(FALSE)
       \/ \E at \in {"relay", "gndRelay"} : Advance(at) /\ SendCtrlGnd(TRUE)
    /\ UNCHANGED <<step, issure, oning, breaker, workMode, mode, device, curtain,
                   signals, stack, countVars, serialVars, shownVars, historyVars>>

\* An item of a test: its answer counts as done, and as an error if it is bad.
\* A reading of the voltage tests is skipped when Breaker was cleared, and a
\* busway has no polarity test after them.
Item(at) ==
    /\ safety = at
    /\ safety' = IF at = "acwRead" /\ device = "busway" THEN "over" ELSE After[at]
    /\ IF at \in {"irRead", "acwRead"} /\ ~breaker
       THEN clean' = FALSE /\ UNCHANGED <<result, countVars>>
       ELSE \E good \in BOOLEAN :
               /\ anyDone' = TRUE
               /\ anyErr' = (anyErr \/ ~good)
               /\ result' = NotedResult(result, good)
               /\ clean' = (clean /\ good)
    /\ UNCHANGED <<step, issure, oning, breaker, workMode, mode, device, curtain,
                   signals, stack, serialVars, benchVars, shownVars, session,
                   runOf, complete, tripped, disturbed, dismissed>>

\* testPolar: recvPolarity drives the relays itself, and returns with one still
\* on when the module does not answer.  A bad polarity is noted, never counted.
Polar ==
    /\ Advance("polar")
    /\ \E good \in BOOLEAN :
          /\ clean' = (clean /\ good)
          /\ result' \in IF good THEN {result, Test_Fail} ELSE {Test_Fail}
          /\ reached' \in BOOLEAN
          /\ hv' \in IF good /\ reached' THEN {FALSE} ELSE BOOLEAN
    /\ UNCHANGED <<step, issure, oning, breaker, workMode, mode, device, curtain,
                   signals, stack, countVars, serialVars, shownVars, session,
                   runOf, complete, tripped, disturbed, dismissed>>

\* Mutant of Announce: the grounding branch forgets to announce its end.
AnnounceVoltageOnly ==
    /\ \/ Advance("over") /\ oning' = FALSE /\ signals' = Append(signals, "over")
       \/ Advance("gndOver") /\ UNCHANGED <<oning, signals>>
    /\ complete' = TRUE
    /\ UNCHANGED <<step, result, issure, breaker, workMode, mode, device, curtain,
                   stack, countVars, serialVars, benchVars, shownVars, session,
                   runOf, clean, tripped, disturbed, dismissed>>

\* Only the voltage branch clears oning before it announces its end.
Announce ==
    /\ \/ Advance("over") /\ oning' = FALSE
       \/ Advance("gndOver") /\ UNCHANGED oning
    /\ signals' = Append(signals, "over")
    /\ complete' = TRUE
    /\ UNCHANGED <<step, result, issure, breaker, workMode, mode, device, curtain,
                   stack, countVars, serialVars, benchVars, shownVars, session,
                   runOf, clean, tripped, disturbed, dismissed>>

Safety == Relay \/ (\E at \in Readings : Item(at)) \/ Polar \/ Announce

-----------------------------------------------------------------------------
(* Test_Thread::run: the light curtain.                                    *)

Watching(from, to) == curtain = from /\ curtain' = to

\* The loop looks at Breaker, and at the curtain only while a test is on.
Look ==
    /\ Watching("watch", IF breaker THEN "reading" ELSE "count")
    /\ breaker => oning
    /\ tripped' = (tripped \/ ~breaker)
    /\ UNCHANGED <<progressVars, safety, signals, stack, countVars, serialVars,
                   benchVars, shownVars, session, runOf, clean, complete,
                   disturbed, dismissed>>

\* readDevBus gives up when the session ends during its delay; only a busway is
\* asked after it, and a failure is noted while the logs are open.  A good answer
\* sets Breaker.
ReadDevBus ==
    /\ \E ok, asked \in BOOLEAN :
          /\ asked \/ Interrupted(step)
          /\ ok => asked
          /\ asked /\ ~ok => device = "busway"
          /\ Watching("reading", IF ok THEN "watch" ELSE "reset")
          /\ breaker' = ok
          /\ tripped' = (tripped \/ ~ok)
          /\ result' = NotedResult(result, ~asked \/ ok \/ ~LogsOpen(step))
    /\ UNCHANGED <<step, issure, oning, workMode, mode, device, safety, signals,
                   stack, countVars, serialVars, benchVars, shownVars, session,
                   runOf, clean, complete, disturbed, dismissed>>

\* The instrument is reset first; the verdict follows some seconds later.
Alarm ==
    /\ \/ Watching("reset", "fail") /\ UNCHANGED <<result, oning>>
       \/ Watching("fail", "watch") /\ result' = Test_Fail /\ oning' = FALSE
    /\ UNCHANGED <<step, issure, breaker, workMode, mode, device, safety, signals,
                   stack, countVars, serialVars, benchVars, shownVars, historyVars>>

CountAlarm ==
    /\ \/ Watching("count", "tell") /\ anyErr' = TRUE /\ anyDone' = TRUE /\ UNCHANGED signals
       \/ Watching("tell", "off") /\ signals' = Append(signals, "message") /\ UNCHANGED countVars
    /\ UNCHANGED <<progressVars, safety, stack, serialVars, benchVars, shownVars, historyVars>>

Curtain == Look \/ ReadDevBus \/ Alarm \/ CountAlarm

-----------------------------------------------------------------------------
(* The GUI thread: Home_WorkWid and Face_Volinsul.                         *)

Frame(at, p) == [at |-> at, p |-> p]
In(at) == stack # <<>> /\ Head(stack).at = at
Proceed(at, p) == stack' = <<Frame(at, p)>> \o Tail(stack)

\* Dialogs and the label service spin the event loop; dialogs block the buttons.
EventLoop == stack = <<>> \/ In("info") \/ In("dialog") \/ In("printing")
Modal == \E i \in 1..Len(stack) : stack[i].at \in {"info", "dialog"}
Clickable == EventLoop /\ ~Modal /\ signals = <<>>

\* Mutant of InitRecord: clear() leaves step 0 and nobody sets it afterwards.
ClearRecord == step' = 0 /\ result' = Test_Info /\ issure' = FALSE

\* sDataPacket::init, as far as a session looks at the record.
InitRecord == step' = Test_Start /\ result' = Test_Info /\ issure' = FALSE

\* on_vol_insulBtn_clicked (button 0) and on_groundBtn_clicked (button 1) with no
\* session open: sDataPacket::init, then startTest, which starts the threads
\* unless they run, or the question of overTest if the mode was left behind.
StartTest(button) ==
    /\ Clickable /\ step = Test_End
    /\ session < MaxSessions
    /\ session' = session + 1
    /\ InitRecord
    /\ workMode' = button
    /\ breaker' = (breaker \/ button = 0)
    /\ numbered' = (numbered /\ ~(button = 0 /\ device = "basic"))
    /\ shown' = "none" /\ lamp' = "yellow" /\ logged' = "none"
    /\ dismissed' = FALSE
    /\ \/ /\ ~mode /\ mode' = TRUE
          /\ IF safety = "off"
             THEN /\ safety' = IF button = 0 THEN "reset" ELSE "gndReset"
                  /\ oning' = TRUE
                  /\ runOf' = session'
                  /\ clean' = TRUE /\ complete' = FALSE
                  /\ disturbed' = (stack # <<>> \/ curtain \in {"reset", "fail", "count", "tell"}
                                    \/ (curtain # "off" /\ ~breaker'))
                  /\ tripped' = FALSE
             ELSE oning' = FALSE /\ UNCHANGED <<safety, runOf, clean, complete, disturbed, tripped>>
          /\ curtain' = IF device = "busway" /\ curtain = "off" THEN "watch" ELSE curtain
          /\ anyErr' = FALSE /\ anyDone' = FALSE
          /\ UNCHANGED stack
       \/ /\ mode /\ oning' = FALSE
          /\ stack' = <<Frame("info", FALSE)>> \o stack
          /\ UNCHANGED <<mode, threadVars, countVars, runOf, clean, complete, disturbed, tripped>>
    /\ UNCHANGED <<device, signals, fresh, benchVars>>

\* ... or, when the instrument's serial port is closed, nothing but the work mode.
RefuseTest(button) ==
    /\ Clickable /\ step = Test_End
    /\ workMode' = button
    /\ UNCHANGED <<step, result, issure, oning, breaker, mode, device, threadVars, signals,
                   stack, countVars, serialVars, benchVars, shownVars, historyVars>>

\* The same buttons in a session: overTest asks before anything is stopped.
StopTest(button) ==
    /\ Clickable /\ step # Test_End
    /\ Len(stack) < MaxDepth[device]
    /\ workMode' = button
    /\ oning' = (oning /\ button # 0)
    /\ breaker' = (breaker /\ button # 0)
    /\ stack' = <<Frame("info", TRUE)>> \o stack
    /\ disturbed' = TRUE
    /\ UNCHANGED <<step, result, issure, mode, device, threadVars, signals,
                   countVars, serialVars, benchVars, shownVars, session, runOf,
                   clean, complete, tripped, dismissed>>

\* overTest goes on: relays off, overSlot and its resultSlot; its caller waits.
AnswerInfo ==
    /\ In("info")
    /\ SendCtrlGnd(FALSE)
    /\ mode' = FALSE
    /\ stack' = <<Frame("begin", FALSE),
                  Frame(IF Head(stack).p THEN "stop" ELSE "mark", FALSE)>> \o Tail(stack)
    /\ UNCHANGED <<step, issure, oning, breaker, workMode, device, threadVars,
                   signals, countVars, serialVars, shownVars, historyVars>>

\* Back in the click handler: the verdict turns bad and is shown at once.
AfterOver ==
    /\ \/ /\ In("stop")
          /\ result' = Test_Fail /\ lamp' = "red" /\ shown' = "fail" /\ step' = Test_End
       \/ In("mark") /\ lamp' = "yellow" /\ UNCHANGED <<result, shown, step>>
    /\ stack' = Tail(stack)
    /\ UNCHANGED <<issure, oning, breaker, workMode, mode, device, threadVars,
                   signals, countVars, serialVars, benchVars, logged, historyVars>>

\* Mutant of Deliver: SafeStop kills the thread and does nothing else.
DeliverKillOnly ==
    /\ EventLoop /\ signals # <<>>
    /\ signals' = Tail(signals)
    /\ IF Head(signals) = "message"
       THEN safety' = "off" /\ tripped' = TRUE /\ UNCHANGED <<mode, stack>>
       ELSE /\ mode' = FALSE /\ stack' = <<Frame("begin", FALSE)>> \o stack
            /\ UNCHANGED <<safety, tripped>>
    /\ UNCHANGED <<step, result, issure, oning, breaker, workMode, device, curtain,
                   countVars, serialVars, benchVars, shownVars, session, runOf,
                   clean, complete, disturbed, dismissed>>

\* overSlot for the end of the test; SafeStop kills the safety thread before it.
Deliver ==
    /\ EventLoop /\ signals # <<>>
    /\ signals' = Tail(signals)
    /\ safety' = IF Head(signals) = "message" THEN "off" ELSE safety
    /\ tripped' = (tripped \/ Head(signals) = "message")
    /\ mode' = FALSE
    /\ stack' = <<Frame("begin", FALSE)>> \o stack
    /\ UNCHANGED <<step, result, issure, oning, breaker, workMode, device, curtain,
                   countVars, serialVars, benchVars, shownVars, session, runOf,
                   clean, complete, disturbed, dismissed>>

\* Mutants of BeginResult: errors are not looked at; a busway keeps its number.
BeginResultBlind ==
    /\ In("begin")
    /\ Proceed("ask", anyDone)
    /\ numbered' = TRUE /\ fresh' = TRUE
    /\ UNCHANGED <<progressVars, threadVars, signals, countVars, benchVars,
                   shownVars, historyVars>>

BeginResultOnce ==
    /\ In("begin")
    /\ Proceed("ask", anyDone /\ ~anyErr)
    /\ numbered' = TRUE /\ fresh' = (fresh \/ ~numbered)
    /\ UNCHANGED <<progressVars, threadVars, signals, countVars, benchVars,
                   shownVars, historyVars>>

\* Face_Volinsul::resultSlot: the counters are read, and createSn gives a new
\* serial number (currentNum is counted up).
BeginResult ==
    /\ In("begin")
    /\ Proceed("ask", anyDone /\ ~anyErr)
    /\ IF device = "busway" \/ (device = "basic" /\ ~numbered)
       THEN numbered' = TRUE /\ fresh' = TRUE
       ELSE UNCHANGED serialVars
    /\ UNCHANGED <<progressVars, threadVars, signals, countVars, benchVars,
                   shownVars, historyVars>>

LabelDue == \/ device = "busway" /\ workMode = 0
            \/ device = "basic" /\ workMode = 1

\* The dialog opens if the verdict is good so far.  QDialog::exec returns at once
\* when the same dialog is already open further out.  Whether to wait for the
\* operator's word is decided again afterwards; that wait blocks the thread.
AskOperator ==
    /\ \/ /\ In("ask")
          /\ Proceed(IF result = Test_Fail \/ ~LabelDue THEN "conclude"
                     ELSE IF Modal /\ \E i \in 1..Len(stack) : stack[i].at = "dialog"
                          THEN "confirm" ELSE "dialog", Head(stack).p)
       \/ /\ In("confirm")
          /\ Proceed(IF result = Test_Fail \/ ~LabelDue THEN "conclude" ELSE "wait", Head(stack).p)
       \/ In("wait") /\ issure /\ Proceed("conclude", Head(stack).p)
    /\ UNCHANGED <<progressVars, threadVars, signals, countVars, serialVars,
                   benchVars, shownVars, historyVars>>

\* The sure button of People_Safety or People_judg, or the window just closed.
CloseDialog ==
    /\ In("dialog")
    /\ Proceed("confirm", Head(stack).p)
    /\ \/ issure' = TRUE /\ UNCHANGED dismissed
       \/ dismissed' = TRUE /\ UNCHANGED issure
    /\ UNCHANGED <<step, result, oning, breaker, workMode, mode, device, threadVars,
                   signals, countVars, serialVars, benchVars, shownVars, session,
                   runOf, clean, complete, tripped, disturbed>>

\* Only the counters decide whether there is a label, not the verdict.
Conclude ==
    /\ In("conclude")
    /\ Proceed(IF Head(stack).p /\ LabelDue THEN "printing" ELSE "note", Head(stack).p)
    /\ UNCHANGED <<progressVars, threadVars, signals, countVars, serialVars,
                   benchVars, shownVars, historyVars>>

Printer ==
    /\ In("printing")
    /\ \E printed \in BOOLEAN :
          /\ result' = NotedResult(result, printed)
          /\ Proceed("note", NotedReturn(step, printed))
          /\ fresh' = (fresh /\ ~(printed /\ device = "busway"))
    /\ UNCHANGED <<step, issure, oning, breaker, workMode, mode, device, threadVars,
                   signals, countVars, numbered, benchVars, shownVars, historyVars>>

\* The outcome is noted, the log saved, the lamp set, and the session over.
NoteResult ==
    /\ In("note")
    /\ result' = NotedResult(result, Head(stack).p)
    /\ logged' = IF anyErr THEN "fail" ELSE "pass"
    /\ lamp' = IF result' = Test_Fail THEN "red" ELSE "green"
    /\ step' = Test_Over
    /\ stack' = Tail(stack)
    /\ UNCHANGED <<issure, oning, breaker, workMode, mode, device, threadVars,
                   signals, countVars, serialVars, benchVars, shown, historyVars>>

ResultSlot == BeginResult \/ AskOperator \/ Conclude \/ Printer \/ NoteResult \/ AfterOver

\* Home_WorkWid::timeoutDone and updateResult.
Timer ==
    /\ EventLoop /\ step = Test_Over
    /\ shown' = IF result = Test_Fail THEN "fail" ELSE "pass"
    /\ step' = Test_End
    /\ UNCHANGED <<result, issure, oning, breaker, workMode, mode, device, threadVars,
                   signals, stack, countVars, serialVars, benchVars, lamp, logged, historyVars>>

\* on_comBox_currentIndexChanged between two tests.
ChooseDevice ==
    /\ Clickable /\ stack = <<>> /\ step = Test_End /\ safety = "off"
    /\ \E bench \in Benches : device \in bench /\ device' \in bench
    /\ UNCHANGED <<step, result, issure, oning, breaker, workMode, mode, threadVars,
                   signals, stack, countVars, serialVars, benchVars, shownVars, historyVars>>

\* on_powerOffBtn_clicked.
PowerOff ==
    /\ Clickable
    /\ SendCtrlGnd(FALSE)
    /\ disturbed' = TRUE
    /\ UNCHANGED <<step, issure, oning, breaker, workMode, mode, device, threadVars,
                   signals, stack, countVars, serialVars, shownVars, session, runOf,
                   clean, complete, tripped, dismissed>>

Operator == (\E button \in {0, 1} : StartTest(button) \/ RefuseTest(button) \/ StopTest(button))
            \/ ChooseDevice \/ PowerOff

Next == Safety \/ Curtain \/ ResultSlot \/ AnswerInfo \/ CloseDialog \/ Deliver \/ Timer \/ Operator

Spec == Init /\ [][Next]_vars

\* The threads run, the GUI thread goes on with the call it is in (the operator
\* answers a dialog), and its event loop delivers signals and runs the timer.
Fairness == /\ WF_safety(Safety) /\ WF_curtain(Curtain)
            /\ WF_stack(ResultSlot \/ AnswerInfo \/ CloseDialog)
            /\ WF_signals(Deliver) /\ WF_step(Timer)

FairSpec == Spec /\ Fairness

-----------------------------------------------------------------------------
(* What must hold.                                                         *)

\* Every variable keeps to its values.
TypeOK ==
    /\ step \in Steps /\ result \in Results /\ issure \in BOOLEAN
    /\ oning \in BOOLEAN /\ breaker \in BOOLEAN /\ workMode \in {0, 1}
    /\ mode \in BOOLEAN /\ device \in Devices
    /\ safety \in DOMAIN After \cup {"off"} /\ curtain \in Watches
    /\ signals \in Seq({"over", "message"})
    /\ stack \in Seq([at : Calls, p : BOOLEAN])
    /\ anyErr \in BOOLEAN /\ anyDone \in BOOLEAN
    /\ numbered \in BOOLEAN /\ fresh \in BOOLEAN
    /\ hv \in BOOLEAN /\ reached \in BOOLEAN
    /\ shown \in Verdicts /\ lamp \in {"none", "yellow", "red", "green"}
    /\ logged \in Verdicts /\ session \in Nat /\ runOf \in Nat
    /\ clean \in BOOLEAN /\ complete \in BOOLEAN /\ tripped \in BOOLEAN
    /\ disturbed \in BOOLEAN /\ dismissed \in BOOLEAN

\* A label is only printed for a product whose test came to its end with every
\* measurement good, unless the curtain or the operator interfered.
Labelling == ~In("printing") /\ stack' # <<>> /\ Head(stack').at = "printing"
                /\ Head(stack).at = "conclude"
LabelOnlyIfMeasured ==
    [][Labelling /\ ~disturbed /\ ~tripped /\ ~Overlap => complete /\ clean]_vars

\* No serial number goes onto the labels of two busways, although the result slot
\* is entered again, and numbers the product again, while a dialog is open.
SerialsUnique ==
    [][Labelling /\ device = "busway" /\ ~disturbed /\ ~Overlap => fresh]_vars

\* The instrument is only left connected to a product, once its test ended, by a
\* command that was lost or a thread the light curtain had killed.
InstrumentOff == safety = "off" /\ hv => ~reached \/ tripped

\* A success shown at the clock is a green lamp and a pass in the log, unless the
\* curtain or the operator interfered.
ShownIsLogged ==
    step = Test_End /\ shown = "pass" /\ ~disturbed /\ ~tripped /\ ~Overlap =>
        lamp = "green" /\ logged = "pass"

\* A session comes to its end, unless its test is still that of an older one or
\* the operator closed a dialog without an answer or pressed stop.
SessionEnds ==
    (step # Test_End /\ ~Overlap) ~> (step = Test_End \/ Overlap \/ dismissed \/ disturbed)

\* What the light curtain saw ends up as a failure on the screen, whatever the
\* test, the result slot and its dialogs were doing at that moment.
AlarmShown ==
    (curtain = "reset" /\ step = Test_Start) ~>
        (shown = "fail" \/ Overlap \/ dismissed \/ disturbed)

(* What the program says and does not keep.                                *)

\* "接地测试成功打印标签": the label of a basic type is printed when its grounding test
\* succeeded.
LabelMeansGrounded ==
    [][Labelling /\ device = "basic" => complete /\ clean]_vars

\* "最终结果": the verdict of a session is final once it was shown.
ShownIsFinal ==
    [][shown = "pass" /\ session' = session => shown' # "fail"]_vars

\* "火、零、地接线应正确": a product with a wrong polarity is not logged as a success.
LoggedPassIsClean ==
    [][logged # "pass" /\ logged' = "pass" /\ complete /\ ~disturbed /\ ~Overlap => clean]_vars
=============================================================================
