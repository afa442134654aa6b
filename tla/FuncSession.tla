----------------------------- MODULE FuncSession -----------------------------
(***************************************************************************)
(* A functional-test session: the button and the dialogs of Home_WorkWid   *)
(* on the GUI thread, the Power_CoreThread worker, and the sProgress       *)
(* record they share without a lock.                                       *)
(*                                                                         *)
(* A check of the device is one step with any outcome; what a check        *)
(* measures is left to other modules.  Signals of the worker are queued    *)
(* and delivered by the GUI's event loop, also inside a modal dialog.      *)
(***************************************************************************)
EXTENDS Progress, Sequences

CONSTANTS Kinds,       \* device types the operator can choose
          MaxSessions, \* sessions the operator may start
          OrderSize    \* products left in the order at first

ASSUME KindsAssumption == Kinds \subseteq {"START", "INSERT", "BASIC"}
ASSUME BoundsAssumption == MaxSessions \in Nat /\ OrderSize \in Nat

VARIABLES
    step, result,      \* sProgress::step and result
    issure,            \* the operator confirmed the checks done by eye
    proMode, workMode, \* work_mode of sProgress and of TestConfig
    kind,              \* sCfgItem::modeId
    worker,            \* where Power_CoreThread::run stands
    ret, res,          \* its locals: checks passed; test and label passed
    signals,           \* queued signals to the GUI thread, oldest first
    stopOpen,          \* the "end early?" question is on the screen
    judgOpen,          \* the People_judg dialog is on the screen
    shown, lamp,       \* verdict shown at the clock; colour of the lamp
    powered, reached,  \* L1-L3 energised; the last relay command got through
    left,              \* cnt.num: products left in the order
    labelled, logged   \* did the current run print a label, log a verdict

\* What happened, for the properties; the code never reads it.
VARIABLES
    session,           \* number of the open session
    runOf,             \* the session the current run was started for
    failed,            \* a check, relay or label of the current run failed
    disturbed,         \* the operator pressed stop or power-off during it
    dismissed          \* the operator closed the dialog without confirming

progressVars == <<step, result, issure, proMode, workMode, kind>>
workerVars   == <<worker, ret, res>>
guiVars      == <<signals, stopOpen, judgOpen, shown, lamp>>
benchVars    == <<powered, reached>>
ledgerVars   == <<left, labelled, logged>>
historyVars  == <<session, runOf, failed, disturbed, dismissed>>
vars == <<progressVars, workerVars, guiVars, benchVars, ledgerVars, historyVars>>

Fates    == {"acked", "late", "lost"}
Verdicts == {"none", "pass", "fail"}
Checks   == {"basic", "config", "base", "breaker", "vol", "load", "factory"}
Stages   == Checks \cup
            {"off", "reset", "powerOn", "begin", "initDev", "route", "relayOn",
             "judg", "verdict", "decide", "print", "note", "await", "waitSure",
             "save", "write", "finish", "overAgain", "relayOff"}
Signals  == {"addrFail", "judg", "finshOk", "finshBad"}

-----------------------------------------------------------------------------
Init ==
    /\ step = Test_End
    /\ result = Test_Info
    /\ issure = FALSE
    /\ proMode = 2 /\ workMode = 2
    /\ kind \in Kinds
    /\ worker = "off" /\ ret = FALSE /\ res = FALSE
    /\ signals = <<>>
    /\ stopOpen = FALSE /\ judgOpen = FALSE
    /\ shown = "none" /\ lamp = "none"
    /\ powered \in BOOLEAN /\ reached = FALSE
    /\ left = OrderSize /\ labelled = FALSE /\ logged = "none"
    /\ session = 0 /\ runOf = 0
    /\ failed = FALSE /\ disturbed = FALSE /\ dismissed = FALSE

\* A new session took over the record while the run of an older one goes on.
Overlap == session # runOf

\* A signal waits in the event queue; the question by eye is not answered yet.
Queued(s) == \E i \in 1..Len(signals) : signals[i] = s
Pending   == judgOpen \/ Queued("judg")

\* Test_TransThread::sendCtrlGnd.  The answer of the second try is thrown
\* away, so a command that only then got through ("late") is noted as failed;
\* a lost one may have reached the relays or not.
SendCtrlGnd(on) ==
    \E fate \in Fates :
        /\ reached' = (fate # "lost")
        /\ powered' \in IF fate = "lost" THEN {powered, on} ELSE {on}
        /\ result' = NotedResult(result, fate = "acked")
        /\ failed' = (failed \/ fate # "acked")

-----------------------------------------------------------------------------
(* The worker: run, workDown and workResult.                               *)

Goto(from, to) == worker = from /\ worker' = to

PowerCycle ==
    /\ \/ Goto("reset", "powerOn") /\ SendCtrlGnd(FALSE)
       \/ Goto("powerOn", "begin") /\ SendCtrlGnd(TRUE)
    /\ UNCHANGED <<step, issure, proMode, workMode, kind, ret, res, guiVars,
                   ledgerVars, session, runOf, disturbed, dismissed>>

\* Mutant of Begin: the run starts with a clean verdict as well.
BeginForgiving ==
    /\ Goto("begin", "initDev")
    /\ step' = Test_Start /\ result' = Test_Info
    /\ UNCHANGED <<issure, proMode, workMode, kind, ret, res, guiVars,
                   benchVars, ledgerVars, historyVars>>

Begin ==
    /\ Goto("begin", "initDev")
    /\ step' = Test_Start
    /\ UNCHANGED <<result, issure, proMode, workMode, kind, ret, res, guiVars,
                   benchVars, ledgerVars, historyVars>>

\* autoSetAddress runs for a tap-off box; its failure arrives as a signal.
InitDev ==
    /\ Goto("initDev", "route")
    /\ ret' = TRUE
    /\ \E answered \in BOOLEAN :
          IF kind = "INSERT" /\ ~answered
          THEN signals' = Append(signals, "addrFail") /\ failed' = TRUE
          ELSE UNCHANGED <<signals, failed>>
    /\ UNCHANGED <<progressVars, res, stopOpen, judgOpen, shown, lamp,
                   benchVars, ledgerVars, session, runOf, disturbed, dismissed>>

\* workDown looks at the device type once more: it may have been changed.
Route ==
    /\ Goto("route", CASE kind = "BASIC"  -> "basic"
                       [] kind = "INSERT" -> "config"
                       [] kind = "START"  -> "base")
    /\ UNCHANGED <<progressVars, ret, res, guiVars, benchVars, ledgerVars,
                   historyVars>>

\* Where the run goes after a check that passed, and after one that did not.
Passed == [basic |-> "verdict", config |-> "base", base |-> "breaker",
           breaker |-> "vol", vol |-> "load", load |-> "relayOn",
           factory |-> "judg"]
Stopped == [basic |-> "verdict", config |-> "verdict", base |-> "breaker",
            breaker |-> "relayOn", vol |-> "relayOn", load |-> "relayOn",
            factory |-> "judg"]

Switching == {"basic", "load"}    \* checks that switch the branches one by one

\* A check returns ok or not, and notes failures on its way.  One that returns
\* false noted a failure unless the logs were closed; those that switch branches may
\* return false in silence, after a read that failed.  The base checks
\* do not touch ret.  Branches cannot pass without an answer over the serial port,
\* and those come through the GUI's event loop, after the signals before them.
Check(phase) ==
    /\ \E ok, noted \in BOOLEAN :
          /\ ~ok /\ LogsOpen(step) /\ phase \notin Switching => noted
          /\ ok /\ phase \in {"config", "factory"} => ~noted
          /\ ok /\ phase \in Switching => ~Queued("addrFail")
          /\ Goto(phase, IF ok THEN Passed[phase] ELSE Stopped[phase])
          /\ ret' = (ok \/ phase = "base")
          /\ result' = NotedResult(result, ~noted)
          /\ failed' = (failed \/ noted \/ ~ok)
    /\ IF phase \in Switching
       THEN powered' \in BOOLEAN /\ reached' \in BOOLEAN
       ELSE UNCHANGED benchVars
    /\ UNCHANGED <<step, issure, proMode, workMode, kind, res, guiVars,
                   ledgerVars, session, runOf, disturbed, dismissed>>

RelayOn ==
    /\ Goto("relayOn", IF ret THEN "factory" ELSE "judg")
    /\ SendCtrlGnd(TRUE)
    /\ UNCHANGED <<step, issure, proMode, workMode, kind, ret, res, guiVars,
                   ledgerVars, session, runOf, disturbed, dismissed>>

AskJudgement ==
    /\ Goto("judg", "verdict")
    /\ workMode' = 3
    /\ signals' = IF ret THEN Append(signals, "judg") ELSE signals
    /\ UNCHANGED <<step, result, issure, proMode, kind, ret, res, stopOpen,
                   judgOpen, shown, lamp, benchVars, ledgerVars, historyVars>>

EndOfChecks ==
    /\ Goto("verdict", "decide")
    /\ result' = NotedResult(result, ret)
    /\ failed' = (failed \/ ~ret)
    /\ UNCHANGED <<step, issure, proMode, workMode, kind, ret, res, guiVars,
                   benchVars, ledgerVars, session, runOf, disturbed, dismissed>>

\* Mutant of Decide: only the return values of the checks count.
DecideByRet ==
    /\ Goto("decide", IF ret THEN "print" ELSE "note")
    /\ res' = FALSE
    /\ UNCHANGED <<progressVars, ret, guiVars, benchVars, ledgerVars, historyVars>>

\* workResult prints the label of a product that did not fail so far.
Decide ==
    /\ Goto("decide", IF result # Test_Fail THEN "print" ELSE "note")
    /\ res' = FALSE
    /\ UNCHANGED <<progressVars, ret, guiVars, benchVars, ledgerVars, historyVars>>

\* printer(): no serial number, or the label service refused twice, is a
\* failure; the note of a success is cut short when the session is over.
Printer ==
    /\ Goto("print", "note")
    /\ \E printed \in BOOLEAN :
          /\ labelled' = printed
          /\ result' = NotedResult(result, printed)
          /\ res' = NotedReturn(step, printed)
          /\ failed' = (failed \/ ~printed)
    /\ UNCHANGED <<step, issure, proMode, workMode, kind, ret, guiVars,
                   benchVars, left, logged, session, runOf, disturbed, dismissed>>

NoteResult ==
    /\ Goto("note", "await")
    /\ result' = NotedResult(result, res)
    /\ UNCHANGED <<step, issure, proMode, workMode, kind, ret, res, guiVars,
                   benchVars, ledgerVars, historyVars>>

\* Mutants of Await: nobody waits; a failed run waits for an answer as well.
AwaitNothing ==
    /\ Goto("await", "save")
    /\ UNCHANGED <<progressVars, ret, res, guiVars, benchVars, ledgerVars, historyVars>>

AwaitAlways ==
    /\ \/ Goto("await", IF workMode = 3 THEN "waitSure" ELSE "save")
       \/ issure /\ Goto("waitSure", "save")
    /\ UNCHANGED <<progressVars, ret, res, guiVars, benchVars, ledgerVars, historyVars>>

Await ==
    /\ \/ Goto("await", IF workMode = 3 /\ result # Test_Fail THEN "waitSure" ELSE "save")
       \/ issure /\ Goto("waitSure", "save")
    /\ UNCHANGED <<progressVars, ret, res, guiVars, benchVars, ledgerVars, historyVars>>

\* Mutant of EnterSave: the work mode is not raised.
EnterSaveSilently ==
    /\ Goto("save", "write")
    /\ UNCHANGED <<progressVars, ret, res, guiVars, benchVars, ledgerVars, historyVars>>

EnterSave ==
    /\ Goto("save", "write")
    /\ proMode' = 3
    /\ UNCHANGED <<step, result, issure, workMode, kind, ret, res, guiVars,
                   benchVars, ledgerVars, historyVars>>

\* Mutant of WriteLog: the order is not checked for products left.
WriteLogUnchecked ==
    /\ Goto("write", "finish")
    /\ logged' = IF result # Test_Fail THEN "pass" ELSE "fail"
    /\ left' = IF result # Test_Fail /\ proMode = 3 THEN left - 1 ELSE left
    /\ UNCHANGED <<progressVars, ret, res, guiVars, benchVars, labelled, historyVars>>

\* Power_Logs::writeLog: the verdict as it stands now enters the log, and a
\* product that passed leaves the order.
WriteLog ==
    /\ Goto("write", "finish")
    /\ logged' = IF result # Test_Fail THEN "pass" ELSE "fail"
    /\ left' = IF result # Test_Fail /\ left > 0 /\ proMode = 3 THEN left - 1 ELSE left
    /\ UNCHANGED <<progressVars, ret, res, guiVars, benchVars, labelled, historyVars>>

\* Mutant of Finish: the lamp gets the outcome of the checks, not of the label.
FinishByRet ==
    /\ Goto("finish", "overAgain")
    /\ workMode' = 2
    /\ signals' = Append(signals, IF ret THEN "finshOk" ELSE "finshBad")
    /\ step' = Test_Over
    /\ UNCHANGED <<result, issure, proMode, kind, ret, res, stopOpen, judgOpen,
                   shown, lamp, benchVars, ledgerVars, historyVars>>

Finish ==
    /\ Goto("finish", "overAgain")
    /\ workMode' = 2
    /\ signals' = Append(signals, IF res THEN "finshOk" ELSE "finshBad")
    /\ step' = Test_Over
    /\ UNCHANGED <<result, issure, proMode, kind, ret, res, stopOpen, judgOpen,
                   shown, lamp, benchVars, ledgerVars, historyVars>>

\* run() sets the step once more after workDown returned, then resets the bench.
OverAgain ==
    /\ Goto("overAgain", "relayOff")
    /\ step' = Test_Over
    /\ UNCHANGED <<result, issure, proMode, workMode, kind, ret, res, guiVars,
                   benchVars, ledgerVars, historyVars>>

\* Mutant of RelayOff: the run ends without resetting the bench.
RelayLeftOn ==
    /\ Goto("relayOff", "off")
    /\ UNCHANGED <<progressVars, ret, res, guiVars, benchVars, ledgerVars, historyVars>>

RelayOff ==
    /\ Goto("relayOff", "off")
    /\ SendCtrlGnd(FALSE)
    /\ UNCHANGED <<step, issure, proMode, workMode, kind, ret, res, guiVars,
                   ledgerVars, session, runOf, disturbed, dismissed>>

Worker ==
    \/ PowerCycle \/ Begin \/ InitDev \/ Route
    \/ \E phase \in Checks : Check(phase)
    \/ RelayOn \/ AskJudgement \/ EndOfChecks \/ Decide \/ Printer \/ NoteResult
    \/ Await \/ EnterSave \/ WriteLog \/ Finish \/ OverAgain \/ RelayOff

-----------------------------------------------------------------------------
(* The GUI thread.                                                         *)

NoDialog == ~stopOpen /\ ~judgOpen

\* A click is an event like the others: it waits for the signals before it.
Clickable == NoDialog /\ signals = <<>>

\* sDataPacket::init, as far as a session looks at the record.
InitRecord == step' = Test_Start /\ result' = Test_Info /\ issure' = FALSE

\* on_funcBtn_clicked with no session open.  A closed serial port refuses the
\* start; otherwise sDataPacket::init wipes the record, and QThread::start
\* does nothing when the worker of an ended session still runs.
StartFunc ==
    /\ Clickable /\ step = Test_End
    /\ workMode' = 2 /\ proMode' = 2
    /\ \/ UNCHANGED <<step, result, issure, workerVars, lamp, labelled, logged, historyVars>>
       \/ /\ session < MaxSessions
          /\ session' = session + 1
          /\ InitRecord
          /\ lamp' = "yellow"
          /\ dismissed' = FALSE
          /\ IF worker = "off"
             THEN /\ worker' = "reset" /\ runOf' = session + 1
                  /\ failed' = FALSE /\ disturbed' = FALSE
                  /\ labelled' = FALSE /\ logged' = "none"
             ELSE UNCHANGED <<worker, runOf, failed, disturbed, labelled, logged>>
          /\ UNCHANGED <<ret, res>>
    /\ UNCHANGED <<kind, signals, stopOpen, judgOpen, shown, benchVars, left>>

\* on_funcBtn_clicked in a session: the question, then what an answer does.
StopFunc ==
    /\ Clickable /\ step # Test_End
    /\ workMode' = 2 /\ proMode' = 2
    /\ stopOpen' = TRUE
    /\ disturbed' = TRUE
    /\ UNCHANGED <<step, result, issure, kind, workerVars, signals, judgOpen, shown,
                   lamp, benchVars, ledgerVars, session, runOf, failed, dismissed>>

\* Home_WorkWid::updateResult.
UpdateResult(r) ==
    /\ shown' = IF r = Test_Fail THEN "fail" ELSE "pass"
    /\ step' = Test_End

AnswerStop ==
    /\ stopOpen /\ ~judgOpen
    /\ stopOpen' = FALSE
    /\ \/ result' = Test_Fail /\ lamp' = "red" /\ UpdateResult(Test_Fail)
       \/ UNCHANGED <<step, result, lamp, shown>>
    /\ UNCHANGED <<issure, proMode, workMode, kind, workerVars, signals, judgOpen,
                   benchVars, ledgerVars, historyVars>>

\* timeoutDone, every 100 ms, in nested event loops too.
Timer ==
    /\ step = Test_Over
    /\ UpdateResult(result)
    /\ UNCHANGED <<result, issure, proMode, workMode, kind, workerVars, signals,
                   stopOpen, judgOpen, lamp, benchVars, ledgerVars, historyVars>>

\* The event loop takes the oldest signal: getDelaySlot notes its failure while
\* the logs are open, JudgSlots opens the dialog, StatusSlot sets the lamp.
Deliver ==
    /\ signals # <<>>
    /\ signals' = Tail(signals)
    /\ result' = NotedResult(result, Head(signals) # "addrFail" \/ ~LogsOpen(step))
    /\ judgOpen' = (judgOpen \/ Head(signals) = "judg")
    /\ lamp' = IF workMode # 2 THEN lamp
               ELSE CASE Head(signals) = "finshOk"  -> "green"
                      [] Head(signals) = "finshBad" -> "red"
                      [] OTHER -> lamp
    /\ UNCHANGED <<step, issure, proMode, workMode, kind, workerVars, stopOpen,
                   shown, benchVars, ledgerVars, historyVars>>

\* People_judg: the sure button, or the window closed any other way.
JudgeSure ==
    /\ judgOpen /\ judgOpen' = FALSE
    /\ issure' = TRUE
    /\ UNCHANGED <<step, result, proMode, workMode, kind, workerVars, signals,
                   stopOpen, shown, lamp, benchVars, ledgerVars, historyVars>>

JudgeDismiss ==
    /\ judgOpen /\ judgOpen' = FALSE
    /\ dismissed' = TRUE
    /\ UNCHANGED <<progressVars, workerVars, signals, stopOpen, shown, lamp,
                   benchVars, ledgerVars, session, runOf, failed, disturbed>>

\* on_comBox_currentIndexChanged, allowed in the middle of a run.
ChooseKind ==
    /\ Clickable
    /\ kind' \in Kinds
    /\ UNCHANGED <<step, result, issure, proMode, workMode, workerVars, guiVars,
                   benchVars, ledgerVars, historyVars>>

\* on_powerOffBtn_clicked, then powerOffSlot.
PowerOff ==
    /\ Clickable
    /\ SendCtrlGnd(FALSE)
    /\ disturbed' = TRUE
    /\ UNCHANGED <<step, issure, proMode, workMode, kind, workerVars, guiVars,
                   ledgerVars, session, runOf, dismissed>>

\* on_snprintBtn_clicked prints again, whatever the verdict was; a refusal is
\* noted as a failure although no session is open.
Reprint ==
    /\ Clickable /\ step = Test_End /\ workMode = 2
    /\ result' = Test_Fail
    /\ failed' = TRUE
    /\ UNCHANGED <<step, issure, proMode, workMode, kind, workerVars, guiVars,
                   benchVars, ledgerVars, session, runOf, disturbed, dismissed>>

Operator == StartFunc \/ StopFunc \/ ChooseKind \/ PowerOff \/ Reprint

Next == Worker \/ Operator \/ AnswerStop \/ Timer \/ Deliver \/ JudgeSure \/ JudgeDismiss

Spec == Init /\ [][Next]_vars

\* Threads run, timers fire, events are delivered, and the operator answers the
\* dialog in front of him; nobody has to press a button.
Fairness == /\ WF_vars(Worker) /\ WF_vars(Timer) /\ WF_vars(Deliver)
            /\ WF_vars(AnswerStop) /\ WF_vars(JudgeSure \/ JudgeDismiss)

FairSpec == Spec /\ Fairness

-----------------------------------------------------------------------------
(* What must hold.                                                         *)

\* Every variable keeps to its values.
TypeOK ==
    /\ step \in Steps /\ result \in Results /\ issure \in BOOLEAN
    /\ proMode \in {2, 3} /\ workMode \in {2, 3} /\ kind \in Kinds
    /\ worker \in Stages /\ ret \in BOOLEAN /\ res \in BOOLEAN
    /\ signals \in Seq(Signals) /\ stopOpen \in BOOLEAN /\ judgOpen \in BOOLEAN
    /\ shown \in Verdicts /\ lamp \in {"none", "yellow", "red", "green"}
    /\ powered \in BOOLEAN /\ reached \in BOOLEAN
    /\ left \in Nat /\ labelled \in BOOLEAN /\ logged \in Verdicts
    /\ session \in Nat /\ runOf \in Nat
    /\ failed \in BOOLEAN /\ disturbed \in BOOLEAN /\ dismissed \in BOOLEAN

\* A run goes on to print its label only when none of its checks, relay commands
\* and address signals failed, even one that failed after the operator had ended
\* the session and the logs dropped it.  (Unless a newer session took over.)
LabelOnlyIfClean ==
    [][worker # "print" /\ worker' = "print" /\ ~Overlap => ~failed]_vars

\* When an undisturbed session is over, what the operator sees agrees with what
\* was logged: a green lamp is a logged pass with a label on the product, and
\* the clock never shows success for a product that was logged as failed.
Settled == worker = "off" /\ step = Test_End /\ signals = <<>> /\ NoDialog /\ session > 0
VerdictsAgree ==
    Settled /\ ~Overlap /\ ~disturbed =>
        /\ lamp = "green" <=> logged = "pass"
        /\ logged = "pass" => labelled
        /\ shown = "pass" => logged = "pass"

\* No run logs a pass while the question it put to the operator (polarity,
\* indicator, buzzer) is unanswered, unless the stop button was touched.
PassNeedsAnswer ==
    [][logged # "pass" /\ logged' = "pass" /\ ~disturbed => ~Pending]_vars

\* A product that passes leaves the order, and no other does.
OrderCounts ==
    [][/\ left' # left => logged' = "pass" /\ left' = left - 1
       /\ logged # "pass" /\ logged' = "pass" /\ left > 0 /\ ~disturbed => left' < left]_vars

\* With no run going on, the bench is only left energised by a command that was
\* lost on its way to the relays.
BenchOff == worker = "off" /\ powered => ~reached

\* The verdict and the label of a run do what module Verdict promises.
V == INSTANCE Verdict WITH
        Good      <- TRUE,
        Bad       <- FALSE,
        verdict   <- result # Test_Fail,
        labelling <- worker = "print"
KeepsVerdict == V!Spec

(* Why LabelOnlyIfClean, PassNeedsAnswer and OrderCounts hold: what is true *)
(* in every state of a run.                                                *)

\* The run still decides about the session; its checks are not evaluated yet.
Busy    == Stages \ {"off", "overAgain", "relayOff"}
Testing == {"reset", "powerOn", "begin", "initDev", "route", "relayOn", "judg",
            "verdict", "decide"} \cup Checks

\* A run is never ahead of the sessions, and a stop question disturbs it.
RunsBehind == runOf <= session /\ (stopOpen => disturbed)

\* At most one copy of a signal waits.
Single(s) == \A i, j \in 1..Len(signals) : signals[i] = s /\ signals[j] = s => i = j

\* Nobody but the operator ends the session of a busy run ...
KeepsStep == worker \in Busy /\ ~disturbed => step = Test_Start

\* ... and then its verdict is a failure until another session takes over.
EndedFails ==
    worker \in Testing /\ ~Overlap =>
        /\ step # Test_Over
        /\ step = Test_End => result = Test_Fail

\* A failure of the run is in the verdict, or about to enter it: through the
\* checks' return value or through a signal that the branch checks wait for.
FailureKnown ==
    worker \in Testing /\ ~Overlap /\ failed =>
        \/ result = Test_Fail
        \/ worker \in {"relayOn", "judg", "verdict"} /\ ~ret
        \/ worker \in {"route"} \cup (Checks \ {"factory"}) /\ Queued("addrFail")

\* The question is put at most once in a run, ...
AskedOnce ==
    worker \in Busy /\ ~disturbed =>
        /\ judgOpen => ~Queued("judg")
        /\ Single("judg")
        /\ worker \in Testing \ {"verdict", "decide"} => ~Pending /\ ~issure

\* ... and a run that did not fail gets past the wait only with its answer.
WaitsForAnswer ==
    ~disturbed =>
        /\ worker \in {"verdict", "decide", "print", "note", "await", "waitSure"} /\ Pending =>
              workMode = 3 /\ ~issure
        /\ worker \in {"save", "write"} /\ Pending => result = Test_Fail
        /\ worker = "write" => proMode = 3

\* Together: between two steps of a run, whatever the other threads did, no
\* failure of it is lost, and no question of it forgotten or put twice.
RunInv == /\ RunsBehind /\ KeepsStep /\ EndedFails
          /\ FailureKnown /\ AskedOnce /\ WaitsForAnswer

(* Why VerdictsAgree holds: what the end of a run leaves, stage by stage.   *)

\* A failed address signal is the only one that changes the verdict.
AddrMeansFailed == Queued("addrFail") => failed

\* Local res is the outcome of the run: the verdict, the label and the log ...
LabelOutcome ==
    /\ worker = "print" => ~failed /\ result # Test_Fail
    /\ worker \in {"note", "await", "waitSure", "save", "write", "finish"} /\ res =>
          ~failed /\ result # Test_Fail
    /\ worker \in {"note", "await", "waitSure", "save", "write", "finish", "overAgain",
                  "relayOff", "off"} /\ res => labelled
    /\ worker \in {"await", "waitSure", "save", "write", "finish", "overAgain",
                  "relayOff", "off"} /\ ~res => result = Test_Fail
    /\ worker \in {"finish", "overAgain", "relayOff", "off"} =>
          logged = IF res THEN "pass" ELSE "fail"

\* ... agree with it, and so do the lamp and the clock once the run is done.
LampOutcome ==
    /\ worker \in Busy => lamp = "yellow" /\ ~Queued("finshOk") /\ ~Queued("finshBad")
    /\ worker \notin Busy =>
          /\ step # Test_Start /\ workMode = 2
          /\ Queued("finshOk") \/ lamp = "green" => res
          /\ Queued("finshBad") \/ lamp = "red" => ~res
          /\ lamp = "yellow" => Queued("finshOk") \/ Queued("finshBad")
          /\ lamp # "none"
          /\ step = Test_End /\ shown = "pass" => res

\* Together: at every stage of an undisturbed run the outcome so far is the same
\* in the worker's local, the shared verdict, the label, the log and the lamp.
OutcomeInv == /\ AddrMeansFailed
              /\ ~disturbed /\ ~Overlap /\ session > 0 => LabelOutcome /\ LampOutcome

\* A session comes to its end, as long as no other one takes over its run and
\* the operator answers the question instead of closing it.
SessionEnds ==
    (step # Test_End /\ ~Overlap) ~> (step = Test_End \/ Overlap \/ dismissed)

(* What the program says and does not keep.                                *)

\* "因测试未通过，标签未打印" (the test failed, so no label is printed): no run prints
\* the label of a product that failed one of its checks.
FailedGetsNoLabel == [][worker # "print" /\ worker' = "print" => ~failed]_vars

\* updateResult shows success ("成功") for a session: its product was tested.
SuccessMeansTested == shown = "pass" /\ step = Test_End => session = runOf

\* "确定需要提前结束？": ending a session early ends its run.
EarlyEndEnds == (worker # "off" /\ step = Test_End) ~> (worker = "off")
=============================================================================
