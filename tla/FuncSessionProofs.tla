-------------------------- MODULE FuncSessionProofs --------------------------
(***************************************************************************)
(* Theorems about FuncSession, for every set of device kinds, number of    *)
(* sessions and size of the order.                                         *)
(***************************************************************************)
EXTENDS FuncSession, TLAPS

-----------------------------------------------------------------------------
(* The values of the variables.                                            *)

\* A relay command leaves the bench, the verdict and its history well typed.
LEMMA CtrlTyped ==
    ASSUME TypeOK, NEW on \in BOOLEAN, SendCtrlGnd(on)
    PROVE  /\ powered' \in BOOLEAN /\ reached' \in BOOLEAN
           /\ result' \in Results /\ failed' \in BOOLEAN
<1>1. PICK fate \in Fates :
         /\ reached' = (fate # "lost")
         /\ powered' \in IF fate = "lost" THEN {powered, on} ELSE {on}
         /\ result' = NotedResult(result, fate = "acked")
         /\ failed' = (failed \/ fate # "acked")
      BY DEF SendCtrlGnd
<1>2. powered' \in BOOLEAN
      BY <1>1 DEF TypeOK
<1>3. result' \in Results
      BY <1>1 DEF TypeOK, NotedResult, Results, Test_Fail, Test_Info
<1> QED BY <1>1, <1>2, <1>3

\* TypeOK in three parts, small enough for the provers.
RecordTyped == /\ step \in Steps /\ result \in Results
               /\ proMode \in {2, 3} /\ workMode \in {2, 3} /\ kind \in Kinds
               /\ worker \in Stages
LedgerTyped == /\ signals \in Seq(Signals) /\ left \in Nat
               /\ session \in Nat /\ runOf \in Nat
               /\ logged \in Verdicts /\ shown \in Verdicts
               /\ lamp \in {"none", "yellow", "red", "green"}
FlagsTyped  == /\ issure \in BOOLEAN /\ ret \in BOOLEAN /\ res \in BOOLEAN
               /\ stopOpen \in BOOLEAN /\ judgOpen \in BOOLEAN
               /\ powered \in BOOLEAN /\ reached \in BOOLEAN /\ labelled \in BOOLEAN
               /\ failed \in BOOLEAN /\ disturbed \in BOOLEAN /\ dismissed \in BOOLEAN

\* The three parts are TypeOK.
LEMMA TypeParts == TypeOK <=> RecordTyped /\ LedgerTyped /\ FlagsTyped
BY DEF TypeOK, RecordTyped, LedgerTyped, FlagsTyped

\* TypeOK is inductive: no action takes a variable out of its values.
LEMMA TypeStep == TypeOK /\ [Next]_vars => TypeOK'
<1> SUFFICES ASSUME TypeOK, [Next]_vars PROVE TypeOK'
    OBVIOUS
<1> USE DEF progressVars, workerVars, guiVars, benchVars, ledgerVars, historyVars,
            Goto, Stages, Checks, Signals, Verdicts, Steps, Results, Test_Start,
            Test_Over, Test_End, Test_Info, Test_Fail, NotedResult
<1>0. /\ RecordTyped /\ LedgerTyped /\ FlagsTyped
      /\ RecordTyped' /\ LedgerTyped' /\ FlagsTyped' => TypeOK'
      BY TypeParts DEF TypeOK, RecordTyped, LedgerTyped, FlagsTyped
<1>1. CASE PowerCycle
  <2>1. SendCtrlGnd(TRUE) \/ SendCtrlGnd(FALSE)
        BY <1>1 DEF PowerCycle
  <2>2. powered' \in BOOLEAN /\ reached' \in BOOLEAN /\ result' \in Results /\ failed' \in BOOLEAN
        BY <2>1, CtrlTyped
  <2>3. RecordTyped'
        BY <1>0, <1>1, <2>2 DEF PowerCycle, RecordTyped
  <2>4. LedgerTyped'
        BY <1>0, <1>1, <2>2 DEF PowerCycle, LedgerTyped
  <2>5. FlagsTyped'
        BY <1>0, <1>1, <2>2 DEF PowerCycle, FlagsTyped
  <2> QED BY <1>0, <2>3, <2>4, <2>5
<1>2. CASE Begin
      BY <1>2 DEF Begin, TypeOK
<1>3. CASE InitDev
  <2>1. RecordTyped'
        BY <1>0, <1>3 DEF InitDev, RecordTyped
  <2>2. LedgerTyped'
        BY <1>0, <1>3 DEF InitDev, LedgerTyped
  <2>3. FlagsTyped'
        BY <1>0, <1>3 DEF InitDev, FlagsTyped
  <2> QED BY <1>0, <2>1, <2>2, <2>3
<1>4. CASE Route
  <2>1. RecordTyped'
        BY <1>0, <1>4, KindsAssumption DEF Route, RecordTyped
  <2>2. LedgerTyped'
        BY <1>0, <1>4 DEF Route, LedgerTyped
  <2>3. FlagsTyped'
        BY <1>0, <1>4 DEF Route, FlagsTyped
  <2> QED BY <1>0, <2>1, <2>2, <2>3
<1>5. CASE \E phase \in Checks : Check(phase)
      BY <1>5 DEF Check, TypeOK, Passed, Stopped
<1>6. CASE RelayOn
  <2>1. SendCtrlGnd(TRUE) \/ SendCtrlGnd(FALSE)
        BY <1>6 DEF RelayOn
  <2>2. powered' \in BOOLEAN /\ reached' \in BOOLEAN /\ result' \in Results /\ failed' \in BOOLEAN
        BY <2>1, CtrlTyped
  <2>3. RecordTyped'
        BY <1>0, <1>6, <2>2 DEF RelayOn, RecordTyped
  <2>4. LedgerTyped'
        BY <1>0, <1>6, <2>2 DEF RelayOn, LedgerTyped
  <2>5. FlagsTyped'
        BY <1>0, <1>6, <2>2 DEF RelayOn, FlagsTyped
  <2> QED BY <1>0, <2>3, <2>4, <2>5
<1>7. CASE AskJudgement
      BY <1>7 DEF AskJudgement, TypeOK
<1>8. CASE EndOfChecks
      BY <1>8 DEF EndOfChecks, TypeOK
<1>9. CASE Decide
  <2>1. RecordTyped'
        BY <1>0, <1>9 DEF Decide, RecordTyped
  <2>2. LedgerTyped'
        BY <1>0, <1>9 DEF Decide, LedgerTyped
  <2>3. FlagsTyped'
        BY <1>0, <1>9 DEF Decide, FlagsTyped
  <2> QED BY <1>0, <2>1, <2>2, <2>3
<1>10. CASE Printer
      BY <1>10 DEF Printer, NotedReturn, TypeOK
<1>11. CASE NoteResult
      BY <1>11 DEF NoteResult, TypeOK
<1>12. CASE Await
      BY <1>12 DEF Await, TypeOK
<1>13. CASE EnterSave
      BY <1>13 DEF EnterSave, TypeOK
<1>14. CASE WriteLog
      BY <1>14 DEF WriteLog, TypeOK
<1>15. CASE Finish
      BY <1>15 DEF Finish, TypeOK
<1>16. CASE OverAgain
      BY <1>16 DEF OverAgain, TypeOK
<1>17. CASE RelayOff
  <2>1. SendCtrlGnd(TRUE) \/ SendCtrlGnd(FALSE)
        BY <1>17 DEF RelayOff
  <2>2. powered' \in BOOLEAN /\ reached' \in BOOLEAN /\ result' \in Results /\ failed' \in BOOLEAN
        BY <2>1, CtrlTyped
  <2>3. RecordTyped'
        BY <1>0, <1>17, <2>2 DEF RelayOff, RecordTyped
  <2>4. LedgerTyped'
        BY <1>0, <1>17, <2>2 DEF RelayOff, LedgerTyped
  <2>5. FlagsTyped'
        BY <1>0, <1>17, <2>2 DEF RelayOff, FlagsTyped
  <2> QED BY <1>0, <2>3, <2>4, <2>5
<1>18. CASE StartFunc
  <2>1. RecordTyped'
        BY <1>0, <1>18 DEF StartFunc, InitRecord, RecordTyped
  <2>2. LedgerTyped'
        BY <1>0, <1>18 DEF StartFunc, InitRecord, LedgerTyped
  <2>3. FlagsTyped'
    <3>1. CASE UNCHANGED <<step, result, issure, workerVars, lamp, labelled, logged, historyVars>>
          BY <1>0, <1>18, <3>1 DEF StartFunc, InitRecord, FlagsTyped
    <3>2. CASE session' = session + 1 /\ InitRecord
          BY <1>0, <1>18, <3>2 DEF StartFunc, InitRecord, FlagsTyped
    <3> QED BY <1>18, <3>1, <3>2 DEF StartFunc
  <2> QED BY <1>0, <2>1, <2>2, <2>3
<1>19. CASE StopFunc
  <2>1. RecordTyped'
        BY <1>0, <1>19 DEF StopFunc, RecordTyped
  <2>2. LedgerTyped'
        BY <1>0, <1>19 DEF StopFunc, LedgerTyped
  <2>3. FlagsTyped'
        BY <1>0, <1>19 DEF StopFunc, FlagsTyped
  <2> QED BY <1>0, <2>1, <2>2, <2>3
<1>20. CASE ChooseKind
      BY <1>20 DEF ChooseKind, TypeOK
<1>21. CASE PowerOff
  <2>1. SendCtrlGnd(TRUE) \/ SendCtrlGnd(FALSE)
        BY <1>21 DEF PowerOff
  <2>2. powered' \in BOOLEAN /\ reached' \in BOOLEAN /\ result' \in Results /\ failed' \in BOOLEAN
        BY <2>1, CtrlTyped
  <2>3. RecordTyped'
        BY <1>0, <1>21, <2>2 DEF PowerOff, RecordTyped
  <2>4. LedgerTyped'
        BY <1>0, <1>21, <2>2 DEF PowerOff, LedgerTyped
  <2>5. FlagsTyped'
        BY <1>0, <1>21, <2>2 DEF PowerOff, FlagsTyped
  <2> QED BY <1>0, <2>3, <2>4, <2>5
<1>22. CASE Reprint
      BY <1>22 DEF Reprint, TypeOK
<1>23. CASE AnswerStop
  <2>1. RecordTyped'
        BY <1>0, <1>23 DEF AnswerStop, UpdateResult, RecordTyped
  <2>2. LedgerTyped'
        BY <1>0, <1>23 DEF AnswerStop, UpdateResult, LedgerTyped
  <2>3. FlagsTyped'
        BY <1>0, <1>23 DEF AnswerStop, UpdateResult, FlagsTyped
  <2> QED BY <1>0, <2>1, <2>2, <2>3
<1>24. CASE Timer
      BY <1>24 DEF Timer, UpdateResult, TypeOK
<1>25. CASE Deliver
  <2>1. RecordTyped'
        BY <1>0, <1>25 DEF Deliver, RecordTyped
  <2>2. LedgerTyped'
        BY <1>0, <1>25 DEF Deliver, LedgerTyped
  <2>3. FlagsTyped'
        BY <1>0, <1>25 DEF Deliver, FlagsTyped
  <2> QED BY <1>0, <2>1, <2>2, <2>3
<1>26. CASE JudgeSure
  <2>1. RecordTyped'
        BY <1>0, <1>26 DEF JudgeSure, RecordTyped
  <2>2. LedgerTyped'
        BY <1>0, <1>26 DEF JudgeSure, LedgerTyped
  <2>3. FlagsTyped'
        BY <1>0, <1>26 DEF JudgeSure, FlagsTyped
  <2> QED BY <1>0, <2>1, <2>2, <2>3
<1>27. CASE JudgeDismiss
  <2>1. RecordTyped'
        BY <1>0, <1>27 DEF JudgeDismiss, RecordTyped
  <2>2. LedgerTyped'
        BY <1>0, <1>27 DEF JudgeDismiss, LedgerTyped
  <2>3. FlagsTyped'
        BY <1>0, <1>27 DEF JudgeDismiss, FlagsTyped
  <2> QED BY <1>0, <2>1, <2>2, <2>3
<1>28. CASE UNCHANGED vars
      BY <1>28 DEF vars, TypeOK
<1> QED BY <1>1, <1>2, <1>3, <1>4, <1>5, <1>6, <1>7, <1>8, <1>9, <1>10, <1>11,
           <1>12, <1>13, <1>14, <1>15, <1>16, <1>17, <1>18, <1>19, <1>20, <1>21,
           <1>22, <1>23, <1>24, <1>25, <1>26, <1>27, <1>28 DEF Next, Worker,
           Operator

\* The session record, the worker, the screen, the bench and the order keep to
\* their values.
THEOREM TypeCorrect == Spec => []TypeOK
<1>1. Init => TypeOK
  <2> SUFFICES ASSUME Init PROVE TypeOK
      OBVIOUS
  <2> USE DEF Init, Stages, Verdicts, Steps, Results, Test_End, Test_Info
  <2>1. RecordTyped
        BY DEF RecordTyped
  <2>2. LedgerTyped
        BY BoundsAssumption DEF LedgerTyped
  <2>3. FlagsTyped
        BY DEF FlagsTyped
  <2> QED BY <2>1, <2>2, <2>3, TypeParts
<1> QED BY <1>1, TypeStep, PTL DEF Spec

-----------------------------------------------------------------------------
(* The event queue.                                                        *)

\* Posting a signal adds that one to the event queue.
LEMMA QueuedAppend ==
    ASSUME signals \in Seq(Signals), NEW x \in Signals, NEW s \in Signals,
           signals' = Append(signals, x)
    PROVE  Queued(s)' <=> Queued(s) \/ s = x
<1>1. Len(signals') = Len(signals) + 1
      OBVIOUS
<1>2. \A i \in 1..Len(signals) : signals'[i] = signals[i]
      OBVIOUS
<1>3. signals'[Len(signals')] = x
      OBVIOUS
<1>4. Len(signals) \in Nat
      OBVIOUS
<1> QED BY <1>1, <1>2, <1>3, <1>4 DEF Queued

\* Taking the oldest signal adds none, and removes no other.
LEMMA QueuedTail ==
    ASSUME signals \in Seq(Signals), signals # <<>>, signals' = Tail(signals), NEW s \in Signals
    PROVE  /\ Queued(s)' => Queued(s)
           /\ Queued(s) => Queued(s)' \/ s = Head(signals)
<1>1. Len(signals) \in Nat /\ Len(signals) > 0 /\ Len(signals') = Len(signals) - 1
      OBVIOUS
<1>2. \A i \in 1..Len(signals') : signals'[i] = signals[i+1]
      OBVIOUS
<1>3. signals[1] = Head(signals)
      OBVIOUS
<1>4. Queued(s)' => Queued(s)
      BY <1>1, <1>2, <1>3 DEF Queued
<1>5. ASSUME Queued(s), s # Head(signals) PROVE Queued(s)'
  <2>1. PICK i \in 1..Len(signals) : signals[i] = s
      BY <1>5 DEF Queued
  <2>2. i - 1 \in 1..Len(signals') /\ signals'[i - 1] = s
      BY <1>1, <1>2, <1>3, <1>5, <2>1
  <2> QED BY <2>2 DEF Queued
<1> QED BY <1>4, <1>5

\* A signal stays single when another is posted, or when it is the first.
LEMMA SingleAppend ==
    ASSUME signals \in Seq(Signals), NEW x \in Signals, signals' = Append(signals, x),
           NEW s \in Signals, Single(s), s = x => ~Queued(s)
    PROVE  Single(s)'
<1>1. Len(signals') = Len(signals) + 1 /\ Len(signals) \in Nat
      OBVIOUS
<1>2. /\ \A i \in 1..Len(signals) : signals'[i] = signals[i]
      /\ signals'[Len(signals')] = x
      OBVIOUS
<1> QED BY <1>1, <1>2 DEF Single, Queued

\* A single signal stays single, and is gone once it was taken.
LEMMA SingleTail ==
    ASSUME signals \in Seq(Signals), signals # <<>>, signals' = Tail(signals),
           NEW s \in Signals, Single(s)
    PROVE  Single(s)' /\ (Head(signals) = s => ~Queued(s)')
<1>1. Len(signals) \in Nat /\ Len(signals) > 0 /\ Len(signals') = Len(signals) - 1
      OBVIOUS
<1>2. /\ \A i \in 1..Len(signals') : signals'[i] = signals[i + 1]
      /\ signals[1] = Head(signals)
      OBVIOUS
<1>3. Single(s)'
  <2> SUFFICES ASSUME NEW i \in 1..Len(signals'), NEW j \in 1..Len(signals'),
                      signals'[i] = s, signals'[j] = s
               PROVE  i = j
      BY DEF Single
  <2>1. i + 1 \in 1..Len(signals) /\ j + 1 \in 1..Len(signals)
        BY <1>1
  <2> QED BY <1>2, <2>1 DEF Single
<1>4. ASSUME Head(signals) = s, Queued(s)' PROVE FALSE
  <2>1. PICK i \in 1..Len(signals') : signals'[i] = s
        BY <1>4 DEF Queued
  <2>2. i + 1 \in 1..Len(signals) /\ 1 \in 1..Len(signals) /\ i + 1 # 1
        BY <1>1
  <2> QED BY <1>2, <1>4, <2>1, <2>2 DEF Single
<1> QED BY <1>3, <1>4

-----------------------------------------------------------------------------
(* The invariant of a run.                                                 *)

\* RunInv is inductive.  Only a worker that posts a signal and the event loop
\* that takes one need a look at the queue.
LEMMA RunStep == TypeOK /\ TypeOK' /\ RunInv /\ [Next]_vars => RunInv'
<1> SUFFICES ASSUME TypeOK, TypeOK', RunInv, [Next]_vars PROVE RunInv'
    OBVIOUS
<1> USE DEF TypeOK, progressVars, workerVars, guiVars, benchVars, ledgerVars, historyVars,
            Goto, Stages, Checks, Signals, Verdicts, Steps, Results, Test_Start,
            Test_Over, Test_End, Test_Info, Test_Fail, NotedResult, Busy, Testing,
            Overlap, LogsOpen, Pending, RunInv, RunsBehind, KeepsStep, EndedFails,
            FailureKnown, AskedOnce, WaitsForAnswer
<1>1. CASE PowerCycle
      BY <1>1 DEF PowerCycle, SendCtrlGnd, Queued, Single
<1>2. CASE Begin
      BY <1>2 DEF Begin, Queued, Single
<1>3. CASE InitDev
  <2>1. CASE UNCHANGED <<signals, failed>>
        BY <1>3, <2>1 DEF InitDev, Queued, Single
  <2>2. CASE signals' = Append(signals, "addrFail")
    <3>1. Queued("addrFail")' /\ (Queued("judg")' => Queued("judg"))
          BY <2>2, QueuedAppend
    <3>2. Single("judg") => Single("judg")'
          BY <2>2, SingleAppend
    <3> QED BY <1>3, <2>2, <3>1, <3>2 DEF InitDev
  <2> QED BY <1>3, <2>1, <2>2 DEF InitDev
<1>4. CASE Route
      BY <1>4, KindsAssumption DEF Route, Queued, Single
<1>5. CASE \E phase \in Checks : Check(phase)
      BY <1>5 DEF Check, Passed, Stopped, Switching, Queued, Single
<1>6. CASE RelayOn
      BY <1>6 DEF RelayOn, SendCtrlGnd, Queued, Single
<1>7. CASE AskJudgement
  <2>1. CASE ~ret /\ UNCHANGED signals
        BY <1>7, <2>1 DEF AskJudgement, Queued, Single
  <2>2. CASE ret /\ signals' = Append(signals, "judg")
    <3>1. Queued("addrFail")' <=> Queued("addrFail")
          BY <2>2, QueuedAppend
    <3>2. Single("judg") /\ ~Queued("judg") => Single("judg")'
          BY <2>2, SingleAppend
    <3> QED BY <1>7, <2>2, <3>1, <3>2 DEF AskJudgement
  <2> QED BY <1>7, <2>1, <2>2 DEF AskJudgement
<1>8. CASE EndOfChecks
      BY <1>8 DEF EndOfChecks, Queued, Single
<1>9. CASE Decide
      BY <1>9 DEF Decide, Queued, Single
<1>10. CASE Printer
      BY <1>10 DEF Printer, NotedReturn, Queued, Single
<1>11. CASE NoteResult
      BY <1>11 DEF NoteResult, Queued, Single
<1>12. CASE Await
      BY <1>12 DEF Await, Queued, Single
<1>13. CASE EnterSave
      BY <1>13 DEF EnterSave, Queued, Single
<1>14. CASE WriteLog
      BY <1>14 DEF WriteLog, Queued, Single
<1>15. CASE Finish
      BY <1>15 DEF Finish, Queued, Single
<1>16. CASE OverAgain
      BY <1>16 DEF OverAgain, Queued, Single
<1>17. CASE RelayOff
      BY <1>17 DEF RelayOff, SendCtrlGnd, Queued, Single
<1>18. CASE StartFunc
      BY <1>18 DEF StartFunc, InitRecord, Clickable, NoDialog, Queued, Single
<1>19. CASE StopFunc
      BY <1>19 DEF StopFunc, Clickable, NoDialog, Queued, Single
<1>20. CASE ChooseKind
      BY <1>20 DEF ChooseKind, Clickable, NoDialog, Queued, Single
<1>21. CASE PowerOff
      BY <1>21 DEF PowerOff, SendCtrlGnd, Clickable, NoDialog, Queued, Single
<1>22. CASE Reprint
      BY <1>22 DEF Reprint, Clickable, NoDialog, Queued, Single
<1>23. CASE AnswerStop
      BY <1>23 DEF AnswerStop, UpdateResult, Queued, Single
<1>24. CASE Timer
      BY <1>24 DEF Timer, UpdateResult, Queued, Single
<1>25. CASE Deliver
  <2>1. /\ Queued("addrFail") => Queued("addrFail")' \/ Head(signals) = "addrFail"
        /\ Queued("judg")' => Queued("judg")
        /\ Head(signals) \in Signals
        BY <1>25, QueuedTail DEF Deliver
  <2>2. Head(signals) = "judg" => Queued("judg")
        BY <1>25 DEF Deliver, Queued
  <2>3. Single("judg") => Single("judg")' /\ (Head(signals) = "judg" => ~Queued("judg")')
        BY <1>25, SingleTail DEF Deliver
  <2>4. RunsBehind' /\ KeepsStep' /\ EndedFails' /\ FailureKnown'
        BY <1>25, <2>1 DEF Deliver
  <2>5. AskedOnce'
        BY <1>25, <2>1, <2>2, <2>3 DEF Deliver
  <2>6. WaitsForAnswer'
        BY <1>25, <2>1, <2>2, <2>3 DEF Deliver
  <2> QED BY <2>4, <2>5, <2>6
<1>26. CASE JudgeSure
      BY <1>26 DEF JudgeSure, Queued, Single
<1>27. CASE JudgeDismiss
      BY <1>27 DEF JudgeDismiss, Queued, Single
<1>28. CASE UNCHANGED vars
      BY <1>28 DEF vars, Queued, Single
<1> QED BY <1>1, <1>2, <1>3, <1>4, <1>5, <1>6, <1>7, <1>8, <1>9, <1>10, <1>11,
           <1>12, <1>13, <1>14, <1>15, <1>16, <1>17, <1>18, <1>19, <1>20, <1>21,
           <1>22, <1>23, <1>24, <1>25, <1>26, <1>27, <1>28 DEF Next, Worker,
           Operator

\* In every run the session is only ended by the operator, failures are not lost
\* between the threads, and the question by eye is put once and waited for.
THEOREM RunCorrect == Spec => [](TypeOK /\ RunInv)
<1>1. Init => RunInv
      BY DEF Init, RunInv, RunsBehind, KeepsStep, EndedFails, FailureKnown, AskedOnce,
             WaitsForAnswer, Busy, Testing, Checks, Stages
<1> QED BY <1>1, TypeCorrect, RunStep, PTL DEF Spec

-----------------------------------------------------------------------------
(* What follows from it.                                                   *)

\* No run goes on to its label after a failure, unless a newer session took over.
THEOREM LabelCorrect == Spec => LabelOnlyIfClean
<1>1. TypeOK /\ RunInv /\ [Next]_vars =>
         [worker # "print" /\ worker' = "print" /\ ~Overlap => ~failed]_vars
  <2> SUFFICES ASSUME TypeOK, RunInv, [Next]_vars, worker # "print", worker' = "print",
                      ~Overlap, failed
               PROVE  FALSE
      BY DEF TypeOK
  <2>1. Decide
    <3>1. ~Route
          BY KindsAssumption DEF TypeOK, Route, Goto
    <3>2. ~(\E phase \in Checks : Check(phase))
          BY DEF Check, Goto, Checks, Passed, Stopped
    <3> QED BY <3>1, <3>2 DEF Next, Worker, Operator, vars, PowerCycle, Begin, InitDev,
               RelayOn, AskJudgement, EndOfChecks, Printer, NoteResult, Await, EnterSave,
               WriteLog, Finish, OverAgain, RelayOff, Goto, StartFunc, StopFunc, ChooseKind,
               PowerOff, Reprint, AnswerStop, Timer, Deliver, JudgeSure, JudgeDismiss,
               workerVars
  <2>2. worker = "decide" /\ result # Test_Fail
        BY <2>1 DEF Decide, Goto
  <2> QED BY <2>2 DEF RunInv, FailureKnown, Testing, Checks
<1> QED BY <1>1, RunCorrect, PTL DEF Spec, LabelOnlyIfClean

\* Only WriteLog touches the log with a pass or the order.
LEMMA OnlyWriteLog ==
    ASSUME [Next]_vars, left' # left \/ (logged # "pass" /\ logged' = "pass")
    PROVE  WriteLog
BY DEF Next, Worker, Operator, vars, PowerCycle, Begin, InitDev, Route, Check, RelayOn,
       AskJudgement, EndOfChecks, Decide, Printer, NoteResult, Await, EnterSave, Finish,
       OverAgain, RelayOff, StartFunc, StopFunc, ChooseKind, PowerOff, Reprint,
       AnswerStop, Timer, Deliver, JudgeSure, JudgeDismiss, ledgerVars

\* A pass is only logged once the question by eye is answered.
THEOREM AnswerCorrect == Spec => PassNeedsAnswer
<1>1. TypeOK /\ RunInv /\ [Next]_vars =>
         [logged # "pass" /\ logged' = "pass" /\ ~disturbed => ~Pending]_vars
  <2> SUFFICES ASSUME TypeOK, RunInv, [Next]_vars, logged # "pass", logged' = "pass",
                      ~disturbed
               PROVE  ~Pending
      BY DEF TypeOK
  <2>1. worker = "write" /\ result # Test_Fail
        BY OnlyWriteLog DEF WriteLog, Goto
  <2> QED BY <2>1 DEF RunInv, WaitsForAnswer
<1> QED BY <1>1, RunCorrect, PTL DEF Spec, PassNeedsAnswer

\* The order counts the products that passed, one by one.
THEOREM OrderCorrect == Spec => OrderCounts
<1>1. TypeOK /\ RunInv /\ [Next]_vars =>
         [/\ left' # left => logged' = "pass" /\ left' = left - 1
          /\ logged # "pass" /\ logged' = "pass" /\ left > 0 /\ ~disturbed => left' < left]_vars
  <2> SUFFICES ASSUME TypeOK, RunInv, [Next]_vars
               PROVE  /\ left' # left => logged' = "pass" /\ left' = left - 1
                      /\ logged # "pass" /\ logged' = "pass" /\ left > 0 /\ ~disturbed
                            => left' < left
      OBVIOUS
  <2>1. ASSUME left' # left PROVE logged' = "pass" /\ left' = left - 1
        BY <2>1, OnlyWriteLog DEF WriteLog
  <2>2. ASSUME logged # "pass", logged' = "pass", left > 0, ~disturbed PROVE left' < left
    <3>1. worker = "write" /\ result # Test_Fail /\ WriteLog
          BY <2>2, OnlyWriteLog DEF WriteLog, Goto
    <3>2. proMode = 3
          BY <2>2, <3>1 DEF RunInv, WaitsForAnswer
    <3>3. left' = left - 1
          BY <2>2, <3>1, <3>2 DEF WriteLog
    <3> QED BY <3>3 DEF TypeOK
  <2> QED BY <2>1, <2>2
<1> QED BY <1>1, RunCorrect, PTL DEF Spec, OrderCounts

\* The bench is never left on by a command that got through to the relays.
THEOREM BenchCorrect == Spec => []BenchOff
<1>1. Init => BenchOff
      BY DEF Init, BenchOff
<1>2. TypeOK /\ BenchOff /\ [Next]_vars => BenchOff'
  <2> SUFFICES ASSUME TypeOK, BenchOff, [Next]_vars PROVE BenchOff'
      OBVIOUS
  <2>1. CASE PowerOff \/ RelayOff
        BY <2>1 DEF PowerOff, RelayOff, Goto, SendCtrlGnd, BenchOff
  <2>2. CASE PowerCycle \/ RelayOn
        BY <2>2 DEF PowerCycle, RelayOn, Goto, BenchOff
  <2>3. CASE \E phase \in Checks : Check(phase)
        BY <2>3 DEF Check, Goto, Checks, Passed, Stopped, BenchOff
  <2>4. CASE Route
        BY <2>4, KindsAssumption DEF TypeOK, Route, Goto, BenchOff, benchVars
  <2>5. CASE StartFunc
        BY <2>5 DEF StartFunc, BenchOff, benchVars, workerVars
  <2>6. CASE UNCHANGED benchVars /\ (worker = "off" \/ worker' # "off")
        BY <2>6 DEF BenchOff, benchVars
  <2> QED BY <2>1, <2>2, <2>3, <2>4, <2>5, <2>6 DEF Next, Worker, Operator, vars, Begin,
             InitDev, AskJudgement, EndOfChecks, Decide, Printer, NoteResult, Await,
             EnterSave, WriteLog, Finish, OverAgain, Goto, StopFunc, ChooseKind, Reprint,
             AnswerStop, Timer, Deliver, JudgeSure, JudgeDismiss, workerVars
<1> QED BY <1>1, <1>2, TypeCorrect, PTL DEF Spec

-----------------------------------------------------------------------------
(* The outcome of a run, and what the operator sees of it.                 *)

\* OutcomeInv is inductive relative to RunInv.
LEMMA OutcomeStep ==
    TypeOK /\ TypeOK' /\ RunInv /\ RunInv' /\ OutcomeInv /\ [Next]_vars => OutcomeInv'
<1> SUFFICES ASSUME TypeOK, TypeOK', RunInv, RunInv', OutcomeInv, [Next]_vars
             PROVE  OutcomeInv'
    OBVIOUS
<1> USE DEF TypeOK, progressVars, workerVars, guiVars, benchVars, ledgerVars, historyVars,
            Goto, Stages, Checks, Signals, Verdicts, Steps, Results, Test_Start,
            Test_Over, Test_End, Test_Info, Test_Fail, NotedResult, Busy, Testing,
            Overlap, LogsOpen, RunInv, RunsBehind, KeepsStep, EndedFails, FailureKnown,
            OutcomeInv, AddrMeansFailed, LabelOutcome, LampOutcome
<1>1. CASE PowerCycle
      BY <1>1 DEF PowerCycle, SendCtrlGnd, Queued
<1>2. CASE Begin
      BY <1>2 DEF Begin, Queued
<1>3. CASE InitDev
  <2>1. CASE UNCHANGED <<signals, failed>>
        BY <1>3, <2>1 DEF InitDev, Queued
  <2>2. CASE signals' = Append(signals, "addrFail") /\ failed' = TRUE
    <3>1. /\ Queued("finshOk")' <=> Queued("finshOk")
          /\ Queued("finshBad")' <=> Queued("finshBad")
          BY <2>2, QueuedAppend
    <3> QED BY <1>3, <2>2, <3>1 DEF InitDev
  <2> QED BY <1>3, <2>1, <2>2 DEF InitDev
<1>4. CASE Route
      BY <1>4, KindsAssumption DEF Route, Queued
<1>5. CASE \E phase \in Checks : Check(phase)
      BY <1>5 DEF Check, Passed, Stopped, Switching, Queued
<1>6. CASE RelayOn
      BY <1>6 DEF RelayOn, SendCtrlGnd, Queued
<1>7. CASE AskJudgement
  <2>1. CASE UNCHANGED signals
        BY <1>7, <2>1 DEF AskJudgement, Queued
  <2>2. CASE signals' = Append(signals, "judg")
    <3>1. /\ Queued("addrFail")' <=> Queued("addrFail")
          /\ Queued("finshOk")' <=> Queued("finshOk")
          /\ Queued("finshBad")' <=> Queued("finshBad")
          BY <2>2, QueuedAppend
    <3> QED BY <1>7, <2>2, <3>1 DEF AskJudgement
  <2> QED BY <1>7, <2>1, <2>2 DEF AskJudgement
<1>8. CASE EndOfChecks
      BY <1>8 DEF EndOfChecks, Queued
<1>9. CASE Decide
      BY <1>9 DEF Decide, Queued
<1>10. CASE Printer
      BY <1>10 DEF Printer, NotedReturn, Queued
<1>11. CASE NoteResult
      BY <1>11 DEF NoteResult, Queued
<1>12. CASE Await
      BY <1>12 DEF Await, Queued
<1>13. CASE EnterSave
      BY <1>13 DEF EnterSave, Queued
<1>14. CASE WriteLog
      BY <1>14 DEF WriteLog, Queued
<1>15. CASE Finish
      BY <1>15, QueuedAppend DEF Finish
<1>16. CASE OverAgain
      BY <1>16 DEF OverAgain, Queued
<1>17. CASE RelayOff
      BY <1>17 DEF RelayOff, SendCtrlGnd, Queued
<1>18. CASE StartFunc
      BY <1>18 DEF StartFunc, InitRecord, Clickable, NoDialog, Queued
<1>19. CASE StopFunc
      BY <1>19 DEF StopFunc, Clickable, NoDialog, Queued
<1>20. CASE ChooseKind
      BY <1>20 DEF ChooseKind, Clickable, NoDialog, Queued
<1>21. CASE PowerOff
      BY <1>21 DEF PowerOff, SendCtrlGnd, Clickable, NoDialog, Queued
<1>22. CASE Reprint
      BY <1>22 DEF Reprint, Clickable, NoDialog, Queued
<1>23. CASE AnswerStop
      BY <1>23 DEF AnswerStop, UpdateResult, Queued
<1>24. CASE Timer
      BY <1>24 DEF Timer, UpdateResult, Queued
<1>25. CASE Deliver
  <2>1. \A s \in Signals : /\ Queued(s)' => Queued(s)
                           /\ Queued(s) => Queued(s)' \/ s = Head(signals)
        BY <1>25, QueuedTail DEF Deliver
  <2>2. Head(signals) \in Signals /\ Queued(Head(signals))
        BY <1>25 DEF Deliver, Queued
  <2>3. AddrMeansFailed'
        BY <1>25, <2>1 DEF Deliver
  <2>4. ASSUME ~disturbed, ~Overlap, session > 0 PROVE LabelOutcome'
        BY <1>25, <2>1, <2>2, <2>4 DEF Deliver
  <2>5. ASSUME ~disturbed, ~Overlap, session > 0 PROVE LampOutcome'
    <3>1. CASE worker \in Busy
          BY <1>25, <2>1, <2>2, <2>5, <3>1 DEF Deliver
    <3>2. CASE worker \notin Busy
      <4>1. CASE Head(signals) = "finshOk"
            BY <1>25, <2>1, <2>2, <2>5, <3>2, <4>1 DEF Deliver
      <4>2. CASE Head(signals) = "finshBad"
            BY <1>25, <2>1, <2>2, <2>5, <3>2, <4>2 DEF Deliver
      <4>3. CASE Head(signals) \notin {"finshOk", "finshBad"}
            BY <1>25, <2>1, <2>2, <2>5, <3>2, <4>3 DEF Deliver
      <4> QED BY <4>1, <4>2, <4>3
    <3> QED BY <3>1, <3>2
  <2> QED BY <1>25, <2>3, <2>4, <2>5 DEF Deliver
<1>26. CASE JudgeSure
      BY <1>26 DEF JudgeSure, Queued
<1>27. CASE JudgeDismiss
      BY <1>27 DEF JudgeDismiss, Queued
<1>28. CASE UNCHANGED vars
      BY <1>28 DEF vars, Queued
<1> QED BY <1>1, <1>2, <1>3, <1>4, <1>5, <1>6, <1>7, <1>8, <1>9, <1>10, <1>11,
           <1>12, <1>13, <1>14, <1>15, <1>16, <1>17, <1>18, <1>19, <1>20, <1>21,
           <1>22, <1>23, <1>24, <1>25, <1>26, <1>27, <1>28 DEF Next, Worker,
           Operator

\* At every stage of a run nobody disturbed, the outcome so far is the same in the
\* worker's local, the shared verdict, the label, the log and the lamp.
THEOREM OutcomeCorrect == Spec => []OutcomeInv
<1>1. Init => OutcomeInv
      BY DEF Init, OutcomeInv, AddrMeansFailed, Queued
<1> QED BY <1>1, TypeCorrect, RunCorrect, OutcomeStep, PTL DEF Spec

\* When a session nobody disturbed is over, lamp, clock, label and log agree.
THEOREM VerdictsCorrect == Spec => []VerdictsAgree
<1>1. TypeOK /\ OutcomeInv => VerdictsAgree
  <2> SUFFICES ASSUME TypeOK, OutcomeInv, Settled, ~Overlap, ~disturbed
               PROVE  /\ lamp = "green" <=> logged = "pass"
                      /\ logged = "pass" => labelled
                      /\ shown = "pass" => logged = "pass"
      BY DEF VerdictsAgree
  <2>1. LabelOutcome /\ LampOutcome /\ worker = "off" /\ step = Test_End
        BY DEF OutcomeInv, Settled
  <2>2. ~Queued("finshOk") /\ ~Queued("finshBad")
        BY DEF Settled, Queued
  <2>3. /\ logged = IF res THEN "pass" ELSE "fail"
        /\ res => labelled
        BY <2>1 DEF LabelOutcome
  <2>4. /\ lamp = "green" => res
        /\ lamp \in {"red", "green"}
        /\ lamp = "red" => ~res
        /\ shown = "pass" => res
        BY <2>1, <2>2 DEF LampOutcome, Busy, TypeOK
  <2> QED BY <2>3, <2>4
<1> QED BY <1>1, TypeCorrect, OutcomeCorrect, PTL

-----------------------------------------------------------------------------
(* The refinement.                                                         *)

\* The verdict of a session only turns bad, and its label is only started while
\* it is good: every step is one of module Verdict, or stutters there.
THEOREM VerdictImplemented == Spec => KeepsVerdict
<1>1. Init => V!Init
      BY DEF Init, V!Init, Test_Info, Test_Fail
<1>2. TypeOK /\ [Next]_vars => [V!Next]_<<session, result # Test_Fail, worker = "print">>
  <2> SUFFICES ASSUME TypeOK, [Next]_vars
               PROVE  [V!Next]_<<session, result # Test_Fail, worker = "print">>
      OBVIOUS
  <2> USE DEF V!Next, V!BeginSession, V!Condemn, V!StartLabel, V!EndLabel, NotedResult,
              Test_Info, Test_Fail, Goto
  <2>1. CASE Decide
        BY <2>1 DEF Decide, progressVars, historyVars
  <2>2. CASE Printer
        BY <2>2 DEF Printer
  <2>3. CASE StartFunc
    <3>1. CASE UNCHANGED <<step, result, issure, workerVars, lamp, labelled, logged, historyVars>>
          BY <3>1 DEF workerVars, historyVars
    <3>2. CASE session' = session + 1 /\ result' = Test_Info
      <4>1. (worker' = "print") = (worker = "print")
            BY <2>3, <3>2 DEF StartFunc, workerVars, TypeOK
      <4>2. V!BeginSession
            BY <3>2, <4>1
      <4> QED BY <4>2
    <3> QED BY <2>3, <3>1, <3>2 DEF StartFunc, InitRecord
  <2>4. CASE Route
        BY <2>4, KindsAssumption DEF Route, TypeOK, progressVars, historyVars
  <2>5. CASE \E phase \in Checks : Check(phase)
    <3>1. worker # "print" /\ worker' # "print"
          BY <2>5 DEF Check, Checks, Passed, Stopped
    <3>2. session' = session /\ (result' = result \/ result' = Test_Fail)
          BY <2>5 DEF Check
    <3> QED BY <3>1, <3>2
  <2>6. CASE PowerCycle \/ RelayOn \/ RelayOff \/ PowerOff
        BY <2>6 DEF PowerCycle, RelayOn, RelayOff, PowerOff, SendCtrlGnd, workerVars
  <2>7. CASE Begin \/ InitDev \/ AskJudgement \/ EndOfChecks \/ NoteResult \/ Await
        BY <2>7 DEF Begin, InitDev, AskJudgement, EndOfChecks, NoteResult, Await,
                    progressVars, historyVars
  <2>8. CASE EnterSave \/ WriteLog \/ Finish \/ OverAgain
        BY <2>8 DEF EnterSave, WriteLog, Finish, OverAgain, progressVars, historyVars
  <2>9. CASE StopFunc \/ ChooseKind \/ Reprint \/ AnswerStop \/ Timer \/ Deliver
             \/ JudgeSure \/ JudgeDismiss
        BY <2>9 DEF StopFunc, ChooseKind, Reprint, AnswerStop, UpdateResult, Timer, Deliver,
                    JudgeSure, JudgeDismiss, workerVars, progressVars, historyVars
  <2>10. CASE UNCHANGED vars
        BY <2>10 DEF vars, workerVars, progressVars, historyVars
  <2> QED BY <2>1, <2>2, <2>3, <2>4, <2>5, <2>6, <2>7, <2>8, <2>9, <2>10
             DEF Next, Worker, Operator
<1> QED BY <1>1, <1>2, TypeCorrect, PTL DEF Spec, KeepsVerdict, V!Spec
=============================================================================
