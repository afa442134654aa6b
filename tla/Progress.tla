------------------------------ MODULE Progress ------------------------------
(***************************************************************************)
(* The values and the pure rules of sProgress, the record every thread of  *)
(* qc-busbar shares (common/datapacket): the steps of a session, its       *)
(* verdict, and what sDataPacket::updatePro and Power_Logs::updatePro do   *)
(* with the outcome of a check.  No variable is declared here: the session *)
(* modules own the fields they use.                                        *)
(***************************************************************************)
EXTENDS Integers

\* sProgress::step, in the order the code compares them.
Test_Start == 1
Test_Over  == 4
Test_End   == 5
Steps      == {Test_Start, Test_Over, Test_End}

\* sProgress::result.
Test_Info == 0
Test_Fail == 2
Results   == {Test_Info, Test_Fail}

-----------------------------------------------------------------------------
\* sDataPacket::delay gives up, and returns false, in these steps.
Interrupted(step) == step \in Test_Over .. Test_End

\* Mutant of NotedResult: a check that passes wipes out an earlier failure.
NotedLast(result, pass) == IF pass THEN Test_Info ELSE Test_Fail

\* sDataPacket::updatePro: the verdict after noting a check ...
NotedResult(result, pass) == IF pass THEN result ELSE Test_Fail

\* ... and what the call returns to the code that goes on with it.
NotedReturn(step, pass) == pass /\ ~Interrupted(step)

\* Power_Logs::updatePro and writeData drop everything once a session ended.
LogsOpen(step) == step < Test_End
=============================================================================
