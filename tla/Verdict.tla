------------------------------- MODULE Verdict -------------------------------
(***************************************************************************)
(* What a test session promises about its verdict and its label, whatever  *)
(* the threads behind it do: a verdict that turned bad stays bad until the *)
(* next session begins, and a pass label is only ever started while the    *)
(* verdict is still good.                                                  *)
(***************************************************************************)
EXTENDS Integers

CONSTANTS Good, Bad     \* the verdict of the session that is open
VARIABLES session,      \* how many sessions were begun
          verdict,      \* the verdict as the bench knows it
          labelling     \* a pass label is being issued

Init == /\ session = 0
        /\ verdict = Good
        /\ labelling = FALSE

BeginSession == /\ session' = session + 1
                /\ verdict' = Good
                /\ UNCHANGED labelling

Condemn == /\ verdict' = Bad
           /\ UNCHANGED <<session, labelling>>

StartLabel == /\ verdict = Good
              /\ labelling' = TRUE
              /\ UNCHANGED <<session, verdict>>

\* The label came out, or the printer refused it, which condemns the product.
EndLabel == /\ labelling
            /\ labelling' = FALSE
            /\ verdict' \in {verdict, Bad}
            /\ UNCHANGED session

Next == BeginSession \/ Condemn \/ StartLabel \/ EndLabel

Spec == Init /\ [][Next]_<<session, verdict, labelling>>
=============================================================================
