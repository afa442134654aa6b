---------------------------- MODULE CommandLine ----------------------------
(***************************************************************************)
(* What a serial line promises the threads that command a device over it,  *)
(* whatever becomes of the answers: commands take effect in the order they *)
(* were given, one at a time, and nothing takes effect that nobody gave.   *)
(* A command may be lost on the way, and the port may drop all commands    *)
(* that it has not yet sent.                                               *)
(***************************************************************************)
EXTENDS Sequences, Integers

CONSTANTS Commands, Nothing
VARIABLES waiting,      \* commands given and not yet decided, oldest first
          effect        \* the command the device obeyed last

Init == waiting = <<>> /\ effect = Nothing

Give(command) == waiting' = Append(waiting, command) /\ UNCHANGED effect

Obey == /\ waiting # <<>>
        /\ effect' = Head(waiting)
        /\ waiting' = Tail(waiting)

Lose == /\ waiting # <<>>
        /\ waiting' = Tail(waiting)
        /\ UNCHANGED effect

Drop == /\ \E n \in 0 .. Len(waiting) : waiting' = SubSeq(waiting, 1, n)
        /\ UNCHANGED effect

Next == (\E command \in Commands : Give(command)) \/ Obey \/ Lose \/ Drop

Spec == Init /\ [][Next]_<<waiting, effect>>
=============================================================================
