---------------------------- MODULE MCBaseChecks ----------------------------
(***************************************************************************)
(* The boxes TLC puts under test: sound ones of either kind, and such with *)
(* one fault, one option that differs, or one temperature off, and one      *)
(* that cannot be read at all.                                             *)
(***************************************************************************)
EXTENDS BaseChecks

Even4 == [i \in 1..4 |-> 20]

Plain(kind, ipBreak, options) ==
    [kind |-> kind, options |-> options, expected |-> options, broken |-> {}, ip_break |-> ipBreak,
     filter |-> 8, workMode |-> 0, temperatures |-> Even4]

\* The start box with everything to test, and one with nothing.
Full == Plain("start", TRUE, Options)
Bare == Plain("start", FALSE, {})
Insert == Plain("insert", FALSE, {"buzzer"})

OneFault == {[Full EXCEPT !.broken = {f}] : f \in {"alarm", "contact", "release", "vol"}}
            \cup {[Bare EXCEPT !.broken = {f}] : f \in {"in", "out", "net", "vol", "cur"}}
            \cup {[Insert EXCEPT !.broken = {f}] : f \in {"vol", "cur"}}
OtherOptions == {[Full EXCEPT !.expected = Options \ {o}] : o \in {"spd", "shunt"}}
                \cup {[Bare EXCEPT !.expected = {o}] : o \in Options}
                \cup {[Bare EXCEPT !.options = {"shunt"}]}
OtherSettings == {[p EXCEPT !.filter = 0] : p \in {Bare, Insert}}
                 \cup {[p EXCEPT !.workMode = 1] : p \in {Bare, Insert}}
Unread == [Bare EXCEPT !.broken = {"in", "out", "net"}, !.filter = 5]
Warm == {[Insert EXCEPT !.temperatures = t] :
            t \in {<<20, 20, 20, 31>>, <<9, 20, 20, 20>>, <<0, 20, 20, 20>>, <<16, 20, 21, 18>>}}

MCProducts == {Full, Bare, Insert} \cup OneFault \cup OtherOptions \cup OtherSettings \cup Warm \cup {Unread}
=============================================================================
