--------------------------- MODULE MCBranchTests ---------------------------
(***************************************************************************)
(* The boxes TLC puts under test.  Of each kind a sound one, every box     *)
(* with one sensor on a wrong tap, every box with one sensor that measures *)
(* wrong, and every box with two sensors swapped; the faulty one is one    *)
(* that most loops of its box have to leave alone, and L1 of a start box.  *)
(***************************************************************************)
EXTENDS BranchTests

\* p with s as sensor i of quantity q.
With(p, q, i, s) == [p EXCEPT !.sensors[q][i] = s]

Faults(kind, i) ==
    [tap : Sensors(kind, "vol") \cup {Loose}, live : Good, idle : Zero] \cup
    [tap : {i}, live : {"odd", "good"}, idle : {"zero", "odd"}]

Suspects(kind) == CASE kind = "nine" -> {9} [] kind = "six" -> {5} [] kind = "start" -> {1, 3}
                    [] OTHER -> {2}

OneWrong(kind) ==
    UNION {{With(Sound(kind), q, i, s) : s \in Faults(kind, i)} :
              q \in {"vol", "cur"}, i \in Suspects(kind)}

Swapped(kind) ==
    {With(With(Sound(kind), q, i, Sound(kind).sensors[q][j]),
          q, j, Sound(kind).sensors[q][i]) :
        i \in Suspects(kind), j \in Sensors(kind, "vol"), q \in {"vol", "cur"}}

PowerWrong == {With(Sound("start"), "pow", 1, [tap |-> t, live |-> l, idle |-> "zero"]) :
                 t \in {1, 2}, l \in {"odd", "good"}}

MCProducts == UNION {OneWrong(k) \cup Swapped(k) : k \in Kinds} \cup PowerWrong
=============================================================================
