---------------------------- MODULE MCSerialLink ----------------------------
(***************************************************************************)
(* SerialLink for TLC, with the three ports whose callers differ: the      *)
(* relays, commanded by a worker and by the stop button of the GUI thread; *)
(* the instrument, asked by the safety thread and reset by the light       *)
(* curtain thread; and Modbus, called again and again by one thread.       *)
(***************************************************************************)
EXTENDS SerialLink

MCClients == {"worker", "button", "tester", "curtain", "meter"}
MCKind == [worker |-> "relay", button |-> "relay",
           tester |-> "instrument", curtain |-> "instrument", meter |-> "modbus"]
MCTries == [worker |-> 2, button |-> 2, tester |-> 2, curtain |-> 1, meter |-> 1]
MCPorts == {{"worker", "button"}, {"tester", "curtain"}, {"meter"}}
MCRounds == [worker |-> 0, button |-> 0, tester |-> 0, curtain |-> 0, meter |-> 1]
MCMaxCalls == [worker |-> 1, button |-> 1, tester |-> 1, curtain |-> 1, meter |-> 3]
=============================================================================
