------------------------------ MODULE SerialLink ------------------------------
(***************************************************************************)
(* A serial port as the threads of qc-busbar share it.  A caller puts its  *)
(* request into the port's queue and then looks into the port's buffer     *)
(* until bytes are there; the bytes travel on a 100 ms timer of the GUI    *)
(* thread, which sends what it finds queued and receives when it finds     *)
(* nothing.  Before it receives it lets other events run, so that requests *)
(* may be queued by then.  A call that the GUI thread makes itself keeps   *)
(* the timer from firing, and from going on.                               *)
(*                                                                         *)
(* Three kinds of callers use a port: relay commands, which take any bytes *)
(* for an answer and whose second try counts for nothing; the instrument,  *)
(* asked up to three times; and Modbus reads and writes, which empty the   *)
(* buffer first, look several times and check the frame they got, but not  *)
(* whose frame it is.                                                      *)
(***************************************************************************)
EXTENDS Sequences, SequencesExt, Integers

CONSTANTS
    Clients,    \* places in the code that call
    Kind,       \* what each of them calls
    Tries,      \* tries of a call: 2 of a relay command, 3 at the instrument, 1 of Modbus
    OnGui,      \* the ones that run on the GUI thread
    Ports,      \* which of them share a port
    MaxCalls,   \* calls of each
    Rounds,     \* looks into the buffer before a call gives up (10 to 500)
    MaxMishaps  \* bytes lost, ports closed, devices started anew

Kinds == {"relay", "instrument", "modbus"}

ASSUME KindAssumption == Kind \in [Clients -> Kinds] /\ Tries \in [Clients -> 1 .. 3]
ASSUME OnGuiAssumption == OnGui \subseteq Clients
ASSUME PortsAssumption == Ports \subseteq SUBSET Clients
ASSUME BoundsAssumption == MaxCalls \in [Clients -> Nat] /\ Rounds \in [Clients -> Nat] /\ MaxMishaps \in Nat

\* The copies a call sends when it tries again are the same bytes.
Requests == UNION {[by : {c}, no : 1 .. MaxCalls[c]] : c \in Clients}
Nothing == [by |-> "nobody", no |-> 0]

\* An answer arrives whole or in two pieces; a device that starts sends 0xff.
Piece(request, part) == [of |-> request, part |-> part]
PowerOn == Piece(Nothing, "ff")
Pieces == [of : Requests, part : {"whole", "head", "rest"}] \cup {PowerOn}

VARIABLES
    isOpen,
    queue,      \* mWriteArrays
    buffer,     \* mSerialData
    receiving,  \* the timer is in recvSlot: it found nothing queued
    line,       \* requests on the wire that the device has not yet taken
    out,        \* answers on their way back
    users,      \* the callers of this port
    call,       \* where each caller stands
    relays      \* the request the device obeyed last

\* What happened, for the properties; the code never reads it.
VARIABLES
    bare,       \* the buffer was empty when the last try of this caller was queued, the
                \* timer not about to receive, unless that call keeps it waiting, and
                \* the port has dropped no request since
    quiet,      \* the line was idle when the call began, and nobody else called since
    stray,      \* the buffer holds bytes that nobody waited for
    mishaps     \* how many there were

portVars    == <<isOpen, queue, buffer, receiving>>
deviceVars  == <<line, out, relays>>
historyVars == <<bare, quiet, stray>>
vars == <<portVars, deviceVars, users, call, historyVars, mishaps>>

\* A caller between two calls; ok is how the last one ended.
Rest == [at |-> "idle", no |-> 0, try |-> 0, round |-> 0, got |-> <<>>, ok |-> FALSE]

Init ==
    /\ isOpen = TRUE
    /\ queue = <<>> /\ buffer = <<>>
    /\ receiving = FALSE
    /\ line = <<>> /\ out = <<>>
    /\ users \in Ports
    /\ call = [c \in Clients |-> Rest]
    /\ relays = Nothing
    /\ bare = [c \in Clients |-> FALSE]
    /\ quiet = [c \in Clients |-> FALSE]
    /\ stray = FALSE
    /\ mishaps = 0

\* Things go wrong so many times.
Mishap == mishaps < MaxMishaps /\ mishaps' = mishaps + 1

Request(c) == [by |-> c, no |-> call[c].no]
Idle(c) == call[c].at = "idle"
GuiFree == \A c \in OnGui : Idle(c)

-----------------------------------------------------------------------------
(* The callers.                                                            *)

\* The CRC is right for one answer and nothing else.
Framed(got) == \/ Len(got) = 1 /\ got[1].part = "whole"
               \/ Len(got) = 2 /\ got[1].part = "head" /\ got[2].part = "rest"

Accepted(c, got) ==
    CASE Kind[c] = "relay"      -> got # <<>> /\ call[c].try = 1
      [] Kind[c] = "instrument" -> got # <<>>
      [] Kind[c] = "modbus"     -> Framed(got)

\* A try that got no bytes is followed by the next one, if there is one.
EndTry(c, got) ==
    call' = [call EXCEPT ![c] =
               IF got = <<>> /\ call[c].try < Tries[c]
               THEN [call[c] EXCEPT !.at = "write", !.try = call[c].try + 1, !.got = <<>>, !.round = 0]
               ELSE [Rest EXCEPT !.no = call[c].no, !.ok = Accepted(c, got)]]

LineIdle == queue = <<>> /\ line = <<>> /\ out = <<>> /\ ~stray

Start(c) ==
    /\ c \in users /\ Idle(c)
    /\ call[c].no < MaxCalls[c]
    /\ c \in OnGui => GuiFree
    /\ call' = [call EXCEPT ![c] =
                   [Rest EXCEPT !.at = IF Kind[c] = "modbus" THEN "flush" ELSE "write",
                                !.no = call[c].no + 1, !.try = 1]]
    /\ quiet' = [d \in Clients |-> d = c /\ LineIdle /\ \A e \in Clients : Idle(e)]
    /\ UNCHANGED <<portVars, deviceVars, bare, stray, users, mishaps>>

\* Rtu_Modbus::get empties the buffer.
Flush(c) ==
    /\ call[c].at = "flush"
    /\ call' = [call EXCEPT ![c].at = "write"]
    /\ buffer' = <<>> /\ stray' = FALSE
    /\ UNCHANGED <<isOpen, queue, receiving, deviceVars, bare, quiet, users, mishaps>>

\* A closed port drops what is queued, unless Modbus finds it closed first.
Write(c) ==
    /\ call[c].at = "write"
    /\ IF isOpen
       THEN /\ queue' = Append(queue, Request(c))
            /\ call' = [call EXCEPT ![c].at = "poll", ![c].round = 0]
            /\ bare' = [bare EXCEPT ![c] = buffer = <<>> /\ (receiving => c \in OnGui)]
            /\ UNCHANGED stray
       ELSE /\ queue' = IF Kind[c] = "modbus" THEN queue ELSE <<>>
            /\ EndTry(c, <<>>)
            /\ bare' = IF Kind[c] = "modbus" THEN bare ELSE [d \in Clients |-> FALSE]
            /\ stray' = (stray \/ buffer # <<>>)
    /\ UNCHANGED <<isOpen, buffer, receiving, deviceVars, quiet, users, mishaps>>

\* Mutant of Poll: one look more than the bound allows.
PollOnceMore(c) ==
    /\ call[c].at = "poll"
    /\ IF buffer # <<>> THEN call' = [call EXCEPT ![c].at = "nap"]
       ELSE IF call[c].round <= Rounds[c] THEN call' = [call EXCEPT ![c].round = @ + 1]
       ELSE EndTry(c, <<>>)
    /\ UNCHANGED <<portVars, deviceVars, historyVars, users, mishaps>>

\* A look into the buffer.  Bytes that are there are taken 350 ms later.
Poll(c) ==
    /\ call[c].at = "poll"
    /\ IF buffer # <<>> THEN call' = [call EXCEPT ![c].at = "nap"]
       ELSE IF call[c].round < Rounds[c] THEN call' = [call EXCEPT ![c].round = @ + 1]
       ELSE EndTry(c, <<>>)
    /\ UNCHANGED <<portVars, deviceVars, historyVars, users, mishaps>>

\* Modbus looks no more once the session is over.
GiveUp(c) ==
    /\ call[c].at = "poll" /\ Kind[c] = "modbus"
    /\ EndTry(c, <<>>)
    /\ stray' = (stray \/ buffer # <<>>)
    /\ UNCHANGED <<portVars, deviceVars, bare, quiet, users, mishaps>>

Copy(c) ==
    /\ call[c].at = "nap"
    /\ call' = [call EXCEPT ![c].at = "clear", ![c].got = buffer]
    /\ UNCHANGED <<portVars, deviceVars, historyVars, users, mishaps>>

\* Nothing was there any more: Modbus looks again.
Taken(c) ==
    LET got == call[c].got
    IN IF got = <<>> /\ Kind[c] = "modbus" /\ call[c].round < Rounds[c]
       THEN call' = [call EXCEPT ![c].at = "poll", ![c].round = @ + 1]
       ELSE EndTry(c, got)

\* Mutant of Clear: the bytes stay in the buffer.
ClearNothing(c) ==
    /\ call[c].at = "clear"
    /\ stray' = FALSE
    /\ Taken(c)
    /\ UNCHANGED <<portVars, deviceVars, bare, quiet, users, mishaps>>

\* The lock is not the timer's: bytes that came since the copy are lost.
Clear(c) ==
    /\ call[c].at = "clear"
    /\ buffer' = <<>> /\ stray' = FALSE
    /\ Taken(c)
    /\ UNCHANGED <<isOpen, queue, receiving, deviceVars, bare, quiet, users, mishaps>>

Caller(c) == Flush(c) \/ Write(c) \/ Poll(c) \/ GiveUp(c) \/ Copy(c) \/ Clear(c)

-----------------------------------------------------------------------------
(* The timer of the GUI thread: SerialPort::timeoutDone.  It does not fire  *)
(* again while its slot runs.                                              *)

\* Mutant of Fire: the GUI thread lets the timer fire while it waits itself.
FireAlways == TRUE

Fire == GuiFree

\* Mutant of Send: the request that was queued last goes first.
SendLast ==
    /\ Fire /\ isOpen /\ queue # <<>> /\ ~receiving
    /\ line' = Append(line, Last(queue))
    /\ queue' = Front(queue)
    /\ buffer' = <<>> /\ stray' = FALSE
    /\ UNCHANGED <<isOpen, receiving, out, relays, call, bare, quiet, users, mishaps>>

Send ==
    /\ Fire /\ isOpen /\ queue # <<>> /\ ~receiving
    /\ line' = Append(line, Head(queue))
    /\ queue' = Tail(queue)
    /\ buffer' = <<>> /\ stray' = FALSE
    /\ UNCHANGED <<isOpen, receiving, out, relays, call, bare, quiet, users, mishaps>>

\* Mutant of SendFails: the request is kept, to be sent again.
SendFailsKeep ==
    /\ Fire /\ queue # <<>> /\ ~receiving
    /\ IF isOpen THEN Mishap ELSE UNCHANGED mishaps
    /\ bare' = [c \in Clients |-> FALSE]
    /\ UNCHANGED <<portVars, deviceVars, call, quiet, stray, users>>

\* A port that is closed, or refuses the bytes, loses everything queued.
SendFails ==
    /\ Fire /\ queue # <<>> /\ ~receiving
    /\ queue' = <<>>
    /\ IF isOpen THEN Mishap ELSE UNCHANGED mishaps
    /\ bare' = [c \in Clients |-> FALSE]
    /\ UNCHANGED <<isOpen, buffer, receiving, deviceVars, call, quiet, stray, users>>

\* Mutant of Enter: the timer goes to receive whatever is queued.
EnterAlways ==
    /\ Fire /\ isOpen /\ ~receiving
    /\ receiving' = TRUE
    /\ UNCHANGED <<isOpen, queue, buffer, deviceVars, call, historyVars, users, mishaps>>

\* Nothing is queued: recvSlot of an open port, as far as its processEvents.
Enter ==
    /\ Fire /\ isOpen /\ queue = <<>> /\ ~receiving
    /\ receiving' = TRUE
    /\ UNCHANGED <<isOpen, queue, buffer, deviceVars, call, historyVars, users, mishaps>>

\* Some of the bytes on their way have arrived, or none; 0xff alone is what a
\* controller sends when it starts.
Fetch ==
    \E n \in 0 .. Len(out) :
       LET bytes == SubSeq(out, 1, n)
       IN /\ buffer' = IF bytes = <<PowerOn>> THEN buffer ELSE buffer \o bytes
          /\ out' = SubSeq(out, n + 1, Len(out))
          /\ stray' = (stray \/ (n > 0 /\ \A c \in users : Idle(c)))

\* recvSlot goes on, whatever the other events have queued.
Receive ==
    /\ Fire /\ receiving
    /\ receiving' = FALSE
    /\ Fetch
    /\ UNCHANGED <<isOpen, queue, line, relays, call, bare, quiet, users, mishaps>>

Timer == Send \/ SendFails \/ Enter \/ Receive

\* The settings page opens and closes ports; the events that run before bytes are
\* received leave clicks out.
OpenOrClose ==
    /\ GuiFree /\ ~receiving
    /\ isOpen' = ~isOpen
    /\ IF isOpen THEN Mishap ELSE UNCHANGED mishaps
    /\ UNCHANGED <<queue, buffer, receiving, deviceVars, call, historyVars, users>>

-----------------------------------------------------------------------------
(* The device and the wire.                                                *)

\* A request that arrives damaged has no effect; an answer may be lost.
Take ==
    /\ line # <<>>
    /\ line' = Tail(line)
    /\ \/ Mishap /\ UNCHANGED <<relays, out>>
       \/ Mishap /\ relays' = Head(line) /\ UNCHANGED out
       \/ /\ relays' = Head(line)
          /\ \/ out' = Append(out, Piece(Head(line), "whole"))
             \/ out' = out \o <<Piece(Head(line), "head"), Piece(Head(line), "rest")>>
          /\ UNCHANGED mishaps
    /\ UNCHANGED <<portVars, call, historyVars, users>>

\* Two of these together would count as an answer; one is modelled at a time.
DeviceStarts ==
    /\ PowerOn \notin ToSet(out) \cup ToSet(buffer)
    /\ Mishap
    /\ out' = Append(out, PowerOn)
    /\ UNCHANGED <<portVars, line, relays, call, historyVars, users>>

Next == \/ \E c \in Clients : Start(c) \/ Caller(c)
        \/ Timer \/ OpenOrClose \/ Take \/ DeviceStarts

Spec == Init /\ [][Next]_vars

\* The timer fires and calls of the GUI thread go on; a device may stay silent.
FairSpec == /\ Spec
            /\ WF_vars(Timer)
            /\ \A c \in OnGui : WF_vars(Caller(c))

-----------------------------------------------------------------------------
(* What must hold.                                                         *)

\* Every variable keeps to its values.
TypeOK ==
    /\ isOpen \in BOOLEAN /\ receiving \in BOOLEAN
    /\ queue \in Seq(Requests) /\ line \in Seq(Requests)
    /\ buffer \in Seq(Pieces) /\ out \in Seq(Pieces)
    /\ users \in Ports
    /\ call \in [Clients -> [at : {"idle", "flush", "write", "poll", "nap", "clear"},
                             no : Nat, try : 0 .. 3, round : Nat,
                             got : Seq(Pieces), ok : BOOLEAN]]
    /\ \A c \in Clients : call[c].no <= MaxCalls[c] /\ call[c].round <= Rounds[c]
    /\ relays \in Requests \cup {Nothing}
    /\ bare \in [Clients -> BOOLEAN] /\ quiet \in [Clients -> BOOLEAN] /\ stray \in BOOLEAN
    /\ mishaps \in 0 .. MaxMishaps

\* A call that began on an idle line, with nobody else calling, is never answered
\* with the bytes of an earlier call: whoever took bytes took them out of the buffer.
OwnAnswer ==
    \A c \in Clients : quiet[c] =>
        \A p \in ToSet(call[c].got) : p.of \in {Request(c), Nothing}

\* What the session modules assume of a relay command: when such a call was noted as
\* answered, the device had obeyed it, and nothing else since.
AckedIsObeyed ==
    \A c \in Clients : quiet[c] /\ call[c].ok => relays = Request(c)

\* On any line, with any other callers: a call that was answered is not still queued.
\* Left out are calls queued when old bytes were in the buffer or when the timer was
\* past its test of the queue, and requests the port dropped.
AckedWasSent ==
    \A c \in Clients : call[c].ok /\ bare[c] => Request(c) \notin ToSet(queue)

\* A call on the GUI thread is only ever answered by bytes that were there before it.
GuiTakesLeftovers ==
    \A c \in OnGui : call[c].got # <<>> => ~bare[c]

\* What is queued is sent or dropped in the end, also when a call of the GUI thread
\* keeps the timer waiting: commands given up by their callers still reach the device.
Drains == (queue # <<>>) ~> (queue = <<>>)

\* The line keeps the promise of CommandLine.
Line == INSTANCE CommandLine WITH Commands <- Requests, waiting <- line \o queue, effect <- relays

InOrder == Line!Spec
=============================================================================
