-------------------------- MODULE SerialLinkProofs --------------------------
(***************************************************************************)
(* Theorems about SerialLink, for every set of callers, of whatever kinds, *)
(* sharing ports in whatever way, every number of calls, tries, looks and  *)
(* mishaps.                                                                *)
(***************************************************************************)
EXTENDS SerialLink, SequenceTheorems, TLAPS

-----------------------------------------------------------------------------
(* The values of the variables.                                            *)

Places == {"idle", "flush", "write", "poll", "nap", "clear"}
Call == [at : Places, no : Nat, try : 0 .. 3, round : Nat, got : Seq(Pieces), ok : BOOLEAN]

\* A caller within a call has a number that its request can carry.
Fits(c, x) == /\ x.no <= MaxCalls[c] /\ x.round <= Rounds[c]
              /\ x.at # "idle" => x.no >= 1
Numbered(c) == Fits(c, call[c])

PortTyped == /\ isOpen \in BOOLEAN /\ receiving \in BOOLEAN
             /\ queue \in Seq(Requests) /\ line \in Seq(Requests)
             /\ buffer \in Seq(Pieces) /\ out \in Seq(Pieces)
             /\ relays \in Requests \cup {Nothing}
FlagsTyped == /\ users \in Ports
              /\ bare \in [Clients -> BOOLEAN] /\ quiet \in [Clients -> BOOLEAN]
              /\ stray \in BOOLEAN /\ mishaps \in 0 .. MaxMishaps
CallsTyped == call \in [Clients -> Call] /\ \A c \in Clients : Numbered(c)

\* TypeOK, and that requests can be told apart by their numbers.
Typed == PortTyped /\ FlagsTyped /\ CallsTyped

\* What is proved to be inductive is at least the type invariant of the model.
LEMMA TypedIsTypeOK == Typed => TypeOK
BY DEF Typed, PortTyped, FlagsTyped, CallsTyped, Call, Places, Numbered, Fits, TypeOK

\* The request of a caller within a call is one that the line can carry.
LEMMA RequestTyped ==
    ASSUME Typed, NEW c \in Clients, ~Idle(c)
    PROVE  Request(c) \in Requests
<1>1. call[c].no \in 1 .. MaxCalls[c]
      BY BoundsAssumption DEF Typed, CallsTyped, Call, Numbered, Fits, Idle
<1>2. Request(c) \in [by : {c}, no : 1 .. MaxCalls[c]]
      BY <1>1 DEF Request
<1> QED BY <1>2 DEF Requests

\* What an answer is made of.
LEMMA PieceTyped ==
    ASSUME NEW r \in Requests
    PROVE  \A part \in {"whole", "head", "rest"} : Piece(r, part) \in Pieces
BY DEF Piece, Pieces

\* No bytes, and no requests, are a sequence of them.
LEMMA NoBytes == <<>> \in Seq(Pieces) /\ <<>> \in Seq(Requests)
OBVIOUS

\* The caller between two calls.
LEMMA RestTyped ==
    /\ Rest \in Call
    /\ Rest.at = "idle" /\ Rest.no = 0 /\ Rest.round = 0 /\ Rest.got = <<>> /\ Rest.ok = FALSE
BY NoBytes DEF Rest, Call, Places

\* A caller that is given a new place, the others left alone.
LEMMA CallSet ==
    ASSUME CallsTyped, NEW c \in Clients, NEW x \in Call, call' = [call EXCEPT ![c] = x],
           Fits(c, x)
    PROVE  CallsTyped' /\ call'[c] = x /\ \A d \in Clients \ {c} : call'[d] = call[d]
<1>1. call' \in [Clients -> Call] /\ call'[c] = x /\ \A d \in Clients \ {c} : call'[d] = call[d]
      BY DEF CallsTyped
<1>2. \A d \in Clients : Numbered(d)'
      BY <1>1 DEF CallsTyped, Numbered
<1> QED BY <1>1, <1>2 DEF CallsTyped

\* What the changes of place leave of a caller.
LEMMA MoveAt ==
    ASSUME NEW x \in Call, NEW p \in Places
    PROVE  LET y == [x EXCEPT !.at = p]
           IN y \in Call /\ y.at = p /\ y.no = x.no /\ y.round = x.round /\ y.got = x.got /\ y.ok = x.ok
BY DEF Call

\* The same of a look more.
LEMMA MoveRound ==
    ASSUME NEW x \in Call, NEW n \in Nat
    PROVE  LET y == [x EXCEPT !.round = n]
           IN y \in Call /\ y.at = x.at /\ y.no = x.no /\ y.round = n /\ y.got = x.got /\ y.ok = x.ok
BY DEF Call

\* No bytes are no answer.
LEMMA NothingIsNoAnswer ==
    ASSUME NEW c \in Clients
    PROVE  ~Accepted(c, <<>>)
<1>1. Kind[c] \in {"relay", "instrument", "modbus"}
      BY KindAssumption DEF Kinds
<1>2. ~Framed(<<>>)
      BY DEF Framed
<1>3. CASE Kind[c] = "relay"
      BY <1>3 DEF Accepted
<1>4. CASE Kind[c] = "instrument"
      BY <1>4 DEF Accepted
<1>5. CASE Kind[c] = "modbus"
      BY <1>2, <1>5 DEF Accepted
<1> QED BY <1>1, <1>3, <1>4, <1>5

\* A try that ends leaves its caller idle or about to write again, and holding nothing.
LEMMA EndTryCall ==
    ASSUME CallsTyped, NEW c \in Clients, ~Idle(c), NEW got, EndTry(c, got)
    PROVE  /\ CallsTyped'
           /\ \A d \in Clients \ {c} : call'[d] = call[d]
           /\ call'[c].no = call[c].no /\ call'[c].got = <<>>
           /\ \/ call'[c].at = "write" /\ call'[c].ok = call[c].ok
              \/ call'[c].at = "idle" /\ call'[c].ok = Accepted(c, got)
<1> DEFINE again == [call[c] EXCEPT !.at = "write", !.try = call[c].try + 1, !.got = <<>>, !.round = 0]
           rest  == [Rest EXCEPT !.no = call[c].no, !.ok = Accepted(c, got)]
<1>1. call[c] \in Call /\ call \in [Clients -> Call]
      BY DEF CallsTyped
<1>2. Accepted(c, got) \in BOOLEAN
      BY KindAssumption DEF Accepted, Framed, Kinds
<1>3. Tries[c] \in 1 .. 3 /\ Rounds[c] \in Nat /\ MaxCalls[c] \in Nat
      BY KindAssumption, BoundsAssumption
<1>4. rest \in Call /\ rest.at = "idle" /\ rest.no = call[c].no /\ rest.got = <<>>
      /\ rest.ok = Accepted(c, got) /\ rest.round = 0
      BY <1>1, <1>2, RestTyped DEF Call
<1>5. ASSUME call[c].try < Tries[c]
      PROVE  again \in Call /\ again.at = "write" /\ again.no = call[c].no
             /\ again.got = <<>> /\ again.ok = call[c].ok /\ again.round = 0
  <2>1. call[c].try + 1 \in 0 .. 3
        BY <1>1, <1>3, <1>5 DEF Call
  <2>2. ASSUME NEW t \in 0 .. 3, NEW x \in Call
        PROVE  LET r == [x EXCEPT !.at = "write", !.try = t, !.got = <<>>, !.round = 0]
               IN r \in Call /\ r.at = "write" /\ r.no = x.no /\ r.got = <<>> /\ r.ok = x.ok /\ r.round = 0
        BY NoBytes DEF Call, Places
  <2> QED BY <1>1, <2>1, <2>2
<1>6. \/ call' = [call EXCEPT ![c] = rest]
      \/ call[c].try < Tries[c] /\ call' = [call EXCEPT ![c] = again]
      BY DEF EndTry
<1> HIDE DEF again, rest
<1>7. CASE call' = [call EXCEPT ![c] = rest]
  <2>1. Fits(c, rest)
        BY <1>1, <1>3, <1>4 DEF CallsTyped, Numbered, Fits
  <2> QED BY <1>4, <1>7, <2>1, CallSet
<1>8. CASE call[c].try < Tries[c] /\ call' = [call EXCEPT ![c] = again]
  <2>1. Fits(c, again)
        BY <1>1, <1>3, <1>5, <1>8 DEF CallsTyped, Numbered, Fits, Idle
  <2> QED BY <1>5, <1>8, <2>1, CallSet
<1> QED BY <1>6, <1>7, <1>8

\* The other callers stand where they stood, and this one is in the same call.
Alone(c) == /\ CallsTyped'
            /\ \A d \in Clients \ {c} : call'[d] = call[d]
            /\ call'[c].no = call[c].no

\* Where each step of a caller takes it, and what it then holds: a call begins.
LEMMA StartCall ==
    ASSUME Typed, NEW c \in Clients, Start(c)
    PROVE  /\ CallsTyped' /\ \A d \in Clients \ {c} : call'[d] = call[d]
           /\ Idle(c) /\ call'[c].at \in {"flush", "write"} /\ call'[c].no = call[c].no + 1
           /\ call'[c].got = <<>> /\ ~call'[c].ok
<1> DEFINE at == IF Kind[c] = "modbus" THEN "flush" ELSE "write"
           begun == [Rest EXCEPT !.at = at, !.no = call[c].no + 1, !.try = 1]
<1>1. call[c] \in Call /\ call \in [Clients -> Call] /\ MaxCalls[c] \in Nat /\ Rounds[c] \in Nat
      BY BoundsAssumption DEF Typed, CallsTyped
<1>2. call[c].no + 1 \in Nat /\ call[c].no + 1 <= MaxCalls[c] /\ call[c].no + 1 >= 1
      BY <1>1 DEF Start, Call
<1>3. at \in Places /\ 1 \in 0 .. 3 /\ at \in {"flush", "write"}
      BY DEF Places
<1> HIDE DEF at
<1>4. begun \in Call /\ begun.at = at /\ begun.no = call[c].no + 1
      /\ begun.round = 0 /\ begun.got = <<>> /\ ~begun.ok
      BY <1>2, <1>3, RestTyped DEF Call
<1>5. call' = [call EXCEPT ![c] = begun]
      BY DEF Start, at
<1> HIDE DEF begun
<1>6. Fits(c, begun)
      BY <1>1, <1>2, <1>4 DEF Fits
<1>7. CallsTyped' /\ call'[c] = begun /\ \A d \in Clients \ {c} : call'[d] = call[d]
      BY <1>4, <1>5, <1>6, CallSet DEF Typed
<1> QED BY <1>3, <1>4, <1>7 DEF Start

\* A caller that has emptied the buffer writes next.
LEMMA FlushCall ==
    ASSUME Typed, NEW c \in Clients, Flush(c)
    PROVE  /\ Alone(c) /\ ~Idle(c) /\ call'[c].at = "write"
           /\ call'[c].got = call[c].got /\ call'[c].ok = call[c].ok
<1> DEFINE moved == [call[c] EXCEPT !.at = "write"]
<1>1. call[c] \in Call /\ Numbered(c) /\ ~Idle(c)
      BY DEF Typed, CallsTyped, Flush, Idle
<1>2. call' = [call EXCEPT ![c] = moved]
      BY DEF Flush
<1>3. /\ moved \in Call /\ moved.at = "write" /\ moved.no = call[c].no /\ moved.round = call[c].round
      /\ moved.got = call[c].got /\ moved.ok = call[c].ok
      BY <1>1, MoveAt DEF Places
<1> HIDE DEF moved
<1>4. Fits(c, moved)
      BY <1>1, <1>2, <1>3, BoundsAssumption DEF Call, Numbered, Fits, Idle
<1> QED BY <1>1, <1>2, <1>3, <1>4, CallSet DEF Typed, Alone

\* A caller that has queued its request looks for the answer; on a closed port the try ends.
LEMMA WriteCall ==
    ASSUME Typed, NEW c \in Clients, Write(c)
    PROVE  /\ Alone(c) /\ ~Idle(c)
           /\ isOpen => call'[c].at = "poll" /\ call'[c].got = call[c].got /\ call'[c].ok = call[c].ok
           /\ ~isOpen => call'[c].at \in {"write", "idle"} /\ call'[c].got = <<>>
                         /\ (call'[c].ok => call[c].ok)
<1>1. call[c].at = "write" /\ ~Idle(c)
      BY DEF Write, Idle
<1>2. CASE isOpen
  <2> DEFINE moved == [call[c] EXCEPT !.at = "poll", !.round = 0]
  <2>1. call[c] \in Call /\ Numbered(c) /\ Rounds[c] \in Nat /\ "poll" \in Places /\ 0 \in Nat
        BY BoundsAssumption DEF Typed, CallsTyped, Places
  <2>2. call' = [call EXCEPT ![c].at = "poll", ![c].round = 0]
        BY <1>2 DEF Write
  <2>3. call' = [call EXCEPT ![c] = moved]
        BY <2>2 DEF Typed, CallsTyped
  <2>4. /\ moved \in Call /\ moved.at = "poll" /\ moved.no = call[c].no /\ moved.round = 0
        /\ moved.got = call[c].got /\ moved.ok = call[c].ok
        BY <2>1 DEF Call
  <2> HIDE DEF moved
  <2>5. Fits(c, moved)
        BY <1>1, <1>2, <2>1, <2>3, <2>4, BoundsAssumption DEF Call, Numbered, Fits, Idle
  <2> QED BY <1>1, <1>2, <2>1, <2>3, <2>4, <2>5, CallSet DEF Typed, Alone
<1>3. CASE ~isOpen
  <2>1. EndTry(c, <<>>)
        BY <1>3 DEF Write
  <2> QED BY <1>1, <1>3, <2>1, NothingIsNoAnswer, EndTryCall DEF Typed, Alone
<1> QED BY <1>2, <1>3

\* A look finds bytes, or none, or was the last one of this try.
LEMMA PollCall ==
    ASSUME Typed, NEW c \in Clients, Poll(c)
    PROVE  /\ Alone(c) /\ ~Idle(c)
           /\ \/ /\ buffer # <<>> /\ call'[c].at = "nap"
                 /\ call'[c].got = call[c].got /\ call'[c].ok = call[c].ok
              \/ /\ buffer = <<>> /\ call'[c].at = "poll"
                 /\ call'[c].got = call[c].got /\ call'[c].ok = call[c].ok
              \/ /\ buffer = <<>> /\ call'[c].at \in {"write", "idle"}
                 /\ call'[c].got = <<>> /\ (call'[c].ok => call[c].ok)
<1>1. call[c].at = "poll" /\ ~Idle(c) /\ call[c] \in Call /\ Numbered(c)
      BY DEF Typed, CallsTyped, Poll, Idle
<1>2. CASE buffer # <<>>
  <2> DEFINE moved == [call[c] EXCEPT !.at = "nap"]
  <2>1. call' = [call EXCEPT ![c] = moved]
        BY <1>2 DEF Poll
  <2>2. /\ moved \in Call /\ moved.at = "nap" /\ moved.no = call[c].no /\ moved.round = call[c].round
        /\ moved.got = call[c].got /\ moved.ok = call[c].ok
        BY <1>1, MoveAt DEF Places
  <2> HIDE DEF moved
  <2>3. Fits(c, moved)
        BY <1>1, <1>2, <2>1, <2>2, BoundsAssumption DEF Call, Numbered, Fits, Idle
  <2> QED BY <1>1, <1>2, <2>1, <2>2, <2>3, CallSet DEF Typed, Alone
<1>3. CASE buffer = <<>> /\ call[c].round < Rounds[c]
  <2> DEFINE n == call[c].round + 1
              moved == [call[c] EXCEPT !.round = n]
  <2>1. call' = [call EXCEPT ![c] = moved]
        BY <1>3 DEF Poll
  <2>2. n \in Nat /\ n <= Rounds[c]
        BY <1>1, <1>3, BoundsAssumption DEF Call
  <2>3. /\ moved \in Call /\ moved.at = "poll" /\ moved.no = call[c].no /\ moved.round = n
        /\ moved.got = call[c].got /\ moved.ok = call[c].ok
        BY <1>1, <2>2, MoveRound DEF Places
  <2> HIDE DEF moved, n
  <2>4. Fits(c, moved)
        BY <1>1, <1>3, <2>1, <2>2, <2>3, BoundsAssumption DEF Call, Numbered, Fits, Idle
  <2> QED BY <1>1, <1>3, <2>1, <2>2, <2>3, <2>4, CallSet DEF Typed, Alone
<1>4. CASE buffer = <<>> /\ ~(call[c].round < Rounds[c])
  <2>1. EndTry(c, <<>>)
        BY <1>4 DEF Poll
  <2> QED BY <1>1, <1>4, <2>1, NothingIsNoAnswer, EndTryCall DEF Typed, Alone
<1> QED BY <1>2, <1>3, <1>4

\* A caller that gives up was not answered.
LEMMA GiveUpCall ==
    ASSUME Typed, NEW c \in Clients, GiveUp(c)
    PROVE  /\ Alone(c) /\ ~Idle(c) /\ call'[c].at \in {"write", "idle"}
           /\ call'[c].got = <<>> /\ (call'[c].ok => call[c].ok)
<1>1. ~Idle(c) /\ EndTry(c, <<>>)
      BY DEF GiveUp, Idle
<1> QED BY <1>1, NothingIsNoAnswer, EndTryCall DEF Typed, Alone

\* A caller that has copied the buffer clears it next.
LEMMA CopyCall ==
    ASSUME Typed, NEW c \in Clients, Copy(c)
    PROVE  /\ Alone(c) /\ ~Idle(c) /\ call'[c].at = "clear"
           /\ call'[c].got = buffer /\ call'[c].ok = call[c].ok
<1> DEFINE moved == [call[c] EXCEPT !.at = "clear", !.got = buffer]
<1>1. call[c] \in Call /\ Numbered(c) /\ ~Idle(c) /\ buffer \in Seq(Pieces) /\ "clear" \in Places
      BY DEF Typed, PortTyped, CallsTyped, Copy, Idle, Places
<1>2. call' = [call EXCEPT ![c].at = "clear", ![c].got = buffer]
      BY DEF Copy
<1>3. call' = [call EXCEPT ![c] = moved]
      BY <1>2 DEF Typed, CallsTyped
<1>4. /\ moved \in Call /\ moved.at = "clear" /\ moved.no = call[c].no /\ moved.round = call[c].round
      /\ moved.got = buffer /\ moved.ok = call[c].ok
      BY <1>1 DEF Call
<1> HIDE DEF moved
<1>5. Fits(c, moved)
      BY <1>1, <1>3, <1>4, BoundsAssumption DEF Call, Numbered, Fits, Idle
<1> QED BY <1>1, <1>3, <1>4, <1>5, CallSet DEF Typed, Alone

\* A caller that has taken its bytes looks again, tries again or is through.
LEMMA ClearCall ==
    ASSUME Typed, NEW c \in Clients, Clear(c)
    PROVE  /\ Alone(c) /\ ~Idle(c) /\ call[c].at = "clear"
           /\ call'[c].got = <<>>
           /\ \/ call'[c].at \in {"poll", "write"} /\ call'[c].ok = call[c].ok
              \/ call'[c].at = "idle" /\ call'[c].ok = Accepted(c, call[c].got)
<1>1. call[c].at = "clear" /\ ~Idle(c) /\ Taken(c) /\ call[c] \in Call /\ Numbered(c)
      BY DEF Typed, CallsTyped, Clear, Idle
<1>2. CASE call[c].got = <<>> /\ Kind[c] = "modbus" /\ call[c].round < Rounds[c]
  <2> DEFINE n == call[c].round + 1
              moved == [call[c] EXCEPT !.at = "poll", !.round = n]
  <2>1. call' = [call EXCEPT ![c].at = "poll", ![c].round = @ + 1]
        BY <1>1, <1>2 DEF Taken
  <2>2. call' = [call EXCEPT ![c] = moved]
        BY <2>1 DEF Typed, CallsTyped
  <2>3. n \in Nat /\ n <= Rounds[c] /\ "poll" \in Places
        BY <1>1, <1>2, BoundsAssumption DEF Call, Places
  <2>4. /\ moved \in Call /\ moved.at = "poll" /\ moved.no = call[c].no /\ moved.round = n
        /\ moved.got = call[c].got /\ moved.ok = call[c].ok
        BY <1>1, <2>3 DEF Call
  <2> HIDE DEF moved, n
  <2>5. Fits(c, moved)
        BY <1>1, <1>2, <2>2, <2>3, <2>4, BoundsAssumption DEF Call, Numbered, Fits, Idle
  <2> QED BY <1>1, <1>2, <2>2, <2>3, <2>4, <2>5, CallSet DEF Typed, Alone
<1>3. CASE ~(call[c].got = <<>> /\ Kind[c] = "modbus" /\ call[c].round < Rounds[c])
  <2>1. EndTry(c, call[c].got)
        BY <1>1, <1>3 DEF Taken
  <2> QED BY <1>1, <2>1, NothingIsNoAnswer, EndTryCall DEF Typed, Alone
<1> QED BY <1>2, <1>3

\* What a mishap may count up to, and what bytes that are fetched leave behind.
LEMMA MishapTyped ==
    ASSUME FlagsTyped, Mishap \/ UNCHANGED mishaps
    PROVE  mishaps' \in 0 .. MaxMishaps
BY BoundsAssumption DEF FlagsTyped, Mishap

\* Bytes that arrive are pieces of answers, before and after.
LEMMA FetchTyped ==
    ASSUME Typed, Fetch
    PROVE  buffer' \in Seq(Pieces) /\ out' \in Seq(Pieces) /\ stray' \in BOOLEAN
<1>1. PICK n \in 0 .. Len(out) :
         /\ buffer' = IF SubSeq(out, 1, n) = <<PowerOn>> THEN buffer ELSE buffer \o SubSeq(out, 1, n)
         /\ out' = SubSeq(out, n + 1, Len(out))
         /\ stray' = (stray \/ (n > 0 /\ \A c \in users : Idle(c)))
      BY DEF Fetch
<1>2. out \in Seq(Pieces) /\ buffer \in Seq(Pieces) /\ Len(out) \in Nat
      BY DEF Typed, PortTyped
<1>3. SubSeq(out, 1, n) \in Seq(Pieces) /\ SubSeq(out, n + 1, Len(out)) \in Seq(Pieces)
      BY <1>2, SubSeqProperties, ElementOfSeq
<1>4. buffer \o SubSeq(out, 1, n) \in Seq(Pieces)
      BY <1>2, <1>3, ConcatProperties
<1> QED BY <1>1, <1>2, <1>3, <1>4 DEF Typed, FlagsTyped

\* Typed is inductive.
LEMMA TypedStep == Typed /\ [Next]_vars => Typed'
<1> SUFFICES ASSUME Typed, [Next]_vars PROVE Typed'
    OBVIOUS
<1> USE DEF portVars, deviceVars, historyVars
<1>0. PortTyped /\ FlagsTyped /\ CallsTyped
      BY DEF Typed
<1>1. ASSUME NEW c \in Clients, Start(c) PROVE Typed'
  <2>1. CallsTyped'
        BY <1>1, StartCall
  <2>2. quiet' \in [Clients -> BOOLEAN]
        BY <1>1 DEF Start
  <2>3. PortTyped' /\ FlagsTyped'
        BY <1>0, <1>1, <2>2 DEF Start, PortTyped, FlagsTyped
  <2> QED BY <2>1, <2>3 DEF Typed
<1>2. ASSUME NEW c \in Clients, Flush(c) PROVE Typed'
  <2>1. CallsTyped'
        BY <1>2, FlushCall DEF Alone
  <2>2. PortTyped' /\ FlagsTyped'
        BY <1>0, <1>2, NoBytes DEF Flush, PortTyped, FlagsTyped
  <2> QED BY <2>1, <2>2 DEF Typed
<1>3. ASSUME NEW c \in Clients, Write(c) PROVE Typed'
  <2>1. CallsTyped' /\ ~Idle(c)
        BY <1>3, WriteCall DEF Alone
  <2>2. queue' \in Seq(Requests)
    <3>1. Request(c) \in Requests
          BY <2>1, RequestTyped
    <3>2. queue' = queue \/ queue' = Append(queue, Request(c)) \/ queue' = <<>>
          BY <1>3 DEF Write
    <3>3. queue \in Seq(Requests) /\ Append(queue, Request(c)) \in Seq(Requests)
          BY <1>0, <3>1 DEF PortTyped
    <3> QED BY <3>2, <3>3, NoBytes
  <2>3. bare' \in [Clients -> BOOLEAN] /\ stray' \in BOOLEAN
    <3>1. CASE isOpen
          BY <1>0, <1>3, <3>1 DEF Write, FlagsTyped
    <3>2. CASE ~isOpen
          BY <1>0, <1>3, <3>2 DEF Write, FlagsTyped
    <3> QED BY <3>1, <3>2
  <2>4. PortTyped' /\ FlagsTyped'
        BY <1>0, <1>3, <2>2, <2>3 DEF Write, PortTyped, FlagsTyped
  <2> QED BY <2>1, <2>4 DEF Typed
<1>4. ASSUME NEW c \in Clients, Poll(c) PROVE Typed'
  <2>1. CallsTyped'
        BY <1>4, PollCall DEF Alone
  <2>2. PortTyped' /\ FlagsTyped'
        BY <1>0, <1>4 DEF Poll, PortTyped, FlagsTyped
  <2> QED BY <2>1, <2>2 DEF Typed
<1>5. ASSUME NEW c \in Clients, GiveUp(c) PROVE Typed'
  <2>1. CallsTyped'
        BY <1>5, GiveUpCall DEF Alone
  <2>2. PortTyped' /\ FlagsTyped'
        BY <1>0, <1>5 DEF GiveUp, PortTyped, FlagsTyped
  <2> QED BY <2>1, <2>2 DEF Typed
<1>6. ASSUME NEW c \in Clients, Copy(c) PROVE Typed'
  <2>1. CallsTyped'
        BY <1>6, CopyCall DEF Alone
  <2>2. PortTyped' /\ FlagsTyped'
        BY <1>0, <1>6 DEF Copy, PortTyped, FlagsTyped
  <2> QED BY <2>1, <2>2 DEF Typed
<1>7. ASSUME NEW c \in Clients, Clear(c) PROVE Typed'
  <2>1. CallsTyped'
        BY <1>7, ClearCall DEF Alone
  <2>2. PortTyped' /\ FlagsTyped'
        BY <1>0, <1>7, NoBytes DEF Clear, PortTyped, FlagsTyped
  <2> QED BY <2>1, <2>2 DEF Typed
<1>8. ASSUME Send PROVE Typed'
  <2>1. CallsTyped'
        BY <1>0, <1>8 DEF Send, CallsTyped, Numbered
  <2>2. queue' \in Seq(Requests) /\ line' \in Seq(Requests)
        BY <1>0, <1>8 DEF Send, PortTyped
  <2>3. PortTyped' /\ FlagsTyped'
        BY <1>0, <1>8, <2>2, NoBytes DEF Send, PortTyped, FlagsTyped
  <2> QED BY <2>1, <2>3 DEF Typed
<1>9. ASSUME SendFails PROVE Typed'
  <2>1. CallsTyped'
        BY <1>0, <1>9 DEF SendFails, CallsTyped, Numbered
  <2>2. mishaps' \in 0 .. MaxMishaps
        BY <1>0, <1>9, MishapTyped DEF SendFails
  <2>3. PortTyped' /\ FlagsTyped'
        BY <1>0, <1>9, <2>2 DEF SendFails, PortTyped, FlagsTyped
  <2> QED BY <2>1, <2>3 DEF Typed
<1>10. ASSUME Receive PROVE Typed'
  <2>1. CallsTyped'
        BY <1>0, <1>10 DEF Receive, CallsTyped, Numbered
  <2>2. PortTyped' /\ FlagsTyped'
        BY <1>0, <1>10, FetchTyped DEF Receive, PortTyped, FlagsTyped
  <2> QED BY <2>1, <2>2 DEF Typed
<1>11. ASSUME OpenOrClose PROVE Typed'
  <2>1. CallsTyped'
        BY <1>0, <1>11 DEF OpenOrClose, CallsTyped, Numbered
  <2>2. mishaps' \in 0 .. MaxMishaps
        BY <1>0, <1>11, MishapTyped DEF OpenOrClose
  <2>3. PortTyped' /\ FlagsTyped'
        BY <1>0, <1>11, <2>2 DEF OpenOrClose, PortTyped, FlagsTyped
  <2> QED BY <2>1, <2>3 DEF Typed
<1>12. ASSUME Take PROVE Typed'
  <2>1. CallsTyped'
        BY <1>0, <1>12 DEF Take, CallsTyped, Numbered
  <2>2. mishaps' \in 0 .. MaxMishaps
        BY <1>0, <1>12, MishapTyped DEF Take
  <2>3. Head(line) \in Requests /\ line' \in Seq(Requests)
        BY <1>0, <1>12 DEF Take, PortTyped
  <2>4. /\ Append(out, Piece(Head(line), "whole")) \in Seq(Pieces)
        /\ out \o <<Piece(Head(line), "head"), Piece(Head(line), "rest")>> \in Seq(Pieces)
        BY <1>0, <2>3, PieceTyped, ConcatProperties DEF PortTyped
  <2>5. out' \in Seq(Pieces) /\ relays' \in Requests \cup {Nothing}
        BY <1>0, <1>12, <2>3, <2>4 DEF Take, PortTyped
  <2>6. PortTyped' /\ FlagsTyped'
        BY <1>0, <1>12, <2>2, <2>3, <2>5 DEF Take, PortTyped, FlagsTyped
  <2> QED BY <2>1, <2>6 DEF Typed
<1>13. ASSUME DeviceStarts PROVE Typed'
  <2>1. CallsTyped'
        BY <1>0, <1>13 DEF DeviceStarts, CallsTyped, Numbered
  <2>2. mishaps' \in 0 .. MaxMishaps
        BY <1>0, <1>13, MishapTyped DEF DeviceStarts
  <2>3. out' \in Seq(Pieces)
        BY <1>0, <1>13 DEF DeviceStarts, PortTyped, Pieces
  <2>4. PortTyped' /\ FlagsTyped'
        BY <1>0, <1>13, <2>2, <2>3 DEF DeviceStarts, PortTyped, FlagsTyped
  <2> QED BY <2>1, <2>4 DEF Typed
<1>14. ASSUME UNCHANGED vars PROVE Typed'
      BY <1>0, <1>14 DEF vars, Typed, PortTyped, FlagsTyped, CallsTyped, Numbered
<1>15. ASSUME Enter PROVE Typed'
  <2>1. CallsTyped'
        BY <1>0, <1>15 DEF Enter, CallsTyped, Numbered
  <2>2. PortTyped' /\ FlagsTyped'
        BY <1>0, <1>15 DEF Enter, PortTyped, FlagsTyped
  <2> QED BY <2>1, <2>2 DEF Typed
<1> QED BY <1>1, <1>2, <1>3, <1>4, <1>5, <1>6, <1>7, <1>8, <1>9, <1>10, <1>11, <1>12,
           <1>13, <1>14, <1>15 DEF Next, Caller, Timer

\* The port, its callers, the wire and the device keep to their values.
LEMMA TypedAlways == Spec => []Typed
<1>1. Init => Typed
  <2> SUFFICES ASSUME Init PROVE Typed
      OBVIOUS
  <2>1. CallsTyped
        BY RestTyped, BoundsAssumption DEF Init, CallsTyped, Numbered, Fits
  <2>2. PortTyped
        BY NoBytes DEF Init, PortTyped
  <2>3. FlagsTyped
    <3>1. users \in Ports /\ stray = FALSE /\ mishaps = 0
          BY DEF Init
    <3>2. bare \in [Clients -> BOOLEAN]
          BY DEF Init
    <3>3. quiet \in [Clients -> BOOLEAN]
          BY DEF Init
    <3>4. 0 \in 0 .. MaxMishaps
          BY BoundsAssumption
    <3> QED BY <3>1, <3>2, <3>3, <3>4 DEF FlagsTyped
  <2> QED BY <2>1, <2>2, <2>3 DEF Typed
<1> QED BY <1>1, TypedStep, PTL DEF Spec

\* Every variable of a port keeps to its values, for every set of callers and all bounds.
THEOREM TypeCorrect == Spec => []TypeOK
BY TypedAlways, TypedIsTypeOK, PTL

-----------------------------------------------------------------------------
(* The order of the commands: SerialLink implements CommandLine.           *)

\* On the line and the queue taken together: one more command is given.
LEMMA Given ==
    ASSUME NEW s \in Seq(Requests), NEW t \in Seq(Requests), NEW r \in Requests
    PROVE  s \o Append(t, r) = Append(s \o t, r)
<1>1. <<r>> \in Seq(Requests) /\ s \o t \in Seq(Requests)
      BY ConcatProperties
<1>2. s \o Append(t, r) = s \o (t \o <<r>>)
      BY AppendIsConcat
<1>3. Append(s \o t, r) = (s \o t) \o <<r>>
      BY <1>1, AppendIsConcat
<1> QED BY <1>1, <1>2, <1>3, ConcatAssociative

\* The oldest request is put on the wire.
LEMMA HandedOver ==
    ASSUME NEW s \in Seq(Requests), NEW t \in Seq(Requests), t # <<>>
    PROVE  Append(s, Head(t)) \o Tail(t) = s \o t
<1> DEFINE left == Append(s, Head(t)) \o Tail(t)
<1>1. /\ Head(t) \in Requests /\ Tail(t) \in Seq(Requests) /\ Len(Tail(t)) = Len(t) - 1
      /\ \A i \in 1 .. Len(Tail(t)) : Tail(t)[i] = t[i + 1]
      /\ Head(t) = t[1] /\ Len(t) \in Nat /\ Len(s) \in Nat /\ Len(t) > 0
      BY HeadTailProperties, LenProperties, EmptySeq
<1>2. /\ Append(s, Head(t)) \in Seq(Requests) /\ Len(Append(s, Head(t))) = Len(s) + 1
      /\ \A i \in 1 .. Len(s) : Append(s, Head(t))[i] = s[i]
      /\ Append(s, Head(t))[Len(s) + 1] = t[1]
      BY <1>1, AppendProperties
<1>3. /\ left \in Seq(Requests) /\ Len(left) = Len(s) + Len(t)
      /\ \A i \in 1 .. Len(s) + Len(t) :
            left[i] = IF i <= Len(s) + 1 THEN Append(s, Head(t))[i] ELSE Tail(t)[i - (Len(s) + 1)]
      BY <1>1, <1>2, ConcatProperties
<1>4. /\ s \o t \in Seq(Requests) /\ Len(s \o t) = Len(s) + Len(t)
      /\ \A i \in 1 .. Len(s) + Len(t) : (s \o t)[i] = IF i <= Len(s) THEN s[i] ELSE t[i - Len(s)]
      BY ConcatProperties
<1> HIDE DEF left
<1>5. ASSUME NEW i \in 1 .. Len(left) PROVE left[i] = (s \o t)[i]
  <2>1. CASE i <= Len(s)
        BY <1>1, <1>2, <1>3, <1>4, <2>1
  <2>2. CASE i = Len(s) + 1
        BY <1>1, <1>2, <1>3, <1>4, <2>2
  <2>3. CASE i > Len(s) + 1
        BY <1>1, <1>3, <1>4, <2>3
  <2> QED BY <1>1, <1>3, <2>1, <2>2, <2>3
<1>6. left = s \o t
      BY <1>3, <1>4, <1>5, SeqEqual
<1> QED BY <1>6 DEF left

\* The oldest request is taken off the wire.
LEMMA TakenOff ==
    ASSUME NEW s \in Seq(Requests), NEW t \in Seq(Requests), s # <<>>
    PROVE  Head(s \o t) = Head(s) /\ Tail(s \o t) = Tail(s) \o t /\ s \o t # <<>>
<1> DEFINE all == s \o t
           rest == Tail(s) \o t
<1>1. /\ Tail(s) \in Seq(Requests) /\ Len(Tail(s)) = Len(s) - 1
      /\ \A i \in 1 .. Len(Tail(s)) : Tail(s)[i] = s[i + 1]
      /\ Len(s) \in Nat /\ Len(s) > 0 /\ Len(t) \in Nat /\ Head(s) = s[1]
      BY HeadTailProperties, LenProperties, EmptySeq
<1>2. /\ all \in Seq(Requests) /\ Len(all) = Len(s) + Len(t)
      /\ \A i \in 1 .. Len(s) + Len(t) : all[i] = IF i <= Len(s) THEN s[i] ELSE t[i - Len(s)]
      BY ConcatProperties
<1>3. /\ rest \in Seq(Requests) /\ Len(rest) = Len(s) - 1 + Len(t)
      /\ \A i \in 1 .. Len(s) - 1 + Len(t) :
            rest[i] = IF i <= Len(s) - 1 THEN Tail(s)[i] ELSE t[i - (Len(s) - 1)]
      BY <1>1, ConcatProperties
<1> HIDE DEF all, rest
<1>4. all # <<>>
      BY <1>1, <1>2
<1>5. /\ Tail(all) \in Seq(Requests) /\ Len(Tail(all)) = Len(all) - 1 /\ Head(all) = all[1]
      /\ \A i \in 1 .. Len(Tail(all)) : Tail(all)[i] = all[i + 1]
      BY <1>2, <1>4, HeadTailProperties
<1>6. ASSUME NEW i \in 1 .. Len(Tail(all)) PROVE Tail(all)[i] = rest[i]
  <2>1. CASE i <= Len(s) - 1
        BY <1>1, <1>2, <1>3, <1>5, <2>1
  <2>2. CASE i > Len(s) - 1
        BY <1>1, <1>2, <1>3, <1>5, <2>2, SMTT(30)
  <2> QED BY <1>1, <1>2, <1>5, <2>1, <2>2
<1>7. Tail(all) = rest
      BY <1>1, <1>2, <1>3, <1>5, <1>6, SeqEqual
<1>8. Head(all) = Head(s)
      BY <1>1, <1>2, <1>5
<1> QED BY <1>4, <1>7, <1>8 DEF all, rest

\* What is still queued is dropped.
LEMMA Dropped ==
    ASSUME NEW s \in Seq(Requests), NEW t \in Seq(Requests)
    PROVE  \E n \in 0 .. Len(s \o t) : s \o <<>> = SubSeq(s \o t, 1, n)
<1>1. s \o <<>> = s /\ <<>> \o t = t /\ Len(s) \in Nat /\ Len(t) \in Nat /\ Len(s \o t) = Len(s) + Len(t)
      BY ConcatEmptySeq, ConcatProperties, LenProperties
<1>2. Len(s) \in 0 .. Len(s \o t)
      BY <1>1
<1>3. SubSeq(s \o t, 1, Len(s)) = s
  <2>1. CASE s = <<>>
        BY <1>1, <2>1, SubSeqEmpty
  <2>2. CASE s # <<>>
    <3>1. 1 \in 1 .. Len(s) /\ Len(s) \in 1 .. Len(s)
          BY <1>1, <2>2, EmptySeq
    <3>2. SubSeq(s \o t, 1, Len(s)) = SubSeq(s, 1, Len(s))
          BY <3>1, SubSeqOfConcat1
    <3> QED BY <3>2, SubSeqFull
  <2> QED BY <2>1, <2>2
<1> QED BY <1>1, <1>2, <1>3

\* The steps of CommandLine, seen in the line and the queue of a port.
LEMMA LineStep == Typed /\ [Next]_vars => [Line!Next]_<<line \o queue, relays>>
<1> SUFFICES ASSUME Typed, [Next]_vars PROVE [Line!Next]_<<line \o queue, relays>>
    OBVIOUS
<1> USE DEF portVars, deviceVars, historyVars
<1>0. queue \in Seq(Requests) /\ line \in Seq(Requests)
      BY DEF Typed, PortTyped
<1>1. ASSUME NEW c \in Clients, Write(c) PROVE [Line!Next]_<<line \o queue, relays>>
  <2>1. Request(c) \in Requests
        BY <1>1, WriteCall, RequestTyped
  <2>2. UNCHANGED <<line, relays>> /\ queue' \in {queue, Append(queue, Request(c)), <<>>}
        BY <1>1 DEF Write
  <2>3. CASE queue' = queue
        BY <2>2, <2>3
  <2>4. CASE queue' = Append(queue, Request(c))
    <3>1. line' \o queue' = Append(line \o queue, Request(c))
          BY <1>0, <2>1, <2>2, <2>4, Given
    <3>2. Line!Give(Request(c))
          BY <2>2, <3>1 DEF Line!Give
    <3> QED BY <2>1, <3>2 DEF Line!Next
  <2>5. CASE queue' = <<>>
    <3>1. \E n \in 0 .. Len(line \o queue) : line' \o queue' = SubSeq(line \o queue, 1, n)
          BY <1>0, <2>2, <2>5, Dropped
    <3>2. Line!Drop
          BY <2>2, <3>1 DEF Line!Drop
    <3> QED BY <3>2 DEF Line!Next
  <2> QED BY <2>2, <2>3, <2>4, <2>5
<1>2. ASSUME Send PROVE [Line!Next]_<<line \o queue, relays>>
  <2>1. queue # <<>> /\ line' = Append(line, Head(queue)) /\ queue' = Tail(queue) /\ relays' = relays
        BY <1>2 DEF Send
  <2>2. line' \o queue' = line \o queue
        BY <1>0, <2>1, HandedOver
  <2> QED BY <2>1, <2>2
<1>3. ASSUME SendFails PROVE [Line!Next]_<<line \o queue, relays>>
  <2>1. UNCHANGED <<line, relays>> /\ queue' = <<>>
        BY <1>3 DEF SendFails
  <2>2. \E n \in 0 .. Len(line \o queue) : line' \o queue' = SubSeq(line \o queue, 1, n)
        BY <1>0, <2>1, Dropped
  <2>3. Line!Drop
        BY <2>1, <2>2 DEF Line!Drop
  <2> QED BY <2>3 DEF Line!Next
<1>4. ASSUME Take PROVE [Line!Next]_<<line \o queue, relays>>
  <2>1. line # <<>> /\ line' = Tail(line) /\ queue' = queue
        BY <1>4 DEF Take
  <2>2. relays' = relays \/ relays' = Head(line)
        BY <1>4 DEF Take
  <2>3. /\ line \o queue # <<>> /\ line' \o queue' = Tail(line \o queue)
        /\ Head(line \o queue) = Head(line)
        BY <1>0, <2>1, TakenOff
  <2>4. CASE relays' = relays
    <3>1. Line!Lose
          BY <2>3, <2>4 DEF Line!Lose
    <3> QED BY <3>1 DEF Line!Next
  <2>5. CASE relays' = Head(line)
    <3>1. Line!Obey
          BY <2>3, <2>5 DEF Line!Obey
    <3> QED BY <3>1 DEF Line!Next
  <2> QED BY <2>2, <2>4, <2>5
<1>5. ASSUME NEW c \in Clients,
             Start(c) \/ Flush(c) \/ Poll(c) \/ GiveUp(c) \/ Copy(c) \/ Clear(c)
      PROVE  UNCHANGED <<line, queue, relays>>
      BY <1>5 DEF Start, Flush, Poll, GiveUp, Copy, Clear
<1>6. ASSUME Enter \/ Receive \/ OpenOrClose \/ DeviceStarts \/ UNCHANGED vars
      PROVE  UNCHANGED <<line, queue, relays>>
      BY <1>6 DEF Enter, Receive, OpenOrClose, DeviceStarts, vars
<1> QED BY <1>1, <1>2, <1>3, <1>4, <1>5, <1>6 DEF Next, Caller, Timer

\* Whatever becomes of answers, ports and callers: commands reach the device in the order
\* in which they were queued, none that nobody queued, none twice, none that was dropped.
THEOREM OrderKept == Spec => InOrder
<1>1. Init => Line!Init
  <2> SUFFICES ASSUME Init PROVE Line!Init
      OBVIOUS
  <2>1. line \o queue = <<>>
        BY NoBytes, ConcatEmptySeq DEF Init
  <2> QED BY <2>1 DEF Init, Line!Init
<1> QED BY <1>1, LineStep, TypedAlways, PTL DEF Spec, InOrder, Line!Spec
-----------------------------------------------------------------------------
(* Who was answered, and by what.                                          *)

\* What queues and buffers hold, as sets, after the operations of the model on them:
\* nothing.
LEMMA HeldNothing == ToSet(<<>>) = {}
BY DEF ToSet

\* Nothing but what may be in them, and nothing only when they are empty.
LEMMA Held ==
    ASSUME NEW S, NEW s \in Seq(S)
    PROVE  ToSet(s) \subseteq S /\ (ToSet(s) = {} <=> s = <<>>)
<1>1. DOMAIN s = 1 .. Len(s) /\ Len(s) \in Nat /\ \A i \in 1 .. Len(s) : s[i] \in S
      BY LenProperties, ElementOfSeq
<1>2. s # <<>> => 1 \in 1 .. Len(s)
      BY <1>1, EmptySeq
<1>3. ToSet(s) \subseteq S
      BY <1>1 DEF ToSet
<1>4. s # <<>> => s[1] \in ToSet(s)
      BY <1>1, <1>2 DEF ToSet
<1> QED BY <1>3, <1>4, HeldNothing

\* One more at the end.
LEMMA HeldMore ==
    ASSUME NEW S, NEW s \in Seq(S), NEW r \in S
    PROVE  ToSet(Append(s, r)) = ToSet(s) \cup {r}
<1>1. DOMAIN s = 1 .. Len(s) /\ Len(s) \in Nat
      BY LenProperties
<1>2. /\ DOMAIN Append(s, r) = 1 .. Len(s) + 1
      /\ \A i \in 1 .. Len(s) : Append(s, r)[i] = s[i]
      /\ Append(s, r)[Len(s) + 1] = r
      BY AppendProperties, LenProperties
<1>3. 1 .. Len(s) + 1 = 1 .. Len(s) \cup {Len(s) + 1}
      BY <1>1
<1> QED BY <1>1, <1>2, <1>3 DEF ToSet

\* The first one gone.
LEMMA HeldLess ==
    ASSUME NEW S, NEW s \in Seq(S), s # <<>>
    PROVE  ToSet(Tail(s)) \subseteq ToSet(s) /\ Head(s) \in ToSet(s)
<1>1. DOMAIN s = 1 .. Len(s) /\ Len(s) \in Nat
      BY LenProperties
<1>2. /\ DOMAIN Tail(s) = 1 .. Len(s) - 1 /\ \A i \in 1 .. Len(s) - 1 : Tail(s)[i] = s[i + 1]
      /\ Len(s) >= 1 /\ Head(s) = s[1]
      BY <1>1, HeadTailProperties, LenProperties, EmptySeq
<1>3. \A i \in 1 .. Len(s) - 1 : i + 1 \in 1 .. Len(s)
      BY <1>1
<1> QED BY <1>1, <1>2, <1>3 DEF ToSet

\* Two after each other.
LEMMA HeldBoth ==
    ASSUME NEW S, NEW s \in Seq(S), NEW t \in Seq(S)
    PROVE  ToSet(s \o t) = ToSet(s) \cup ToSet(t)
<1>1. /\ DOMAIN s = 1 .. Len(s) /\ DOMAIN t = 1 .. Len(t) /\ Len(s) \in Nat /\ Len(t) \in Nat
      /\ DOMAIN (s \o t) = 1 .. Len(s) + Len(t)
      /\ \A i \in 1 .. Len(s) + Len(t) : (s \o t)[i] = IF i <= Len(s) THEN s[i] ELSE t[i - Len(s)]
      BY LenProperties, ConcatProperties
<1>2. ASSUME NEW i \in 1 .. Len(s) PROVE i \in 1 .. Len(s) + Len(t) /\ (s \o t)[i] = s[i]
      BY <1>1
<1>3. ASSUME NEW i \in 1 .. Len(t)
      PROVE  Len(s) + i \in 1 .. Len(s) + Len(t) /\ (s \o t)[Len(s) + i] = t[i]
      BY <1>1
<1>4. ASSUME NEW i \in 1 .. Len(s) + Len(t)
      PROVE  \/ i \in 1 .. Len(s) /\ (s \o t)[i] = s[i]
             \/ i - Len(s) \in 1 .. Len(t) /\ (s \o t)[i] = t[i - Len(s)]
      BY <1>1
<1> QED BY <1>1, <1>2, <1>3, <1>4, SMTT(30) DEF ToSet

\* Bytes are held between the copy and the clearing of the buffer only, and a call that
\* is under way has not been answered.
Between(c) == /\ call[c].got # <<>> => call[c].at = "clear"
              /\ call[c].ok => Idle(c)

\* Nobody's later call is queued already.
NeverAhead == \A r \in ToSet(queue) : r.no <= call[r.by].no

\* As long as a request that was queued on an empty buffer, the timer not past its test,
\* is queued, nothing is received and the timer does not get past its test.
Unsent(c) == c \notin OnGui /\ bare[c] /\ Request(c) \in ToSet(queue) =>
                 /\ ~receiving /\ buffer = <<>>
                 /\ call[c].at \notin {"nap", "clear"} /\ ~call[c].ok

\* As long as a call of the GUI thread is under way, nothing is received.
Leftover(c) == c \in OnGui /\ bare[c] =>
                   /\ call[c].at = "poll" => buffer = <<>>
                   /\ call[c].at \notin {"nap", "clear"} /\ ~call[c].ok

Honest(c) == Between(c) /\ Unsent(c) /\ Leftover(c)
Answers == NeverAhead /\ \A c \in Clients : Honest(c)

\* A caller that a step leaves alone, which queues nothing for it and receives nothing.
LEMMA StillHonest ==
    ASSUME NEW c \in Clients, Honest(c), call'[c] = call[c], bare'[c] => bare[c],
           Request(c) \in ToSet(queue') => Request(c) \in ToSet(queue),
           buffer' \in {buffer, <<>>}, receiving' = receiving
    PROVE  Honest(c)'
<1>1. Request(c)' = Request(c)
      BY DEF Request
<1> QED BY <1>1 DEF Honest, Between, Unsent, Leftover, Idle

\* Numbers only grow, and a request is queued under the number of its call.
LEMMA StillNeverAhead ==
    ASSUME Typed, CallsTyped', NeverAhead, NEW c \in Clients,
           \A d \in Clients : call[d].no <= call'[d].no,
           \A r \in ToSet(queue') : r \in ToSet(queue) \/ (r = Request(c) /\ call'[c].no = call[c].no)
    PROVE  NeverAhead'
<1> SUFFICES ASSUME NEW r \in ToSet(queue') PROVE r.no <= call'[r.by].no
    BY DEF NeverAhead
<1>1. CASE r \in ToSet(queue)
  <2>1. r \in Requests
        BY <1>1, Held DEF Typed, PortTyped
  <2>2. r.by \in Clients /\ r.no \in Nat
        BY <2>1, BoundsAssumption DEF Requests
  <2>3. r.no <= call[r.by].no /\ call[r.by].no <= call'[r.by].no
        BY <1>1, <2>2 DEF NeverAhead
  <2> QED BY <2>2, <2>3 DEF Typed, CallsTyped, Call
<1>2. CASE r = Request(c) /\ call'[c].no = call[c].no
      BY <1>2 DEF Request, CallsTyped, Call
<1> QED BY <1>1, <1>2

\* Answers is inductive.
LEMMA AnswersStep == Typed /\ Typed' /\ Answers /\ [Next]_vars => Answers'
<1> SUFFICES ASSUME Typed, Typed', Answers, [Next]_vars PROVE Answers'
    OBVIOUS
<1> USE DEF portVars, deviceVars, historyVars
<1>0. /\ PortTyped /\ FlagsTyped /\ CallsTyped /\ CallsTyped' /\ NeverAhead
      /\ \A d \in Clients : Honest(d) /\ call[d] \in Call
      BY DEF Typed, Answers, CallsTyped
<1>a. ASSUME NEW c \in Clients, Alone(c), ToSet(queue') \subseteq ToSet(queue) \cup {Request(c)}
      PROVE  NeverAhead'
  <2>1. \A d \in Clients : call[d].no <= call'[d].no
        BY <1>0, <1>a DEF Alone, Call
  <2>2. \A r \in ToSet(queue') : r \in ToSet(queue) \/ (r = Request(c) /\ call'[c].no = call[c].no)
        BY <1>a DEF Alone
  <2> QED BY <1>0, <2>1, <2>2, StillNeverAhead
<1>b. ASSUME UNCHANGED call, ToSet(queue') \subseteq ToSet(queue)
      PROVE  NeverAhead'
  <2>1. CASE Clients = {}
    <3>1. Requests = {}
          BY <2>1 DEF Requests
    <3> QED BY <1>0, <1>b, <3>1, Held DEF PortTyped, NeverAhead
  <2>2. CASE Clients # {}
    <3>1. PICK c \in Clients : TRUE
          BY <2>2
    <3>2. \A d \in Clients : call[d].no <= call'[d].no
          BY <1>0, <1>b DEF Call
    <3> QED BY <1>0, <1>b, <3>2, StillNeverAhead
  <2> QED BY <2>1, <2>2
<1>1. ASSUME NEW c \in Clients, Start(c) PROVE Answers'
  <2>1. UNCHANGED <<queue, buffer, bare, receiving>>
        BY <1>1 DEF Start
  <2>2. /\ \A d \in Clients \ {c} : call'[d] = call[d]
        /\ Idle(c) /\ call'[c].at \in {"flush", "write"} /\ call'[c].no = call[c].no + 1
        /\ call'[c].got = <<>> /\ ~call'[c].ok
        BY <1>1, StartCall
  <2>3. NeverAhead'
    <3>1. \A d \in Clients : call[d].no <= call'[d].no
          BY <1>0, <2>2 DEF Call
    <3> QED BY <1>0, <2>1, <3>1, StillNeverAhead
  <2>4. Request(c)' \notin ToSet(queue')
    <3>1. ASSUME NEW r \in ToSet(queue), r = Request(c)' PROVE FALSE
      <4>1. r.by = c /\ r.no = call[c].no + 1
            BY <2>2, <3>1 DEF Request
      <4>2. r.no <= call[c].no
            BY <1>0, <4>1 DEF NeverAhead
      <4> QED BY <1>0, <4>1, <4>2 DEF Call
    <3> QED BY <2>1, <3>1
  <2>5. Honest(c)'
        BY <2>2, <2>4 DEF Honest, Between, Unsent, Leftover
  <2>6. \A d \in Clients \ {c} : Honest(d)'
        BY <1>0, <2>1, <2>2, StillHonest
  <2> QED BY <2>3, <2>5, <2>6 DEF Answers
<1>2. ASSUME NEW c \in Clients, Flush(c) PROVE Answers'
  <2>1. UNCHANGED <<queue, bare, receiving>> /\ buffer' = <<>> /\ call[c].at = "flush"
        BY <1>2 DEF Flush
  <2>2. /\ Alone(c) /\ call'[c].at = "write" /\ ~Idle(c)
        /\ call'[c].got = call[c].got /\ call'[c].ok = call[c].ok
        BY <1>2, FlushCall
  <2>3. Request(c)' = Request(c) /\ ~call[c].ok
        BY <1>0, <2>2 DEF Alone, Request, Honest, Between
  <2>4. Honest(c)'
        BY <1>0, <2>1, <2>2, <2>3 DEF Honest, Between, Unsent, Leftover
  <2>5. \A d \in Clients \ {c} : Honest(d)'
        BY <1>0, <2>1, <2>2, StillHonest DEF Alone
  <2> QED BY <1>a, <2>1, <2>2, <2>4, <2>5 DEF Answers
<1>3. ASSUME NEW c \in Clients, Write(c) PROVE Answers'
  <2>1. UNCHANGED <<buffer, receiving>> /\ call[c].at = "write" /\ ~Idle(c)
        BY <1>3 DEF Write, Idle
  <2>2. Alone(c) /\ Request(c) \in Requests
        BY <1>3, WriteCall, RequestTyped
  <2>3. CASE isOpen
    <3>0. queue' = Append(queue, Request(c)) /\ bare' = [bare EXCEPT ![c] = buffer = <<>> /\ (receiving => c \in OnGui)]
          BY <1>3, <2>3 DEF Write
    <3>1. ToSet(queue') = ToSet(queue) \cup {Request(c)}
          BY <1>0, <2>2, <3>0, HeldMore DEF PortTyped
    <3>2. call'[c].at = "poll" /\ call'[c].got = call[c].got /\ call'[c].ok = call[c].ok
          BY <1>3, <2>3, WriteCall
    <3>3. bare'[c] => buffer = <<>> /\ (receiving => c \in OnGui)
          BY <1>0, <3>0 DEF FlagsTyped
    <3>4. Honest(c)'
          BY <1>0, <2>1, <3>2, <3>3 DEF Idle, Honest, Between, Unsent, Leftover
    <3>5. ASSUME NEW d \in Clients \ {c} PROVE Honest(d)'
      <4>1. Request(d) # Request(c) /\ bare'[d] = bare[d]
            BY <1>0, <3>0 DEF Request, FlagsTyped
      <4> QED BY <1>0, <2>1, <2>2, <3>1, <4>1, StillHonest DEF Alone
    <3> QED BY <1>a, <2>2, <3>1, <3>4, <3>5 DEF Answers
  <2>4. CASE ~isOpen
    <3>1. queue' \in {queue, <<>>} /\ ToSet(queue') \subseteq ToSet(queue)
          BY <1>3, <2>4, HeldNothing DEF Write
    <3>2. call'[c].at \in {"write", "idle"} /\ call'[c].got = <<>> /\ (call'[c].ok => call[c].ok)
          BY <1>3, <2>4, WriteCall
    <3>3. \A d \in Clients : bare'[d] => bare[d]
          BY <1>0, <1>3, <2>4 DEF Write, FlagsTyped
    <3>4. Request(c)' = Request(c) /\ ~call[c].ok
          BY <1>0, <2>1, <2>2 DEF Alone, Request, Honest, Between
    <3>5. Honest(c)'
          BY <1>0, <2>1, <3>1, <3>2, <3>3, <3>4 DEF Honest, Between, Unsent, Leftover
    <3>6. \A d \in Clients \ {c} : Honest(d)'
          BY <1>0, <2>1, <2>2, <3>1, <3>3, StillHonest DEF Alone
    <3> QED BY <1>a, <2>2, <3>1, <3>5, <3>6 DEF Answers
  <2> QED BY <2>3, <2>4
<1>4. ASSUME NEW c \in Clients, Poll(c) PROVE Answers'
  <2>1. UNCHANGED <<queue, buffer, bare, receiving>> /\ call[c].at = "poll"
        BY <1>4 DEF Poll
  <2>2. /\ Alone(c) /\ ~Idle(c)
        /\ \/ /\ buffer # <<>> /\ call'[c].at = "nap"
              /\ call'[c].got = call[c].got /\ call'[c].ok = call[c].ok
           \/ /\ buffer = <<>> /\ call'[c].at = "poll"
              /\ call'[c].got = call[c].got /\ call'[c].ok = call[c].ok
           \/ /\ buffer = <<>> /\ call'[c].at \in {"write", "idle"}
              /\ call'[c].got = <<>> /\ (call'[c].ok => call[c].ok)
        BY <1>4, PollCall
  <2>3. Request(c)' = Request(c) /\ ~call[c].ok
        BY <1>0, <2>2 DEF Alone, Request, Honest, Between
  <2>4. Honest(c)'
        BY <1>0, <2>1, <2>2, <2>3 DEF Honest, Between, Unsent, Leftover
  <2>5. \A d \in Clients \ {c} : Honest(d)'
        BY <1>0, <2>1, <2>2, StillHonest DEF Alone
  <2> QED BY <1>a, <2>1, <2>2, <2>4, <2>5 DEF Answers
<1>5. ASSUME NEW c \in Clients, GiveUp(c) PROVE Answers'
  <2>1. UNCHANGED <<queue, buffer, bare, receiving>>
        BY <1>5 DEF GiveUp
  <2>2. /\ Alone(c) /\ ~Idle(c) /\ call'[c].at \in {"write", "idle"}
        /\ call'[c].got = <<>> /\ (call'[c].ok => call[c].ok)
        BY <1>5, GiveUpCall
  <2>3. Request(c)' = Request(c) /\ ~call[c].ok
        BY <1>0, <2>2 DEF Alone, Request, Honest, Between
  <2>4. Honest(c)'
        BY <1>0, <2>1, <2>2, <2>3 DEF Honest, Between, Unsent, Leftover
  <2>5. \A d \in Clients \ {c} : Honest(d)'
        BY <1>0, <2>1, <2>2, StillHonest DEF Alone
  <2> QED BY <1>a, <2>1, <2>2, <2>4, <2>5 DEF Answers
<1>6. ASSUME NEW c \in Clients, Copy(c) PROVE Answers'
  <2>1. UNCHANGED <<queue, buffer, bare, receiving>> /\ call[c].at = "nap"
        BY <1>6 DEF Copy
  <2>2. Alone(c) /\ ~Idle(c) /\ call'[c].at = "clear" /\ call'[c].ok = call[c].ok
        BY <1>6, CopyCall
  <2>3. Request(c)' = Request(c) /\ ~call[c].ok
        BY <1>0, <2>2 DEF Alone, Request, Honest, Between
  <2>4. Honest(c)'
        BY <1>0, <2>1, <2>2, <2>3 DEF Honest, Between, Unsent, Leftover
  <2>5. \A d \in Clients \ {c} : Honest(d)'
        BY <1>0, <2>1, <2>2, StillHonest DEF Alone
  <2> QED BY <1>a, <2>1, <2>2, <2>4, <2>5 DEF Answers
<1>7. ASSUME NEW c \in Clients, Clear(c) PROVE Answers'
  <2>1. UNCHANGED <<queue, bare, receiving>> /\ buffer' = <<>> /\ call[c].at = "clear" /\ ~Idle(c)
        BY <1>7 DEF Clear, Idle
  <2>2. /\ Alone(c) /\ call'[c].got = <<>>
        /\ \/ call'[c].at \in {"poll", "write"} /\ call'[c].ok = call[c].ok
           \/ call'[c].at = "idle" /\ call'[c].ok = Accepted(c, call[c].got)
        BY <1>7, ClearCall
  <2>3. Request(c)' = Request(c) /\ ~call[c].ok /\ ~(bare[c] /\ (c \in OnGui \/ Request(c) \in ToSet(queue)))
        BY <1>0, <2>1, <2>2 DEF Alone, Request, Honest, Between, Unsent, Leftover
  <2>4. Honest(c)'
        BY <1>0, <2>1, <2>2, <2>3 DEF Honest, Between, Unsent, Leftover, Idle
  <2>5. \A d \in Clients \ {c} : Honest(d)'
        BY <1>0, <2>1, <2>2, StillHonest DEF Alone
  <2> QED BY <1>a, <2>1, <2>2, <2>4, <2>5 DEF Answers
<1>8. ASSUME Send PROVE Answers'
  <2>1. UNCHANGED <<call, bare, receiving>> /\ buffer' = <<>> /\ queue # <<>> /\ queue' = Tail(queue)
        BY <1>8 DEF Send
  <2>2. ToSet(queue') \subseteq ToSet(queue)
        BY <1>0, <2>1, HeldLess DEF PortTyped
  <2>3. \A d \in Clients : Honest(d)'
        BY <1>0, <2>1, <2>2, StillHonest
  <2> QED BY <1>b, <2>1, <2>2, <2>3 DEF Answers
<1>9. ASSUME SendFails PROVE Answers'
  <2>1. UNCHANGED <<call, buffer, receiving>> /\ queue' = <<>> /\ \A d \in Clients : ~bare'[d]
        BY <1>9 DEF SendFails
  <2>2. \A d \in Clients : Honest(d)'
        BY <1>0, <2>1, HeldNothing, StillHonest
  <2> QED BY <1>b, <2>1, <2>2, HeldNothing DEF Answers
<1>10. ASSUME Receive PROVE Answers'
  <2>1. UNCHANGED <<call, bare, queue>> /\ receiving /\ \A c \in OnGui : Idle(c)
        BY <1>10 DEF Receive, Fire, GuiFree
  <2>2. \A d \in Clients : Honest(d)'
        BY <1>0, <2>1 DEF Honest, Between, Unsent, Leftover, Idle, Request
  <2> QED BY <1>b, <2>1, <2>2 DEF Answers
<1>11. ASSUME UNCHANGED <<call, bare, queue, buffer, receiving>> PROVE Answers'
  <2>1. \A d \in Clients : Honest(d)'
        BY <1>0, <1>11, StillHonest
  <2> QED BY <1>b, <1>11, <2>1 DEF Answers
<1>12. ASSUME OpenOrClose \/ Take \/ DeviceStarts \/ UNCHANGED vars
       PROVE  UNCHANGED <<call, bare, queue, buffer, receiving>>
      BY <1>12 DEF OpenOrClose, Take, DeviceStarts, vars
<1>13. ASSUME Enter PROVE Answers'
  <2>1. UNCHANGED <<call, bare, buffer, queue>> /\ queue = <<>>
        BY <1>13 DEF Enter
  <2>2. \A d \in Clients : Honest(d)'
        BY <1>0, <2>1, HeldNothing DEF Honest, Between, Unsent, Leftover, Idle
  <2> QED BY <1>b, <2>1, <2>2 DEF Answers
<1> QED BY <1>1, <1>2, <1>3, <1>4, <1>5, <1>6, <1>7, <1>8, <1>9, <1>10, <1>11, <1>12, <1>13
        DEF Next, Caller, Timer

\* The invariant of the answers holds of every behaviour.
LEMMA AnswersAlways == Spec => [](Typed /\ Answers)
<1>1. Init => Answers
  <2> SUFFICES ASSUME Init PROVE Answers
      OBVIOUS
  <2>1. queue = <<>> /\ buffer = <<>> /\ \A c \in Clients : call[c] = Rest /\ ~bare[c]
        BY DEF Init
  <2> QED BY <2>1, RestTyped, HeldNothing
          DEF Answers, NeverAhead, Honest, Between, Unsent, Leftover, Idle
<1> QED BY <1>1, AnswersStep, TypedAlways, PTL DEF Spec

\* Whatever else uses the line: a call that was answered is not still queued, unless old
\* bytes were in the buffer when it was queued, the timer was past its test of the queue,
\* or the port dropped requests.
THEOREM AnsweredWasSent == Spec => []AckedWasSent
<1>1. Answers => AckedWasSent
      BY DEF Answers, Honest, Unsent, Leftover, AckedWasSent
<1> QED BY <1>1, AnswersAlways, PTL

\* A call that the GUI thread makes while it keeps the timer from firing takes only bytes
\* that were there before it: never an answer to what it asked.
THEOREM GuiIsDeaf == Spec => []GuiTakesLeftovers
<1>1. Answers => GuiTakesLeftovers
      BY OnGuiAssumption DEF Answers, Honest, Between, Leftover, GuiTakesLeftovers
<1> QED BY <1>1, AnswersAlways, PTL

\* Only the callers of this port call, and between calls the bytes nobody waited for are
\* known as such.
Users == /\ \A c \in Clients \ users : Idle(c)
         /\ (\A c \in users : Idle(c)) /\ ~stray => buffer = <<>>

\* One 0xff is on its way at most, and it alone is never taken for an answer.
Substance(bytes) == bytes # <<>> => \E p \in ToSet(bytes) : p # PowerOn
PowersOn == /\ \A i, j \in DOMAIN out : out[i] = PowerOn /\ out[j] = PowerOn => i = j
            /\ Substance(buffer)
            /\ \A c \in Clients : Substance(call[c].got)

\* A call that began on an idle line: nobody else calls, what is queued or on the wire is
\* its request, and the bytes on their way answer it, so that the device has obeyed it.
Owned(c, bytes) == \A p \in ToSet(bytes) : /\ p.of \in {Request(c), Nothing}
                                           /\ p # PowerOn => relays = Request(c)
Undisturbed(c) == quiet[c] =>
    /\ \A d \in Clients \ {c} : Idle(d)
    /\ \A r \in ToSet(queue) \cup ToSet(line) : r = Request(c)
    /\ Owned(c, out) /\ Owned(c, buffer) /\ Owned(c, call[c].got)
    /\ call[c].ok => relays = Request(c)

Owning == Users /\ PowersOn /\ \A c \in Clients : Undisturbed(c)

\* 0xff is nobody's answer.
LEMMA NobodysAnswer ==
    ASSUME NEW p \in Pieces, p # PowerOn
    PROVE  p.of # Nothing
<1>1. p.of \in Requests
      BY DEF Pieces
<1>2. \A r \in Requests : r.no # 0
      BY BoundsAssumption DEF Requests
<1> QED BY <1>1, <1>2 DEF Nothing

\* A step of a caller that leaves the wire alone and takes what it takes from the buffer.
LEMMA CallerOwns ==
    ASSUME Typed, Owning, NEW c \in Clients, Alone(c), ~Idle(c),
           UNCHANGED <<users, quiet, line, out, relays>>,
           buffer' = buffer \/ buffer' = <<>>,
           Idle(c)' => stray' \/ buffer' = <<>>,
           ToSet(queue') \subseteq ToSet(queue) \cup {Request(c)},
           call'[c].got = call[c].got \/ call'[c].got = <<>> \/ call'[c].got = buffer,
           call'[c].ok => call[c].ok \/ call[c].got # <<>>
    PROVE  Owning'
<1>0. Users /\ PowersOn /\ (\A d \in Clients : Undisturbed(d)) /\ c \in users /\ Request(c)' = Request(c)
      BY DEF Owning, Users, Alone, Request
<1>1. Users'
      BY <1>0 DEF Users, Alone, Idle
<1>2. PowersOn'
  <2>1. Substance(<<>>) /\ Substance(buffer) /\ \A d \in Clients : Substance(call[d].got)
        BY <1>0 DEF Substance, PowersOn
  <2>2. Substance(buffer')
        BY <2>1
  <2>3. \A d \in Clients : Substance(call'[d].got)
        BY <2>1 DEF Alone
  <2> QED BY <1>0, <2>2, <2>3 DEF PowersOn, Substance
<1>3. ASSUME NEW d \in Clients, quiet'[d] PROVE Undisturbed(d)'
  <2>1. d = c /\ quiet[c]
        BY <1>0, <1>3 DEF Undisturbed
  <2>2. /\ \A e \in Clients \ {c} : Idle(e)
        /\ \A r \in ToSet(queue) \cup ToSet(line) : r = Request(c)
        /\ Owned(c, out) /\ Owned(c, buffer) /\ Owned(c, call[c].got)
        /\ call[c].ok => relays = Request(c)
        BY <1>0, <2>1 DEF Undisturbed
  <2>3. \A e \in Clients \ {c} : Idle(e)'
        BY <2>2 DEF Alone, Idle
  <2>4. \A r \in ToSet(queue') \cup ToSet(line') : r = Request(c)
        BY <2>2
  <2>5. Owned(c, <<>>)
        BY HeldNothing DEF Owned
  <2>6. Owned(c, out') /\ Owned(c, buffer') /\ Owned(c, call'[c].got)
        BY <2>2, <2>5
  <2>7. Owned(c, out)' /\ Owned(c, buffer)' /\ Owned(c, call[c].got)'
        BY <1>0, <2>6 DEF Owned
  <2>8. ASSUME call[c].got # <<>> PROVE relays = Request(c)
    <3>1. PICK p \in ToSet(call[c].got) : p # PowerOn
          BY <1>0, <2>8 DEF PowersOn, Substance
    <3> QED BY <2>2, <3>1 DEF Owned
  <2> QED BY <1>0, <2>1, <2>2, <2>3, <2>4, <2>7, <2>8 DEF Undisturbed
<1> QED BY <1>1, <1>2, <1>3 DEF Owning, Undisturbed

\* A step of the port or the device that brings nothing new but, perhaps, a 0xff.
LEMMA LineOwns ==
    ASSUME Typed, Owning, UNCHANGED <<users, call, quiet, relays>>, Users', PowersOn',
           ToSet(queue') \cup ToSet(line') \subseteq ToSet(queue) \cup ToSet(line),
           ToSet(out') \cup ToSet(buffer') \subseteq ToSet(out) \cup ToSet(buffer) \cup {PowerOn}
    PROVE  Owning'
<1>1. ASSUME NEW c \in Clients, quiet[c] PROVE Undisturbed(c)'
  <2>1. /\ \A e \in Clients \ {c} : Idle(e)
        /\ \A r \in ToSet(queue) \cup ToSet(line) : r = Request(c)
        /\ Owned(c, out) /\ Owned(c, buffer) /\ Owned(c, call[c].got)
        /\ call[c].ok => relays = Request(c)
        BY <1>1 DEF Owning, Undisturbed
  <2>2. Request(c)' = Request(c) /\ \A e \in Clients : Idle(e)' <=> Idle(e)
        BY DEF Request, Idle
  <2>3. \A r \in ToSet(queue') \cup ToSet(line') : r = Request(c)
        BY <2>1
  <2>4. PowerOn.of = Nothing
        BY DEF PowerOn, Piece
  <2>5. Owned(c, out)' /\ Owned(c, buffer)' /\ Owned(c, call[c].got)'
        BY <2>1, <2>2, <2>4 DEF Owned
  <2> QED BY <2>1, <2>2, <2>3, <2>5 DEF Undisturbed
<1> QED BY <1>1 DEF Owning, Undisturbed

\* Bytes that arrive.
LEMMA FetchOwns ==
    ASSUME Typed, Owning, Fetch, UNCHANGED <<users, call>>
    PROVE  /\ Users' /\ PowersOn'
           /\ ToSet(out') \cup ToSet(buffer') \subseteq ToSet(out) \cup ToSet(buffer)
<1>1. PICK n \in 0 .. Len(out) :
         /\ buffer' = IF SubSeq(out, 1, n) = <<PowerOn>> THEN buffer ELSE buffer \o SubSeq(out, 1, n)
         /\ out' = SubSeq(out, n + 1, Len(out))
         /\ stray' = (stray \/ (n > 0 /\ \A c \in users : Idle(c)))
      BY DEF Fetch
<1> DEFINE bytes == SubSeq(out, 1, n)
<1>2. out \in Seq(Pieces) /\ buffer \in Seq(Pieces) /\ Len(out) \in Nat /\ DOMAIN out = 1 .. Len(out)
      BY LenProperties DEF Typed, PortTyped
<1>3. /\ bytes \in Seq(Pieces) /\ Len(bytes) = n /\ DOMAIN bytes = 1 .. n
      /\ \A i \in 1 .. n : bytes[i] = out[i]
      BY <1>2, SubSeqProperties, ElementOfSeq, LenProperties
<1>4. /\ out' \in Seq(Pieces) /\ Len(out') = Len(out) - n /\ DOMAIN out' = 1 .. Len(out) - n
      /\ \A i \in 1 .. Len(out) - n : out'[i] = out[n + i]
  <2>1. /\ SubSeq(out, n + 1, Len(out)) \in Seq(Pieces)
        /\ Len(SubSeq(out, n + 1, Len(out))) = Len(out) - n
        /\ \A i \in 1 .. Len(out) - n : SubSeq(out, n + 1, Len(out))[i] = out[n + i]
        BY <1>2, SubSeqProperties, ElementOfSeq
  <2> QED BY <1>1, <2>1, LenProperties
<1> HIDE DEF bytes
<1>5. buffer' = IF bytes = <<PowerOn>> THEN buffer ELSE buffer \o bytes
      BY <1>1 DEF bytes
<1>6. ToSet(bytes) \subseteq ToSet(out) /\ ToSet(out') \subseteq ToSet(out)
  <2>1. \A i \in 1 .. n : i \in 1 .. Len(out)
        BY <1>2
  <2>2. \A i \in 1 .. Len(out) - n : n + i \in 1 .. Len(out)
        BY <1>2
  <2>3. ToSet(bytes) \subseteq ToSet(out)
        BY <1>2, <1>3, <2>1 DEF ToSet
  <2>4. ToSet(out') \subseteq ToSet(out)
        BY <1>2, <1>4, <2>2 DEF ToSet
  <2> QED BY <2>3, <2>4
<1>7. ToSet(buffer \o bytes) = ToSet(buffer) \cup ToSet(bytes)
      BY <1>2, <1>3, HeldBoth
<1>a. n = 0 => buffer' = buffer
      BY <1>2, <1>3, <1>5, EmptySeq, ConcatEmptySeq
<1>8. Users'
  <2>1. n > 0 /\ (\A c \in users : Idle(c)') => stray'
        BY <1>1 DEF Idle
  <2>2. \A c \in Clients \ users' : Idle(c)'
        BY DEF Owning, Users, Idle
  <2>3. n = 0 => UNCHANGED <<buffer, stray>>
        BY <1>1, <1>a DEF Typed, FlagsTyped
  <2>4. n = 0 \/ n > 0
        BY <1>2
  <2> QED BY <2>1, <2>2, <2>3, <2>4 DEF Owning, Users, Idle
<1>9. Substance(buffer')
  <2>1. Substance(buffer)
        BY DEF Owning, PowersOn
  <2>2. CASE buffer # <<>> /\ bytes # <<PowerOn>>
    <3>1. PICK p \in ToSet(buffer) : p # PowerOn
          BY <2>1, <2>2 DEF Substance
    <3> QED BY <1>5, <1>7, <2>2, <3>1 DEF Substance
  <2>3. CASE buffer = <<>> /\ bytes # <<PowerOn>> /\ n # 0
    <3>1. 1 \in 1 .. n /\ (n # 1 => 2 \in 1 .. n)
          BY <1>2, <2>3
    <3>2. \A i \in 1 .. n : bytes[i] \in ToSet(bytes)
          BY <1>3 DEF ToSet
    <3>3. CASE bytes[1] # PowerOn
          BY <1>5, <1>7, <2>3, <3>1, <3>2, <3>3 DEF Substance
    <3>4. CASE bytes[1] = PowerOn /\ n # 1
      <4>1. bytes[2] # PowerOn
        <5>1. 1 \in DOMAIN out /\ 2 \in DOMAIN out /\ bytes[1] = out[1] /\ bytes[2] = out[2]
              BY <1>2, <1>3, <3>1, <3>4
        <5> QED BY <3>4, <5>1 DEF Owning, PowersOn
      <4> QED BY <1>5, <1>7, <2>3, <3>1, <3>2, <3>4, <4>1 DEF Substance
    <3>5. CASE bytes[1] = PowerOn /\ n = 1
      <4>1. PowerOn \in Pieces
            BY DEF Pieces
      <4>2. <<PowerOn>> \in Seq(Pieces) /\ Len(<<PowerOn>>) = 1 /\ <<PowerOn>>[1] = PowerOn
            BY <4>1
      <4>3. bytes = <<PowerOn>>
            BY <1>3, <3>5, <4>2, SeqEqual
      <4> QED BY <2>3, <4>3
    <3> QED BY <3>3, <3>4, <3>5
  <2>4. CASE n = 0
        BY <1>a, <2>1, <2>4
  <2> QED BY <1>5, <2>1, <2>2, <2>3, <2>4
<1>10. \A i, j \in DOMAIN out' : out'[i] = PowerOn /\ out'[j] = PowerOn => i = j
  <2> SUFFICES ASSUME NEW i \in DOMAIN out', NEW j \in DOMAIN out',
                      out'[i] = PowerOn, out'[j] = PowerOn
               PROVE  i = j
      OBVIOUS
  <2>1. n + i \in DOMAIN out /\ n + j \in DOMAIN out /\ i \in Nat /\ j \in Nat /\ n \in Nat
        BY <1>2, <1>4
  <2>2. out[n + i] = PowerOn /\ out[n + j] = PowerOn
        BY <1>4
  <2>3. n + i = n + j
        BY <2>1, <2>2 DEF Owning, PowersOn
  <2> QED BY <2>1, <2>3
<1>11. PowersOn'
      BY <1>9, <1>10 DEF Owning, PowersOn, Substance
<1> QED BY <1>5, <1>6, <1>7, <1>8, <1>11

\* A request that the device obeyed, and its answer.
LEMMA TakeOwns ==
    ASSUME Typed, Owning, Take
    PROVE  Owning'
<1> USE DEF portVars, deviceVars, historyVars
<1>0. /\ Users /\ PowersOn /\ \A c \in Clients : Undisturbed(c)
      /\ UNCHANGED <<users, call, quiet, queue, buffer, stray>>
      /\ line # <<>> /\ line' = Tail(line)
      BY DEF Owning, Take
<1>1. line \in Seq(Requests) /\ out \in Seq(Pieces)
      BY DEF Typed, PortTyped
<1>2. Head(line) \in ToSet(line) /\ ToSet(line') \subseteq ToSet(line) /\ Head(line) \in Requests
      BY <1>0, <1>1, HeldLess, Held
<1> DEFINE whole == Piece(Head(line), "whole")
           first == Piece(Head(line), "head")
           other == Piece(Head(line), "rest")
<1>3. /\ whole \in Pieces \ {PowerOn} /\ first \in Pieces \ {PowerOn} /\ other \in Pieces \ {PowerOn}
      /\ whole.of = Head(line) /\ first.of = Head(line) /\ other.of = Head(line)
  <2>1. whole \in Pieces /\ first \in Pieces /\ other \in Pieces
        BY <1>2, PieceTyped
  <2> QED BY <2>1 DEF Piece, PowerOn
<1>4. \/ out' = out /\ relays' \in {relays, Head(line)}
      \/ out' = Append(out, whole) /\ relays' = Head(line)
      \/ out' = out \o <<first, other>> /\ relays' = Head(line)
      BY DEF Take
<1> HIDE DEF whole, first, other
<1>5. <<first, other>> \in Seq(Pieces) /\ ToSet(<<first, other>>) = {first, other}
      BY <1>3 DEF ToSet
<1>6. /\ ToSet(out') \subseteq ToSet(out) \cup {whole, first, other}
      /\ ToSet(out') # ToSet(out) => relays' = Head(line)
  <2>1. ToSet(Append(out, whole)) = ToSet(out) \cup {whole}
        BY <1>1, <1>3, HeldMore
  <2>2. ToSet(out \o <<first, other>>) = ToSet(out) \cup {first, other}
    <3>1. \A t \in Seq(Pieces) : ToSet(out \o t) = ToSet(out) \cup ToSet(t)
          BY <1>1, HeldBoth
    <3> QED BY <1>5, <3>1
  <2> QED BY <1>4, <2>1, <2>2
<1>7. \A i \in DOMAIN out' : out'[i] = PowerOn => i \in DOMAIN out /\ out[i] = PowerOn
  <2>1. DOMAIN out = 1 .. Len(out) /\ Len(out) \in Nat
        BY <1>1, LenProperties
  <2>2. CASE out' = out
        BY <2>2
  <2>3. CASE out' = Append(out, whole)
    <3>1. /\ DOMAIN out' = 1 .. Len(out) + 1 /\ out'[Len(out) + 1] = whole
          /\ \A i \in 1 .. Len(out) : out'[i] = out[i]
          BY <1>1, <1>3, <2>3, AppendProperties, LenProperties
    <3>2. ASSUME NEW i \in DOMAIN out', out'[i] = PowerOn PROVE i \in 1 .. Len(out)
          BY <1>3, <2>1, <3>1, <3>2
    <3> QED BY <2>1, <3>1, <3>2
  <2>4. CASE out' = out \o <<first, other>>
    <3>1. /\ DOMAIN out' = 1 .. Len(out) + 2
          /\ \A i \in 1 .. Len(out) + 2 :
                out'[i] = IF i <= Len(out) THEN out[i] ELSE <<first, other>>[i - Len(out)]
          BY <1>1, <1>5, <2>4, ConcatProperties, LenProperties
    <3>2. out'[Len(out) + 1] = first /\ out'[Len(out) + 2] = other
          BY <2>1, <3>1
    <3>3. ASSUME NEW i \in DOMAIN out', out'[i] = PowerOn PROVE i \in 1 .. Len(out)
          BY <1>3, <2>1, <3>1, <3>2, <3>3
    <3> QED BY <2>1, <3>1, <3>3
  <2> QED BY <1>4, <2>2, <2>3, <2>4
<1>8. PowersOn'
      BY <1>0, <1>7 DEF PowersOn, Substance
<1>9. Users'
      BY <1>0 DEF Users, Idle
<1>10. ASSUME NEW c \in Clients, quiet[c] PROVE Undisturbed(c)'
  <2>1. /\ \A e \in Clients \ {c} : Idle(e)
        /\ \A r \in ToSet(queue) \cup ToSet(line) : r = Request(c)
        /\ Owned(c, out) /\ Owned(c, buffer) /\ Owned(c, call[c].got)
        /\ call[c].ok => relays = Request(c)
        BY <1>0, <1>10 DEF Undisturbed
  <2>2. Request(c)' = Request(c) /\ \A e \in Clients : Idle(e)' <=> Idle(e)
        BY <1>0 DEF Request, Idle
  <2>3. Head(line) = Request(c) /\ relays' \in {relays, Request(c)}
        BY <1>2, <1>4, <2>1
  <2>4. \A r \in ToSet(queue') \cup ToSet(line') : r = Request(c)
        BY <1>0, <1>2, <2>1
  <2>5. relays = Request(c) => relays' = Request(c)
        BY <2>3
  <2>6. ASSUME NEW p \in ToSet(out') PROVE p.of \in {Request(c), Nothing} /\ (p # PowerOn => relays' = Request(c))
    <3>1. CASE p \in ToSet(out)
          BY <2>1, <2>5, <3>1 DEF Owned
    <3>2. CASE p \notin ToSet(out)
          BY <1>3, <1>6, <2>3, <2>6, <3>2
    <3> QED BY <3>1, <3>2
  <2>7. Owned(c, out)'
        BY <2>2, <2>6 DEF Owned
  <2>8. Owned(c, buffer)' /\ Owned(c, call[c].got)'
        BY <1>0, <2>1, <2>2, <2>5 DEF Owned
  <2>9. call'[c].ok => relays' = Request(c)
        BY <1>0, <2>1, <2>5
  <2> QED BY <2>1, <2>2, <2>4, <2>7, <2>8, <2>9 DEF Undisturbed
<1> QED BY <1>0, <1>8, <1>9, <1>10 DEF Owning, Undisturbed

\* Owning is inductive.
LEMMA OwningStep == Typed /\ Typed' /\ Answers /\ Owning /\ [Next]_vars => Owning'
<1> SUFFICES ASSUME Typed, Typed', Answers, Owning, [Next]_vars PROVE Owning'
    OBVIOUS
<1> USE DEF portVars, deviceVars, historyVars
<1>0. /\ queue \in Seq(Requests) /\ line \in Seq(Requests)
      /\ Users /\ PowersOn /\ \A c \in Clients : Undisturbed(c)
      BY DEF Typed, PortTyped, Owning
<1>1. ASSUME NEW c \in Clients, Start(c) PROVE Owning'
  <2>1. /\ UNCHANGED <<users, queue, line, out, buffer, relays, stray>> /\ c \in users
        /\ quiet' = [d \in Clients |-> d = c /\ LineIdle /\ \A e \in Clients : Idle(e)]
        BY <1>1 DEF Start
  <2>2. /\ \A d \in Clients \ {c} : call'[d] = call[d]
        /\ Idle(c) /\ call'[c].at \in {"flush", "write"} /\ call'[c].got = <<>> /\ ~call'[c].ok
        BY <1>1, StartCall
  <2>3. Users'
        BY <1>0, <2>1, <2>2 DEF Users, Idle
  <2>4. PowersOn'
        BY <1>0, <2>1, <2>2 DEF PowersOn, Substance
  <2>5. ASSUME NEW d \in Clients, quiet'[d] PROVE Undisturbed(d)'
    <3>1. d = c /\ LineIdle /\ \A e \in Clients : Idle(e)
          BY <2>1, <2>5
    <3>2. users \subseteq Clients
          BY PortsAssumption DEF Typed, FlagsTyped
    <3>3. buffer = <<>> /\ queue = <<>> /\ line = <<>> /\ out = <<>>
          BY <1>0, <3>1, <3>2 DEF Users, LineIdle
    <3>4. Owned(c, out)' /\ Owned(c, buffer)' /\ Owned(c, call[c].got)'
          BY <2>1, <2>2, <3>3, HeldNothing DEF Owned
    <3>5. \A e \in Clients \ {c} : Idle(e)'
          BY <2>2, <3>1 DEF Idle
    <3>6. ToSet(queue') = {} /\ ToSet(line') = {}
          BY <2>1, <3>3, HeldNothing
    <3> QED BY <2>2, <3>1, <3>4, <3>5, <3>6 DEF Undisturbed
  <2> QED BY <2>3, <2>4, <2>5 DEF Owning, Undisturbed
<1>2. ASSUME NEW c \in Clients, Flush(c) PROVE Owning'
  <2>1. UNCHANGED <<users, quiet, queue, line, out, relays>> /\ buffer' = <<>>
        BY <1>2 DEF Flush
  <2> QED BY <1>2, <2>1, FlushCall, CallerOwns
<1>3. ASSUME NEW c \in Clients, Write(c) PROVE Owning'
  <2>1. UNCHANGED <<users, quiet, buffer, line, out, relays>>
        BY <1>3 DEF Write
  <2>2. Alone(c) /\ ~Idle(c) /\ Request(c) \in Requests
        BY <1>3, WriteCall, RequestTyped
  <2>3. ToSet(queue') \subseteq ToSet(queue) \cup {Request(c)}
    <3>1. queue' = queue \/ queue' = Append(queue, Request(c)) \/ queue' = <<>>
          BY <1>3 DEF Write
    <3>2. ToSet(Append(queue, Request(c))) = ToSet(queue) \cup {Request(c)}
          BY <1>0, <2>2, HeldMore
    <3> QED BY <3>1, <3>2, HeldNothing
  <2>4. /\ call'[c].got = call[c].got \/ call'[c].got = <<>>
        /\ call'[c].ok => call[c].ok
        BY <1>3, WriteCall
  <2>5. Idle(c)' => stray' \/ buffer' = <<>>
    <3>1. CASE isOpen
          BY <1>3, <3>1, WriteCall DEF Idle
    <3>2. CASE ~isOpen
          BY <1>3, <3>2 DEF Write
    <3> QED BY <3>1, <3>2
  <2> QED BY <2>1, <2>2, <2>3, <2>4, <2>5, CallerOwns
<1>4. ASSUME NEW c \in Clients, Poll(c) PROVE Owning'
  <2>1. UNCHANGED <<users, quiet, queue, buffer, line, out, relays>>
        BY <1>4 DEF Poll
  <2>2. Idle(c)' => buffer' = <<>>
        BY <1>4, <2>1, PollCall DEF Idle
  <2> QED BY <1>4, <2>1, <2>2, PollCall, CallerOwns
<1>5. ASSUME NEW c \in Clients, GiveUp(c) PROVE Owning'
  <2>1. /\ UNCHANGED <<users, quiet, queue, buffer, line, out, relays>>
        /\ stray' = (stray \/ buffer # <<>>)
        BY <1>5 DEF GiveUp
  <2> QED BY <1>5, <2>1, GiveUpCall, CallerOwns
<1>6. ASSUME NEW c \in Clients, Copy(c) PROVE Owning'
  <2>1. UNCHANGED <<users, quiet, queue, buffer, line, out, relays>>
        BY <1>6 DEF Copy
  <2>2. ~Idle(c)'
        BY <1>6, CopyCall DEF Idle
  <2> QED BY <1>6, <2>1, <2>2, CopyCall, CallerOwns
<1>7. ASSUME NEW c \in Clients, Clear(c) PROVE Owning'
  <2>1. UNCHANGED <<users, quiet, queue, line, out, relays>> /\ buffer' = <<>>
        BY <1>7 DEF Clear
  <2>2. call'[c].ok => call[c].ok \/ call[c].got # <<>>
        BY <1>7, ClearCall, NothingIsNoAnswer
  <2> QED BY <1>7, <2>1, <2>2, ClearCall, CallerOwns
<1>8. ASSUME Send PROVE Owning'
  <2>1. /\ UNCHANGED <<users, call, quiet, out, relays>> /\ buffer' = <<>>
        /\ queue # <<>> /\ queue' = Tail(queue) /\ line' = Append(line, Head(queue))
        BY <1>8 DEF Send
  <2>2. ToSet(queue') \cup ToSet(line') \subseteq ToSet(queue) \cup ToSet(line)
    <3>1. ToSet(Tail(queue)) \subseteq ToSet(queue) /\ Head(queue) \in ToSet(queue)
          BY <1>0, <2>1, HeldLess
    <3>2. Head(queue) \in Requests
          BY <1>0, <3>1, Held
    <3>3. ToSet(Append(line, Head(queue))) = ToSet(line) \cup {Head(queue)}
          BY <1>0, <3>2, HeldMore
    <3> QED BY <2>1, <3>1, <3>3
  <2>3. Users' /\ PowersOn'
        BY <1>0, <2>1 DEF Users, PowersOn, Substance, Idle
  <2> QED BY <2>1, <2>2, <2>3, HeldNothing, LineOwns
<1>9. ASSUME SendFails PROVE Owning'
  <2>1. UNCHANGED <<users, call, quiet, line, out, buffer, relays, stray>> /\ queue' = <<>>
        BY <1>9 DEF SendFails
  <2>2. Users' /\ PowersOn'
        BY <1>0, <2>1 DEF Users, PowersOn, Substance, Idle
  <2> QED BY <2>1, <2>2, HeldNothing, LineOwns
<1>10. ASSUME Receive PROVE Owning'
  <2>1. UNCHANGED <<users, call, quiet, queue, line, relays>> /\ Fetch
        BY <1>10 DEF Receive
  <2>2. /\ Users' /\ PowersOn'
        /\ ToSet(out') \cup ToSet(buffer') \subseteq ToSet(out) \cup ToSet(buffer)
        BY <2>1, FetchOwns
  <2> QED BY <2>1, <2>2, LineOwns
<1>11. ASSUME DeviceStarts PROVE Owning'
  <2>1. /\ UNCHANGED <<users, call, quiet, queue, line, buffer, relays, stray>>
        /\ out' = Append(out, PowerOn) /\ PowerOn \notin ToSet(out)
        BY <1>11 DEF DeviceStarts
  <2>2. out \in Seq(Pieces) /\ PowerOn \in Pieces
        BY DEF Typed, PortTyped, Pieces
  <2>3. ToSet(out') = ToSet(out) \cup {PowerOn}
        BY <2>1, <2>2, HeldMore
  <2>4. \A i \in DOMAIN out' : out'[i] = PowerOn => i = Len(out) + 1
    <3>1. /\ DOMAIN out' = 1 .. Len(out) + 1 /\ DOMAIN out = 1 .. Len(out) /\ Len(out) \in Nat
          /\ \A i \in 1 .. Len(out) : out'[i] = out[i]
          BY <2>1, <2>2, AppendProperties, LenProperties
    <3>2. \A i \in 1 .. Len(out) : out[i] # PowerOn
          BY <2>1, <3>1 DEF ToSet
    <3> QED BY <3>1, <3>2
  <2>5. Users' /\ PowersOn'
        BY <1>0, <2>1, <2>4 DEF Users, PowersOn, Substance, Idle
  <2> QED BY <2>1, <2>3, <2>5, LineOwns
<1>12. ASSUME UNCHANGED <<users, call, quiet, queue, line, out, buffer, relays, stray>> PROVE Owning'
  <2>1. Users' /\ PowersOn'
        BY <1>0, <1>12 DEF Users, PowersOn, Substance, Idle
  <2> QED BY <1>12, <2>1, LineOwns
<1>13. ASSUME Enter \/ OpenOrClose \/ UNCHANGED vars
       PROVE  UNCHANGED <<users, call, quiet, queue, line, out, buffer, relays, stray>>
      BY <1>13 DEF Enter, OpenOrClose, vars
<1> QED BY <1>1, <1>2, <1>3, <1>4, <1>5, <1>6, <1>7, <1>8, <1>9, <1>10, <1>11, <1>12, <1>13, TakeOwns
        DEF Next, Caller, Timer

\* So does the invariant of the undisturbed calls.
LEMMA OwningAlways == Spec => []Owning
<1>1. Init => Owning
  <2> SUFFICES ASSUME Init PROVE Owning
      OBVIOUS
  <2>1. /\ buffer = <<>> /\ out = <<>> /\ \A c \in Clients : call[c] = Rest /\ ~quiet[c]
        /\ users \in Ports
        BY DEF Init
  <2>2. DOMAIN <<>> = {}
        OBVIOUS
  <2> QED BY <2>1, <2>2, RestTyped, PortsAssumption
          DEF Owning, Users, PowersOn, Substance, Undisturbed, Idle
<1> QED BY <1>1, OwningStep, AnswersAlways, PTL DEF Spec

\* A call that began on an idle line, with nobody else calling, is never answered with the
\* bytes of an earlier call.
THEOREM AnswersItsOwn == Spec => []OwnAnswer
<1>1. Owning => OwnAnswer
      BY DEF Owning, Undisturbed, Owned, OwnAnswer
<1> QED BY <1>1, OwningAlways, PTL

\* When such a call is noted as answered, the device has obeyed it, and nothing since: what
\* the session modules take for granted of a relay command.
THEOREM AnsweredIsObeyed == Spec => []AckedIsObeyed
<1>1. Owning => AckedIsObeyed
      BY DEF Owning, Undisturbed, AckedIsObeyed
<1> QED BY <1>1, OwningAlways, PTL
=============================================================================
