# Busbar test bench: specification and verification

This directory is the formal model of `qc-busbar`, the Qt program that drives an end-of-line
test bench for busbar equipment (busway sections, start boxes, tap-off boxes). It contains TLA+
modules, TLC configurations and TLAPS proofs. `PROJECT.json` maps every definition to the lines
it stands for; paths below are relative to `src/qc-busbar/`.

The bench decides about products that carry mains voltage. What it must not do is print a pass
label for, or log as passed, a product that failed or was never measured; leave a product
connected to the withstand-voltage instrument; or hang. None of this is a matter of one function:
the GUI thread, three worker threads and a shared record without a lock have to agree.

## 1. Inventory

### Threads and shared state

| part | code | state it keeps | operations |
|---|---|---|---|
| session record | `common/datapacket` | `sProgress`: `step`, `result`, `issure`, `work_mode`, `oning`, text lists | `init`, `updatePro`, `delay` |
| GUI thread | `home/home_workwid`, `common/msgcom` | dialogs open, lamp, clock, `TestConfig::mode` | buttons, 100 ms timer, queued slots |
| functional worker | `power/power_corethread` | locals `ret`, `res`; position | `run`, `workDown`, the checks, `workResult`, `printer` |
| function log | `power/power_logs` | log items, `cnt` of the order | `updatePro`, `writeData`, `saveLogs` |
| device reading | `power/power_devread`, `power_errrange`, `power_devctrl` | `sObjData` of the device | reads, branch load and breaker tests, `readDevBus` |
| safety thread | `safety/test_safety` | `progress` counters | insulation, withstand, grounding, polarity |
| light curtain | `safety/test_thread` | global `Breaker` | polling loop, instrument reset, `messageSig` |
| relay controller, polarity module | `safety/test_transthread` | relays of the bench | `sendCtrlGnd`, `recvPolarity` |
| safety result | `mainface/face_volinsul`, `safety/testdatasave` | counters read, label, log | `startSlot`, `resultSlot`, `printer`, `saveDb` |
| dialogs | `mainface/people_judg`, `people_safety` | `issure`, rows of the report | sure button, closing the window |
| serial numbers | `sernum` | `currentNum`, `devType.sn` | `createSn`, write, check |
| label service | `common/printer`, `common/http` | none | `http_post`, which spins an event loop |
| serial ports | `common/serialport` | write queue, receive buffer, I/O timer | `transmit`, `timeoutDone` |
| Modbus RTU | `common/modbus` | port lock | register reads and writes, `autoSetAddress` |
| device protocols | `devices`, `ctrls`, `common/snmpclient` | shared memory of readings | OID and register access |
| upload, databases, views | `common/json`, `common/sqlcom`, `logs`, `setups` | tables, settings | reading, writing, showing |

### How the parts interact

* A click on a test button calls `sDataPacket::init`, which wipes the record, and starts a thread;
  the same button, while `step` is not `Test_End`, asks whether to stop.
* Workers write the record directly and emit signals. The signals are queued and delivered by the
  GUI's event loop, which also runs inside modal dialogs and inside the label service's
  `HttpBlocker`. So slots nest: `resultSlot` may be entered while an outer call of it waits.
* `timeoutDone` (every 100 ms) turns `Test_Over` into `Test_End` and shows the verdict.
* Relay commands go through a serial port that the GUI thread's timer serves. The second try of a
  relay command is not evaluated.
* `Test_Thread` polls the curtain while `oning`; `Breaker` is a global that the curtain, the
  safety thread and the voltage button all write.

### What is hard

Runs that outlive their session; a record reset under a busy worker; slots that nest; verdict,
label, log, lamp and clock that get the outcome at different moments from different sources; a
thread terminated between two relay commands; waits for an operator who may close the window;
commands that are acknowledged late or lost. `PROJECT.json` lists these under "hazards", each at
its line, with the properties that cover it or the reason why none does.

### What makes each component correct

* Functional session: a label only for a run nothing of which failed; a pass is logged only with
  the operator's answer; lamp, log, label and clock agree; the order shrinks exactly with the
  passes; the bench is dead when no run is busy; a session ends.
* Safety session: a label only for a completed, good test; a busway's serial number on one label
  only; the screen agrees with the log; a curtain alarm ends up as a failure on the screen; the
  instrument is off when the test is over.
* Both: a verdict that turned bad stays bad until the next session (module `Verdict`).
* Branch tests: a box whose sensors are wrong or miswired does not pass, a sound one does, whoever fails
  finds a note why, and the loops end.
* Base checks: a fault that a check looks for is noted, a sound box is not blamed; a box leaves with its
  breaker closed, its settings as they were and, if it passed, its energy cleared; the waits for the operator end.
* Serial link: an answer belongs to the request of its caller; the device obeys commands in the order in
  which they were given; what is queued is sent or dropped.
* Test log: nobody reads past a list another thread writes; a line is shown in the colour it was noted
  with; the log entry of a product holds the rows of its checks and no others, and does not say passed over a failed one.

## 2. Modules

| module | what it is |
|---|---|
| `Progress` | values of `step` and `result`; the rules of `updatePro` and `delay`. No variables |
| `Verdict` | abstract specification of a session's verdict and label |
| `FuncSession` | GUI thread, functional worker and record |
| `FuncSessionProofs` | theorems about `FuncSession` |
| `SafetySession` | safety thread, curtain thread, GUI thread with its nested calls |
| `SafetySessionProofs` | theorems about `SafetySession` |
| `BranchTests` | the breaker, voltage and load tests of one box, some of what `Check` of `FuncSession` stands for |
| `BranchTestsProofs` | theorems about `BranchTests` |
| `BaseChecks` | the rest of it: ports, lightning protection, breaker contacts, settings, temperatures, filter, `factorySet` |
| `BaseChecksProofs` | theorems about `BaseChecks` |
| `TestLog` | the lists of lines and rows, with every thread that writes or reads them |
| `TestLogProofs` | theorems about `TestLog` |
| `CommandLine` | abstract specification of a line that carries commands to a device |
| `SerialLink` | `SerialPort` with its callers: relay commands, the instrument, Modbus |
| `SerialLinkProofs` | theorems about `SerialLink` |
| `MCFuncSession`, `MCSafetySession`, `MCBranchTests`, `MCBaseChecks`, `MCSerialLink` | the modules the `.cfg` files instantiate (`TestLog` needs none) |

How they fit together. `FuncSession` and `SafetySession` are the sessions, over the rules in `Progress`. A
relay command of theirs has the fates that `SerialLink` shows a call can have. A check of `FuncSession` is one
step with a free outcome; `BranchTests` and `BaseChecks` open it and show what an outcome is worth. `TestLog`
takes the same run from the side of what it writes. The session modules and the modules below them share
no variables, so that each is checked by itself.

### FuncSession

`worker` is the position in `run`/`workDown`/`workResult`: each value is the next statement that
touches shared state, and each action is that statement with everything it calls.

| action | code |
|---|---|
| `PowerCycle`, `Begin`, `InitDev`, `Route` | `workDown` up to the first check; `autoSetAddress` as answered or failed |
| `Check(phase)` | one check of the device, any outcome; `Passed`/`Stopped` are the `if(ret)` chain |
| `RelayOn`, `AskJudgement`, `EndOfChecks` | the tail of `workDown` |
| `Decide`, `Printer`, `NoteResult`, `Await`, `EnterSave`, `WriteLog`, `Finish` | `workResult`, `printer`, `saveLogs` |
| `OverAgain`, `RelayOff` | the tail of `run` |
| `StartFunc`, `StopFunc`, `AnswerStop` | `on_funcBtn_clicked`, split at its question |
| `Timer`, `Deliver`, `JudgeSure`, `JudgeDismiss` | `timeoutDone`, the queued slots, `People_judg` |
| `ChooseKind`, `PowerOff`, `Reprint` | the other controls that are live during a run |

Decisions a reader should know:

* `power_corethread.cpp` contains merge-conflict markers (lines 1701-1808). The "Stashed changes"
  side is modelled; it is the one that handles all three device types.
* A check is one step with a free outcome, restricted to what the code can do: `Check` notes a
  failure whenever it returns false while the logs are open, except that the load test may end
  silently (`BranchTests` shows why) and so may `handleBasicType`; the base checks do not touch `ret`, and
  branch checks need answers over a serial port that the GUI's event loop serves, so they pass only
  after the signals queued before them (see `Switching`).
* A click is an event: it is handled after the signals queued before it (`Clickable`).
* A relay command is acknowledged, acknowledged on the second try (`late`, which the code notes as
  a failure) or lost, with or without effect.
* `session`, `runOf`, `failed`, `disturbed`, `dismissed` are history variables for the properties.
* `OrderSize` and `MaxSessions` are the only bounds; there is no bound on queues or steps.

### SafetySession

`safety` and `curtain` are the positions of the two threads, `stack` the calls of the GUI thread,
innermost first. A frame is a call waiting at one of its statements (`Calls`), with the local `p`
(for a frame "info", whether a stop or a stale mode led to it; later, whether the label is due or
was printed).

| action | code |
|---|---|
| `Relay`, `Item`, `Polar`, `Announce` | `Test_safety::run` and its tests |
| `Look`, `ReadDevBus`, `Alarm`, `CountAlarm` | `Test_Thread::run` |
| `StartTest`, `RefuseTest`, `StopTest`, `AnswerInfo`, `AfterOver` | the withstand and grounding buttons, `startTest`, `overTest` |
| `Deliver` | `overSlot` and `SafeStop` |
| `BeginResult`, `AskOperator`, `CloseDialog`, `Conclude`, `Printer`, `NoteResult` | `resultSlot`, split where it waits |
| `Timer`, `ChooseDevice`, `PowerOff` | the rest of the GUI thread |

* `QDialog::exec` on a dialog that is open already returns at once; the wait for `issure` behind it
  blocks the GUI thread. A dialog closed without confirming therefore freezes the program: the runs
  turn deadlock checking off, and `SessionEnds` names that case (`dismissed`).
* `MsgBox::information` has one button and always answers yes.
* A printout spins the event loop without blocking the buttons.
* A relay command from the GUI thread blocks the timer that would receive its answer, so that it is
  normally noted as failed. The model allows every fate, which includes this.
* The commands of one instrument item (select, read parameters, start, read) are one step with a
  good or a bad outcome, which counts in `finishNum` and `errNum` (here `anyDone`, `anyErr`).
* Starting the threads and `startSlot` are one step: the window between them is shorter than the
  first instrument answer.
* `disturbed` holds when the operator pressed stop or power-off, and for a test that was started
  amid a printout or an unreported alarm of the one before.

### BranchTests

Between them `BreakerTest`, `stepVolTest` and `stepLoadTest` call some forty copies of one loop:
send a relay command or ask the operator to open a breaker, read the box until its sensors show a
pattern, give up after 40 to 90 rounds. The module has that loop once, and what distinguishes the
copies is data: a row of `Plan` says what a loop commands or asks, which levels it wants of which
sensors, when it reads (in every round, or only until a read failed), when it judges, whether the
next loop follows a failed one, and whether its outcome overwrites the result of the last read.

| definition | code |
|---|---|
| `Break_NineLoop`, `Break_SixLoop`, `Three_Breaker`, `Three_Break` and the rows in them | the breaker tests; each row has the name of its function |
| `Vol_ctrlOne`, `Vol_ctrlTwo`, `Vol_ctrlThree` | the voltage tests |
| `Load_NineLoop`, `Load_SixLoop`, `Load_ThreeLoop` and the rows in them | the load tests; `NineInsertTwo_CtrlOne` and its like are two loops each |
| `Insert_NoneOutput`, `PowerRow` | no residue on an output; the power of a start box |
| `Begin`, `Rounds`, `Succeed`, `TryAgain`, `GiveUp` | one loop: command, `readData`, the three ways a round ends |
| `Operator`, `Switch`, `Reading` | the bench, its operator and the box (external) |

* A box is given by its sensors: the tap each is wired to (or none), whether it reads right under
  load, and whether it shows zero without. A level is "zero", "odd" or "good"; "good" is what
  `checkErrRange` accepts, which is never zero.
* A read may bring no data and leave `mBusData` as it was, even answering well (a reply of another
  address), and it may bring data and fail (a start box whose network check fails). What arrives
  reflects the bench as it is or as it was before its last change; all sensors are read together.
* `mBusData` is not cleared between products: at the start it holds what any step of an earlier
  box of the kind may have left (`Leftovers`).
* A relay command is acknowledged, or not acknowledged with or without effect; the latter is noted.
* The operator opens the breakers he was asked for last, some time or never.
* The session is taken to be open (`updatePro` accepts notes); the order of the notes, prompts and
  pauses is left out, and so are boxes with another `loopNum` (the load test returns false without a
  loop) and another `phaseFlag` (it returns true without one).

### BaseChecks

A run of a start box is mostly waiting: for the serial cable to be moved from IN to OUT, for the
lightning protection to be pulled and put back, for the breaker to be opened, closed, tripped by its shunt
release and closed again. A wait reads the box and looks for what it waits for, at most 30 or 40 rounds
(`Patience`). The waits are one action `Wait`; `Reads`, `Sees`, `Asked`, `Noted`, `Carries` and `After` say in
what they differ.

| definition | code |
|---|---|
| `Wait` | the eleven loops of `StartErrRange` |
| `Compare`, `ShuntRelease`, `Look`, `Version` | the comparisons of `StartErrRange` and `InsertErrRange`, `VolErrRange`, `CurErrRange` |
| `EnvErrRange`, `Average4` | the temperatures; the highest and the lowest of five are left out, the fifth is a zero the code adds |
| `FilterOff`, `Branches`, `FilterOn` | `workDown` around the branch tests, which end well or not here |
| `Connect`, `EleClean`, `Cleaned`, `Restore` | `factorySet` |
| `Operator` | does what he was asked last, some time or never (external) |

* `mBusData` (`shown`) starts with what a sound box before this one left in it. A read has an `Outcome`: what it
  returns and what it brings (`Shown`). Of a tap-off box it brings everything or, with an answer of another address,
  nothing, and returns true both times.
* A start box is read twice by `readData`. The serial read brings all but the shunt setting, which `initData` does not
  copy (`dev_sirtu.cpp:189-207`), and has 0 and 1 for the breaker (593-596); the network has 1, 2 and 3. The walk over the
  network is taken for done wherever it stops (`dev_ipsnmp.cpp:187-215`): `ReadData` has it stop before the shunt
  setting (what is shown is `"serial"`), before the breaker (`"shunt"`) or not at all (`"all"`). A start box whose network read fails
  has shown its serial data, and returns false.
* `met` and `known` are history variables: whether data of this box were shown when its settings were compared,
  and whether the shunt setting was among them.
* Settings compared before the first wait are one option, `"buzzer"`, those compared after the last one
  `"version"`; the module bits between have their own. Writes to the box are obeyed or lost; no result is looked at.
* A box may set its alarm filter to a default when it restores its factory settings.

### SerialLink

`call` is where each caller stands: it writes its request into `queue`, looks into `buffer`, naps 350 ms when
bytes are there, copies and clears. The timer of the GUI thread sends one request (clearing the buffer),
or, with nothing queued, receives; in between it lets other events run, and the threads have time to queue.

| action | code |
|---|---|
| `Start`, `Flush`, `Write`, `Poll`, `GiveUp`, `Copy`, `Clear` | `SerialPort::transmit`, `write`, `read`; `Rtu_Serial::transmit`, `Rtu_Modbus::get` |
| `Send`, `SendFails` | `SerialPort::timeoutDone`, `writeSlot`, `send` |
| `Enter`, `Receive` | `timeoutDone` that finds nothing queued, as far as the `processEvents` of `recvSlot` (line 197), and the rest of `recvSlot`; `receiving` holds in between |
| `OpenOrClose` | `open`, `close`, from the settings page |
| `Take`, `DeviceStarts` | wire and device (external): a request or answer is lost, an answer comes in two pieces, a controller that starts sends 0xff |

* The copy and the clearing are two steps: the lock of `read` is not taken by the timer that fills the buffer.
* The calls differ in what they accept: a relay command any bytes, but only of its first try; the instrument any
  bytes of any try; Modbus a frame with a good checksum, whoever's it is.
* A call on the GUI thread (the stop and power-off buttons) keeps the timer from firing, so that its own
  request is sent only after it gave up, both copies of it. `GuiTakesLeftovers` says that whatever such a call is
  answered with was there before. A call made from the events that `recvSlot` lets run holds the timer up in the middle.
* A timer does not fire again while its slot runs, a dialog opened from those events included; and user input is
  excluded from them, so that the settings page opens and closes no port then.
* `bare`, `quiet`, `stray` are history variables: was the buffer empty, and the timer not in the middle of `recvSlot`
  (unless the call itself holds it there), when the request was queued; was the line idle when the call began; are
  there bytes nobody waited for.
* `CommandLine` is the promise: commands take effect in the order given, none that nobody gave; any may be lost.
  The mapping takes what is on the wire and in the queue for `waiting`.

### TestLog

`lists` has `pass` and `status`, which `updatePro` appends to and the timer takes from, and `stepResult`,
`itemData` and `test_function`, which `writeData` appends to and `writeLog` joins. A thread appends to one list at
a time: `pen` holds what it has still to append, and the other thread may act in between.

| action | code |
|---|---|
| `Push` | one append of `updatePro` or `writeData`, or the verdict turned |
| `InitDev`, `Note`, `WriteRow`, `EndChecks`, `Decide`, `Await` | the worker: address assignment, checks that note and write a row, label, wait for the operator |
| `EnterLog`, `ReadNext`, `Save` | `writeLog`: verdict and length first, then text by text |
| `StartFunc`, `StopFunc`, `Timer` | the button and the timer |
| `Deliver`, `JudgeSure`, `JudgeDismiss` | `getDelaySlot`, `getNumAndIndexSlot`, `JudgSlots`; the rows of People_judg |

* The second `Test_Over` of the worker's `run` and the relay command after it are left to `FuncSession`: the log is
  saved by then.
* A good address is one line and one row; a bad one has two lines, what failed and which port to look at, and a row
  (`AddressNote`).
* A line or row is known by its session, who wrote it and its number. The entry remembers which text was
  joined with which name.
* `torn` marks a run in which two threads appended to the same list, in which a newer session cleared the lists,
  or in which the log was read while the slot of the address assignment wrote its row. For such a run the
  code promises nothing; single appends and removals are steps, and what two unguarded calls into one
  `QList` can do to it is left out. The four properties are about all other runs.
* In a product's entry the names fit the texts only in the first session of a program start: `init`
  does not clear `test_function` (`EntryIsTrue` says so).
* Lines between checks, the stock phrase of the end, and the English copy of each row are left out, and so is a
  server that switches `online` on while a session runs.

## 3. Runs

| run | bounds | what it shows |
|---|---|---|
| `func_main` | all three device types, two sessions, order of one; 156 518 states | the safety invariants, the inductive invariant's parts `RunInv` and `OutcomeInv`, the action properties, the refinement of `Verdict`, and termination of sessions |
| `safety_sessions` | two sessions of start and tap-off boxes, all fates, two piled-up calls; two of a busway with its curtain; 814 809 states | safety sessions, re-entered `resultSlot`: serial numbers, label, screen, instrument; what the curtain saw is shown, a session ends |
| `serial_link` | three ports: two relay callers, two instrument callers, three Modbus calls; one mishap; 1 870 277 states | what an answer is worth, and that the line implements `CommandLine` |
| `branch_tests` | five kinds of boxes, sound, with one wrong sensor, or with two swapped; three rounds to a loop; 121 348 states | a faulty box does not pass, a sound one is not failed, failures are noted, the tests end |
| `base_checks` | 30 boxes: sound, one fault, one option that differs, other settings, other temperatures, one that cannot be read; three rounds to a wait; 1 498 066 states | the checks around the branch tests |
| `test_log` | two sessions, one check, one row of the dialog; 2 284 331 states | lines, rows and log entry under interleaved appends |
| `func_label`, `func_success`, `func_early_end` | one device type, two sessions | counterexamples, see section 6 |
| `safety_label`, `safety_final`, `safety_polarity` | one product type, two sessions | counterexamples, see section 6 |

Why the bounds are enough. Two sessions are needed, and suffice, for a run to outlive its session
and for the next to find what it left: with `QThread::start` refusing while a run is busy, a third
session meets no state that a second does not. An order of one reaches its limit. One piled-up call
is enough to enter `resultSlot` inside itself, since signals add calls without counting. In
`safety_sessions` the relay commands of the busway are acknowledged or acknowledged late; that they are
lost is checked on the boxes, whose relay commands are the same code. There is no symmetry to
use: device types and callers differ.

In `branch_tests` a loop gives up in its third round (`Patience = 2`): one round is needed for a
read to fail, one for the loops that stop reading then, one to judge what is left. The faulty sensor
is the last of a nine-branch box, the middle one of the second output of a six-branch box, L2 of a
three-phase and of a single-phase box, L1 or L3 of a start box; it may sit on any tap or on none. The total
power of a start box may read wrong or sit on another tap. The
loops of the other sensors are the same rows with other indices.

In `base_checks` three rounds are enough for a wait to run out, to be left with rounds for the next one
that carries on, and to be passed late. In `serial_link` a relay or instrument caller looks once per try: more looks only
repeat the state in which nothing arrived; the instrument has two tries for its three, the curtain's reset
one. One mishap is enough for a request or an answer to be missing, a port to be
closed or a device to start; three Modbus calls for a late answer to be taken for the next call and the one after.
In `test_log` one check is enough for a row to be written while the other thread writes, two sessions for the names of the
first to meet the rows of the second; the run with two checks (12.9 million states, before the dialog could reject)
found nothing else.

Fairness (`Fairness` in both session modules): threads are scheduled, timers fire, queued events are
delivered, a call that can go on does, and the operator answers the dialog in front of him, one way
or the other. In `SafetySession` the steps of the GUI thread's calls share one fairness condition, the call on top going on,
and each condition is taken over the variable that every step of its actor changes. The button actions have no fairness; nobody has to press anything. `SessionEnds` does
not ask for strong fairness anywhere: each fair step stays enabled until it is taken or another
takes over. Its excuses name what the code does not survive: a run taken over by another session
(`Overlap`), a dialog closed without confirming, and, in safety sessions, a stop pressed while
another call waits. In `BranchTests` only the worker is fair (`WF_vars(Test)`): its loops sleep and count by
themselves, and the tests must end without an operator who does what he is asked. The same holds for
`BaseChecks` (`WF_vars(Run)`). In `SerialLink` the timer and the calls of the GUI thread, which keep it
waiting, are fair; the other callers, device and wire are not: `Drains` holds when nothing ever answers. `TestLog` has safety properties only and no fairness.

Each property of a passing run has a mutant: a plausible slip in the mapped code (a dropped guard,
a missing reset, the wrong local) with which TLC finds the property violated under the same
configuration.

## 4. Properties

`FuncSession`: `LabelOnlyIfClean` (no label for a run of which anything failed, even if the failure
arrived when the logs were closed), `VerdictsAgree`, `PassNeedsAnswer`, `OrderCounts`, `BenchOff`,
`KeepsVerdict` (refinement), `SessionEnds`; and `RunInv`, `OutcomeInv`, which say why they hold.

`SafetySession`: `LabelOnlyIfMeasured`, `SerialsUnique`, `InstrumentOff`, `ShownIsLogged`,
`AlarmShown` (liveness: what the curtain saw is shown as a failure), `SessionEnds`.

`BranchTests`: `PassMeansSound` (whatever failed, came late or was not switched, a box that passes with
nothing noted has every sensor on its own tap, right under load and silent without), `SoundPasses` (the
converse, on a bench that obeys at once: the rows fit together), `FailureIsNoted`, `Ends`. The conditions:

* `~blind`: the first loop can pass on values an earlier product left in `mBusData`, if no read of this
  box brought data. TLC's counterexample without the condition is a start box whose second voltage
  sensor sits on the first tap: the first voltage loop passes on the values of the box before.
* what a start box does not tell (`Proven`): the idle voltage of L1, which is never switched off and has no breaker
  test; and the tap and the idle value of the total power, which is compared once, while all phases are loaded.
* `FailureIsNoted` leaves start boxes out: the power comparison notes its own outcome but leaves `ret`
  at the last read (`power_devread.cpp:2544`), and the load test then ends without a note.

`BaseChecks`: `FaultIsNoted` (a run that noted nothing had no fault of those it looks for, if one of the first
reads brought data of the box at all; the shunt setting of a box that should have none counts only if the
network brought it, `known`, as the serial line never does), `SoundPasses` (a sound box in a smooth run is not blamed), `BreakerBack` (the
breaker is closed again, though nobody notes that it was not: the voltages would be missing), `SettingsKept` (the
filter only if one of the first reads brought data, `met`; without that condition TLC and the proof both fail on the box
that cannot be read), `EnergyCleared`, `Ends`. `Found` takes out what the run cannot find: the OUT port when a read failed (section 6),
contacts of a box that is not told to move them.

`SerialLink`: `OwnAnswer` and `AckedIsObeyed` for a call that began on an idle line and had the port to itself,
`AckedWasSent` for any call that was queued with an empty buffer and with the timer not between its test of the queue
and its receive (without either condition TLC finds a call that is answered and still queued), `GuiTakesLeftovers`, `Drains`, and `InOrder` (refinement of `CommandLine`).
`AckedIsObeyed` is what the session modules take for granted of an acknowledged relay command. Without
`quiet` it is false: a late answer counts for the next call.

`TestLog`: `InRange` (no reader runs past a list), `EntryIsTrue`, `ShownAsNoted`, all for runs that are not `torn`.

The conditions on the properties of the sessions (`~Overlap`, `~disturbed`, `~tripped`) are what the code needs,
not conveniences: section 6 has the counterexample for most of them.

## 5. Proofs

Every safety invariant and every action property that a passing run checks is also a theorem of the
specification, for every value of the constants, and both refinements are proved. Each module with proofs names
its strengthened invariants and lemmas; one lemma per step of the program says what the step leaves of them.

Assumptions on the constants (in the modules that declare them, evaluated by TLC on every run):

| module | assumptions |
|---|---|
| `FuncSession` | `KindsAssumption`: a set of the three device types; `BoundsAssumption`: order size and number of sessions are naturals |
| `SafetySession` | `BenchesAssumption`: a set of the three products; `FatesAssumption`: any fates of relay commands for each; `BoundsAssumption`: sessions and depth are naturals |
| `SerialLink` | `KindAssumption`: each caller is a relay, an instrument or a Modbus call, with one to three tries; `OnGuiAssumption`, `PortsAssumption`: which callers are on the GUI thread, which share a port; `BoundsAssumption` |
| `BaseChecks`, `BranchTests` | `ProductsAssumption`: the boxes are boxes (`IsProduct`), with any faults, any number of them; `PatienceAssumption`: the rounds of a wait are a natural |
| `TestLog` | `TestLogAssumption`: checks, rows of the dialog and sessions are naturals |

None of them excludes anything the code can meet. The bounds of section 3 are gone: in `BranchTests` and
`BaseChecks` TLC tests chosen boxes, the theorems speak of all of them.

### FuncSessionProofs

| theorem | states |
|---|---|
| `TypeCorrect`, `RunCorrect`, `OutcomeCorrect` | `[]TypeOK`, `[](TypeOK /\ RunInv)`, `[]OutcomeInv` |
| `LabelCorrect`, `AnswerCorrect`, `OrderCorrect` | `LabelOnlyIfClean`, `PassNeedsAnswer`, `OrderCounts` |
| `BenchCorrect`, `VerdictsCorrect` | `[]BenchOff`, `[]VerdictsAgree` |
| `VerdictImplemented` | `KeepsVerdict`: `FuncSession` implements `Verdict` |

`LabelOnlyIfClean` is not inductive: at the decision only `result` is looked at, while
`failed` records what happened. `RunInv` closes the gap. `FailureKnown` says where a failure is
while the checks run: in the verdict, in `ret` shortly before it is evaluated, or in a queued
signal that the branch checks wait for. `KeepsStep` and `EndedFails` say that nobody but the operator
ends the session of a busy run and that an ended session has a bad verdict, so that a failure
dropped by the closed logs changes nothing. `AskedOnce` and `WaitsForAnswer` carry `PassNeedsAnswer`: the
question is put at most once, and a run that did not fail gets past the wait only with `issure`.
`OutcomeInv` is the second invariant, built on the first: stage by stage the local `res`, the shared
verdict, the label, the log and the lamp agree, which gives `VerdictsAgree` at the end.

### SafetySessionProofs

| theorem | states |
|---|---|
| `TypeCorrect` | `[]TypeOK` |
| `InstrumentSwitchedOff` | `[]InstrumentOff` |
| `ShownIsWhatWasLogged` | `[]ShownIsLogged` |
| `LabelsMeasured` | `LabelOnlyIfMeasured` |
| `SerialsDiffer` | `SerialsUnique` |

`Off`: the instrument is on only while its thread runs, or was killed. `Orderly` is about a session left in peace
(`Quiet`): until the test is announced nothing is queued and no call waits (`Untold`), the result is told in one call
that nothing enters (`Told`), and what is shown then is what was noted (`Noted`). `Measured` adds
that what was skipped, or was bad without counting as an error, belongs to a test that does not print. `Once` does without
the curtain's peace, since `SerialsUnique` does: however often `resultSlot` is entered, at most one waiting call, or one
queued end of the test, may yet lead to a label (`Single`), and the product has a number of its own from when that call took it (`Numbered`).

### SerialLinkProofs

| theorem | states |
|---|---|
| `TypeCorrect` | `[]TypeOK` |
| `OrderKept` | `InOrder`: `SerialLink` implements `CommandLine` |
| `AnsweredWasSent` | `[]AckedWasSent` |
| `GuiIsDeaf` | `[]GuiTakesLeftovers` |
| `AnswersItsOwn`, `AnsweredIsObeyed` | `[]OwnAnswer`, `[]AckedIsObeyed` |

The refinement needs only types: every action is a `Give`, an `Obey`, a `Lose`, a `Drop` or a stutter of `CommandLine`.
`Answers` says of each caller that bytes are held only between copying and clearing (`Between`), and that nothing is
received while its request is still queued (`Unsent`: then the timer is not past its test of the queue either), or while a call
of the GUI thread keeps the timer from firing (`Leftover`).
`Owning` adds who is on the line: for a call that began on an idle one, all that is queued, on the wire or in the
buffer is its own request or the answer to it, and the device has obeyed what it answered (`Undisturbed`). The 0xff
of a starting device is nobody's answer, but comes once at most and never fills the buffer alone (`PowersOn`).

### BranchTestsProofs

| theorem | states |
|---|---|
| `TypeCorrect` | `[]TypeOK` |
| `FailuresNoted` | `[]FailureIsNoted` |
| `SoundBoxPasses` | `[]SoundPasses` |
| `PassedIsSound` | `[]PassMeansSound` |

The rows of `Plan` have one of four shapes (`BreakerRow`, `VoltRow`, `LoadRow`, `SingleRow`); lemmas say which row of which
box has which, and the rest of the proof speaks of shapes. `Obeyed`: as long as nothing is noted, what is switched on is what
the row asked for, and so a sound box shows the pattern the row wants (`SoundMeets`, `SmoothMeets`).
`PassMeansSound` rests on `Witnessed`: every row behind was met by a reading of a bench from its `Window`, that is, of what an
earlier row switched on, perhaps with a breaker the operator was slow to close, but with load on no output except the one
whose turn it is. A reading may therefore be old, and the box wrong in any number of places. What the rows
showed is then put together: the breaker rows give each sensor's branch (`BreakersTell`), the voltage rows its phase and tap
(`VoltsTell`), the load rows the taps of the current sensors (`CurrentsTell`, `SinglesTell`), and the row that
ends an output's turn shows that its load is off (`TurnOver`), which is what `Window` of the next output needs. `PassingProves` draws
the conclusion.

### BaseChecksProofs

| theorem | states |
|---|---|
| `TypeCorrect` | `[]TypeOK` |
| `NoEnergyLeft`, `SettingsPutBack` | `[]EnergyCleared`, `[]SettingsKept` |
| `BreakerClosedAgain` | `[]BreakerBack` |
| `FaultsFound`, `SoundNotBlamed` | `[]FaultIsNoted`, `[]SoundPasses` |

`Energy`, `Filter` and `Protocol` follow one value each from the box to what is shown, saved and put back.
`Bench` says where the operator was asked to have things (`Place`), what the values shown tell of this box, even those
of an earlier one or of before the last change, and the shunt setting among them once the network brought it (`Tells`), and that a voltage that is shown was read through a breaker that is still closed
(`Breaker`). On it stand `Innocent`, which lists for each stage the faults a run without notes has ruled out, and `Blameless`, its
converse for a sound box and a prompt operator.

### TestLogProofs

| theorem | states |
|---|---|
| `TypeCorrect` | `[]TypeOK` |
| `NobodyReadsPast` | `[]InRange` |
| `EntryTrue` | `[]EntryIsTrue` |
| `ShownInItsColour` | `ShownAsNoted` |

`InRange` is not inductive: a thread may be in the middle of a line or row, and then the lists differ in length.
`Ordered` says of a run that is not torn how far each list is, given what either pen still has to append: the pens follow
their scripts and are not at the same lists (`Pens`); every line has its mark (`Lines`); as many outcomes, texts and names
as there are rows, but for the one being written (`Outcomes`, `Names`); the address is signalled once and the dialog opened
once (`Stage`); each text is there once or still to come (`Texts`, `Fresh`, `AllThere`); no bad row without a bad verdict (`Marked`); and
what `writeLog` has joined is still what the lists say (`Reading`). That a run writes at most one row for each check, each row of the
dialog and the address, which `TypeOK` claims, follows from `Texts`.

### What is not proved

Only model-checked: liveness (`SessionEnds` of both session modules, `AlarmShown`, `Ends` of `BranchTests` and `BaseChecks`,
`Drains`), since liveness under fairness and `ENABLED` are out of the prover's reach, and induction over data as well. The
properties of the runs that expect a violation are false. No module uses a recursive operator.

Two proof attempts failed for a good reason and changed the model. `SettingsKept` without `met` is false (section 6), which TLC
had not seen because every box it was given could be read. `Proven` once claimed the tap of the total power of a start box, which no row tells.
Both cases are now among the boxes that TLC tests.

## 6. Where the code departs from what it says

* `func_label`: end a failing session early and start the next one before the worker is done, and
  the failed product gets a label ("因测试未通过，标签未打印" is the intent).
* `func_success`: the same restart, and the session is shown as 成功 without having been tested.
* `func_early_end`: "确定需要提前结束？" ends the session, not the run; the run may wait for ever.
* `safety_label`: a grounding test stopped half-way prints the label it should only get for success.
* `safety_final`: the "final result" of a busway session changes after it was shown.
* `safety_polarity`: a wrong polarity is logged as a success.

Met while modelling, without a run of their own; the models contain them and the properties step around them:

* `power_corethread.cpp:90-124`: the wait for the IN cable to be unplugged ends in the same way whether it was
  unplugged or not, and is not noted. The wait for OUT then passes through IN, and "始端箱OUT口通讯成功" is logged of a port
  nobody tested (`Found` leaves `"out"` out of a run that was not smooth).
* `power_corethread.cpp:235-249`: whether the lightning protection was put back is waited for, with what rounds are left, and
  noted by nobody: a box may leave without it. For the breaker the same holds, but `BreakerBack` shows that it is caught.
* `power_corethread.cpp:436-448`: the second reading cannot save a box; the first look has noted its failure.
* `power_corethread.cpp:159, 492, 1758-1762`: the filter that is put back after the branch tests is the one `mBusData` showed
  at the comparison of the settings. If no read of the box brought data, that is the filter of the box tested before, and the box gets it (`SettingsKept`
  asks for `met`).
* `power_corethread.cpp:864`: the list of temperatures begins with a zero, which is what is left out as the
  lowest; the average is that of the three lowest.
* `power_logs.cpp:81`: from the second session of a program start on, the texts in the log entry stand behind the
  names of earlier sessions.
* `people_judg.cpp:106 ff.`: what the operator rejects becomes a failed row; verdict and label stay passed.
* `power_corethread.cpp:1604`, `power_logs.cpp:81`: a row of the address assignment has its result first and its text
  later; a log that is joined in between reads past the list. The worker needs minutes to get there.
* `serialport.cpp:119, 153, 197`: the queue is tested before other events run and before the bytes are received; a relay
  call queued in between takes bytes that came before it was sent for its answer. If the timer is held up by a dialog
  that one of these events opens, the port neither sends nor receives until it is closed.
* `power_corethread.cpp:150, 378`: the result of the read is dropped, and the shunt setting comes over the network only:
  with a start box that has a shunt release and should not, a failed network read leaves the setting of the box before
  to be compared, and nothing is noted (`FaultIsNoted` asks for `known` there). A box that should have one is still made to trip.
* `dev_ipsnmp.cpp:205`, `dev_sirtu.cpp:593-596`: an open breaker is 1 over the serial line, which is closed over the
  network: after a walk that stopped early, the waits for closing the breaker may be passed with the breaker open.
  `BreakerBack` shows that the voltages give it away.
* `power_corethread.cpp:1590, 1599`: a bad address is noted twice as a failure, and has one row.
* `devices/dev_source.cpp:91-92`: the meter of the basic type returns constants.
* `rtu_write.cpp:20-25`: an exception reply with a good checksum counts as success.

## 7. Not modelled, and the plan

Not modelled:

* what an upload, a database, a settings page or a view does: formatting and tables, without protocol;
* register and OID layouts, the bytes of the polarity decoding, the scaling of expected values;
* `handleBasicType`: its loops judge the constants of `dev_source.cpp`, so that nothing of a box is in them.
  It is a check with any outcome in `FuncSession`;
* the other side of the merge conflict in `workDown`, with `readDev`;
* `Test_Pause`, `Test_Complete` and `errStop` (never set);
* the withstand and grounding buttons while a functional run is busy, the order counter of safety sessions, a
  product code scanned during a run;
* third-party code, and `src/calibrate-ip`, a form that sets an address.

Vendored libraries, forms and tables are most of the repository's lines; the modules are about the
part that decides what becomes of a product.

Plan, in order of importance; what exists is marked:

1. `Progress`, `Verdict`, `FuncSession`, its runs and proofs (done).
2. `SafetySession`, its runs and proofs (done).
3. `SerialLink`, `CommandLine`, their run and proofs (done).
4. `BranchTests`, its run and proofs (done).
5. `BaseChecks`, its run and proofs (done).
6. `TestLog`, its run and proofs (done).
7. `VolCur`: the tolerance arithmetic of `Power_ErrRange` at its widths, against a reference definition.
8. `AutoAddress`: the reply loop of `autoSetAddress` and its signals; refines `InitDev`.
9. A composition of `FuncSession` and `SafetySession` over one record, for clicks on the other test's buttons.

## 8. Running

```
tlc -workers 2 -config FuncMain.cfg MCFuncSession.tla
tlc -workers 2 -config SafetySessions.cfg MCSafetySession.tla
tlc -workers 2 -config SerialLink.cfg MCSerialLink.tla
tlc -workers 2 -config BranchTests.cfg MCBranchTests.tla
tlc -workers 2 -config BaseChecks.cfg MCBaseChecks.tla
tlc -workers 2 -config TestLog.cfg TestLog.tla
tlapm FuncSessionProofs.tla
tlapm SafetySessionProofs.tla
tlapm SerialLinkProofs.tla
tlapm BranchTestsProofs.tla
tlapm BaseChecksProofs.tla
tlapm TestLogProofs.tla
```
