# ModbusLib in TLA+

A verification project for ModbusLib, a C++ library that implements the Modbus
protocol (clients and servers over TCP, UDP and serial lines). It holds TLA+
models of the library's state machines, TLC configurations that check them on
small instances, and TLAPS proofs for every instance.

## 1. The system

All classes of a connection run in one thread; "concurrency" is the
interleaving of calls that each return quickly with `Status_Processing` and are
made again (`doc/pages/01_architecture.md`). A state machine therefore lives
across calls, and across the clients, ports and devices that share it.

| Component | State it keeps | Operations | Interacts with |
|---|---|---|---|
| `ModbusClientPort` (client engine) | `state`, `block` (the frame buffer is taken), `unit`/`func` of the pending request, `currentClient`, `repeats`, `lastTries`, last statuses, settings | the request functions, `rawRequest`, `cancelRequest`, `close`, `setPort`, setters | owns a `ModbusPort`; shared by `ModbusClient`s; emits signals |
| `ModbusClient` | unit, port | forwards every request with itself as the client | `ModbusClientPort` |
| `ModbusPort` and its subclasses (TCP, UDP, RTU, ASCII and the mixed ones) | port state, `changed`, error text, time stamp, one frame buffer for both directions | `open`, `close`, `isOpen`, `write`, `read`, `writeBuffer`, `readBuffer`, setters | the operating system; driven by the engines |
| Frames (`ModbusNetFrame`, `ModbusRtuFrame`, `ModbusAscFrame`) | buffer, size, transaction id, `autoIncrement` | `writeBuffer`, `readBuffer` | checksums of `Modbus.cpp` |
| `ModbusServerResource` (server engine) | `state`, request fields, value buffer, last statuses | `open`, `close`, `process` | owns a `ModbusPort`, calls a `ModbusInterface` device |
| `ModbusTcpServer` | listening socket, list of connections, settings | `open`, `close`, `process`, setters | one `ModbusServerResource` per connection |
| `ModbusServerPort` | device, unit map, settings | setters, `isUnitEnabled` | base of the two servers |
| `ModbusObject` | lists of slots; the senders under way | `connect`, `disconnect`, `emitSignal`, `sender` | base of all; a slot may call back |
| Request functions (`ModbusClientPort`, codes 1 to 43) | none of their own | `readCoils`, ..., `readDeviceIdentification` | what they send, the answers they accept, what they hand out |
| `processInputData`, `processDevice`, `processOutputData` | the request fields and the value buffer, in unions | one branch per function code | device, frames |
| Memory helpers (`Modbus.cpp`) | none | `readMemRegs`, `writeMemRegs`, `readMemBits`, `writeMemBits`, `crc16`, `lrc`, address and string conversions | devices, frames |
| C interface (`cModbus.cpp`), Qt helpers (`ModbusQt.cpp`), Windows ports | thin wrappers | | |

What is hard in it: a request is spread over many calls, and in between its
owner may cancel, close, replace or reconfigure what it runs on; retries reuse
a frame left in a shared buffer; ports close themselves on errors; nothing
orders the clients that wait; a late answer may meet the next request; a server
answers for a device that may keep a request pending over a close; the fields of
one request are those of the next, and share memory among themselves; a slot may
disconnect the slots that are being called.

### What makes each component correct

* Client engine: one request at a time, from start to end; each client gets the
  outcome of its own request; `Good` means a frame went out and, but for a
  broadcast, a response came back; retries are bounded and counted; every
  polled request ends; blocking calls finish.
* Ports and frames: what goes out is the frame of the pending request, on each
  try; what is taken for a response answers it.
* Server engine: at most one response per request, none to a broadcast or a
  foreign unit; a failing device gives an exception, not a success.
* TCP server: no more connections than allowed, none lost, all closed when the
  server is.
* Request functions and the server's counterparts: every request that is let out
  is understood, the device's outcome is the client's, and a remote memory is
  worked on as one at hand.
* Signals: each slot once, in order, with the right sender.
* Memory helpers: reads and writes stay inside their memory and touch exactly
  the addressed bits and registers.

## 2. Modules

```
RequestArbiter      what a client port promises         (abstract)
RequestResponder    what a server engine promises       (abstract)
RemoteDevice        what the memory functions promise   (abstract)
ModbusPort          a port as an engine sees it
ModbusClientPort        EXTENDS ModbusPort, implements RequestArbiter
  ModbusClientPolling   EXTENDS ModbusClientPort: the loop that polls the clients
  ModbusClientPortProofs
ServerConnection    one process() call as a TCP server sees it
ModbusServerResource    EXTENDS ModbusPort, ServerConnection, implements RequestResponder
  ModbusServerResourceProofs
ModbusTcpServer         EXTENDS ServerConnection
  ModbusTcpServerProofs
ModbusFrames        the bytes of NET, RTU and ASCII frames
  ModbusLines           EXTENDS ModbusFrames: the TCP, UDP and serial ports of a client
    ModbusTransport     EXTENDS ModbusLines: engine, port, line and server; implements ModbusPort
      ModbusTransportProofs
ModbusFunctions     the request functions of a client
  ModbusServerFunctions EXTENDS ModbusFunctions: the server's side of each
ModbusMemory        the memory helpers and the devices of the examples
  ModbusExchange        EXTENDS both: a request and its answer; implements RemoteDevice
    ModbusExchangeProofs
ModbusObject        signals and slots
  ModbusObjectProofs
MC*                 instances for TLC
```

The parts are cut where one sees little of the other. The engines
(`ModbusClientPort`, `ModbusServerResource`, `ModbusTcpServer`) see of a port
whether it is open and what a call returned, and of a frame whether it is good;
`ModbusTransport` sees the bytes and lets every request ask the same;
`ModbusExchange` sees what a request asks and lets nothing be lost. Each cut is
checked: `PortContract` that a port does what `ModbusPort` says, `CallsAreSteps`
that a server engine does what `ServerConnection` says, `Understood` that a
request from a client function gets the verdict "good" of a server.

**ModbusPort.** `open`, `close`, `isOpen`, `write` and `read` of any built-in
port as relations between what is returned and what is left (`portOpen`,
`connecting`, `changed`). A call that is pending, fails, fails and closes the
port, or is refused by a closed port are all possible. `isOpen()` may say no for
an open socket (it reads `SO_ERROR`); that an error comes between two such
readings in a row is left out.

**ModbusClientPort.** The variables carry the names of the members. A client's
call of a request function starts at `Enable`, `EnableRefused`, `Process` or
`Disable`, the outcomes of `getRequestStatus`; it then holds `call` and runs
through the passes of `process()`, one action each (`FindOpen`, `Open`,
`ReopenChanged`, `WriteClosed`, `Write`, `Read`, `TimeoutOver`, `TimeoutRuns`),
to the return, which `AttemptEnds`, `ReturnProcessing` or `SetCompleted`
describe. Between two calls any operation in `Management` may be called. All
request functions have the same shape, so a request is `[unit, valid, raw]`:
whether it is a broadcast, is refused before it is sent, or is a `rawRequest`.
`BEGIN_OPEN`, `BEGIN_WRITE` and `BEGIN_READ` are left in the pass that enters
them, and are no states of the model. `want` (who polls what), `written` (whose
frame is in the buffer), `sent`, `announced` and `ret` record the past for the
properties.

**ModbusServerResource.** Same layout: `Call` starts a call of `process()`, one
action per pass, `Returns` ends it. A received frame is a pair of its unit and
what is thought of it: good, illegal (refused with an exception), not correct
(refused in silence), unreadable. The device returns success, one of two
exceptions with a different treatment, an error that is no exception, or is
pending. `r`, the local variable of `process()`, is a variable here because what
it holds when a write is resumed in a later call is not what it held before.
`reply` is the port's buffer, `outcome`, `before`, `announced` and `ret` are
history. The unit map is set as a map or as a text; a text is a set of parts,
each a range of units or a single one. `fillUnitMap` makes a map of a text;
`unitMapToString` is the pair of loops that makes a text of a map, over a counter
that both advance: `Parts` the outer one, `EndOfRun` the inner one, each a
function of where the counter stands. The inner one reads the bit behind the map
before it looks whether the map has ended, so what lies there is a parameter of
them (`beyond`).

**ServerConnection, ModbusTcpServer.** A connection of a TCP server is a whole
`ModbusServerResource`. Composing several in full would multiply state that the
server never looks at; what it does look at is whether the engine's state is
closed and its port open. `ServerConnection!After` says what one call can make
of that. The property `CallsAreSteps` of the engine justifies it, and
`ModbusTcpServer` uses it for every connection in its list.

**ModbusFrames, ModbusLines.** A frame is the sequence of its bytes: header and
identifier, unit, function, data, checksum, as digits where the protocol has
digits. `Frame` builds one as `writeBuffer` does, `Read` takes one apart as
`readBuffer` does, with every reason to refuse it. `ModbusLines` has the eight
ports of a client (`TCP`, `RTU`, `ASC`, `UDP` and RTU and ASCII over TCP and
UDP), each with the states of its own class, the buffer `buff` that both
directions share, and what has arrived (`input`). A system call returns any of
what it may return, and a time-out is one of its outcomes. What a call leaves in
the buffer and in the port's state is what the source leaves there.

**ModbusTransport.** The client engine again, reduced to one client but with the
port's operations in full: one operation of the port is a step, for the line and
the server move between two. The server numbers its answers, so that a property
can say whose answer a client was handed. Answers arrive whole, in parts,
doubled, damaged, late, overtaken, or never, as the kind of line allows; a
connection is closed by the other side with or without an error. Identifiers,
`autoIncrement` and `setNextRequestRepeated` are those of the source.

**ModbusFunctions, ModbusServerFunctions.** One operator per request function,
with its name: the function code, whether its arguments are let through
(`valid`), the data it sends, whether it accepts an answer (`good`), and what it
hands out. `processInputData` and `processOutputData` are one operator per
group of function codes, on the fields of the engine, `srv`. The fields that
share unions with others are read from the same words here, so what one branch
writes, another branch reads.

**ModbusMemory, ModbusExchange.** The memory helpers on functions from byte
addresses to bytes, and the two devices of the examples on top of them: the demo
server (all functions on one memory) and `mbserver.c` (four memories, absent
ones possible, called through the C interface). `ModbusExchange` composes all of
it: `Ask`, `Serve`, `Operate`, `Reply`, `Take` or `Unanswered`, then the next
request on the same server. What a device tells of itself (counters, logs,
identification) is external: a constant `Told`. `Calls` are the calls that the
types in `ModbusClientPort.h` admit, with arrays as long as the counts say; the
requests of a run are among them (`RoundsAssumption`).

**ModbusObject.** `emitSignal` in steps: it begins, calls the slot it finds at
its position, the slot runs, returns, and it ends when it finds none. While a
slot runs, it may connect, disconnect and emit in turn. An emission also carries
what is left for it to call and whether a slot that had its turn was
disconnected, to judge it by.

## 3. What is checked

| Run | Shows | Instance |
|---|---|---|
| `client_all` | types and five invariants, whatever the owner of the port calls between two polls | 2 clients, a unicast and a broadcast each, 2 tries, non-blocking, every management operation |
| `client_exclusive` | each client gets the outcome of its own request; `Good` has an answer; refinement of `RequestArbiter` | the same without cancelling, closing, replacing, reconfiguring |
| `client_blocking` | a blocking call completes and releases the port | 2 clients, all four kinds of request, 3 tries |
| `polling_circle` | every request ends when the clients are polled in a circle | 3 clients, fairness |
| `server_all` | types; the text of a unit map keeps its units; refinement of `RequestResponder`; `CallsAreSteps` | requests for units 0 and 1, every verdict, open, close, unit map and broadcast between calls; maps of 16 units, given by texts with single units, gaps and ranges up to the last unit |
| `server_blocking` | the error text is that of the error returned; an exception that was sent is what the call returns | the same, blocking, reconfigured, frames that can be read |
| `server_live` | responses only from units served; every request ends; every `close()` is carried out | the same, non-blocking, fairness |
| `tcp_all` | connections are accepted within the limit, follow the settings, are announced and deleted in pairs, never dial; `close()` completes | at most 2 connections, 2 devices, 1 unit, failing `accept()`, every setter, fairness |
| `transport` | whose answer a client takes; that it is a genuine one; that a serial line forgets what came too early; that each try sends the request's frame; that each port is a `ModbusPort`; that requests end unless a serial device holds up a write for ever | 8 kinds of port, blocking and not, 1 or 2 tries, 2 requests, 1 disturbance, 1 changed setting, fairness |
| `exchange` | requests are understood, outcomes and information arrive, refinement of `RemoteDevice` | every function but those of diagnostics that carry a value, both devices of the examples, two rounds |
| `exchange_diagnostics` | counterexample to `OutcomeArrives` | the diagnostics functions |
| `signals` | the sender is the emitting object; slots are called once and in order; emissions end | 2 objects, 1 signal, a function and a method as slots, 2 emissions nested, fairness |

**Bounds.** Two clients are enough for one to inherit what another left, and
three for a circle in which one is neither the owner nor next. Two tries are a
failed one with one left and a last one; three add one that is neither. A second
unit is one that a map may leave out while the other is served, and unit 0 is
the broadcast. `LastUnit`, the last unit of a map, is 255 in the code and 15 in the
runs of the server, where the recursion over a map would exhaust TLC's stack: two
bytes of a map hold a run that crosses a byte, gaps of one unit and of many, and a
run that ends with the map. What is proved of maps holds for every `LastUnit`.
With two connections one can wait for another while the server closes, and a limit
of one can be below what is open. In these modules nothing else is bounded:
`repeats` stays below the tries by `RetryBookkeeping`, and no run has a constraint.
For the client engine the proofs lift the bounds (section 4).

`transport`: a second request is one that can be handed the first one's answer;
the identifiers start at 65534, so that the second request's is the one after the
last; one disturbance is one lost, split, doubled or damaged answer or a closed
connection. Two disturbances with one change, and for TCP alone three requests
with two, were checked by hand with the same result. The ASCII buffer is checked
at its edge: 261 bytes of data make 531 characters, for a buffer of 529.

`exchange`: the demo memory has 128 registers; offsets are 0, 7, 13, 8 before
the end and the end, counts 0, 1, 7, 8, 9 and 17, which are the sides of every
boundary of a byte, a register and the memory, and the limits of a message:
2000, 2040 and 2041 bits, 125, 127 and 128 registers. `mbserver` has 21 coils, no
discrete inputs and 3 registers each. The server's fields start with values no
request has set, for nothing initialises them, and the first request leaves
them to the second.

`signals`: two slots are one running and one that was passed or is to come; two
emissions are one inside the other, of the same object or of two. An emission calls at most
two slots before slots keep quiet, for a slot that connects itself goes on for
ever. (With three slots of which two belong to one object the run passes as well,
in three minutes.)

**Deadlock** is checked where the system does not stop. `exchange`, `transport`
and `signals` stop at a bound (of requests, of calls) and do not check it.

**Fairness.** The application polls (weak fairness of the call), and a call is a
loop without blocking operations, so it runs to its return (weak fairness of the
passes). In `polling_circle`, `server_live` and `tcp_all` a port's `open` and
`read` give up after the time-out, a write when the buffer of the operating
system has room, and the time-out state passes: each is a pending answer that,
polled again and again, does not stay pending (strong fairness, for the actions
are enabled on every poll and not in between). A device that returns
`Status_Processing` is assumed to finish in the same sense. Nothing is assumed of
what the application calls between polls, nor that anything succeeds. In
`transport` the caller polls and time passes (weak fairness of `process`, except
while a write to a serial device is under way): every other operation of a port
that is pending looks at the clock and ends by its time-out. A serial write has no
time-out. `nonBlockingWrite` takes the time when it begins and never compares it, and
returns `Status_Processing` as long as the device takes nothing; `blockingWrite`
returns when the system call does. So `RequestEnds` says that requests end if no
device holds up a write for ever, and `transport_stalled` shows what happens
otherwise. Of what arrives, and of the server, nothing is assumed. In `signals` the thread goes on (weak fairness
of what an emission does next).

### Findings

The first has a run in the list, the others a configuration to be run by hand
(`tlc -config X.cfg MCModule`); a counterexample is what each of them gives, and
with `-continue` those that are about two properties give one for each.

* A diagnostics function whose device gives out a value fails at the client: the
  server writes the value over the subfunction, which the client compares
  (`exchange_diagnostics`).
* `cancelRequest` frees the port for the next client and leaves the frame of the
  cancelled request pending. The next client takes its answer for its own
  (`cancel_request`). A setting changed during an exchange has the same effect
  (`change_settings`).
* A refused broadcast is answered with an exception (`server_refuted`).
* A response whose write is resumed in a later call is reported as `Good`, even
  if it was an exception (`server_refuted`).
* `close()` of a TCP server whose `accept()` has failed never looks at the
  connections that are open (`tcp_accept_error`).
* A non-blocking serial line that timed out has emptied the buffer, and the next
  try sends what is left of it (`transport_refuted`).
* A serial device that takes no bytes keeps a request, and the port with it, for
  ever: a write has no time-out (`transport_stalled`).

| Configuration | Module | Shows |
|---|---|---|
| `cancel_request` | `MCModbusClientPort` | `OwnAnswer` violated after `cancelRequest` |
| `change_settings` | `MCModbusClientPort` | the port reopened in the middle of a request loses its owner, not its frame |
| `blocking_change` | `MCModbusClientPort` | a blocking call on a reconfigured port returns `Status_Processing` |
| `reopened` | `MCModbusClientPort` | two `signalOpened` without `signalClosed` |
| `polling_any` | `MCModbusClientPolling` | no queue: a client polled again and again may never be served, though the header speaks of a queue |
| `server_refuted` | `MCModbusServerResource` | `BroadcastSilent` violated by a frame that is refused; `ExceptionReturned` violated on a port that does not block; two `signalOpened` without `signalClosed` (`OpenedThenClosed`) |
| `server_status` | `MCModbusServerResource` | `signalCompleted` for a status that `lastStatus()` does not have (`CompletedStatus`); the error text of another error (`ErrorTextFits`) |
| `server_oversize` | `MCModbusServerResource` | the request sent back because the response did not fit |
| `server_maptext` | `MCModbusServerResource` | a map without units prints as the text that stands for no map, by which all units are served |
| `tcp_accept_error` | `MCModbusTcpServer` | `CloseAlwaysCompletes` violated |
| `tcp_refuted` | `MCModbusTcpServer` | `setDevice` does not reach open connections (`DeviceAgrees`); connections accepted without `signalOpened` (`OpenAnnounced`) |
| `transport_refuted` | `MCModbusTransport` | an answer to an earlier request taken: RTU and ASCII frames have no identifier, and over UDP a request that follows a retried one has the identifier of that one (`OwnAnswerAlways`); `WireCarriesRequestAlways` violated |
| `transport_stalled` | `MCModbusTransport` | `RequestEndsAlways` violated by a serial write that stays pending |
| `exchange_refuted` | `MCModbusExchange` | function 23 with more to write than to read takes the rest of the values from an earlier request (`WorksOnMemory`); a file function without records is sent, and dropped by the server (`Understood`) |
| `signals_all` | `MCModbusObject` | a slot that disconnects itself makes the emission pass over the next |

## 4. What is proved

`ModbusClientPortProofs` proves, for any number of clients, any set of requests
and any number of tries, in both modes:

* `TypeCorrect`, from types grouped by what a step changes together;
* `OwnerHasFilledBuffer`, `OwnerPolls`, `BlockingReleases`, `RetryBookkeeping`,
  `GoodWasSent` and `StatusReported`, whatever is called between two polls, from
  the inductive invariant `Inv`. It adds what the properties leave open: during
  a call the caller owns the port and its frame is in the buffer (`CallInProgress`,
  `Ownership`), and the engine is in `STATE_READ` only after a write that nothing
  has undone since (`ReadAfterWrite`), which is what `GoodWasSent` needs;
* `OwnAnswer`, `GoodHasAnswer` and the refinement `ServesOneAtATime`, under the
  assumption `Exclusive` that no cancel, close, replacement or reconfiguration is
  among the management operations, from `XInv`, which adds that the frame in a
  blocked buffer is the owner's (`FrameOfOwner`). `cancel_request.cfg` shows that
  the assumption is needed;
* `BlockingCompletes`, under the assumption that neither settings are changed nor
  the port is replaced between two calls, from `Waits`: no call then meets the
  close of a changed port, which makes it return early. `blocking_change.cfg`
  shows that the assumption is needed.

For the refinement every
action is mapped to a step of `RequestArbiter` or to a stutter.

`ModbusServerResourceProofs` proves, for any units, any requests and any texts of
unit maps, over blocking ports and others:

* `ServerTypeCorrect`, from the inductive invariant `Inv`: the types; between two
  calls `r` is as a new call finds it and no pass that always goes on is left
  (`CallState`); while a request is served its frame is the one that was read,
  and its outcome is unknown until the device is done and then that of `r`
  (`Served`); what is being written is the response to that frame (`Replying`);
* `OnlyOwnUnitsAlways`, under the assumption `Settled` that the settings stay as
  they are while a request is served. `OwnRequest` adds which way a broadcast can
  have taken to a response: only by a frame that was refused;
* `AnswersOnceAlways`, the refinement of `RequestResponder`, under the assumption
  that responses fit (`~Oversize`); `server_oversize.cfg` shows that it is needed.
  Every pass is mapped to a step of the responder or to a stutter;
* `CallsAreStepsAlways`, under the assumption that no setting of the port itself
  is changed, as none is of a connection of a TCP server. A call takes any number
  of passes, and the property is about its first and its last state. The
  invariant is therefore about what can still become of the connection in this
  call (`Remaining`): it is `After` of where the call began, each pass leaves no
  more of it than there was (`PassShrinks`), and the last pass ends in it. This
  is the assumption under which `ModbusTcpServer` uses `ServerConnection`;
* `ErrorTextFits`, if every request can be read. An error is recorded some passes before the call
  returns it, and the invariant says that it stays recorded (`ErrorPending`).
  `server_status.cfg` shows the assumption to be needed;
* `ExceptionReturned`, for a port that blocks and responses that fit: there the
  call that sends a response still knows its status (`ReplyOfCall`).
  `server_refuted.cfg` and `server_oversize.cfg` are the cases left out;
* `TextKeepsUnits`, for maps of any number of units and whatever lies behind them:
  the loops find the runs of the map, each once, and their text reads back as the
  map. `Runs` says what a run is, without a loop. For the inner loop the proof says
  that it stops at the first gap (`EndOfRunIsGap`), for the outer one that from a
  unit on it lists the runs of the rest of the map (`PartsAreRuns`). Each is a
  function defined by an equation: what it should be solves the equation
  (`EndOfRunEquation`, `PartsEquation`), and a last unit at which a solution differed
  from it would contradict the equation there.

`ModbusTcpServerProofs` proves, for any units, devices and limit, `TypeCorrect`,
`NeverDials`, `SignalsPair`, `SettingsAgree` and `AcceptBounded`. `NeverDials` is
about the list between two calls and not inductive; `NoneDials` says the same of
every pass, and rests on `AfterType` and `ProcessedType`, what a connection's own
process() can leave of it.

`ModbusObjectProofs` proves, for any objects, signals and slots and emissions
nested to any depth, `TypeCorrect`, `SenderServed` and `UndisturbedInOrder`. The
invariant has one part for each: the senders are those of the emissions, the
innermost first (`SendersStacked`), and an emission that nobody disturbed stands
at a position of the list from which on the list is what it has left to call
(`AllInStep`). That a disconnected slot shifts both alike needs facts about the
loop that removes it (`Without`), for lists of any length.

`ModbusTransportProofs` proves, for the eight kinds of port and any number of
requests, tries, disturbances and changed settings, `TypeCorrect`,
`WireCarriesRequest` and the refinement `PortContract`: in every operation each
port does what `ModbusPort` says, the port on which both engines are proved. In
`PortInv`, `PortState` says what a state tells of a port (only a TCP port that
does not block waits for a connection, and only while the engine does), and
`BufferKept` until when the shared buffer holds the request: on a network and on
a line that blocks until the request ends, on others until the first answer is
read.

`AnswerIsOwn` proves `OwnAnswer`: over TCP with any number of tries, and over UDP
with one, the data a client is handed are those of the answer to its request,
however answers are delayed, cut, reordered, doubled, or lost with their
connection. It assumes fewer requests than there are identifiers
(`Requests < 65536`): they have 16 bits and come back after that many requests,
and an answer as old as that would be taken. The invariant, `AnswerInv`, says of
every byte received or under way where it comes from:

* `Known` are the pairs of identifier and answer of which the line may hold a
  frame. One with the identifier in use belongs to the last request (`Age`).
* Over UDP every datagram is a whole frame of a known answer (`DatagramInv`).
* Over TCP the bytes are a stream (`InOrder`), but it may begin inside an answer:
  a read takes what there is, and what it took of an answer is gone when the rest
  arrives. The stream has a phase, its distance from the beginning of the answer it
  starts in, and a byte its place in a frame. All answers have 9 bytes, and only at
  phase 0 are the zeros of the protocol identifier, the length, the unit and the
  function where a header has them (`PhaseOfHeader`); so bytes that are read as an
  answer are one answer (`StreamTaken`).
* A request that is repeated keeps its identifier, and the request that follows it
  borrows that identifier: `setNextRequestRepeated` clears the flag that only
  `writeBuffer` sets again. Before it writes, a TCP port has closed its old
  connection after a failed try, and so no more than the rest of one answer is
  left (`Borrowed`), and the stream holds nothing once a connection is lost
  (`Lost`). A UDP port that does not block stays open: with more than one try
  `transport_refuted` shows an answer to the request before taken.

`AnswerIsGenuine` proves, over TCP and UDP, with any number of requests and
tries, that what a client is handed is an answer the server has given, and never parts
of two, read together or one after the other. It does not say to which request,
and so needs none of the assumptions of `AnswerIsOwn`. It rests on the same facts
about the stream: what is read as an answer is one answer, whole.

Where a fact holds for sequences of any length, the proof is by a minimal
counterexample (`Least`), because the library's induction theorems take the
statement as a parameter.

`ModbusExchangeProofs` proves, for any number of requests, one after the other,
with any arguments, on either kind of device:

* `RequestsUnderstood`: whatever a client function lets through, the server
  understands, whatever the fields of its engine hold (at first, anything);
* `OutcomesArrive`: success comes as success, an exception as that exception;
* `InformationComes`: what a client function hands out is what the device told.

Each function of the client and its branches in the server are taken in turn:
what it sends (lemmas `...Form`); that the server hears it, and what it then
keeps (`...Heard`, `...Reaches`); that the client takes the answer made from what
was kept (`...Answers`), and finds in it what the device told (`...Informs`). The
lemmas `Calls...`, `Memory...` and `Operates` put these together for all
functions and all devices. `Kept` is the link: the fields that the answer to a
request depends on, and that the device leaves alone although it writes into the
same value buffer. The inductive invariant `IInv` follows the request through its
stages with it (`Asking`, `Serving`, `Operating`, `Answering`).

Two kinds of requests are excluded by hypotheses on the requests (`NoFiles`,
`NoResets`). Those about files, since what they send and what is understood of it
is defined record by record, and that needs induction over the records. And, for
outcome and information, the subfunctions of diagnostics but the first: there the
properties do not hold, which is the finding of `exchange_diagnostics`.

The constants are only assumed to be what the assumptions named in the modules
say, which TLC evaluates in the runs.

Only model-checked:

* liveness, everywhere;
* `FlushedIsGone`, and `Genuine` on serial frames (`Genuine` of RTU and ASCII
  over any line): they are about answers that passed, and about sums, of which a
  damaged frame may have the right one;
* the three properties of the exchange for requests about files, for the reason
  given;
* `WorksOnMemory`: single bits of the memory are its subject, and the helpers
  that move them between bytes are loops with masks and shifts.

## 5. What is not modelled, and the plan

Left out of modules that exist:

* UDP ports: the server mode (binding, the answer goes to the address that asked
  last). Serial ports: the attributes of a device are one setting, and a device
  whose attributes were refused is not told from one that failed to open. What is read
  of a serial line never fills the buffer, so the read that ends because it is full
  is left out. `recvfrom` overwrites the address that a UDP port sends its next
  request to; the line has one server, and the address does not change.
* `ModbusServerPort`: a server for RTU or ASCII over UDP. `Modbus.h:661` lists
  these types; `createServerPort` makes a `ModbusTcpServer` for them. This was
  read in the source and not checked.
* Slots that call the engine that emits the signal. `signalCompleted` is emitted
  before the client port forgets its client, so a request function called there
  continues the request that has just ended.
* `ModbusExchange`: a device that is pending (the engine's, `ModbusServerResource`);
  diagnostics with a value, which do not arrive; function 23 that writes more than
  it reads; bits beyond the data of a response; a count of 2041 in the functions on
  arrays of `bool`; more events, FIFO values or identification than the message
  holds (`Tellable`). Devices ignore a broadcast, as those of the examples do.
* What `std::list` does past its end is undefined; the ring that compilers come
  with is assumed (`ModbusObject!slot`).

The plan, in order:

1. **A gateway**: a client port used as the device of several connections, where
   all of them call with the same client identity. Both engines exist; what is
   missing is their composition on the level of requests, `RequestArbiter` as the
   device of two `RequestResponder`s.
2. **Re-entrant slots** in the client engine: a call between `SetCompleted` and the
   reset of `currentClient`.
3. **Proofs**: for the transport `FlushedIsGone`, and that an answer over a serial
   line is `Genuine` unless its sum survived the damage; for the exchange
   `WorksOnMemory`, function by function.
4. **UDP servers**.

Not modelled, and not planned: the wrappers of the C interface that call one
method each, and `ModbusQt.cpp` (conversions without state); the Windows
counterparts of the `unix/` files; text conversions other than that of a unit
map; threads (the library has none of its own; a port or a client used from two
threads is outside its contract).
