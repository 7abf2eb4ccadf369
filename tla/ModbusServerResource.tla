----------------------- MODULE ModbusServerResource -----------------------
(***************************************************************************)
(* The server engine: a ModbusServerResource reads requests from one port, *)
(* has a device execute them and writes the responses back.                *)
(*                                                                         *)
(* The application polls process(); each call runs from `running' through  *)
(* one action per pass of its do-while loop until it returns.  open() and  *)
(* close() only leave a command (cmdClose) that process() meets where it   *)
(* looks for it.  The states OPENED, BEGIN_READ and READ differ in the     *)
(* timer alone and are one here.                                           *)
(***************************************************************************)
EXTENDS Integers, ModbusPort, ServerConnection

CONSTANTS
  LastUnit,    \* the last unit of a map: 255, or less to check it
  Unit,        \* unit addresses that occur in frames and in setUnitEnabled
  UnitMap,     \* maps that setUnitMap gets
  UnitText,    \* texts that setUnitMapString gets
  Request,     \* [unit, verdict]: a received frame and what is thought of it
  Oversize,    \* the device may return more than the port's frame carries
  Management,  \* the operations called between two calls of process(), by name
  Settled,     \* broadcast and unit map are left alone while a request is served
  None

Illegal == "BadIllegalDataValue"            \* refused by processInputData,
NotCorrect == "BadNotCorrectRequest"        \* ... silently
Unreadable == "Unreadable"                  \* refused by readBuffer
Gateway == "BadGatewayPathUnavailable"
Device == "BadDevice"                       \* an error that is no exception code
Failure == "BadServerDeviceFailure"

ManagementOps == {"open", "close", "broadcast", "unitmap", "change"}

StandardError == {Illegal, Gateway, Failure}

(* What a response says: the exception code sent for an error.             *)
Outcome == StandardError \union {Good, "Leftover"}

(* What a unit map has bits for, and what a text may say of them.          *)
Units == 0..LastUnit
Part == [first : Units, last : Units]

ASSUME ServerAssumption ==
  /\ LastUnit \in Nat
  /\ Unit \subseteq Units
  /\ UnitMap \subseteq SUBSET Units
  /\ UnitText \subseteq SUBSET (Part \union {None})
  /\ Request \subseteq [unit : Unit,
                        verdict : {Good, Illegal, NotCorrect, Unreadable}]
  /\ None \notin Request \union Outcome \union Part
  /\ Oversize \in BOOLEAN
  /\ Settled \in BOOLEAN
  /\ Management \subseteq ManagementOps

Bad == StandardError \union {BadPort, NotCorrect, Device}
Status == Bad \union {Good, Processing, Uncertain}

DeviceResult == {Good, Processing, Illegal, Gateway, Device}

State == {"UNKNOWN", "CLOSED", "WAIT_FOR_OPEN", "READ", "PROCESS_DEVICE",
          "BEGIN_WRITE", "WRITE", "TIMEOUT", "WAIT_FOR_CLOSE"}
Serving == {"PROCESS_DEVICE", "BEGIN_WRITE", "WRITE"}

\* mutant: an error that is no exception code is sent all the same.
ExceptionRaw(st) == st

Exception(st) == IF st \in StandardError THEN st ELSE Failure

Answer == [req : Request, st : Outcome]

VARIABLES
  state, cmdClose,
  frame,             \* unit, func and arguments of the request last read
  broadcastEnabled,
  unitMap,           \* the enabled units, None for no map
  lastStatus, lastErrorStatus,
  lastErrorText,     \* the error whose text is stored
  isLastPortError,
  running,           \* a call of process() is in progress
  r,                 \* its local variable r
  reply,             \* the response in the port's buffer
  \* history
  outcome,           \* what became of the request being served
  before,            \* the Connection the running call of process() found
  announced,         \* the last of signalOpened and signalClosed
  ret                \* how the last call of process() ended

portVars == <<portOpen, connecting, changed>>
settingVars == <<broadcastEnabled, unitMap>>
statusVars == <<lastStatus, lastErrorStatus, lastErrorText, isLastPortError>>
errorVars == <<lastErrorStatus, lastErrorText, isLastPortError>>
requestVars == <<frame, reply, outcome>>
callVars == <<running, r, before, ret>>
vars == <<portVars, state, cmdClose, settingVars, statusVars, requestVars,
          callVars, announced>>

(* The engine and its port as a TCP server sees them.                      *)
Connection == [st |-> IF state \in Serving THEN "SERVE"
                      ELSE IF state = "WAIT_FOR_OPEN" THEN "OPENING" ELSE state,
               sock |-> portOpen]

Return == [st : Status, completed : BOOLEAN, answer : Answer \union {None}]
NoReturn == [st |-> Processing, completed |-> FALSE, answer |-> None]

TypeOK ==
  /\ portOpen \in BOOLEAN
  /\ connecting \in BOOLEAN
  /\ changed \in BOOLEAN
  /\ state \in State
  /\ cmdClose \in BOOLEAN
  /\ frame \in Request \union {None}
  /\ broadcastEnabled \in BOOLEAN
  /\ unitMap \in (SUBSET Units) \union {None}
  /\ lastStatus \in Status
  /\ lastErrorStatus \in Status
  /\ lastErrorText \in Status
  /\ isLastPortError \in BOOLEAN
  /\ running \in BOOLEAN
  /\ r \in Status
  /\ reply \in Answer \union {None}
  /\ outcome \in Outcome \union {None}
  /\ announced \in {"closed", "opened", "reopened"}
  /\ before \in [st : ConnectionState, sock : BOOLEAN] \union {None}
  /\ ret \in Return

(* A port handed over by a TCP server is open from the start.              *)
Init ==
  /\ portOpen \in BOOLEAN
  /\ connecting = FALSE
  /\ changed = FALSE
  /\ state = "UNKNOWN"
  /\ cmdClose = FALSE
  /\ frame = None
  /\ broadcastEnabled = TRUE
  /\ unitMap = None
  /\ lastStatus = Uncertain
  /\ lastErrorStatus = Uncertain
  /\ lastErrorText = Uncertain
  /\ isLastPortError = TRUE
  /\ running = FALSE
  /\ r = Good
  /\ reply = None
  /\ outcome = None
  /\ announced = "closed"
  /\ before = None
  /\ ret = NoReturn

isBroadcast(u) == u = 0 /\ broadcastEnabled
isUnitEnabled(u) == unitMap # None => isBroadcast(u) \/ u \in unitMap

-----------------------------------------------------------------------------
(***************************************************************************)
(* How a pass goes on, and how a call ends.                                *)
(***************************************************************************)

\* mutant: the flag is not reset.
SetErrorKeepsFlag(st) ==
  /\ lastErrorStatus' = st
  /\ lastErrorText' = st
  /\ UNCHANGED isLastPortError

SetError(st) ==
  /\ lastErrorStatus' = st
  /\ lastErrorText' = st
  /\ isLastPortError' = FALSE

SetPortError(st) ==
  /\ lastErrorStatus' = st
  /\ isLastPortError' = TRUE
  /\ UNCHANGED lastErrorText

(* setError with the text that is already stored.                          *)
SetErrorStatus(st) ==
  /\ lastErrorStatus' = st
  /\ isLastPortError' = FALSE
  /\ UNCHANGED lastErrorText

GoOn(st) == r' = st /\ UNCHANGED <<running, before, ret>>

Returns(st, completed, answer) ==
  /\ running' = FALSE
  /\ before' = None
  /\ r' = Good
  /\ ret' = [st |-> st, completed |-> completed, answer |-> answer]

ReturnStatus(st) == Returns(st, FALSE, None) /\ UNCHANGED lastStatus

RaiseCompleted(st, answer) == Returns(st, TRUE, answer) /\ lastStatus' = st

(* RAISE_ERROR_COMPLETED emits signalCompleted but leaves lastStatus.      *)
RaiseErrorCompleted(st) == Returns(st, TRUE, None) /\ UNCHANGED lastStatus

SignalOpened == announced' = IF announced = "closed" THEN "opened" ELSE "reopened"
SignalClosed == announced' = "closed"

-----------------------------------------------------------------------------
(***************************************************************************)
(* process(), pass by pass.                                                *)
(***************************************************************************)

(* The application calls process().                                        *)
Call ==
  /\ ~running
  /\ running' = TRUE
  /\ before' = Connection
  /\ ret' = NoReturn
  /\ UNCHANGED <<portVars, state, cmdClose, settingVars, statusVars,
                 requestVars, r, announced>>

In(states) == running /\ state \in states

(* STATE_CLOSED with the command to close: nothing to do.                  *)
StayClosed ==
  /\ In({"CLOSED"})
  /\ cmdClose
  /\ ReturnStatus(Processing)
  /\ UNCHANGED <<portVars, state, cmdClose, settingVars, errorVars,
                 requestVars, announced>>

(* STATE_CLOSED, BEGIN_OPEN and WAIT_FOR_OPEN.                             *)
Open(s) ==
  /\ In({"CLOSED", "WAIT_FOR_OPEN"})
  /\ ~cmdClose
  /\ PortOpen(s)
  /\ UNCHANGED <<cmdClose, settingVars, requestVars>>
  /\ \/ /\ s = Processing
        /\ state' = "WAIT_FOR_OPEN"
        /\ ReturnStatus(s)
        /\ UNCHANGED <<errorVars, announced>>
     \/ /\ s = BadPort
        /\ state' = "TIMEOUT"
        /\ SetPortError(s)
        /\ ReturnStatus(s)
        /\ UNCHANGED announced
     \/ /\ s = Good
        /\ state' = "READ"
        /\ SignalOpened
        /\ GoOn(s)
        /\ UNCHANGED statusVars

\* mutant: looked for in STATE_WAIT_FOR_OPEN only.
MustCloseOpening == cmdClose /\ state = "WAIT_FOR_OPEN"

(* The command to close, looked for in STATE_WAIT_FOR_OPEN and STATE_READ. *)
MustClose == cmdClose

MeetClose ==
  /\ In({"WAIT_FOR_OPEN", "READ"})
  /\ MustClose
  /\ state' = "WAIT_FOR_CLOSE"
  /\ UNCHANGED <<portVars, cmdClose, settingVars, statusVars, requestVars,
                 callVars, announced>>

(* STATE_WAIT_FOR_CLOSE: close() of a built-in port always succeeds.       *)
Close ==
  /\ In({"WAIT_FOR_CLOSE"})
  /\ PortClose
  /\ SignalClosed
  /\ state' = "CLOSED"
  /\ ReturnStatus(Good)
  /\ UNCHANGED <<cmdClose, settingVars, errorVars, requestVars>>

(* STATE_READ: nothing was received yet, or read() failed.                 *)
ReadNothing(s) ==
  /\ In({"READ"})
  /\ ~MustClose
  /\ PortTransfer(s)
  /\ \/ /\ s = Processing
        /\ ReturnStatus(s)
        /\ UNCHANGED <<state, errorVars>>
     \/ /\ s = BadPort
        /\ state' = "TIMEOUT"
        /\ SetPortError(s)
        /\ RaiseCompleted(s, None)
  /\ UNCHANGED <<cmdClose, settingVars, requestVars, announced>>

(* The other side closed the connection, or isOpen() says no.              *)
ReadClosed ==
  /\ In({"READ"})
  /\ ~MustClose
  /\ portOpen
  /\ portOpen' \in BOOLEAN
  /\ state' = "CLOSED"
  /\ SignalClosed
  /\ RaiseCompleted(Uncertain, None)
  /\ UNCHANGED <<connecting, changed, cmdClose, settingVars, errorVars,
                 requestVars>>

(* A frame arrived.                                                        *)
Received ==
  /\ In({"READ"})
  /\ ~MustClose
  /\ portOpen
  /\ UNCHANGED <<portVars, cmdClose, settingVars, reply, announced>>

(* ... that readBuffer refuses, before or after taking unit and function.  *)
ReadUnreadable(q) ==
  /\ Received
  /\ q.verdict = Unreadable
  /\ frame' \in {frame, q}
  /\ SetErrorStatus(BadPort)
  /\ RaiseErrorCompleted(BadPort)
  /\ UNCHANGED <<state, outcome>>

(* ... for a unit that is not served here.                                 *)
ReadForeign(q) ==
  /\ Received
  /\ q.verdict # Unreadable
  /\ ~isUnitEnabled(q.unit)
  /\ frame' = q
  /\ ReturnStatus(Good)
  /\ UNCHANGED <<state, errorVars, outcome>>

(* ... that processInputData refuses without a response.                   *)
ReadNotCorrect(q) ==
  /\ Received
  /\ isUnitEnabled(q.unit)
  /\ q.verdict = NotCorrect
  /\ frame' = q
  /\ SetError(NotCorrect)
  /\ RaiseErrorCompleted(NotCorrect)
  /\ UNCHANGED <<state, outcome>>

(* ... that processInputData refuses with an exception.                    *)
ReadIllegal(q) ==
  /\ Received
  /\ isUnitEnabled(q.unit)
  /\ q.verdict = Illegal
  /\ frame' = q
  /\ outcome' = Illegal
  /\ SetError(Illegal)
  /\ state' = "BEGIN_WRITE"
  /\ GoOn(Illegal)
  /\ UNCHANGED lastStatus

\* mutant: the unit map is not asked.
ReadRequestAnyUnit(q) ==
  /\ Received
  /\ q.verdict = Good
  /\ frame' = q
  /\ outcome' = None
  /\ state' = "PROCESS_DEVICE"
  /\ GoOn(Good)
  /\ UNCHANGED statusVars

(* ... that is for the device.                                             *)
ReadRequest(q) ==
  /\ Received
  /\ isUnitEnabled(q.unit)
  /\ q.verdict = Good
  /\ frame' = q
  /\ outcome' = None
  /\ state' = "PROCESS_DEVICE"
  /\ GoOn(Good)
  /\ UNCHANGED statusVars

(* STATE_PROCESS_DEVICE: the device is called, with the same arguments,    *)
(* until it returns something other than Status_Processing.                *)
ProcessDevice(s) ==
  /\ In({"PROCESS_DEVICE"})
  /\ IF s \in Bad THEN SetError(s) ELSE UNCHANGED errorVars
  /\ UNCHANGED <<portVars, cmdClose, settingVars, frame, reply, announced>>
  /\ \/ /\ s = Processing
        /\ ReturnStatus(s)
        /\ UNCHANGED <<state, outcome>>
     \/ /\ s # Processing
        /\ s = Gateway \/ isBroadcast(frame.unit)
        /\ outcome' = None
        /\ state' = "READ"
        /\ RaiseCompleted(Good, None)
     \/ /\ s # Processing
        /\ s # Gateway /\ ~isBroadcast(frame.unit)
        /\ outcome' = IF s \in Bad THEN Exception(s) ELSE s
        /\ state' = "BEGIN_WRITE"
        /\ GoOn(s)
        /\ UNCHANGED lastStatus

(* STATE_BEGIN_WRITE fills the port's buffer; what writeBuffer returned is *)
(* not looked at, and if it refused, the buffer still holds the request.   *)
BeginWrite ==
  /\ In({"BEGIN_WRITE"})
  /\ \E fits \in {TRUE, ~(Oversize /\ r = Good)} :
       reply' = [req |-> frame,
                 st |-> IF ~fits THEN "Leftover"
                        ELSE IF r \in Bad THEN Exception(r) ELSE Good]
  /\ state' = "WRITE"
  /\ UNCHANGED <<portVars, cmdClose, settingVars, statusVars, frame, outcome,
                 callVars, announced>>

(* STATE_WRITE, in the call that began it or in a later one, whose r is    *)
(* Status_Good.                                                            *)

\* mutant: the next call assembles the response again.
WriteRestarts ==
  /\ state' = "BEGIN_WRITE"
  /\ ReturnStatus(Processing)
  /\ UNCHANGED <<reply, outcome, errorVars>>

WritePending ==
  /\ ReturnStatus(Processing)
  /\ UNCHANGED <<state, reply, outcome, errorVars>>

\* mutant: the write is tried again for ever.
WriteStuck ==
  /\ SetPortError(BadPort)
  /\ RaiseCompleted(BadPort, None)
  /\ UNCHANGED <<state, reply, outcome>>

WriteFailed ==
  /\ state' = "TIMEOUT"
  /\ reply' = None
  /\ outcome' = None
  /\ SetPortError(BadPort)
  /\ RaiseCompleted(BadPort, None)

\* mutant: the status of the write is returned for that of the request.
WriteDoneGood ==
  /\ state' = "READ"
  /\ reply' = None
  /\ outcome' = None
  /\ RaiseCompleted(Good, reply)
  /\ UNCHANGED errorVars

WriteDone ==
  /\ state' = "READ"
  /\ reply' = None
  /\ outcome' = None
  /\ RaiseCompleted(r, reply)
  /\ UNCHANGED errorVars

Write(s) ==
  /\ In({"WRITE"})
  /\ PortTransfer(s)
  /\ UNCHANGED <<cmdClose, settingVars, frame, announced>>
  /\ \/ s = Processing /\ WritePending
     \/ s = BadPort /\ WriteFailed
     \/ s = Good /\ WriteDone

TimeoutRuns ==
  /\ In({"TIMEOUT"})
  /\ ReturnStatus(Processing)
  /\ UNCHANGED <<portVars, state, cmdClose, settingVars, errorVars,
                 requestVars, announced>>

TimeoutOver ==
  /\ In({"TIMEOUT"})
  /\ state' = "UNKNOWN"
  /\ UNCHANGED <<portVars, cmdClose, settingVars, statusVars, requestVars,
                 callVars, announced>>

(* The default branch: the port decides.                                   *)
Orient(up) ==
  /\ In({"UNKNOWN"})
  /\ IsOpen(up)
  /\ state' = IF ~up THEN "CLOSED"
              ELSE IF cmdClose THEN "WAIT_FOR_CLOSE" ELSE "READ"
  /\ UNCHANGED <<portVars, cmdClose, settingVars, statusVars, requestVars,
                 callVars, announced>>

-----------------------------------------------------------------------------
(***************************************************************************)
(* The application, between two calls of process().                        *)
(***************************************************************************)

Manages(op) == op \in Management /\ ~running
Configures(op) == Manages(op) /\ (Settled => state \notin Serving)

open ==
  /\ Manages("open")
  /\ cmdClose' = FALSE
  /\ UNCHANGED <<portVars, state, settingVars, statusVars, requestVars,
                 callVars, announced>>

close ==
  /\ Manages("close")
  /\ cmdClose' = TRUE
  /\ UNCHANGED <<portVars, state, settingVars, statusVars, requestVars,
                 callVars, announced>>

setBroadcastEnabled(b) ==
  /\ Configures("broadcast")
  /\ broadcastEnabled' = b
  /\ UNCHANGED <<portVars, state, cmdClose, unitMap, statusVars, requestVars,
                 callVars, announced>>

setUnitMap(map) ==
  /\ Configures("unitmap")
  /\ unitMap' = map
  /\ UNCHANGED <<portVars, state, cmdClose, broadcastEnabled, statusVars,
                 requestVars, callVars, announced>>

(* Without a map, one unit is switched in a map of none.                   *)
setUnitEnabled(u, b) ==
  /\ Configures("unitmap")
  /\ LET map == IF unitMap = None THEN {} ELSE unitMap
     IN  unitMap' = IF b THEN map \union {u} ELSE map \ {u}
  /\ UNCHANGED <<portVars, state, cmdClose, broadcastEnabled, statusVars,
                 requestVars, callVars, announced>>

(* A unit map as text is a set of parts, for their order means nothing; a  *)
(* part that is neither a unit nor a range of units is None.               *)

(* The map that a text like "1,3-8,10" stands for, None if it is wrong.    *)
fillUnitMap(text) ==
  IF None \in text \/ \E p \in text : p.first > p.last \/ p.last > LastUnit THEN None
  ELSE UNION {p.first..p.last : p \in text}

(* The loops of unitMapToString.  The inner one reads the bit of a unit    *)
(* before it asks whether there is such a unit: the one behind the map is  *)
(* whatever happens to lie there.                                          *)
Bit(map, beyond, unit) == IF unit \in Units THEN unit \in map ELSE beyond

(* From the second unit of a run on: where the counter stops.              *)
EndOfRun(map, beyond) ==
  LET stop[unit \in 0..LastUnit + 1] ==
        IF Bit(map, beyond, unit) /\ unit <= LastUnit THEN stop[unit + 1] ELSE unit
  IN  stop

\* mutant: the counter passes over two units after a run.
PartsSkipping(map, beyond) ==
  LET parts[unit \in 0..LastUnit + 3] ==
        IF unit > LastUnit THEN {}
        ELSE IF ~Bit(map, beyond, unit) THEN parts[unit + 1]
        ELSE LET stop == EndOfRun(map, beyond)[unit + 1]
             IN  {[first |-> unit, last |-> stop - 1]} \union parts[stop + 2]
  IN  parts

(* The parts for the units from one on; both loops advance one counter.    *)
Parts(map, beyond) ==
  LET parts[unit \in 0..LastUnit + 2] ==
        IF unit > LastUnit THEN {}
        ELSE IF ~Bit(map, beyond, unit) THEN parts[unit + 1]
        ELSE LET stop == EndOfRun(map, beyond)[unit + 1]
             IN  {[first |-> unit, last |-> stop - 1]} \union parts[stop + 1]
  IN  parts

unitMapToString(map, beyond) == Parts(map, beyond)[0]

(* A wrong text changes nothing, the empty one removes the map.            *)
MapOfText(text) ==
  IF text = {} THEN None
  ELSE IF fillUnitMap(text) = None THEN unitMap ELSE fillUnitMap(text)

setUnitMapString(text) ==
  /\ Configures("unitmap")
  /\ unitMap' = MapOfText(text)
  /\ UNCHANGED <<portVars, state, cmdClose, broadcastEnabled, statusVars,
                 requestVars, callVars, announced>>

ChangeSettings ==
  /\ Manages("change")
  /\ changed' = TRUE
  /\ UNCHANGED <<portOpen, connecting, state, cmdClose, settingVars,
                 statusVars, requestVars, callVars, announced>>

-----------------------------------------------------------------------------
PortResult == {Good, Processing, BadPort}

Pass ==
  \/ StayClosed
  \/ \E s \in PortResult : Open(s)
  \/ MeetClose
  \/ Close
  \/ \E s \in PortResult : ReadNothing(s)
  \/ ReadClosed
  \/ \E q \in Request :
       \/ ReadUnreadable(q)
       \/ ReadForeign(q)
       \/ ReadNotCorrect(q)
       \/ ReadIllegal(q)
       \/ ReadRequest(q)
  \/ \E s \in DeviceResult : ProcessDevice(s)
  \/ BeginWrite
  \/ \E s \in PortResult : Write(s)
  \/ TimeoutRuns
  \/ TimeoutOver
  \/ \E up \in BOOLEAN : Orient(up)

Manage ==
  \/ open
  \/ close
  \/ \E b \in BOOLEAN : setBroadcastEnabled(b)
  \/ \E map \in UnitMap \union {None} : setUnitMap(map)
  \/ \E u \in Unit, b \in BOOLEAN : setUnitEnabled(u, b)
  \/ \E text \in UnitText : setUnitMapString(text)
  \/ ChangeSettings

Next == Call \/ Pass \/ Manage

Spec == Init /\ [][Next]_vars

(* Fairness: the application polls process(), a call runs to its return,   *)
(* and the device, a write and the timer come to an end when polled on and *)
(* on.                                                                     *)
DeviceEnds == \E s \in DeviceResult \ {Processing} : ProcessDevice(s)
WriteEnds == \E s \in PortResult \ {Processing} : Write(s)

FairSpec ==
  /\ Spec
  /\ WF_vars(Call)
  /\ WF_vars(Pass)
  /\ SF_vars(DeviceEnds)
  /\ SF_vars(WriteEnds)
  /\ SF_vars(TimeoutOver)

-----------------------------------------------------------------------------
(***************************************************************************)
(* Properties.                                                             *)
(***************************************************************************)

(* The engine implements a RequestResponder: between two reads a request   *)
(* is executed or refused once, answered at most once, and the response    *)
(* carries its outcome, however many calls the device and the port take    *)
(* and whatever the application calls in between (process()).              *)
Requested == IF state \in Serving THEN frame ELSE None

Responder == INSTANCE RequestResponder
             WITH request <- Requested, answer <- ret.answer

AnswersOnce == Responder!Spec

(* A response is on its way only for a unit served here, and for a         *)
(* broadcast only where processInputData refused it (see BroadcastSilent), *)
(* provided that the settings stay as they are while a request is served.  *)
OnlyOwnUnits ==
  state = "WRITE" => /\ isUnitEnabled(reply.req.unit)
                     /\ isBroadcast(reply.req.unit) => reply.st = Illegal

(* The status a call returned bad is the one lastErrorStatus() reports,    *)
(* and the text that lastErrorText() finds belongs to it.                  *)
ErrorTextFits ==
  ret.st \in Bad =>
    /\ lastErrorStatus = ret.st
    /\ IF ret.st = BadPort THEN isLastPortError
                           ELSE ~isLastPortError /\ lastErrorText = ret.st

(* signalCompleted and lastStatus() tell the same: not so for a frame that *)
(* is refused without a response.                                          *)
CompletedStatus == ret.completed => lastStatus = ret.st

(* A call that sent an exception returns the error, not success.           *)
ExceptionReturned == ret.answer # None => (ret.st = Good) = (ret.answer.st = Good)

(* doc/pages/03_server_guide.md: when broadcast is enabled, no response is *)
(* sent to requests to unit 0.                                             *)
BroadcastSilent == state = "WRITE" => ~isBroadcast(reply.req.unit)

(* ModbusServerResource.h: the response is assembled, and the port writes  *)
(* it back.                                                                *)
WritesResponse == state = "WRITE" => reply.st # "Leftover"

(* ModbusServerPort.h on signalClosed: the inner port was closed.  So two  *)
(* signalOpened have a signalClosed between them.                          *)
OpenedThenClosed == announced # "reopened"

(* The runs of units that are on in a map, as long as they are.            *)
Runs(map) ==
  {p \in [first : {u \in map : u - 1 \notin map}, last : {u \in map : u + 1 \notin map}] :
     p.first <= p.last /\ p.first..p.last \subseteq map}

(* ModbusServerPort.h on unitMapString: what it tells of a map, given to   *)
(* setUnitMapString, leaves the map as it is ...                           *)
TextRestoresMap ==
  unitMap # None => \A beyond \in BOOLEAN :
    MapOfText(unitMapToString(unitMap, beyond)) = unitMap

(* ... which holds for every map with a unit, up to the last: each run is  *)
(* one part of the text, whatever lies behind the map, and the parts read  *)
(* back are the map.  The text of a map without units is empty, by which   *)
(* all are served.                                                         *)
TextKeepsUnits ==
  unitMap \notin {None, {}} => \A beyond \in BOOLEAN :
    LET text == unitMapToString(unitMap, beyond)
    IN  text = Runs(unitMap) /\ fillUnitMap(text) = unitMap

(* A call of process() does to the connection what ServerConnection says,  *)
(* whatever passes it runs through.                                        *)
CallsAreSteps ==
  [][before # None /\ before' = None
       => Connection' \in After(before.st, before.sock, cmdClose)]_vars

(* A request given to the device gets its end: a response, or the port is  *)
(* read again, or has failed.                                              *)
RequestEnds == state = "PROCESS_DEVICE" ~> state \notin Serving

(* close() is carried out, wherever in an exchange, a timeout or an        *)
(* opening it comes, unless open() takes it back.                          *)
CloseCompletes == cmdClose ~> state = "CLOSED" \/ ~cmdClose
=============================================================================
