------------------------- MODULE ModbusClientPort -------------------------
(***************************************************************************)
(* The client engine: one ModbusClientPort shared by several clients.      *)
(*                                                                         *)
(* A client polls a request function (readCoils, writeSingleRegister, ...) *)
(* until it returns something other than Status_Processing.  The engine    *)
(* has no lock and no queue: `currentClient' says who owns the port,       *)
(* `block' that the port's buffer already holds the frame of the pending   *)
(* request, `state' how far the exchange has come.                         *)
(*                                                                         *)
(* The results of the port's operations are parameters of the actions (see *)
(* ModbusPort).  A call runs from "idle" through one action per pass of    *)
(* the do-while loop of process() and back; nothing but the outside world  *)
(* runs in between, for the library is single-threaded.                    *)
(***************************************************************************)
EXTENDS Naturals, ModbusPort

CONSTANTS
  Client,      \* the objects that issue requests
  Self,        \* the ModbusClientPort itself, the client of the overloads
               \* without a client parameter and of rawRequest
  Request,     \* [id, unit, valid, raw]: one request function with arguments
  MaxTries,    \* bound on the values given to setTries
  Management,  \* the operations on the port that the owner may call, by name
  None         \* nullptr

ManagementOps == {"cancel", "close", "setPort", "change", "tries", "broadcast"}

ASSUME ClientAssumption ==
  /\ Self \in Client
  /\ None \notin Client
  /\ None \notin Request
  /\ None \notin [client : Client, req : Request]
  /\ MaxTries \in Nat \ {0}
  /\ Management \subseteq ManagementOps

ASSUME RequestAssumption ==
  \A q \in Request : q.unit \in Nat /\ q.valid \in BOOLEAN /\ q.raw \in BOOLEAN

(***************************************************************************)
(* Status codes as far as the engine tells them apart: an error whose text *)
(* the port holds, a port found closed, a refused request, a refused       *)
(* response.                                                               *)
(***************************************************************************)
BadPortClosed == "BadPortClosed"
BadRequest == "BadNotCorrectRequest"
BadResponse == "BadNotCorrectResponse"
Bad == {BadPort, BadPortClosed, BadRequest, BadResponse}
Status == Bad \union {Good, Processing, Uncertain}

State == {"UNKNOWN", "WAIT_FOR_OPEN", "OPENED", "WRITE", "READ",
          "TIMEOUT", "CLOSED"}

Issue == [client : Client, req : Request]

Return == [client : Client \union {None}, req : Request \union {None},
           st : Status, frame : Issue \union {None},
           answered : BOOLEAN, sent : BOOLEAN]

VARIABLES
  autoIncrement,     \* of the port: the next network frame gets a new id
  \* ModbusClientPortPrivate
  state, block, unit, currentClient, repeats, lastTries,
  lastStatus, lastErrorStatus, isLastPortError, tries, broadcastEnabled,
  \* the call in progress, and what the clients are polling
  call,              \* [client, req] or None
  want,              \* per client, the request it polls or None
  \* history
  written,           \* the request whose frame the port's buffer holds
  sent,              \* that frame was written since the last error or close
  announced,         \* the last of signalOpened and signalClosed
  ret                \* how the last call ended

portVars == <<portOpen, connecting, changed, autoIncrement>>
statusVars == <<lastStatus, lastErrorStatus, isLastPortError>>
settingVars == <<tries, broadcastEnabled>>
requestVars == <<block, unit, repeats, lastTries, written>>
vars == <<portVars, state, currentClient, requestVars, statusVars, settingVars,
          call, want, sent, announced, ret>>

NoReturn == [client |-> None, req |-> None, st |-> Processing,
             frame |-> None, answered |-> FALSE, sent |-> FALSE]

TypeOK ==
  /\ portOpen \in BOOLEAN
  /\ connecting \in BOOLEAN
  /\ changed \in BOOLEAN
  /\ autoIncrement \in BOOLEAN
  /\ state \in State
  /\ block \in BOOLEAN
  /\ unit \in Nat
  /\ currentClient \in Client \union {None}
  /\ repeats \in Nat
  /\ lastTries \in Nat
  /\ lastStatus \in Status
  /\ lastErrorStatus \in Status
  /\ isLastPortError \in BOOLEAN
  /\ tries \in 1..MaxTries
  /\ broadcastEnabled \in BOOLEAN
  /\ call \in Issue \union {None}
  /\ want \in [Client -> Request \union {None}]
  /\ written \in Issue \union {None}
  /\ sent \in BOOLEAN
  /\ announced \in {"closed", "opened", "reopened"}
  /\ ret \in Return

Init ==
  /\ portOpen = FALSE
  /\ connecting = FALSE
  /\ changed = FALSE
  /\ autoIncrement = TRUE
  /\ state = "UNKNOWN"
  /\ block = FALSE
  /\ unit = 0
  /\ currentClient = None
  /\ repeats = 0
  /\ lastTries = 0
  /\ lastStatus = Uncertain
  /\ lastErrorStatus = Uncertain
  /\ isLastPortError = TRUE
  /\ tries = 1
  /\ broadcastEnabled = TRUE
  /\ call = None
  /\ want = [c \in Client |-> None]
  /\ written = None
  /\ sent = FALSE
  /\ announced = "closed"
  /\ ret = NoReturn

\* mutant: the setting is ignored.
isBroadcastAlways == unit = 0

isBroadcast == unit = 0 /\ broadcastEnabled

-----------------------------------------------------------------------------
(***************************************************************************)
(* How a call ends.                                                        *)
(***************************************************************************)

\* mutant: setError forgets to reset the flag.
SetErrorKeepsText(st) ==
  /\ lastErrorStatus' = st
  /\ UNCHANGED isLastPortError

(* An error: its status and whether the port holds its text.               *)
SetError(st) ==
  /\ lastErrorStatus' = st
  /\ isLastPortError' = (st = BadPort)

(* Record what the call i handed to its client.                            *)
Handed(i, st, answered) ==
  ret' = [client |-> i.client, req |-> i.req, st |-> st, frame |-> written',
          answered |-> answered, sent |-> sent']

(* The function returns Status_Processing: a client of a non-blocking port *)
(* polls again, a blocking caller takes any return as the end.             *)
ReturnProcessing(i) ==
  /\ call' = None
  /\ want' = [want EXCEPT ![i.client] = IF Blocking THEN None ELSE i.req]
  /\ Handed(i, Processing, FALSE)

\* mutant: a failed request keeps the port.
SetCompletedKeepsClient(i, st, answered) ==
  /\ lastStatus' = st
  /\ IF st \in Bad THEN SetError(st) ELSE UNCHANGED <<lastErrorStatus, isLastPortError>>
  /\ currentClient' = IF st \in Bad THEN i.client ELSE None
  /\ call' = None
  /\ want' = [want EXCEPT ![i.client] = None]
  /\ Handed(i, st, answered)

(* SET_COMPLETED: the result is recorded and the port released.            *)
SetCompleted(i, st, answered) ==
  /\ lastStatus' = st
  /\ IF st \in Bad THEN SetError(st) ELSE UNCHANGED <<lastErrorStatus, isLastPortError>>
  /\ currentClient' = None
  /\ call' = None
  /\ want' = [want EXCEPT ![i.client] = None]
  /\ Handed(i, st, answered)

(* Validation of a received frame, by readBuffer, by request() and by the  *)
(* request function; a raw request takes what was read as it is.           *)
ResponseStatus(i) ==
  IF i.req.raw THEN {Good, BadPort} ELSE {Good, BadPort, BadResponse}

\* mutant: the buffer is freed before every try.
RepeatUnblocked(st) ==
  /\ block' = FALSE
  /\ repeats' = repeats + 1
  /\ autoIncrement' = FALSE
  /\ lastStatus' = st
  /\ SetError(st)
  /\ UNCHANGED currentClient
  /\ IF Blocking THEN UNCHANGED <<call, want, ret>>
                 ELSE ReturnProcessing(call)

\* mutant: a blocking port, too, returns between two tries.
RepeatReturns(st) ==
  /\ repeats' = repeats + 1
  /\ autoIncrement' = FALSE
  /\ lastStatus' = st
  /\ SetError(st)
  /\ UNCHANGED <<block, currentClient>>
  /\ ReturnProcessing(call)

\* mutant: the try is not counted.
RepeatUncounted(st) ==
  /\ autoIncrement' = FALSE
  /\ lastStatus' = st
  /\ SetError(st)
  /\ UNCHANGED <<block, currentClient, repeats>>
  /\ IF Blocking THEN UNCHANGED <<call, want, ret>>
                 ELSE ReturnProcessing(call)

(* An attempt failed and tries are left: the buffer stays blocked, so the  *)
(* next attempt sends what the port's buffer holds.                        *)
Repeat(st) ==
  /\ repeats' = repeats + 1
  /\ autoIncrement' = FALSE
  /\ lastStatus' = st
  /\ SetError(st)
  /\ UNCHANGED <<block, currentClient>>
  /\ IF Blocking THEN UNCHANGED <<call, want, ret>>
                 ELSE ReturnProcessing(call)

\* mutants: one of the two resets of line 2250 is missing.
FreeWriteBufferOnly == block' = FALSE /\ UNCHANGED repeats
ResetRepeatsOnly == repeats' = 0 /\ UNCHANGED block

(* freeWriteBuffer and the reset of the repeat counter.                    *)
FreeWriteBuffer == block' = FALSE /\ repeats' = 0

(* What request() does with a status of process() other than Processing.   *)
AttemptEnds(st) ==
  /\ lastTries' = repeats + 1
  /\ UNCHANGED <<unit, written, settingVars>>
  /\ \/ /\ st \in Bad
        /\ repeats + 1 < tries
        /\ Repeat(st)
     \/ /\ st = Good \/ repeats + 1 >= tries
        /\ FreeWriteBuffer
        /\ UNCHANGED autoIncrement
        /\ \/ (st \in Bad \/ isBroadcast) /\ SetCompleted(call, st, FALSE)
           \/ /\ st = Good /\ ~isBroadcast
              /\ \E v \in ResponseStatus(call) : SetCompleted(call, v, v = Good)

-----------------------------------------------------------------------------
(***************************************************************************)
(* A client calls a request function.                                      *)
(***************************************************************************)

(* request() fills the port's buffer unless it is blocked; an oversized    *)
(* frame is refused by writeBuffer.  writeRawBuffer leaves the id alone.   *)
FillBuffer(i) ==
  /\ UNCHANGED <<portOpen, connecting, changed, state, repeats, settingVars,
                 announced>>
  /\ IF block
     THEN /\ call' = i
          /\ currentClient' = i.client
          /\ ret' = NoReturn
          /\ UNCHANGED <<autoIncrement, requestVars, sent, statusVars, want>>
     ELSE /\ autoIncrement' = (autoIncrement \/ ~i.req.raw)
          /\ unit' = IF i.req.raw THEN 1 ELSE i.req.unit
          /\ lastTries' = 0
          /\ sent' = FALSE
          /\ UNCHANGED repeats
          /\ \/ /\ written' = i
                /\ block' = TRUE
                /\ call' = i
                /\ currentClient' = i.client
                /\ ret' = NoReturn
                /\ UNCHANGED <<statusVars, want>>
             \/ /\ UNCHANGED <<written, block>>
                /\ SetCompleted(i, BadPort, FALSE)

(* A client that is polling goes on with the same request; an idle one     *)
(* takes any of its requests.                                              *)
Polls(c, q) ==
  /\ call = None
  /\ want[c] \in {None, q}
  /\ q.raw => c = Self

\* mutant: the owner of the port is not looked at.
EnableAnyone(c, q) ==
  /\ Polls(c, q)
  /\ currentClient # c
  /\ q.valid
  /\ FillBuffer([client |-> c, req |-> q])

(* getRequestStatus says Enable: the client takes the port and its request *)
(* is checked and written to the buffer.                                   *)
Enable(c, q) ==
  /\ Polls(c, q)
  /\ currentClient = None
  /\ q.valid
  /\ FillBuffer([client |-> c, req |-> q])

(* ... or the request is refused (a count too large).                      *)
EnableRefused(c, q) ==
  /\ Polls(c, q)
  /\ currentClient = None
  /\ ~q.valid
  /\ UNCHANGED <<portVars, state, requestVars, settingVars, sent, announced>>
  /\ SetCompleted([client |-> c, req |-> q], BadRequest, FALSE)

(* getRequestStatus says Process: the owner goes on with its request.      *)
Process(c, q) ==
  /\ Polls(c, q)
  /\ currentClient = c
  /\ FillBuffer([client |-> c, req |-> q])

(* getRequestStatus says Disable: another client owns the port.            *)
Disable(c, q) ==
  /\ Polls(c, q)
  /\ currentClient \notin {None, c}
  /\ UNCHANGED <<portVars, state, currentClient, requestVars, statusVars,
                 settingVars, sent, announced>>
  /\ ReturnProcessing([client |-> c, req |-> q])

-----------------------------------------------------------------------------
(***************************************************************************)
(* The loop of process(), within a call.                                   *)
(***************************************************************************)

InProcess(states) == call # None /\ state \in states

StayInCall == UNCHANGED <<currentClient, requestVars, statusVars, settingVars,
                          call, want, ret>>

ReturnStillProcessing ==
  /\ UNCHANGED <<currentClient, requestVars, statusVars, settingVars>>
  /\ ReturnProcessing(call)

(* STATE_UNKNOWN with the port found open.                                 *)
FindOpen ==
  /\ InProcess({"UNKNOWN"})
  /\ IsOpen(TRUE)
  /\ state' = "OPENED"
  /\ UNCHANGED <<portVars, sent, announced>>
  /\ StayInCall

SignalOpened == announced' = IF announced = "closed" THEN "opened" ELSE "reopened"
SignalClosed == announced' = "closed"

(* STATE_CLOSED, BEGIN_OPEN and WAIT_FOR_OPEN.                             *)
Open(r, up) ==
  /\ InProcess({"UNKNOWN", "CLOSED", "WAIT_FOR_OPEN"})
  /\ state = "UNKNOWN" => ~up
  /\ IsOpen(up)
  /\ PortOpen(r)
  /\ \/ /\ r = Processing
        /\ state' = "WAIT_FOR_OPEN"
        /\ UNCHANGED <<autoIncrement, sent, announced>>
        /\ ReturnStillProcessing
     \/ /\ r = BadPort
        /\ state' = "TIMEOUT"
        /\ sent' = FALSE
        /\ UNCHANGED announced
        /\ AttemptEnds(BadPort)
     \/ /\ r = Good
        /\ state' = "OPENED"
        /\ SignalOpened
        /\ UNCHANGED <<autoIncrement, sent>>
        /\ StayInCall

(* STATE_OPENED with changed settings: STATE_WAIT_FOR_CLOSE closes the     *)
(* port, which lets go of the client, and the call returns.                *)
ReopenChanged ==
  /\ InProcess({"OPENED"})
  /\ changed
  /\ PortClose
  /\ UNCHANGED autoIncrement
  /\ SignalClosed
  /\ currentClient' = None
  /\ lastStatus' = Good
  /\ state' = "CLOSED"
  /\ sent' = FALSE
  /\ UNCHANGED <<requestVars, lastErrorStatus, isLastPortError, settingVars>>
  /\ ReturnProcessing(call)

(* STATE_BEGIN_WRITE with the port found closed.                           *)
WriteClosed ==
  /\ InProcess({"OPENED"})
  /\ ~changed
  /\ state' = "CLOSED"
  /\ sent' = FALSE
  /\ UNCHANGED <<portOpen, connecting, changed, announced>>
  /\ AttemptEnds(BadPortClosed)

(* STATE_BEGIN_WRITE and STATE_WRITE.                                      *)
Write(r) ==
  /\ InProcess({"OPENED", "WRITE"})
  /\ state = "OPENED" => IsOpen(TRUE) /\ ~changed
  /\ PortTransfer(r)
  /\ UNCHANGED announced
  /\ \/ /\ r = Processing
        /\ state' = "WRITE"
        /\ UNCHANGED <<autoIncrement, sent>>
        /\ ReturnStillProcessing
     \/ /\ r = BadPort
        /\ state' = "TIMEOUT"
        /\ sent' = FALSE
        /\ AttemptEnds(BadPort)
     \/ /\ r = Good /\ isBroadcast
        /\ state' = "OPENED"
        /\ sent' = TRUE
        /\ AttemptEnds(Good)
     \/ /\ r = Good /\ ~isBroadcast
        /\ state' = "READ"
        /\ sent' = TRUE
        /\ UNCHANGED autoIncrement
        /\ StayInCall

(* STATE_BEGIN_READ and STATE_READ.                                        *)
Read(r, up) ==
  /\ InProcess({"READ"})
  /\ PortTransfer(r)
  /\ IsOpen(up)
  /\ \/ /\ r = Processing
        /\ state' = "READ"
        /\ UNCHANGED <<autoIncrement, sent, announced>>
        /\ ReturnStillProcessing
     \/ /\ r = BadPort
        /\ state' = "TIMEOUT"
        /\ sent' = FALSE
        /\ UNCHANGED announced
        /\ AttemptEnds(BadPort)
     \/ /\ r = Good
        /\ state' = IF up THEN "OPENED" ELSE "CLOSED"
        /\ IF up THEN UNCHANGED announced ELSE SignalClosed
        /\ UNCHANGED sent
        /\ AttemptEnds(Good)

(* STATE_TIMEOUT: a blocking port sleeps out the timeout, a non-blocking   *)
(* one is polled until it is over.                                         *)
TimeoutOver ==
  /\ InProcess({"TIMEOUT"})
  /\ state' = "UNKNOWN"
  /\ UNCHANGED <<portVars, sent, announced>>
  /\ StayInCall

TimeoutRuns ==
  /\ InProcess({"TIMEOUT"})
  /\ ~Blocking
  /\ UNCHANGED <<portVars, state, sent, announced>>
  /\ ReturnStillProcessing

-----------------------------------------------------------------------------
(***************************************************************************)
(* Operations on the port between calls.                                   *)
(***************************************************************************)

Manages(op) == op \in Management /\ call = None

\* mutant: the port stays with the client.
cancelRequestKeepsClient(c) ==
  /\ Manages("cancel")
  /\ want[c] # None
  /\ want' = [want EXCEPT ![c] = None]
  /\ UNCHANGED <<portVars, state, currentClient, requestVars, statusVars,
                 settingVars, call, sent, announced, ret>>

cancelRequest(c) ==
  /\ Manages("cancel")
  /\ want[c] # None
  /\ currentClient' = IF currentClient = c THEN None ELSE currentClient
  /\ want' = [want EXCEPT ![c] = None]
  /\ UNCHANGED <<portVars, state, requestVars, statusVars, settingVars, call,
                 sent, announced, ret>>

close ==
  /\ Manages("close")
  /\ PortClose
  /\ SignalClosed
  /\ currentClient' = None
  /\ lastStatus' = Good
  /\ sent' = FALSE
  /\ ret' = NoReturn
  /\ UNCHANGED <<autoIncrement, state, requestVars, lastErrorStatus,
                 isLastPortError, settingVars, call, want>>

\* mutant: the state of the exchange is not reset.
setPortKeepsState ==
  /\ Manages("setPort")
  /\ portOpen' \in BOOLEAN
  /\ connecting' = FALSE
  /\ changed' \in BOOLEAN
  /\ autoIncrement' = TRUE
  /\ currentClient' = None
  /\ written' = None
  /\ sent' = FALSE
  /\ UNCHANGED <<state, block, unit, repeats, lastTries, statusVars, settingVars,
                 call, want, announced, ret>>

(* The new port may have been opened or configured before.                 *)
setPort ==
  /\ Manages("setPort")
  /\ portOpen' \in BOOLEAN
  /\ connecting' = FALSE
  /\ changed' \in BOOLEAN
  /\ autoIncrement' = TRUE
  /\ currentClient' = None
  /\ state' = "UNKNOWN"
  /\ written' = None
  /\ sent' = FALSE
  /\ UNCHANGED <<block, unit, repeats, lastTries, statusVars, settingVars,
                 call, want, announced, ret>>

(* setHost, setPort, setPortName, setBaudRate, ... of the port object.     *)
ChangeSettings ==
  /\ Manages("change")
  /\ changed' = TRUE
  /\ UNCHANGED <<portOpen, connecting, autoIncrement, state, currentClient,
                 requestVars, statusVars, settingVars, call, want, sent,
                 announced, ret>>

\* mutant: zero is accepted.
setTriesAny(v) ==
  /\ Manages("tries")
  /\ tries' = v
  /\ UNCHANGED <<portVars, state, currentClient, requestVars, statusVars,
                 broadcastEnabled, call, want, sent, announced, ret>>

setTries(v) ==
  /\ Manages("tries")
  /\ tries' = IF v > 0 THEN v ELSE tries
  /\ UNCHANGED <<portVars, state, currentClient, requestVars, statusVars,
                 broadcastEnabled, call, want, sent, announced, ret>>

setBroadcastEnabled(b) ==
  /\ Manages("broadcast")
  /\ broadcastEnabled' = b
  /\ ret' = NoReturn
  /\ UNCHANGED <<portVars, state, currentClient, requestVars, statusVars,
                 tries, call, want, sent, announced>>

-----------------------------------------------------------------------------
Calls == \E c \in Client, q \in Request :
           Enable(c, q) \/ EnableRefused(c, q) \/ Process(c, q) \/ Disable(c, q)

PortResult == {Good, Processing, BadPort}

Step ==
  \/ FindOpen
  \/ \E r \in PortResult, up \in BOOLEAN : Open(r, up)
  \/ ReopenChanged
  \/ WriteClosed
  \/ \E r \in PortResult : Write(r)
  \/ \E r \in PortResult, up \in BOOLEAN : Read(r, up)
  \/ TimeoutOver
  \/ TimeoutRuns

Manage ==
  \/ \E c \in Client : cancelRequest(c)
  \/ close
  \/ setPort
  \/ ChangeSettings
  \/ \E v \in 0..MaxTries : setTries(v)
  \/ \E b \in BOOLEAN : setBroadcastEnabled(b)

Next == Calls \/ Step \/ Manage

Spec == Init /\ [][Next]_vars

-----------------------------------------------------------------------------
(***************************************************************************)
(* Safety, whatever the owner of the port does between two calls.          *)
(***************************************************************************)

(* Between calls, a client that owns the port has its frame in the buffer. *)
(* The Process branch of a request function skips the code that fills the  *)
(* local `buff' and relies on this: were the buffer free, writeBuffer would *)
(* send uninitialised memory (readCoils, cases Enable and Process).        *)
OwnerHasFilledBuffer == call = None /\ currentClient # None => block

(* The owner is a client that still polls, so a request abandoned by       *)
(* cancelRequest or completed never keeps the others out (getRequestStatus *)
(* answers Disable as long as currentClient is set).                       *)
OwnerPolls ==
  call = None /\ currentClient # None => want[currentClient] # None

(* Retry bookkeeping: a free buffer starts from no repeats, a pending      *)
(* repeat is counted in lastTries, and no request is tried more often than *)
(* setTries ever allowed (request(), lines 2242 to 2251).                  *)
RetryBookkeeping ==
  /\ ~block => repeats = 0
  /\ repeats > 0 => lastTries = repeats
  /\ repeats < MaxTries

(* A call that returns Good is one whose frame went out over a connection  *)
(* that nobody closed or replaced since: no state of the engine survives   *)
(* close(), setPort() or an error in a way that takes a read for the       *)
(* answer to a write that was never made.                                  *)
GoodWasSent == ret.st = Good => ret.sent

(* The status a finished call returned is the one lastStatus() and, for an *)
(* error, lastErrorStatus() report until the next call, and the text of    *)
(* lastErrorText() is looked up where that error left it.                  *)
StatusReported ==
  ret.st # Processing =>
    /\ lastStatus = ret.st
    /\ ret.st \in Bad => /\ lastErrorStatus = ret.st
                         /\ isLastPortError = (ret.st = BadPort)

-----------------------------------------------------------------------------
(***************************************************************************)
(* Safety as long as nobody cancels a request, closes or replaces the port *)
(* or changes its settings.                                                *)
(***************************************************************************)

(* A call that returns Good returns the outcome of its own request: the    *)
(* frame in the buffer was filled by this client from these arguments.     *)
OwnAnswer ==
  ret.st = Good => ret.frame = [client |-> ret.client, req |-> ret.req]

(* Good without an answer is the privilege of a broadcast: any other Good  *)
(* comes with a validated response.                                        *)
GoodHasAnswer ==
  ret.st = Good /\ ~ret.answered => ret.req.unit = 0 /\ broadcastEnabled

(* The engine implements a RequestArbiter: a client waits for the request  *)
(* it polls or is calling with, and the one being served is the one whose  *)
(* frame blocks the buffer.                                                *)
Asked == [c \in Client |->
            IF call # None /\ call.client = c THEN call.req ELSE want[c]]
Served == IF block THEN written ELSE None
Result == IF ret.st = Good THEN [client |-> ret.client, req |-> ret.req] ELSE None

Arbiter == INSTANCE RequestArbiter
           WITH asked <- Asked, served <- Served, result <- Result

ServesOneAtATime == Arbiter!Spec

-----------------------------------------------------------------------------
(***************************************************************************)
(* Statements of the documentation.                                        *)
(***************************************************************************)

(* doc/pages/02_client_guide.md: in blocking mode, method calls wait until *)
(* the operation completes and return the result directly.                 *)
BlockingCompletes == Blocking /\ ret.client # None => ret.st # Processing

(* ModbusClientPort.h on signalClosed: called when the port is closed.  So *)
(* two signalOpened have a signalClosed between them.                      *)
OpenedThenClosed == announced # "reopened"

(* In blocking mode no call leaves the port owned: no client can find it   *)
(* taken by another (Disable), which would return without any work.        *)
BlockingReleases == Blocking /\ call = None => currentClient = None
=============================================================================
