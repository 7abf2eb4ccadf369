-------------------- MODULE ModbusServerResourceProofs --------------------
(* Theorems about the server engine, for any units, requests and texts.    *)
EXTENDS ModbusServerResource, WellFoundedInduction, TLAPS

(***************************************************************************)
(* The inductive invariant.                                                *)
(***************************************************************************)

(* Between two calls r is as a new call finds it, and the passes that      *)
(* always go on have gone on; during a call there is nothing to report.    *)
CallState ==
  /\ running => ret = NoReturn
  /\ ~running => /\ r = Good
                 /\ before = None
                 /\ state \notin {"BEGIN_WRITE", "WAIT_FOR_CLOSE"}

(* While a request is served, its frame is the one that was read, and its  *)
(* outcome is unknown until the device is done and then that of r.         *)
Served ==
  /\ state \in Serving => frame \in Request
  /\ state = "PROCESS_DEVICE" => outcome = None
  /\ state = "BEGIN_WRITE" =>
       /\ r \in {Good, Illegal, Device}
       /\ outcome = IF r \in Bad THEN Exception(r) ELSE Good

(* The response being written is that of the request, unless it did not    *)
(* fit into the buffer.                                                    *)
Replying ==
  state = "WRITE" => /\ reply \in Answer
                     /\ reply.req = frame
                     /\ reply.st = outcome \/ Oversize

Inv == TypeOK /\ CallState /\ Served /\ Replying

-----------------------------------------------------------------------------
(* The statuses and the outcomes, and which are errors.                    *)
LEMMA StatusValues ==
  /\ Bad \subseteq Status
  /\ Good \in Status /\ Processing \in Status /\ Uncertain \in Status
  /\ Good \notin Bad /\ Processing \notin Bad /\ Good # Processing
  /\ BadPort \in Bad /\ NotCorrect \in Bad /\ Illegal \in Bad
  /\ DeviceResult \subseteq Bad \union {Good, Processing}
  /\ None \notin Outcome /\ Good \in Outcome /\ Illegal \in Outcome /\ "Leftover" \in Outcome
  /\ \A st : Exception(st) \in StandardError
  /\ StandardError \subseteq Outcome
  /\ Exception(Illegal) = Illegal
BY ServerAssumption
DEF Bad, Status, Good, Processing, Uncertain, BadPort, NotCorrect, Illegal, Outcome,
    Exception, StandardError, Failure, Gateway, Device, DeviceResult

(* A request is for one of the units, and is not None.                     *)
LEMMA FrameUnits == \A q \in Request : q.unit \in Unit /\ q # None
BY ServerAssumption

(***************************************************************************)
(* The types, in groups that an action changes together.                   *)
(***************************************************************************)
PortTypes ==
  /\ portOpen \in BOOLEAN
  /\ connecting \in BOOLEAN
  /\ changed \in BOOLEAN
  /\ announced \in {"closed", "opened", "reopened"}

EngineTypes == state \in State /\ cmdClose \in BOOLEAN

SettingTypes == broadcastEnabled \in BOOLEAN /\ unitMap \in (SUBSET Units) \union {None}

ErrorTypes ==
  /\ lastErrorStatus \in Status
  /\ lastErrorText \in Status
  /\ isLastPortError \in BOOLEAN

RequestTypes ==
  /\ frame \in Request \union {None}
  /\ reply \in Answer \union {None}
  /\ outcome \in Outcome \union {None}

CallTypes ==
  /\ running \in BOOLEAN
  /\ r \in Status
  /\ before \in [st : ConnectionState, sock : BOOLEAN] \union {None}
  /\ ret \in Return

Types == /\ PortTypes /\ EngineTypes /\ SettingTypes /\ ErrorTypes
         /\ lastStatus \in Status /\ RequestTypes /\ CallTypes

(* The groups are the type invariant,                                      *)
LEMMA TypeGroups == TypeOK <=> Types
BY DEF TypeOK, Types, PortTypes, EngineTypes, SettingTypes, ErrorTypes, RequestTypes, CallTypes

(* also in the next state.                                                 *)
LEMMA TypeGroupsNext == TypeOK' <=> Types'
BY DEF TypeOK, Types, PortTypes, EngineTypes, SettingTypes, ErrorTypes, RequestTypes, CallTypes

(* What is returned while nothing is.                                      *)
LEMMA NoReturnType == NoReturn \in Return
BY StatusValues DEF NoReturn, Return

(* The constructor establishes the invariant.                              *)
LEMMA InitInv == Init => Inv
<1> SUFFICES ASSUME Init PROVE Inv
  OBVIOUS
<1>1. TypeOK
  BY NoReturnType, StatusValues DEF Init, TypeOK, State
<1>2. CallState /\ Served /\ Replying
  BY DEF Init, CallState, Served, Replying, Serving
<1> QED
  BY <1>1, <1>2 DEF Inv

(* How a call returns.                                                     *)
LEMMA ReturnsTypes ==
  ASSUME NEW st \in Status, NEW completed \in BOOLEAN, NEW answer \in Answer \union {None},
         state' \notin {"BEGIN_WRITE", "WAIT_FOR_CLOSE"}, Returns(st, completed, answer)
  PROVE  CallTypes' /\ CallState'
<1>1. CallTypes'
  BY StatusValues DEF Returns, CallTypes, Return
<1> QED
  BY <1>1 DEF Returns, CallState

(* A pass that goes on leaves the call running.                            *)
LEMMA GoOnTypes ==
  ASSUME CallTypes, CallState, running, NEW st \in Status, GoOn(st)
  PROVE  CallTypes' /\ CallState'
BY DEF CallTypes, CallState, GoOn

(* A pass that leaves the status of the call alone.                        *)
LEMMA StayTypes ==
  ASSUME CallTypes, CallState, running, UNCHANGED callVars
  PROVE  CallTypes' /\ CallState'
BY DEF CallTypes, CallState, callVars

(* However an error is recorded, its members keep their types.             *)
LEMMA ErrorChangesTypes ==
  ASSUME ErrorTypes, NEW st \in Status,
         SetError(st) \/ SetPortError(st) \/ SetErrorStatus(st) \/ UNCHANGED errorVars
  PROVE  ErrorTypes'
BY DEF ErrorTypes, SetError, SetPortError, SetErrorStatus, errorVars

(* Whatever is called of the port and signalled about it.                  *)
LEMMA PortOperationTypes ==
  ASSUME PortTypes, NEW s,
         \/ PortOpen(s) \/ PortTransfer(s) \/ PortClose \/ UNCHANGED portVars,
         SignalOpened \/ SignalClosed \/ UNCHANGED announced
  PROVE  PortTypes'
BY DEF PortTypes, PortOpen, PortTransfer, PortClose, portVars, SignalOpened, SignalClosed

(***************************************************************************)
(* Every pass keeps the invariant.                                         *)
(***************************************************************************)

(* A pass outside of an exchange.                                          *)
LEMMA IdlePass ==
  ASSUME Inv, PortTypes', ErrorTypes', lastStatus' \in Status, CallTypes', CallState',
         state' \in State \ Serving,
         UNCHANGED <<cmdClose, settingVars, reply>>,
         frame' \in Request \union {None}, outcome' \in Outcome \union {None}
  PROVE  Inv'
<1>1. Types'
  BY TypeGroups DEF Inv, Types, EngineTypes, SettingTypes, RequestTypes, settingVars
<1>2. Served' /\ Replying'
  BY DEF Served, Replying, Serving
<1> QED
  BY <1>1, <1>2, TypeGroupsNext DEF Inv

(* The passes of CLOSED, WAIT_FOR_OPEN, WAIT_FOR_CLOSE, TIMEOUT and        *)
(* UNKNOWN.                                                                *)
LEMMA OpeningInv ==
  ASSUME Inv, \/ StayClosed \/ MeetClose \/ Close \/ TimeoutRuns \/ TimeoutOver
              \/ \E s \in PortResult : Open(s)
              \/ \E up \in BOOLEAN : Orient(up)
  PROVE  Inv'
<1> USE TypeGroups DEF Inv, Types
<1>1. /\ frame \in Request \union {None} /\ outcome \in Outcome \union {None}
      /\ PortTypes /\ ErrorTypes /\ CallTypes /\ CallState /\ lastStatus \in Status
  BY DEF RequestTypes
<1>2. CASE StayClosed
  <2>1. state' = "CLOSED" /\ state' \in State \ Serving
    BY <1>2 DEF StayClosed, In, State, Serving
  <2> QED
    BY <1>1, <1>2, <2>1, StatusValues, ReturnsTypes, PortOperationTypes, ErrorChangesTypes,
       IdlePass
    DEF StayClosed, requestVars, ReturnStatus
<1>3. CASE MeetClose
  <2>1. state' \in State \ Serving
    BY <1>3 DEF MeetClose, State, Serving
  <2> QED
    BY <1>1, <1>3, <2>1, StayTypes, PortOperationTypes, ErrorChangesTypes, IdlePass
    DEF MeetClose, In, requestVars, statusVars, errorVars
<1>4. CASE Close
  <2>1. state' = "CLOSED" /\ state' \in State \ Serving
    BY <1>4 DEF Close, State, Serving
  <2> QED
    BY <1>1, <1>4, <2>1, StatusValues, ReturnsTypes, PortOperationTypes, ErrorChangesTypes,
       IdlePass
    DEF Close, requestVars, ReturnStatus
<1>5. CASE TimeoutRuns
  <2>1. state' = "TIMEOUT" /\ state' \in State \ Serving
    BY <1>5 DEF TimeoutRuns, In, State, Serving
  <2> QED
    BY <1>1, <1>5, <2>1, StatusValues, ReturnsTypes, PortOperationTypes, ErrorChangesTypes,
       IdlePass
    DEF TimeoutRuns, requestVars, ReturnStatus
<1>6. CASE TimeoutOver
  <2>1. state' \in State \ Serving
    BY <1>6 DEF TimeoutOver, State, Serving
  <2> QED
    BY <1>1, <1>6, <2>1, StayTypes, PortOperationTypes, ErrorChangesTypes, IdlePass
    DEF TimeoutOver, In, requestVars, statusVars, errorVars
<1>7. ASSUME NEW s \in PortResult, Open(s)
      PROVE  Inv'
  <2>1. s \in Status /\ s \in {Good, Processing, BadPort}
    BY StatusValues DEF PortResult
  <2>2. /\ PortOpen(s) /\ running
        /\ UNCHANGED <<cmdClose, settingVars, reply, frame, outcome>>
    BY <1>7 DEF Open, In, requestVars
  <2>3. CASE s = Processing /\ state' = "WAIT_FOR_OPEN" /\ ReturnStatus(s)
             /\ UNCHANGED <<errorVars, announced>>
    <3>1. state' \in State \ Serving
      BY <2>3 DEF State, Serving
    <3> QED
      BY <1>1, <2>1, <2>2, <2>3, <3>1, ReturnsTypes, PortOperationTypes,
         ErrorChangesTypes, IdlePass
      DEF ReturnStatus
  <2>4. CASE s = BadPort /\ state' = "TIMEOUT" /\ SetPortError(s) /\ ReturnStatus(s)
             /\ UNCHANGED announced
    <3>1. state' \in State \ Serving
      BY <2>4 DEF State, Serving
    <3> QED
      BY <1>1, <2>1, <2>2, <2>4, <3>1, ReturnsTypes, PortOperationTypes,
         ErrorChangesTypes, IdlePass
      DEF ReturnStatus
  <2>5. CASE s = Good /\ state' = "READ" /\ SignalOpened /\ GoOn(s)
             /\ UNCHANGED statusVars
    <3>1. state' \in State \ Serving
      BY <2>5 DEF State, Serving
    <3> QED
      BY <1>1, <2>1, <2>2, <2>5, <3>1, GoOnTypes, PortOperationTypes,
         ErrorChangesTypes, IdlePass
      DEF statusVars, errorVars
  <2> QED
    BY <1>7, <2>3, <2>4, <2>5 DEF Open
<1>8. ASSUME NEW up \in BOOLEAN, Orient(up)
      PROVE  Inv'
  <2>1. state' \in State \ Serving
    BY <1>8 DEF Orient, State, Serving
  <2> QED
    BY <1>1, <1>8, <2>1, StayTypes, PortOperationTypes, ErrorChangesTypes, IdlePass
    DEF Orient, In, requestVars, statusVars, errorVars
<1> QED
  BY <1>2, <1>3, <1>4, <1>5, <1>6, <1>7, <1>8

(* The passes of READ, whatever arrives.                                   *)
LEMMA ReadingInv ==
  ASSUME Inv, \/ ReadClosed
              \/ \E s \in PortResult : ReadNothing(s)
              \/ \E q \in Request : ReadUnreadable(q) \/ ReadForeign(q) \/ ReadNotCorrect(q)
  PROVE  Inv'
<1> USE TypeGroups DEF Inv, Types
<1>1. /\ frame \in Request \union {None} /\ outcome \in Outcome \union {None}
      /\ PortTypes /\ ErrorTypes /\ CallTypes /\ CallState /\ lastStatus \in Status
  BY DEF RequestTypes
<1>2. CASE ReadClosed
  <2>1. state' = "CLOSED" /\ state' \in State \ Serving
    BY <1>2 DEF ReadClosed, State, Serving
  <2>2. PortTypes'
    BY <1>1, <1>2 DEF ReadClosed, PortTypes, SignalClosed
  <2> QED
    BY <1>1, <1>2, <2>1, <2>2, StatusValues, ReturnsTypes, ErrorChangesTypes, IdlePass
    DEF ReadClosed, requestVars, RaiseCompleted
<1>3. ASSUME NEW s \in PortResult, ReadNothing(s)
      PROVE  Inv'
  <2>1. s \in Status /\ s \in {Good, Processing, BadPort}
    BY StatusValues DEF PortResult
  <2>2. /\ PortTransfer(s) /\ state = "READ"
        /\ UNCHANGED <<cmdClose, settingVars, reply, frame, outcome, announced>>
    BY <1>3 DEF ReadNothing, In, requestVars
  <2>3. CASE s = Processing /\ ReturnStatus(s) /\ UNCHANGED <<state, errorVars>>
    <3>1. state' = "READ" /\ state' \in State \ Serving
      BY <2>2, <2>3 DEF State, Serving
    <3> QED
      BY <1>1, <2>1, <2>2, <2>3, <3>1, ReturnsTypes, PortOperationTypes,
         ErrorChangesTypes, IdlePass
      DEF ReturnStatus
  <2>4. CASE s = BadPort /\ state' = "TIMEOUT" /\ SetPortError(s) /\ RaiseCompleted(s, None)
    <3>1. state' \in State \ Serving
      BY <2>4 DEF State, Serving
    <3> QED
      BY <1>1, <2>1, <2>2, <2>4, <3>1, ReturnsTypes, PortOperationTypes,
         ErrorChangesTypes, IdlePass
      DEF RaiseCompleted
  <2> QED
    BY <1>3, <2>3, <2>4 DEF ReadNothing
<1>4. ASSUME NEW q \in Request, Received, state' = state, outcome' = outcome,
             frame' \in {frame, q}, NEW st \in Status, NEW completed \in BOOLEAN,
             Returns(st, completed, None), UNCHANGED lastStatus, ErrorTypes'
      PROVE  Inv'
  <2>1. state' = "READ" /\ state' \in State \ Serving
    BY <1>4 DEF Received, In, State, Serving
  <2> QED
    BY <1>1, <1>4, <2>1, ReturnsTypes, PortOperationTypes, IdlePass DEF Received
<1>5. ASSUME NEW q \in Request, ReadUnreadable(q)
      PROVE  Inv'
  <2>1. ErrorTypes'
    BY <1>1, <1>5, StatusValues, ErrorChangesTypes DEF ReadUnreadable
  <2> QED
    BY <1>4, <1>5, <2>1, StatusValues DEF ReadUnreadable, RaiseErrorCompleted
<1>6. ASSUME NEW q \in Request, ReadForeign(q)
      PROVE  Inv'
  <2>1. ErrorTypes'
    BY <1>1, <1>6, StatusValues, ErrorChangesTypes DEF ReadForeign
  <2> QED
    BY <1>4, <1>6, <2>1, StatusValues DEF ReadForeign, ReturnStatus
<1>7. ASSUME NEW q \in Request, ReadNotCorrect(q)
      PROVE  Inv'
  <2>1. ErrorTypes'
    BY <1>1, <1>7, StatusValues, ErrorChangesTypes DEF ReadNotCorrect
  <2> QED
    BY <1>4, <1>7, <2>1, StatusValues DEF ReadNotCorrect, RaiseErrorCompleted
<1> QED
  BY <1>2, <1>3, <1>5, <1>6, <1>7

(* What is put into the buffer: the response, or the request is left there *)
(* if the device has more to say than fits.                                *)
LEMMA AssembledResponse ==
  ASSUME BeginWrite
  PROVE  \E st : /\ reply' = [req |-> frame, st |-> st]
                 /\ \/ st = IF r \in Bad THEN Exception(r) ELSE Good
                    \/ Oversize /\ r = Good /\ st = "Leftover"
<1>1. PICK fits \in {TRUE, ~(Oversize /\ r = Good)} :
        reply' = [req |-> frame, st |-> IF ~fits THEN "Leftover"
                                        ELSE IF r \in Bad THEN Exception(r) ELSE Good]
  BY DEF BeginWrite
<1>2. CASE fits
  BY <1>1, <1>2
<1>3. CASE ~fits
  <2>1. Oversize /\ r = Good
    BY <1>1, <1>3, Zenon
  <2> QED
    BY <1>1, <1>3, <2>1
<1> QED
  BY <1>2, <1>3

(* A pass in an exchange, or one that begins it.                           *)
LEMMA ServingInv ==
  ASSUME Inv, \/ \E q \in Request : ReadIllegal(q) \/ ReadRequest(q)
              \/ \E s \in DeviceResult : ProcessDevice(s)
              \/ BeginWrite
              \/ \E s \in PortResult : Write(s)
  PROVE  Inv'
<1> USE TypeGroups, TypeGroupsNext DEF Inv, Types
<1>1. /\ PortTypes /\ ErrorTypes /\ CallTypes /\ CallState /\ RequestTypes
      /\ EngineTypes /\ SettingTypes /\ lastStatus \in Status
  OBVIOUS
<1>2. ASSUME NEW q \in Request, ReadIllegal(q)
      PROVE  Inv'
  <2>1. /\ state' = "BEGIN_WRITE" /\ outcome' = Illegal /\ r' = Illegal /\ frame' = q
        /\ UNCHANGED <<reply, settingVars, cmdClose, portVars, announced, lastStatus>>
        /\ running /\ GoOn(Illegal) /\ SetError(Illegal)
    BY <1>2 DEF ReadIllegal, Received, In, GoOn
  <2>2. Served' /\ Replying'
    BY <2>1, StatusValues DEF Served, Replying
  <2>3. EngineTypes' /\ SettingTypes' /\ RequestTypes'
    BY <1>1, <2>1, StatusValues DEF EngineTypes, SettingTypes, settingVars, RequestTypes, State
  <2>4. PortTypes' /\ ErrorTypes' /\ CallTypes' /\ CallState'
    BY <1>1, <2>1, StatusValues, GoOnTypes, PortOperationTypes, ErrorChangesTypes
  <2> QED
    BY <1>1, <2>1, <2>2, <2>3, <2>4
<1>3. ASSUME NEW q \in Request, ReadRequest(q)
      PROVE  Inv'
  <2>1. /\ state' = "PROCESS_DEVICE" /\ outcome' = None /\ frame' = q
        /\ UNCHANGED <<reply, settingVars, cmdClose, portVars, announced, lastStatus>>
        /\ running /\ GoOn(Good) /\ UNCHANGED errorVars
    BY <1>3 DEF ReadRequest, Received, In, statusVars, errorVars
  <2>2. Served' /\ Replying'
    BY <2>1 DEF Served, Replying
  <2>3. EngineTypes' /\ SettingTypes' /\ RequestTypes'
    BY <1>1, <2>1 DEF EngineTypes, SettingTypes, settingVars, RequestTypes, State
  <2>4. PortTypes' /\ ErrorTypes' /\ CallTypes' /\ CallState'
    BY <1>1, <2>1, StatusValues, GoOnTypes, PortOperationTypes, ErrorChangesTypes
  <2> QED
    BY <1>1, <2>1, <2>2, <2>3, <2>4
<1>4. ASSUME NEW s \in DeviceResult, ProcessDevice(s)
      PROVE  Inv'
  <2>1. /\ state = "PROCESS_DEVICE" /\ running /\ frame \in Request /\ outcome = None
        /\ UNCHANGED <<reply, settingVars, cmdClose, portVars, announced, frame>>
        /\ s \in Status
    BY <1>4, StatusValues DEF ProcessDevice, In, Served, Serving
  <2>2. PortTypes' /\ SettingTypes' /\ cmdClose' \in BOOLEAN
    BY <1>1, <2>1, PortOperationTypes DEF SettingTypes, settingVars, EngineTypes
  <2>3. ErrorTypes'
    BY <1>1, <1>4, <2>1, ErrorChangesTypes DEF ProcessDevice
  <2>4. CASE s = Processing /\ ReturnStatus(s) /\ UNCHANGED <<state, outcome>>
    <3>1. state' = "PROCESS_DEVICE"
      BY <2>1, <2>4
    <3>2. CallTypes' /\ CallState' /\ lastStatus' \in Status
      BY <1>1, <2>1, <2>4, <3>1, ReturnsTypes DEF ReturnStatus
    <3>3. Served' /\ Replying' /\ RequestTypes' /\ EngineTypes'
      BY <1>1, <2>1, <2>2, <2>4, <3>1 DEF Served, Replying, RequestTypes, EngineTypes
    <3> QED
      BY <2>2, <2>3, <3>2, <3>3
  <2>5. CASE outcome' = None /\ state' = "READ" /\ RaiseCompleted(Good, None)
    <3>1. CallTypes' /\ CallState' /\ lastStatus' \in Status
      BY <1>1, <2>1, <2>5, StatusValues, ReturnsTypes DEF RaiseCompleted
    <3>2. Served' /\ Replying' /\ RequestTypes' /\ EngineTypes'
      BY <1>1, <2>1, <2>2, <2>5
      DEF Served, Replying, RequestTypes, EngineTypes, Serving, State
    <3> QED
      BY <2>2, <2>3, <3>1, <3>2
  <2>6. CASE /\ s # Processing /\ s # Gateway /\ state' = "BEGIN_WRITE"
             /\ outcome' = IF s \in Bad THEN Exception(s) ELSE s
             /\ GoOn(s) /\ UNCHANGED lastStatus
    <3>1. CallTypes' /\ CallState' /\ lastStatus' \in Status
      BY <1>1, <2>1, <2>6, GoOnTypes
    <3>2. s \in {Good, Illegal, Device} /\ r' = s /\ (s \notin Bad => s = Good)
      BY <1>4, <2>6, StatusValues DEF DeviceResult, GoOn, Bad
    <3>3. Served' /\ Replying'
      BY <2>1, <2>6, <3>2 DEF Served, Replying
    <3>4. RequestTypes' /\ EngineTypes'
      BY <1>1, <2>1, <2>2, <2>6, <3>2, StatusValues DEF RequestTypes, EngineTypes, State
    <3> QED
      BY <2>2, <2>3, <3>1, <3>3, <3>4
  <2> QED
    BY <1>4, <2>4, <2>5, <2>6 DEF ProcessDevice
<1>5. CASE BeginWrite
  <2>1. /\ state = "BEGIN_WRITE" /\ running /\ frame \in Request /\ state' = "WRITE"
        /\ outcome = IF r \in Bad THEN Exception(r) ELSE Good
        /\ UNCHANGED <<settingVars, cmdClose, portVars, announced, frame, outcome,
                       statusVars, callVars>>
    BY <1>5 DEF BeginWrite, In, Served, Serving
  <2>2. PortTypes' /\ SettingTypes' /\ ErrorTypes' /\ lastStatus' \in Status
        /\ EngineTypes'
    BY <1>1, <2>1, PortOperationTypes, ErrorChangesTypes
    DEF SettingTypes, settingVars, EngineTypes, State, statusVars, errorVars
  <2>3. CallTypes' /\ CallState'
    BY <1>1, <2>1, StayTypes
  <2>4. PICK st : /\ reply' = [req |-> frame, st |-> st]
                  /\ \/ st = IF r \in Bad THEN Exception(r) ELSE Good
                     \/ Oversize /\ r = Good /\ st = "Leftover"
    BY <1>5, AssembledResponse
  <2>5. st \in Outcome
    BY <2>1, <2>4, StatusValues
  <2>6. reply' \in Answer /\ reply'.req = frame /\ reply'.st = st
    BY <2>1, <2>4, <2>5 DEF Answer
  <2>7. Served' /\ Replying' /\ RequestTypes'
    BY <1>1, <2>1, <2>4, <2>6 DEF Served, Replying, RequestTypes
  <2> QED
    BY <2>2, <2>3, <2>7
<1>6. ASSUME NEW s \in PortResult, Write(s)
      PROVE  Inv'
  <2>1. /\ state = "WRITE" /\ running /\ frame \in Request /\ PortTransfer(s)
        /\ reply \in Answer
        /\ UNCHANGED <<settingVars, cmdClose, announced, frame>>
    BY <1>6 DEF Write, In, Served, Serving, Replying
  <2>2. PortTypes' /\ SettingTypes' /\ cmdClose' \in BOOLEAN
    BY <1>1, <2>1, PortOperationTypes DEF SettingTypes, settingVars, EngineTypes
  <2>3. CASE WritePending
    <3>1. state' = "WRITE" /\ UNCHANGED <<reply, outcome>>
      BY <2>1, <2>3 DEF WritePending
    <3>2. CallTypes' /\ CallState' /\ lastStatus' \in Status /\ ErrorTypes'
      BY <1>1, <2>3, <3>1, StatusValues, ReturnsTypes, ErrorChangesTypes
      DEF WritePending, ReturnStatus
    <3>3. Served' /\ Replying' /\ RequestTypes' /\ EngineTypes'
      BY <1>1, <2>1, <2>2, <3>1
      DEF Served, Replying, RequestTypes, EngineTypes, Serving, State
    <3> QED
      BY <2>2, <3>2, <3>3
  <2>4. CASE WriteFailed
    <3>1. state' = "TIMEOUT" /\ reply' = None /\ outcome' = None
      BY <2>4 DEF WriteFailed
    <3>2. CallTypes' /\ CallState' /\ lastStatus' \in Status /\ ErrorTypes'
      BY <1>1, <2>4, <3>1, StatusValues, ReturnsTypes, ErrorChangesTypes
      DEF WriteFailed, RaiseCompleted
    <3>3. Served' /\ Replying' /\ RequestTypes' /\ EngineTypes'
      BY <1>1, <2>1, <2>2, <3>1
      DEF Served, Replying, RequestTypes, EngineTypes, Serving, State
    <3> QED
      BY <2>2, <3>2, <3>3
  <2>5. CASE WriteDone
    <3>1. state' = "READ" /\ reply' = None /\ outcome' = None
      BY <2>5 DEF WriteDone
    <3>2. CallTypes' /\ CallState' /\ lastStatus' \in Status /\ ErrorTypes'
      <4>1. r \in Status
        BY <1>1 DEF CallTypes
      <4> QED
        BY <1>1, <2>1, <2>5, <3>1, <4>1, ReturnsTypes, ErrorChangesTypes
        DEF WriteDone, RaiseCompleted
    <3>3. Served' /\ Replying' /\ RequestTypes' /\ EngineTypes'
      BY <1>1, <2>1, <2>2, <3>1
      DEF Served, Replying, RequestTypes, EngineTypes, Serving, State
    <3> QED
      BY <2>2, <3>2, <3>3
  <2> QED
    BY <1>6, <2>3, <2>4, <2>5 DEF Write
<1> QED
  BY <1>2, <1>3, <1>4, <1>5, <1>6

(***************************************************************************)
(* The application.                                                        *)
(***************************************************************************)
LEMMA TextUnits == \A text \in UnitText : fillUnitMap(text) \in (SUBSET Units) \union {None}
<1> SUFFICES ASSUME NEW text \in UnitText, fillUnitMap(text) # None
             PROVE  fillUnitMap(text) \in SUBSET Units
  OBVIOUS
<1>1. None \notin text /\ text \subseteq Part
  BY ServerAssumption DEF fillUnitMap
<1>2. fillUnitMap(text) = UNION {p.first..p.last : p \in text}
  BY DEF fillUnitMap
<1>3. \A p \in text : p.first..p.last \subseteq Units
  BY <1>1, ServerAssumption DEF Part, Units
<1> QED
  BY <1>2, <1>3

(* A new call of process().                                                *)
LEMMA CallInv ==
  ASSUME Inv, Call
  PROVE  Inv'
<1> USE TypeGroups, TypeGroupsNext DEF Inv, Types
<1>1. /\ UNCHANGED <<portVars, state, cmdClose, settingVars, statusVars, requestVars, r,
                     announced>>
      /\ ~running /\ running' = TRUE /\ ret' = NoReturn /\ before' = Connection
  BY DEF Call
<1>2. /\ PortTypes' /\ EngineTypes' /\ SettingTypes' /\ ErrorTypes' /\ RequestTypes'
      /\ lastStatus' \in Status
  BY <1>1
  DEF PortTypes, EngineTypes, SettingTypes, ErrorTypes, RequestTypes, portVars, settingVars,
      statusVars, requestVars
<1>3. Connection \in [st : ConnectionState, sock : BOOLEAN]
  <2>1. state \in State \ {"BEGIN_WRITE", "WAIT_FOR_CLOSE"} /\ portOpen \in BOOLEAN
    BY <1>1 DEF CallState, EngineTypes, PortTypes
  <2> QED
    BY <2>1 DEF Connection, ConnectionState, State, Serving
<1>4. CallTypes' /\ CallState'
  BY <1>1, <1>3, NoReturnType DEF CallTypes, CallState
<1>5. Served' /\ Replying'
  BY <1>1 DEF Served, Replying, requestVars
<1> QED
  BY <1>2, <1>4, <1>5

(* What the application sets, opens and closes between two calls.          *)
LEMMA ManageInv ==
  ASSUME Inv, Manage
  PROVE  Inv'
<1> USE TypeGroups, TypeGroupsNext DEF Inv, Types
<1>1. UNCHANGED <<portOpen, connecting, state, statusVars, requestVars, callVars, announced>>
  BY DEF Manage, open, close, setBroadcastEnabled, setUnitMap, setUnitEnabled,
         setUnitMapString, ChangeSettings, portVars
<1>2. UNCHANGED changed \/ changed' = TRUE
  BY DEF Manage, open, close, setBroadcastEnabled, setUnitMap, setUnitEnabled,
         setUnitMapString, ChangeSettings, portVars
<1>3. UNCHANGED cmdClose \/ cmdClose' \in BOOLEAN
  BY DEF Manage, open, close, setBroadcastEnabled, setUnitMap, setUnitEnabled,
         setUnitMapString, ChangeSettings
<1>4. SettingTypes'
  <2>1. CASE UNCHANGED settingVars
    BY <2>1 DEF SettingTypes, settingVars
  <2>2. ASSUME NEW b \in BOOLEAN, setBroadcastEnabled(b)
        PROVE  SettingTypes'
    BY <2>2 DEF SettingTypes, setBroadcastEnabled
  <2>3. ASSUME NEW map \in UnitMap \union {None}, setUnitMap(map)
        PROVE  SettingTypes'
    BY <2>3, ServerAssumption DEF SettingTypes, setUnitMap
  <2>4. ASSUME NEW u \in Unit, NEW b \in BOOLEAN, setUnitEnabled(u, b)
        PROVE  SettingTypes'
    BY <2>4, ServerAssumption DEF SettingTypes, setUnitEnabled
  <2>5. ASSUME NEW text \in UnitText, setUnitMapString(text)
        PROVE  SettingTypes'
    BY <2>5, TextUnits DEF SettingTypes, setUnitMapString, MapOfText
  <2> QED
    BY <2>1, <2>2, <2>3, <2>4, <2>5
    DEF Manage, open, close, ChangeSettings
<1>5. PortTypes' /\ EngineTypes' /\ ErrorTypes' /\ RequestTypes' /\ lastStatus' \in Status
  BY <1>1, <1>2, <1>3
  DEF PortTypes, EngineTypes, ErrorTypes, RequestTypes, statusVars, requestVars
<1>6. CallTypes' /\ CallState' /\ Served' /\ Replying'
  BY <1>1 DEF CallTypes, CallState, Served, Replying, callVars, requestVars
<1> QED
  BY <1>4, <1>5, <1>6

(* Every pass of process().                                                *)
LEMMA PassInv ==
  ASSUME Inv, Pass
  PROVE  Inv'
BY OpeningInv, ReadingInv, ServingInv DEF Pass

(* The invariant depends on the variables only.                            *)
LEMMA StutterInv ==
  ASSUME Inv, UNCHANGED vars
  PROVE  Inv'
<1>1. TypeOK'
  BY DEF Inv, TypeOK, vars, portVars, settingVars, statusVars, requestVars, callVars
<1>2. CallState' /\ Served' /\ Replying'
  BY DEF Inv, CallState, Served, Replying, vars, requestVars, callVars
<1> QED
  BY <1>1, <1>2 DEF Inv

(* The invariant holds in every state of the server engine, whatever comes *)
(* in and whatever the application sets between two calls.                 *)
THEOREM Invariance == Spec => []Inv
<1>1. Inv /\ [Next]_vars => Inv'
  BY CallInv, PassInv, ManageInv, StutterInv DEF Next
<1> QED
  BY <1>1, InitInv, PTL DEF Spec

(* Every variable of the server engine keeps to its type, whatever is      *)
(* received and whatever the application calls between two calls of        *)
(* process().                                                              *)
THEOREM ServerTypeCorrect == Spec => []TypeOK
<1>1. Inv => TypeOK
  BY DEF Inv
<1> QED
  BY <1>1, Invariance, PTL

-----------------------------------------------------------------------------
(***************************************************************************)
(* Whose requests are answered, when the settings stay as they are while a *)
(* request is served.                                                      *)
(***************************************************************************)

(* A broadcast comes to a response only by way of ReadIllegal.             *)
OwnRequest ==
  /\ state \in Serving => isUnitEnabled(frame.unit)
  /\ state = "BEGIN_WRITE" /\ isBroadcast(frame.unit) => r = Illegal
  /\ state = "WRITE" /\ isBroadcast(frame.unit) => reply.st = Illegal

(* Who is served depends on the settings alone.                            *)
LEMMA SettingsMatter ==
  ASSUME UNCHANGED settingVars, NEW u
  PROVE  isUnitEnabled(u)' = isUnitEnabled(u) /\ isBroadcast(u)' = isBroadcast(u)
BY DEF settingVars, isUnitEnabled, isBroadcast

(* OwnRequest depends on the exchange and the settings only.               *)
LEMMA OwnRequestKept ==
  ASSUME OwnRequest, UNCHANGED <<state, frame, settingVars, r, reply>>
  PROVE  OwnRequest'
BY DEF OwnRequest, settingVars, isUnitEnabled, isBroadcast

(* Outside of an exchange there is nothing to show.                        *)
LEMMA NotServing ==
  ASSUME state' \notin Serving
  PROVE  OwnRequest'
BY DEF OwnRequest, Serving

(* A pass keeps OwnRequest, for it changes no settings.                    *)
LEMMA OwnRequestInPass ==
  ASSUME Inv, OwnRequest, Pass
  PROVE  OwnRequest'
<1> USE DEF Inv
<1>1. CASE \/ StayClosed \/ MeetClose \/ Close \/ ReadClosed \/ TimeoutRuns \/ TimeoutOver
           \/ \E s \in PortResult : Open(s) \/ ReadNothing(s)
           \/ \E up \in BOOLEAN : Orient(up)
           \/ \E q \in Request : ReadUnreadable(q) \/ ReadForeign(q) \/ ReadNotCorrect(q)
  <2>1. state' \notin Serving
    BY <1>1
    DEF StayClosed, MeetClose, Close, ReadClosed, TimeoutRuns, TimeoutOver, Open, ReadNothing,
        Orient, ReadUnreadable, ReadForeign, ReadNotCorrect, Received, In, Serving
  <2> QED
    BY <2>1, NotServing
<1>2. ASSUME NEW q \in Request, ReadIllegal(q)
      PROVE  OwnRequest'
  <2>1. /\ state' = "BEGIN_WRITE" /\ frame' = q /\ r' = Illegal /\ isUnitEnabled(q.unit)
        /\ UNCHANGED settingVars
    BY <1>2 DEF ReadIllegal, Received, GoOn
  <2> QED
    BY <2>1 DEF OwnRequest, settingVars, isUnitEnabled, isBroadcast
<1>3. ASSUME NEW q \in Request, ReadRequest(q)
      PROVE  OwnRequest'
  <2>1. /\ state' = "PROCESS_DEVICE" /\ frame' = q /\ isUnitEnabled(q.unit)
        /\ UNCHANGED settingVars
    BY <1>3 DEF ReadRequest, Received
  <2> QED
    BY <2>1 DEF OwnRequest, settingVars, isUnitEnabled, isBroadcast
<1>4. ASSUME NEW s \in DeviceResult, ProcessDevice(s)
      PROVE  OwnRequest'
  <2>1. state = "PROCESS_DEVICE" /\ UNCHANGED <<frame, settingVars>>
    BY <1>4 DEF ProcessDevice, In
  <2>2. isUnitEnabled(frame.unit)
    BY <2>1 DEF OwnRequest, Serving
  <2>3. CASE state' = state
    BY <2>1, <2>2, <2>3 DEF OwnRequest, settingVars, isUnitEnabled, isBroadcast
  <2>4. CASE state' = "READ"
    BY <2>4, NotServing DEF Serving
  <2>5. CASE state' = "BEGIN_WRITE" /\ ~isBroadcast(frame.unit)
    BY <2>1, <2>2, <2>5 DEF OwnRequest, settingVars, isUnitEnabled, isBroadcast
  <2> QED
    BY <1>4, <2>3, <2>4, <2>5 DEF ProcessDevice
<1>5. CASE BeginWrite
  <2>1. state = "BEGIN_WRITE" /\ state' = "WRITE" /\ UNCHANGED <<frame, settingVars>>
    BY <1>5 DEF BeginWrite, In
  <2>2. isUnitEnabled(frame.unit) /\ (isBroadcast(frame.unit) => r = Illegal)
    BY <2>1 DEF OwnRequest, Serving
  <2>3. isBroadcast(frame.unit) => reply'.st = Illegal
    BY <1>5, <2>2, AssembledResponse, StatusValues
  <2> QED
    BY <2>1, <2>2, <2>3 DEF OwnRequest, settingVars, isUnitEnabled, isBroadcast
<1>6. ASSUME NEW s \in PortResult, Write(s)
      PROVE  OwnRequest'
  <2>1. state = "WRITE" /\ UNCHANGED <<frame, settingVars>>
    BY <1>6 DEF Write, In
  <2>2. CASE UNCHANGED <<state, reply>>
    BY <2>1, <2>2 DEF OwnRequest, settingVars, isUnitEnabled, isBroadcast
  <2>3. CASE state' \in {"READ", "TIMEOUT"}
    BY <2>3, NotServing DEF Serving
  <2> QED
    BY <1>6, <2>2, <2>3 DEF Write, WritePending, WriteFailed, WriteDone
<1> QED
  BY <1>1, <1>2, <1>3, <1>4, <1>5, <1>6 DEF Pass

(* So does the application, when the settings are settled.                 *)
LEMMA OwnRequestManaged ==
  ASSUME Settled, OwnRequest, Manage
  PROVE  OwnRequest'
<1>1. UNCHANGED <<state, frame, r, reply>>
  BY DEF Manage, open, close, setBroadcastEnabled, setUnitMap, setUnitEnabled,
         setUnitMapString, ChangeSettings, requestVars, callVars
<1>2. state \notin Serving \/ UNCHANGED settingVars
  BY DEF Manage, open, close, setBroadcastEnabled, setUnitMap, setUnitEnabled,
         setUnitMapString, ChangeSettings, Configures
<1>3. CASE state \notin Serving
  BY <1>1, <1>3, NotServing
<1>4. CASE UNCHANGED settingVars
  BY <1>1, <1>4, OwnRequestKept
<1> QED
  BY <1>2, <1>3, <1>4

(* A response goes out only for a unit that is served here, and to a       *)
(* broadcast only where its frame was refused, whatever units there are    *)
(* and in which order frames, settings and calls come.                     *)
THEOREM OnlyOwnUnitsAlways ==
  ASSUME Settled
  PROVE  Spec => []OnlyOwnUnits
<1>1. Init => OwnRequest
  BY DEF Init, OwnRequest, Serving
<1>2. Inv /\ OwnRequest /\ [Next]_vars => OwnRequest'
  <2>1. Call \/ UNCHANGED vars => UNCHANGED <<state, frame, settingVars, r, reply>>
    BY DEF Call, vars, requestVars, callVars
  <2> QED
    BY <2>1, OwnRequestKept, OwnRequestInPass, OwnRequestManaged DEF Next
<1>3. Inv /\ OwnRequest => OnlyOwnUnits
  BY DEF Inv, Replying, OwnRequest, OnlyOwnUnits, Serving
<1> QED
  BY <1>1, <1>2, <1>3, Invariance, PTL DEF Spec

-----------------------------------------------------------------------------
(***************************************************************************)
(* Refinement: every step of the engine is one of the responder or changes *)
(* nothing that the responder knows of.                                    *)
(***************************************************************************)

(* A step that leaves the exchange as it is is a stutter of the responder; *)
LEMMA Unseen ==
  ASSUME Requested' = Requested, outcome' = outcome, ret'.answer = ret.answer
  PROVE  UNCHANGED Responder!vars
BY DEF Responder!vars

(* and before and after a pass outside of an exchange none is taken up.    *)
LEMMA NotTakenUp ==
  ASSUME state \notin Serving, state' \notin Serving
  PROVE  Requested' = Requested
BY DEF Requested

(* Every pass is a step of the responder or a stutter of it.               *)
LEMMA PassRefines ==
  ASSUME Inv, ~Oversize, Pass
  PROVE  Responder!Next \/ UNCHANGED Responder!vars
<1> USE TypeGroups DEF Inv, Types
<1>1. running /\ ret.answer = None
  <2>1. running
    BY DEF Pass, StayClosed, MeetClose, Close, ReadClosed, TimeoutRuns, TimeoutOver, Open,
           ReadNothing, Orient, ReadUnreadable, ReadForeign, ReadNotCorrect, ReadIllegal,
           ReadRequest, Received, ProcessDevice, BeginWrite, Write, In
  <2> QED
    BY <2>1 DEF CallState, NoReturn
<1>2. CASE \/ StayClosed \/ MeetClose \/ Close \/ ReadClosed \/ TimeoutRuns \/ TimeoutOver
           \/ \E s \in PortResult : Open(s) \/ ReadNothing(s)
           \/ \E up \in BOOLEAN : Orient(up)
           \/ \E q \in Request : ReadUnreadable(q) \/ ReadForeign(q) \/ ReadNotCorrect(q)
  <2>1. state \notin Serving /\ state' \notin Serving /\ outcome' = outcome
    BY <1>2
    DEF StayClosed, MeetClose, Close, ReadClosed, TimeoutRuns, TimeoutOver, Open, ReadNothing,
        Orient, ReadUnreadable, ReadForeign, ReadNotCorrect, Received, In, Serving, requestVars
  <2>2. ret' = ret \/ ret'.answer = None
    BY <1>2
    DEF StayClosed, MeetClose, Close, ReadClosed, TimeoutRuns, TimeoutOver, Open, ReadNothing,
        Orient, ReadUnreadable, ReadForeign, ReadNotCorrect, callVars, GoOn, ReturnStatus,
        RaiseCompleted, RaiseErrorCompleted, Returns
  <2> QED
    BY <1>1, <2>1, <2>2, NotTakenUp, Unseen
<1>3. ASSUME NEW q \in Request, ReadIllegal(q) \/ ReadRequest(q)
      PROVE  Responder!Next
  <2>1. /\ state \notin Serving /\ state' \in Serving /\ frame' = q /\ ret' = ret
        /\ outcome' \in Outcome \union {None}
    BY <1>3, StatusValues DEF ReadIllegal, ReadRequest, Received, In, Serving, GoOn
  <2>2. Responder!TakeUp(q)
    BY <1>1, <2>1 DEF Requested, Responder!TakeUp
  <2> QED
    BY <2>2 DEF Responder!Next
<1>4. ASSUME NEW s \in DeviceResult, ProcessDevice(s)
      PROVE  Responder!Next \/ UNCHANGED Responder!vars
  <2>1. /\ state = "PROCESS_DEVICE" /\ state \in Serving /\ frame' = frame
        /\ outcome = None /\ frame # None
    BY <1>4, FrameUnits DEF ProcessDevice, In, Served, Serving
  <2>2. CASE UNCHANGED <<state, outcome>> /\ ReturnStatus(s)
    BY <1>1, <2>1, <2>2, Unseen DEF Requested, ReturnStatus, Returns
  <2>3. CASE outcome' = None /\ state' = "READ" /\ RaiseCompleted(Good, None)
    <3>1. Requested = frame /\ Requested' = None /\ ret'.answer = None
      BY <2>1, <2>3 DEF Requested, Serving, RaiseCompleted, Returns
    <3>2. Responder!Drop
      BY <1>1, <2>1, <2>3, <3>1 DEF Responder!Drop, Responder!Done
    <3> QED
      BY <3>2 DEF Responder!Next
  <2>4. CASE /\ outcome' = IF s \in Bad THEN Exception(s) ELSE s
             /\ s # Processing /\ state' = "BEGIN_WRITE" /\ GoOn(s)
    <3>1. outcome' \in Outcome
      BY <1>4, <2>4, StatusValues DEF DeviceResult
    <3>2. Requested = frame /\ Requested' = frame /\ ret' = ret
      BY <2>1, <2>4 DEF Requested, Serving, GoOn
    <3>3. Responder!Execute(outcome')
      BY <2>1, <3>2 DEF Responder!Execute
    <3> QED
      BY <3>1, <3>3 DEF Responder!Next
  <2> QED
    BY <1>4, <2>2, <2>3, <2>4 DEF ProcessDevice
<1>5. CASE BeginWrite
  <2>1. state \in Serving /\ state' \in Serving /\ UNCHANGED <<frame, outcome, ret>>
    BY <1>5 DEF BeginWrite, In, Serving, callVars
  <2> QED
    BY <2>1, Unseen DEF Requested
<1>6. ASSUME NEW s \in PortResult, Write(s)
      PROVE  Responder!Next \/ UNCHANGED Responder!vars
  <2>1. /\ state = "WRITE" /\ state \in Serving /\ frame' = frame /\ frame # None
        /\ reply = [req |-> frame, st |-> outcome] /\ outcome # None
    <3>1. /\ state = "WRITE" /\ state \in Serving /\ frame' = frame /\ frame # None
          /\ reply \in Answer /\ reply.req = frame /\ reply.st = outcome
      BY <1>6, FrameUnits DEF Write, In, Served, Replying, Serving
    <3>2. reply = [req |-> reply.req, st |-> reply.st] /\ reply.st \in Outcome
      BY <3>1 DEF Answer
    <3> QED
      BY <3>1, <3>2, StatusValues
  <2>2. CASE WritePending
    BY <1>1, <2>1, <2>2, Unseen DEF Requested, WritePending, ReturnStatus, Returns
  <2>3. CASE WriteFailed
    <3>1. /\ Requested = frame /\ Requested' = None /\ outcome' = None /\ ret'.answer = None
      BY <2>1, <2>3 DEF Requested, Serving, WriteFailed, RaiseCompleted, Returns
    <3>2. Responder!Drop
      BY <1>1, <2>1, <3>1 DEF Responder!Drop, Responder!Done
    <3> QED
      BY <3>2 DEF Responder!Next
  <2>4. CASE WriteDone
    <3>1. /\ Requested = frame /\ Requested' = None /\ outcome' = None
          /\ ret'.answer = reply
      BY <2>1, <2>4 DEF Requested, Serving, WriteDone, RaiseCompleted, Returns
    <3>2. Responder!Respond
      BY <2>1, <3>1 DEF Responder!Respond, Responder!Done
    <3> QED
      BY <3>2 DEF Responder!Next
  <2> QED
    BY <1>6, <2>2, <2>3, <2>4 DEF Write
<1> QED
  BY <1>2, <1>3, <1>4, <1>5, <1>6 DEF Pass

(* Each request is executed or refused once and answered at most once,     *)
(* with its own outcome, as long as responses fit into a frame             *)
(* (server_oversize.cfg shows that this is needed).                        *)
THEOREM AnswersOnceAlways ==
  ASSUME ~Oversize
  PROVE  Spec => AnswersOnce
<1>1. Init => Responder!Init
  BY DEF Init, NoReturn, Requested, Serving, Responder!Init
<1>2. Inv /\ [Next]_vars => [Responder!Next]_Responder!vars
  <2> SUFFICES ASSUME Inv, [Next]_vars
               PROVE  Responder!Next \/ UNCHANGED Responder!vars
    OBVIOUS
  <2>1. CASE Call
    <3>1. UNCHANGED <<state, frame, outcome>> /\ ret'.answer = None
      BY <2>1 DEF Call, requestVars, NoReturn
    <3>2. Responder!Forget
      BY <3>1 DEF Responder!Forget, Requested
    <3> QED
      BY <3>2 DEF Responder!Next
  <2>2. CASE Manage
    <3>1. UNCHANGED <<state, frame, outcome, ret>>
      BY <2>2 DEF Manage, open, close, setBroadcastEnabled, setUnitMap, setUnitEnabled,
                  setUnitMapString, ChangeSettings, requestVars, callVars
    <3> QED
      BY <3>1, Unseen DEF Requested
  <2>3. CASE UNCHANGED vars
    BY <2>3, Unseen DEF vars, requestVars, callVars, Requested
  <2> QED
    BY <2>1, <2>2, <2>3, PassRefines DEF Next
<1> QED
  BY <1>1, <1>2, Invariance, PTL DEF Spec, AnswersOnce, Responder!Spec

-----------------------------------------------------------------------------
(***************************************************************************)
(* A call as one step of its connection: what can still become of the      *)
(* connection in this call only shrinks from pass to pass, and what the    *)
(* last pass leaves is part of it.                                         *)
(***************************************************************************)

(* No setting of the port itself is changed, as none is of the connections *)
(* of a TCP server.                                                        *)
PortState ==
  /\ state \in Serving \union {"READ", "WAIT_FOR_OPEN"} => portOpen
  /\ connecting => state \in {"WAIT_FOR_OPEN", "WAIT_FOR_CLOSE"}
  /\ ~changed

Remaining == IF state = "WAIT_FOR_CLOSE" THEN Closes
             ELSE After(Connection.st, Connection.sock, cmdClose)

Progress == running => Remaining \subseteq After(before.st, before.sock, cmdClose)

(* What remains, state by state,                                           *)
LEMMA RemainingOf ==
  /\ state \in Serving => Remaining = Serves
  /\ state = "WAIT_FOR_OPEN" => Remaining = IF cmdClose THEN Closes ELSE Opens
  /\ state = "READ" => Remaining = FromRead(portOpen, cmdClose)
  /\ state = "CLOSED" => Remaining = FromClosed(portOpen, cmdClose)
  /\ state = "UNKNOWN" => Remaining = FromUnknown(portOpen, cmdClose)
  /\ state = "TIMEOUT" =>
       Remaining = At("TIMEOUT", {portOpen}) \union FromUnknown(portOpen, cmdClose)
  /\ state = "WAIT_FOR_CLOSE" => Remaining = Closes
BY DEF Remaining, Connection, After, Serving

(* in the next state,                                                      *)
LEMMA RemainingNext ==
  /\ state' \in Serving => Remaining' = Serves
  /\ state' = "WAIT_FOR_OPEN" => Remaining' = IF cmdClose' THEN Closes ELSE Opens
  /\ state' = "READ" => Remaining' = FromRead(portOpen', cmdClose')
  /\ state' = "CLOSED" => Remaining' = FromClosed(portOpen', cmdClose')
  /\ state' = "UNKNOWN" => Remaining' = FromUnknown(portOpen', cmdClose')
  /\ state' = "WAIT_FOR_CLOSE" => Remaining' = Closes
BY DEF Remaining, Connection, After, Serving

(* and what the next state is as one of a connection.                      *)
LEMMA ConnectionNext ==
  /\ state' \in Serving => Connection' = [st |-> "SERVE", sock |-> portOpen']
  /\ state' = "WAIT_FOR_OPEN" => Connection' = [st |-> "OPENING", sock |-> portOpen']
  /\ state' \in {"READ", "CLOSED", "TIMEOUT", "UNKNOWN"} =>
       Connection' = [st |-> state', sock |-> portOpen']
BY DEF Connection, Serving

(* The port stays open while it is read, and is connecting only while it   *)
(* is waited for.                                                          *)
LEMMA PortStateInPass ==
  ASSUME Inv, PortState, Pass
  PROVE  PortState'
<1> USE TypeGroups DEF Inv, Types, PortTypes
<1>1. CASE \/ StayClosed \/ MeetClose \/ Close \/ ReadClosed \/ TimeoutRuns \/ TimeoutOver
           \/ \E up \in BOOLEAN : Orient(up)
  BY <1>1
  DEF StayClosed, MeetClose, Close, ReadClosed, TimeoutRuns, TimeoutOver, Orient, PortState,
      PortClose, IsOpen, In, portVars, Serving
<1>2. ASSUME NEW s \in PortResult, Open(s)
      PROVE  PortState'
  BY <1>2 DEF Open, PortOpen, PortState, Serving, PortResult, Good, Processing, BadPort
<1>3. ASSUME NEW s \in PortResult, ReadNothing(s) \/ Write(s)
      PROVE  PortState'
  BY <1>3
  DEF ReadNothing, Write, WritePending, WriteFailed, WriteDone, PortTransfer, PortState,
      Serving, In, Good, Processing, BadPort
<1>4. ASSUME NEW q \in Request,
             \/ ReadUnreadable(q) \/ ReadForeign(q) \/ ReadNotCorrect(q) \/ ReadIllegal(q)
             \/ ReadRequest(q)
      PROVE  PortState'
  BY <1>4
  DEF ReadUnreadable, ReadForeign, ReadNotCorrect, ReadIllegal, ReadRequest, Received,
      PortState, Serving, In, portVars
<1>5. CASE BeginWrite \/ \E s \in DeviceResult : ProcessDevice(s)
  BY <1>5 DEF BeginWrite, ProcessDevice, PortState, Serving, In, portVars
<1> QED
  BY <1>1, <1>2, <1>3, <1>4, <1>5 DEF Pass

(* The two ways a pass ends.                                               *)
GoesOn == UNCHANGED <<running, before>> /\ Remaining' \subseteq Remaining
ComesOut == ~running' /\ before' = None /\ Connection' \in Remaining

(* A pass goes on with no more than remained before, or comes out with one *)
(* of the ends that remained.                                              *)
LEMMA PassShrinks ==
  ASSUME Inv, PortState, PortState', Pass
  PROVE  cmdClose' = cmdClose /\ (GoesOn \/ ComesOut)
<1> USE TypeGroups DEF Inv, Types, PortTypes
<1>1. cmdClose' = cmdClose
  BY DEF Pass, StayClosed, MeetClose, Close, ReadClosed, TimeoutRuns, TimeoutOver, Open,
         ReadNothing, Orient, ReadUnreadable, ReadForeign, ReadNotCorrect, ReadIllegal,
         ReadRequest, Received, ProcessDevice, BeginWrite, Write
<1>2. CASE StayClosed
  <2>1. /\ state = "CLOSED" /\ state' = "CLOSED" /\ portOpen' = portOpen /\ cmdClose
        /\ ~running' /\ before' = None
    BY <1>2 DEF StayClosed, In, portVars, ReturnStatus, Returns
  <2> QED
    BY <1>1, <2>1, RemainingOf, ConnectionNext DEF ComesOut, FromClosed, At
<1>3. CASE MeetClose
  <2>1. /\ state \in {"WAIT_FOR_OPEN", "READ"} /\ state' = "WAIT_FOR_CLOSE" /\ cmdClose
        /\ UNCHANGED <<running, before>>
    BY <1>3 DEF MeetClose, MustClose, In, callVars
  <2> QED
    BY <1>1, <2>1, RemainingOf, RemainingNext DEF GoesOn, FromRead
<1>4. CASE Close
  <2>1. /\ state = "WAIT_FOR_CLOSE" /\ state' = "CLOSED" /\ portOpen' = FALSE
        /\ ~running' /\ before' = None
    BY <1>4 DEF Close, PortClose, In, ReturnStatus, Returns
  <2> QED
    BY <1>1, <2>1, RemainingOf, ConnectionNext DEF ComesOut, Closes, At
<1>5. CASE TimeoutRuns
  <2>1. /\ state = "TIMEOUT" /\ state' = "TIMEOUT" /\ portOpen' = portOpen
        /\ ~running' /\ before' = None
    BY <1>5 DEF TimeoutRuns, In, portVars, ReturnStatus, Returns
  <2> QED
    BY <1>1, <2>1, RemainingOf, ConnectionNext DEF ComesOut, At
<1>6. CASE TimeoutOver
  <2>1. /\ state = "TIMEOUT" /\ state' = "UNKNOWN" /\ portOpen' = portOpen
        /\ UNCHANGED <<running, before>>
    BY <1>6 DEF TimeoutOver, In, portVars, callVars
  <2> QED
    BY <1>1, <2>1, RemainingOf, RemainingNext DEF GoesOn
<1>7. ASSUME NEW up \in BOOLEAN, Orient(up)
      PROVE  GoesOn
  <2>1. /\ state = "UNKNOWN" /\ portOpen' = portOpen /\ UNCHANGED <<running, before>>
        /\ \/ state' = "CLOSED"
           \/ state' = "WAIT_FOR_CLOSE" /\ cmdClose /\ portOpen
           \/ state' = "READ" /\ ~cmdClose /\ portOpen
    BY <1>7 DEF Orient, IsOpen, In, portVars, callVars
  <2>2. Remaining = FromUnknown(portOpen, cmdClose)
    BY <2>1, RemainingOf
  <2> QED
    BY <1>1, <2>1, <2>2, RemainingNext DEF GoesOn, FromUnknown, FromRead
<1>8. ASSUME NEW s \in PortResult, Open(s)
      PROVE  GoesOn \/ ComesOut
  <2>1. /\ state \in {"CLOSED", "WAIT_FOR_OPEN"} /\ ~cmdClose /\ PortOpen(s)
        /\ portOpen \in BOOLEAN /\ portOpen' \in BOOLEAN
    BY <1>8 DEF Open, In, PortOpen
  <2>2. Remaining = IF state = "CLOSED" /\ portOpen THEN Reads(TRUE) ELSE Opens
    BY <2>1, RemainingOf DEF FromClosed
  <2>3. state = "CLOSED" /\ portOpen => s = Good
    BY <2>1 DEF PortOpen, PortState
  <2>4. CASE s = Processing /\ state' = "WAIT_FOR_OPEN" /\ ReturnStatus(s)
    <3>1. ~running' /\ before' = None /\ portOpen' = TRUE /\ s # Good
      BY <2>1, <2>4 DEF ReturnStatus, Returns, PortState, Good, Processing
    <3> QED
      BY <2>2, <2>3, <2>4, <3>1, ConnectionNext DEF ComesOut, Opens, At
  <2>5. CASE s = BadPort /\ state' = "TIMEOUT" /\ ReturnStatus(s)
    <3>1. ~running' /\ before' = None /\ s # Good
      BY <2>5 DEF ReturnStatus, Returns, Good, BadPort
    <3> QED
      BY <2>1, <2>2, <2>3, <2>5, <3>1, ConnectionNext DEF ComesOut, Opens, At
  <2>6. CASE s = Good /\ state' = "READ" /\ GoOn(s)
    <3>1. UNCHANGED <<running, before>> /\ portOpen' = TRUE
      BY <2>1, <2>6 DEF GoOn, PortState
    <3>2. Remaining' = Reads(TRUE)
      BY <1>1, <2>1, <2>6, <3>1, RemainingNext DEF FromRead
    <3> QED
      BY <2>2, <3>1, <3>2 DEF GoesOn, Opens
  <2> QED
    BY <1>8, <2>4, <2>5, <2>6 DEF Open
<1>9. ASSUME NEW s \in PortResult, ReadNothing(s)
      PROVE  ComesOut
  <2>1. /\ state = "READ" /\ portOpen = TRUE /\ ~cmdClose /\ ~running' /\ before' = None
        /\ portOpen' \in BOOLEAN
        /\ (state' = "READ" /\ portOpen' = TRUE) \/ state' = "TIMEOUT"
    BY <1>9, StatusValues
    DEF ReadNothing, MustClose, PortTransfer, PortState, In, ReturnStatus, RaiseCompleted,
        Returns
  <2>2. Remaining = Reads(TRUE)
    BY <2>1, RemainingOf DEF FromRead
  <2> QED
    BY <2>1, <2>2, ConnectionNext DEF ComesOut, Reads, At
<1>10. CASE ReadClosed
  <2>1. /\ state = "READ" /\ portOpen = TRUE /\ ~cmdClose /\ ~running' /\ before' = None
        /\ portOpen' \in BOOLEAN /\ state' = "CLOSED"
    BY <1>10 DEF ReadClosed, MustClose, PortState, In, RaiseCompleted, Returns
  <2>2. Remaining = Reads(TRUE)
    BY <2>1, RemainingOf DEF FromRead
  <2> QED
    BY <1>1, <2>1, <2>2, ConnectionNext DEF ComesOut, Reads, At
<1>11. ASSUME NEW q \in Request, ReadUnreadable(q) \/ ReadForeign(q) \/ ReadNotCorrect(q)
       PROVE  ComesOut
  <2>1. /\ state = "READ" /\ portOpen' = TRUE /\ ~cmdClose /\ ~running' /\ before' = None
        /\ state' = "READ" /\ portOpen = TRUE
    BY <1>11
    DEF ReadUnreadable, ReadForeign, ReadNotCorrect, Received, MustClose, PortState, In,
        portVars, ReturnStatus, RaiseErrorCompleted, Returns
  <2>2. Remaining = Reads(TRUE)
    BY <2>1, RemainingOf DEF FromRead
  <2> QED
    BY <2>1, <2>2, ConnectionNext DEF ComesOut, Reads, At
<1>12. ASSUME NEW q \in Request, ReadIllegal(q) \/ ReadRequest(q)
       PROVE  GoesOn
  <2>1. /\ state = "READ" /\ portOpen = TRUE /\ ~cmdClose /\ state' \in Serving
        /\ UNCHANGED <<running, before>>
    BY <1>12
    DEF ReadIllegal, ReadRequest, Received, MustClose, PortState, In, GoOn, Serving
  <2>2. Remaining = Reads(TRUE) /\ Remaining' = Serves
    BY <2>1, RemainingOf, RemainingNext DEF FromRead
  <2> QED
    BY <2>1, <2>2 DEF GoesOn, Reads, Serves
<1>13. ASSUME NEW s \in DeviceResult, ProcessDevice(s)
       PROVE  GoesOn \/ ComesOut
  <2>1. /\ state \in Serving /\ portOpen' = TRUE
        /\ \/ state' \in Serving /\ UNCHANGED <<running, before>>
           \/ state' \in Serving \union {"READ"} /\ ~running' /\ before' = None
    BY <1>13
    DEF ProcessDevice, PortState, In, Serving, portVars, GoOn, ReturnStatus, RaiseCompleted,
        Returns
  <2>2. Remaining = Serves /\ (state' \in Serving => Remaining' = Serves)
    BY <2>1, RemainingOf, RemainingNext
  <2>3. CASE UNCHANGED <<running, before>> /\ state' \in Serving
    BY <2>2, <2>3 DEF GoesOn
  <2>4. CASE state' \in Serving \union {"READ"} /\ ~running' /\ before' = None
    BY <2>1, <2>2, <2>4, ConnectionNext DEF ComesOut, Serves, At
  <2> QED
    BY <2>1, <2>3, <2>4
<1>14. CASE BeginWrite
  <2>1. state \in Serving /\ state' \in Serving /\ UNCHANGED <<running, before>>
    BY <1>14 DEF BeginWrite, In, Serving, callVars
  <2> QED
    BY <1>1, <2>1, RemainingOf, RemainingNext DEF GoesOn
<1>15. ASSUME NEW s \in PortResult, Write(s)
       PROVE  ComesOut
  <2>1. /\ state \in Serving /\ portOpen' \in BOOLEAN /\ ~running' /\ before' = None
        /\ \/ state' \in Serving \union {"READ"} /\ portOpen' = TRUE
           \/ state' = "TIMEOUT"
    BY <1>15
    DEF Write, WritePending, WriteFailed, WriteDone, PortTransfer, PortState, In, Serving,
        ReturnStatus, RaiseCompleted, Returns, Good, Processing, BadPort
  <2>2. Remaining = Serves
    BY <2>1, RemainingOf
  <2> QED
    BY <2>1, <2>2, ConnectionNext DEF ComesOut, Serves, At
<1> QED
  BY <1>1, <1>2, <1>3, <1>4, <1>5, <1>6, <1>7, <1>8, <1>9, <1>10, <1>11, <1>12, <1>13, <1>14,
     <1>15
  DEF Pass

(* One call of process() does to a connection what ServerConnection says,  *)
(* on which the model of the TCP server rests, however many passes it      *)
(* takes.  Settings of the port itself are left alone.                     *)
THEOREM CallsAreStepsAlways ==
  ASSUME "change" \notin Management
  PROVE  Spec => CallsAreSteps
<1>1. Init => PortState /\ Progress
  BY DEF Init, PortState, Progress, Serving
<1>2. ASSUME Inv, PortState, Progress, [Next]_vars
      PROVE  /\ PortState' /\ Progress'
             /\ before # None /\ before' = None
                  => Connection' \in After(before.st, before.sock, cmdClose)
  <2>1. CASE Call
    <3>1. /\ before = None /\ before' = Connection /\ state # "WAIT_FOR_CLOSE"
          /\ UNCHANGED <<portVars, state, cmdClose>>
      BY <1>2, <2>1 DEF Call, Inv, CallState
    <3>2. PortState'
      BY <1>2, <3>1 DEF PortState, portVars
    <3>3. Remaining' = After(before'.st, before'.sock, cmdClose')
      BY <3>1 DEF Remaining, Connection, portVars
    <3> QED
      BY <3>1, <3>2, <3>3 DEF Progress
  <2>2. CASE Manage
    <3>1. ~running /\ ~running' /\ before = None
      BY <1>2, <2>2
      DEF Manage, open, close, setBroadcastEnabled, setUnitMap, setUnitEnabled,
          setUnitMapString, ChangeSettings, Configures, Manages, Inv, CallState, callVars
    <3>2. UNCHANGED <<portVars, state>>
      BY <2>2
      DEF Manage, open, close, setBroadcastEnabled, setUnitMap, setUnitEnabled,
          setUnitMapString, ChangeSettings, Manages
    <3> QED
      BY <1>2, <3>1, <3>2 DEF PortState, Progress, portVars
  <2>3. CASE UNCHANGED vars
    <3>1. UNCHANGED <<portOpen, connecting, changed, state, cmdClose, before, running>>
      BY <2>3 DEF vars, portVars, callVars
    <3> QED
      BY <1>2, <3>1 DEF PortState, Progress, Remaining, Connection
  <2>4. CASE Pass
    <3>1. running
      BY <2>4
      DEF Pass, StayClosed, MeetClose, Close, ReadClosed, TimeoutRuns, TimeoutOver, Open,
          ReadNothing, Orient, ReadUnreadable, ReadForeign, ReadNotCorrect, ReadIllegal,
          ReadRequest, Received, ProcessDevice, BeginWrite, Write, In
    <3>2. PortState'
      BY <1>2, <2>4, PortStateInPass
    <3>3. cmdClose' = cmdClose /\ (GoesOn \/ ComesOut)
      BY <1>2, <2>4, <3>2, PassShrinks
    <3> QED
      BY <1>2, <3>1, <3>2, <3>3 DEF Progress, GoesOn, ComesOut
  <2> QED
    BY <1>2, <2>1, <2>2, <2>3, <2>4 DEF Next
<1>3. Inv /\ PortState /\ Progress /\ [Next]_vars =>
        /\ PortState' /\ Progress'
        /\ [before # None /\ before' = None
              => Connection' \in After(before.st, before.sock, cmdClose)]_vars
  BY <1>2
<1> QED
  BY <1>1, <1>3, Invariance, PTL DEF Spec, CallsAreSteps

-----------------------------------------------------------------------------
(***************************************************************************)
(* The statuses and the text that a call leaves behind.                    *)
(***************************************************************************)

(* While the response to an error is on its way, in the call that met the  *)
(* error, that error is the last one.                                      *)
ErrorPending ==
  state \in {"BEGIN_WRITE", "WRITE"} /\ r \in Bad =>
    r # BadPort /\ lastErrorStatus = r /\ lastErrorText = r /\ ~isLastPortError

Reported == ErrorTextFits /\ ErrorPending

(* A call that returns no error has nothing to show,                       *)
LEMMA ReturnsNoError ==
  ASSUME NEW st, NEW completed, NEW answer, st \notin Bad, Returns(st, completed, answer)
  PROVE  Reported'
BY StatusValues DEF Returns, Reported, ErrorTextFits, ErrorPending

(* one that returns an error has recorded it,                              *)
LEMMA ReturnsError ==
  ASSUME NEW st \in Bad, NEW completed, NEW answer, Returns(st, completed, answer),
         IF st = BadPort THEN SetPortError(st) ELSE SetError(st)
  PROVE  Reported'
<1>1. ret'.st = st /\ lastErrorStatus' = st /\ r' = Good
  BY DEF Returns, SetPortError, SetError
<1>2. IF st = BadPort THEN isLastPortError' ELSE ~isLastPortError' /\ lastErrorText' = st
  BY DEF SetPortError, SetError
<1> QED
  BY <1>1, <1>2, StatusValues DEF Reported, ErrorTextFits, ErrorPending

(* and one that goes on returns nothing yet.                               *)
LEMMA GoesOnReporting ==
  ASSUME CallState, running, UNCHANGED ret, ErrorPending'
  PROVE  Reported'
BY StatusValues DEF CallState, NoReturn, Reported, ErrorTextFits

(* A pass keeps to it, but for a frame that readBuffer refused: its text   *)
(* is not stored (server_status.cfg).                                      *)
LEMMA ReportedInPass ==
  ASSUME Inv, Reported, Pass, \A q \in Request : q.verdict # Unreadable
  PROVE  Reported'
<1> USE DEF Inv
<1>1. CASE StayClosed \/ Close \/ TimeoutRuns \/ ReadClosed
  BY <1>1, ReturnsNoError, StatusValues
  DEF StayClosed, Close, TimeoutRuns, ReadClosed, ReturnStatus, RaiseCompleted, Bad,
      StandardError, Illegal, Gateway, Failure, BadPort, NotCorrect, Device, Uncertain
<1>2. CASE MeetClose \/ TimeoutOver \/ \E up \in BOOLEAN : Orient(up)
  <2>1. /\ running /\ UNCHANGED <<ret, r>>
        /\ state' \in {"WAIT_FOR_CLOSE", "UNKNOWN", "CLOSED", "READ"}
    BY <1>2 DEF MeetClose, TimeoutOver, Orient, In, callVars
  <2> QED
    BY <2>1, GoesOnReporting DEF ErrorPending
<1>3. ASSUME NEW s \in PortResult, Open(s)
      PROVE  Reported'
  <2>1. CASE s = Good
    <3>1. running /\ UNCHANGED ret /\ state' = "READ"
      BY <1>3, <2>1 DEF Open, GoOn, In, Good, Processing, BadPort
    <3> QED
      BY <3>1, GoesOnReporting DEF ErrorPending
  <2>2. CASE s = Processing
    BY <1>3, <2>2, ReturnsNoError, StatusValues
    DEF Open, ReturnStatus, Good, Processing, BadPort
  <2>3. CASE s = BadPort
    BY <1>3, <2>3, ReturnsError, StatusValues
    DEF Open, ReturnStatus, Good, Processing, BadPort
  <2> QED
    BY <2>1, <2>2, <2>3 DEF PortResult
<1>4. ASSUME NEW s \in PortResult, ReadNothing(s)
      PROVE  Reported'
  <2>1. CASE s = Processing
    BY <1>4, <2>1, ReturnsNoError, StatusValues
    DEF ReadNothing, ReturnStatus, Processing, BadPort
  <2>2. CASE s = BadPort
    BY <1>4, <2>2, ReturnsError, StatusValues
    DEF ReadNothing, RaiseCompleted, Processing, BadPort
  <2> QED
    BY <1>4, <2>1, <2>2 DEF ReadNothing
<1>5. ASSUME NEW q \in Request, ReadForeign(q) \/ ReadNotCorrect(q)
      PROVE  Reported'
  <2>1. CASE ReadForeign(q)
    BY <2>1, ReturnsNoError, StatusValues DEF ReadForeign, ReturnStatus
  <2>2. CASE ReadNotCorrect(q)
    BY <2>2, ReturnsError, StatusValues
    DEF ReadNotCorrect, RaiseErrorCompleted, NotCorrect, BadPort
  <2> QED
    BY <1>5, <2>1, <2>2
<1>6. ASSUME NEW q \in Request, ReadIllegal(q)
      PROVE  Reported'
  <2>1. /\ running /\ UNCHANGED ret /\ r' = Illegal
        /\ lastErrorStatus' = Illegal /\ lastErrorText' = Illegal /\ isLastPortError' = FALSE
    BY <1>6 DEF ReadIllegal, Received, SetError, GoOn, In
  <2> QED
    BY <2>1, GoesOnReporting DEF ErrorPending, Illegal, BadPort
<1>7. ASSUME NEW q \in Request, ReadRequest(q)
      PROVE  Reported'
  <2>1. running /\ UNCHANGED ret /\ r' = Good
    BY <1>7 DEF ReadRequest, Received, GoOn, In
  <2> QED
    BY <2>1, GoesOnReporting, StatusValues DEF ErrorPending
<1>8. ASSUME NEW s \in DeviceResult, ProcessDevice(s)
      PROVE  Reported'
  <2>1. running /\ (s \in Bad => SetError(s))
    BY <1>8 DEF ProcessDevice, In
  <2>2. CASE ReturnStatus(s) /\ s = Processing
    BY <2>2, ReturnsNoError, StatusValues DEF ReturnStatus
  <2>3. CASE RaiseCompleted(Good, None)
    BY <2>3, ReturnsNoError, StatusValues DEF RaiseCompleted
  <2>4. CASE GoOn(s)
    <3>1. s # BadPort
      BY DEF DeviceResult, BadPort, Good, Processing, Illegal, Gateway, Device
    <3> QED
      BY <2>1, <2>4, <3>1, GoesOnReporting DEF ErrorPending, SetError, GoOn
  <2> QED
    BY <1>8, <2>2, <2>3, <2>4 DEF ProcessDevice
<1>9. CASE BeginWrite
  <2>1. running /\ UNCHANGED <<ret, r, errorVars>> /\ state = "BEGIN_WRITE"
    BY <1>9 DEF BeginWrite, In, callVars, statusVars, errorVars
  <2> QED
    BY <2>1, GoesOnReporting DEF Reported, ErrorPending, errorVars
<1>10. ASSUME NEW s \in PortResult, Write(s)
       PROVE  Reported'
  <2>1. CASE WritePending
    BY <2>1, ReturnsNoError, StatusValues DEF WritePending, ReturnStatus
  <2>2. CASE WriteFailed
    BY <2>2, ReturnsError, StatusValues DEF WriteFailed, RaiseCompleted
  <2>3. CASE WriteDone /\ r \notin Bad
    BY <2>3, ReturnsNoError DEF WriteDone, RaiseCompleted
  <2>4. CASE WriteDone /\ r \in Bad
    <3>1. ret'.st = r /\ r' = Good /\ UNCHANGED errorVars
      BY <2>4 DEF WriteDone, RaiseCompleted, Returns
    <3>2. state = "WRITE"
      BY <1>10 DEF Write, In
    <3>3. r # BadPort /\ lastErrorStatus = r /\ lastErrorText = r /\ ~isLastPortError
      BY <2>4, <3>2 DEF Reported, ErrorPending
    <3> QED
      BY <3>1, <3>3, StatusValues DEF Reported, ErrorTextFits, ErrorPending, errorVars
  <2> QED
    BY <1>10, <2>1, <2>2, <2>3, <2>4 DEF Write
<1>11. ~ \E q \in Request : ReadUnreadable(q)
  BY DEF ReadUnreadable
<1> QED
  BY <1>1, <1>2, <1>3, <1>4, <1>5, <1>6, <1>7, <1>8, <1>9, <1>10, <1>11 DEF Pass

(* What the application calls leaves all of that alone.                    *)
LEMMA ManageKeepsStatus ==
  Manage => UNCHANGED <<state, statusVars, requestVars, callVars>>
BY DEF Manage, open, close, setBroadcastEnabled, setUnitMap, setUnitEnabled,
       setUnitMapString, ChangeSettings

(* The error that a call returned is the one that lastErrorStatus() tells, *)
(* and the text found for it is its own, whatever requests, device and     *)
(* port do, as long as readBuffer refuses no frame.                        *)
THEOREM ErrorTextFitsAlways ==
  ASSUME \A q \in Request : q.verdict # Unreadable
  PROVE  Spec => []ErrorTextFits
<1>1. Init => Reported
  BY StatusValues DEF Init, NoReturn, Reported, ErrorTextFits, ErrorPending
<1>2. ASSUME Inv, Reported, [Next]_vars
      PROVE  Reported'
  <2>1. CASE Call
    BY <1>2, <2>1, StatusValues
    DEF Call, NoReturn, Reported, ErrorTextFits, ErrorPending, statusVars
  <2>2. CASE Manage \/ UNCHANGED vars
    <3>1. UNCHANGED <<state, r, ret, lastErrorStatus, lastErrorText, isLastPortError>>
      BY <2>2, ManageKeepsStatus DEF vars, callVars, statusVars
    <3> QED
      BY <1>2, <3>1 DEF Reported, ErrorTextFits, ErrorPending
  <2> QED
    BY <1>2, <2>1, <2>2, ReportedInPass DEF Next
<1>3. Inv /\ Reported /\ [Next]_vars => Reported'
  BY <1>2
<1>4. Reported => ErrorTextFits
  BY DEF Reported
<1> QED
  BY <1>1, <1>3, <1>4, Invariance, PTL DEF Spec

-----------------------------------------------------------------------------
(***************************************************************************)
(* What a call returns that sent a response, on a port that blocks: there  *)
(* the response goes out in the call that knows the status of the request. *)
(***************************************************************************)
ReplyOfCall == state = "WRITE" => running /\ (r = Good) = (reply.st = Good)

(* On other ports the rest of a response goes out in a later call, which   *)
(* has forgotten the status (server_refuted.cfg).                          *)
LEMMA ReplyOfCallInPass ==
  ASSUME Blocking, ~Oversize, Inv, ReplyOfCall, Pass
  PROVE  ReplyOfCall'
<1> USE DEF Inv
<1>1. CASE BeginWrite
  <2>1. running /\ UNCHANGED <<running, r>> /\ state = "BEGIN_WRITE"
    BY <1>1 DEF BeginWrite, In, callVars
  <2>2. r \in {Good, Illegal, Device}
    BY <2>1 DEF Served
  <2>3. reply'.st = IF r \in Bad THEN Exception(r) ELSE Good
    BY <1>1, AssembledResponse
  <2>4. r \in Bad => r # Good /\ Exception(r) # Good
    BY StatusValues DEF StandardError, Good, Illegal, Gateway, Failure
  <2>5. r \notin Bad => r = Good
    BY <2>2 DEF Bad, StandardError, Illegal, Device
  <2> QED
    BY <2>1, <2>3, <2>4, <2>5 DEF ReplyOfCall
<1>2. ASSUME NEW s \in PortResult, Write(s)
      PROVE  ReplyOfCall'
  <2>1. s # Processing
    BY <1>2 DEF Write, PortTransfer
  <2>2. state' \in {"TIMEOUT", "READ"}
    BY <1>2, <2>1 DEF Write, WriteFailed, WriteDone
  <2> QED
    BY <2>2 DEF ReplyOfCall
<1>3. ASSUME NEW s \in DeviceResult, ProcessDevice(s)
      PROVE  ReplyOfCall'
  BY <1>3 DEF ProcessDevice, ReplyOfCall, In
<1>4. ASSUME NEW q \in Request,
             \/ ReadUnreadable(q) \/ ReadForeign(q) \/ ReadNotCorrect(q) \/ ReadIllegal(q)
             \/ ReadRequest(q)
      PROVE  ReplyOfCall'
  BY <1>4
  DEF ReadUnreadable, ReadForeign, ReadNotCorrect, ReadIllegal, ReadRequest, Received, In,
      ReplyOfCall
<1>5. CASE \/ StayClosed \/ MeetClose \/ Close \/ ReadClosed \/ TimeoutRuns \/ TimeoutOver
           \/ \E s \in PortResult : Open(s) \/ ReadNothing(s)
           \/ \E up \in BOOLEAN : Orient(up)
  BY <1>5
  DEF StayClosed, MeetClose, Close, ReadClosed, TimeoutRuns, TimeoutOver, Open, ReadNothing,
      Orient, In, ReplyOfCall
<1> QED
  BY <1>1, <1>2, <1>3, <1>4, <1>5 DEF Pass

(* A call that sent an exception returns the error, and one that sent data *)
(* returns Good, on every blocking port whose responses fit.               *)
THEOREM ExceptionReturnedAlways ==
  ASSUME Blocking, ~Oversize
  PROVE  Spec => []ExceptionReturned
<1>1. Init => ReplyOfCall /\ ExceptionReturned
  BY DEF Init, NoReturn, ReplyOfCall, ExceptionReturned
<1>2. ASSUME Inv, ReplyOfCall, ExceptionReturned, [Next]_vars
      PROVE  ReplyOfCall' /\ ExceptionReturned'
  <2>1. CASE Call
    <3>1. ~running /\ ret'.answer = None /\ state' = state
      BY <2>1 DEF Call, NoReturn
    <3> QED
      BY <1>2, <3>1 DEF ReplyOfCall, ExceptionReturned
  <2>2. CASE Manage \/ UNCHANGED vars
    <3>1. UNCHANGED <<state, running, r, reply, ret>>
      BY <2>2, ManageKeepsStatus DEF vars, callVars, requestVars
    <3> QED
      BY <1>2, <3>1 DEF ReplyOfCall, ExceptionReturned
  <2>3. CASE Pass
    <3>1. ReplyOfCall'
      BY <1>2, <2>3, ReplyOfCallInPass
    <3>2. CASE ret'.answer = None
      BY <3>1, <3>2 DEF ExceptionReturned
    <3>3. CASE ret'.answer # None
      <4>1. running => ret.answer = None
        BY <1>2 DEF Inv, CallState, NoReturn
      <4>2. WriteDone /\ state = "WRITE"
        BY <2>3, <3>3, <4>1
        DEF Pass, StayClosed, MeetClose, Close, ReadClosed, TimeoutRuns, TimeoutOver, Open,
            ReadNothing, Orient, ReadUnreadable, ReadForeign, ReadNotCorrect, ReadIllegal,
            ReadRequest, Received, ProcessDevice, BeginWrite, Write, WritePending,
            WriteFailed, GoOn, In, callVars, ReturnStatus, RaiseCompleted,
            RaiseErrorCompleted, Returns
      <4>3. ret'.st = r /\ ret'.answer = reply
        BY <4>2 DEF WriteDone, RaiseCompleted, Returns
      <4> QED
        BY <1>2, <3>1, <4>2, <4>3 DEF ReplyOfCall, ExceptionReturned
    <3> QED
      BY <3>2, <3>3
  <2> QED
    BY <1>2, <2>1, <2>2, <2>3 DEF Next
<1>3. Inv /\ ReplyOfCall /\ ExceptionReturned /\ [Next]_vars
        => ReplyOfCall' /\ ExceptionReturned'
  BY <1>2
<1> QED
  BY <1>1, <1>3, Invariance, PTL DEF Spec

-----------------------------------------------------------------------------
(***************************************************************************)
(* The text of a unit map.  The loops of unitMapToString are functions of  *)
(* the counter that call themselves with a larger one.  For each there is  *)
(* a function said outright that solves its equation, so that the loop is  *)
(* a solution as well; and all solutions are equal, for the last counter   *)
(* at which two of them differ does not exist.                             *)
(***************************************************************************)

(* What may be counted has a least member.                                 *)
LEMMA Least == \A T \in SUBSET Nat : T # {} => \E m \in T : \A k \in T : m <= k
<1> SUFFICES ASSUME NEW T \in SUBSET Nat, T # {}
             PROVE  \E m \in T : \A k \in T : m <= k
  OBVIOUS
<1>1. PICK m \in T : \A k \in T : ~(<<k, m>> \in OpToRel(<, Nat))
  BY WFMin, NatLessThanWellFounded
<1>2. \A k \in T : ~(k < m)
  BY <1>1 DEF OpToRel
<1> QED
  BY <1>2

(* ... and what is limited has a greatest.                                 *)
LEMMA Greatest ==
  ASSUME NEW limit \in Nat, NEW T \in SUBSET (0..limit), T # {}
  PROVE  \E m \in T : \A k \in T : k <= m
<1> DEFINE Mirror == {k \in Nat : limit - k \in T}
<1>1. PICK k \in T : TRUE
  OBVIOUS
<1>2. limit - k \in Mirror
  OBVIOUS
<1>3. PICK m \in Mirror : \A n \in Mirror : m <= n
  BY <1>2, Least
<1>4. limit - m \in T
  BY <1>3
<1>5. ASSUME NEW n \in T
      PROVE  n <= limit - m
  <2>1. n \in 0..limit /\ limit - n \in Nat /\ limit - (limit - n) = n
    OBVIOUS
  <2>2. limit - n \in Mirror
    BY <2>1
  <2>3. m <= limit - n /\ m \in Nat
    BY <1>3, <2>2
  <2> QED
    BY <2>1, <2>3
<1> QED
  BY <1>4, <1>5

(* The first unit from u on that is off; one past the last unit is.        *)
Gap(map, u) == CHOOSE n \in u..LastUnit + 1 : n \notin map /\ u..n - 1 \subseteq map

LEMMA GapFrom ==
  ASSUME NEW map \in SUBSET Units, NEW u \in 0..LastUnit + 1
  PROVE  /\ Gap(map, u) \in u..LastUnit + 1
         /\ Gap(map, u) \notin map
         /\ u..Gap(map, u) - 1 \subseteq map
<1> DEFINE Off == {k \in Nat : u <= k /\ k \notin map}
<1>1. LastUnit + 1 \in Off
  BY ServerAssumption DEF Units
<1>2. PICK n \in Off : \A k \in Off : n <= k
  BY <1>1, Least
<1>3. n \in u..LastUnit + 1
  BY <1>1, <1>2, ServerAssumption
<1>4. u..n - 1 \subseteq map
  <2> SUFFICES ASSUME NEW k \in u..n - 1
               PROVE  k \in map
    OBVIOUS
  <2> QED
    BY <1>2
<1>5. \E m \in u..LastUnit + 1 : m \notin map /\ u..m - 1 \subseteq map
  BY <1>2, <1>3, <1>4
<1> QED
  BY <1>5 DEF Gap

(* Nothing else is one.                                                    *)
LEMMA GapIsOne ==
  ASSUME NEW map \in SUBSET Units, NEW u \in 0..LastUnit + 1,
         NEW n \in u..LastUnit + 1, n \notin map, u..n - 1 \subseteq map
  PROVE  n = Gap(map, u)
<1> DEFINE m == Gap(map, u)
<1>1. m \in u..LastUnit + 1 /\ m \notin map /\ u..m - 1 \subseteq map
  BY GapFrom
<1> HIDE DEF m
<1>2. LastUnit \in Nat
  BY ServerAssumption
<1>3. ~(n < m)
  BY <1>1, <1>2
<1>4. ~(m < n)
  BY <1>1, <1>2
<1>5. m = n
  BY <1>1, <1>2, <1>3, <1>4
<1> QED
  BY <1>5 DEF m

(* A unit that is on has the gap of the next, one that is off is one.      *)
LEMMA GapStep ==
  ASSUME NEW map \in SUBSET Units, NEW u \in 0..LastUnit + 1
  PROVE  Gap(map, u) = IF u \in map THEN Gap(map, u + 1) ELSE u
<1>1. LastUnit \in Nat
  BY ServerAssumption
<1>2. CASE u \in map
  <2>1. u <= LastUnit /\ u + 1 \in 0..LastUnit + 1
    BY <1>1, <1>2 DEF Units
  <2> DEFINE n == Gap(map, u + 1)
  <2>2. n \in u + 1..LastUnit + 1 /\ n \notin map /\ u + 1..n - 1 \subseteq map
    BY <2>1, GapFrom
  <2> HIDE DEF n
  <2>3. n \in u..LastUnit + 1 /\ u..n - 1 \subseteq map
    BY <1>1, <1>2, <2>2
  <2>4. n = Gap(map, u)
    BY <2>2, <2>3, GapIsOne
  <2> QED
    BY <1>2, <2>4 DEF n
<1>3. CASE u \notin map
  <2>1. u \in u..LastUnit + 1 /\ u..u - 1 \subseteq map
    BY <1>1
  <2> QED
    BY <1>3, <2>1, GapIsOne
<1> QED
  BY <1>2, <1>3

(* The inner loop solves the equation by which it is defined, for the      *)
(* first gap does.                                                         *)
LEMMA EndOfRunEquation ==
  ASSUME NEW map \in SUBSET Units, NEW beyond \in BOOLEAN
  PROVE  EndOfRun(map, beyond) =
           [unit \in 0..LastUnit + 1 |->
              IF Bit(map, beyond, unit) /\ unit <= LastUnit
              THEN EndOfRun(map, beyond)[unit + 1] ELSE unit]
<1> DEFINE Solves(f) ==
             f = [unit \in 0..LastUnit + 1 |->
                    IF Bit(map, beyond, unit) /\ unit <= LastUnit THEN f[unit + 1] ELSE unit]
           gaps == [unit \in 0..LastUnit + 1 |-> Gap(map, unit)]
<1>1. Solves(gaps)
  <2> SUFFICES ASSUME NEW unit \in 0..LastUnit + 1
               PROVE  gaps[unit] = IF Bit(map, beyond, unit) /\ unit <= LastUnit
                                   THEN gaps[unit + 1] ELSE unit
    OBVIOUS
  <2>1. (Bit(map, beyond, unit) /\ unit <= LastUnit) = (unit \in map)
    BY ServerAssumption DEF Bit, Units
  <2>2. unit \in map => unit + 1 \in 0..LastUnit + 1
    BY ServerAssumption DEF Units
  <2> QED
    BY <2>1, <2>2, GapStep
<1>2. EndOfRun(map, beyond) = CHOOSE f : Solves(f)
  BY DEF EndOfRun
<1> HIDE DEF Solves, gaps
<1>3. Solves(EndOfRun(map, beyond))
  BY <1>1, <1>2
<1> QED
  BY <1>3 DEF Solves

(* So it stops at the first unit that is off, whatever lies behind the map. *)
LEMMA EndOfRunIsGap ==
  ASSUME NEW map \in SUBSET Units, NEW beyond \in BOOLEAN, NEW u \in 0..LastUnit + 1
  PROVE  EndOfRun(map, beyond)[u] = Gap(map, u)
<1> DEFINE stop == EndOfRun(map, beyond)
           Wrong == {k \in 0..LastUnit + 1 : stop[k] # Gap(map, k)}
<1>1. LastUnit \in Nat
  BY ServerAssumption
<1>2. \A k \in 0..LastUnit + 1 :
        stop[k] = IF Bit(map, beyond, k) /\ k <= LastUnit THEN stop[k + 1] ELSE k
  <2> HIDE DEF stop
  <2>1. stop = [unit \in 0..LastUnit + 1 |->
                  IF Bit(map, beyond, unit) /\ unit <= LastUnit THEN stop[unit + 1] ELSE unit]
    BY EndOfRunEquation DEF stop
  <2> QED
    BY <2>1
<1>3. SUFFICES ASSUME stop[u] # Gap(map, u)
               PROVE  FALSE
  OBVIOUS
<1> HIDE DEF stop
<1>4. PICK k \in Wrong : \A n \in Wrong : n <= k
  <2>1. Wrong # {} /\ Wrong \subseteq 0..LastUnit + 1
    BY <1>3
  <2>2. LastUnit + 1 \in Nat
    BY <1>1
  <2> HIDE DEF Wrong
  <2> QED
    BY <2>1, <2>2, Greatest
<1>5. k \in 0..LastUnit + 1 /\ stop[k] # Gap(map, k)
  BY <1>4
<1>6. (Bit(map, beyond, k) /\ k <= LastUnit) = (k \in map)
  BY <1>1, <1>5 DEF Bit, Units
<1>7. CASE k \in map
  <2>1. k + 1 \in 0..LastUnit + 1 /\ ~(k + 1 <= k)
    BY <1>1, <1>7 DEF Units
  <2>2. k + 1 \notin Wrong
    BY <1>4, <2>1
  <2>3. stop[k + 1] = Gap(map, k + 1)
    BY <2>1, <2>2
  <2> QED
    BY <1>2, <1>5, <1>6, <1>7, <2>3, GapStep
<1>8. CASE k \notin map
  BY <1>2, <1>5, <1>6, <1>8, GapStep
<1> QED
  BY <1>7, <1>8

(* What is left of a map from a unit on.                                   *)
Rest(map, u) == {k \in map : k >= u}

(* The less, the later it begins.                                          *)
LEMMA RestShrinks ==
  ASSUME NEW map \in SUBSET Units, NEW u \in Nat, NEW v \in Nat, u <= v
  PROVE  Rest(map, v) \subseteq Rest(map, u)
<1> SUFFICES ASSUME NEW k \in Rest(map, v)
             PROVE  k \in Rest(map, u)
  OBVIOUS
<1>1. k \in map /\ k >= v /\ k \in Int
  BY ServerAssumption DEF Rest, Units
<1>2. k >= u
  BY <1>1
<1> QED
  BY <1>1, <1>2 DEF Rest

LEMMA RunsAfterGap ==
  ASSUME NEW map \in SUBSET Units, NEW u \in Nat, u \notin map
  PROVE  Runs(Rest(map, u)) = Runs(Rest(map, u + 1))
<1>1. Rest(map, u + 1) \subseteq Rest(map, u)
  BY RestShrinks
<1>2. ASSUME NEW k \in Rest(map, u)
      PROVE  k \in Rest(map, u + 1)
  <2>1. k \in map /\ k >= u /\ k \in Int /\ k # u
    BY ServerAssumption DEF Rest, Units
  <2>2. k >= u + 1
    BY <2>1
  <2> QED
    BY <2>1, <2>2 DEF Rest
<1>3. Rest(map, u) = Rest(map, u + 1)
  BY <1>1, <1>2
<1> QED
  BY <1>3

LEMMA NoRunsBehind ==
  ASSUME NEW map \in SUBSET Units, NEW u \in Nat, u > LastUnit
  PROVE  Runs(Rest(map, u)) = {}
<1>1. \A k \in map : ~(k >= u)
  BY ServerAssumption DEF Units
<1>2. Rest(map, u) = {}
  BY <1>1 DEF Rest
<1> QED
  BY <1>2 DEF Runs

(* A run that begins here, and those behind the gap that ends it.          *)
LEMMA RunsFromRun ==
  ASSUME NEW map \in SUBSET Units, NEW u \in map
  PROVE  Runs(Rest(map, u)) =
           {[first |-> u, last |-> Gap(map, u + 1) - 1]} \union
           Runs(Rest(map, Gap(map, u + 1) + 1))
<1> DEFINE n == Gap(map, u + 1)
           run == [first |-> u, last |-> n - 1]
<1>1. LastUnit \in Nat /\ u \in 0..LastUnit
  BY ServerAssumption DEF Units
<1>2. map \subseteq Nat
  BY <1>1 DEF Units
<1>3. n \in u + 1..LastUnit + 1 /\ n \notin map /\ u + 1..n - 1 \subseteq map
  <2>1. u + 1 \in 0..LastUnit + 1
    BY <1>1
  <2> QED
    BY <2>1, GapFrom
<1> HIDE DEF n
<1>4. u..n - 1 \subseteq map /\ n - 1 \in map
  BY <1>1, <1>3
<1>5. run \in Runs(Rest(map, u))
  <2>1. u \in Rest(map, u) /\ u - 1 \notin Rest(map, u)
    BY <1>1 DEF Rest
  <2>2. n - 1 \in Rest(map, u) /\ n \notin Rest(map, u) /\ (n - 1) + 1 = n
    BY <1>1, <1>3, <1>4 DEF Rest
  <2>3. u <= n - 1 /\ u..n - 1 \subseteq Rest(map, u)
    BY <1>1, <1>3, <1>4 DEF Rest
  <2> QED
    BY <2>1, <2>2, <2>3 DEF Runs
<1>6. ASSUME NEW p \in Runs(Rest(map, n + 1))
      PROVE  p \in Runs(Rest(map, u))
  <2> DEFINE behind == Rest(map, n + 1)
             all == Rest(map, u)
  <2>1. /\ p \in [first : behind, last : behind]
        /\ p.first - 1 \notin behind /\ p.last + 1 \notin behind
        /\ p.first <= p.last /\ p.first..p.last \subseteq behind
    BY <1>6 DEF Runs
  <2>2. behind \subseteq all
    BY <1>1, <1>3, RestShrinks
  <2>3. /\ p.first \in map /\ p.first >= n + 1 /\ p.first \in Nat
        /\ p.last \in map /\ p.last >= n + 1 /\ p.last \in Nat
    BY <1>2, <2>1 DEF Rest
  <2>4. p.first - 1 \notin all
    BY <1>1, <1>3, <2>1, <2>3 DEF Rest
  <2>5. p.last + 1 \notin all
    BY <1>1, <1>3, <2>1, <2>3 DEF Rest
  <2> QED
    BY <2>1, <2>2, <2>4, <2>5 DEF Runs
<1>7. ASSUME NEW p \in Runs(Rest(map, u)), p # run
      PROVE  p \in Runs(Rest(map, n + 1))
  <2> DEFINE behind == Rest(map, n + 1)
             all == Rest(map, u)
  <2>1. /\ p \in [first : all, last : all]
        /\ p.first - 1 \notin all /\ p.last + 1 \notin all
        /\ p.first <= p.last /\ p.first..p.last \subseteq all
    BY <1>7 DEF Runs
  <2>2. /\ p.first \in map /\ p.first >= u /\ p.first \in Nat
        /\ p.last \in map /\ p.last >= u /\ p.last \in Nat
    BY <1>2, <2>1 DEF Rest
  <2>3. ASSUME p.first < n
        PROVE  FALSE
    <3>1. p.first = u
      <4> SUFFICES ASSUME p.first # u
                   PROVE  FALSE
        OBVIOUS
      <4>1. p.first - 1 \in u..n - 1
        BY <1>1, <1>3, <2>2, <2>3
      <4>2. p.first - 1 \in all
        BY <1>1, <1>4, <4>1 DEF Rest
      <4> QED
        BY <2>1, <4>2
    <3>2. p.last < n
      <4> SUFFICES ASSUME p.last >= n
                   PROVE  FALSE
        BY <1>1, <1>3, <2>2
      <4>1. n \in p.first..p.last
        BY <1>1, <1>3, <2>2, <2>3
      <4>2. n \in all
        BY <2>1, <4>1
      <4> QED
        BY <1>3, <4>2 DEF Rest
    <3>3. p.last = n - 1
      <4> SUFFICES ASSUME p.last # n - 1
                   PROVE  FALSE
        OBVIOUS
      <4>1. p.last + 1 \in u..n - 1
        BY <1>1, <1>3, <2>2, <3>2
      <4>2. p.last + 1 \in all
        BY <1>1, <1>4, <4>1 DEF Rest
      <4> QED
        BY <2>1, <4>2
    <3>4. p = [first |-> p.first, last |-> p.last]
      BY <2>1
    <3> QED
      BY <1>7, <3>1, <3>3, <3>4
  <2>4. p.first >= n + 1
    BY <1>1, <1>3, <2>2, <2>3
  <2>5. behind \subseteq all
    BY <1>1, <1>3, RestShrinks
  <2>6. p.first..p.last \subseteq behind
    BY <1>1, <1>3, <2>1, <2>2, <2>4 DEF Rest
  <2>7. p.first \in behind /\ p.last \in behind
    BY <1>1, <1>3, <2>1, <2>2, <2>4 DEF Rest
  <2> QED
    BY <2>1, <2>5, <2>6, <2>7 DEF Runs
<1> QED
  BY <1>5, <1>6, <1>7 DEF n

(* The outer loop as well, for the runs of the rest do.                    *)
LEMMA PartsEquation ==
  ASSUME NEW map \in SUBSET Units, NEW beyond \in BOOLEAN
  PROVE  Parts(map, beyond) =
           [unit \in 0..LastUnit + 2 |->
              IF unit > LastUnit THEN {}
              ELSE IF ~Bit(map, beyond, unit) THEN Parts(map, beyond)[unit + 1]
              ELSE {[first |-> unit, last |-> EndOfRun(map, beyond)[unit + 1] - 1]} \union
                   Parts(map, beyond)[EndOfRun(map, beyond)[unit + 1] + 1]]
<1> DEFINE stop == EndOfRun(map, beyond)
           Solves(f) ==
             f = [unit \in 0..LastUnit + 2 |->
                    IF unit > LastUnit THEN {}
                    ELSE IF ~Bit(map, beyond, unit) THEN f[unit + 1]
                    ELSE {[first |-> unit, last |-> stop[unit + 1] - 1]} \union
                         f[stop[unit + 1] + 1]]
           runs == [unit \in 0..LastUnit + 2 |-> Runs(Rest(map, unit))]
<1>1. Parts(map, beyond) = CHOOSE f : Solves(f)
  BY DEF Parts
<1>2. \A u \in 0..LastUnit + 1 : stop[u] = Gap(map, u)
  BY EndOfRunIsGap
<1> HIDE DEF stop
<1>3. Solves(runs)
  <2> SUFFICES ASSUME NEW unit \in 0..LastUnit + 2
               PROVE  runs[unit] =
                        IF unit > LastUnit THEN {}
                        ELSE IF ~Bit(map, beyond, unit) THEN runs[unit + 1]
                        ELSE {[first |-> unit, last |-> stop[unit + 1] - 1]} \union
                             runs[stop[unit + 1] + 1]
    OBVIOUS
  <2>1. LastUnit \in Nat
    BY ServerAssumption
  <2>2. CASE unit > LastUnit
    BY <2>1, <2>2, NoRunsBehind
  <2>3. CASE unit <= LastUnit /\ unit \notin map
    <3>1. ~(unit > LastUnit) /\ ~Bit(map, beyond, unit) /\ unit + 1 \in 0..LastUnit + 2
      BY <2>1, <2>3 DEF Bit, Units
    <3>2. Runs(Rest(map, unit)) = Runs(Rest(map, unit + 1))
      BY <2>1, <2>3, RunsAfterGap
    <3> QED
      BY <3>1, <3>2
  <2>4. CASE unit <= LastUnit /\ unit \in map
    <3>1. ~(unit > LastUnit) /\ Bit(map, beyond, unit) /\ unit + 1 \in 0..LastUnit + 1
      BY <2>1, <2>4 DEF Bit, Units
    <3>2. stop[unit + 1] = Gap(map, unit + 1)
      BY <1>2, <3>1
    <3>3. Gap(map, unit + 1) \in 0..LastUnit + 1
      <4> DEFINE n == Gap(map, unit + 1)
      <4>1. n \in unit + 1..LastUnit + 1
        BY <3>1, GapFrom
      <4> HIDE DEF n
      <4>2. n \in 0..LastUnit + 1
        BY <2>1, <4>1
      <4> QED
        BY <4>2 DEF n
    <3>4. Gap(map, unit + 1) + 1 \in 0..LastUnit + 2
      BY <2>1, <3>3
    <3>5. runs[Gap(map, unit + 1) + 1] = Runs(Rest(map, Gap(map, unit + 1) + 1))
      BY <3>4
    <3>6. runs[unit] = Runs(Rest(map, unit))
      OBVIOUS
    <3> HIDE DEF runs
    <3> QED
      BY <2>4, <3>1, <3>2, <3>5, <3>6, RunsFromRun
  <2> QED
    BY <2>1, <2>2, <2>3, <2>4
<1> HIDE DEF Solves, runs
<1>4. Solves(Parts(map, beyond))
  BY <1>1, <1>3
<1> QED
  BY <1>4 DEF Solves, stop

(* So it tells the runs of the rest.                                       *)
LEMMA PartsAreRuns ==
  ASSUME NEW map \in SUBSET Units, NEW beyond \in BOOLEAN, NEW u \in 0..LastUnit + 2
  PROVE  Parts(map, beyond)[u] = Runs(Rest(map, u))
<1> DEFINE parts == Parts(map, beyond)
           stop == EndOfRun(map, beyond)
           Wrong == {k \in 0..LastUnit + 2 : parts[k] # Runs(Rest(map, k))}
<1>1. LastUnit \in Nat
  BY ServerAssumption
<1>2. \A k \in 0..LastUnit + 2 :
        parts[k] = IF k > LastUnit THEN {}
                   ELSE IF ~Bit(map, beyond, k) THEN parts[k + 1]
                   ELSE {[first |-> k, last |-> stop[k + 1] - 1]} \union parts[stop[k + 1] + 1]
  <2> HIDE DEF parts, stop
  <2>1. parts = [unit \in 0..LastUnit + 2 |->
                   IF unit > LastUnit THEN {}
                   ELSE IF ~Bit(map, beyond, unit) THEN parts[unit + 1]
                   ELSE {[first |-> unit, last |-> stop[unit + 1] - 1]} \union
                        parts[stop[unit + 1] + 1]]
    BY PartsEquation DEF parts, stop
  <2> QED
    BY <2>1
<1>3. \A k \in 0..LastUnit + 1 : stop[k] = Gap(map, k)
  BY EndOfRunIsGap
<1>4. SUFFICES ASSUME parts[u] # Runs(Rest(map, u))
               PROVE  FALSE
  OBVIOUS
<1> HIDE DEF parts, stop
<1>5. PICK k \in Wrong : \A n \in Wrong : n <= k
  <2>1. Wrong # {} /\ Wrong \subseteq 0..LastUnit + 2
    BY <1>4
  <2>2. LastUnit + 2 \in Nat
    BY <1>1
  <2> HIDE DEF Wrong
  <2> QED
    BY <2>1, <2>2, Greatest
<1>6. k \in 0..LastUnit + 2 /\ parts[k] # Runs(Rest(map, k))
  BY <1>5
<1>7. \A n \in 0..LastUnit + 2 : n > k => parts[n] = Runs(Rest(map, n))
  BY <1>1, <1>5, <1>6
<1> HIDE DEF Wrong
<1>8. k <= LastUnit
  <2> SUFFICES ASSUME k > LastUnit
               PROVE  FALSE
    BY <1>1, <1>6
  <2>1. k \in Nat
    BY <1>1, <1>6
  <2>2. parts[k] = {}
    BY <1>2, <1>6
  <2>3. Runs(Rest(map, k)) = {}
    BY <2>1, NoRunsBehind
  <2> QED
    BY <1>6, <2>2, <2>3
<1>9. CASE k \notin map
  <2>1. ~(k > LastUnit) /\ ~Bit(map, beyond, k) /\ k + 1 \in 0..LastUnit + 2 /\ k + 1 > k
    BY <1>1, <1>6, <1>8, <1>9 DEF Bit, Units
  <2>2. Runs(Rest(map, k)) = Runs(Rest(map, k + 1))
    BY <1>6, <1>9, RunsAfterGap
  <2> QED
    BY <1>2, <1>6, <1>7, <2>1, <2>2
<1>10. CASE k \in map
  <2> DEFINE n == Gap(map, k + 1)
  <2>1. ~(k > LastUnit) /\ Bit(map, beyond, k) /\ k + 1 \in 0..LastUnit + 1
    BY <1>1, <1>6, <1>8, <1>10 DEF Bit, Units
  <2>2. n \in k + 1..LastUnit + 1
    BY <2>1, GapFrom
  <2>3. Runs(Rest(map, k)) = {[first |-> k, last |-> n - 1]} \union Runs(Rest(map, n + 1))
    BY <1>10, RunsFromRun
  <2>4. stop[k + 1] = n
    BY <1>3, <2>1
  <2> HIDE DEF n
  <2>5. n + 1 \in 0..LastUnit + 2 /\ n + 1 > k
    BY <1>1, <1>6, <2>2
  <2>6. parts[n + 1] = Runs(Rest(map, n + 1))
    BY <1>7, <2>5
  <2>7. parts[k] = {[first |-> k, last |-> stop[k + 1] - 1]} \union parts[stop[k + 1] + 1]
    BY <1>2, <1>6, <2>1
  <2> QED
    BY <1>6, <2>3, <2>4, <2>6, <2>7
<1> QED
  BY <1>9, <1>10

LEMMA TextIsRuns ==
  ASSUME NEW map \in SUBSET Units, NEW beyond \in BOOLEAN
  PROVE  unitMapToString(map, beyond) = Runs(map)
<1>1. 0 \in 0..LastUnit + 2
  BY ServerAssumption
<1>2. Rest(map, 0) = map
  <2>1. \A k \in map : k >= 0
    BY ServerAssumption DEF Units
  <2> QED
    BY <2>1, Zenon DEF Rest
<1> QED
  BY <1>1, <1>2, PartsAreRuns DEF unitMapToString

(* Each unit of a map is in a run of it.                                   *)
LEMMA RunOfUnit ==
  ASSUME NEW map \in SUBSET Units, NEW u \in map
  PROVE  \E p \in Runs(map) : u \in p.first..p.last
<1> DEFINE Reaching == {k \in Nat : k <= u /\ k..u \subseteq map}
           n == Gap(map, u)
<1>1. LastUnit \in Nat /\ map \subseteq Nat /\ u \in 0..LastUnit + 1
  BY ServerAssumption DEF Units
<1>2. PICK m \in Reaching : \A k \in Reaching : m <= k
  <2>1. u \in Reaching
    BY <1>1
  <2> QED
    BY <2>1, Least
<1>3. n \in u..LastUnit + 1 /\ n \notin map /\ u..n - 1 \subseteq map
  BY <1>1, GapFrom
<1> HIDE DEF n
<1>4. m \in Nat /\ m <= u /\ u < n
  BY <1>1, <1>2, <1>3
<1>5. m..n - 1 \subseteq map
  <2> SUFFICES ASSUME NEW k \in m..n - 1
               PROVE  k \in map
    OBVIOUS
  <2>1. CASE k <= u
    BY <1>1, <1>2, <1>3, <1>4, <2>1
  <2>2. CASE u < k
    BY <1>1, <1>3, <1>4, <2>2
  <2> QED
    BY <1>1, <1>3, <1>4, <2>1, <2>2
<1>6. m - 1 \notin map
  <2> SUFFICES ASSUME m - 1 \in map
               PROVE  FALSE
    OBVIOUS
  <2>1. m - 1 \in Nat /\ m - 1 <= u
    BY <1>1, <1>4
  <2>2. (m - 1)..u \subseteq map
    BY <1>1, <1>2, <1>4
  <2> QED
    BY <1>2, <1>4, <2>1, <2>2
<1> DEFINE p == [first |-> m, last |-> n - 1]
<1>7. p \in Runs(map)
  <2>1. m \in map /\ n - 1 \in map /\ (n - 1) + 1 = n /\ m <= n - 1
    BY <1>1, <1>3, <1>4, <1>5
  <2> QED
    BY <1>3, <1>5, <1>6, <2>1 DEF Runs
<1>8. u \in p.first..p.last
  BY <1>1, <1>3, <1>4
<1> QED
  BY <1>7, <1>8

(* The runs of a map, read as a text, are the map.                         *)
LEMMA RunsOfMap ==
  ASSUME NEW map \in SUBSET Units
  PROVE  fillUnitMap(Runs(map)) = map
<1>1. LastUnit \in Nat
  BY ServerAssumption
<1>2. \A p \in Runs(map) :
        /\ p \in Part
        /\ ~(p.first > p.last)
        /\ ~(p.last > LastUnit)
        /\ p.first..p.last \subseteq map
  <2> SUFFICES ASSUME NEW p \in Runs(map)
               PROVE  /\ p \in Part
                      /\ ~(p.first > p.last)
                      /\ ~(p.last > LastUnit)
                      /\ p.first..p.last \subseteq map
    OBVIOUS
  <2>1. /\ p \in [first : map, last : map]
        /\ p.first <= p.last /\ p.first..p.last \subseteq map
    BY DEF Runs
  <2>2. p \in Part
    BY <2>1 DEF Part
  <2>3. p.first \in 0..LastUnit /\ p.last \in 0..LastUnit
    BY <2>2 DEF Part, Units
  <2> QED
    BY <1>1, <2>1, <2>2, <2>3
<1>3. None \notin Runs(map)
  BY <1>2, ServerAssumption
<1>4. UNION {p.first..p.last : p \in Runs(map)} = map
  BY <1>2, RunOfUnit
<1> QED
  BY <1>2, <1>3, <1>4 DEF fillUnitMap

(* unitMapString tells every map with a unit as its runs, and              *)
(* setUnitMapString makes the same map of them, for maps of any number of  *)
(* units and whatever lies in memory behind them; of the map without a     *)
(* unit they do not (server_maptext.cfg).                                  *)
THEOREM TextKeepsUnitsAlways == Spec => []TextKeepsUnits
<1>1. Inv => TextKeepsUnits
  BY TextIsRuns, RunsOfMap DEF Inv, TypeOK, TextKeepsUnits
<1> QED
  BY <1>1, Invariance, PTL
=============================================================================
