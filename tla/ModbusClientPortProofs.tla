---------------------- MODULE ModbusClientPortProofs ----------------------
(* Theorems about the client engine, for any clients and requests.         *)
EXTENDS ModbusClientPort, TLAPS

(***************************************************************************)
(* The inductive invariant.                                                *)
(***************************************************************************)

(* A call runs on a blocked buffer, on behalf of the owner of the port,    *)
(* and has nothing to report yet.                                          *)
CallInProgress ==
  call # None => block /\ currentClient = call.client /\ ret.st = Processing

(* An answer is only waited for when a frame is out, on the connection it  *)
(* was written to.                                                         *)
ReadAfterWrite == state = "READ" => block /\ (portOpen => sent)

Ownership ==
  CallInProgress /\ OwnerHasFilledBuffer /\ OwnerPolls /\ BlockingReleases

Results == GoodWasSent /\ StatusReported

Inv == TypeOK /\ Ownership /\ ReadAfterWrite /\ RetryBookkeeping /\ Results

-----------------------------------------------------------------------------
(***************************************************************************)
(* The types, in groups that an action changes together.                   *)
(***************************************************************************)
PortTypes ==
  /\ portOpen \in BOOLEAN
  /\ connecting \in BOOLEAN
  /\ changed \in BOOLEAN
  /\ announced \in {"closed", "opened", "reopened"}

EngineTypes ==
  /\ state \in State
  /\ block \in BOOLEAN
  /\ unit \in Nat
  /\ repeats \in Nat
  /\ lastTries \in Nat
  /\ tries \in 1..MaxTries
  /\ broadcastEnabled \in BOOLEAN
  /\ autoIncrement \in BOOLEAN

StatusTypes ==
  /\ lastStatus \in Status
  /\ lastErrorStatus \in Status
  /\ isLastPortError \in BOOLEAN

CallTypes ==
  /\ currentClient \in Client \union {None}
  /\ call \in Issue \union {None}
  /\ want \in [Client -> Request \union {None}]

FrameTypes == written \in Issue \union {None} /\ sent \in BOOLEAN

LEMMA TypeGroups ==
  TypeOK <=> /\ PortTypes /\ EngineTypes /\ StatusTypes /\ CallTypes
             /\ FrameTypes /\ ret \in Return
BY DEF TypeOK, PortTypes, EngineTypes, StatusTypes, CallTypes, FrameTypes

LEMMA TypeGroupsNext ==
  (PortTypes /\ EngineTypes /\ StatusTypes /\ CallTypes
             /\ FrameTypes /\ ret \in Return)' => TypeOK'
BY DEF TypeOK, PortTypes, EngineTypes, StatusTypes, CallTypes, FrameTypes

LEMMA StatusValues ==
  /\ Bad \subseteq Status
  /\ Good \in Status /\ Processing \in Status /\ Uncertain \in Status
  /\ Good \notin Bad /\ Processing \notin Bad /\ Good # Processing
  /\ BadPort \in Bad /\ BadPortClosed \in Bad /\ BadRequest \in Bad
  /\ BadResponse \in Bad
BY DEF Status, Bad, Good, Processing, Uncertain, BadPort, BadPortClosed, BadRequest,
       BadResponse

LEMMA InitTypes == Init => TypeOK
<1> SUFFICES ASSUME Init PROVE TypeOK
  OBVIOUS
<1>1. PortTypes /\ FrameTypes
  BY DEF Init, PortTypes, FrameTypes
<1>2. EngineTypes
  <2>1. 1 \in 1..MaxTries
    BY ClientAssumption
  <2> QED
    BY <2>1 DEF Init, EngineTypes, State
<1>3. StatusTypes
  BY StatusValues DEF Init, StatusTypes
<1>4. CallTypes
  BY DEF Init, CallTypes
<1>5. ret \in Return
  <2>1. NoReturn \in Return
    BY StatusValues DEF NoReturn, Return
  <2> QED
    BY <2>1 DEF Init
<1> QED
  BY <1>1, <1>2, <1>3, <1>4, <1>5, TypeGroups

LEMMA HandedType ==
  ASSUME NEW i \in Issue, NEW st \in Status, NEW answered \in BOOLEAN,
         FrameTypes', Handed(i, st, answered)
  PROVE  ret' \in Return
BY DEF FrameTypes, Handed, Return, Issue

LEMMA SetErrorTypes ==
  ASSUME NEW st \in Bad, SetError(st)
  PROVE  lastErrorStatus' \in Status /\ isLastPortError' \in BOOLEAN
BY StatusValues DEF SetError

LEMMA SetCompletedTypes ==
  ASSUME NEW i \in Issue, NEW st \in Bad \union {Good}, NEW answered \in BOOLEAN,
         StatusTypes, CallTypes, FrameTypes',
         SetCompleted(i, st, answered)
  PROVE  StatusTypes' /\ CallTypes' /\ ret' \in Return
<1>1. StatusTypes'
  <2>1. lastStatus' \in Status
    BY StatusValues DEF SetCompleted
  <2>2. lastErrorStatus' \in Status /\ isLastPortError' \in BOOLEAN
    BY SetErrorTypes DEF SetCompleted, StatusTypes
  <2> QED
    BY <2>1, <2>2 DEF StatusTypes
<1>2. CallTypes'
  BY DEF SetCompleted, CallTypes
<1>3. ret' \in Return
  BY StatusValues, HandedType DEF SetCompleted
<1> QED
  BY <1>1, <1>2, <1>3

LEMMA ReturnProcessingTypes ==
  ASSUME NEW i \in Issue, CallTypes, FrameTypes', UNCHANGED currentClient,
         ReturnProcessing(i)
  PROVE  CallTypes' /\ ret' \in Return
<1>1. CallTypes'
  BY DEF ReturnProcessing, CallTypes, Issue
<1>2. ret' \in Return
  BY StatusValues, HandedType DEF ReturnProcessing
<1> QED
  BY <1>1, <1>2

LEMMA RepeatTypes ==
  ASSUME EngineTypes, StatusTypes, CallTypes, FrameTypes', ret \in Return,
         call # None, NEW st \in Bad, Repeat(st)
  PROVE  /\ StatusTypes' /\ CallTypes' /\ ret' \in Return
         /\ repeats' \in Nat /\ autoIncrement' \in BOOLEAN /\ block' \in BOOLEAN
<1>1. StatusTypes'
  <2>1. lastStatus' \in Status
    BY StatusValues DEF Repeat
  <2>2. lastErrorStatus' \in Status /\ isLastPortError' \in BOOLEAN
    BY SetErrorTypes DEF Repeat
  <2> QED
    BY <2>1, <2>2 DEF StatusTypes
<1>2. repeats' \in Nat /\ autoIncrement' \in BOOLEAN /\ block' \in BOOLEAN
  <2>1. repeats' \in Nat
    BY DEF Repeat, EngineTypes
  <2>2. autoIncrement' = FALSE /\ block' = block
    BY DEF Repeat
  <2> QED
    BY <2>1, <2>2 DEF EngineTypes
<1>3. CallTypes' /\ ret' \in Return
  <2>1. CASE Blocking
    BY <2>1 DEF Repeat, CallTypes
  <2>2. CASE ~Blocking
    <3>1. call \in Issue
      BY DEF CallTypes
    <3>2. ReturnProcessing(call) /\ UNCHANGED currentClient
      BY <2>2 DEF Repeat
    <3> QED
      BY <3>1, <3>2, ReturnProcessingTypes
  <2> QED
    BY <2>1, <2>2
<1> QED
  BY <1>1, <1>2, <1>3

LEMMA AttemptEndsTypes ==
  ASSUME TypeOK, call # None, NEW st \in Bad \union {Good},
         state' \in State, sent' \in BOOLEAN, AttemptEnds(st)
  PROVE  /\ EngineTypes' /\ StatusTypes' /\ CallTypes' /\ FrameTypes'
         /\ ret' \in Return
<1> USE TypeGroups
<1>1. FrameTypes'
  BY DEF AttemptEnds, FrameTypes
<1>2. UNCHANGED <<unit, tries, broadcastEnabled>> /\ lastTries' \in Nat
  BY DEF AttemptEnds, settingVars, EngineTypes
<1>3. call \in Issue
  BY DEF CallTypes
<1>4. CASE st \in Bad /\ Repeat(st)
  BY <1>1, <1>2, <1>4, RepeatTypes DEF EngineTypes
<1>5. CASE FreeWriteBuffer /\ UNCHANGED autoIncrement
           /\ SetCompleted(call, st, FALSE)
  BY <1>1, <1>2, <1>3, <1>5, SetCompletedTypes DEF EngineTypes, FreeWriteBuffer
<1>6. ASSUME NEW v \in ResponseStatus(call), FreeWriteBuffer,
             UNCHANGED autoIncrement, SetCompleted(call, v, v = Good)
      PROVE  EngineTypes' /\ StatusTypes' /\ CallTypes' /\ ret' \in Return
  <2>1. v \in Bad \union {Good}
    BY StatusValues DEF ResponseStatus
  <2> QED
    BY <1>1, <1>2, <1>3, <1>6, <2>1, SetCompletedTypes
    DEF EngineTypes, FreeWriteBuffer
<1> QED
  BY <1>1, <1>4, <1>5, <1>6 DEF AttemptEnds

LEMMA FillBufferTypes ==
  ASSUME TypeOK, NEW i \in Issue, FillBuffer(i)
  PROVE  TypeOK'
<1> USE TypeGroups
<1>1. i.client \in Client /\ i.req \in Request /\ i.req.unit \in Nat
  BY RequestAssumption DEF Issue
<1>2. PortTypes'
  BY DEF FillBuffer, PortTypes
<1>3. NoReturn \in Return
  BY StatusValues DEF NoReturn, Return
<1>4. CASE block
  <2>1. EngineTypes' /\ FrameTypes'
    BY <1>4 DEF FillBuffer, EngineTypes, FrameTypes, requestVars, settingVars
  <2>2. StatusTypes'
    BY <1>4 DEF FillBuffer, StatusTypes, statusVars
  <2>3. CallTypes' /\ ret' \in Return
    BY <1>1, <1>3, <1>4 DEF FillBuffer, CallTypes
  <2> QED
    BY <1>2, <2>1, <2>2, <2>3, TypeGroupsNext
<1>5. CASE ~block
  <2>1. FrameTypes'
    BY <1>5 DEF FillBuffer, FrameTypes
  <2>2. EngineTypes'
    <3>1. autoIncrement' \in BOOLEAN /\ block' \in BOOLEAN
      BY <1>5 DEF FillBuffer, EngineTypes
    <3>2. unit' \in Nat /\ lastTries' \in Nat
      BY <1>1, <1>5 DEF FillBuffer
    <3>3. UNCHANGED <<state, repeats, tries, broadcastEnabled>>
      BY <1>5 DEF FillBuffer, settingVars
    <3> QED
      BY <3>1, <3>2, <3>3 DEF EngineTypes
  <2>3. CASE call' = i /\ currentClient' = i.client /\ ret' = NoReturn
             /\ UNCHANGED <<statusVars, want>>
    <3>1. StatusTypes'
      BY <2>3 DEF StatusTypes, statusVars
    <3>2. CallTypes'
      BY <1>1, <2>3 DEF CallTypes
    <3> QED
      BY <1>2, <1>3, <2>1, <2>2, <2>3, <3>1, <3>2, TypeGroupsNext
  <2>4. CASE SetCompleted(i, BadPort, FALSE)
    BY <1>2, <2>1, <2>2, <2>4, SetCompletedTypes, StatusValues, TypeGroupsNext
  <2> QED
    BY <1>5, <2>3, <2>4 DEF FillBuffer
<1> QED
  BY <1>4, <1>5

(***************************************************************************)
(* Every step keeps the types.                                             *)
(***************************************************************************)
LEMMA CallsTypes ==
  ASSUME TypeOK, NEW c \in Client, NEW q \in Request,
         \/ Enable(c, q) \/ EnableRefused(c, q)
         \/ Process(c, q) \/ Disable(c, q)
  PROVE  TypeOK'
<1> USE TypeGroups
<1> DEFINE i == [client |-> c, req |-> q]
<1>1. i \in Issue
  BY DEF Issue
<1> HIDE DEF i
<1>2. CASE Enable(c, q) \/ Process(c, q)
  BY <1>1, <1>2, FillBufferTypes DEF Enable, Process, i
<1>3. CASE EnableRefused(c, q)
  <2>1. PortTypes' /\ EngineTypes' /\ FrameTypes'
    BY <1>3 DEF EnableRefused, portVars, requestVars, settingVars, PortTypes,
                EngineTypes, FrameTypes
  <2>2. SetCompleted(i, BadRequest, FALSE)
    BY <1>3 DEF EnableRefused, i
  <2> QED
    BY <1>1, <2>1, <2>2, SetCompletedTypes, StatusValues, TypeGroupsNext
<1>4. CASE Disable(c, q)
  <2>1. PortTypes' /\ EngineTypes' /\ FrameTypes' /\ UNCHANGED currentClient
    BY <1>4 DEF Disable, portVars, requestVars, settingVars, PortTypes,
                EngineTypes, FrameTypes
  <2>2. StatusTypes'
    BY <1>4 DEF Disable, statusVars, StatusTypes
  <2>3. ReturnProcessing(i)
    BY <1>4 DEF Disable, i
  <2> QED
    BY <1>1, <2>1, <2>2, <2>3, ReturnProcessingTypes, TypeGroupsNext
<1> QED
  BY <1>2, <1>3, <1>4

LEMMA StillProcessingTypes ==
  ASSUME TypeOK, call # None, ReturnStillProcessing, PortTypes',
         state' \in State, autoIncrement' \in BOOLEAN, UNCHANGED sent
  PROVE  TypeOK'
<1> USE TypeGroups
<1>1. FrameTypes' /\ EngineTypes' /\ UNCHANGED currentClient
  BY DEF ReturnStillProcessing, requestVars, settingVars, FrameTypes, EngineTypes
<1>2. StatusTypes'
  BY DEF ReturnStillProcessing, statusVars, StatusTypes
<1>3. call \in Issue /\ ReturnProcessing(call)
  BY DEF ReturnStillProcessing, CallTypes
<1> QED
  BY <1>1, <1>2, <1>3, ReturnProcessingTypes, TypeGroupsNext

LEMMA StayInCallTypes ==
  ASSUME TypeOK, StayInCall, PortTypes', state' \in State,
         autoIncrement' \in BOOLEAN, sent' \in BOOLEAN
  PROVE  TypeOK'
<1> USE TypeGroups
<1>1. FrameTypes' /\ EngineTypes'
  BY DEF StayInCall, requestVars, settingVars, FrameTypes, EngineTypes
<1>2. StatusTypes'
  BY DEF StayInCall, statusVars, StatusTypes
<1>3. CallTypes' /\ ret' \in Return
  BY DEF StayInCall, CallTypes
<1> QED
  BY <1>1, <1>2, <1>3, TypeGroupsNext

LEMMA PortOpenTypes ==
  ASSUME PortTypes, NEW r, PortOpen(r), announced' \in {"closed", "opened", "reopened"}
  PROVE  PortTypes'
BY DEF PortTypes, PortOpen

LEMMA PortTransferTypes ==
  ASSUME PortTypes, NEW r, PortTransfer(r), announced' \in {"closed", "opened", "reopened"}
  PROVE  PortTypes'
BY DEF PortTypes, PortTransfer

LEMMA StepTypes ==
  ASSUME TypeOK, Step
  PROVE  TypeOK'
<1> USE TypeGroups
<1>1. CASE FindOpen
  <2>1. call # None /\ PortTypes' /\ state' \in State /\ StayInCall
        /\ UNCHANGED <<autoIncrement, sent>>
    BY <1>1 DEF FindOpen, InProcess, portVars, PortTypes, State
  <2> QED
    BY <2>1, StayInCallTypes DEF EngineTypes, FrameTypes
<1>2. ASSUME NEW r \in PortResult, NEW up \in BOOLEAN, Open(r, up)
      PROVE  TypeOK'
  <2>1. call # None /\ PortOpen(r)
    BY <1>2 DEF Open, InProcess
  <2>2. PortTypes' /\ state' \in State
    <3>1. announced' \in {"closed", "opened", "reopened"}
      BY <1>2 DEF Open, SignalOpened, PortTypes
    <3> QED
      BY <1>2, <2>1, <3>1, PortOpenTypes DEF Open, State
  <2>3. CASE ReturnStillProcessing /\ UNCHANGED <<autoIncrement, sent>>
    BY <2>1, <2>2, <2>3, StillProcessingTypes DEF EngineTypes
  <2>4. CASE AttemptEnds(BadPort) /\ sent' = FALSE
    BY <2>1, <2>2, <2>4, AttemptEndsTypes, StatusValues, TypeGroupsNext
  <2>5. CASE StayInCall /\ UNCHANGED <<autoIncrement, sent>>
    BY <2>1, <2>2, <2>5, StayInCallTypes DEF EngineTypes, FrameTypes
  <2> QED
    BY <1>2, <2>3, <2>4, <2>5 DEF Open
<1>3. CASE ReopenChanged
  <2>1. PortTypes' /\ FrameTypes'
    BY <1>3 DEF ReopenChanged, PortClose, SignalClosed, requestVars, PortTypes, FrameTypes
  <2>2. EngineTypes'
    BY <1>3 DEF ReopenChanged, requestVars, settingVars, EngineTypes, State
  <2>3. StatusTypes'
    BY <1>3, StatusValues DEF ReopenChanged, StatusTypes
  <2>4. call \in Issue /\ ReturnProcessing(call) /\ currentClient' = None
    BY <1>3 DEF ReopenChanged, InProcess, CallTypes
  <2>5. CallTypes'
    BY <2>4 DEF ReturnProcessing, CallTypes, Issue
  <2>6. ret' \in Return
    BY <2>1, <2>4, HandedType, StatusValues DEF ReturnProcessing
  <2> QED
    BY <2>1, <2>2, <2>3, <2>5, <2>6, TypeGroupsNext
<1>4. CASE WriteClosed
  <2>1. call # None /\ PortTypes' /\ state' \in State /\ sent' \in BOOLEAN
        /\ AttemptEnds(BadPortClosed)
    BY <1>4 DEF WriteClosed, InProcess, PortTypes, State
  <2> QED
    BY <2>1, AttemptEndsTypes, StatusValues, TypeGroupsNext
<1>5. ASSUME NEW r \in PortResult, Write(r)
      PROVE  TypeOK'
  <2>1. call # None /\ PortTransfer(r) /\ UNCHANGED announced
    BY <1>5 DEF Write, InProcess
  <2>2. PortTypes' /\ state' \in State
    BY <1>5, <2>1, PortTransferTypes DEF Write, State, PortTypes
  <2>3. CASE ReturnStillProcessing /\ UNCHANGED <<autoIncrement, sent>>
    BY <2>1, <2>2, <2>3, StillProcessingTypes DEF EngineTypes
  <2>4. CASE AttemptEnds(BadPort) /\ sent' = FALSE
    BY <2>1, <2>2, <2>4, AttemptEndsTypes, StatusValues, TypeGroupsNext
  <2>5. CASE AttemptEnds(Good) /\ sent' = TRUE
    BY <2>1, <2>2, <2>5, AttemptEndsTypes, TypeGroupsNext
  <2>6. CASE StayInCall /\ sent' = TRUE /\ UNCHANGED autoIncrement
    BY <2>1, <2>2, <2>6, StayInCallTypes DEF EngineTypes
  <2> QED
    BY <1>5, <2>3, <2>4, <2>5, <2>6 DEF Write
<1>6. ASSUME NEW r \in PortResult, NEW up \in BOOLEAN, Read(r, up)
      PROVE  TypeOK'
  <2>1. call # None /\ PortTransfer(r)
    BY <1>6 DEF Read, InProcess
  <2>2. PortTypes' /\ state' \in State
    <3>1. announced' \in {"closed", "opened", "reopened"}
      BY <1>6 DEF Read, SignalClosed, PortTypes
    <3> QED
      BY <1>6, <2>1, <3>1, PortTransferTypes DEF Read, State
  <2>3. CASE ReturnStillProcessing /\ UNCHANGED <<autoIncrement, sent>>
    BY <2>1, <2>2, <2>3, StillProcessingTypes DEF EngineTypes
  <2>4. CASE AttemptEnds(BadPort) /\ sent' = FALSE
    BY <2>1, <2>2, <2>4, AttemptEndsTypes, StatusValues, TypeGroupsNext
  <2>5. CASE AttemptEnds(Good) /\ UNCHANGED sent
    BY <2>1, <2>2, <2>5, AttemptEndsTypes, TypeGroupsNext DEF FrameTypes
  <2> QED
    BY <1>6, <2>3, <2>4, <2>5 DEF Read
<1>7. CASE TimeoutOver
  <2>1. call # None /\ PortTypes' /\ state' \in State /\ StayInCall
        /\ UNCHANGED <<autoIncrement, sent>>
    BY <1>7 DEF TimeoutOver, InProcess, portVars, PortTypes, State
  <2> QED
    BY <2>1, StayInCallTypes DEF EngineTypes, FrameTypes
<1>8. CASE TimeoutRuns
  <2>1. call # None /\ PortTypes' /\ state' \in State /\ ReturnStillProcessing
        /\ UNCHANGED <<autoIncrement, sent>>
    BY <1>8 DEF TimeoutRuns, InProcess, portVars, PortTypes, EngineTypes
  <2> QED
    BY <2>1, StillProcessingTypes DEF EngineTypes
<1> QED
  BY <1>1, <1>2, <1>3, <1>4, <1>5, <1>6, <1>7, <1>8 DEF Step

LEMMA ManageTypes ==
  ASSUME TypeOK, Manage
  PROVE  TypeOK'
<1> USE TypeGroups
<1>1. ASSUME NEW c \in Client, cancelRequest(c)
      PROVE  TypeOK'
  <2>1. PortTypes' /\ EngineTypes' /\ StatusTypes' /\ FrameTypes'
        /\ ret' \in Return
    BY <1>1 DEF cancelRequest, portVars, requestVars, statusVars, settingVars,
                PortTypes, EngineTypes, StatusTypes, FrameTypes
  <2>2. CallTypes'
    BY <1>1 DEF cancelRequest, CallTypes
  <2> QED
    BY <2>1, <2>2, TypeGroupsNext
<1>2. CASE close
  <2>1. PortTypes' /\ EngineTypes' /\ FrameTypes' /\ CallTypes'
    BY <1>2 DEF close, PortClose, SignalClosed, requestVars, settingVars,
                PortTypes, EngineTypes, CallTypes, FrameTypes
  <2>2. StatusTypes'
    BY <1>2, StatusValues DEF close, StatusTypes
  <2>3. ret' \in Return
    BY <1>2, StatusValues DEF close, NoReturn, Return
  <2> QED
    BY <2>1, <2>2, <2>3, TypeGroupsNext
<1>3. CASE setPort
  BY <1>3, TypeGroupsNext
  DEF setPort, statusVars, settingVars, PortTypes, EngineTypes, StatusTypes,
      CallTypes, FrameTypes, State
<1>4. CASE ChangeSettings
  BY <1>4, TypeGroupsNext
  DEF ChangeSettings, requestVars, statusVars, settingVars, PortTypes,
      EngineTypes, StatusTypes, CallTypes, FrameTypes
<1>5. ASSUME NEW v \in 0..MaxTries, setTries(v)
      PROVE  TypeOK'
  <2>1. tries' \in 1..MaxTries
    BY <1>5, ClientAssumption DEF setTries, EngineTypes
  <2> QED
    BY <1>5, <2>1, TypeGroupsNext
    DEF setTries, portVars, requestVars, statusVars, PortTypes, EngineTypes,
        StatusTypes, CallTypes, FrameTypes
<1>6. ASSUME NEW b \in BOOLEAN, setBroadcastEnabled(b)
      PROVE  TypeOK'
  <2>1. ret' \in Return
    BY <1>6, StatusValues DEF setBroadcastEnabled, NoReturn, Return
  <2> QED
    BY <1>6, <2>1, TypeGroupsNext
    DEF setBroadcastEnabled, portVars, requestVars, statusVars, PortTypes,
        EngineTypes, StatusTypes, CallTypes, FrameTypes
<1> QED
  BY <1>1, <1>2, <1>3, <1>4, <1>5, <1>6 DEF Manage

(* Every variable keeps to its type, for any clients, requests and bound   *)
(* on the tries, in blocking and in non-blocking mode.                     *)
THEOREM TypeCorrect == Spec => []TypeOK
<1>1. TypeOK /\ [Next]_vars => TypeOK'
  <2> SUFFICES ASSUME TypeOK, [Next]_vars PROVE TypeOK'
    OBVIOUS
  <2>1. CASE UNCHANGED vars
    BY <2>1 DEF vars, portVars, requestVars, statusVars, settingVars, TypeOK
  <2> QED
    BY <2>1, CallsTypes, StepTypes, ManageTypes DEF Next, Calls
<1> QED
  BY <1>1, InitTypes, PTL DEF Spec

-----------------------------------------------------------------------------
(***************************************************************************)
(* Safety.  Every action that ends a call does so in one of two ways.      *)
(***************************************************************************)

LEMMA CompletedSafe ==
  ASSUME CallTypes, NEW i \in Issue, NEW st \in Bad \union {Good},
         NEW answered, SetCompleted(i, st, answered), st = Good => sent'
  PROVE  Ownership' /\ Results'
<1>1. call' = None /\ currentClient' = None
  BY DEF SetCompleted
<1>2. ret'.st = st /\ ret'.sent = sent'
  BY DEF SetCompleted, Handed
<1>3. Ownership'
  BY <1>1 DEF Ownership, CallInProgress, OwnerHasFilledBuffer, OwnerPolls,
              BlockingReleases
<1>4. GoodWasSent'
  BY <1>2 DEF GoodWasSent
<1>5. lastStatus' = st
        /\ (st \in Bad => lastErrorStatus' = st /\ isLastPortError' = (st = BadPort))
  BY DEF SetCompleted, SetError
<1>6. StatusReported'
  BY <1>2, <1>5 DEF StatusReported
<1> QED
  BY <1>3, <1>4, <1>6 DEF Results

LEMMA ProcessingSafe ==
  ASSUME CallTypes, NEW i \in Issue, ReturnProcessing(i),
         \/ currentClient' = None
         \/ ~Blocking /\ block' /\ currentClient' \in Client
              /\ (want[currentClient'] # None \/ currentClient' = i.client)
  PROVE  Ownership' /\ Results'
<1>1. call' = None /\ ret'.st = Processing
  BY DEF ReturnProcessing, Handed
<1>2. i.client \in Client /\ i.req \in Request /\ i.req # None
  BY ClientAssumption DEF Issue
<1>3. ASSUME currentClient' # None PROVE want'[currentClient'] # None
  <2>1. ~Blocking /\ currentClient' \in Client
        /\ (want[currentClient'] # None \/ currentClient' = i.client)
    BY <1>3
  <2>2. want' = [want EXCEPT ![i.client] = i.req]
    BY <2>1 DEF ReturnProcessing
  <2>3. want'[currentClient'] = IF currentClient' = i.client THEN i.req
                                ELSE want[currentClient']
    BY <2>1, <2>2, <1>2 DEF CallTypes
  <2> QED
    BY <1>2, <2>1, <2>3
<1>4. Ownership'
  BY <1>1, <1>3 DEF Ownership, CallInProgress, OwnerHasFilledBuffer,
                    OwnerPolls, BlockingReleases
<1>5. Results'
  BY <1>1, StatusValues DEF Results, GoodWasSent, StatusReported
<1> QED
  BY <1>4, <1>5

LEMMA AttemptEndsSafe ==
  ASSUME Inv, call # None, NEW st \in Bad \union {Good}, AttemptEnds(st),
         st = Good => sent'
  PROVE  Ownership' /\ RetryBookkeeping' /\ Results'
<1> USE TypeGroups DEF Inv
<1>1. call \in Issue /\ call.client \in Client /\ block
      /\ currentClient = call.client /\ ret.st = Processing
  BY DEF Ownership, CallInProgress, CallTypes, Issue
<1>2. lastTries' = repeats + 1 /\ repeats \in Nat
  BY DEF AttemptEnds, EngineTypes
<1>3. CASE st \in Bad /\ repeats + 1 < tries /\ Repeat(st)
  <2>1. block' /\ currentClient' = call.client /\ repeats' = repeats + 1
    BY <1>1, <1>3 DEF Repeat
  <2>2. RetryBookkeeping'
    BY <1>2, <1>3, <2>1, ClientAssumption DEF RetryBookkeeping, AttemptEnds, settingVars, EngineTypes
  <2>3. CASE Blocking
    <3>1. UNCHANGED <<call, want, ret>>
      BY <1>3, <2>3 DEF Repeat
    <3>2. Ownership'
      BY <1>1, <2>1, <3>1 DEF Ownership, CallInProgress, OwnerHasFilledBuffer,
                              OwnerPolls, BlockingReleases
    <3>3. Results'
      BY <1>1, <3>1, StatusValues DEF Results, GoodWasSent, StatusReported
    <3> QED
      BY <2>2, <3>2, <3>3
  <2>4. CASE ~Blocking
    <3>1. ReturnProcessing(call)
      BY <1>3, <2>4 DEF Repeat
    <3> QED
      BY <1>1, <2>1, <2>2, <2>4, <3>1, ProcessingSafe
  <2> QED
    BY <2>3, <2>4
<1>4. ASSUME FreeWriteBuffer
      PROVE  RetryBookkeeping'
  BY <1>4, ClientAssumption DEF FreeWriteBuffer, RetryBookkeeping
<1>5. CASE FreeWriteBuffer /\ SetCompleted(call, st, FALSE)
  BY <1>1, <1>4, <1>5, CompletedSafe
<1>6. ASSUME NEW v \in ResponseStatus(call), st = Good, FreeWriteBuffer,
             SetCompleted(call, v, v = Good)
      PROVE  Ownership' /\ RetryBookkeeping' /\ Results'
  <2>1. v \in Bad \union {Good}
    BY StatusValues DEF ResponseStatus
  <2> QED
    BY <1>1, <1>4, <1>6, <2>1, CompletedSafe
<1> QED
  BY <1>3, <1>5, <1>6 DEF AttemptEnds

LEMMA CallsSafe ==
  ASSUME Inv, NEW c \in Client, NEW q \in Request,
         \/ Enable(c, q) \/ EnableRefused(c, q)
         \/ Process(c, q) \/ Disable(c, q)
  PROVE  Ownership' /\ ReadAfterWrite' /\ RetryBookkeeping' /\ Results'
<1> USE TypeGroups DEF Inv
<1> DEFINE i == [client |-> c, req |-> q]
<1>1. i \in Issue /\ i # None /\ i.client = c
  BY ClientAssumption DEF Issue
<1> HIDE DEF i
<1>2. CASE FillBuffer(i)
  <2>1. CASE call' = i /\ currentClient' = i.client /\ ret' = NoReturn /\ block'
    <3>1. Ownership'
      BY <1>1, <2>1 DEF Ownership, CallInProgress, OwnerHasFilledBuffer,
                        OwnerPolls, BlockingReleases, NoReturn
    <3>2. Results'
      BY <2>1, StatusValues DEF Results, GoodWasSent, StatusReported, NoReturn
    <3>3. ReadAfterWrite'
      BY <1>2, <2>1 DEF FillBuffer, ReadAfterWrite
    <3>4. RetryBookkeeping'
      BY <1>2, <2>1 DEF FillBuffer, RetryBookkeeping, requestVars, EngineTypes
    <3> QED
      BY <3>1, <3>2, <3>3, <3>4
  <2>2. CASE ~block /\ SetCompleted(i, BadPort, FALSE)
    <3>1. Ownership' /\ Results'
      BY <1>1, <2>2, CompletedSafe, StatusValues
    <3>2. ReadAfterWrite'
      BY <1>2, <2>2 DEF FillBuffer, ReadAfterWrite
    <3>3. RetryBookkeeping'
      BY <1>2, <2>2 DEF FillBuffer, RetryBookkeeping
    <3> QED
      BY <3>1, <3>2, <3>3
  <2> QED
    BY <1>2, <2>1, <2>2 DEF FillBuffer, requestVars
<1>3. CASE EnableRefused(c, q)
  <2>1. SetCompleted(i, BadRequest, FALSE)
    BY <1>3 DEF EnableRefused, i
  <2>2. Ownership' /\ Results'
    BY <1>1, <2>1, CompletedSafe, StatusValues
  <2>3. ReadAfterWrite' /\ RetryBookkeeping'
    BY <1>3 DEF EnableRefused, portVars, requestVars, ReadAfterWrite,
                RetryBookkeeping
  <2> QED
    BY <2>2, <2>3
<1>4. CASE Disable(c, q)
  <2>1. ReturnProcessing(i)
    BY <1>4 DEF Disable, i
  <2>2. call = None /\ currentClient # None /\ currentClient' = currentClient
        /\ block' = block
    BY <1>4 DEF Disable, Polls, requestVars
  <2>3. ~Blocking /\ block /\ currentClient \in Client
        /\ want[currentClient] # None
    BY <2>2 DEF Ownership, OwnerHasFilledBuffer, OwnerPolls, BlockingReleases,
                CallTypes
  <2>4. Ownership' /\ Results'
    BY <1>1, <2>1, <2>2, <2>3, ProcessingSafe
  <2>5. ReadAfterWrite' /\ RetryBookkeeping'
    BY <1>4 DEF Disable, portVars, requestVars, ReadAfterWrite, RetryBookkeeping
  <2> QED
    BY <2>4, <2>5
<1> QED
  BY <1>2, <1>3, <1>4 DEF Enable, Process, i

LEMMA StillProcessingSafe ==
  ASSUME Inv, call # None, ReturnStillProcessing, ~Blocking
  PROVE  Ownership' /\ RetryBookkeeping' /\ Results'
<1> USE TypeGroups DEF Inv
<1>1. call \in Issue /\ call.client \in Client /\ block
      /\ currentClient = call.client
  BY DEF Ownership, CallInProgress, CallTypes, Issue
<1>2. block' /\ currentClient' = call.client /\ ReturnProcessing(call)
  BY <1>1 DEF ReturnStillProcessing, requestVars
<1>3. RetryBookkeeping'
  BY DEF ReturnStillProcessing, requestVars, RetryBookkeeping
<1> QED
  BY <1>1, <1>2, <1>3, ProcessingSafe

LEMMA StayInCallSafe ==
  ASSUME Inv, StayInCall
  PROVE  /\ Ownership' /\ RetryBookkeeping' /\ Results'
         /\ block' = block
BY DEF Inv, StayInCall, requestVars, statusVars, Ownership, CallInProgress,
       OwnerHasFilledBuffer, OwnerPolls, BlockingReleases, RetryBookkeeping,
       Results, GoodWasSent, StatusReported

LEMMA StepSafe ==
  ASSUME Inv, Step
  PROVE  Ownership' /\ ReadAfterWrite' /\ RetryBookkeeping' /\ Results'
<1> USE TypeGroups DEF Inv
<1>1. CASE FindOpen
  BY <1>1, StayInCallSafe DEF FindOpen, ReadAfterWrite
<1>2. ASSUME NEW r \in PortResult, NEW up \in BOOLEAN, Open(r, up)
      PROVE  Ownership' /\ ReadAfterWrite' /\ RetryBookkeeping' /\ Results'
  <2>1. call # None /\ (r = Processing => ~Blocking)
    BY <1>2 DEF Open, InProcess, PortOpen
  <2>2. ReadAfterWrite'
    BY <1>2 DEF Open, ReadAfterWrite
  <2> QED
    BY <1>2, <2>1, <2>2, StillProcessingSafe, AttemptEndsSafe, StayInCallSafe,
       StatusValues
    DEF Open
<1>3. CASE ReopenChanged
  <2>1. call \in Issue /\ ReturnProcessing(call) /\ currentClient' = None
    BY <1>3 DEF ReopenChanged, InProcess, CallTypes
  <2>2. Ownership' /\ Results'
    BY <2>1, ProcessingSafe
  <2>3. ReadAfterWrite' /\ RetryBookkeeping'
    BY <1>3 DEF ReopenChanged, requestVars, ReadAfterWrite, RetryBookkeeping
  <2> QED
    BY <2>2, <2>3
<1>4. CASE WriteClosed
  BY <1>4, AttemptEndsSafe, StatusValues
  DEF WriteClosed, InProcess, ReadAfterWrite
<1>5. ASSUME NEW r \in PortResult, Write(r)
      PROVE  Ownership' /\ ReadAfterWrite' /\ RetryBookkeeping' /\ Results'
  <2>1. call # None /\ (r = Processing => ~Blocking)
    BY <1>5 DEF Write, InProcess, PortTransfer
  <2>2. CASE r = Processing
    BY <1>5, <2>1, <2>2, StillProcessingSafe, StatusValues
    DEF Write, ReadAfterWrite, Good, Processing, BadPort
  <2>3. CASE r = BadPort
    BY <1>5, <2>1, <2>3, AttemptEndsSafe, StatusValues
    DEF Write, ReadAfterWrite, Good, Processing, BadPort
  <2>4. CASE r = Good /\ isBroadcast
    BY <1>5, <2>1, <2>4, AttemptEndsSafe, StatusValues
    DEF Write, ReadAfterWrite, Good, Processing, BadPort
  <2>5. CASE r = Good /\ ~isBroadcast
    <3>1. StayInCall /\ state' = "READ" /\ sent' = TRUE
      BY <1>5, <2>5 DEF Write, Good, Processing, BadPort
    <3>2. block'
      BY <2>1, <3>1, StayInCallSafe DEF Ownership, CallInProgress
    <3> QED
      BY <3>1, <3>2, StayInCallSafe DEF ReadAfterWrite
  <2> QED
    BY <2>2, <2>3, <2>4, <2>5 DEF PortResult
<1>6. ASSUME NEW r \in PortResult, NEW up \in BOOLEAN, Read(r, up)
      PROVE  Ownership' /\ ReadAfterWrite' /\ RetryBookkeeping' /\ Results'
  <2>1. call # None /\ (r = Processing => ~Blocking) /\ state = "READ"
    BY <1>6 DEF Read, InProcess, PortTransfer
  <2>2. CASE r = Processing
    <3>1. ReturnStillProcessing /\ UNCHANGED sent /\ (portOpen' => portOpen)
      BY <1>6, <2>2 DEF Read, PortTransfer, Good, Processing, BadPort
    <3>2. block' = block
      BY <3>1 DEF ReturnStillProcessing, requestVars
    <3>3. ReadAfterWrite'
      BY <2>1, <3>1, <3>2 DEF ReadAfterWrite
    <3> QED
      BY <2>1, <2>2, <3>1, <3>3, StillProcessingSafe
  <2>3. CASE r = BadPort
    BY <1>6, <2>1, <2>3, AttemptEndsSafe, StatusValues
    DEF Read, ReadAfterWrite, Good, Processing, BadPort
  <2>4. CASE r = Good
    <3>1. AttemptEnds(Good) /\ UNCHANGED sent /\ state' # "READ"
      BY <1>6, <2>4 DEF Read, Good, Processing, BadPort
    <3>2. sent
      BY <1>6, <2>1, <2>4 DEF Read, PortTransfer, ReadAfterWrite, Good, BadPort
    <3> QED
      BY <2>1, <3>1, <3>2, AttemptEndsSafe DEF ReadAfterWrite
  <2> QED
    BY <2>2, <2>3, <2>4 DEF PortResult
<1>7. CASE TimeoutOver
  BY <1>7, StayInCallSafe DEF TimeoutOver, ReadAfterWrite
<1>8. CASE TimeoutRuns
  BY <1>8, StillProcessingSafe
  DEF TimeoutRuns, InProcess, portVars, ReadAfterWrite
<1> QED
  BY <1>1, <1>2, <1>3, <1>4, <1>5, <1>6, <1>7, <1>8 DEF Step

LEMMA ManageSafe ==
  ASSUME Inv, Manage
  PROVE  Ownership' /\ ReadAfterWrite' /\ RetryBookkeeping' /\ Results'
<1> USE TypeGroups DEF Inv
<1>1. call = None
  BY DEF Manage, cancelRequest, close, setPort, ChangeSettings, setTries,
         setBroadcastEnabled, Manages
<1>2. ASSUME NEW c \in Client, cancelRequest(c)
      PROVE  Ownership' /\ ReadAfterWrite' /\ RetryBookkeeping' /\ Results'
  <2>1. currentClient' # None => currentClient' = currentClient
                                 /\ currentClient # c
    BY <1>2 DEF cancelRequest
  <2>2. OwnerPolls'
    BY <1>1, <1>2, <2>1 DEF cancelRequest, Ownership, OwnerPolls, CallTypes
  <2>3. CallInProgress' /\ OwnerHasFilledBuffer' /\ BlockingReleases'
    BY <1>1, <1>2, <2>1 DEF cancelRequest, requestVars, Ownership,
       CallInProgress, OwnerHasFilledBuffer, BlockingReleases
  <2>4. ReadAfterWrite' /\ RetryBookkeeping' /\ Results'
    BY <1>2 DEF cancelRequest, portVars, requestVars, statusVars,
       ReadAfterWrite, RetryBookkeeping, Results, GoodWasSent, StatusReported
  <2> QED
    BY <2>2, <2>3, <2>4 DEF Ownership
<1>3. CASE close
  <2>1. Ownership' /\ Results'
    BY <1>1, <1>3, StatusValues
    DEF close, NoReturn, Ownership, CallInProgress, OwnerHasFilledBuffer,
        OwnerPolls, BlockingReleases, Results, GoodWasSent, StatusReported
  <2>2. ReadAfterWrite' /\ RetryBookkeeping'
    BY <1>3 DEF close, PortClose, requestVars, ReadAfterWrite, RetryBookkeeping
  <2> QED
    BY <2>1, <2>2
<1>4. CASE setPort
  <2>1. Ownership' /\ Results'
    BY <1>1, <1>4
    DEF setPort, statusVars, Ownership, CallInProgress, OwnerHasFilledBuffer,
        OwnerPolls, BlockingReleases, Results, GoodWasSent, StatusReported
  <2>2. ReadAfterWrite' /\ RetryBookkeeping'
    BY <1>4 DEF setPort, ReadAfterWrite, RetryBookkeeping
  <2> QED
    BY <2>1, <2>2
<1>5. CASE ChangeSettings
  BY <1>5
  DEF ChangeSettings, requestVars, statusVars, Ownership, CallInProgress,
      OwnerHasFilledBuffer, OwnerPolls, BlockingReleases, ReadAfterWrite,
      RetryBookkeeping, Results, GoodWasSent, StatusReported
<1>6. ASSUME NEW v \in 0..MaxTries, setTries(v)
      PROVE  Ownership' /\ ReadAfterWrite' /\ RetryBookkeeping' /\ Results'
  BY <1>6
  DEF setTries, portVars, requestVars, statusVars, Ownership, CallInProgress,
      OwnerHasFilledBuffer, OwnerPolls, BlockingReleases, ReadAfterWrite,
      RetryBookkeeping, Results, GoodWasSent, StatusReported
<1>7. ASSUME NEW b \in BOOLEAN, setBroadcastEnabled(b)
      PROVE  Ownership' /\ ReadAfterWrite' /\ RetryBookkeeping' /\ Results'
  BY <1>1, <1>7, StatusValues
  DEF setBroadcastEnabled, portVars, requestVars, statusVars, NoReturn,
      Ownership, CallInProgress, OwnerHasFilledBuffer, OwnerPolls,
      BlockingReleases, ReadAfterWrite, RetryBookkeeping, Results,
      GoodWasSent, StatusReported
<1> QED
  BY <1>2, <1>3, <1>4, <1>5, <1>6, <1>7 DEF Manage

LEMMA InitSafe == Init => Inv
<1> SUFFICES ASSUME Init PROVE Inv
  OBVIOUS
<1>1. Ownership /\ ReadAfterWrite /\ Results
  BY StatusValues
  DEF Init, NoReturn, Ownership, CallInProgress, OwnerHasFilledBuffer,
      OwnerPolls, BlockingReleases, ReadAfterWrite, Results, GoodWasSent,
      StatusReported
<1>2. RetryBookkeeping
  BY ClientAssumption DEF Init, RetryBookkeeping
<1> QED
  BY <1>1, <1>2, InitTypes DEF Inv

LEMMA NextSafe == Inv /\ [Next]_vars => Inv'
<1> SUFFICES ASSUME Inv, [Next]_vars PROVE Inv'
  OBVIOUS
<1>1. CASE UNCHANGED vars
  BY <1>1
  DEF vars, portVars, requestVars, statusVars, settingVars, Inv, TypeOK,
      Ownership, CallInProgress, OwnerHasFilledBuffer, OwnerPolls,
      BlockingReleases, ReadAfterWrite, RetryBookkeeping, Results,
      GoodWasSent, StatusReported
<1>2. CASE Calls
  BY <1>2, CallsTypes, CallsSafe DEF Calls, Inv
<1>3. CASE Step
  BY <1>3, StepTypes, StepSafe DEF Inv
<1>4. CASE Manage
  BY <1>4, ManageTypes, ManageSafe DEF Inv
<1> QED
  BY <1>1, <1>2, <1>3, <1>4 DEF Next

(* The inductive invariant holds whatever the owner of the port does.      *)
THEOREM Invariance == Spec => []Inv
  BY InitSafe, NextSafe, PTL DEF Spec

(* Between calls, the buffer of a port that is owned holds a frame.        *)
THEOREM OwnerHasFilledBufferAlways == Spec => []OwnerHasFilledBuffer
<1>1. Inv => OwnerHasFilledBuffer
  BY DEF Inv, Ownership
<1> QED
  BY <1>1, Invariance, PTL

(* Between calls, the owner of the port is a client that polls.            *)
THEOREM OwnerPollsAlways == Spec => []OwnerPolls
<1>1. Inv => OwnerPolls
  BY DEF Inv, Ownership
<1> QED
  BY <1>1, Invariance, PTL

(* No call of a blocking port leaves it owned.                             *)
THEOREM BlockingReleasesAlways == Spec => []BlockingReleases
<1>1. Inv => BlockingReleases
  BY DEF Inv, Ownership
<1> QED
  BY <1>1, Invariance, PTL

(* The tries are counted from the first to the last one allowed.           *)
THEOREM RetryBookkeepingAlways == Spec => []RetryBookkeeping
<1>1. Inv => RetryBookkeeping
  BY DEF Inv
<1> QED
  BY <1>1, Invariance, PTL

(* Good is only returned for a frame that was written to the connection    *)
(* that is still there.                                                    *)
THEOREM GoodWasSentAlways == Spec => []GoodWasSent
<1>1. Inv => GoodWasSent
  BY DEF Inv, Results
<1> QED
  BY <1>1, Invariance, PTL

(* lastStatus() and lastErrorStatus() are those of the last finished call. *)
THEOREM StatusReportedAlways == Spec => []StatusReported
<1>1. Inv => StatusReported
  BY DEF Inv, Results
<1> QED
  BY <1>1, Invariance, PTL

-----------------------------------------------------------------------------
(***************************************************************************)
(* What holds besides when nobody cancels a request, closes or replaces    *)
(* the port or changes its settings: the frame in the buffer is the one    *)
(* the owner asks for.                                                     *)
(***************************************************************************)
Exclusive == Management \cap {"cancel", "close", "setPort", "change"} = {}

UnitOf(q) == IF q.raw THEN 1 ELSE q.unit

FrameOfOwner ==
  /\ block => currentClient # None /\ unit = UnitOf(written.req)
  /\ call # None => written = call
  /\ block /\ call = None =>
       written = [client |-> currentClient, req |-> want[currentClient]]

XInv == Inv /\ ~changed /\ FrameOfOwner /\ OwnAnswer /\ GoodHasAnswer

LEMMA IssueExtensional ==
  ASSUME NEW i \in Issue
  PROVE  i = [client |-> i.client, req |-> i.req]
BY DEF Issue

LEMMA AttemptEndsExclusive ==
  ASSUME XInv, call # None, NEW st \in Bad \union {Good}, AttemptEnds(st)
  PROVE  FrameOfOwner' /\ OwnAnswer' /\ GoodHasAnswer'
<1> USE TypeGroups DEF XInv, Inv
<1>1. call \in Issue /\ block /\ currentClient = call.client /\ written = call
      /\ ret.st = Processing /\ unit = UnitOf(call.req) /\ call.client \in Client
  BY DEF Ownership, CallInProgress, CallTypes, FrameOfOwner, Issue
<1>2. UNCHANGED <<unit, written, broadcastEnabled>>
  BY DEF AttemptEnds, settingVars
<1>3. ASSUME NEW v \in Bad \union {Good}, NEW answered, FreeWriteBuffer,
             SetCompleted(call, v, answered),
             v = Good /\ ~answered => isBroadcast
      PROVE  FrameOfOwner' /\ OwnAnswer' /\ GoodHasAnswer'
  <2>1. call' = None /\ ~block'
    BY <1>3 DEF SetCompleted, FreeWriteBuffer
  <2>2. FrameOfOwner'
    BY <2>1 DEF FrameOfOwner
  <2>3. ret' = [client |-> call.client, req |-> call.req, st |-> v,
                frame |-> written', answered |-> answered, sent |-> sent']
    BY <1>3 DEF SetCompleted, Handed
  <2>4. OwnAnswer'
    BY <1>1, <1>2, <2>3, IssueExtensional DEF OwnAnswer
  <2>5. isBroadcast => call.req.unit = 0 /\ broadcastEnabled'
    BY <1>1, <1>2 DEF isBroadcast, UnitOf
  <2>6. GoodHasAnswer'
    BY <1>3, <2>3, <2>5 DEF GoodHasAnswer
  <2> QED
    BY <2>2, <2>4, <2>6
<1>4. CASE Repeat(st)
  <2>1. UNCHANGED <<block, currentClient>>
    BY <1>4 DEF Repeat
  <2>2. CASE Blocking
    <3>1. UNCHANGED <<call, want, ret>>
      BY <1>4, <2>2 DEF Repeat
    <3> QED
      BY <1>2, <2>1, <3>1 DEF FrameOfOwner, OwnAnswer, GoodHasAnswer
  <2>3. CASE ~Blocking
    <3>1. call' = None /\ want' = [want EXCEPT ![call.client] = call.req]
          /\ ret'.st = Processing
      BY <1>4, <2>3 DEF Repeat, ReturnProcessing, Handed
    <3>2. want'[call.client] = call.req
      BY <1>1, <3>1 DEF CallTypes
    <3>3. FrameOfOwner'
      BY <1>1, <1>2, <2>1, <3>1, <3>2, IssueExtensional DEF FrameOfOwner
    <3>4. OwnAnswer' /\ GoodHasAnswer'
      BY <3>1, StatusValues DEF OwnAnswer, GoodHasAnswer
    <3> QED
      BY <3>3, <3>4
  <2> QED
    BY <2>2, <2>3
<1>5. CASE FreeWriteBuffer /\ SetCompleted(call, st, FALSE)
           /\ (st \in Bad \/ isBroadcast)
  BY <1>3, <1>5, StatusValues
<1>6. ASSUME NEW v \in ResponseStatus(call), FreeWriteBuffer,
             SetCompleted(call, v, v = Good)
      PROVE  FrameOfOwner' /\ OwnAnswer' /\ GoodHasAnswer'
  <2>1. v \in Bad \union {Good}
    BY StatusValues DEF ResponseStatus
  <2> QED
    BY <1>3, <1>6, <2>1
<1> QED
  BY <1>4, <1>5, <1>6 DEF AttemptEnds

LEMMA StillProcessingExclusive ==
  ASSUME XInv, call # None, ReturnStillProcessing, ~Blocking
  PROVE  FrameOfOwner' /\ OwnAnswer' /\ GoodHasAnswer'
<1> USE TypeGroups DEF XInv, Inv
<1>1. call \in Issue /\ block /\ currentClient = call.client /\ written = call
      /\ call.client \in Client
  BY DEF Ownership, CallInProgress, CallTypes, FrameOfOwner, Issue
<1>2. UNCHANGED <<block, unit, written, currentClient>>
  BY DEF ReturnStillProcessing, requestVars
<1>3. call' = None /\ want' = [want EXCEPT ![call.client] = call.req]
      /\ ret'.st = Processing
  BY DEF ReturnStillProcessing, ReturnProcessing, Handed
<1>4. want'[call.client] = call.req
  BY <1>1, <1>3 DEF CallTypes
<1>5. FrameOfOwner'
  BY <1>1, <1>2, <1>3, <1>4, IssueExtensional DEF FrameOfOwner
<1>6. OwnAnswer' /\ GoodHasAnswer'
  BY <1>3, StatusValues DEF OwnAnswer, GoodHasAnswer
<1> QED
  BY <1>5, <1>6

LEMMA StayInCallExclusive ==
  ASSUME XInv, StayInCall
  PROVE  FrameOfOwner' /\ OwnAnswer' /\ GoodHasAnswer'
BY DEF XInv, StayInCall, requestVars, settingVars, FrameOfOwner, OwnAnswer,
       GoodHasAnswer

LEMMA FillBufferExclusive ==
  ASSUME XInv, NEW i \in Issue, FillBuffer(i), call = None,
         block => i = written
  PROVE  FrameOfOwner' /\ OwnAnswer' /\ GoodHasAnswer'
<1> USE TypeGroups DEF XInv, Inv
<1>1. i # None /\ i.client \in Client /\ i.client # None
  BY ClientAssumption DEF Issue
<1>2. CASE call' = i /\ currentClient' = i.client /\ ret' = NoReturn
           /\ written' = i /\ unit' = UnitOf(i.req)
  BY <1>1, <1>2, StatusValues
  DEF FrameOfOwner, OwnAnswer, GoodHasAnswer, NoReturn
<1>3. CASE ~block' /\ SetCompleted(i, BadPort, FALSE)
  <2>1. call' = None /\ ret'.st = BadPort
    BY <1>3 DEF SetCompleted, Handed
  <2> QED
    BY <1>3, <2>1, StatusValues DEF FrameOfOwner, OwnAnswer, GoodHasAnswer
<1>4. CASE block
  <2>1. UNCHANGED <<unit, written>> /\ unit = UnitOf(written.req)
    BY <1>4 DEF FillBuffer, requestVars, FrameOfOwner
  <2> QED
    BY <1>2, <1>4, <2>1 DEF FillBuffer
<1>5. CASE ~block
  <2>1. unit' = UnitOf(i.req)
    BY <1>5 DEF FillBuffer, UnitOf
  <2> QED
    BY <1>2, <1>3, <1>5, <2>1 DEF FillBuffer
<1> QED
  BY <1>4, <1>5

LEMMA CallsExclusive ==
  ASSUME XInv, NEW c \in Client, NEW q \in Request,
         \/ Enable(c, q) \/ EnableRefused(c, q)
         \/ Process(c, q) \/ Disable(c, q)
  PROVE  ~changed' /\ FrameOfOwner' /\ OwnAnswer' /\ GoodHasAnswer'
<1> USE TypeGroups DEF XInv, Inv
<1> DEFINE i == [client |-> c, req |-> q]
<1>1. i \in Issue /\ i.client = c /\ i.req = q
  BY DEF Issue
<1> HIDE DEF i
<1>2. UNCHANGED changed
  BY DEF Enable, EnableRefused, Process, Disable, FillBuffer, portVars
<1>3. CASE Enable(c, q)
  <2>1. call = None /\ ~block /\ FillBuffer(i)
    BY <1>3 DEF Enable, Polls, FrameOfOwner, i
  <2> QED
    BY <1>1, <1>2, <2>1, FillBufferExclusive
<1>4. CASE Process(c, q)
  <2>1. call = None /\ currentClient = c /\ FillBuffer(i) /\ c # None
        /\ want[c] \in {None, q}
    BY <1>4, ClientAssumption DEF Process, Polls, i
  <2>2. want[c] = q /\ block
    BY <2>1 DEF Ownership, OwnerPolls, OwnerHasFilledBuffer
  <2>3. written = i
    BY <2>1, <2>2 DEF FrameOfOwner, i
  <2> QED
    BY <1>1, <1>2, <2>1, <2>3, FillBufferExclusive
<1>5. CASE EnableRefused(c, q)
  <2>1. ~block /\ UNCHANGED block /\ SetCompleted(i, BadRequest, FALSE)
    BY <1>5 DEF EnableRefused, FrameOfOwner, requestVars, i
  <2>2. call' = None /\ ret'.st = BadRequest
    BY <2>1 DEF SetCompleted, Handed
  <2> QED
    BY <1>2, <2>1, <2>2, StatusValues
    DEF FrameOfOwner, OwnAnswer, GoodHasAnswer
<1>6. CASE Disable(c, q)
  <2>1. UNCHANGED <<block, unit, written, currentClient>> /\ call = None
        /\ currentClient \notin {None, c} /\ ReturnProcessing(i)
    BY <1>6 DEF Disable, Polls, requestVars, i
  <2>2. call' = None /\ ret'.st = Processing
        /\ \E v : want' = [want EXCEPT ![c] = v]
    BY <1>1, <2>1 DEF ReturnProcessing, Handed
  <2>3. want'[currentClient] = want[currentClient]
    BY <2>1, <2>2 DEF CallTypes
  <2>4. FrameOfOwner'
    BY <2>1, <2>2, <2>3 DEF FrameOfOwner
  <2> QED
    BY <1>2, <2>2, <2>4, StatusValues DEF OwnAnswer, GoodHasAnswer
<1> QED
  BY <1>3, <1>4, <1>5, <1>6

LEMMA StepExclusive ==
  ASSUME XInv, Step
  PROVE  ~changed' /\ FrameOfOwner' /\ OwnAnswer' /\ GoodHasAnswer'
<1> USE DEF XInv
<1>1. CASE FindOpen
  BY <1>1, StayInCallExclusive DEF FindOpen, portVars
<1>2. ASSUME NEW r \in PortResult, NEW up \in BOOLEAN, Open(r, up)
      PROVE  ~changed' /\ FrameOfOwner' /\ OwnAnswer' /\ GoodHasAnswer'
  <2>1. call # None /\ (r = Processing => ~Blocking) /\ ~changed'
    BY <1>2 DEF Open, InProcess, PortOpen
  <2> QED
    BY <1>2, <2>1, StillProcessingExclusive, AttemptEndsExclusive,
       StayInCallExclusive, StatusValues
    DEF Open
<1>3. ~ReopenChanged
  BY DEF ReopenChanged
<1>4. CASE WriteClosed
  BY <1>4, AttemptEndsExclusive, StatusValues DEF WriteClosed, InProcess
<1>5. ASSUME NEW r \in PortResult, Write(r)
      PROVE  ~changed' /\ FrameOfOwner' /\ OwnAnswer' /\ GoodHasAnswer'
  <2>1. call # None /\ (r = Processing => ~Blocking) /\ ~changed'
    BY <1>5 DEF Write, InProcess, PortTransfer
  <2> QED
    BY <1>5, <2>1, StillProcessingExclusive, AttemptEndsExclusive,
       StayInCallExclusive, StatusValues
    DEF Write
<1>6. ASSUME NEW r \in PortResult, NEW up \in BOOLEAN, Read(r, up)
      PROVE  ~changed' /\ FrameOfOwner' /\ OwnAnswer' /\ GoodHasAnswer'
  <2>1. call # None /\ (r = Processing => ~Blocking) /\ ~changed'
    BY <1>6 DEF Read, InProcess, PortTransfer
  <2> QED
    BY <1>6, <2>1, StillProcessingExclusive, AttemptEndsExclusive,
       StatusValues
    DEF Read
<1>7. CASE TimeoutOver
  BY <1>7, StayInCallExclusive DEF TimeoutOver, portVars
<1>8. CASE TimeoutRuns
  BY <1>8, StillProcessingExclusive DEF TimeoutRuns, InProcess, portVars
<1> QED
  BY <1>1, <1>2, <1>3, <1>4, <1>5, <1>6, <1>7, <1>8 DEF Step

LEMMA ManageExclusive ==
  ASSUME XInv, Exclusive, Manage
  PROVE  ~changed' /\ FrameOfOwner' /\ OwnAnswer' /\ GoodHasAnswer'
<1> USE DEF XInv
<1>1. \/ \E v \in 0..MaxTries : setTries(v)
      \/ \E b \in BOOLEAN : setBroadcastEnabled(b)
  BY DEF Manage, Manages, Exclusive, cancelRequest, close, setPort,
         ChangeSettings
<1>2. ASSUME NEW v \in 0..MaxTries, setTries(v)
      PROVE  ~changed' /\ FrameOfOwner' /\ OwnAnswer' /\ GoodHasAnswer'
  BY <1>2 DEF setTries, portVars, requestVars, FrameOfOwner, OwnAnswer,
              GoodHasAnswer
<1>3. ASSUME NEW b \in BOOLEAN, setBroadcastEnabled(b)
      PROVE  ~changed' /\ FrameOfOwner' /\ OwnAnswer' /\ GoodHasAnswer'
  BY <1>3, StatusValues
  DEF setBroadcastEnabled, portVars, requestVars, FrameOfOwner, OwnAnswer,
      GoodHasAnswer, NoReturn
<1> QED
  BY <1>1, <1>2, <1>3

LEMMA InitExclusive == Init => XInv
<1> SUFFICES ASSUME Init PROVE XInv
  OBVIOUS
<1> QED
  BY InitSafe, StatusValues
  DEF Init, XInv, FrameOfOwner, OwnAnswer, GoodHasAnswer, NoReturn

LEMMA NextExclusive ==
  ASSUME Exclusive
  PROVE  XInv /\ [Next]_vars => XInv'
<1> SUFFICES ASSUME XInv, [Next]_vars PROVE XInv'
  OBVIOUS
<1>1. Inv'
  BY NextSafe DEF XInv
<1>2. CASE UNCHANGED vars
  BY <1>1, <1>2
  DEF vars, portVars, requestVars, settingVars, XInv, FrameOfOwner, OwnAnswer,
      GoodHasAnswer
<1>3. CASE Next
  BY <1>1, <1>3, CallsExclusive, StepExclusive, ManageExclusive
  DEF Next, Calls, XInv
<1> QED
  BY <1>2, <1>3

(* ... and the stronger one as long as it leaves the request alone.        *)
THEOREM ExclusiveInvariance ==
  ASSUME Exclusive
  PROVE  Spec => []XInv
  BY InitExclusive, NextExclusive, PTL DEF Spec

(* As long as nobody cancels, closes, replaces or reconfigures, Good is the *)
(* outcome of the caller's own request.                                    *)
THEOREM OwnAnswerAlways ==
  ASSUME Exclusive
  PROVE  Spec => []OwnAnswer
<1>1. XInv => OwnAnswer
  BY DEF XInv
<1> QED
  BY <1>1, ExclusiveInvariance, PTL

(* ... and Good without a response is left to broadcasts.                  *)
THEOREM GoodHasAnswerAlways ==
  ASSUME Exclusive
  PROVE  Spec => []GoodHasAnswer
<1>1. XInv => GoodHasAnswer
  BY DEF XInv
<1> QED
  BY <1>1, ExclusiveInvariance, PTL

-----------------------------------------------------------------------------
(***************************************************************************)
(* Refinement: every step of the engine is one of the arbiter or changes   *)
(* nothing that the arbiter knows of.                                      *)
(***************************************************************************)

LEMMA AskedBetweenCalls == call = None /\ CallTypes => Asked = want
  BY DEF Asked, CallTypes

LEMMA AskedBetweenCallsNext == call' = None /\ CallTypes' => Asked' = want'
  BY DEF Asked, CallTypes

LEMMA FillBufferRefines ==
  ASSUME XInv, XInv', NEW c \in Client, NEW q \in Request, call = None,
         FillBuffer([client |-> c, req |-> q]),
         block => written = [client |-> c, req |-> q] /\ want[c] = q,
         want[c] \in {None, q}
  PROVE  Arbiter!Next
<1> USE TypeGroups, TypeGroupsNext DEF XInv, Inv
<1> DEFINE i == [client |-> c, req |-> q]
<1>1. i # None /\ i.client = c /\ i.req = q /\ i \in Issue
  BY ClientAssumption DEF Issue
<1>2. CallTypes /\ CallTypes' /\ want \in [Client -> Request \union {None}]
      /\ want' \in [Client -> Request \union {None}]
  BY DEF CallTypes, TypeOK
<1>3. Asked = want
  BY <1>2, AskedBetweenCalls
<1>4. CASE call' = i /\ want' = want /\ ret' = NoReturn
           /\ written' = i /\ block'
  <2>1. Asked' = [Asked EXCEPT ![c] = q]
    BY <1>1, <1>2, <1>3, <1>4 DEF Asked
  <2>2. Result' = None /\ Served' = i
    BY <1>4, StatusValues DEF Result, NoReturn, Served
  <2>3. CASE ~block
    <3>1. Served = None
      BY <2>3 DEF Served
    <3>2. Arbiter!Serve(c, q)
      BY <1>3, <2>1, <2>2, <3>1 DEF Arbiter!Serve
    <3> QED
      BY <3>2 DEF Arbiter!Next
  <2>4. CASE block
    <3>1. Asked' = Asked
      BY <1>2, <1>3, <2>1, <2>4
    <3>2. Served' = Served
      BY <2>2, <2>4 DEF Served
    <3> QED
      BY <2>2, <3>1, <3>2 DEF Arbiter!Next, Arbiter!Forget
  <2> QED
    BY <2>3, <2>4
<1>5. CASE ~block /\ ~block' /\ SetCompleted(i, BadPort, FALSE)
  <2>1. call' = None /\ want' = [want EXCEPT ![c] = None] /\ ret'.st = BadPort
    BY <1>1, <1>5 DEF SetCompleted, Handed
  <2>2. Asked' = [Asked EXCEPT ![c] = None]
    BY <1>2, <1>3, <2>1, AskedBetweenCallsNext
  <2>3. Result' = None /\ Served = None /\ Served' = None
    BY <1>5, <2>1, StatusValues DEF Result, Served
  <2>4. Arbiter!Refuse(c)
    BY <2>2, <2>3 DEF Arbiter!Refuse
  <2> QED
    BY <2>4 DEF Arbiter!Next
<1>6. CASE block
  BY <1>4, <1>6 DEF FillBuffer, requestVars
<1>7. CASE ~block
  BY <1>4, <1>5, <1>7 DEF FillBuffer
<1> QED
  BY <1>6, <1>7

LEMMA CallsRefine ==
  ASSUME XInv, XInv', NEW c \in Client, NEW q \in Request,
         \/ Enable(c, q) \/ EnableRefused(c, q)
         \/ Process(c, q) \/ Disable(c, q)
  PROVE  Arbiter!Next
<1> USE TypeGroups, TypeGroupsNext DEF XInv, Inv
<1> DEFINE i == [client |-> c, req |-> q]
<1>1. i \in Issue /\ i.client = c /\ i.req = q /\ c # None /\ q # None
  BY ClientAssumption DEF Issue
<1>2. call = None /\ want[c] \in {None, q}
  BY DEF Enable, EnableRefused, Process, Disable, Polls
<1>3. CallTypes /\ CallTypes' /\ want \in [Client -> Request \union {None}]
      /\ want' \in [Client -> Request \union {None}]
  BY DEF CallTypes, TypeOK
<1>4. Asked = want
  BY <1>2, <1>3, AskedBetweenCalls
<1>5. CASE Enable(c, q)
  <2>1. ~block /\ FillBuffer(i)
    BY <1>5 DEF Enable, FrameOfOwner
  <2> QED
    BY <1>2, <2>1, FillBufferRefines
<1>6. CASE Process(c, q)
  <2>1. currentClient = c /\ FillBuffer(i)
    BY <1>6 DEF Process
  <2>2. want[c] = q /\ block
    BY <1>1, <1>2, <2>1 DEF Ownership, OwnerPolls, OwnerHasFilledBuffer
  <2>3. written = i
    BY <1>2, <2>1, <2>2 DEF FrameOfOwner
  <2> QED
    BY <1>2, <2>1, <2>2, <2>3, FillBufferRefines
<1>7. CASE EnableRefused(c, q)
  <2>1. ~block /\ ~block' /\ SetCompleted(i, BadRequest, FALSE)
    BY <1>7 DEF EnableRefused, FrameOfOwner, requestVars
  <2>2. call' = None /\ want' = [want EXCEPT ![c] = None]
        /\ ret'.st = BadRequest
    BY <1>1, <2>1 DEF SetCompleted, Handed
  <2>3. Asked' = [Asked EXCEPT ![c] = None]
    BY <1>3, <1>4, <2>2, AskedBetweenCallsNext
  <2>4. Result' = None /\ Served = None /\ Served' = None
    BY <2>1, <2>2, StatusValues DEF Result, Served
  <2>5. Arbiter!Refuse(c)
    BY <2>3, <2>4 DEF Arbiter!Refuse
  <2> QED
    BY <2>5 DEF Arbiter!Next
<1>8. CASE Disable(c, q)
  <2>1. UNCHANGED <<block, written>> /\ currentClient # None
        /\ ReturnProcessing(i)
    BY <1>8 DEF Disable, requestVars
  <2>2. ~Blocking
    BY <1>2, <2>1 DEF Ownership, BlockingReleases
  <2>3. call' = None /\ want' = [want EXCEPT ![c] = q] /\ ret'.st = Processing
    BY <1>1, <2>1, <2>2 DEF ReturnProcessing, Handed
  <2>4. Asked' = [Asked EXCEPT ![c] = q]
    BY <1>3, <1>4, <2>3, AskedBetweenCallsNext
  <2>5. Result' = None /\ Served' = Served
    BY <2>1, <2>3, StatusValues DEF Result, Served
  <2>6. CASE want[c] = None
    <3>1. Arbiter!Ask(c, q)
      BY <1>4, <2>4, <2>5, <2>6 DEF Arbiter!Ask
    <3> QED
      BY <3>1 DEF Arbiter!Next
  <2>7. CASE want[c] = q
    <3>1. Asked' = Asked
      BY <1>3, <1>4, <2>4, <2>7
    <3> QED
      BY <2>5, <3>1 DEF Arbiter!Next, Arbiter!Forget
  <2> QED
    BY <1>2, <2>6, <2>7
<1> QED
  BY <1>5, <1>6, <1>7, <1>8

LEMMA StillProcessingRefines ==
  ASSUME XInv, XInv', call # None, call' = None, ~Blocking,
         ReturnProcessing(call), UNCHANGED <<block, written>>
  PROVE  Arbiter!Next
<1> USE TypeGroups, TypeGroupsNext DEF XInv, Inv
<1>1. call \in Issue /\ call.client \in Client /\ call.req \in Request
  BY DEF CallTypes, Issue
<1>2. CallTypes /\ CallTypes' /\ want \in [Client -> Request \union {None}]
      /\ want' \in [Client -> Request \union {None}]
  BY DEF CallTypes, TypeOK
<1>3. want' = [want EXCEPT ![call.client] = call.req] /\ ret'.st = Processing
  BY DEF ReturnProcessing, Handed
<1>4. Asked' = want'
  BY <1>2, AskedBetweenCallsNext
<1>5. Asked = want'
  BY <1>1, <1>2, <1>3 DEF Asked
<1>6. Served' = Served /\ Result' = None
  BY <1>3, StatusValues DEF Served, Result
<1> QED
  BY <1>4, <1>5, <1>6 DEF Arbiter!Next, Arbiter!Forget

LEMMA AttemptEndsRefines ==
  ASSUME XInv, XInv', call # None, NEW st \in Bad \union {Good},
         AttemptEnds(st)
  PROVE  Arbiter!Next \/ UNCHANGED Arbiter!vars
<1> USE TypeGroups, TypeGroupsNext DEF XInv, Inv
<1>1. call \in Issue /\ call.client \in Client /\ call.req \in Request
      /\ block /\ written = call
  BY DEF CallTypes, Issue, Ownership, CallInProgress, FrameOfOwner
<1>2. UNCHANGED written
  BY DEF AttemptEnds
<1>3. CASE Repeat(st)
  <2>1. UNCHANGED block
    BY <1>3 DEF Repeat
  <2>2. CASE Blocking
    <3>1. UNCHANGED <<call, want, ret>>
      BY <1>3, <2>2 DEF Repeat
    <3> QED
      BY <1>2, <2>1, <3>1 DEF Arbiter!vars, Asked, Served, Result
  <2>3. CASE ~Blocking
    <3>1. ReturnProcessing(call) /\ call' = None
      BY <1>3, <2>3 DEF Repeat, ReturnProcessing
    <3> QED
      BY <1>2, <2>1, <2>3, <3>1, StillProcessingRefines
  <2> QED
    BY <2>2, <2>3
<1>4. ASSUME NEW v, NEW answered, FreeWriteBuffer,
             SetCompleted(call, v, answered)
      PROVE  Arbiter!Next
  <2>1. call' = None /\ want' = [want EXCEPT ![call.client] = None] /\ ~block'
    BY <1>4 DEF SetCompleted, FreeWriteBuffer
  <2>2. ret'.st = v /\ ret'.client = call.client /\ ret'.req = call.req
    BY <1>4 DEF SetCompleted, Handed
  <2>3. CallTypes' /\ want \in [Client -> Request \union {None}]
    BY DEF CallTypes, TypeOK
  <2>4. Asked' = want'
    BY <2>1, <2>3, AskedBetweenCallsNext
  <2>5. Asked' = [Asked EXCEPT ![call.client] = None]
    BY <1>1, <2>1, <2>3, <2>4 DEF Asked
  <2>6. Served = call /\ Served' = None
    BY <1>1, <2>1 DEF Served
  <2>7. Result' \in {call, None}
    BY <1>1, <2>2, IssueExtensional DEF Result
  <2>8. Arbiter!Finish
    BY <2>5, <2>6, <2>7 DEF Arbiter!Finish
  <2> QED
    BY <2>8 DEF Arbiter!Next
<1> QED
  BY <1>3, <1>4 DEF AttemptEnds

LEMMA StepRefines ==
  ASSUME XInv, XInv', Step
  PROVE  Arbiter!Next \/ UNCHANGED Arbiter!vars
<1>1. ASSUME StayInCall
      PROVE  UNCHANGED Arbiter!vars
  BY <1>1 DEF StayInCall, requestVars, Arbiter!vars, Asked, Served, Result
<1>2. ASSUME call # None, ReturnStillProcessing, ~Blocking
      PROVE  Arbiter!Next
  BY <1>2, StillProcessingRefines
  DEF ReturnStillProcessing, requestVars, ReturnProcessing
<1>3. CASE FindOpen
  BY <1>1, <1>3 DEF FindOpen
<1>4. ASSUME NEW r \in PortResult, NEW up \in BOOLEAN, Open(r, up)
      PROVE  Arbiter!Next \/ UNCHANGED Arbiter!vars
  <2>1. call # None /\ (r = Processing => ~Blocking)
    BY <1>4 DEF Open, InProcess, PortOpen
  <2> QED
    BY <1>1, <1>2, <1>4, <2>1, AttemptEndsRefines, StatusValues DEF Open
<1>5. ~ReopenChanged
  BY DEF ReopenChanged, XInv
<1>6. CASE WriteClosed
  BY <1>6, AttemptEndsRefines, StatusValues DEF WriteClosed, InProcess
<1>7. ASSUME NEW r \in PortResult, Write(r)
      PROVE  Arbiter!Next \/ UNCHANGED Arbiter!vars
  <2>1. call # None /\ (r = Processing => ~Blocking)
    BY <1>7 DEF Write, InProcess, PortTransfer
  <2> QED
    BY <1>1, <1>2, <1>7, <2>1, AttemptEndsRefines, StatusValues DEF Write
<1>8. ASSUME NEW r \in PortResult, NEW up \in BOOLEAN, Read(r, up)
      PROVE  Arbiter!Next \/ UNCHANGED Arbiter!vars
  <2>1. call # None /\ (r = Processing => ~Blocking)
    BY <1>8 DEF Read, InProcess, PortTransfer
  <2> QED
    BY <1>2, <1>8, <2>1, AttemptEndsRefines, StatusValues DEF Read
<1>9. CASE TimeoutOver
  BY <1>1, <1>9 DEF TimeoutOver
<1>10. CASE TimeoutRuns
  BY <1>2, <1>10 DEF TimeoutRuns, InProcess
<1> QED
  BY <1>3, <1>4, <1>5, <1>6, <1>7, <1>8, <1>9, <1>10 DEF Step

LEMMA ManageRefines ==
  ASSUME XInv, Exclusive, Manage
  PROVE  Arbiter!Next \/ UNCHANGED Arbiter!vars
<1>1. \/ \E v \in 0..MaxTries : setTries(v)
      \/ \E b \in BOOLEAN : setBroadcastEnabled(b)
  BY DEF Manage, Manages, Exclusive, cancelRequest, close, setPort,
         ChangeSettings
<1>2. ASSUME NEW v \in 0..MaxTries, setTries(v)
      PROVE  UNCHANGED Arbiter!vars
  BY <1>2 DEF setTries, requestVars, Arbiter!vars, Asked, Served, Result
<1>3. ASSUME NEW b \in BOOLEAN, setBroadcastEnabled(b)
      PROVE  Arbiter!Next
  BY <1>3, StatusValues
  DEF setBroadcastEnabled, requestVars, NoReturn, Asked, Served, Result,
      Arbiter!Next, Arbiter!Forget
<1> QED
  BY <1>1, <1>2, <1>3

LEMMA InitRefines == Init => Arbiter!Init
  BY StatusValues
  DEF Init, NoReturn, Asked, Served, Result, Arbiter!Init

(* As long as nobody cancels, closes, replaces or reconfigures, the port   *)
(* serves one request at a time, each from start to end.                   *)
THEOREM ServesOneAtATimeAlways ==
  ASSUME Exclusive
  PROVE  Spec => ServesOneAtATime
<1>1. XInv /\ XInv' /\ [Next]_vars => [Arbiter!Next]_Arbiter!vars
  <2> SUFFICES ASSUME XInv, XInv', [Next]_vars
               PROVE  Arbiter!Next \/ UNCHANGED Arbiter!vars
    OBVIOUS
  <2>1. CASE UNCHANGED vars
    BY <2>1 DEF vars, requestVars, Arbiter!vars, Asked, Served, Result
  <2>2. CASE Next
    BY <2>2, CallsRefine, StepRefines, ManageRefines DEF Next, Calls
  <2> QED
    BY <2>1, <2>2
<1> QED
  BY <1>1, InitRefines, ExclusiveInvariance, PTL
  DEF Spec, ServesOneAtATime, Arbiter!Spec

-----------------------------------------------------------------------------
(***************************************************************************)
(* A call on a blocking port returns a result.  Without ChangeSettings and *)
(* setPort nothing changes the settings of an open port, so no call meets  *)
(* the close that would make it return early (blocking_change.cfg).        *)
(***************************************************************************)
Waits == ~changed /\ (call # None => ret.client = None)

(* A request that is completed is completed with an error or with Good.    *)
LEMMA CompletedWaits ==
  ASSUME NEW i, NEW st \in Bad \union {Good}, NEW answered, SetCompleted(i, st, answered)
  PROVE  call' = None /\ BlockingCompletes'
<1>1. call' = None /\ ret'.st = st
  BY DEF SetCompleted, Handed
<1>2. st # Processing
  BY StatusValues
<1> QED
  BY <1>1, <1>2 DEF BlockingCompletes

(* A failed attempt with tries left goes on in the same call.              *)
LEMMA AttemptEndsWaits ==
  ASSUME Blocking, Waits, BlockingCompletes, call # None,
         NEW st \in Bad \union {Good}, AttemptEnds(st)
  PROVE  (call' # None => ret'.client = None) /\ BlockingCompletes'
<1>1. CASE Repeat(st)
  BY <1>1 DEF Repeat, Waits, BlockingCompletes
<1>2. CASE SetCompleted(call, st, FALSE)
  BY <1>2, CompletedWaits
<1>3. CASE \E v \in ResponseStatus(call) : SetCompleted(call, v, v = Good)
  <2>1. PICK v \in ResponseStatus(call) : SetCompleted(call, v, v = Good)
    BY <1>3
  <2>2. v \in Bad \union {Good}
    BY <2>1, StatusValues DEF ResponseStatus
  <2> QED
    BY <2>1, <2>2, CompletedWaits
<1> QED
  BY <1>1, <1>2, <1>3 DEF AttemptEnds

LEMMA NextWaits ==
  ASSUME Blocking, {"change", "setPort"} \intersect Management = {},
         Inv, Waits, BlockingCompletes, [Next]_vars
  PROVE  Waits' /\ BlockingCompletes'
<1>1. ASSUME NEW c \in Client, NEW q \in Request,
             Enable(c, q) \/ EnableRefused(c, q) \/ Process(c, q) \/ Disable(c, q)
      PROVE  Waits' /\ BlockingCompletes'
  <2>1. call = None
    BY <1>1 DEF Enable, EnableRefused, Process, Disable, Polls
  <2>2. currentClient = None
    BY <2>1 DEF Inv, Ownership, BlockingReleases
  <2>3. UNCHANGED changed
    BY <1>1 DEF Enable, EnableRefused, Process, Disable, FillBuffer, portVars
  <2>4. Enable(c, q) \/ EnableRefused(c, q)
    BY <1>1, <2>2, ClientAssumption DEF Process, Disable
  <2> DEFINE i == [client |-> c, req |-> q]
  <2>5. SetCompleted(i, BadPort, FALSE) \/ SetCompleted(i, BadRequest, FALSE)
          \/ ret' = NoReturn
    BY <2>4 DEF Enable, EnableRefused, FillBuffer
  <2>6. CASE ret' = NoReturn
    BY <2>3, <2>6 DEF Waits, BlockingCompletes, NoReturn
  <2>7. CASE SetCompleted(i, BadPort, FALSE)
    BY <2>3, <2>7, StatusValues, CompletedWaits DEF Waits
  <2>8. CASE SetCompleted(i, BadRequest, FALSE)
    BY <2>3, <2>8, StatusValues, CompletedWaits DEF Waits
  <2> QED
    BY <2>5, <2>6, <2>7, <2>8
<1>2. CASE Step
  <2>1. call # None /\ ret.client = None
    BY <1>2
    DEF Step, FindOpen, Open, ReopenChanged, WriteClosed, Write, Read, TimeoutOver,
        TimeoutRuns, InProcess, Waits
  <2>2. ~changed'
    BY <1>2
    DEF Step, FindOpen, Open, ReopenChanged, WriteClosed, Write, Read, TimeoutOver,
        TimeoutRuns, InProcess, Waits, PortOpen, PortTransfer, PortClose, portVars
  <2>3. \/ \E st \in Bad \union {Good} : AttemptEnds(st)
        \/ UNCHANGED <<call, ret>>
    <3>1. BadPort \in Bad /\ BadPortClosed \in Bad
      BY StatusValues
    <3> QED
      BY <1>2, <3>1
      DEF Step, FindOpen, Open, ReopenChanged, WriteClosed, Write, Read, TimeoutOver,
          TimeoutRuns, Waits, PortOpen, PortTransfer, StayInCall
  <2>4. CASE \E st \in Bad \union {Good} : AttemptEnds(st)
    BY <2>1, <2>2, <2>4, AttemptEndsWaits DEF Waits
  <2>5. CASE UNCHANGED <<call, ret>>
    BY <2>2, <2>5 DEF Waits, BlockingCompletes
  <2> QED
    BY <2>3, <2>4, <2>5
<1>3. CASE Manage
  <2>1. changed' = changed /\ call' = call
    BY <1>3
    DEF Manage, Manages, cancelRequest, close, setPort, ChangeSettings, setTries,
        setBroadcastEnabled, PortClose, portVars
  <2>2. ret' = ret \/ ret' = NoReturn
    BY <1>3
    DEF Manage, cancelRequest, close, setPort, ChangeSettings, setTries, setBroadcastEnabled
  <2> QED
    BY <2>1, <2>2 DEF Waits, BlockingCompletes, NoReturn
<1>4. CASE UNCHANGED vars
  BY <1>4 DEF Waits, BlockingCompletes, vars, portVars
<1> QED
  BY <1>1, <1>2, <1>3, <1>4 DEF Next, Calls

(* In blocking mode a method waits until the operation completes, as long  *)
(* as the settings of the port stay as they are and it is not replaced.    *)
THEOREM BlockingCompletesAlways ==
  ASSUME {"change", "setPort"} \intersect Management = {}
  PROVE  Spec => []BlockingCompletes
<1>1. CASE Blocking
  <2>1. Init => Waits /\ BlockingCompletes
    BY DEF Init, Waits, BlockingCompletes, NoReturn
  <2>2. Inv /\ Waits /\ BlockingCompletes /\ [Next]_vars => Waits' /\ BlockingCompletes'
    BY <1>1, NextWaits
  <2> QED
    BY <2>1, <2>2, Invariance, PTL DEF Spec
<1>2. CASE ~Blocking
  <2>1. BlockingCompletes
    BY <1>2 DEF BlockingCompletes
  <2> QED
    BY <2>1, PTL
<1> QED
  BY <1>1, <1>2
=============================================================================
