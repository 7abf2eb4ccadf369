--------------------------- MODULE ModbusExchange ---------------------------
(***************************************************************************)
(* A request function of ModbusClientPort, the server engine that answers  *)
(* it, and the devices of the examples: what happens to the data on the    *)
(* way there and back, over a connection that loses nothing.  (Polling,    *)
(* retries and what a connection may lose are ModbusClientPort's,          *)
(* ModbusServerResource's and ModbusTransport's.)                          *)
(***************************************************************************)
EXTENDS ModbusServerFunctions, ModbusMemory

CONSTANTS
  DeviceUnit,   \* the unit of the device
  Devices,      \* devices, each with the memories it has at first:
                \* kind, table by function, bits and mem by table
  Garbage,      \* words and a valueBuff nothing has initialised
  Rounds,       \* the requests of the first call, of the second, ...
  Told          \* what the device tells of itself: words and bytes

Octet == 0..255
Short == 0..65535

(* The fields of the server engine, all of them integers, and its          *)
(* valueBuff.  A device tells words of 16 bits, and bytes as many as       *)
(* valueBuff takes.                                                        *)
Fields(buff) == [unit : Int, func : Int, offset : Int, count : Int, andMask : Int,
                 orMask : Int, valueBuff : {buff}]
Telltales ==
  {t \in [words : Seq(Short), bytes : Seq(Octet)] :
     Len(t.words) = 3 /\ Len(t.bytes) <= ValueBuffSz}

ASSUME UnitAssumption == DeviceUnit \in 1..255
ASSUME GarbageAssumption ==
  \A g \in Garbage :
    /\ g \in Fields(g.valueBuff)
    /\ g.valueBuff = [i \in 1..ValueBuffSz |-> g.valueBuff[i]]
ASSUME ToldAssumption == Told \subseteq Telltales

VARIABLES
  device,       \* which device it is
  mem,          \* its memories
  srv,          \* the fields of the server engine
  stage,        \* where the request is
  turn,         \* how many requests were made
  asked,        \* the request
  wire,         \* the message under way: unit, func and data
  status,       \* r of the server engine
  given,        \* whether the device was called, and what it gave out
  result        \* what the client function returned and wrote

vars == <<device, mem, srv, stage, turn, asked, wire, status, given, result>>

DataMax == 260   \* what a frame of any protocol carries
Nobody == [name |-> "nobody", unit |-> 0]
Nothing == [called |-> FALSE, status |-> Good, out |-> <<>>]

-----------------------------------------------------------------------------
(* The functions of the client by name: diagnostics, bits and registers    *)
(* one by one, the others.                                                 *)
DiagnosticFunction(q, r) ==
  CASE q.name = "returnQueryData" -> diagnosticsReturnQueryData(q, r)
    [] q.name = "restartCommunicationsOption" -> diagnosticsRestartCommunicationsOption(q, r)
    [] q.name = "returnDiagnosticRegister" -> diagnosticsReturnDiagnosticRegister(q, r)
    [] q.name = "changeAsciiInputDelimiter" -> diagnosticsChangeAsciiInputDelimiter(q, r)
    [] q.name = "forceListenOnlyMode" -> diagnosticsForceListenOnlyMode(q, r)
    [] q.name = "clearCounters" -> diagnosticsClearCountersAndDiagnosticRegister(q, r)
    [] q.name = "returnBusMessageCount" -> diagnosticsReturnBusMessageCount(q, r)
    [] q.name = "returnBusCommunicationErrorCount" ->
         diagnosticsReturnBusCommunicationErrorCount(q, r)
    [] q.name = "returnBusExceptionErrorCount" -> diagnosticsReturnBusExceptionErrorCount(q, r)
    [] q.name = "returnServerMessageCount" -> diagnosticsReturnServerMessageCount(q, r)
    [] q.name = "returnServerNoResponseCount" -> diagnosticsReturnServerNoResponseCount(q, r)
    [] q.name = "returnServerNAKCount" -> diagnosticsReturnServerNAKCount(q, r)
    [] q.name = "returnServerBusyCount" -> diagnosticsReturnServerBusyCount(q, r)
    [] q.name = "returnBusCharacterOverrunCount" ->
         diagnosticsReturnBusCharacterOverrunCount(q, r)
    [] q.name = "clearOverrunCounterAndFlag" -> diagnosticsClearOverrunCounterAndFlag(q, r)

MemoryFunction(q, r) ==
  CASE q.name = "readCoils" -> readCoils(q, r)
    [] q.name = "readCoilsAsBoolArray" -> readCoilsAsBoolArray(q, r)
    [] q.name = "readDiscreteInputs" -> readDiscreteInputs(q, r)
    [] q.name = "readDiscreteInputsAsBoolArray" -> readDiscreteInputsAsBoolArray(q, r)
    [] q.name = "readHoldingRegisters" -> readHoldingRegisters(q, r)
    [] q.name = "readInputRegisters" -> readInputRegisters(q, r)
    [] q.name = "writeSingleCoil" -> writeSingleCoil(q, r)
    [] q.name = "writeSingleRegister" -> writeSingleRegister(q, r)
    [] q.name = "readExceptionStatus" -> readExceptionStatus(q, r)
    [] OTHER -> DiagnosticFunction(q, r)

Function(q, r) ==
  CASE q.name = "getCommEventCounter" -> getCommEventCounter(q, r)
    [] q.name = "getCommEventLog" -> getCommEventLog(q, r)
    [] q.name = "writeMultipleCoils" -> writeMultipleCoils(q, r)
    [] q.name = "writeMultipleCoilsAsBoolArray" -> writeMultipleCoilsAsBoolArray(q, r)
    [] q.name = "writeMultipleRegisters" -> writeMultipleRegisters(q, r)
    [] q.name = "reportServerID" -> reportServerID(q, r)
    [] q.name = "readFileRecord" -> readFileRecord(q, r)
    [] q.name = "writeFileRecord" -> writeFileRecord(q, r)
    [] q.name = "maskWriteRegister" -> maskWriteRegister(q, r)
    [] q.name = "readWriteMultipleRegisters" -> readWriteMultipleRegisters(q, r)
    [] q.name = "readFIFOQueue" -> readFIFOQueue(q, r)
    [] q.name = "readDeviceIdentification" -> readDeviceIdentification(q, r)
    [] OTHER -> MemoryFunction(q, r)

(* The calls that a caller may make of them: arguments of the types that   *)
(* ModbusClientPort.h declares, and arrays as long as the counts say.      *)
BitCalls == [name : {"readCoils", "readCoilsAsBoolArray", "readDiscreteInputs",
                     "readDiscreteInputsAsBoolArray"},
             unit : Octet, offset : Short, count : Short]
RegisterCalls == [name : {"readHoldingRegisters", "readInputRegisters"},
                  unit : Octet, offset : Short, count : Short]
CoilCalls == [name : {"writeSingleCoil"}, unit : Octet, offset : Short, value : BOOLEAN]
ValueCalls == [name : {"writeSingleRegister"}, unit : Octet, offset : Short, value : Short]
PlainCalls == [name : {"readExceptionStatus", "getCommEventCounter", "getCommEventLog",
                       "reportServerID"},
               unit : Octet]
QueryCalls == [name : {"returnQueryData"}, unit : Octet, values : Seq(Octet)]
ResetCalls == [name : {"restartCommunicationsOption"}, unit : Octet, value : BOOLEAN]
DelimiterCalls == [name : {"changeAsciiInputDelimiter"}, unit : Octet, delimiter : Octet]
DiagnosticCalls ==
  [name : {"returnDiagnosticRegister", "forceListenOnlyMode", "clearCounters",
           "returnBusMessageCount", "returnBusCommunicationErrorCount",
           "returnBusExceptionErrorCount", "returnServerMessageCount",
           "returnServerNoResponseCount", "returnServerNAKCount",
           "returnServerBusyCount", "returnBusCharacterOverrunCount",
           "clearOverrunCounterAndFlag"},
   unit : Octet]
PackedCalls ==
  {q \in [name : {"writeMultipleCoils"}, unit : Octet, offset : Short, count : Short,
          values : Seq(Octet)] : Len(q.values) = ByteCount(q.count)}
BoolCalls ==
  {q \in [name : {"writeMultipleCoilsAsBoolArray"}, unit : Octet, offset : Short,
          count : Short, values : Seq(0..1)] : Len(q.values) = q.count}
WriteCalls ==
  {q \in [name : {"writeMultipleRegisters"}, unit : Octet, offset : Short, count : Short,
          values : Seq(Short)] : Len(q.values) = q.count}
MaskCalls == [name : {"maskWriteRegister"}, unit : Octet, offset : Short,
              andMask : Short, orMask : Short]
ReadWriteCalls ==
  {q \in [name : {"readWriteMultipleRegisters"}, unit : Octet, offset : Short,
          count : Short, writeOffset : Short, writeCount : Short, values : Seq(Short)] :
     Len(q.values) = q.writeCount}
QueueCalls == [name : {"readFIFOQueue"}, unit : Octet, offset : Short]
IdentityCalls == [name : {"readDeviceIdentification"}, unit : Octet, code : Octet,
                  object : Octet]
FileRecord ==
  {rec \in [file : Short, number : Short, length : Short, values : Seq(Short)] :
     Len(rec.values) = rec.length}
FileCalls == [name : {"readFileRecord", "writeFileRecord"}, unit : Octet,
              records : Seq(FileRecord)]
Calls ==
  BitCalls \union RegisterCalls \union CoilCalls \union ValueCalls \union PlainCalls
    \union QueryCalls \union ResetCalls \union DelimiterCalls \union DiagnosticCalls
    \union PackedCalls \union BoolCalls \union WriteCalls \union MaskCalls
    \union ReadWriteCalls \union QueueCalls \union IdentityCalls \union FileCalls

ASSUME RoundsAssumption == Rounds \in Seq(SUBSET Calls)

(* The names of the memories say where their bits begin in a numbering of  *)
(* all bits; no request reaches from one memory into the next.             *)
NoTable == 0

MemoryFunctions == {1, 2, 3, 4, 5, 6, 7, 15, 16, 22, 23}

(* An exception carries one byte: the standard code, or 4.                 *)
Exceptions == <<"BadIllegalFunction", "BadIllegalDataAddress", "BadIllegalDataValue",
                "BadServerDeviceFailure">>
Code(s) == IF s \in ToSet(Exceptions) THEN CHOOSE c \in 1..4 : Exceptions[c] = s ELSE 4

-----------------------------------------------------------------------------
(* The devices.  Both examples serve memories, for their own unit only:    *)
(* the demo server one for all functions, mbserver.c up to four, and it    *)
(* has no functions for those it lacks.                                    *)

(* mbserver.c with c0 coils, c1 discrete inputs, c3 input and c4 holding   *)
(* registers, a memory for each that it has any of, and the functions for  *)
(* these.                                                                  *)
Table(k) == k * 2^21
device_init(c0, c1, c3, c4) ==
  LET bits == <<c0, c1, 16 * c3, 16 * c4>>
      has == {k \in 1..4 : bits[k] > 0}
  IN [kind |-> "mbserver",
      table |-> [f \in MemoryFunctions |-> CASE f \in {1, 5, 7, 15} -> Table(1)
                                             [] f = 2 -> Table(2)
                                             [] f = 4 -> Table(3)
                                             [] OTHER -> Table(4)],
      bits |-> [t \in {Table(k) : k \in has} |-> bits[CHOOSE k \in has : t = Table(k)]],
      mem |-> [t \in {Table(k) : k \in has} |->
                 [b \in 0..(ByteCount(bits[CHOOSE k \in has : t = Table(k)]) - 1) |-> 0]]]
functions(d) == {f \in MemoryFunctions : d.table[f] \in DOMAIN d.bits}

(* The demo server has a memory for every function on memories.            *)
ASSUME DevicesAssumption ==
  \A d \in Devices : d.kind # "mbserver" => functions(d) = MemoryFunctions

(* A function on the memory of a table.                                    *)
MemoryOperation(s, k, bits) ==
  CASE s.func \in {1, 2} -> readBits(k, bits, s.offset, s.count)
    [] s.func \in {3, 4} -> readRegs(k, bits, s.offset, s.count)
    [] s.func = 5 -> writeBits(k, bits, s.offset, 1, <<IF s.valueBuff[1] # 0 THEN 1 ELSE 0>>)
    [] s.func = 6 -> writeRegs(k, bits, s.offset, 1, s.valueBuff)
    [] s.func = 7 -> IF device.kind = "demoserver" THEN readStatus(k, bits)
                     ELSE device_readExceptionStatus(k)
    [] s.func = 15 -> writeBits(k, bits, s.offset, s.count, s.valueBuff)
    [] s.func = 16 -> writeRegs(k, bits, s.offset, s.count, s.valueBuff)
    [] s.func = 22 -> maskRegister(k, bits, s.offset, s.andMask, s.orMask)
    [] s.func = 23 -> readWriteRegs(k, bits, s.offset, s.count, s.andMask, s.orMask,
                                    s.valueBuff)
MemoryCall(s, m) ==
  LET t == device.table[s.func]
      r == MemoryOperation(s, m[t], device.bits[t])
  IN IF s.unit # DeviceUnit THEN Failed(m, GatewayPathUnavailable)
     ELSE [r EXCEPT !.mem = [m EXCEPT ![t] = r.mem]]

(* The fields a device fills in when it tells t.                           *)
Inform(s, t) ==
  LET bytes == Put(s, 0, t.bytes)
      all == [bytes EXCEPT !.orMask = WithLow(@, Len(t.bytes))]
  IN CASE s.func = 8 ->
            IF s.offset = 0 THEN [s EXCEPT !.orMask = WithLow(@, Low(s.count))]
            ELSE IF s.offset \in {1, 3, 4, 10, 20} THEN s
            ELSE Put(s, 0, Native(t.words[1]))
       [] s.func = 11 -> [s EXCEPT !.offset = t.words[1], !.count = t.words[2]]
       [] s.func = 12 -> [all EXCEPT !.offset = t.words[1], !.count = t.words[2],
                                     !.andMask = t.words[3]]
       [] s.func = 17 -> all
       [] s.func = 20 -> Put(s, FileAt(s), [i \in 1..RecordBefore(s, RecordsCount(s) + 1) |->
                                              (t.words[1] + i) % 256])
       [] s.func = 21 -> s
       [] s.func = 24 -> [bytes EXCEPT !.count = Len(t.bytes) \div 2]
       [] s.func = 43 -> [all EXCEPT !.count = t.words[2],
                                     !.andMask = t.words[3]]

(* What that tells a client that asks for it (and what a device that files *)
(* are written to has been told).                                          *)
EventLog(t) == t.words \o t.bytes
Identification(t) ==
  <<High(t.words[2]), IF Low(t.words[3]) # 0 THEN 255 ELSE 0, High(t.words[3]),
    Low(t.words[2])>> \o t.bytes
Information(s, t) ==
  CASE s.func = 8 -> IF s.offset = 0 THEN Buff(s, 0, s.count)
                     ELSE IF s.offset \in {1, 3, 4, 10, 20} THEN <<>> ELSE <<t.words[1]>>
    [] s.func = 11 -> SubSeq(t.words, 1, 2)
    [] s.func = 12 -> EventLog(t)
    [] s.func = 17 -> t.bytes
    [] s.func = 20 -> Words(Swapped([i \in 1..RecordBefore(s, RecordsCount(s) + 1) |->
                                       (t.words[1] + i) % 256]))
    [] s.func = 21 -> Words(Swapped(Buff(s, FileAt(s), Low(s.orMask))))
    [] s.func = 24 -> Words(Swapped(t.bytes))
    [] s.func = 43 -> Identification(t)

(* A function that a device does not have.                                 *)
ModbusInterface(s, m) == {[r |-> Failed(m, IllegalFunction), srv |-> s]}

(* A device written in C has the functions whose pointers it was given.    *)
cModbusInterfaceImpl(s, m) ==
  IF s.func \in functions(device)
  THEN LET r == MemoryCall(s, m) IN {[r |-> r, srv |-> Put(s, 0, r.out)]}
  ELSE ModbusInterface(s, m)

(* One written in C++ that has all the functions: what it tells is         *)
(* external, or it fails.                                                  *)
Telling(s, m) ==
  IF s.func \in functions(device)
  THEN LET r == MemoryCall(s, m) IN {[r |-> r, srv |-> Put(s, 0, r.out)]}
  ELSE IF s.unit # DeviceUnit
  THEN {[r |-> Failed(m, GatewayPathUnavailable), srv |-> s]}
  ELSE ModbusInterface(s, m)
       \union {[r |-> Failed(m, "BadDeviceFault"), srv |-> s]}
       \union {[r |-> Done(m, Information(s, t)), srv |-> Inform(s, t)] : t \in Told}

(* processDevice: what may come of the call.                               *)
processDevice(s, m) ==
  IF device.kind = "mbserver" THEN cModbusInterfaceImpl(s, m) ELSE Telling(s, m)

-----------------------------------------------------------------------------
Init ==
  /\ device \in Devices
  /\ mem = device.mem
  /\ srv \in Garbage
  /\ stage = "idle"
  /\ turn = 0
  /\ asked = Nobody
  /\ wire = [unit |-> 0, func |-> 0, data |-> <<>>]
  /\ status = Good
  /\ given = Nothing
  /\ result = [status |-> Good, out |-> <<>>]

Return(r, out) ==
  /\ result' = [status |-> r, out |-> out]
  /\ stage' = "idle"

(* A request function is called: it checks its arguments and codes them;   *)
(* writeBuffer refuses what no frame holds.                                *)
Ask ==
  /\ stage = "idle"
  /\ turn < Len(Rounds)
  /\ \E q \in Rounds[turn + 1] :
       LET f == Function(q, <<>>)
       IN /\ asked' = q
          /\ IF ~ f.valid THEN Return(NotCorrect, <<>>) /\ UNCHANGED wire
             ELSE IF Len(f.data) > DataMax
             THEN Return("BadWriteBufferOverflow", <<>>) /\ UNCHANGED wire
             ELSE /\ wire' = [unit |-> q.unit, func |-> f.func, data |-> f.data]
                  /\ stage' = "sent"
                  /\ result' = [status |-> "Processing", out |-> <<>>]
  /\ turn' = turn + 1
  /\ given' = Nothing
  /\ UNCHANGED <<device, mem, srv, status>>

(* The server takes the request apart.                                     *)
Serve ==
  /\ stage = "sent"
  /\ LET in == processInputData([srv EXCEPT !.unit = wire.unit, !.func = wire.func], wire.data)
     IN /\ srv' = in.srv
        /\ status' = in.status
  /\ stage' = "served"
  /\ UNCHANGED <<device, mem, turn, asked, wire, given, result>>

Operate ==
  /\ stage = "served"
  /\ status = Good
  /\ \E d \in processDevice(srv, mem) :
       /\ mem' = d.r.mem
       /\ srv' = d.srv
       /\ status' = d.r.status
       /\ given' = [called |-> TRUE, status |-> d.r.status, out |-> d.r.out]
  /\ stage' = "operated"
  /\ UNCHANGED <<device, turn, asked, wire, result>>

Silent ==
  \/ stage = "served" /\ status = NotCorrect
  \/ stage = "operated" /\ (status = GatewayPathUnavailable \/ srv.unit = 0)

(* A response that no frame holds leaves the request in the buffer, and    *)
(* that is sent.                                                           *)
Reply ==
  /\ \/ stage = "served" /\ status # Good
     \/ stage = "operated"
  /\ ~ Silent
  /\ LET out == IF status = Good THEN processOutputData(srv, wire.data) ELSE <<Code(status)>>
     IN wire' = IF Len(out) <= DataMax
                THEN [wire EXCEPT !.func = IF status = Good THEN @ ELSE @ + 128, !.data = out]
                ELSE wire
  /\ stage' = "answered"
  /\ UNCHANGED <<device, mem, srv, turn, asked, status, given, result>>

(* The client takes the response: an exception, or what its function makes *)
(* of the data.                                                            *)
Take ==
  /\ stage = "answered"
  /\ LET f == Function(asked, wire.data)
     IN IF wire.func >= 128 THEN Return(Exceptions[wire.data[1]], <<>>)
        ELSE IF f.good THEN Return(Good, f.out)
        ELSE Return("BadNotCorrectResponse", <<>>)
  /\ UNCHANGED <<device, mem, srv, turn, asked, wire, status, given>>

(* Nobody answers: a broadcast is good all the same, other requests time   *)
(* out.                                                                    *)
Unanswered ==
  /\ Silent
  /\ Return(IF asked.unit = 0 THEN Good ELSE "BadTimeout", <<>>)
  /\ UNCHANGED <<device, mem, srv, turn, asked, wire, status, given>>

Next == Ask \/ Serve \/ Operate \/ Reply \/ Take \/ Unanswered

Spec == Init /\ [][Next]_vars

-----------------------------------------------------------------------------
(* Every request a client function lets through is one that the server's   *)
(* processInputData understands.  It drops the others without a word, and  *)
(* the client would try again and time out.                                *)
Understood == stage = "served" => status # NotCorrect

(* What a device of the client's unit returned is what the client function *)
(* returns: success for success, its standard exceptions as they are, and  *)
(* Status_BadServerDeviceFailure for anything else.  What a device tells   *)
(* must be small enough for a message and for the client.                  *)
Tellable ==
  CASE srv.func \in {12, 24} -> Len(given.out) <= IF srv.func = 12 THEN 3 + EventLogMax
                                                ELSE FifoMax
    [] srv.func = 43 -> Len(given.out) <= 4 + DataMax - 6
    [] OTHER -> TRUE

OutcomeArrives ==
  stage = "idle" /\ given.called /\ asked.unit = DeviceUnit /\ Tellable
    => result.status = IF given.status = Good THEN Good ELSE Exceptions[Code(given.status)]

(* What a client function hands out as information of the device, whatever *)
(* it is, is what the device told for this request; and what was written   *)
(* to files is what the device was given.                                  *)
InformationArrives ==
  /\ stage = "idle"
  /\ given.called
  /\ asked.unit = DeviceUnit
  /\ srv.func \notin MemoryFunctions
  /\ result.status = Good
  => IF asked.name = "writeFileRecord"
     THEN given.out = FlattenSeq([i \in DOMAIN asked.records |-> asked.records[i].values])
     ELSE result.out = given.out

-----------------------------------------------------------------------------
(* The memories of the device, bit by bit, and a request as an operation   *)
(* on one of them (on none, if the device has none for it).                *)

TableOf(q) ==
  LET func == CASE q.name \in {"readDiscreteInputs", "readDiscreteInputsAsBoolArray"} -> 2
                [] q.name = "readInputRegisters" -> 4
                [] q.name \in {"readHoldingRegisters", "writeSingleRegister",
                               "writeMultipleRegisters", "maskWriteRegister",
                               "readWriteMultipleRegisters"} -> 3
                [] OTHER -> 1
  IN IF func \in functions(device) THEN device.table[func] ELSE NoTable
Bits(at, n) == at .. (at + n - 1)
addresses == UNION {Bits(t, device.bits[t]) : t \in DOMAIN mem}
Bit(w, j) == (w \div 2^j) % 2
OnesOfByte == [v \in 0..255 |-> {j \in 0..7 : Bit(v, j) = 1}]
OnesOf(bytes, n) ==
  UNION {{8 * (b - 1) + j : j \in OnesOfByte[bytes[b]]} : b \in DOMAIN bytes}
    \intersect 0..(n - 1)

(* Where a function reads, and how many bits.                              *)
From(q) ==
  CASE q.name \in {"readHoldingRegisters", "readInputRegisters",
                   "readWriteMultipleRegisters"} -> [at |-> TableOf(q) + 16 * q.offset, n |-> 16 * q.count]
    [] q.name \in {"readCoils", "readCoilsAsBoolArray", "readDiscreteInputs",
                   "readDiscreteInputsAsBoolArray"} -> [at |-> TableOf(q) + q.offset, n |-> q.count]
    [] q.name = "readExceptionStatus" -> [at |-> TableOf(q), n |-> 8]
    [] OTHER -> [at |-> 0, n |-> 0]

Operation(q) ==
  LET t == TableOf(q)
      reads == Bits(From(q).at, From(q).n)
      op == [touch |-> reads, set |-> {}, clear |-> {}, reads |-> reads,
             blind |-> q.unit = 0]
      Writing(offset, n, bytes) ==
        LET at == t + offset
            set == {at + i : i \in OnesOf(bytes, n)}
        IN [op EXCEPT !.touch = @ \union Bits(at, n),
                      !.set = set, !.clear = Bits(at, n) \ set]
      WritingRegisters(at, values) ==
        Writing(16 * at, 16 * Len(values), Swapped(Flat(values)))
  IN CASE q.name = "readExceptionStatus" -> [op EXCEPT !.touch = Bits(t, 16)]
       [] q.name = "writeSingleCoil" -> Writing(q.offset, 1, <<IF q.value THEN 1 ELSE 0>>)
       [] q.name = "writeSingleRegister" -> WritingRegisters(q.offset, <<q.value>>)
       [] q.name = "writeMultipleCoils" -> Writing(q.offset, q.count, q.values)
       [] q.name = "writeMultipleCoilsAsBoolArray" ->
            Writing(q.offset, q.count, Packed(q.values))
       [] q.name = "writeMultipleRegisters" -> WritingRegisters(q.offset, q.values)
       [] q.name = "maskWriteRegister" ->
            LET off == {j \in 0..15 : Bit(q.andMask, j) = 0}
                on == {j \in off : Bit(q.orMask, j) = 1}
                at == t + 16 * q.offset
            IN [op EXCEPT !.touch = Bits(at, 16),
                          !.set = {at + j : j \in on},
                          !.clear = {at + j : j \in off \ on}]
       [] q.name = "readWriteMultipleRegisters" -> WritingRegisters(q.writeOffset, q.values)
       [] OTHER -> op

ByteForm(q, out) ==
  CASE q.name \in {"readCoilsAsBoolArray", "readDiscreteInputsAsBoolArray"} -> Packed(out)
    [] q.name \in {"readHoldingRegisters", "readInputRegisters",
                   "readWriteMultipleRegisters"} -> Swapped(Flat(out))
    [] OTHER -> out

(* n bits from an address on, as the bytes that hold them.                 *)
Outcome(bytes, at, n) ==
  [good |-> TRUE,
   of |-> Bits(at, IF Len(bytes) = ByteCount(n) THEN n ELSE 8 * Len(bytes)),
   read |-> {at + i : i \in OnesOf(bytes, LeastOf(n, 8 * Len(bytes)))}]
Failure == [good |-> FALSE, of |-> {}, read |-> {}]

OnMemory ==
  asked.name \in {"readCoils", "readCoilsAsBoolArray", "readDiscreteInputs",
                 "readDiscreteInputsAsBoolArray", "readHoldingRegisters",
                 "readInputRegisters", "writeSingleCoil", "writeSingleRegister",
                 "readExceptionStatus", "writeMultipleCoils",
                 "writeMultipleCoilsAsBoolArray", "writeMultipleRegisters",
                 "maskWriteRegister", "readWriteMultipleRegisters"}
NoOperation == [touch |-> {}, set |-> {}, clear |-> {}, reads |-> {-1}, blind |-> FALSE]

ones ==
  UNION {UNION {{t + 8 * b + j : j \in OnesOfByte[mem[t][b]]} : b \in DOMAIN mem[t]} :
           t \in DOMAIN mem} \intersect addresses
operation == IF stage # "idle" /\ OnMemory THEN Operation(asked) ELSE NoOperation
outcome ==
  IF stage # "idle" /\ OnMemory /\ given.called
  THEN IF given.status = Good THEN Outcome(given.out, From(asked).at, From(asked).n)
       ELSE Failure
  ELSE NoOperation
returned ==
  IF result.status = Good /\ OnMemory
  THEN Outcome(ByteForm(asked, result.out), From(asked).at,
               IF asked.unit = 0 THEN 0 ELSE From(asked).n)
  ELSE Failure

remote == INSTANCE RemoteDevice WITH None <- NoOperation, address <- addresses, op <- operation,
                                     done <- outcome, result <- returned

(* The client functions on coils, inputs and registers work on the memory  *)
(* of the device as if it were at hand: every bit read is that of the      *)
(* address asked for, every bit written is written, no other bit changes,  *)
(* nothing is done twice, and an operation that fails does nothing (except *)
(* that function 23 may have written when it fails to read).               *)
WorksOnMemory == remote!Spec
=============================================================================
