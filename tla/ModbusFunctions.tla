-------------------------- MODULE ModbusFunctions --------------------------
(***************************************************************************)
(* The functions of the protocol as the client port codes them.  For a     *)
(* request q and the data r of a response, a function says                 *)
(*   func   the number that goes out,                                      *)
(*   valid  whether the request is sent at all,                            *)
(*   data   what is sent,                                                  *)
(*   good   whether r is taken for its answer (Status_BadNotCorrectResponse *)
(*          otherwise), and                                                *)
(*   out    what the caller gets then.                                     *)
(* Data are sequences of bytes; a register is a number, on the wire high   *)
(* byte first.                                                             *)
(***************************************************************************)
EXTENDS Integers, SequencesExt

MaxRegisters == 127
MaxDiscrets == 2040
FileRecordMax == 35
FileRecordBuffSz == 251
EventLogMax == 64
FifoMax == 31
ValueBuffSz == 255

Word(w) == <<w \div 256, w % 256>>
Words(s) == [i \in 1..(Len(s) \div 2) |-> 256 * s[2 * i - 1] + s[2 * i]]
Flat(ws) == [i \in 1..(2 * Len(ws)) |-> Word(ws[(i + 1) \div 2])[2 - (i % 2)]]
After(r, n) == SubSeq(r, n + 1, Len(r))
ByteCount(n) == (n + 7) \div 8
Sized(r) == Len(r) > 0 /\ r[1] = Len(r) - 1
LeastOf(m, n) == IF m <= n THEN m ELSE n

BitOf(bytes, i) == (bytes[i \div 8 + 1] \div 2^(i % 8)) % 2
Unpacked(bytes, n) == [i \in 1..LeastOf(n, 8 * Len(bytes)) |-> BitOf(bytes, i - 1)]
Packed(bits) ==
  LET Bit(i) == IF i <= Len(bits) THEN bits[i] ELSE 0
  IN [b \in 1..ByteCount(Len(bits)) |->
        LET at == 8 * (b - 1)
        IN Bit(at + 1) + 2 * Bit(at + 2) + 4 * Bit(at + 3) + 8 * Bit(at + 4)
           + 16 * Bit(at + 5) + 32 * Bit(at + 6) + 64 * Bit(at + 7) + 128 * Bit(at + 8)]

-----------------------------------------------------------------------------
(* Reading.                                                                *)

ReadBits(func, q, r) ==
  [func |-> func, valid |-> q.count <= MaxDiscrets,
   data |-> Word(q.offset) \o Word(q.count),
   good |-> Sized(r) /\ r[1] = ByteCount(q.count),
   out |-> After(r, 1)]

readCoils(q, r) == ReadBits(1, q, r)
readDiscreteInputs(q, r) == ReadBits(2, q, r)
readCoilsAsBoolArray(q, r) ==
  [readCoils(q, r) EXCEPT !.out = Unpacked(@, q.count)]
readDiscreteInputsAsBoolArray(q, r) ==
  [readDiscreteInputs(q, r) EXCEPT !.out = Unpacked(@, q.count)]

ReadRegisters(func, q, r) ==
  [func |-> func, valid |-> q.count <= MaxRegisters,
   data |-> Word(q.offset) \o Word(q.count),
   good |-> Sized(r) /\ r[1] \div 2 = q.count,
   out |-> Words(After(r, 1))]

readHoldingRegisters(q, r) == ReadRegisters(3, q, r)
readInputRegisters(q, r) == ReadRegisters(4, q, r)

readExceptionStatus(q, r) ==
  [func |-> 7, valid |-> TRUE, data |-> <<>>, good |-> Len(r) = 1, out |-> r]

getCommEventCounter(q, r) ==
  [func |-> 11, valid |-> TRUE, data |-> <<>>, good |-> Len(r) = 4, out |-> Words(r)]

getCommEventLog(q, r) ==
  [func |-> 12, valid |-> TRUE, data |-> <<>>,
   good |-> Len(r) >= 7 /\ Sized(r) /\ r[1] - 6 <= EventLogMax,
   out |-> Words(SubSeq(r, 2, LeastOf(Len(r), 7))) \o After(r, 7)]

reportServerID(q, r) ==
  [func |-> 17, valid |-> TRUE, data |-> <<>>, good |-> Sized(r), out |-> After(r, 1)]

readFIFOQueue(q, r) ==
  LET w == Words(r)
  IN [func |-> 24, valid |-> TRUE, data |-> Word(q.offset),
      good |-> /\ Len(r) >= 4
               /\ w[1] = Len(r) - 2
               /\ w[1] = 2 * (w[2] + 1)
               /\ w[2] <= FifoMax,
      out |-> After(w, 2)]

readDeviceIdentification(q, r) ==
  [func |-> 43, valid |-> q.code \in 1..4, data |-> <<14, q.code, q.object>>,
   good |-> Len(r) >= 6 /\ r[1] = 14 /\ r[2] = q.code,
   out |-> After(r, 2)]

-----------------------------------------------------------------------------
(* Writing.  The response to most of them repeats what the request began   *)
(* with.                                                                   *)

writeSingleCoil(q, r) ==
  [func |-> 5, valid |-> TRUE,
   data |-> Word(q.offset) \o <<IF q.value THEN 255 ELSE 0, 0>>,
   good |-> Len(r) = 4 /\ Words(r)[1] = q.offset, out |-> <<>>]

writeSingleRegister(q, r) ==
  [func |-> 6, valid |-> TRUE, data |-> Word(q.offset) \o Word(q.value),
   good |-> Len(r) = 4 /\ Words(r) = <<q.offset, q.value>>, out |-> <<>>]

WriteMultiple(func, q, valid, bytes, r) ==
  [func |-> func, valid |-> valid,
   data |-> Word(q.offset) \o Word(q.count) \o <<Len(bytes) % 256>> \o bytes,
   good |-> Len(r) = 4 /\ Words(r) = <<q.offset, q.count>>, out |-> <<>>]

writeMultipleCoils(q, r) ==
  WriteMultiple(15, q, q.count <= MaxDiscrets, q.values, r)
writeMultipleCoilsAsBoolArray(q, r) ==
  WriteMultiple(15, q, q.count <= MaxDiscrets, Packed(q.values), r)
writeMultipleRegisters(q, r) ==
  WriteMultiple(16, q, q.count <= MaxRegisters, Flat(q.values), r)

maskWriteRegister(q, r) ==
  LET data == Word(q.offset) \o Word(q.andMask) \o Word(q.orMask)
  IN [func |-> 22, valid |-> TRUE, data |-> data, good |-> r = data, out |-> <<>>]

readWriteMultipleRegisters(q, r) ==
  LET bytes == Flat(q.values)
  IN [ReadRegisters(23, q, r) EXCEPT
        !.valid = @ /\ q.writeCount <= MaxRegisters,
        !.data = @ \o Word(q.writeOffset) \o Word(q.writeCount)
                   \o <<Len(bytes) % 256>> \o bytes]

-----------------------------------------------------------------------------
(* Files.  A record is its file, its number and its length in registers.   *)

RecordHead(rec) == <<6>> \o Word(rec.file) \o Word(rec.number) \o Word(rec.length)

(* The registers in a response to a read, record by record.  No server of  *)
(* the library announces more than follows.                                *)
Records(r) ==
  LET from[i \in 2..(Len(r) + 1)] ==
        IF i > Len(r) - 1 THEN [good |-> TRUE, out |-> <<>>]
        ELSE IF r[i] \notin 1..FileRecordBuffSz \/ r[i + 1] # 6
             THEN [good |-> FALSE, out |-> <<>>]
             ELSE LET last == LeastOf(i + r[i], Len(r))
                      rest == from[last + 1]
                  IN [rest EXCEPT !.out = Words(SubSeq(r, i + 2, last)) \o @]
  IN IF Len(r) < 2 THEN [good |-> TRUE, out |-> <<>>] ELSE from[2]

readFileRecord(q, r) ==
  [func |-> 20,
   valid |-> /\ Len(q.records) <= FileRecordMax
             /\ \A rec \in ToSet(q.records) : rec.length <= FileRecordBuffSz,
   data |-> <<7 * Len(q.records)>>
            \o FlattenSeq([i \in DOMAIN q.records |-> RecordHead(q.records[i])]),
   good |-> Sized(r) /\ Records(r).good,
   out |-> Records(r).out]

writeFileRecord(q, r) ==
  LET body == FlattenSeq([i \in DOMAIN q.records |->
                            RecordHead(q.records[i]) \o Flat(q.records[i].values)])
  IN [func |-> 21,
      valid |-> Len(q.records) <= FileRecordMax /\ Len(body) <= FileRecordBuffSz,
      data |-> <<Len(body) % 256>> \o body,
      good |-> Sized(r), out |-> <<>>]

-----------------------------------------------------------------------------
(* Diagnostics, by subfunction.                                            *)

Diagnostics(subfunc, data, r) ==
  [func |-> 8, valid |-> TRUE, data |-> Word(subfunc) \o data,
   good |-> Len(r) = 4 /\ Words(r)[1] = subfunc, out |-> <<>>]

DiagnosticCount(subfunc, r) ==
  [Diagnostics(subfunc, <<0, 0>>, r) EXCEPT !.out = After(Words(r), 1)]

DiagnosticReset(subfunc, r) ==
  LET d == Diagnostics(subfunc, <<0, 0>>, r)
  IN [d EXCEPT !.good = @ /\ Words(r)[2] = 0]

diagnosticsReturnQueryData(q, r) ==
  [Diagnostics(0, q.values, r) EXCEPT
     !.valid = Len(q.values) <= ValueBuffSz - 2,
     !.good = Len(r) >= 2 /\ Words(r)[1] = 0,
     !.out = SubSeq(r, 3, LeastOf(Len(r), 2 + Len(q.values)))]
diagnosticsRestartCommunicationsOption(q, r) ==
  Diagnostics(1, <<IF q.value THEN 255 ELSE 0, 0>>, r)
diagnosticsReturnDiagnosticRegister(q, r) == DiagnosticCount(2, r)
diagnosticsChangeAsciiInputDelimiter(q, r) == Diagnostics(3, <<q.delimiter, 0>>, r)
diagnosticsForceListenOnlyMode(q, r) == Diagnostics(4, <<0, 0>>, r)
diagnosticsClearCountersAndDiagnosticRegister(q, r) == DiagnosticReset(10, r)
diagnosticsReturnBusMessageCount(q, r) == DiagnosticCount(11, r)
diagnosticsReturnBusCommunicationErrorCount(q, r) == DiagnosticCount(12, r)
diagnosticsReturnBusExceptionErrorCount(q, r) == DiagnosticCount(13, r)
diagnosticsReturnServerMessageCount(q, r) == DiagnosticCount(14, r)
diagnosticsReturnServerNoResponseCount(q, r) == DiagnosticCount(15, r)
diagnosticsReturnServerNAKCount(q, r) == DiagnosticCount(16, r)
diagnosticsReturnServerBusyCount(q, r) == DiagnosticCount(17, r)
diagnosticsReturnBusCharacterOverrunCount(q, r) == DiagnosticCount(18, r)
diagnosticsClearOverrunCounterAndFlag(q, r) == DiagnosticReset(20, r)
=============================================================================
