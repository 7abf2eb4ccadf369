------------------------ MODULE ModbusServerFunctions ------------------------
(***************************************************************************)
(* What the server does with the data of a request and for the data of its *)
(* response, function by function.  The fields it keeps in between live in *)
(* four words, each a union of the code, and in valueBuff:                 *)
(*   offset   subfunc, status, readDeviceIdCode and ...ObjectId            *)
(*   count    byteCount, recordsCount, numberOfObjects, conformityLevel    *)
(*   andMask  messageCount, writeOffset, moreFollows and nextObjectId      *)
(*   orMask   writeCount, outByteCount, fileDataBuffSize                   *)
(* A field of one byte is the low or the high byte of its word.  Nothing   *)
(* initialises them: a request finds what the one before it left.          *)
(***************************************************************************)
EXTENDS ModbusFunctions

NotCorrect == "BadNotCorrectRequest"

Low(w) == w % 256
High(w) == w \div 256

WithLow(w, b) == 256 * High(w) + b

(* Bytes copied into valueBuff from its byte at (from 0) on.               *)
Put(s, at, bytes) ==
  [s EXCEPT !.valueBuff = [i \in DOMAIN @ |-> IF i - at \in DOMAIN bytes
                                              THEN bytes[i - at] ELSE @[i]]]
Buff(s, at, n) == SubSeq(s.valueBuff, at + 1, at + n)

(* Registers lie in valueBuff low byte first, on the wire high byte first. *)
Swapped(bytes) ==
  [i \in 1..(2 * (Len(bytes) \div 2)) |-> bytes[IF i % 2 = 1 THEN i + 1 ELSE i - 1]]

Accept(s) == [status |-> "Good", srv |-> s]
Refuse(s, status) == [status |-> status, srv |-> s]
Ignore(s) == Refuse(s, NotCorrect)

-----------------------------------------------------------------------------
(* processInputData: the request's data b.  NotCorrect is never answered,  *)
(* the other refusals are, with an exception.                              *)

ReadInput(s, b, max) ==
  LET t == [s EXCEPT !.offset = Words(b)[1], !.count = Words(b)[2]]
  IN IF Len(b) # 4 THEN Ignore(s)
     ELSE IF t.count > max THEN Refuse(t, "BadIllegalDataValue")
     ELSE Accept(t)

SingleInput(s, b, coil) ==
  IF \/ Len(b) # 4
     \/ coil /\ (b[3] \notin {0, 255} \/ b[4] # 0)
  THEN Ignore(s)
  ELSE Accept(Put([s EXCEPT !.offset = Words(b)[1]], 0,
                  IF coil THEN <<b[3]>> ELSE <<b[4], b[3]>>))

EmptyInput(s, b) == IF b = <<>> THEN Accept(s) ELSE Ignore(s)

\* mutant: every subfunction is held to two bytes of data.
DiagnosticsInputOfTwo(s, b) ==
  LET t == [s EXCEPT !.offset = Words(b)[1], !.count = Len(b) - 2]
  IN IF Len(b) # 4 THEN Ignore(s) ELSE Accept(Put(t, 0, After(b, 2)))

DiagnosticsInput(s, b) ==
  LET t == [s EXCEPT !.offset = Words(b)[1], !.count = Len(b) - 2]
  IN IF Len(b) < 2 THEN Ignore(s)
     ELSE IF t.offset # 0 /\ t.count # 2 THEN Ignore(t)
     ELSE Accept(Put(t, 0, After(b, 2)))

(* bytesOf and max are those of coils or registers.                        *)
MultipleInput(s, b, bytesOf(_), max, valuesOf(_)) ==
  LET t == [s EXCEPT !.offset = Words(b)[1], !.count = Words(b)[2]]
  IN IF Len(b) < 5 \/ Len(b) # b[5] + 5 THEN Ignore(s)
     ELSE IF bytesOf(t.count) # b[5] THEN Ignore(t)
     ELSE IF t.count > max THEN Refuse(t, "BadIllegalDataValue")
     ELSE Accept(Put(t, 0, valuesOf(After(b, 5))))

CoilsInput(s, b) == MultipleInput(s, b, ByteCount, MaxDiscrets, LAMBDA v : v)
RegistersInput(s, b) == MultipleInput(s, b, LAMBDA n : 2 * n, MaxRegisters, Swapped)

MaskInput(s, b) ==
  IF Len(b) # 6 THEN Ignore(s)
  ELSE Accept([s EXCEPT !.offset = Words(b)[1], !.andMask = Words(b)[2],
                        !.orMask = Words(b)[3]])

(* As many values are taken as are to be read, not as are to be written.   *)
(* (What is taken past the end of the data is never used: the bytes there  *)
(* are left as they are.)                                                  *)
ReadWriteInput(s, b) ==
  LET w == Words(b)
      t == [s EXCEPT !.offset = w[1], !.count = w[2], !.andMask = w[3], !.orMask = w[4]]
  IN IF Len(b) < 9 \/ Len(b) # b[9] + 9 THEN Ignore(s)
     ELSE IF 2 * t.orMask # b[9] THEN Ignore(t)
     ELSE IF t.count > MaxRegisters \/ t.orMask > MaxRegisters
     THEN Refuse(t, "BadIllegalDataValue")
     ELSE Accept(Put(t, 0, Swapped(SubSeq(b, 10, LeastOf(Len(b), 9 + 2 * t.count)))))

QueueInput(s, b) ==
  IF Len(b) < 2 THEN Ignore(s) ELSE Accept([s EXCEPT !.offset = Words(b)[1]])

IdentificationInput(s, b) ==
  IF Len(b) < 3 THEN Ignore(s)
  ELSE IF b[1] # 14 THEN Refuse(s, "BadIllegalFunction")
  ELSE Accept([s EXCEPT !.offset = b[2] + 256 * b[3]])

(* Files.  The records are kept at the start of valueBuff, six bytes each, *)
(* their data behind them.  A request of a client never announces more     *)
(* registers than follow.                                                  *)
RecordsCount(s) == Low(s.count)
FileAt(s) == 6 * RecordsCount(s)
RecordLength(s, i) == s.valueBuff[6 * i - 1] + 256 * s.valueBuff[6 * i]
RecordBefore(s, i) == FoldLeft(LAMBDA sum, j : sum + 2 * RecordLength(s, j), 0,
                               [j \in 1..(i - 1) |-> j])
FileData(s, i) == Buff(s, FileAt(s) + RecordBefore(s, i), 2 * RecordLength(s, i))

ReadFileInput(s, b) ==
  LET n == b[1] \div 7
      t == [s EXCEPT !.count = WithLow(@, n)]
      heads == [i \in 1..n |-> SubSeq(b, 7 * i - 5, 7 * i + 1)]
  IN IF Len(b) < 8 THEN Ignore(s)
     ELSE IF Len(b) # 1 + 7 * n \/ \E i \in 1..n : heads[i][1] # 6 THEN Ignore(t)
     ELSE Accept(Put(t, 0, FlattenSeq([i \in 1..n |-> Swapped(After(heads[i], 1))])))

WriteFileInput(s, b) ==
  LET Head7(i) == SubSeq(b, i + 1, i + 6)
      from[i \in 2..(Len(b) + 1)] ==
        IF i > Len(b) THEN [n |-> 0, heads |-> <<>>, data |-> <<>>, good |-> TRUE]
        ELSE LET last == i + 6 + 2 * Words(Head7(i))[3]
             IN IF b[i] # 6
                THEN [n |-> 0, heads |-> <<>>, data |-> <<>>, good |-> FALSE]
                ELSE LET rest == from[last + 1]
                     IN [n |-> rest.n + 1, good |-> rest.good,
                         heads |-> Swapped(Head7(i)) \o rest.heads,
                         data |-> Swapped(SubSeq(b, i + 7, last)) \o rest.data]
      all == from[2]
      t == [s EXCEPT !.count = WithLow(@, all.n)]
  IN IF Len(b) < 8 \/ b[1] # Len(b) - 1 THEN Ignore(s)
     ELSE IF ~ all.good \/ Len(all.data) > ValueBuffSz THEN Ignore(t)
     ELSE Accept([Put(t, 0, all.heads \o all.data) EXCEPT
                    !.orMask = WithLow(@, Len(all.data))])

processInputData(s, b) ==
  CASE s.func \in {1, 2} -> ReadInput(s, b, MaxDiscrets)
    [] s.func \in {3, 4} -> ReadInput(s, b, MaxRegisters)
    [] s.func \in {5, 6} -> SingleInput(s, b, s.func = 5)
    [] s.func \in {7, 11, 12, 17} -> EmptyInput(s, b)
    [] s.func = 8 -> DiagnosticsInput(s, b)
    [] s.func = 15 -> CoilsInput(s, b)
    [] s.func = 16 -> RegistersInput(s, b)
    [] s.func = 20 -> ReadFileInput(s, b)
    [] s.func = 21 -> WriteFileInput(s, b)
    [] s.func = 22 -> MaskInput(s, b)
    [] s.func = 23 -> ReadWriteInput(s, b)
    [] s.func = 24 -> QueueInput(s, b)
    [] s.func = 43 -> IdentificationInput(s, b)
    [] OTHER -> Refuse(s, "BadIllegalFunction")

-----------------------------------------------------------------------------
(* processOutputData: the data of the response.                            *)

Sized8(data) == <<Low(Len(data))>> \o data

\* mutant: a byte begun is not counted.
ReadOutputDown(s) == LET n == Low(s.count \div 8) IN <<n>> \o Buff(s, 0, n)
ReadOutput(s) == LET n == Low(ByteCount(s.count)) IN <<n>> \o Buff(s, 0, n)

RegistersOutput(s) ==
  LET n == Low(2 * s.count) IN <<n>> \o SubSeq(Swapped(Buff(s, 0, 2 * s.count)), 1, n)
SingleOutput(s) ==
  Word(s.offset) \o IF s.func = 5 THEN <<IF s.valueBuff[1] # 0 THEN 255 ELSE 0, 0>>
                    ELSE Swapped(Buff(s, 0, 2))
MultipleOutput(s) == Word(s.offset) \o Word(s.count)
MaskOutput(s) == Word(s.offset) \o Word(s.andMask) \o Word(s.orMask)
BytesOutput(s) == LET n == Low(s.orMask) IN <<n>> \o Buff(s, 0, n)
CounterOutput(s) == Word(s.offset) \o Word(s.count)
LogOutput(s) ==
  LET n == Low(s.orMask)
  IN <<Low(n + 6)>> \o CounterOutput(s) \o Word(s.andMask) \o Buff(s, 0, n)
QueueOutput(s) ==
  Word((2 * s.count + 2) % 65536) \o Word(s.count) \o Swapped(Buff(s, 0, 2 * s.count))
\* mutant: the two bytes of a union are taken for each other.
IdentificationOutputSwapped(s) ==
  <<14, Low(s.offset), Low(s.count), IF Low(s.andMask) # 0 THEN 255 ELSE 0,
    High(s.andMask), High(s.count)>> \o Buff(s, 0, Low(s.orMask))
IdentificationOutput(s) ==
  <<14, Low(s.offset), High(s.count), IF Low(s.andMask) # 0 THEN 255 ELSE 0,
    High(s.andMask), Low(s.count)>> \o Buff(s, 0, Low(s.orMask))

(* The answers of all subfunctions but the first are put where the         *)
(* subfunction was; behind them is what the buffer held, the request.      *)
DiagnosticsOutput(s, b) ==
  CASE s.offset = 0 -> Word(0) \o Buff(s, 0, Low(s.orMask))
    [] s.offset \in {1, 3, 4, 10, 20} -> Buff(s, 0, 2) \o SubSeq(b, 3, 4)
    [] OTHER -> Swapped(Buff(s, 0, 2)) \o SubSeq(b, 3, 4)

ReadFileOutput(s) ==
  LET Rec(i) == <<Low(2 * RecordLength(s, i) + 1), 6>> \o Swapped(FileData(s, i))
      all == FlattenSeq([i \in 1..RecordsCount(s) |-> Rec(i)])
  IN SubSeq(Sized8(all), 1, Low(Len(all)) + 1)

WriteFileOutput(s) ==
  LET Rec(i) == <<6>> \o Swapped(Buff(s, 6 * (i - 1), 6)) \o Swapped(FileData(s, i))
      all == FlattenSeq([i \in 1..RecordsCount(s) |-> Rec(i)])
  IN SubSeq(Sized8(all), 1, Low(Len(all)) + 1)

processOutputData(s, b) ==
  CASE s.func \in {1, 2} -> ReadOutput(s)
    [] s.func \in {3, 4, 23} -> RegistersOutput(s)
    [] s.func \in {5, 6} -> SingleOutput(s)
    [] s.func = 7 -> Buff(s, 0, 1)
    [] s.func = 8 -> DiagnosticsOutput(s, b)
    [] s.func = 11 -> CounterOutput(s)
    [] s.func = 12 -> LogOutput(s)
    [] s.func \in {15, 16} -> MultipleOutput(s)
    [] s.func = 17 -> BytesOutput(s)
    [] s.func = 20 -> ReadFileOutput(s)
    [] s.func = 21 -> WriteFileOutput(s)
    [] s.func = 22 -> MaskOutput(s)
    [] s.func = 24 -> QueueOutput(s)
    [] s.func = 43 -> IdentificationOutput(s)
=============================================================================
