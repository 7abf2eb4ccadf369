-------------------------- MODULE MCModbusExchange --------------------------
EXTENDS ModbusExchange

CONSTANT Registers

Pattern(k) == [b \in 0..(2 * Registers - 1) |-> (37 * b * k + 101) % 256]
DemoServer ==
  [kind |-> "demoserver", table |-> [f \in MemoryFunctions |-> Table(1)],
   bits |-> [t \in {Table(1)} |-> 16 * Registers], mem |-> [t \in {Table(1)} |-> Pattern(1)]]

(* 21 coils, no discrete inputs, three input and three holding registers,  *)
(* after earlier requests have written some; inputs are zero for ever.     *)
MbServer ==
  [device_init(21, 0, 3, 3) EXCEPT
     !.mem[Table(1)] = [b \in 0..2 |-> <<165, 240, 19>>[b + 1]],
     !.mem[Table(4)] = [b \in 0..5 |-> (37 * b + 101) % 256]]
MCDevices == {DemoServer, MbServer}
MCGarbage == {[unit |-> 0, func |-> 0, offset |-> 65535, count |-> 65535,
               andMask |-> 65535, orMask |-> 65535,
               valueBuff |-> [i \in 1..ValueBuffSz |-> 255]]}

Values(n) == [i \in 1..n |-> (4660 * i + 255) % 65536]
BoolValues(n) == [i \in 1..n |-> IF i % 3 = 0 THEN 0 ELSE 1]

Plain(names, unit) == {[name |-> n, unit |-> unit] : n \in names}
Reads(names, unit, offsets, counts) ==
  {[name |-> n, unit |-> unit, offset |-> o, count |-> c] :
     n \in names, o \in offsets, c \in counts}

BitReads == {"readCoils", "readDiscreteInputs", "readCoilsAsBoolArray",
             "readDiscreteInputsAsBoolArray"}
RegisterReads == {"readHoldingRegisters", "readInputRegisters"}
Bools(unit, offsets, counts) ==
  {[name |-> "writeMultipleCoilsAsBoolArray", unit |-> unit, offset |-> o, count |-> c,
    values |-> BoolValues(c)] : o \in offsets, c \in counts \ {2041}}
  \union {[name |-> "writeMultipleCoils", unit |-> unit, offset |-> o, count |-> c,
            values |-> Packed(BoolValues(c))] : o \in offsets, c \in counts}
Writes(unit, offsets, counts) ==
  {[name |-> "writeMultipleRegisters", unit |-> unit, offset |-> o, count |-> c,
    values |-> Values(c)] : o \in offsets, c \in counts}
Singles(unit, offsets) ==
  {[name |-> "writeSingleCoil", unit |-> unit, offset |-> o, value |-> v] :
     o \in offsets, v \in BOOLEAN}
  \union {[name |-> "writeSingleRegister", unit |-> unit, offset |-> o, value |-> 4660] :
            o \in offsets}
Masks(unit, offsets) ==
  {[name |-> "maskWriteRegister", unit |-> unit, offset |-> o, andMask |-> 61695,
    orMask |-> 13260] : o \in offsets}
ReadWrites(unit, reads, writes) ==
  {[name |-> "readWriteMultipleRegisters", unit |-> unit, offset |-> r[1], count |-> r[2],
    writeOffset |-> w[1], writeCount |-> w[2], values |-> Values(w[2])] :
     r \in reads, w \in writes}
Rec(n) == [file |-> 4660, number |-> 22136, length |-> n, values |-> Values(n)]
Files == {[name |-> n, unit |-> DeviceUnit, records |-> s] :
            n \in {"readFileRecord", "writeFileRecord"},
            s \in {<<Rec(2)>>, <<Rec(1), Rec(0), Rec(3)>>, <<Rec(120)>>, <<Rec(122)>>}}
Others ==
  Plain({"readExceptionStatus", "getCommEventCounter", "getCommEventLog",
         "reportServerID"}, DeviceUnit)
  \union {[name |-> "readFIFOQueue", unit |-> DeviceUnit, offset |-> 513]}
  \union {[name |-> "readDeviceIdentification", unit |-> DeviceUnit, code |-> c,
           object |-> 7] : c \in {0, 1, 4}}

Queries == {[name |-> "returnQueryData", unit |-> DeviceUnit, values |-> [i \in 1..n |-> i % 256]] :
              n \in {0, 1, 2, 253, 254}}

End == 16 * Registers
Limits(unit) ==
  Reads(BitReads, unit, {0, 3}, {2000, 2040, 2041})
  \union Reads(RegisterReads, unit, {0, 65535}, {125, 127, 128})
  \union Bools(unit, {0, 3}, {2000, 2040, 2041})
  \union Writes(unit, {0}, {125, 127, 128})
  \union ReadWrites(unit, {<<0, 125>>, <<0, 126>>, <<0, 128>>}, {<<1, 125>>, <<1, 3>>})

FirstRound ==
  Reads(BitReads, DeviceUnit, {0, 7, 13, End - 8, End}, {0, 1, 7, 8, 9, 17})
  \union Bools(DeviceUnit, {0, 7, 13, End - 8, End}, {0, 1, 7, 8, 9, 17})
  \union Reads(RegisterReads, DeviceUnit, {0, 1, Registers - 1, Registers}, {0, 1, 2})
  \union Writes(DeviceUnit, {0, 1, Registers - 1, Registers}, {0, 1, 2})
  \union Singles(DeviceUnit, {0, 9, Registers - 1, End - 1, End})
  \union Masks(DeviceUnit, {0, Registers - 1, Registers})
  \union ReadWrites(DeviceUnit, {<<0, 3>>, <<1, 2>>, <<Registers - 1, 2>>},
                    {<<0, 0>>, <<1, 2>>, <<Registers - 1, 2>>})
  \union Limits(DeviceUnit) \union Files \union Others \union Queries
  \union Reads({"readCoils"}, 2, {0}, {8}) \union Singles(2, {0})
  \union Reads({"readCoils"}, 0, {0}, {8}) \union Singles(0, {0})

SecondRound ==
  Reads({"readCoils"}, DeviceUnit, {3}, {9, 2040})
  \union Reads({"readHoldingRegisters"}, DeviceUnit, {1}, {2})
  \union Plain({"readExceptionStatus", "reportServerID"}, DeviceUnit)
  \union ReadWrites(DeviceUnit, {<<0, 3>>}, {<<1, 2>>})

Diagnostics8 ==
  Plain({"returnDiagnosticRegister", "returnBusMessageCount",
         "returnBusCommunicationErrorCount", "returnBusExceptionErrorCount",
         "returnServerMessageCount", "returnServerNoResponseCount",
         "returnServerNAKCount", "returnServerBusyCount",
         "returnBusCharacterOverrunCount", "clearCounters",
         "clearOverrunCounterAndFlag", "forceListenOnlyMode"}, DeviceUnit)
  \union {[name |-> "restartCommunicationsOption", unit |-> DeviceUnit, value |-> v] :
            v \in BOOLEAN}
  \union {[name |-> "changeAsciiInputDelimiter", unit |-> DeviceUnit, delimiter |-> 13]}
(* Rounds of what the other runs are about.                                *)
DiagnosticRounds == <<Diagnostics8>>
RefutedRounds ==
  <<ReadWrites(DeviceUnit, {<<0, 1>>}, {<<4, 3>>})
      \union {[name |-> n, unit |-> DeviceUnit, records |-> <<>>] :
                n \in {"readFileRecord", "writeFileRecord"}}>>
MCRounds == <<FirstRound, SecondRound>>
MCTold == {[words |-> <<258, 772, 1286>>, bytes |-> <<>>],
           [words |-> <<65535, 0, 65535>>, bytes |-> <<1, 2, 3, 4>>],
           [words |-> <<1, 2, 3>>, bytes |-> [i \in 1..62 |-> i]],
           [words |-> <<1, 2, 3>>, bytes |-> [i \in 1..254 |-> i]],
           [words |-> <<1, 2, 3>>, bytes |-> [i \in 1..255 |-> i]]}
=============================================================================
