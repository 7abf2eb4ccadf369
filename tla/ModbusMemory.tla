---------------------------- MODULE ModbusMemory ----------------------------
(***************************************************************************)
(* The memory helpers of Modbus.cpp and the devices that the examples      *)
(* build on them.  A memory is a function from 0 to bytes, as the helpers *)
(* see it (little endian, registers of two bytes); what they are given and *)
(* give is a sequence of bytes in the same layout.  Offsets and counts are *)
(* arguments of 16 bits, so their sum never wraps in 32.                   *)
(***************************************************************************)
EXTENDS Integers, SequencesExt

Fits(offset, count, size) == offset + count <= size

Pair(mem, i) == mem[i] + 256 * mem[i + 1]
SetPair(mem, i, w) == [mem EXCEPT ![i] = w % 256, ![i + 1] = w \div 256]

(* The bits that two words of 16 have both, and those that one of them has.*)
BitAnd(v, w) ==
  LET Bit(p) == p * (((v \div p) % 2) * ((w \div p) % 2))
      Byte(p) == Bit(p) + Bit(2 * p) + Bit(4 * p) + Bit(8 * p)
                 + Bit(16 * p) + Bit(32 * p) + Bit(64 * p) + Bit(128 * p)
  IN  Byte(1) + Byte(256)
BitOr(v, w) == v + w - BitAnd(v, w)

(* n ones that end below position at + n of a word of so many bits, as     *)
(* shifting a sign bit makes them.                                         *)
Ones(width, n, at) == (2^width - 2^(width - n)) \div 2^(width - n - at)

readMemRegs(mem, offset, count) ==
  [i \in 1..(2 * count) |-> mem[2 * offset + i - 1]]

writeMemRegs(mem, offset, count, values) ==
  [b \in DOMAIN mem |-> IF b \in 2 * offset .. 2 * (offset + count) - 1
                        THEN values[b - 2 * offset + 1] ELSE mem[b]]

(* Whole bytes are taken from two neighbours when the offset is inside a   *)
(* byte, what is left from one or two, and its unused bits are zero.       *)
readMemBits(mem, offset, count) ==
  LET at == offset \div 8
      shift == offset % 8
      bytes == count \div 8
      resid == count % 8
      From(i, n) == IF shift + n > 8 THEN Pair(mem, at + i) ELSE mem[at + i]
      Taken(i, n) == (From(i, n) \div 2^shift) % 2^n
  IN [i \in 1..bytes |-> Taken(i - 1, 8)]
     \o (IF resid = 0 THEN <<>> ELSE <<Taken(bytes, resid)>>)

\* mutant: the other bits of the bytes written are lost.
Overwritten(w, mask, width) == 0

(* The bits under a mask zeroed, before a value is set there.              *)
Under(w, mask, width) == BitAnd(w, 2^width - 1 - mask)

(* The loop sets the bits of one value at a time, above the offset in one  *)
(* byte and below it in the next; so a byte inside gets bits of two.       *)
writeMemBits(mem, offset, count, values) ==
  LET at == offset \div 8
      shift == offset % 8
      bytes == count \div 8
      resid == count % 8
      v == values[bytes + 1] * 2^shift
      Wide(m, i, mask, x) == SetPair(m, at + i, BitOr(Under(Pair(m, at + i), mask, 16), x))
      Upper(i) == IF i < bytes THEN 256 - 2^shift ELSE 0
      Lower(i) == IF i > 0 THEN 2^shift - 1 ELSE 0
      Whole(i) == (IF i < bytes THEN (values[i + 1] * 2^shift) % 256 ELSE 0)
                  + (IF i > 0 THEN (values[i] * 2^shift) \div 256 ELSE 0)
      Rest(m) ==
        IF shift + resid > 8
        THEN LET mask == Ones(16, resid, shift) IN Wide(m, bytes, mask, BitAnd(v, mask))
        ELSE LET mask == Ones(8, resid, shift)
             IN [m EXCEPT ![at + bytes] =
                          BitOr(Under(@, mask, 8), BitAnd(v % 256, mask))]
      whole == [b \in DOMAIN mem |->
                  IF b - at \in 0..bytes
                  THEN BitOr(Under(mem[b], Upper(b - at) + Lower(b - at), 8), Whole(b - at))
                  ELSE mem[b]]
  IN IF resid = 0 THEN whole ELSE Rest(whole)

-----------------------------------------------------------------------------
(***************************************************************************)
(* The devices of the demo server and of mbserver.c.  An operation on a    *)
(* memory of so many bits returns a status, what it leaves in memory and   *)
(* what it gave out.                                                       *)
(***************************************************************************)
Good == "Good"
IllegalFunction == "BadIllegalFunction"
IllegalDataAddress == "BadIllegalDataAddress"
IllegalDataValue == "BadIllegalDataValue"
GatewayPathUnavailable == "BadGatewayPathUnavailable"

Done(mem, out) == [status |-> Good, mem |-> mem, out |-> out]
Failed(mem, r) == [status |-> r, mem |-> mem, out |-> <<>>]

Native(w) == <<w % 256, w \div 256>>

readRegs(mem, bits, offset, count) ==
  IF Fits(offset, count, bits \div 16)
  THEN Done(mem, readMemRegs(mem, offset, count))
  ELSE Failed(mem, IllegalDataAddress)

writeRegs(mem, bits, offset, count, values) ==
  IF Fits(offset, count, bits \div 16)
  THEN Done(writeMemRegs(mem, offset, count, values), <<>>)
  ELSE Failed(mem, IllegalDataAddress)

readBits(mem, bits, offset, count) ==
  IF Fits(offset, count, bits)
  THEN Done(mem, readMemBits(mem, offset, count))
  ELSE Failed(mem, IllegalDataAddress)

writeBits(mem, bits, offset, count, values) ==
  IF Fits(offset, count, bits)
  THEN Done(writeMemBits(mem, offset, count, values), <<>>)
  ELSE Failed(mem, IllegalDataAddress)

readStatus(mem, bits) ==
  LET r == readRegs(mem, bits, 0, 1) IN [r EXCEPT !.out = SubSeq(@, 1, 1)]

device_readExceptionStatus(mem) == Done(mem, <<mem[0]>>)

maskRegister(mem, bits, offset, andMask, orMask) ==
  LET r == readRegs(mem, bits, offset, 1)
      c == r.out[1] + 256 * r.out[2]
  IN IF r.status # Good THEN r
     ELSE writeRegs(mem, bits, offset, 1,
                    Native(BitOr(BitAnd(c, andMask), BitAnd(orMask, 65535 - andMask))))

(* Written first; a read that fails afterwards undoes nothing.             *)
readWriteRegs(mem, bits, readOffset, readCount, writeOffset, writeCount, values) ==
  LET w == writeRegs(mem, bits, writeOffset, writeCount, values)
  IN IF w.status # Good THEN w ELSE readRegs(w.mem, bits, readOffset, readCount)
=============================================================================
