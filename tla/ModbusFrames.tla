--------------------------- MODULE ModbusFrames ---------------------------
(***************************************************************************)
(* The three frames a message travels in: NET with an identifier and a     *)
(* length, RTU with a CRC, ASCII with an LRC and framing characters.  A    *)
(* buffer is a sequence of bytes, its length is the field sz.              *)
(***************************************************************************)
EXTENDS Integers, Sequences, SequencesExt

NetBuffSz == 268   \* MB_NET_IO_BUFF_SZ
RtuBuffSz == 264   \* MB_RTU_IO_BUFF_SZ
AscBuffSz == 529   \* MB_ASC_IO_BUFF_SZ

Hi(w) == w \div 256
Lo(w) == w % 256

Byte == 0..255

(* Exclusive or of two bytes.                                              *)
Mix ==
  [a \in Byte |-> [b \in Byte |->
     LET Bit(p) == p * ((a \div p + b \div p) % 2)
     IN  Bit(1) + Bit(2) + Bit(4) + Bit(8) + Bit(16) + Bit(32) + Bit(64) + Bit(128)]]

(* A sum is its upper and its lower byte.  The inner loop shifts it and,   *)
(* for a bit that falls out, mixes in 0xA001.                              *)
Shift(crc) ==
  LET h == crc[1] \div 2
      l == (crc[1] % 2) * 128 + crc[2] \div 2
  IN  IF crc[2] % 2 = 1 THEN <<Mix[h][160], Mix[l][1]>> ELSE <<h, l>>

(* What the eight rounds make of a byte: of a sum they shift the upper     *)
(* byte down and mix in what the lower one comes to.                       *)
CrcTable ==
  [b \in Byte |-> Shift(Shift(Shift(Shift(Shift(Shift(Shift(Shift(<<0, b>>))))))))]

Add(b) == [crc \in Byte \X Byte |->
             LET t == CrcTable[Mix[crc[2]][b]] IN <<t[1], Mix[crc[1]][t[2]]>>]

crc16[bytes \in Seq(Byte)] ==
  LET crc[i \in 0..Len(bytes)] ==
        IF i = 0 THEN <<255, 255>> ELSE Add(bytes[i])[crc[i - 1]]
  IN  crc[Len(bytes)]

lrc[bytes \in Seq(Byte)] ==
  LET sum[i \in 0..Len(bytes)] == IF i = 0 THEN 0 ELSE (sum[i - 1] + bytes[i]) % 256
  IN  (256 - sum[Len(bytes)]) % 256

Digit(n) == IF n < 10 THEN 48 + n ELSE 55 + n
IsDigit(c) == c \in 48..57 \/ c \in 65..70
Nibble(c) == IF c < 58 THEN c - 48 ELSE c - 55

bytesToAscii[bytes \in Seq(Byte)] ==
  [i \in 1..2 * Len(bytes) |->
     LET b == bytes[(i + 1) \div 2]
     IN  Digit(IF i % 2 = 1 THEN b \div 16 ELSE b % 16)]

(* Nothing when one character is no hexadecimal digit; a last digit alone  *)
(* is the upper half of a byte.                                            *)
asciiToBytes[ascii \in Seq(Byte)] ==
  IF \E i \in DOMAIN ascii : ~IsDigit(ascii[i]) THEN <<>>
  ELSE [i \in 1..(Len(ascii) + 1) \div 2 |->
          16 * Nibble(ascii[2 * i - 1])
            + IF 2 * i <= Len(ascii) THEN Nibble(ascii[2 * i]) ELSE 0]

-----------------------------------------------------------------------------
(* writeBuffer: whether the data fit, and the frame.                       *)

Fits(kind, data) ==
  Len(data) <= CASE kind = "NET" -> NetBuffSz - 8
                 [] kind = "RTU" -> RtuBuffSz - 4
                 [] kind = "ASC" -> AscBuffSz \div 2 - 3

NetFrame(id, unit, func, data) ==
  <<Hi(id), Lo(id), 0, 0, Hi(Len(data) + 2), Lo(Len(data) + 2), unit, func>> \o data

RtuFrame(unit, func, data) ==
  LET body == <<unit, func>> \o data
  IN  body \o <<crc16[body][2], crc16[body][1]>>

AscFrame(unit, func, data) ==
  LET body == <<unit, func>> \o data
  IN  <<58>> \o bytesToAscii[Append(body, lrc[body])] \o <<13, 10>>

Frame(kind, id, unit, func, data) ==
  CASE kind = "NET" -> NetFrame(id, unit, func, data)
    [] kind = "RTU" -> RtuFrame(unit, func, data)
    [] kind = "ASC" -> AscFrame(unit, func, data)

-----------------------------------------------------------------------------
(* readBuffer: what is taken from a buffer, with room for so many bytes of *)
(* data.  A refused frame has another status than Good.  The caller        *)
(* compares the identifier: a client with its own, a server keeps it.      *)

Refused(status) == [status |-> status, id |-> 0, unit |-> 0, func |-> 0, data |-> <<>>]
Taken(id, body, room) ==
  [status |-> "Good", id |-> id, unit |-> body[1], func |-> body[2],
   data |-> SubSeq(body, 3, IF Len(body) - 2 > room THEN room + 2 ELSE Len(body))]

NetRead(buff, room) ==
  IF \/ Len(buff) < 8
     \/ buff[3] # 0 \/ buff[4] # 0
     \/ 256 * buff[5] + buff[6] # Len(buff) - 6
  THEN Refused("BadNotCorrectResponse")
  ELSE Taken(256 * buff[1] + buff[2], SubSeq(buff, 7, Len(buff)), room)

\* mutant: the sum is not compared.
RtuReadUnchecked(buff, room) ==
  LET sz == Len(buff)
  IN  CASE sz < 4 -> Refused("BadNotCorrectRequest")
        [] OTHER -> IF sz - 4 > room THEN Refused("BadReadBufferOverflow")
                                     ELSE Taken(0, SubSeq(buff, 1, sz - 2), room)

RtuRead(buff, room) ==
  LET sz == Len(buff)
      body == SubSeq(buff, 1, sz - 2)
  IN  CASE sz < 4 -> Refused("BadNotCorrectRequest")
        [] sz >= 4 /\ crc16[body] # <<buff[sz], buff[sz - 1]>> -> Refused("BadCrc")
        [] OTHER -> IF sz - 4 > room THEN Refused("BadReadBufferOverflow")
                                     ELSE Taken(0, body, room)

AscRead(buff, room) ==
  LET sz == Len(buff)
      Bytes == [bytes \in Seq(Byte) |->
                  CASE bytes = <<>> -> Refused("BadAscChar")
                    [] bytes # <<>> /\ lrc[Front(bytes)] # Last(bytes) -> Refused("BadLrc")
                    [] OTHER -> IF Len(bytes) - 3 > room
                                THEN Refused("BadReadBufferOverflow")
                                ELSE Taken(0, Front(bytes), room)]
  IN  CASE sz < 9 -> Refused("BadNotCorrectRequest")
        [] sz >= 9 /\ buff[1] # 58 -> Refused("BadAscMissColon")
        [] sz >= 9 /\ buff[1] = 58 /\ SubSeq(buff, sz - 1, sz) # <<13, 10>> ->
             Refused("BadAscMissCrLf")
        [] OTHER -> Bytes[asciiToBytes[SubSeq(buff, 2, sz - 2)]]

Read(kind, buff, room) ==
  CASE kind = "NET" -> NetRead(buff, room)
    [] kind = "RTU" -> RtuRead(buff, room)
    [] kind = "ASC" -> AscRead(buff, room)
=============================================================================
