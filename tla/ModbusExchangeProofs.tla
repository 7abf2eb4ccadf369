------------------------ MODULE ModbusExchangeProofs ------------------------
(***************************************************************************)
(* Proofs about ModbusExchange: for any arguments of any requests that are *)
(* not about files, one after the other, and any device as ModbusExchange  *)
(* has them, the server understands what the client functions send, and    *)
(* outcome and information of the device arrive.                           *)
(*                                                                         *)
(* Every client function and its counterparts in the server are taken in   *)
(* turn: what it sends (...Form), that it is understood, and what is kept  *)
(* of it (...Heard, ...Reaches), that the answer is taken (...Answers),    *)
(* and that what the device told is handed out (...Informs).               *)
(*                                                                         *)
(* Some operators (Joined, Part, Is, Sends) only name an equation, so that *)
(* the provers find the lemmas that apply.                                 *)
(***************************************************************************)
EXTENDS ModbusExchange, SequenceTheorems, TLAPS

(* A sequence of n members, whatever they are.                             *)
Row(s, n) == n \in Nat /\ s = [i \in 1..n |-> s[i]]

(* A row is a sequence of its length.                                      *)
LEMMA RowLen ==
  ASSUME NEW s, NEW n, Row(s, n)
  PROVE  n \in Nat /\ DOMAIN s = 1..n /\ Len(s) = n
<1> DEFINE S == {s[i] : i \in 1..n}
<1>1. s \in [1..n -> S]
  BY DEF Row
<1>2. s \in Seq(S)
  BY <1>1 DEF Row
<1> QED
  BY <1>1, <1>2 DEF Row

(* Every sequence is a row.                                                *)
LEMMA SeqRow ==
  ASSUME NEW S, NEW s \in Seq(S)
  PROVE  Row(s, Len(s))
  BY DEF Row

(* Sequences put together (as an operator, for the provers to match).      *)
Joined(u, s, t) == u = s \o t
Part(u, s, a, b) == u = SubSeq(s, a + 1, b)

(* The members of two rows put together.                                   *)
LEMMA RowConcat ==
  ASSUME NEW s, NEW m, NEW t, NEW n, Row(s, m), Row(t, n), NEW u, Joined(u, s, t)
  PROVE  /\ Row(u, m + n)
         /\ \A i \in 1..m : u[i] = s[i]
         /\ \A i \in 1..n : u[m + i] = t[i]
<1> DEFINE S == {s[i] : i \in 1..m} \union {t[i] : i \in 1..n}
<1>1. s \in [1..m -> S] /\ t \in [1..n -> S]
  BY DEF Row
<1>2. s \in Seq(S) /\ t \in Seq(S) /\ Len(s) = m /\ Len(t) = n /\ m \in Nat /\ n \in Nat
  <2> HIDE DEF S
  <2>1. Len(s) = m /\ Len(t) = n /\ m \in Nat /\ n \in Nat
    BY RowLen
  <2>2. s \in Seq(S) /\ t \in Seq(S)
    BY <1>1, <2>1
  <2> QED
    BY <2>1, <2>2
<1> HIDE DEF S
<1>u. u = s \o t
  BY DEF Joined
<1>3. /\ s \o t \in Seq(S)
      /\ Len(s \o t) = m + n
      /\ \A i \in 1..m + n : (s \o t)[i] = IF i <= m THEN s[i] ELSE t[i - m]
  <2>1. /\ s \o t \in Seq(S)
        /\ Len(s \o t) = Len(s) + Len(t)
        /\ \A i \in 1..Len(s) + Len(t) :
             (s \o t)[i] = IF i <= Len(s) THEN s[i] ELSE t[i - Len(s)]
    BY <1>2, ConcatProperties, Zenon
  <2> QED
    BY <1>2, <2>1, Zenon
<1>4. Row(s \o t, m + n)
  BY <1>3, SeqRow
<1>5. \A i \in 1..m : (s \o t)[i] = s[i]
  BY <1>2, <1>3
<1>6. ASSUME NEW i \in 1..n
      PROVE  (s \o t)[m + i] = t[i]
  <2>1. PICK k \in 1..m + n : k = m + i
    BY <1>2
  <2>2. ~(k <= m) /\ k - m = i
    BY <1>2, <2>1
  <2>3. (s \o t)[k] = t[k - m]
    BY <1>3, <2>2
  <2> QED
    BY <2>1, <2>2, <2>3
<1> QED
  BY <1>4, <1>5, <1>6, <1>u, Zenon

(* The members of a part of a row.                                         *)
LEMMA RowPart ==
  ASSUME NEW s, NEW n, Row(s, n), NEW a \in Int, NEW b \in Int, 0 <= a, a <= b, b <= n,
         NEW u, Part(u, s, a, b)
  PROVE  /\ Row(u, b - a)
         /\ \A i \in 1..(b - a) : u[i] = s[a + i]
<1> DEFINE S == {s[i] : i \in 1..n}
           t == SubSeq(s, a + 1, b)
<1>1. n \in Nat /\ a + 1 \in Int
  BY DEF Row
<1>2. \A i \in a + 1..b : s[i] \in S
  BY <1>1
<1> HIDE DEF S
<1>3. /\ t \in Seq(S)
      /\ Len(t) = IF a + 1 <= b THEN b - (a + 1) + 1 ELSE 0
      /\ \A i \in 1..b - (a + 1) + 1 : t[i] = s[a + 1 + i - 1]
  BY <1>1, <1>2, SubSeqProperties
<1> HIDE DEF t
<1>4. Len(t) = b - a
  BY <1>3
<1>5. \A i \in 1..b - a : t[i] = s[a + i]
  <2>1. ASSUME NEW i \in 1..b - a
        PROVE  t[i] = s[a + i]
    <3>1. i \in 1..b - (a + 1) + 1 /\ a + 1 + i - 1 = a + i
      OBVIOUS
    <3> QED
      BY <1>3, <3>1
  <2> QED
    BY <2>1
<1>6. Row(t, b - a)
  BY <1>3, <1>4, SeqRow
<1> QED
  BY <1>5, <1>6 DEF t, Part

(* Two members are a row of two.                                           *)
LEMMA RowPair ==
  ASSUME NEW a, NEW b
  PROVE  Row(<<a, b>>, 2) /\ <<a, b>>[1] = a /\ <<a, b>>[2] = b
  BY DEF Row

(* One member is a row of one.                                             *)
LEMMA RowOne ==
  ASSUME NEW a
  PROVE  Row(<<a>>, 1) /\ <<a>>[1] = a
  BY DEF Row

(* No member is a row of none.                                             *)
LEMMA RowNone == Row(<<>>, 0)
  BY DEF Row

-----------------------------------------------------------------------------
(***************************************************************************)
(* Bytes and words.                                                        *)
(***************************************************************************)

(* A word is an integer of 16 bits.                                        *)
LEMMA ShortInt == ASSUME NEW a \in Short PROVE a \in Int /\ 0 <= a /\ a <= 65535
  BY DEF Short

(* Small numbers are words.                                                *)
LEMMA SmallShort == ASSUME NEW a \in 0..256 PROVE a \in Short
  BY DEF Short

(* The length of a queue fits in a word.                                   *)
LEMMA Doubled ==
  ASSUME NEW c \in Nat, c <= 127
  PROVE  (2 * c + 2) % 65536 = 2 * c + 2 /\ 2 * c + 2 \in Short /\ c \in Short
<1>1. 2 * c + 2 \in 0..256 /\ c \in 0..256 /\ (2 * c + 2) % 65536 = 2 * c + 2
  OBVIOUS
<1> QED
  BY <1>1, SmallShort

(* Half of a byte count.                                                   *)
LEMMA Halved ==
  ASSUME NEW n \in Nat, n <= 255
  PROVE  n \div 2 \in Nat /\ n \div 2 <= 127 /\ 2 * (n \div 2) <= n
  OBVIOUS

(* A word in two bytes is that word again.                                 *)
LEMMA WordBytes ==
  ASSUME NEW a \in Short
  PROVE  /\ Row(Word(a), 2)
         /\ Word(a)[1] \in Octet
         /\ Word(a)[2] \in Octet
         /\ 256 * Word(a)[1] + Word(a)[2] = a
<1>a0. a \in Int /\ 0 <= a /\ a <= 65535
  BY DEF Short
<1>1. a \div 256 \in Octet
  <2>1. a \div 256 \in Int /\ 0 <= a \div 256 /\ a \div 256 <= 255
    BY <1>a0
  <2> QED
    BY <2>1 DEF Octet
<1>a. a % 256 \in Octet
  BY DEF Short, Octet
<1>b. 256 * (a \div 256) + (a % 256) = a
  BY <1>a0
<1>2. Word(a)[1] = a \div 256 /\ Word(a)[2] = a % 256 /\ Row(Word(a), 2)
  BY RowPair DEF Word
<1> QED
  BY <1>1, <1>a, <1>b, <1>2

(* The words of a row of bytes.                                            *)
LEMMA WordsAt ==
  ASSUME NEW r, NEW n, Row(r, n)
  PROVE  /\ Row(Words(r), n \div 2)
         /\ \A i \in 1..(n \div 2) : Words(r)[i] = 256 * r[2 * i - 1] + r[2 * i]
<1>1. Len(r) = n /\ n \in Nat /\ n \div 2 \in Nat
  BY RowLen
<1> QED
  BY <1>1 DEF Words, Row

(* Its first four words.                                                   *)
LEMMA FirstWords ==
  ASSUME NEW r, NEW n, Row(r, n)
  PROVE  /\ 2 <= n => Words(r)[1] = 256 * r[1] + r[2]
         /\ 4 <= n => Words(r)[2] = 256 * r[3] + r[4]
         /\ 6 <= n => Words(r)[3] = 256 * r[5] + r[6]
         /\ 8 <= n => Words(r)[4] = 256 * r[7] + r[8]
<1>1. n \in Nat /\ \A i \in 1..(n \div 2) : Words(r)[i] = 256 * r[2 * i - 1] + r[2 * i]
  BY WordsAt DEF Row
<1>2. ASSUME 2 <= n
      PROVE  Words(r)[1] = 256 * r[1] + r[2]
  <2>1. 1 \in 1..(n \div 2) /\ 2 * 1 - 1 = 1 /\ 2 * 1 = 2
    BY <1>1, <1>2
  <2> QED
    BY <1>1, <2>1
<1>3. ASSUME 4 <= n
      PROVE  Words(r)[2] = 256 * r[3] + r[4]
  <2>1. 2 \in 1..(n \div 2) /\ 2 * 2 - 1 = 3 /\ 2 * 2 = 4
    BY <1>1, <1>3
  <2> QED
    BY <1>1, <2>1
<1>4. ASSUME 6 <= n
      PROVE  Words(r)[3] = 256 * r[5] + r[6]
  <2>1. 3 \in 1..(n \div 2) /\ 2 * 3 - 1 = 5 /\ 2 * 3 = 6
    BY <1>1, <1>4
  <2> QED
    BY <1>1, <2>1
<1>5. ASSUME 8 <= n
      PROVE  Words(r)[4] = 256 * r[7] + r[8]
  <2>1. 4 \in 1..(n \div 2) /\ 2 * 4 - 1 = 7 /\ 2 * 4 = 8
    BY <1>1, <1>5
  <2> QED
    BY <1>1, <2>1
<1> QED
  BY <1>2, <1>3, <1>4, <1>5

(* A word at the front of data.                                            *)
LEMMA FrontWord ==
  ASSUME NEW a \in Short, NEW t, NEW n \in Nat, Row(t, n), NEW r, Joined(r, Word(a), t)
  PROVE  /\ Row(r, 2 + n)
         /\ r[1] = Word(a)[1]
         /\ r[2] = Word(a)[2]
         /\ Words(r)[1] = a
         /\ \A i \in 1..n : r[2 + i] = t[i]
<1>1. n \in Nat /\ 1 \in 1..2 /\ 2 \in 1..2 /\ 2 <= 2 + n
  BY DEF Row
<1>2. Row(Word(a), 2) /\ 256 * Word(a)[1] + Word(a)[2] = a
  BY WordBytes
<1>3. Row(r, 2 + n) /\ (\A i \in 1..2 : r[i] = Word(a)[i]) /\ \A i \in 1..n : r[2 + i] = t[i]
  BY <1>1, <1>2, RowConcat
<1>4. r[1] = Word(a)[1] /\ r[2] = Word(a)[2]
  BY <1>1, <1>3
<1>5. Words(r)[1] = 256 * r[1] + r[2]
  BY <1>1, <1>3, FirstWords
<1> QED
  BY <1>2, <1>3, <1>4, <1>5

(* Two words on the wire are those two words again.                        *)
LEMMA TwoWords ==
  ASSUME NEW a \in Short, NEW b \in Short, NEW r, Joined(r, Word(a), Word(b))
  PROVE  /\ Row(r, 4)
         /\ 256 * r[1] + r[2] = a
         /\ 256 * r[3] + r[4] = b
         /\ Words(r)[1] = a
         /\ Words(r)[2] = b
         /\ Words(r) = <<a, b>>
<1> DEFINE w == Words(r)
<1>1. Row(Word(b), 2) /\ 256 * Word(b)[1] + Word(b)[2] = b
  BY WordBytes
<1>2. /\ Row(r, 2 + 2) /\ r[1] = Word(a)[1] /\ r[2] = Word(a)[2] /\ w[1] = a
      /\ \A i \in 1..2 : r[2 + i] = Word(b)[i]
  BY <1>1, FrontWord
<1>3. r[3] = Word(b)[1] /\ r[4] = Word(b)[2] /\ Row(r, 4)
  <2>1. 1 \in 1..2 /\ 2 \in 1..2 /\ 2 + 1 = 3 /\ 2 + 2 = 4
    OBVIOUS
  <2> QED
    BY <1>2, <2>1
<1>4. Row(w, 4 \div 2)
  BY <1>3, WordsAt
<1>5. w[2] = 256 * r[3] + r[4] /\ Row(w, 2)
  <2>1. 4 \div 2 = 2 /\ 4 <= 4
    OBVIOUS
  <2> QED
    BY <1>3, <1>4, <2>1, FirstWords
<1> HIDE DEF w
<1>6. w[2] = b
  BY <1>1, <1>3, <1>5
<1>7. w = <<a, b>>
  <2>1. w = [i \in 1..2 |-> w[i]]
    BY <1>5 DEF Row
  <2> QED
    BY <1>2, <1>6, <2>1
<1>8. 256 * r[1] + r[2] = a /\ 256 * r[3] + r[4] = b
  BY <1>1, <1>2, <1>3, WordBytes
<1> QED
  BY <1>2, <1>3, <1>6, <1>7, <1>8 DEF w

(* Two words at the front of data.                                         *)
LEMMA FrontWords ==
  ASSUME NEW a \in Short, NEW b \in Short, NEW t, NEW n \in Nat, Row(t, n),
         NEW r, Joined(r, Word(a) \o Word(b), t)
  PROVE  /\ Row(r, 4 + n)
         /\ Words(r)[1] = a
         /\ Words(r)[2] = b
         /\ \A i \in 1..n : r[4 + i] = t[i]
<1> DEFINE h == Word(a) \o Word(b)
<1>1. n \in Nat /\ 2 <= 4 + n /\ 4 <= 4 + n /\ 1 \in 1..4 /\ 2 \in 1..4 /\ 3 \in 1..4 /\ 4 \in 1..4
  BY DEF Row
<1>3. Joined(r, h, t) /\ Joined(h, Word(a), Word(b))
  BY DEF Joined
<1> HIDE DEF h
<1>2. Row(h, 4) /\ 256 * h[1] + h[2] = a /\ 256 * h[3] + h[4] = b
  BY <1>3, TwoWords
<1>4. Row(r, 4 + n) /\ (\A i \in 1..4 : r[i] = h[i]) /\ \A i \in 1..n : r[4 + i] = t[i]
  BY <1>1, <1>2, <1>3, RowConcat
<1>5. r[1] = h[1] /\ r[2] = h[2] /\ r[3] = h[3] /\ r[4] = h[4]
  BY <1>1, <1>4
<1>6. Words(r)[1] = 256 * r[1] + r[2] /\ Words(r)[2] = 256 * r[3] + r[4]
  BY <1>1, <1>4, FirstWords
<1> QED
  BY <1>2, <1>4, <1>5, <1>6

(* Swapped bytes are as many, but for an odd one.                          *)
LEMMA Swaps ==
  ASSUME NEW r, NEW n, Row(r, n)
  PROVE  Row(Swapped(r), 2 * (n \div 2))
<1>1. Len(r) = n /\ n \in Nat /\ 2 * (n \div 2) \in Nat
  BY RowLen
<1> QED
  BY <1>1 DEF Swapped, Row

-----------------------------------------------------------------------------
(***************************************************************************)
(* The server engine between two requests.                                 *)
(***************************************************************************)
Server(s) ==
  /\ s \in [unit : Int, func : Int, offset : Int, count : Int, andMask : Int, orMask : Int,
            valueBuff : {s.valueBuff}]
  /\ Row(s.valueBuff, ValueBuffSz)

(* Putting bytes changes valueBuff only, and there only where they go.     *)
LEMMA PutServer ==
  ASSUME NEW s, Server(s), NEW at, NEW bytes
  PROVE  /\ Server(Put(s, at, bytes))
         /\ Put(s, at, bytes) = [s EXCEPT !.valueBuff = Put(s, at, bytes).valueBuff]
         /\ \A i \in 1..ValueBuffSz :
              Put(s, at, bytes).valueBuff[i] =
                IF i - at \in DOMAIN bytes THEN bytes[i - at] ELSE s.valueBuff[i]
<1> DEFINE new == [i \in DOMAIN s.valueBuff |-> IF i - at \in DOMAIN bytes
                                             THEN bytes[i - at] ELSE s.valueBuff[i]]
<1>1. DOMAIN s.valueBuff = 1..ValueBuffSz /\ ValueBuffSz \in Nat
  BY RowLen DEF Server
<1>2. Row(new, ValueBuffSz)
  BY <1>1 DEF Row
<1>3. Put(s, at, bytes) = [s EXCEPT !.valueBuff = new]
  BY DEF Put
<1>4. \A i \in 1..ValueBuffSz : new[i] = IF i - at \in DOMAIN bytes THEN bytes[i - at]
                                       ELSE s.valueBuff[i]
  BY <1>1
<1> HIDE DEF new
<1> QED
  BY <1>2, <1>3, <1>4 DEF Server

(* What processInputData makes of data that it understands.                *)
Heard(in, s) ==
  /\ in.status = "Good"
  /\ Server(in.srv)
  /\ in.srv.unit = s.unit
  /\ in.srv.func = s.func

(* A request whose bytes are put into valueBuff is heard.                  *)
LEMMA PutHeard ==
  ASSUME NEW s, Server(s), NEW t, Server(t), t.unit = s.unit, t.func = s.func, NEW bytes
  PROVE  Heard(Accept(Put(t, 0, bytes)), s)
<1>1. Server(Put(t, 0, bytes)) /\ Put(t, 0, bytes) = [t EXCEPT !.valueBuff = Put(t, 0, bytes).valueBuff]
  BY PutServer
<1>2. Put(t, 0, bytes).unit = t.unit /\ Put(t, 0, bytes).func = t.func
  BY <1>1 DEF Server
<1> QED
  BY <1>1, <1>2 DEF Heard, Accept

(* So is one to read, if it does not ask for too much.                     *)
LEMMA ReadHeard ==
  ASSUME NEW s, Server(s), NEW a \in Short, NEW b \in Short, NEW max \in Nat, b <= max,
         NEW data, Joined(data, Word(a), Word(b))
  PROVE  /\ Heard(ReadInput(s, data, max), s)
         /\ ReadInput(s, data, max).srv.offset = a
         /\ ReadInput(s, data, max).srv.count = b
<1> DEFINE t == [s EXCEPT !.offset = a, !.count = b]
<1>1. Row(data, 4) /\ Words(data)[1] = a /\ Words(data)[2] = b
  BY TwoWords
<1>2. Len(data) = 4
  BY <1>1, RowLen
<1>3. a \in Int /\ b \in Int
  BY ShortInt
<1>4. Server(t) /\ t.unit = s.unit /\ t.func = s.func /\ t.offset = a /\ t.count = b
  BY <1>3 DEF Server
<1>5. ReadInput(s, data, max) = Accept(t)
  BY <1>1, <1>2, <1>3, <1>4 DEF ReadInput
<1> HIDE DEF t
<1> QED
  BY <1>4, <1>5 DEF Heard, Accept

(* So is one without data.                                                 *)
LEMMA EmptyHeard ==
  ASSUME NEW s, Server(s)
  PROVE  Heard(EmptyInput(s, <<>>), s)
  BY DEF EmptyInput, Accept, Heard

(* So is one to write one coil or register, whose value is kept.           *)
LEMMA SingleHeard ==
  ASSUME NEW s, Server(s), NEW a \in Short, NEW x, NEW y,
         NEW data, Joined(data, Word(a), <<x, y>>),
         s.func = 5 => x \in {0, 255} /\ y = 0
  PROVE  LET in == SingleInput(s, data, s.func = 5)
         IN  /\ Heard(in, s)
             /\ in.srv.offset = a
             /\ in.srv.valueBuff[1] = IF s.func = 5 THEN x ELSE y
             /\ s.func # 5 => in.srv.valueBuff[2] = x
<1> DEFINE t == [s EXCEPT !.offset = a]
           bytes == IF s.func = 5 THEN <<x>> ELSE <<y, x>>
           u == Put(t, 0, bytes)
<1>1. Row(<<x, y>>, 2) /\ <<x, y>>[1] = x /\ <<x, y>>[2] = y
  BY RowPair
<1>2. Row(data, 2 + 2) /\ Words(data)[1] = a /\ \A i \in 1..2 : data[2 + i] = <<x, y>>[i]
  BY <1>1, FrontWord
<1>3. Row(data, 4) /\ data[3] = x /\ data[4] = y
  <2>1. 1 \in 1..2 /\ 2 \in 1..2 /\ 2 + 1 = 3 /\ 2 + 2 = 4
    OBVIOUS
  <2> QED
    BY <1>1, <1>2, <2>1
<1>4. Len(data) = 4
  <2>1. PICK n \in Nat : n = 4
    OBVIOUS
  <2>2. Row(data, n)
    BY <1>3, <2>1
  <2>3. Len(data) = n
    BY <2>2, RowLen
  <2> QED
    BY <2>1, <2>3
<1>5. a \in Int
  BY DEF Short
<1>6. Server(t) /\ t.unit = s.unit /\ t.func = s.func /\ t.offset = a
  BY <1>5 DEF Server
<1>7. SingleInput(s, data, s.func = 5) = Accept(u)
  BY <1>2, <1>3, <1>4 DEF SingleInput
<1> HIDE DEF t
<1>8. /\ u = [t EXCEPT !.valueBuff = u.valueBuff]
      /\ Server(u)
      /\ \A i \in 1..ValueBuffSz :
           u.valueBuff[i] = IF i - 0 \in DOMAIN bytes THEN bytes[i - 0] ELSE t.valueBuff[i]
  BY <1>6, PutServer
<1>9. Heard(Accept(u), s)
  BY <1>6, PutHeard
<1>10. u.offset = a
  <2> HIDE DEF u
  <2> QED
    BY <1>6, <1>8 DEF Server
<1>11. 1 \in 1..ValueBuffSz /\ 2 \in 1..ValueBuffSz /\ 1 - 0 = 1 /\ 2 - 0 = 2
  BY DEF ValueBuffSz
<1>12. /\ 1 \in DOMAIN bytes
       /\ bytes[1] = IF s.func = 5 THEN x ELSE y
       /\ s.func # 5 => 2 \in DOMAIN bytes /\ bytes[2] = x
  BY RowPair, RowOne, RowLen
<1> HIDE DEF bytes, u
<1>13. u.valueBuff[1] = bytes[1] /\ (s.func # 5 => u.valueBuff[2] = bytes[2])
  BY <1>8, <1>11, <1>12
<1> QED
  BY <1>7, <1>9, <1>10, <1>12, <1>13 DEF Accept

(* So is a diagnostics request, if it carries two bytes or is a query.     *)
LEMMA QueryHeard ==
  ASSUME NEW s, Server(s), NEW a \in Short, NEW rest, NEW n \in Nat, Row(rest, n),
         NEW data, Joined(data, Word(a), rest), a = 0 \/ n = 2
  PROVE  LET in == DiagnosticsInput(s, data)
         IN  /\ Heard(in, s)
             /\ in.srv.offset = a
             /\ in.srv.count = n
<1> DEFINE t == [s EXCEPT !.offset = a, !.count = n]
           bytes == After(data, 2)
           u == Put(t, 0, bytes)
<1>1. Row(data, 2 + n) /\ Words(data)[1] = a
  BY FrontWord
<1>2. Len(data) = 2 + n
  BY <1>1, RowLen
<1>3. a \in Int /\ n \in Int /\ Len(data) - 2 = n /\ ~(Len(data) < 2)
  BY <1>2, ShortInt
<1>4. Server(t) /\ t.unit = s.unit /\ t.func = s.func /\ t.offset = a /\ t.count = n
  BY <1>3 DEF Server
<1>5. DiagnosticsInput(s, data) = Accept(u)
  <2> HIDE DEF bytes
  <2> QED
    BY <1>1, <1>3, <1>4 DEF DiagnosticsInput, bytes
<1> HIDE DEF t, bytes
<1>6. /\ u = [t EXCEPT !.valueBuff = u.valueBuff]
      /\ Server(u)
  BY <1>4, PutServer
<1>7. Heard(Accept(u), s)
  BY <1>4, PutHeard
<1> HIDE DEF u
<1>8. u.offset = a /\ u.count = n
  BY <1>4, <1>6 DEF Server
<1> QED
  BY <1>5, <1>7, <1>8 DEF Accept

(* What WriteMultiple sends.                                               *)
Multiple(data, a, b, bytes) ==
  data = Word(a) \o Word(b) \o <<Len(bytes) % 256>> \o bytes

(* What a request to write several coils or registers carries.             *)
LEMMA MultipleData ==
  ASSUME NEW a \in Short, NEW b \in Short, NEW bytes, NEW n \in Nat, Row(bytes, n),
         n <= 255, NEW data, Multiple(data, a, b, bytes)
  PROVE  /\ Row(data, 5 + n)
         /\ Words(data)[1] = a
         /\ Words(data)[2] = b
         /\ data[5] = n
<1> DEFINE one == <<Len(bytes) % 256>>
           h == Word(a) \o Word(b) \o one
<1>1. Len(bytes) = n
  BY RowLen
<1>2. Row(one, 1) /\ one[1] = n % 256
  BY <1>1, RowOne
<1>3. one[1] = n
  BY <1>2
<1>4. Joined(h, Word(a) \o Word(b), one) /\ Joined(data, h, bytes)
  BY DEF Multiple, Joined
<1> HIDE DEF one, h
<1>5. /\ Row(h, 4 + 1) /\ Words(h)[1] = a /\ Words(h)[2] = b
      /\ \A i \in 1..1 : h[4 + i] = one[i]
  BY <1>2, <1>4, FrontWords
<1>6. Row(h, 5) /\ h[5] = n
  <2>1. 1 \in 1..1 /\ 4 + 1 = 5
    OBVIOUS
  <2> QED
    BY <1>3, <1>5, <2>1
<1>7. Row(data, 5 + n) /\ (\A i \in 1..5 : data[i] = h[i])
  BY <1>4, <1>6, RowConcat
<1>8. data[1] = h[1] /\ data[2] = h[2] /\ data[3] = h[3] /\ data[4] = h[4] /\ data[5] = h[5]
  <2>1. 1 \in 1..5 /\ 2 \in 1..5 /\ 3 \in 1..5 /\ 4 \in 1..5 /\ 5 \in 1..5
    OBVIOUS
  <2> QED
    BY <1>7, <2>1
<1>9. Words(h)[1] = 256 * h[1] + h[2] /\ Words(h)[2] = 256 * h[3] + h[4]
  <2>1. 2 <= 5 /\ 4 <= 5
    OBVIOUS
  <2> QED
    BY <1>6, <2>1, FirstWords
<1>10. Words(data)[1] = 256 * data[1] + data[2] /\ Words(data)[2] = 256 * data[3] + data[4]
  <2>1. 2 <= 5 + n /\ 4 <= 5 + n
    OBVIOUS
  <2> QED
    BY <1>7, <2>1, FirstWords
<1> QED
  BY <1>5, <1>6, <1>7, <1>8, <1>9, <1>10

(* One to write coils is heard, if there are bytes for the count.          *)
LEMMA CoilsHeard ==
  ASSUME NEW s, Server(s), NEW a \in Short, NEW b \in Short, NEW bytes,
         Row(bytes, ByteCount(b)), b <= MaxDiscrets, NEW data, Multiple(data, a, b, bytes)
  PROVE  /\ Heard(CoilsInput(s, data), s)
         /\ CoilsInput(s, data).srv.offset = a
         /\ CoilsInput(s, data).srv.count = b
<1> DEFINE t == [s EXCEPT !.offset = a, !.count = b]
           values == After(data, 5)
           u == Put(t, 0, values)
<1>1. a \in Int /\ b \in Int /\ 0 <= b
  BY ShortInt
<1>2. PICK n \in Nat : n = ByteCount(b) /\ n <= 255
  <2>1. ByteCount(b) \in Nat
    BY <1>1 DEF ByteCount
  <2>2. ByteCount(b) <= 255
    BY <1>1 DEF ByteCount, MaxDiscrets
  <2> QED
    BY <2>1, <2>2
<1>3. Row(data, 5 + n) /\ Words(data)[1] = a /\ Words(data)[2] = b /\ data[5] = n
  BY <1>2, MultipleData
<1>4. Len(data) = 5 + n
  BY <1>3, RowLen
<1>5. ~(Len(data) < 5) /\ Len(data) = n + 5
  BY <1>4
<1>6. Server(t) /\ t.unit = s.unit /\ t.func = s.func /\ t.offset = a /\ t.count = b
  BY <1>1 DEF Server
<1>7. CoilsInput(s, data) = Accept(u)
  <2> HIDE DEF values
  <2>1. ~(b > MaxDiscrets)
    BY <1>1 DEF MaxDiscrets
  <2> QED
    BY <1>2, <1>3, <1>5, <1>6, <2>1 DEF CoilsInput, MultipleInput, values
<1> HIDE DEF t, values
<1>8. /\ u = [t EXCEPT !.valueBuff = u.valueBuff]
      /\ Server(u)
  BY <1>6, PutServer
<1>9. Heard(Accept(u), s)
  BY <1>6, PutHeard
<1> HIDE DEF u
<1>10. u.offset = a /\ u.count = b
  BY <1>6, <1>8 DEF Server
<1> QED
  BY <1>7, <1>9, <1>10 DEF Accept

(* One to write registers is heard.                                        *)
LEMMA RegistersHeard ==
  ASSUME NEW s, Server(s), NEW a \in Short, NEW b \in Short, NEW bytes,
         Row(bytes, 2 * b), b <= MaxRegisters, NEW data, Multiple(data, a, b, bytes)
  PROVE  /\ Heard(RegistersInput(s, data), s)
         /\ RegistersInput(s, data).srv.offset = a
         /\ RegistersInput(s, data).srv.count = b
<1> DEFINE t == [s EXCEPT !.offset = a, !.count = b]
           values == Swapped(After(data, 5))
           u == Put(t, 0, values)
<1>1. a \in Int /\ b \in Int /\ 0 <= b
  BY ShortInt
<1>2. PICK n \in Nat : n = 2 * b /\ n <= 255
  BY <1>1 DEF MaxRegisters
<1>3. Row(data, 5 + n) /\ Words(data)[1] = a /\ Words(data)[2] = b /\ data[5] = n
  BY <1>2, MultipleData
<1>4. Len(data) = 5 + n
  BY <1>3, RowLen
<1>5. ~(Len(data) < 5) /\ Len(data) = n + 5
  BY <1>4
<1>6. Server(t) /\ t.unit = s.unit /\ t.func = s.func /\ t.offset = a /\ t.count = b
  BY <1>1 DEF Server
<1>7. RegistersInput(s, data) = Accept(u)
  <2> HIDE DEF values
  <2>1. ~(b > MaxRegisters)
    BY <1>1 DEF MaxRegisters
  <2> QED
    BY <1>2, <1>3, <1>5, <1>6, <2>1 DEF RegistersInput, MultipleInput, values
<1> HIDE DEF t, values
<1>8. /\ u = [t EXCEPT !.valueBuff = u.valueBuff]
      /\ Server(u)
  BY <1>6, PutServer
<1>9. Heard(Accept(u), s)
  BY <1>6, PutHeard
<1> HIDE DEF u
<1>10. u.offset = a /\ u.count = b
  BY <1>6, <1>8 DEF Server
<1> QED
  BY <1>7, <1>9, <1>10 DEF Accept

(* A word at the end of data.                                              *)
LEMMA LastWord ==
  ASSUME NEW s, NEW n \in Nat, Row(s, n), NEW a \in Short, NEW u, Joined(u, s, Word(a)),
         NEW k, k = n + 1, NEW m, m = n + 2
  PROVE  /\ Row(u, m)
         /\ \A i \in 1..n : u[i] = s[i]
         /\ 256 * u[k] + u[m] = a
<1>1. Row(Word(a), 2) /\ 256 * Word(a)[1] + Word(a)[2] = a
  BY WordBytes
<1>2. Row(u, n + 2) /\ (\A i \in 1..n : u[i] = s[i]) /\ \A i \in 1..2 : u[n + i] = Word(a)[i]
  BY <1>1, RowConcat
<1>3. 1 \in 1..2 /\ 2 \in 1..2
  OBVIOUS
<1> QED
  BY <1>1, <1>2, <1>3

(* What maskWriteRegister sends and expects.                               *)
Masking(data, a, b, c) == data = Word(a) \o Word(b) \o Word(c)

(* One to mask a register is heard, and the masks are kept.                *)
LEMMA MaskHeard ==
  ASSUME NEW s, Server(s), NEW a \in Short, NEW b \in Short, NEW c \in Short,
         NEW data, Masking(data, a, b, c)
  PROVE  /\ Heard(MaskInput(s, data), s)
         /\ MaskInput(s, data).srv.offset = a
         /\ MaskInput(s, data).srv.andMask = b
         /\ MaskInput(s, data).srv.orMask = c
<1> DEFINE t == [s EXCEPT !.offset = a, !.andMask = b, !.orMask = c]
<1> DEFINE h == Word(a) \o Word(b)
<1>1. Joined(h, Word(a), Word(b)) /\ Joined(data, h, Word(c))
  BY DEF Joined, Masking
<1> HIDE DEF h
<1>2. Row(h, 4) /\ 256 * h[1] + h[2] = a /\ 256 * h[3] + h[4] = b
  BY <1>1, TwoWords
<1>3. Row(data, 6) /\ (\A i \in 1..4 : data[i] = h[i]) /\ 256 * data[5] + data[6] = c
  <2>1. 4 \in Nat /\ 5 = 4 + 1 /\ 6 = 4 + 2
    OBVIOUS
  <2> QED
    BY <1>1, <1>2, <2>1, LastWord
<1>4. data[1] = h[1] /\ data[2] = h[2] /\ data[3] = h[3] /\ data[4] = h[4]
  BY <1>3
<1>5. /\ Words(data)[1] = 256 * data[1] + data[2]
      /\ Words(data)[2] = 256 * data[3] + data[4]
      /\ Words(data)[3] = 256 * data[5] + data[6]
  <2>1. 2 <= 6 /\ 4 <= 6 /\ 6 <= 6
    OBVIOUS
  <2> QED
    BY <1>3, <2>1, FirstWords
<1>6. Words(data)[1] = a /\ Words(data)[2] = b /\ Words(data)[3] = c
  BY <1>2, <1>3, <1>4, <1>5
<1>7. Len(data) = 6
  BY <1>3, RowLen
<1>8. a \in Int /\ b \in Int /\ c \in Int
  BY ShortInt
<1>9. Server(t) /\ t.unit = s.unit /\ t.func = s.func
      /\ t.offset = a /\ t.andMask = b /\ t.orMask = c
  BY <1>8 DEF Server
<1>10. MaskInput(s, data) = Accept(t)
  BY <1>6, <1>7 DEF MaskInput
<1> HIDE DEF t
<1> QED
  BY <1>9, <1>10 DEF Heard, Accept

(* One for a queue is heard.                                               *)
LEMMA QueueHeard ==
  ASSUME NEW s, Server(s), NEW a \in Short
  PROVE  Heard(QueueInput(s, Word(a)), s)
<1> DEFINE t == [s EXCEPT !.offset = a]
<1>1. Row(Word(a), 2) /\ 256 * Word(a)[1] + Word(a)[2] = a
  BY WordBytes
<1>2. Words(Word(a))[1] = a
  <2>1. 2 <= 2
    OBVIOUS
  <2> QED
    BY <1>1, <2>1, FirstWords
<1>3. Len(Word(a)) = 2
  BY <1>1, RowLen
<1>4. a \in Int
  BY ShortInt
<1>5. Server(t) /\ t.unit = s.unit /\ t.func = s.func
  BY <1>4 DEF Server
<1>6. QueueInput(s, Word(a)) = Accept(t)
  BY <1>2, <1>3 DEF QueueInput
<1> HIDE DEF t
<1> QED
  BY <1>5, <1>6 DEF Heard, Accept

(* One for the identification is heard, and code and object are kept.      *)
LEMMA IdentificationHeard ==
  ASSUME NEW s, Server(s), NEW code \in Octet, NEW object \in Octet
  PROVE  LET in == IdentificationInput(s, <<14, code, object>>)
         IN  Heard(in, s) /\ in.srv.offset = code + 256 * object
<1> DEFINE data == <<14, code, object>>
           at == code + 256 * object
           t == [s EXCEPT !.offset = at]
<1>1. Len(data) = 3 /\ data[1] = 14 /\ data[2] = code /\ data[3] = object
  OBVIOUS
<1>2. at \in Int
  BY DEF Octet
<1>3. data[2] + 256 * data[3] = at
  BY <1>1
<1> HIDE DEF data, at
<1>4. Server(t) /\ t.unit = s.unit /\ t.func = s.func /\ t.offset = at
  BY <1>2 DEF Server
<1>5. IdentificationInput(s, data) = Accept(t)
  BY <1>1, <1>3 DEF IdentificationInput
<1> HIDE DEF t
<1>6. Heard(Accept(t), s) /\ Accept(t).srv = t
  BY <1>4 DEF Heard, Accept
<1>7. IdentificationInput(s, data).srv.offset = at
  BY <1>4, <1>5, <1>6
<1> QED
  BY <1>5, <1>6, <1>7 DEF data, at

(* What readWriteMultipleRegisters sends.                                  *)
Both(data, a, b, c, d, bytes) ==
  data = Word(a) \o Word(b) \o Word(c) \o Word(d) \o <<Len(bytes) % 256>> \o bytes

(* What a request to read and write registers carries.                     *)
LEMMA BothData ==
  ASSUME NEW a \in Short, NEW b \in Short, NEW c \in Short, NEW d \in Short,
         NEW bytes, NEW n \in Nat, Row(bytes, n), n <= 255,
         NEW data, Both(data, a, b, c, d, bytes)
  PROVE  /\ Row(data, 9 + n)
         /\ Words(data)[1] = a
         /\ Words(data)[2] = b
         /\ Words(data)[3] = c
         /\ Words(data)[4] = d
         /\ data[9] = n
<1> DEFINE one == <<Len(bytes) % 256>>
           h == Word(a) \o Word(b)
           h6 == h \o Word(c)
           h8 == h6 \o Word(d)
           h9 == h8 \o one
<1>1. Len(bytes) = n
  BY RowLen
<1>2. Row(one, 1) /\ one[1] = n
  <2>1. Row(one, 1) /\ one[1] = n % 256
    BY <1>1, RowOne
  <2> QED
    BY <2>1
<1>3. /\ Joined(h, Word(a), Word(b)) /\ Joined(h6, h, Word(c)) /\ Joined(h8, h6, Word(d))
      /\ Joined(h9, h8, one) /\ Joined(data, h9, bytes)
  BY DEF Both, Joined
<1> HIDE DEF one, h, h6, h8, h9
<1>5. Row(h, 4) /\ 256 * h[1] + h[2] = a /\ 256 * h[3] + h[4] = b
  BY <1>3, TwoWords
<1>6. /\ 1 \in 1..2 /\ 2 \in 1..2 /\ 4 + 1 = 5 /\ 4 + 2 = 6 /\ 6 + 1 = 7 /\ 6 + 2 = 8
      /\ 8 + 1 = 9 /\ 1 \in 1..1
      /\ \A i \in {1, 2, 3, 4} : i \in 1..4
      /\ \A i \in {1, 2, 3, 4, 5, 6} : i \in 1..6
      /\ \A i \in {1, 2, 3, 4, 5, 6, 7, 8} : i \in 1..8
      /\ \A i \in {1, 2, 3, 4, 5, 6, 7, 8, 9} : i \in 1..9
  OBVIOUS
<1>7. Row(h6, 6) /\ (\A i \in 1..4 : h6[i] = h[i]) /\ 256 * h6[5] + h6[6] = c
  <2>1. 4 \in Nat /\ 5 = 4 + 1 /\ 6 = 4 + 2
    OBVIOUS
  <2>2. Joined(h6, h, Word(c)) /\ Row(h, 4)
    BY <1>3, <1>5
  <2> QED
    BY <2>1, <2>2, LastWord
<1>8. 256 * h6[1] + h6[2] = a /\ 256 * h6[3] + h6[4] = b
  <2>1. h6[1] = h[1] /\ h6[2] = h[2] /\ h6[3] = h[3] /\ h6[4] = h[4]
    BY <1>6, <1>7
  <2> QED
    BY <1>5, <2>1
<1>9. Row(h8, 8) /\ (\A i \in 1..6 : h8[i] = h6[i]) /\ 256 * h8[7] + h8[8] = d
  <2>1. 6 \in Nat /\ 7 = 6 + 1 /\ 8 = 6 + 2
    OBVIOUS
  <2>2. Joined(h8, h6, Word(d)) /\ Row(h6, 6)
    BY <1>3, <1>7
  <2> QED
    BY <2>1, <2>2, LastWord
<1>10. /\ 256 * h8[1] + h8[2] = a /\ 256 * h8[3] + h8[4] = b
       /\ 256 * h8[5] + h8[6] = c /\ 256 * h8[7] + h8[8] = d
  <2>1. /\ h8[1] = h6[1] /\ h8[2] = h6[2] /\ h8[3] = h6[3] /\ h8[4] = h6[4]
        /\ h8[5] = h6[5] /\ h8[6] = h6[6]
    BY <1>6, <1>9
  <2> QED
    BY <1>7, <1>8, <1>9, <2>1
<1>11. Row(h9, 8 + 1) /\ (\A i \in 1..8 : h9[i] = h8[i]) /\ \A i \in 1..1 : h9[8 + i] = one[i]
  BY <1>2, <1>3, <1>9, RowConcat
<1>12. /\ Row(h9, 9) /\ h9[9] = n
       /\ h9[1] = h8[1] /\ h9[2] = h8[2] /\ h9[3] = h8[3] /\ h9[4] = h8[4]
       /\ h9[5] = h8[5] /\ h9[6] = h8[6] /\ h9[7] = h8[7] /\ h9[8] = h8[8]
  BY <1>2, <1>6, <1>11
<1>13. Row(data, 9 + n) /\ \A i \in 1..9 : data[i] = h9[i]
  BY <1>3, <1>12, RowConcat
<1>14. /\ data[1] = h9[1] /\ data[2] = h9[2] /\ data[3] = h9[3] /\ data[4] = h9[4]
       /\ data[5] = h9[5] /\ data[6] = h9[6] /\ data[7] = h9[7] /\ data[8] = h9[8]
       /\ data[9] = h9[9]
  BY <1>6, <1>13
<1>15. /\ Words(data)[1] = 256 * data[1] + data[2]
       /\ Words(data)[2] = 256 * data[3] + data[4]
       /\ Words(data)[3] = 256 * data[5] + data[6]
       /\ Words(data)[4] = 256 * data[7] + data[8]
  <2>1. 2 <= 9 + n /\ 4 <= 9 + n /\ 6 <= 9 + n /\ 8 <= 9 + n
    OBVIOUS
  <2> QED
    BY <1>13, <2>1, FirstWords
<1> QED
  BY <1>10, <1>12, <1>13, <1>14, <1>15

(* It is heard, whether it writes more than it reads or less.              *)
LEMMA ReadWriteHeard ==
  ASSUME NEW s, Server(s), NEW a \in Short, NEW b \in Short, NEW c \in Short,
         NEW d \in Short, NEW bytes, Row(bytes, 2 * d),
         b <= MaxRegisters, d <= MaxRegisters, NEW data, Both(data, a, b, c, d, bytes)
  PROVE  /\ Heard(ReadWriteInput(s, data), s)
         /\ ReadWriteInput(s, data).srv.count = b
<1> DEFINE t == [s EXCEPT !.offset = a, !.count = b, !.andMask = c, !.orMask = d]
           values == Swapped(SubSeq(data, 10, LeastOf(Len(data), 9 + 2 * b)))
           u == Put(t, 0, values)
<1>1. a \in Int /\ b \in Int /\ c \in Int /\ d \in Int /\ 0 <= d
  BY ShortInt
<1>2. PICK n \in Nat : n = 2 * d /\ n <= 255
  BY <1>1 DEF MaxRegisters
<1>3. /\ Row(data, 9 + n) /\ Words(data)[1] = a /\ Words(data)[2] = b
      /\ Words(data)[3] = c /\ Words(data)[4] = d /\ data[9] = n
  BY <1>2, BothData
<1>4. Len(data) = 9 + n
  BY <1>3, RowLen
<1>5. ~(Len(data) < 9) /\ Len(data) = n + 9
  BY <1>4
<1>6. /\ Server(t) /\ t.unit = s.unit /\ t.func = s.func
      /\ t.count = b /\ t.orMask = d
  BY <1>1 DEF Server
<1>7. ReadWriteInput(s, data) = Accept(u)
  <2> HIDE DEF values
  <2>1. ~(b > MaxRegisters) /\ ~(d > MaxRegisters)
    BY <1>1 DEF MaxRegisters
  <2> QED
    BY <1>2, <1>3, <1>5, <1>6, <2>1 DEF ReadWriteInput, values
<1> HIDE DEF t, values
<1>8. /\ u = [t EXCEPT !.valueBuff = u.valueBuff]
      /\ Server(u)
  BY <1>6, PutServer
<1>9. Heard(Accept(u), s)
  BY <1>6, PutHeard
<1> HIDE DEF u
<1>10. u.count = b
  BY <1>6, <1>8 DEF Server
<1> QED
  BY <1>7, <1>9, <1>10 DEF Accept

-----------------------------------------------------------------------------
(***************************************************************************)
(* The functions by name.                                                  *)
(***************************************************************************)

(* Each name stands for the function of that name: diagnostics,            *)
LEMMA DiagnosticNames ==
  ASSUME NEW q, NEW r
  PROVE  /\ q.name = "returnQueryData" => Function(q, r) = diagnosticsReturnQueryData(q, r)
         /\ q.name = "restartCommunicationsOption" =>
              Function(q, r) = diagnosticsRestartCommunicationsOption(q, r)
         /\ q.name = "returnDiagnosticRegister" =>
              Function(q, r) = diagnosticsReturnDiagnosticRegister(q, r)
         /\ q.name = "changeAsciiInputDelimiter" =>
              Function(q, r) = diagnosticsChangeAsciiInputDelimiter(q, r)
         /\ q.name = "forceListenOnlyMode" =>
              Function(q, r) = diagnosticsForceListenOnlyMode(q, r)
         /\ q.name = "clearCounters" =>
              Function(q, r) = diagnosticsClearCountersAndDiagnosticRegister(q, r)
         /\ q.name = "returnBusMessageCount" =>
              Function(q, r) = diagnosticsReturnBusMessageCount(q, r)
         /\ q.name = "returnBusCommunicationErrorCount" =>
              Function(q, r) = diagnosticsReturnBusCommunicationErrorCount(q, r)
         /\ q.name = "returnBusExceptionErrorCount" =>
              Function(q, r) = diagnosticsReturnBusExceptionErrorCount(q, r)
         /\ q.name = "returnServerMessageCount" =>
              Function(q, r) = diagnosticsReturnServerMessageCount(q, r)
         /\ q.name = "returnServerNoResponseCount" =>
              Function(q, r) = diagnosticsReturnServerNoResponseCount(q, r)
         /\ q.name = "returnServerNAKCount" =>
              Function(q, r) = diagnosticsReturnServerNAKCount(q, r)
         /\ q.name = "returnServerBusyCount" =>
              Function(q, r) = diagnosticsReturnServerBusyCount(q, r)
         /\ q.name = "returnBusCharacterOverrunCount" =>
              Function(q, r) = diagnosticsReturnBusCharacterOverrunCount(q, r)
         /\ q.name = "clearOverrunCounterAndFlag" =>
              Function(q, r) = diagnosticsClearOverrunCounterAndFlag(q, r)
  BY DEF Function, MemoryFunction, DiagnosticFunction

(* functions on memory,                                                    *)
LEMMA MemoryNames ==
  ASSUME NEW q, NEW r
  PROVE  /\ q.name = "readCoils" => Function(q, r) = readCoils(q, r)
         /\ q.name = "readCoilsAsBoolArray" => Function(q, r) = readCoilsAsBoolArray(q, r)
         /\ q.name = "readDiscreteInputs" => Function(q, r) = readDiscreteInputs(q, r)
         /\ q.name = "readDiscreteInputsAsBoolArray" =>
              Function(q, r) = readDiscreteInputsAsBoolArray(q, r)
         /\ q.name = "readHoldingRegisters" => Function(q, r) = readHoldingRegisters(q, r)
         /\ q.name = "readInputRegisters" => Function(q, r) = readInputRegisters(q, r)
         /\ q.name = "writeSingleCoil" => Function(q, r) = writeSingleCoil(q, r)
         /\ q.name = "writeSingleRegister" => Function(q, r) = writeSingleRegister(q, r)
         /\ q.name = "readExceptionStatus" => Function(q, r) = readExceptionStatus(q, r)
  BY DEF Function, MemoryFunction

(* and the others.                                                         *)
LEMMA OtherNames ==
  ASSUME NEW q, NEW r
  PROVE  /\ q.name = "getCommEventCounter" => Function(q, r) = getCommEventCounter(q, r)
         /\ q.name = "getCommEventLog" => Function(q, r) = getCommEventLog(q, r)
         /\ q.name = "writeMultipleCoils" => Function(q, r) = writeMultipleCoils(q, r)
         /\ q.name = "writeMultipleCoilsAsBoolArray" =>
              Function(q, r) = writeMultipleCoilsAsBoolArray(q, r)
         /\ q.name = "writeMultipleRegisters" => Function(q, r) = writeMultipleRegisters(q, r)
         /\ q.name = "reportServerID" => Function(q, r) = reportServerID(q, r)
         /\ q.name = "readFileRecord" => Function(q, r) = readFileRecord(q, r)
         /\ q.name = "writeFileRecord" => Function(q, r) = writeFileRecord(q, r)
         /\ q.name = "maskWriteRegister" => Function(q, r) = maskWriteRegister(q, r)
         /\ q.name = "readWriteMultipleRegisters" =>
              Function(q, r) = readWriteMultipleRegisters(q, r)
         /\ q.name = "readFIFOQueue" => Function(q, r) = readFIFOQueue(q, r)
         /\ q.name = "readDeviceIdentification" =>
              Function(q, r) = readDeviceIdentification(q, r)
  BY DEF Function

Is(f, q, r) == f = Function(q, r)

(* What the functions that read bits send, and which answer they take.     *)
LEMMA BitForm ==
  ASSUME NEW q \in BitCalls, NEW r, NEW f, Is(f, q, r)
  PROVE  /\ f.func \in {1, 2}
         /\ f.valid => q.count <= MaxDiscrets
         /\ Joined(f.data, Word(q.offset), Word(q.count))
         /\ Sized(r) /\ r[1] = ByteCount(q.count) => f.good
<1> DEFINE ok == Sized(r) /\ r[1] = ByteCount(q.count)
           forms == {readCoils(q, r), readCoilsAsBoolArray(q, r), readDiscreteInputs(q, r),
                     readDiscreteInputsAsBoolArray(q, r)}
<1>1. q.name \in {"readCoils", "readCoilsAsBoolArray", "readDiscreteInputs",
                  "readDiscreteInputsAsBoolArray"}
  BY DEF BitCalls
<1>2. f \in forms
  BY <1>1, MemoryNames DEF Is
<1> USE DEF readCoils, readCoilsAsBoolArray, readDiscreteInputs, readDiscreteInputsAsBoolArray,
            ReadBits
<1>3. f.func \in {1, 2}
  BY <1>2
<1>4. /\ Joined(readCoils(q, r).data, Word(q.offset), Word(q.count))
      /\ Joined(readDiscreteInputs(q, r).data, Word(q.offset), Word(q.count))
  BY DEF Joined
<1>4a. /\ Joined(readCoilsAsBoolArray(q, r).data, Word(q.offset), Word(q.count))
       /\ Joined(readDiscreteInputsAsBoolArray(q, r).data, Word(q.offset), Word(q.count))
  BY DEF Joined
<1>5. readCoils(q, r).valid => q.count <= MaxDiscrets
  OBVIOUS
<1>6. readDiscreteInputs(q, r).valid => q.count <= MaxDiscrets
  OBVIOUS
<1>7. readCoilsAsBoolArray(q, r).valid => q.count <= MaxDiscrets
  OBVIOUS
<1>8. readDiscreteInputsAsBoolArray(q, r).valid => q.count <= MaxDiscrets
  OBVIOUS
<1>9. readCoils(q, r).good <=> ok
  OBVIOUS
<1>10. readDiscreteInputs(q, r).good <=> ok
  OBVIOUS
<1>11. readCoilsAsBoolArray(q, r).good <=> ok
  OBVIOUS
<1>12. readDiscreteInputsAsBoolArray(q, r).good <=> ok
  OBVIOUS
<1> HIDE DEF readCoils, readCoilsAsBoolArray, readDiscreteInputs, readDiscreteInputsAsBoolArray
<1>13. f.valid => q.count <= MaxDiscrets
  BY <1>2, <1>5, <1>6, <1>7, <1>8
<1>14. ok => f.good
  BY <1>2, <1>9, <1>10, <1>11, <1>12
<1>15. Joined(f.data, Word(q.offset), Word(q.count))
  BY <1>2, <1>4, <1>4a
<1> QED
  BY <1>3, <1>15, <1>13, <1>14

(* The same of those that read registers,                                  *)
LEMMA RegisterForm ==
  ASSUME NEW q \in RegisterCalls, NEW r, NEW f, Is(f, q, r)
  PROVE  /\ f.func \in {3, 4}
         /\ f.valid => q.count <= MaxRegisters
         /\ Joined(f.data, Word(q.offset), Word(q.count))
         /\ Sized(r) /\ r[1] \div 2 = q.count => f.good
<1> DEFINE ok == Sized(r) /\ r[1] \div 2 = q.count
<1> USE DEF readHoldingRegisters, readInputRegisters, ReadRegisters
<1>1. q.name \in {"readHoldingRegisters", "readInputRegisters"}
  BY DEF RegisterCalls
<1>2. f \in {readHoldingRegisters(q, r), readInputRegisters(q, r)}
  BY <1>1, MemoryNames DEF Is
<1>3. f.func \in {3, 4}
  BY <1>2
<1>4. Joined(f.data, Word(q.offset), Word(q.count))
  BY <1>2 DEF Joined
<1>5. readHoldingRegisters(q, r).valid => q.count <= MaxRegisters
  OBVIOUS
<1>6. readInputRegisters(q, r).valid => q.count <= MaxRegisters
  OBVIOUS
<1>7. readHoldingRegisters(q, r).good <=> ok
  OBVIOUS
<1>8. readInputRegisters(q, r).good <=> ok
  OBVIOUS
<1> HIDE DEF readHoldingRegisters, readInputRegisters
<1> QED
  BY <1>2, <1>3, <1>4, <1>5, <1>6, <1>7, <1>8

(* of writeSingleCoil,                                                     *)
LEMMA CoilForm ==
  ASSUME NEW q \in CoilCalls, NEW r, NEW f, Is(f, q, r)
  PROVE  /\ f.func = 5
         /\ Joined(f.data, Word(q.offset), <<IF q.value THEN 255 ELSE 0, 0>>)
         /\ Len(r) = 4 /\ Words(r)[1] = q.offset => f.good
<1> DEFINE w == writeSingleCoil(q, r)
<1>1. f = w
  BY MemoryNames DEF CoilCalls, Is
<1>2. w.func = 5
  BY DEF writeSingleCoil
<1>3. Joined(w.data, Word(q.offset), <<IF q.value THEN 255 ELSE 0, 0>>)
  BY DEF writeSingleCoil, Joined
<1>4. w.good <=> Len(r) = 4 /\ Words(r)[1] = q.offset
  BY DEF writeSingleCoil
<1> HIDE DEF w
<1> QED
  BY <1>1, <1>2, <1>3, <1>4

(* of writeSingleRegister,                                                 *)
LEMMA ValueForm ==
  ASSUME NEW q \in ValueCalls, NEW r, NEW f, Is(f, q, r)
  PROVE  /\ f.func = 6
         /\ Joined(f.data, Word(q.offset), Word(q.value))
         /\ Len(r) = 4 /\ Words(r) = <<q.offset, q.value>> => f.good
<1> DEFINE w == writeSingleRegister(q, r)
<1>1. f = w
  BY MemoryNames DEF ValueCalls, Is
<1>2. w.func = 6
  BY DEF writeSingleRegister
<1>3. Joined(w.data, Word(q.offset), Word(q.value))
  BY DEF writeSingleRegister, Joined
<1>4. w.good <=> Len(r) = 4 /\ Words(r) = <<q.offset, q.value>>
  BY DEF writeSingleRegister
<1> HIDE DEF w
<1> QED
  BY <1>1, <1>2, <1>3, <1>4

(* of readExceptionStatus,                                                 *)
LEMMA StatusForm ==
  ASSUME NEW q, q.name = "readExceptionStatus", NEW r, NEW f, Is(f, q, r)
  PROVE  f.func = 7 /\ f.data = <<>> /\ (Len(r) = 1 => f.good)
<1> DEFINE w == readExceptionStatus(q, r)
<1>1. f = w
  BY MemoryNames DEF Is
<1>2. w.func = 7 /\ w.data = <<>>
  BY DEF readExceptionStatus
<1>3. w.good <=> Len(r) = 1
  BY DEF readExceptionStatus
<1> HIDE DEF w
<1> QED
  BY <1>1, <1>2, <1>3

(* of getCommEventCounter,                                                 *)
LEMMA CounterForm ==
  ASSUME NEW q, q.name = "getCommEventCounter", NEW r, NEW f, Is(f, q, r)
  PROVE  /\ f.func = 11 /\ f.data = <<>>
         /\ Len(r) = 4 => f.good
         /\ f.out = Words(r)
<1> DEFINE w == getCommEventCounter(q, r)
<1>1. f = w
  BY OtherNames DEF Is
<1>2. w.func = 11 /\ w.data = <<>> /\ w.out = Words(r)
  BY DEF getCommEventCounter
<1>3. w.good <=> Len(r) = 4
  BY DEF getCommEventCounter
<1> HIDE DEF w
<1> QED
  BY <1>1, <1>2, <1>3

(* of getCommEventLog,                                                     *)
LEMMA LogForm ==
  ASSUME NEW q, q.name = "getCommEventLog", NEW r, NEW f, Is(f, q, r)
  PROVE  /\ f.func = 12 /\ f.data = <<>>
         /\ Len(r) >= 7 /\ Sized(r) /\ r[1] - 6 <= EventLogMax => f.good
         /\ f.good => Len(r) >= 7
         /\ Joined(f.out, Words(SubSeq(r, 2, LeastOf(Len(r), 7))), After(r, 7))
<1> DEFINE w == getCommEventLog(q, r)
<1>1. f = w
  BY OtherNames DEF Is
<1>2. w.func = 12 /\ w.data = <<>>
  BY DEF getCommEventLog
<1>3. w.good <=> Len(r) >= 7 /\ Sized(r) /\ r[1] - 6 <= EventLogMax
  BY DEF getCommEventLog
<1>4. Joined(w.out, Words(SubSeq(r, 2, LeastOf(Len(r), 7))), After(r, 7))
  BY DEF getCommEventLog, Joined
<1> HIDE DEF w
<1> QED
  BY <1>1, <1>2, <1>3, <1>4

(* of reportServerID,                                                      *)
LEMMA ServerForm ==
  ASSUME NEW q, q.name = "reportServerID", NEW r, NEW f, Is(f, q, r)
  PROVE  /\ f.func = 17 /\ f.data = <<>>
         /\ Sized(r) => f.good
         /\ f.out = After(r, 1)
<1> DEFINE w == reportServerID(q, r)
<1>1. f = w
  BY OtherNames DEF Is
<1>2. w.func = 17 /\ w.data = <<>> /\ w.out = After(r, 1)
  BY DEF reportServerID
<1>3. w.good <=> Sized(r)
  BY DEF reportServerID
<1> HIDE DEF w
<1> QED
  BY <1>1, <1>2, <1>3

(* of readFIFOQueue,                                                       *)
LEMMA QueueForm ==
  ASSUME NEW q \in QueueCalls, NEW r, NEW f, Is(f, q, r)
  PROVE  /\ f.func = 24 /\ f.data = Word(q.offset)
         /\ /\ Len(r) >= 4
            /\ Words(r)[1] = Len(r) - 2
            /\ Words(r)[1] = 2 * (Words(r)[2] + 1)
            /\ Words(r)[2] <= FifoMax
            => f.good
         /\ f.out = After(Words(r), 2)
<1> DEFINE w == readFIFOQueue(q, r)
<1>1. f = w
  BY OtherNames DEF Is, QueueCalls
<1>2. w.func = 24 /\ w.data = Word(q.offset) /\ w.out = After(Words(r), 2)
  BY DEF readFIFOQueue
<1>3. w.good <=> /\ Len(r) >= 4
                 /\ Words(r)[1] = Len(r) - 2
                 /\ Words(r)[1] = 2 * (Words(r)[2] + 1)
                 /\ Words(r)[2] <= FifoMax
  BY DEF readFIFOQueue
<1> HIDE DEF w
<1> QED
  BY <1>1, <1>2, <1>3

(* of readDeviceIdentification,                                            *)
LEMMA IdentityForm ==
  ASSUME NEW q \in IdentityCalls, NEW r, NEW f, Is(f, q, r)
  PROVE  /\ f.func = 43 /\ f.data = <<14, q.code, q.object>>
         /\ f.valid => q.code \in 1..4
         /\ Len(r) >= 6 /\ r[1] = 14 /\ r[2] = q.code => f.good
         /\ f.good => Len(r) >= 6
         /\ f.out = After(r, 2)
<1> DEFINE w == readDeviceIdentification(q, r)
<1>1. f = w
  BY OtherNames DEF Is, IdentityCalls
<1>2. w.func = 43 /\ w.data = <<14, q.code, q.object>> /\ w.out = After(r, 2)
  BY DEF readDeviceIdentification
<1>3. w.good <=> Len(r) >= 6 /\ r[1] = 14 /\ r[2] = q.code
  BY DEF readDeviceIdentification
<1>4. w.valid <=> q.code \in 1..4
  BY DEF readDeviceIdentification
<1> HIDE DEF w
<1> QED
  BY <1>1, <1>2, <1>3, <1>4

(* of diagnosticsReturnQueryData,                                          *)
LEMMA QueryForm ==
  ASSUME NEW q \in QueryCalls, NEW r, NEW f, Is(f, q, r)
  PROVE  /\ f.func = 8 /\ Joined(f.data, Word(0), q.values)
         /\ f.valid => Len(q.values) <= ValueBuffSz - 2
         /\ Len(r) >= 2 /\ Words(r)[1] = 0 => f.good
         /\ f.out = SubSeq(r, 3, LeastOf(Len(r), 2 + Len(q.values)))
<1> DEFINE w == diagnosticsReturnQueryData(q, r)
<1>1. f = w
  BY DiagnosticNames DEF Is, QueryCalls
<1>2. w.func = 8 /\ w.out = SubSeq(r, 3, LeastOf(Len(r), 2 + Len(q.values)))
  BY DEF diagnosticsReturnQueryData, Diagnostics
<1>3. Joined(w.data, Word(0), q.values)
  BY DEF diagnosticsReturnQueryData, Diagnostics, Joined
<1>4. w.good <=> Len(r) >= 2 /\ Words(r)[1] = 0
  BY DEF diagnosticsReturnQueryData, Diagnostics
<1>5. w.valid <=> Len(q.values) <= ValueBuffSz - 2
  BY DEF diagnosticsReturnQueryData, Diagnostics
<1> HIDE DEF w
<1> QED
  BY <1>1, <1>2, <1>3, <1>4, <1>5

(* The other diagnostics send their number and two bytes.                  *)
TwoBytes(data) == \E a \in Short : \E x, y : Joined(data, Word(a), <<x, y>>)

(* of the other subfunctions of diagnostics,                               *)
LEMMA DiagnosticForm ==
  ASSUME NEW q \in ResetCalls \union DelimiterCalls \union DiagnosticCalls, NEW r,
         NEW f, Is(f, q, r)
  PROVE  f.func = 8 /\ TwoBytes(f.data)
<1> DEFINE IsDiagnostic == f.func = 8 /\ TwoBytes(f.data)
<1>1. ASSUME NEW a \in Short, NEW x, NEW y,
             f.func = 8, f.data = Diagnostics(a, <<x, y>>, r).data
      PROVE  IsDiagnostic
  BY <1>1 DEF Diagnostics, TwoBytes, Joined
<1>2. \A a \in 0..20 : a \in Short
  BY DEF Short
<1>3. ASSUME NEW a \in 0..20, f = DiagnosticCount(a, r)
      PROVE  IsDiagnostic
  <2>1. f.func = 8 /\ f.data = Diagnostics(a, <<0, 0>>, r).data
    BY <1>3 DEF DiagnosticCount, Diagnostics
  <2> QED
    BY <1>1, <1>2, <2>1
<1>4. ASSUME NEW a \in 0..20, f = DiagnosticReset(a, r)
      PROVE  IsDiagnostic
  <2>1. f.func = 8 /\ f.data = Diagnostics(a, <<0, 0>>, r).data
    BY <1>4 DEF DiagnosticReset, Diagnostics
  <2> QED
    BY <1>1, <1>2, <2>1
<1>5. ASSUME NEW a \in 0..20, NEW x, NEW y, f = Diagnostics(a, <<x, y>>, r)
      PROVE  IsDiagnostic
  <2>1. f.func = 8
    BY <1>5 DEF Diagnostics
  <2> QED
    BY <1>1, <1>2, <1>5, <2>1
<1> HIDE DEF IsDiagnostic
<1>6. ASSUME q \in ResetCalls
      PROVE  IsDiagnostic
  <2>1. f = Diagnostics(1, <<IF q.value THEN 255 ELSE 0, 0>>, r)
    BY <1>6, DiagnosticNames DEF ResetCalls, Is, diagnosticsRestartCommunicationsOption
  <2> QED
    BY <1>5, <2>1
<1>7. ASSUME q \in DelimiterCalls
      PROVE  IsDiagnostic
  <2>1. f = Diagnostics(3, <<q.delimiter, 0>>, r)
    BY <1>7, DiagnosticNames DEF DelimiterCalls, Is, diagnosticsChangeAsciiInputDelimiter
  <2> QED
    BY <1>5, <2>1
<1>8. ASSUME q \in DiagnosticCalls
      PROVE  IsDiagnostic
  <2>1. q.name \in {"returnDiagnosticRegister", "forceListenOnlyMode", "clearCounters",
                    "returnBusMessageCount", "returnBusCommunicationErrorCount",
                    "returnBusExceptionErrorCount", "returnServerMessageCount",
                    "returnServerNoResponseCount", "returnServerNAKCount",
                    "returnServerBusyCount", "returnBusCharacterOverrunCount",
                    "clearOverrunCounterAndFlag"}
    BY <1>8 DEF DiagnosticCalls
  <2>2. CASE q.name = "forceListenOnlyMode"
    <3>1. f = Diagnostics(4, <<0, 0>>, r)
      BY <2>2, DiagnosticNames DEF Is, diagnosticsForceListenOnlyMode
    <3> QED
      BY <1>5, <3>1
  <2>3. CASE q.name \in {"clearCounters", "clearOverrunCounterAndFlag"}
    <3>1. f = DiagnosticReset(10, r) \/ f = DiagnosticReset(20, r)
      BY <2>3, DiagnosticNames
         DEF Is, diagnosticsClearCountersAndDiagnosticRegister,
             diagnosticsClearOverrunCounterAndFlag
    <3> QED
      BY <1>4, <3>1
  <2>4. CASE q.name \notin {"forceListenOnlyMode", "clearCounters",
                            "clearOverrunCounterAndFlag"}
    <3>1. \/ f = DiagnosticCount(2, r) \/ f = DiagnosticCount(11, r)
          \/ f = DiagnosticCount(12, r) \/ f = DiagnosticCount(13, r)
          \/ f = DiagnosticCount(14, r) \/ f = DiagnosticCount(15, r)
          \/ f = DiagnosticCount(16, r) \/ f = DiagnosticCount(17, r)
          \/ f = DiagnosticCount(18, r)
      BY <2>1, <2>4, DiagnosticNames
         DEF Is, diagnosticsReturnDiagnosticRegister, diagnosticsReturnBusMessageCount,
             diagnosticsReturnBusCommunicationErrorCount,
             diagnosticsReturnBusExceptionErrorCount, diagnosticsReturnServerMessageCount,
             diagnosticsReturnServerNoResponseCount, diagnosticsReturnServerNAKCount,
             diagnosticsReturnServerBusyCount, diagnosticsReturnBusCharacterOverrunCount
    <3> QED
      BY <1>3, <3>1
  <2> QED
    BY <2>2, <2>3, <2>4
<1> QED
  BY <1>6, <1>7, <1>8 DEF IsDiagnostic

(* of writeMultipleCoils,                                                  *)
LEMMA PackedForm ==
  ASSUME NEW q \in PackedCalls, NEW r, NEW f, Is(f, q, r)
  PROVE  /\ f.func = 15 /\ Multiple(f.data, q.offset, q.count, q.values)
         /\ f.valid => q.count <= MaxDiscrets
         /\ Len(r) = 4 /\ Words(r) = <<q.offset, q.count>> => f.good
<1> DEFINE w == writeMultipleCoils(q, r)
<1>1. f = w
  BY OtherNames DEF Is, PackedCalls
<1>2. w.func = 15
  BY DEF writeMultipleCoils, WriteMultiple
<1>3. Multiple(w.data, q.offset, q.count, q.values)
  BY DEF writeMultipleCoils, WriteMultiple, Multiple
<1>4. w.good <=> Len(r) = 4 /\ Words(r) = <<q.offset, q.count>>
  BY DEF writeMultipleCoils, WriteMultiple
<1>5. w.valid <=> q.count <= MaxDiscrets
  BY DEF writeMultipleCoils, WriteMultiple
<1> HIDE DEF w
<1> QED
  BY <1>1, <1>2, <1>3, <1>4, <1>5

(* of writeMultipleCoilsAsBoolArray,                                       *)
LEMMA BoolForm ==
  ASSUME NEW q \in BoolCalls, NEW r, NEW f, Is(f, q, r)
  PROVE  /\ f.func = 15 /\ Multiple(f.data, q.offset, q.count, Packed(q.values))
         /\ f.valid => q.count <= MaxDiscrets
         /\ Len(r) = 4 /\ Words(r) = <<q.offset, q.count>> => f.good
<1> DEFINE w == writeMultipleCoilsAsBoolArray(q, r)
<1>1. f = w
  BY OtherNames DEF Is, BoolCalls
<1>2. w.func = 15
  BY DEF writeMultipleCoilsAsBoolArray, WriteMultiple
<1>3. Multiple(w.data, q.offset, q.count, Packed(q.values))
  BY DEF writeMultipleCoilsAsBoolArray, WriteMultiple, Multiple
<1>4. w.good <=> Len(r) = 4 /\ Words(r) = <<q.offset, q.count>>
  BY DEF writeMultipleCoilsAsBoolArray, WriteMultiple
<1>5. w.valid <=> q.count <= MaxDiscrets
  BY DEF writeMultipleCoilsAsBoolArray, WriteMultiple
<1> HIDE DEF w
<1> QED
  BY <1>1, <1>2, <1>3, <1>4, <1>5

(* of writeMultipleRegisters,                                              *)
LEMMA WriteForm ==
  ASSUME NEW q \in WriteCalls, NEW r, NEW f, Is(f, q, r)
  PROVE  /\ f.func = 16 /\ Multiple(f.data, q.offset, q.count, Flat(q.values))
         /\ f.valid => q.count <= MaxRegisters
         /\ Len(r) = 4 /\ Words(r) = <<q.offset, q.count>> => f.good
<1> DEFINE w == writeMultipleRegisters(q, r)
<1>1. f = w
  BY OtherNames DEF Is, WriteCalls
<1>2. w.func = 16
  BY DEF writeMultipleRegisters, WriteMultiple
<1>3. Multiple(w.data, q.offset, q.count, Flat(q.values))
  BY DEF writeMultipleRegisters, WriteMultiple, Multiple
<1>4. w.good <=> Len(r) = 4 /\ Words(r) = <<q.offset, q.count>>
  BY DEF writeMultipleRegisters, WriteMultiple
<1>5. w.valid <=> q.count <= MaxRegisters
  BY DEF writeMultipleRegisters, WriteMultiple
<1> HIDE DEF w
<1> QED
  BY <1>1, <1>2, <1>3, <1>4, <1>5

(* of maskWriteRegister,                                                   *)
LEMMA MaskForm ==
  ASSUME NEW q \in MaskCalls, NEW r, NEW f, Is(f, q, r)
  PROVE  /\ f.func = 22 /\ Masking(f.data, q.offset, q.andMask, q.orMask)
         /\ Masking(r, q.offset, q.andMask, q.orMask) => f.good
<1> DEFINE w == maskWriteRegister(q, r)
<1>1. f = w
  BY OtherNames DEF Is, MaskCalls
<1>2. w.func = 22
  BY DEF maskWriteRegister
<1>3. Masking(w.data, q.offset, q.andMask, q.orMask)
  BY DEF maskWriteRegister, Masking
<1>4. w.good <=> Masking(r, q.offset, q.andMask, q.orMask)
  BY DEF maskWriteRegister, Masking
<1> HIDE DEF w
<1> QED
  BY <1>1, <1>2, <1>3, <1>4

(* and of readWriteMultipleRegisters.                                      *)
LEMMA ReadWriteForm ==
  ASSUME NEW q \in ReadWriteCalls, NEW r, NEW f, Is(f, q, r)
  PROVE  /\ f.func = 23
         /\ Both(f.data, q.offset, q.count, q.writeOffset, q.writeCount, Flat(q.values))
         /\ f.valid => q.count <= MaxRegisters /\ q.writeCount <= MaxRegisters
         /\ Sized(r) /\ r[1] \div 2 = q.count => f.good
<1> DEFINE w == readWriteMultipleRegisters(q, r)
<1>1. f = w
  BY OtherNames DEF Is, ReadWriteCalls
<1>2. w.func = 23
  BY DEF readWriteMultipleRegisters, ReadRegisters
<1>3. Both(w.data, q.offset, q.count, q.writeOffset, q.writeCount, Flat(q.values))
  BY DEF readWriteMultipleRegisters, ReadRegisters, Both
<1>4. w.good <=> Sized(r) /\ r[1] \div 2 = q.count
  BY DEF readWriteMultipleRegisters, ReadRegisters
<1>5. w.valid <=> q.count <= MaxRegisters /\ q.writeCount <= MaxRegisters
  BY DEF readWriteMultipleRegisters, ReadRegisters
<1> HIDE DEF w
<1> QED
  BY <1>1, <1>2, <1>3, <1>4, <1>5

-----------------------------------------------------------------------------
(***************************************************************************)
(* What the server has kept of a call that it has understood.              *)
(***************************************************************************)
Resets == {"restartCommunicationsOption", "changeAsciiInputDelimiter",
           "returnDiagnosticRegister", "forceListenOnlyMode", "clearCounters",
           "returnBusMessageCount", "returnBusCommunicationErrorCount",
           "returnBusExceptionErrorCount", "returnServerMessageCount",
           "returnServerNoResponseCount", "returnServerNAKCount", "returnServerBusyCount",
           "returnBusCharacterOverrunCount", "clearOverrunCounterAndFlag"}

Kept(q, s) ==
  /\ q.name \in {"readCoils", "readCoilsAsBoolArray", "readDiscreteInputs",
                 "readDiscreteInputsAsBoolArray"} =>
       s.func \in {1, 2} /\ s.count = q.count /\ q.count <= MaxDiscrets
  /\ q.name \in {"readHoldingRegisters", "readInputRegisters"} =>
       s.func \in {3, 4} /\ s.count = q.count /\ q.count <= MaxRegisters
  /\ q.name = "writeSingleCoil" => s.func = 5 /\ s.offset = q.offset
  /\ q.name = "writeSingleRegister" =>
       /\ s.func = 6
       /\ s.offset = q.offset
       /\ s.valueBuff[1] = q.value % 256
       /\ s.valueBuff[2] = q.value \div 256
  /\ q.name = "readExceptionStatus" => s.func = 7
  /\ q.name = "returnQueryData" =>
       s.func = 8 /\ s.offset = 0 /\ s.count = Len(q.values) /\ Len(q.values) <= ValueBuffSz - 2
  /\ q.name \in Resets => s.func = 8
  /\ q.name = "getCommEventCounter" => s.func = 11
  /\ q.name = "getCommEventLog" => s.func = 12
  /\ q.name \in {"writeMultipleCoils", "writeMultipleCoilsAsBoolArray"} =>
       s.func = 15 /\ s.offset = q.offset /\ s.count = q.count
  /\ q.name = "writeMultipleRegisters" =>
       s.func = 16 /\ s.offset = q.offset /\ s.count = q.count
  /\ q.name = "reportServerID" => s.func = 17
  /\ q.name = "maskWriteRegister" =>
       s.func = 22 /\ s.offset = q.offset /\ s.andMask = q.andMask /\ s.orMask = q.orMask
  /\ q.name = "readWriteMultipleRegisters" =>
       s.func = 23 /\ s.count = q.count /\ q.count <= MaxRegisters
  /\ q.name = "readFIFOQueue" => s.func = 24
  /\ q.name = "readDeviceIdentification" =>
       s.func = 43 /\ s.offset = q.code + 256 * q.object

(* What a call that the client lets through sends, and that a server hears *)
(* it.                                                                     *)
Sends(f, q) == f = Function(q, <<>>) /\ f.valid

Reaches(q, f, s) ==
  LET in == processInputData(s, f.data)
  IN  f.func \in 1..127 /\ Heard(in, s) /\ Kept(q, in.srv)

(* A request to read bits reaches the server,                              *)
LEMMA BitReaches ==
  ASSUME NEW q \in BitCalls, NEW f, Sends(f, q), NEW s, Server(s), s.func = f.func
  PROVE  Reaches(q, f, s)
<1> DEFINE in == processInputData(s, f.data)
<1>1. /\ q.name \in {"readCoils", "readCoilsAsBoolArray", "readDiscreteInputs",
                     "readDiscreteInputsAsBoolArray"}
      /\ q.offset \in Short /\ q.count \in Short
  BY DEF BitCalls
<1>2. Is(f, q, <<>>) /\ f.valid
  BY DEF Is, Sends
<1>3. /\ f.func \in {1, 2} /\ q.count <= MaxDiscrets
      /\ Joined(f.data, Word(q.offset), Word(q.count))
  BY <1>2, BitForm
<1>4. in = ReadInput(s, f.data, MaxDiscrets)
  BY <1>3 DEF processInputData
<1>5. MaxDiscrets \in Nat
  BY DEF MaxDiscrets
<1>6. Heard(in, s) /\ in.srv.count = q.count
  BY <1>1, <1>3, <1>4, <1>5, ReadHeard
<1>7. in.srv.func \in {1, 2}
  BY <1>3, <1>6 DEF Heard
<1> HIDE DEF in
<1>8. Kept(q, in.srv)
  BY <1>1, <1>3, <1>6, <1>7 DEF Kept, Resets
<1>9. f.func \in 1..127
  BY <1>3
<1> QED
  BY <1>6, <1>8, <1>9 DEF Reaches, in

(* as does one to read registers,                                          *)
LEMMA RegisterReaches ==
  ASSUME NEW q \in RegisterCalls, NEW f, Sends(f, q), NEW s, Server(s), s.func = f.func
  PROVE  Reaches(q, f, s)
<1> DEFINE in == processInputData(s, f.data)
<1>1. /\ q.name \in {"readHoldingRegisters", "readInputRegisters"}
      /\ q.offset \in Short /\ q.count \in Short
  BY DEF RegisterCalls
<1>2. Is(f, q, <<>>) /\ f.valid
  BY DEF Is, Sends
<1>3. /\ f.func \in {3, 4} /\ q.count <= MaxRegisters
      /\ Joined(f.data, Word(q.offset), Word(q.count))
  BY <1>2, RegisterForm
<1>4. in = ReadInput(s, f.data, MaxRegisters)
  BY <1>3 DEF processInputData
<1>5. MaxRegisters \in Nat
  BY DEF MaxRegisters
<1>6. Heard(in, s) /\ in.srv.count = q.count
  BY <1>1, <1>3, <1>4, <1>5, ReadHeard
<1>7. in.srv.func \in {3, 4}
  BY <1>3, <1>6 DEF Heard
<1> HIDE DEF in
<1>8. Kept(q, in.srv)
  BY <1>1, <1>3, <1>6, <1>7 DEF Kept, Resets
<1>9. f.func \in 1..127
  BY <1>3
<1> QED
  BY <1>6, <1>8, <1>9 DEF Reaches, in

(* to write a coil,                                                        *)
LEMMA CoilReaches ==
  ASSUME NEW q \in CoilCalls, NEW f, Sends(f, q), NEW s, Server(s), s.func = f.func
  PROVE  Reaches(q, f, s)
<1> DEFINE in == processInputData(s, f.data)
           x == IF q.value THEN 255 ELSE 0
<1>1. q.name = "writeSingleCoil" /\ q.offset \in Short
  BY DEF CoilCalls
<1>2. Is(f, q, <<>>)
  BY DEF Is, Sends
<1>3. f.func = 5 /\ Joined(f.data, Word(q.offset), <<x, 0>>)
  BY <1>2, CoilForm
<1>4. in = SingleInput(s, f.data, s.func = 5)
  BY <1>3 DEF processInputData
<1>5. x \in {0, 255}
  OBVIOUS
<1> HIDE DEF x
<1>6. Heard(in, s) /\ in.srv.offset = q.offset
  BY <1>1, <1>3, <1>4, <1>5, SingleHeard
<1>7. in.srv.func = 5
  BY <1>3, <1>6 DEF Heard
<1> HIDE DEF in
<1>8. Kept(q, in.srv)
  BY <1>1, <1>6, <1>7 DEF Kept, Resets
<1>9. f.func \in 1..127
  BY <1>3
<1> QED
  BY <1>6, <1>8, <1>9 DEF Reaches, in

(* to write a register,                                                    *)
LEMMA ValueReaches ==
  ASSUME NEW q \in ValueCalls, NEW f, Sends(f, q), NEW s, Server(s), s.func = f.func
  PROVE  Reaches(q, f, s)
<1> DEFINE in == processInputData(s, f.data)
           x == q.value \div 256
           y == q.value % 256
<1>1. q.name = "writeSingleRegister" /\ q.offset \in Short
  BY DEF ValueCalls
<1>2. Is(f, q, <<>>)
  BY DEF Is, Sends
<1>3. f.func = 6 /\ Joined(f.data, Word(q.offset), <<x, y>>)
  BY <1>2, ValueForm DEF Word
<1>4. in = SingleInput(s, f.data, s.func = 5)
  BY <1>3 DEF processInputData
<1> HIDE DEF x, y
<1>6. /\ Heard(in, s) /\ in.srv.offset = q.offset
      /\ in.srv.valueBuff[1] = y /\ in.srv.valueBuff[2] = x
  BY <1>1, <1>3, <1>4, SingleHeard
<1>7. in.srv.func = 6
  BY <1>3, <1>6 DEF Heard
<1> HIDE DEF in
<1>8. Kept(q, in.srv)
  BY <1>1, <1>6, <1>7 DEF Kept, Resets, x, y
<1>9. f.func \in 1..127
  BY <1>3
<1> QED
  BY <1>6, <1>8, <1>9 DEF Reaches, in

(* one without arguments,                                                  *)
LEMMA PlainReaches ==
  ASSUME NEW q \in PlainCalls, NEW f, Sends(f, q), NEW s, Server(s), s.func = f.func
  PROVE  Reaches(q, f, s)
<1> DEFINE in == processInputData(s, f.data)
<1>1. q.name \in {"readExceptionStatus", "getCommEventCounter", "getCommEventLog",
                  "reportServerID"}
  BY DEF PlainCalls
<1>2. Is(f, q, <<>>)
  BY DEF Is, Sends
<1>3. /\ f.data = <<>>
      /\ q.name = "readExceptionStatus" => f.func = 7
      /\ q.name = "getCommEventCounter" => f.func = 11
      /\ q.name = "getCommEventLog" => f.func = 12
      /\ q.name = "reportServerID" => f.func = 17
  BY <1>1, <1>2, StatusForm, CounterForm, LogForm, ServerForm
<1>4. f.func \in {7, 11, 12, 17}
  BY <1>1, <1>3
<1>5. in = EmptyInput(s, <<>>)
  BY <1>3, <1>4 DEF processInputData
<1>6. Heard(in, s)
  BY <1>5, EmptyHeard
<1>7. in.srv.func = f.func
  BY <1>6 DEF Heard
<1> HIDE DEF in
<1>8. Kept(q, in.srv)
  BY <1>1, <1>3, <1>7 DEF Kept, Resets
<1>9. f.func \in 1..127
  BY <1>4
<1> QED
  BY <1>6, <1>8, <1>9 DEF Reaches, in

(* a query,                                                                *)
LEMMA QueryReaches ==
  ASSUME NEW q \in QueryCalls, NEW f, Sends(f, q), NEW s, Server(s), s.func = f.func
  PROVE  Reaches(q, f, s)
<1> DEFINE in == processInputData(s, f.data)
<1>1. q.name = "returnQueryData" /\ q.values \in Seq(Octet) /\ Len(q.values) \in Nat
  BY DEF QueryCalls
<1>2. Is(f, q, <<>>) /\ f.valid
  BY DEF Is, Sends
<1>3. f.func = 8 /\ Joined(f.data, Word(0), q.values) /\ Len(q.values) <= ValueBuffSz - 2
  BY <1>2, QueryForm
<1>4. in = DiagnosticsInput(s, f.data)
  BY <1>3 DEF processInputData
<1>5. 0 \in Short /\ Row(q.values, Len(q.values))
  BY <1>1, SeqRow DEF Short
<1>6. Heard(in, s) /\ in.srv.offset = 0 /\ in.srv.count = Len(q.values)
  BY <1>1, <1>3, <1>4, <1>5, QueryHeard
<1>7. in.srv.func = 8
  BY <1>3, <1>6 DEF Heard
<1> HIDE DEF in
<1>8. Kept(q, in.srv)
  BY <1>1, <1>3, <1>6, <1>7 DEF Kept, Resets
<1>9. f.func \in 1..127
  BY <1>3
<1> QED
  BY <1>6, <1>8, <1>9 DEF Reaches, in

(* any other subfunction of diagnostics,                                   *)
LEMMA DiagnosticReaches ==
  ASSUME NEW q \in ResetCalls \union DelimiterCalls \union DiagnosticCalls,
         NEW f, Sends(f, q), NEW s, Server(s), s.func = f.func
  PROVE  Reaches(q, f, s)
<1> DEFINE in == processInputData(s, f.data)
<1>1. q.name \in Resets
  BY DEF ResetCalls, DelimiterCalls, DiagnosticCalls, Resets
<1>2. Is(f, q, <<>>)
  BY DEF Is, Sends
<1>3. f.func = 8 /\ TwoBytes(f.data)
  BY <1>2, DiagnosticForm
<1>4. in = DiagnosticsInput(s, f.data)
  BY <1>3 DEF processInputData
<1>a. PICK a \in Short : \E x, y : Joined(f.data, Word(a), <<x, y>>)
  BY <1>3 DEF TwoBytes
<1>5. PICK x, y : Joined(f.data, Word(a), <<x, y>>)
  BY <1>a
<1>6. PICK n \in Nat : n = 2
  OBVIOUS
<1>7. Row(<<x, y>>, n)
  BY <1>6, RowPair
<1>8. Heard(in, s)
  BY <1>4, <1>5, <1>6, <1>7, QueryHeard
<1>9. in.srv.func = 8
  BY <1>3, <1>8 DEF Heard
<1> HIDE DEF in
<1>10. Kept(q, in.srv)
  BY <1>1, <1>9 DEF Kept, Resets
<1>11. f.func \in 1..127
  BY <1>3
<1> QED
  BY <1>8, <1>10, <1>11 DEF Reaches, in

(* one to write coils,                                                     *)
LEMMA CoilsReaches ==
  ASSUME NEW q \in PackedCalls \union BoolCalls,
         NEW f, Sends(f, q), NEW s, Server(s), s.func = f.func
  PROVE  Reaches(q, f, s)
<1> DEFINE in == processInputData(s, f.data)
<1>1. /\ q.name \in {"writeMultipleCoils", "writeMultipleCoilsAsBoolArray"}
      /\ q.offset \in Short /\ q.count \in Short
  BY DEF PackedCalls, BoolCalls
<1>2. Is(f, q, <<>>) /\ f.valid
  BY DEF Is, Sends
<1>3. /\ f.func = 15 /\ q.count <= MaxDiscrets
      /\ \E bytes : Row(bytes, ByteCount(q.count)) /\ Multiple(f.data, q.offset, q.count, bytes)
  <2>1. CASE q \in PackedCalls
    <3>1. q.values \in Seq(Octet) /\ Len(q.values) = ByteCount(q.count)
      BY <2>1 DEF PackedCalls
    <3>2. Row(q.values, ByteCount(q.count))
      BY <3>1, SeqRow
    <3> QED
      BY <1>2, <2>1, <3>2, PackedForm
  <2>2. CASE q \in BoolCalls
    <3>1. Len(q.values) = q.count
      BY <2>2 DEF BoolCalls
    <3>2. ByteCount(q.count) \in Nat
      BY <1>1, ShortInt DEF ByteCount
    <3>3. Row(Packed(q.values), ByteCount(q.count))
      BY <3>1, <3>2 DEF Row, Packed
    <3> QED
      BY <1>2, <2>2, <3>3, BoolForm
  <2> QED
    BY <2>1, <2>2
<1>4. in = CoilsInput(s, f.data)
  BY <1>3 DEF processInputData
<1>5. Heard(in, s) /\ in.srv.offset = q.offset /\ in.srv.count = q.count
  BY <1>1, <1>3, <1>4, CoilsHeard
<1>6. in.srv.func = 15
  BY <1>3, <1>5 DEF Heard
<1> HIDE DEF in
<1>7. Kept(q, in.srv)
  BY <1>1, <1>5, <1>6 DEF Kept, Resets
<1>8. f.func \in 1..127
  BY <1>3
<1> QED
  BY <1>5, <1>7, <1>8 DEF Reaches, in

(* (The bytes of registers are two for each,)                              *)
LEMMA FlatRow ==
  ASSUME NEW ws \in Seq(Short)
  PROVE  Row(Flat(ws), 2 * Len(ws))
<1>1. 2 * Len(ws) \in Nat
  OBVIOUS
<1> QED
  BY <1>1 DEF Row, Flat

(* to write registers,                                                     *)
LEMMA WriteReaches ==
  ASSUME NEW q \in WriteCalls, NEW f, Sends(f, q), NEW s, Server(s), s.func = f.func
  PROVE  Reaches(q, f, s)
<1> DEFINE in == processInputData(s, f.data)
<1>1. /\ q.name = "writeMultipleRegisters" /\ q.offset \in Short /\ q.count \in Short
      /\ q.values \in Seq(Short) /\ Len(q.values) = q.count
  BY DEF WriteCalls
<1>2. Is(f, q, <<>>) /\ f.valid
  BY DEF Is, Sends
<1>3. /\ f.func = 16 /\ q.count <= MaxRegisters
      /\ Multiple(f.data, q.offset, q.count, Flat(q.values))
  BY <1>2, WriteForm
<1>4. in = RegistersInput(s, f.data)
  BY <1>3 DEF processInputData
<1>5. Row(Flat(q.values), 2 * q.count)
  BY <1>1, FlatRow
<1>6. Heard(in, s) /\ in.srv.offset = q.offset /\ in.srv.count = q.count
  BY <1>1, <1>3, <1>4, <1>5, RegistersHeard
<1>7. in.srv.func = 16
  BY <1>3, <1>6 DEF Heard
<1> HIDE DEF in
<1>8. Kept(q, in.srv)
  BY <1>1, <1>6, <1>7 DEF Kept, Resets
<1>9. f.func \in 1..127
  BY <1>3
<1> QED
  BY <1>6, <1>8, <1>9 DEF Reaches, in

(* to mask a register,                                                     *)
LEMMA MaskReaches ==
  ASSUME NEW q \in MaskCalls, NEW f, Sends(f, q), NEW s, Server(s), s.func = f.func
  PROVE  Reaches(q, f, s)
<1> DEFINE in == processInputData(s, f.data)
<1>1. /\ q.name = "maskWriteRegister" /\ q.offset \in Short
      /\ q.andMask \in Short /\ q.orMask \in Short
  BY DEF MaskCalls
<1>2. Is(f, q, <<>>)
  BY DEF Is, Sends
<1>3. f.func = 22 /\ Masking(f.data, q.offset, q.andMask, q.orMask)
  BY <1>2, MaskForm
<1>4. in = MaskInput(s, f.data)
  BY <1>3 DEF processInputData
<1>5. /\ Heard(in, s) /\ in.srv.offset = q.offset
      /\ in.srv.andMask = q.andMask /\ in.srv.orMask = q.orMask
  BY <1>1, <1>3, <1>4, MaskHeard
<1>6. in.srv.func = 22
  BY <1>3, <1>5 DEF Heard
<1> HIDE DEF in
<1>7. Kept(q, in.srv)
  BY <1>1, <1>5, <1>6 DEF Kept, Resets
<1>8. f.func \in 1..127
  BY <1>3
<1> QED
  BY <1>5, <1>7, <1>8 DEF Reaches, in

(* to read and write registers,                                            *)
LEMMA ReadWriteReaches ==
  ASSUME NEW q \in ReadWriteCalls, NEW f, Sends(f, q), NEW s, Server(s), s.func = f.func
  PROVE  Reaches(q, f, s)
<1> DEFINE in == processInputData(s, f.data)
<1>1. /\ q.name = "readWriteMultipleRegisters" /\ q.offset \in Short /\ q.count \in Short
      /\ q.writeOffset \in Short /\ q.writeCount \in Short
      /\ q.values \in Seq(Short) /\ Len(q.values) = q.writeCount
  BY DEF ReadWriteCalls
<1>2. Is(f, q, <<>>) /\ f.valid
  BY DEF Is, Sends
<1>3. /\ f.func = 23 /\ q.count <= MaxRegisters /\ q.writeCount <= MaxRegisters
      /\ Both(f.data, q.offset, q.count, q.writeOffset, q.writeCount, Flat(q.values))
  BY <1>2, ReadWriteForm
<1>4. in = ReadWriteInput(s, f.data)
  BY <1>3 DEF processInputData
<1>5. Row(Flat(q.values), 2 * q.writeCount)
  BY <1>1, FlatRow
<1>6. Heard(in, s) /\ in.srv.count = q.count
  BY <1>1, <1>3, <1>4, <1>5, ReadWriteHeard
<1>7. in.srv.func = 23
  BY <1>3, <1>6 DEF Heard
<1> HIDE DEF in
<1>8. Kept(q, in.srv)
  BY <1>1, <1>3, <1>6, <1>7 DEF Kept, Resets
<1>9. f.func \in 1..127
  BY <1>3
<1> QED
  BY <1>6, <1>8, <1>9 DEF Reaches, in

(* to read a queue,                                                        *)
LEMMA QueueReaches ==
  ASSUME NEW q \in QueueCalls, NEW f, Sends(f, q), NEW s, Server(s), s.func = f.func
  PROVE  Reaches(q, f, s)
<1> DEFINE in == processInputData(s, f.data)
<1>1. q.name = "readFIFOQueue" /\ q.offset \in Short
  BY DEF QueueCalls
<1>2. Is(f, q, <<>>)
  BY DEF Is, Sends
<1>3. f.func = 24 /\ f.data = Word(q.offset)
  BY <1>2, QueueForm
<1>4. in = QueueInput(s, Word(q.offset))
  BY <1>3 DEF processInputData
<1>5. Heard(in, s)
  BY <1>1, <1>4, QueueHeard
<1>6. in.srv.func = 24
  BY <1>3, <1>5 DEF Heard
<1> HIDE DEF in
<1>7. Kept(q, in.srv)
  BY <1>1, <1>6 DEF Kept, Resets
<1>8. f.func \in 1..127
  BY <1>3
<1> QED
  BY <1>5, <1>7, <1>8 DEF Reaches, in

(* and to read the identification.                                         *)
LEMMA IdentityReaches ==
  ASSUME NEW q \in IdentityCalls, NEW f, Sends(f, q), NEW s, Server(s), s.func = f.func
  PROVE  Reaches(q, f, s)
<1> DEFINE in == processInputData(s, f.data)
<1>1. q.name = "readDeviceIdentification" /\ q.code \in Octet /\ q.object \in Octet
  BY DEF IdentityCalls
<1>2. Is(f, q, <<>>)
  BY DEF Is, Sends
<1>3. f.func = 43 /\ f.data = <<14, q.code, q.object>>
  BY <1>2, IdentityForm
<1>4. in = IdentificationInput(s, <<14, q.code, q.object>>)
  BY <1>3 DEF processInputData
<1>5. Heard(in, s) /\ in.srv.offset = q.code + 256 * q.object
  BY <1>1, <1>4, IdentificationHeard
<1>6. in.srv.func = 43
  BY <1>3, <1>5 DEF Heard
<1> HIDE DEF in
<1>7. Kept(q, in.srv)
  BY <1>1, <1>5, <1>6 DEF Kept, Resets
<1>8. f.func \in 1..127
  BY <1>3
<1> QED
  BY <1>5, <1>7, <1>8 DEF Reaches, in

(* A server hears whatever the client functions send, files apart.         *)
LEMMA CallReaches ==
  ASSUME NEW q \in Calls \ FileCalls, NEW f, Sends(f, q), NEW s, Server(s), s.func = f.func
  PROVE  Reaches(q, f, s)
  BY BitReaches, RegisterReaches, CoilReaches, ValueReaches, PlainReaches, QueryReaches,
     DiagnosticReaches, CoilsReaches, WriteReaches, MaskReaches, ReadWriteReaches,
     QueueReaches, IdentityReaches
     DEF Calls

-----------------------------------------------------------------------------
(***************************************************************************)
(* What the server answers.                                                *)
(***************************************************************************)

(* Rows with the same members are the same.                                *)
LEMMA RowEqual ==
  ASSUME NEW s, NEW t, NEW n, Row(s, n), Row(t, n), \A i \in 1..n : s[i] = t[i]
  PROVE  s = t
  BY DEF Row

(* What comes after the first of two rows put together is the second.      *)
LEMMA AfterJoined ==
  ASSUME NEW s, NEW m \in Nat, Row(s, m), NEW t, NEW n \in Nat, Row(t, n),
         NEW u, Joined(u, s, t)
  PROVE  After(u, m) = t /\ SubSeq(u, m + 1, m + n) = t
<1> DEFINE v == SubSeq(u, m + 1, m + n)
<1>1. Row(u, m + n) /\ \A i \in 1..n : u[m + i] = t[i]
  BY RowConcat
<1>2. Part(v, u, m, m + n)
  BY DEF Part
<1> HIDE DEF v
<1>3. Row(v, m + n - m) /\ \A i \in 1..m + n - m : v[i] = u[m + i]
  <2>1. m + n \in Int /\ 0 <= m /\ m <= m + n /\ m + n <= m + n
    OBVIOUS
  <2> QED
    BY <1>1, <1>2, <2>1, RowPart
<1>4. m + n - m = n
  OBVIOUS
<1>5. v = t
  BY <1>1, <1>3, <1>4, RowEqual
<1>6. Len(u) = m + n
  BY <1>1, RowLen
<1> QED
  BY <1>5, <1>6 DEF After, v

(* Swapped bytes, one by one.                                              *)
LEMMA SwapsAt ==
  ASSUME NEW r, NEW n \in Nat, Row(r, 2 * n)
  PROVE  /\ Row(Swapped(r), 2 * n)
         /\ \A i \in 1..2 * n : Swapped(r)[i] = r[IF i % 2 = 1 THEN i + 1 ELSE i - 1]
<1>1. Len(r) = 2 * n /\ 2 * n \in Nat
  BY RowLen
<1>2. 2 * (Len(r) \div 2) = 2 * n
  BY <1>1
<1> QED
  BY <1>1, <1>2 DEF Swapped, Row

(* The first bytes of valueBuff.                                           *)
LEMMA BuffRow ==
  ASSUME NEW s, Server(s), NEW n \in Nat, n <= ValueBuffSz
  PROVE  Row(Buff(s, 0, n), n) /\ \A i \in 1..n : Buff(s, 0, n)[i] = s.valueBuff[i]
<1> DEFINE v == Buff(s, 0, n)
<1>1. Part(v, s.valueBuff, 0, n)
  BY DEF Part, Buff
<1>2. Row(s.valueBuff, ValueBuffSz) /\ n \in Int /\ 0 <= n /\ n - 0 = n
  BY DEF Server
<1> HIDE DEF v
<1>3. Row(v, n - 0) /\ \A i \in 1..n - 0 : v[i] = s.valueBuff[0 + i]
  BY <1>1, <1>2, RowPart
<1> QED
  BY <1>2, <1>3 DEF v

(* A byte put into the low half of a word is found there.                  *)
LEMMA LowByte ==
  ASSUME NEW w \in Int, NEW b \in Octet
  PROVE  WithLow(w, b) \in Int /\ Low(WithLow(w, b)) = b /\ Low(b) = b
<1>1. b \in Int /\ 0 <= b /\ b < 256
  BY DEF Octet
<1>2. PICK h \in Int : h = w \div 256
  OBVIOUS
<1>3. WithLow(w, b) = 256 * h + b
  BY <1>2 DEF WithLow, High
<1>4. (256 * h + b) % 256 = b /\ b % 256 = b
  BY <1>1
<1> QED
  BY <1>1, <1>3, <1>4 DEF Low

(* A byte that counts those behind it.                                     *)
LEMMA CountedBytes ==
  ASSUME NEW n \in Nat, NEW v, Row(v, n), NEW r, Joined(r, <<n>>, v)
  PROVE  /\ Row(r, 1 + n)
         /\ r[1] = n
         /\ Sized(r)
         /\ After(r, 1) = v
<1>1. Row(<<n>>, 1) /\ <<n>>[1] = n /\ 1 \in Nat /\ 1 \in 1..1
  BY RowOne
<1>2. Row(r, 1 + n) /\ \A i \in 1..1 : r[i] = <<n>>[i]
  BY <1>1, RowConcat
<1>3. r[1] = n
  BY <1>1, <1>2
<1>4. Len(r) = 1 + n
  BY <1>2, RowLen
<1>5. Sized(r)
  BY <1>3, <1>4 DEF Sized
<1>6. After(r, 1) = v
  BY <1>1, AfterJoined
<1> QED
  BY <1>2, <1>3, <1>5, <1>6

(* The client takes r for the answer to q, and it fits in a message.       *)
Taken(q, r) == Len(r) <= DataMax /\ Function(q, r).good

(* The client takes a row that is short enough and good.                   *)
LEMMA Takes ==
  ASSUME NEW q, NEW r, NEW n \in Nat, n <= DataMax, Row(r, n), NEW f, Is(f, q, r), f.good
  PROVE  Taken(q, r)
<1>1. Len(r) = n
  BY RowLen
<1>2. Function(q, r).good
  BY DEF Is
<1> QED
  BY <1>1, <1>2 DEF Taken

(* Bytes of 16 bits that fit in one.                                       *)
LEMMA Bytes ==
  ASSUME NEW n \in Nat, n <= 255
  PROVE  Low(n) = n /\ n <= ValueBuffSz /\ n \in Octet
  BY DEF Low, ValueBuffSz, Octet

(* The client takes the answer to a request to read bits,                  *)
LEMMA BitAnswers ==
  ASSUME NEW q \in BitCalls, NEW s, Server(s), Kept(q, s), NEW data
  PROVE  Taken(q, processOutputData(s, data))
<1> DEFINE v == Buff(s, 0, ByteCount(q.count))
           r == <<ByteCount(q.count)>> \o v
<1>1. /\ q.name \in {"readCoils", "readCoilsAsBoolArray", "readDiscreteInputs",
                     "readDiscreteInputsAsBoolArray"}
      /\ q.count \in Short
  BY DEF BitCalls
<1>2. s.func \in {1, 2} /\ s.count = q.count /\ q.count <= MaxDiscrets
  BY <1>1 DEF Kept
<1>3. PICK n \in Nat : n = ByteCount(q.count) /\ n <= 255
  <2>1. q.count \in Int /\ 0 <= q.count /\ q.count <= 2040
    BY <1>1, <1>2, ShortInt DEF MaxDiscrets
  <2> QED
    BY <2>1 DEF ByteCount
<1>4. Low(n) = n /\ n <= ValueBuffSz
  BY <1>3, Bytes
<1>5. processOutputData(s, data) = r
  <2> HIDE DEF r
  <2>1. processOutputData(s, data) = ReadOutput(s)
    BY <1>2 DEF processOutputData
  <2>2. Low(ByteCount(s.count)) = ByteCount(q.count)
    BY <1>2, <1>3, <1>4
  <2>3. ReadOutput(s) = r
    BY <2>2, Zenon DEF ReadOutput, r
  <2> QED
    BY <2>1, <2>3
<1>6. Row(v, n)
  BY <1>3, <1>4, BuffRow
<1>7. Joined(r, <<n>>, v)
  BY <1>3 DEF Joined
<1> HIDE DEF v, r
<1>8. Row(r, 1 + n) /\ r[1] = n /\ Sized(r)
  BY <1>6, <1>7, CountedBytes
<1>9. PICK f : Is(f, q, r)
  BY DEF Is
<1>10. f.good
  BY <1>3, <1>8, <1>9, BitForm
<1>11. 1 + n \in Nat /\ 1 + n <= DataMax
  BY <1>3 DEF DataMax
<1> QED
  BY <1>5, <1>8, <1>9, <1>10, <1>11, Takes

(* to read registers,                                                      *)
LEMMA RegisterAnswers ==
  ASSUME NEW q \in RegisterCalls \union ReadWriteCalls, NEW s, Server(s), Kept(q, s), NEW data
  PROVE  Taken(q, processOutputData(s, data))
<1> DEFINE b == Buff(s, 0, 2 * q.count)
           w == Swapped(b)
           v == SubSeq(w, 1, 2 * q.count)
           r == <<2 * q.count>> \o v
<1>1. /\ q.name \in {"readHoldingRegisters", "readInputRegisters",
                     "readWriteMultipleRegisters"}
      /\ q.count \in Short
  BY DEF RegisterCalls, ReadWriteCalls
<1>2. s.func \in {3, 4, 23} /\ s.count = q.count /\ q.count <= MaxRegisters
  BY <1>1 DEF Kept
<1>3. PICK n \in Nat : n = 2 * q.count /\ n <= 255 /\ n \div 2 = q.count /\ q.count \in Nat
  <2>1. q.count \in Int /\ 0 <= q.count /\ q.count <= 127
    BY <1>1, <1>2, ShortInt DEF MaxRegisters
  <2> QED
    BY <2>1
<1>4. Low(n) = n /\ n <= ValueBuffSz
  BY <1>3, Bytes
<1>5. processOutputData(s, data) = r
  <2> HIDE DEF r
  <2>1. processOutputData(s, data) = RegistersOutput(s)
    BY <1>2 DEF processOutputData
  <2>2. Low(2 * s.count) = 2 * q.count /\ s.count = q.count
    BY <1>2, <1>3, <1>4
  <2>3. RegistersOutput(s) = r
    BY <2>2, Zenon DEF RegistersOutput, r
  <2> QED
    BY <2>1, <2>3
<1>6. Row(b, n)
  BY <1>3, <1>4, BuffRow
<1>7. Joined(r, <<n>>, v) /\ Part(v, w, 0, n)
  BY <1>3 DEF Joined, Part
<1> HIDE DEF r, v, b
<1>8. Row(w, n)
  BY <1>3, <1>6, SwapsAt
<1> HIDE DEF w
<1>9. Row(v, n)
  <2>1. n \in Int /\ 0 <= n /\ n <= n /\ n - 0 = n /\ 0 \in Int /\ 0 <= 0
    OBVIOUS
  <2> QED
    BY <1>7, <1>8, <2>1, RowPart
<1>10. Row(r, 1 + n) /\ r[1] = n /\ Sized(r)
  BY <1>7, <1>9, CountedBytes
<1>11. PICK f : Is(f, q, r)
  BY DEF Is
<1>12. f.good
  BY <1>3, <1>10, <1>11, RegisterForm, ReadWriteForm
<1>13. 1 + n \in Nat /\ 1 + n <= DataMax
  BY <1>3 DEF DataMax
<1> QED
  BY <1>5, <1>10, <1>11, <1>12, <1>13, Takes

(* to write a coil,                                                        *)
LEMMA CoilAnswers ==
  ASSUME NEW q \in CoilCalls, NEW s, Server(s), Kept(q, s), NEW data
  PROVE  Taken(q, processOutputData(s, data))
<1> DEFINE x == IF s.valueBuff[1] # 0 THEN 255 ELSE 0
           r == Word(q.offset) \o <<x, 0>>
<1>1. q.name = "writeSingleCoil" /\ q.offset \in Short
  BY DEF CoilCalls
<1>2. s.func = 5 /\ s.offset = q.offset
  BY <1>1 DEF Kept
<1>3. processOutputData(s, data) = r
  BY <1>2 DEF processOutputData, SingleOutput
<1>4. Joined(r, Word(q.offset), <<x, 0>>)
  BY DEF Joined
<1> HIDE DEF x, r
<1>5. PICK n \in Nat : n = 2
  OBVIOUS
<1>6. Row(<<x, 0>>, n)
  BY <1>5, RowPair
<1>7. Row(r, 2 + n) /\ Words(r)[1] = q.offset
  BY <1>1, <1>4, <1>6, FrontWord
<1>8. Len(r) = 4
  <2>1. Len(r) = 2 + n
    BY <1>7, RowLen
  <2> QED
    BY <1>5, <2>1
<1>9. PICK f : Is(f, q, r)
  BY DEF Is
<1>10. f.good
  BY <1>7, <1>8, <1>9, CoilForm
<1>11. 2 + n \in Nat /\ 2 + n <= DataMax
  BY <1>5 DEF DataMax
<1> QED
  BY <1>3, <1>7, <1>9, <1>10, <1>11, Takes

(* to write a register,                                                    *)
LEMMA ValueAnswers ==
  ASSUME NEW q \in ValueCalls, NEW s, Server(s), Kept(q, s), NEW data
  PROVE  Taken(q, processOutputData(s, data))
<1> DEFINE b == Buff(s, 0, 2)
           w == Swapped(b)
           r == Word(q.offset) \o w
<1>1. q.name = "writeSingleRegister" /\ q.offset \in Short /\ q.value \in Short
  BY DEF ValueCalls
<1>2. /\ s.func = 6 /\ s.offset = q.offset
      /\ s.valueBuff[1] = q.value % 256 /\ s.valueBuff[2] = q.value \div 256
  BY <1>1 DEF Kept
<1>3. processOutputData(s, data) = r
  BY <1>2 DEF processOutputData, SingleOutput
<1>4. 1 \in 1..2 /\ 2 \in 1..2 /\ 1 % 2 = 1 /\ 1 + 1 = 2 /\ 2 % 2 = 0 /\ 2 - 1 = 1 /\ 2 * 1 = 2
  OBVIOUS
<1>5. Row(b, 2) /\ b[1] = s.valueBuff[1] /\ b[2] = s.valueBuff[2]
  <2>1. PICK n \in Nat : n = 2 /\ n <= ValueBuffSz
    BY DEF ValueBuffSz
  <2>2. Row(Buff(s, 0, n), n) /\ \A i \in 1..n : Buff(s, 0, n)[i] = s.valueBuff[i]
    BY <2>1, BuffRow
  <2> QED
    BY <1>4, <2>1, <2>2
<1> HIDE DEF b
<1>6. Row(w, 2) /\ w[1] = b[2] /\ w[2] = b[1]
  <2>1. PICK n \in Nat : n = 1
    OBVIOUS
  <2>2. Row(b, 2 * n)
    BY <1>5, <2>1
  <2>3. Row(w, 2 * n) /\ \A i \in 1..2 * n : w[i] = b[IF i % 2 = 1 THEN i + 1 ELSE i - 1]
    BY <2>1, <2>2, SwapsAt
  <2>4. Row(w, 2)
    BY <2>1, <2>3
  <2>5. w[1] = b[IF 1 % 2 = 1 THEN 1 + 1 ELSE 1 - 1]
    BY <2>1, <2>3
  <2>6. w[2] = b[IF 2 % 2 = 1 THEN 2 + 1 ELSE 2 - 1]
    BY <2>1, <2>3
  <2> QED
    BY <1>4, <2>4, <2>5, <2>6
<1>7. w = Word(q.value)
  <2> HIDE DEF w
  <2>1. w = [i \in 1..2 |-> w[i]]
    BY <1>6 DEF Row
  <2> QED
    BY <1>2, <1>5, <1>6, <2>1 DEF Word
<1>8. Joined(r, Word(q.offset), Word(q.value))
  BY <1>7 DEF Joined
<1> HIDE DEF w, r
<1>9. Row(r, 4) /\ Words(r) = <<q.offset, q.value>>
  BY <1>1, <1>8, TwoWords
<1>10. Len(r) = 4
  BY <1>9, RowLen
<1>11. PICK f : Is(f, q, r)
  BY DEF Is
<1>12. f.good
  BY <1>9, <1>10, <1>11, ValueForm
<1>13. Len(r) <= DataMax
  BY <1>10 DEF DataMax
<1>14. Function(q, r).good
  BY <1>11, <1>12 DEF Is
<1> QED
  BY <1>3, <1>13, <1>14 DEF Taken

(* to read the exception status,                                           *)
LEMMA StatusAnswers ==
  ASSUME NEW q, q.name = "readExceptionStatus", NEW s, Server(s), Kept(q, s), NEW data
  PROVE  Taken(q, processOutputData(s, data))
<1> DEFINE r == Buff(s, 0, 1)
<1>1. s.func = 7
  BY DEF Kept
<1>2. processOutputData(s, data) = r
  BY <1>1 DEF processOutputData
<1>3. Len(r) = 1
  <2>1. PICK n \in Nat : n = 1 /\ n <= ValueBuffSz
    BY DEF ValueBuffSz
  <2>2. Row(Buff(s, 0, n), n)
    BY <2>1, BuffRow
  <2>3. Len(Buff(s, 0, n)) = n
    BY <2>2, RowLen
  <2> QED
    BY <2>1, <2>3
<1> HIDE DEF r
<1>4. PICK f : Is(f, q, r)
  BY DEF Is
<1>5. f.good
  BY <1>3, <1>4, StatusForm
<1>6. Function(q, r).good
  BY <1>4, <1>5 DEF Is
<1>7. Len(r) <= DataMax
  BY <1>3 DEF DataMax
<1> QED
  BY <1>2, <1>6, <1>7 DEF Taken

(* to write several coils or registers,                                    *)
LEMMA MultipleAnswers ==
  ASSUME NEW q \in PackedCalls \union BoolCalls \union WriteCalls,
         NEW s, Server(s), Kept(q, s), NEW data
  PROVE  Taken(q, processOutputData(s, data))
<1> DEFINE r == Word(q.offset) \o Word(q.count)
<1>1. /\ q.name \in {"writeMultipleCoils", "writeMultipleCoilsAsBoolArray",
                     "writeMultipleRegisters"}
      /\ q.offset \in Short /\ q.count \in Short
  BY DEF PackedCalls, BoolCalls, WriteCalls
<1>2. s.func \in {15, 16} /\ s.offset = q.offset /\ s.count = q.count
  BY <1>1 DEF Kept
<1>3. processOutputData(s, data) = r
  BY <1>2 DEF processOutputData, MultipleOutput
<1>4. Joined(r, Word(q.offset), Word(q.count))
  BY DEF Joined
<1> HIDE DEF r
<1>5. Row(r, 4) /\ Words(r) = <<q.offset, q.count>>
  BY <1>1, <1>4, TwoWords
<1>6. Len(r) = 4
  BY <1>5, RowLen
<1>7. PICK f : Is(f, q, r)
  BY DEF Is
<1>8. f.good
  BY <1>5, <1>6, <1>7, PackedForm, BoolForm, WriteForm
<1>9. Function(q, r).good
  BY <1>7, <1>8 DEF Is
<1>10. Len(r) <= DataMax
  BY <1>6 DEF DataMax
<1> QED
  BY <1>3, <1>9, <1>10 DEF Taken

(* and to mask a register.                                                 *)
LEMMA MaskAnswers ==
  ASSUME NEW q \in MaskCalls, NEW s, Server(s), Kept(q, s), NEW data
  PROVE  Taken(q, processOutputData(s, data))
<1> DEFINE h == Word(q.offset) \o Word(q.andMask)
           r == h \o Word(q.orMask)
<1>1. /\ q.name = "maskWriteRegister" /\ q.offset \in Short
      /\ q.andMask \in Short /\ q.orMask \in Short
  BY DEF MaskCalls
<1>2. s.func = 22 /\ s.offset = q.offset /\ s.andMask = q.andMask /\ s.orMask = q.orMask
  BY <1>1 DEF Kept
<1>3. processOutputData(s, data) = r
  BY <1>2 DEF processOutputData, MaskOutput
<1>4. /\ Joined(h, Word(q.offset), Word(q.andMask)) /\ Joined(r, h, Word(q.orMask))
      /\ Masking(r, q.offset, q.andMask, q.orMask)
  BY DEF Joined, Masking
<1> HIDE DEF h, r
<1>5. Row(h, 4)
  BY <1>1, <1>4, TwoWords
<1>6. Row(r, 6)
  <2>1. 4 \in Nat /\ 5 = 4 + 1 /\ 6 = 4 + 2
    OBVIOUS
  <2> QED
    BY <1>1, <1>4, <1>5, <2>1, LastWord
<1>7. Len(r) = 6
  BY <1>6, RowLen
<1>8. PICK f : Is(f, q, r)
  BY DEF Is
<1>9. f.good
  BY <1>4, <1>8, MaskForm
<1>10. Function(q, r).good
  BY <1>8, <1>9 DEF Is
<1>11. Len(r) <= DataMax
  BY <1>7 DEF DataMax
<1> QED
  BY <1>3, <1>10, <1>11 DEF Taken

-----------------------------------------------------------------------------
(***************************************************************************)
(* What a device tells of itself, on its way to the client.                *)
(***************************************************************************)
(* The client function hands out what the device told, or takes nothing.   *)
Tells(q, s, data, out) ==
  LET r == processOutputData(s, data)
  IN  IF Len(r) <= DataMax THEN Function(q, r).out = out ELSE ~ Function(q, data).good

(* What a message and the client have room for.                            *)
Small(s, out) ==
  CASE s.func \in {12, 24} -> Len(out) <= IF s.func = 12 THEN 3 + EventLogMax ELSE FifoMax
    [] s.func = 43 -> Len(out) <= 4 + DataMax - 6
    [] OTHER -> TRUE

Informs(q, s, t, data) ==
  LET u == Inform(s, t)
      out == Information(s, t)
  IN  /\ Server(u) /\ u.unit = s.unit /\ u.func = s.func
      /\ Small(u, out) => Taken(q, processOutputData(u, data))
      /\ Tells(q, u, data, out)

(* It suffices to look at an answer that fits in a message.                *)
LEMMA TellsAnswer ==
  ASSUME NEW q, NEW s, NEW data, NEW out, NEW r, r = processOutputData(s, data),
         NEW f, Is(f, q, r), f.out = out, Len(r) <= DataMax
  PROVE  Tells(q, s, data, out)
  BY DEF Tells, Is

(* What a device tells are three words and some bytes.                     *)
LEMMA ToldWords ==
  ASSUME NEW t \in Told
  PROVE  /\ Row(t.words, 3)
         /\ t.words[1] \in Short /\ t.words[2] \in Short /\ t.words[3] \in Short
         /\ t.words[1] \in Int /\ t.words[2] \in Int /\ t.words[3] \in Int
         /\ Len(t.bytes) \in Nat /\ Len(t.bytes) <= 255 /\ Row(t.bytes, Len(t.bytes))
<1>1. /\ t.words \in Seq(Short) /\ t.bytes \in Seq(Octet)
      /\ Len(t.words) = 3 /\ Len(t.bytes) <= ValueBuffSz
  <2>1. t \in Telltales
    BY ToldAssumption
  <2> QED
    BY <2>1 DEF Telltales
<1>2. Row(t.words, 3) /\ Row(t.bytes, Len(t.bytes))
  BY <1>1, SeqRow
<1>3. t.words[1] \in Short /\ t.words[2] \in Short /\ t.words[3] \in Short
  BY <1>1
<1>4. Len(t.bytes) \in Nat
  BY <1>1
<1> QED
  BY <1>1, <1>2, <1>3, <1>4, ShortInt DEF ValueBuffSz

(* The bytes that were put at the start of valueBuff are those there.      *)
LEMMA PutBuff ==
  ASSUME NEW s, Server(s), NEW bytes, NEW n \in Nat, Row(bytes, n), n <= ValueBuffSz,
         NEW u, Server(u), u.valueBuff = Put(s, 0, bytes).valueBuff,
         NEW m \in Nat, m <= n
  PROVE  Row(Buff(u, 0, m), m) /\ \A i \in 1..m : Buff(u, 0, m)[i] = bytes[i]
<1> DEFINE v == Buff(u, 0, m)
           p == Put(s, 0, bytes)
<1>1. m <= ValueBuffSz
  BY DEF ValueBuffSz
<1>2. Row(v, m) /\ \A i \in 1..m : v[i] = u.valueBuff[i]
  BY <1>1, BuffRow
<1>3. \A i \in 1..ValueBuffSz :
        p.valueBuff[i] = IF i - 0 \in DOMAIN bytes THEN bytes[i - 0] ELSE s.valueBuff[i]
  BY PutServer
<1>4. DOMAIN bytes = 1..n
  BY RowLen
<1> HIDE DEF v, p
<1>5. ASSUME NEW i \in 1..m
      PROVE  v[i] = bytes[i]
  <2>1. i \in 1..ValueBuffSz /\ i - 0 = i /\ i \in 1..n
    BY <1>1 DEF ValueBuffSz
  <2>2. p.valueBuff[i] = bytes[i]
    BY <1>3, <1>4, <2>1
  <2> QED
    BY <1>2, <2>2 DEF p
<1> QED
  BY <1>2, <1>5 DEF v

(* What a device tells arrives: the data of a query,                       *)
LEMMA QueryInforms ==
  ASSUME NEW q \in QueryCalls, NEW s, Server(s), Kept(q, s), NEW t \in Told, NEW data
  PROVE  Informs(q, s, t, data)
<1> DEFINE x == WithLow(s.orMask, Low(s.count))
           u == [s EXCEPT !.orMask = x]
           v == Buff(s, 0, s.count)
           r == Word(0) \o v
<1>1. q.name = "returnQueryData" /\ Len(q.values) \in Nat
  BY DEF QueryCalls
<1>2. s.func = 8 /\ s.offset = 0
  BY <1>1 DEF Kept
<1>3. PICK n \in Nat : n = s.count /\ n = Len(q.values) /\ n <= 253
  BY <1>1 DEF Kept, ValueBuffSz
<1>4. Low(n) = n /\ n <= ValueBuffSz /\ n \in Octet
  BY <1>3, Bytes
<1>5. s.orMask \in Int
  BY DEF Server
<1>6. x \in Int /\ Low(x) = n
  BY <1>3, <1>4, <1>5, LowByte
<1>7. Inform(s, t) = u
  BY <1>2 DEF Inform
<1> HIDE DEF x
<1>8. /\ Server(u) /\ u.unit = s.unit /\ u.func = s.func /\ u.offset = s.offset
      /\ u.orMask = x /\ u.valueBuff = s.valueBuff
  BY <1>6 DEF Server
<1> HIDE DEF u
<1>9. processOutputData(u, data) = r
  <2>1. processOutputData(u, data) = Word(0) \o Buff(u, 0, n)
    BY <1>2, <1>6, <1>8 DEF processOutputData, DiagnosticsOutput
  <2>2. Buff(u, 0, n) = v
    BY <1>3, <1>8 DEF Buff
  <2> QED
    BY <2>1, <2>2
<1>10. Information(s, t) = v
  BY <1>2 DEF Information
<1>11. Row(v, n)
  BY <1>3, <1>4, BuffRow
<1>12. Joined(r, Word(0), v)
  BY DEF Joined
<1> HIDE DEF v, r
<1>13. 0 \in Short /\ 2 \in Nat
  BY DEF Short
<1>14. Row(r, 2 + n) /\ Words(r)[1] = 0
  BY <1>11, <1>12, <1>13, FrontWord
<1>15. Len(r) = 2 + n /\ Len(r) >= 2 /\ Len(r) <= DataMax
  <2>1. Len(r) = 2 + n
    BY <1>14, RowLen
  <2> QED
    BY <1>3, <2>1 DEF DataMax
<1>16. SubSeq(r, 2 + 1, 2 + n) = v
  BY <1>11, <1>12, <1>13, AfterJoined, WordBytes
<1>17. PICK f : Is(f, q, r)
  BY DEF Is
<1>18. f.good
  BY <1>14, <1>15, <1>17, QueryForm
<1>19. f.out = v
  <2>1. f.out = SubSeq(r, 3, LeastOf(Len(r), 2 + Len(q.values)))
    BY <1>17, QueryForm
  <2>2. LeastOf(Len(r), 2 + Len(q.values)) = 2 + n /\ 3 = 2 + 1
    BY <1>3, <1>15 DEF LeastOf
  <2> QED
    BY <1>16, <2>1, <2>2
<1>20. Taken(q, r)
  BY <1>15, <1>17, <1>18 DEF Taken, Is
<1>21. Tells(q, u, data, v)
  BY <1>9, <1>15, <1>17, <1>19, TellsAnswer
<1> QED
  BY <1>7, <1>8, <1>9, <1>10, <1>20, <1>21 DEF Informs

(* the event counter,                                                      *)
LEMMA CounterInforms ==
  ASSUME NEW q, q.name = "getCommEventCounter", NEW s, Server(s), Kept(q, s),
         NEW t \in Told, NEW data
  PROVE  Informs(q, s, t, data)
<1> DEFINE a == t.words[1]
           b == t.words[2]
           u == [s EXCEPT !.offset = a, !.count = b]
           v == SubSeq(t.words, 1, 2)
           r == Word(a) \o Word(b)
<1>1. s.func = 11
  BY DEF Kept
<1>2. a \in Short /\ b \in Short /\ a \in Int /\ b \in Int /\ Row(t.words, 3)
  BY ToldWords
<1>3. Inform(s, t) = u
  BY <1>1 DEF Inform
<1>4. Information(s, t) = v
  BY <1>1 DEF Information
<1>5. v = <<a, b>>
  <2>1. PICK m \in Nat : m = 2
    OBVIOUS
  <2>2. Part(v, t.words, 0, m)
    BY <2>1 DEF Part
  <2> HIDE DEF v
  <2>3. m \in Int /\ 0 <= m /\ m <= 3 /\ m - 0 = m /\ 0 \in Int /\ 0 <= 0
    BY <2>1
  <2>4. Row(v, m) /\ \A i \in 1..m : v[i] = t.words[0 + i]
    BY <1>2, <2>2, <2>3, RowPart
  <2>5. v = [i \in 1..2 |-> v[i]] /\ v[1] = a /\ v[2] = b
    BY <2>1, <2>4 DEF Row
  <2> QED
    BY <2>5
<1>6. Joined(r, Word(a), Word(b))
  BY DEF Joined
<1> HIDE DEF a, b
<1>7. /\ Server(u) /\ u.unit = s.unit /\ u.func = s.func /\ u.offset = a /\ u.count = b
  BY <1>2 DEF Server
<1> HIDE DEF u, v
<1>8. processOutputData(u, data) = r
  BY <1>1, <1>7 DEF processOutputData, CounterOutput
<1> HIDE DEF r
<1>9. Row(r, 4) /\ Words(r) = <<a, b>>
  BY <1>2, <1>6, TwoWords
<1>10. Len(r) = 4 /\ Len(r) <= DataMax
  <2>1. Len(r) = 4
    BY <1>9, RowLen
  <2> QED
    BY <2>1 DEF DataMax
<1>11. PICK f : Is(f, q, r)
  BY DEF Is
<1>12. f.good /\ f.out = v
  BY <1>5, <1>9, <1>10, <1>11, CounterForm
<1>13. Taken(q, r)
  BY <1>10, <1>11, <1>12 DEF Taken, Is
<1>14. Tells(q, u, data, v)
  BY <1>8, <1>10, <1>11, <1>12, TellsAnswer
<1> QED
  BY <1>3, <1>4, <1>7, <1>8, <1>13, <1>14 DEF Informs

(* the identification of the server,                                       *)
LEMMA ServerInforms ==
  ASSUME NEW q, q.name = "reportServerID", NEW s, Server(s), Kept(q, s),
         NEW t \in Told, NEW data
  PROVE  Informs(q, s, t, data)
<1> DEFINE p == Put(s, 0, t.bytes)
           x == WithLow(p.orMask, Len(t.bytes))
           u == [p EXCEPT !.orMask = x]
           v == t.bytes
           b == Buff(u, 0, Len(t.bytes))
<1>1. s.func = 17
  BY DEF Kept
<1>2. PICK n \in Nat : n = Len(v) /\ n <= 255 /\ Row(v, n)
  BY ToldWords
<1>3. Low(n) = n /\ n <= ValueBuffSz /\ n \in Octet
  BY <1>2, Bytes
<1>4. Inform(s, t) = u
  BY <1>1 DEF Inform
<1>5. Information(s, t) = v
  BY <1>1 DEF Information
<1>6. Server(p) /\ p = [s EXCEPT !.valueBuff = p.valueBuff]
  BY PutServer
<1> HIDE DEF p
<1>7. p.unit = s.unit /\ p.func = s.func /\ p.orMask \in Int
  BY <1>6 DEF Server
<1>8. x \in Int /\ Low(x) = n
  BY <1>2, <1>3, <1>7, LowByte
<1> HIDE DEF x
<1>9. /\ Server(u) /\ u.unit = p.unit /\ u.func = p.func /\ u.orMask = x
      /\ u.valueBuff = p.valueBuff
  BY <1>6, <1>8 DEF Server
<1> HIDE DEF u
<1>10. Row(b, n) /\ \A i \in 1..n : b[i] = v[i]
  <2>1. n <= n
    OBVIOUS
  <2> QED
    BY <1>2, <1>3, <1>9, <2>1, PutBuff DEF p
<1> HIDE DEF b, v
<1>11. b = v
  BY <1>2, <1>10, RowEqual
<1> DEFINE r == <<n>> \o b
<1>12. processOutputData(u, data) = r
  <2>1. processOutputData(u, data) = BytesOutput(u)
    BY <1>1, <1>7, <1>9 DEF processOutputData
  <2>2. Low(u.orMask) = n
    BY <1>8, <1>9
  <2>3. BytesOutput(u) = <<n>> \o Buff(u, 0, n)
    BY <2>2, Zenon DEF BytesOutput
  <2> QED
    BY <1>2, <2>1, <2>3 DEF b, v
<1>13. Joined(r, <<n>>, b)
  BY DEF Joined
<1> HIDE DEF r
<1>14. Row(r, 1 + n) /\ r[1] = n /\ Sized(r) /\ After(r, 1) = b
  BY <1>10, <1>13, CountedBytes
<1>15. Len(r) <= DataMax
  <2>1. Len(r) = 1 + n
    BY <1>14, RowLen
  <2> QED
    BY <1>2, <2>1 DEF DataMax
<1>16. PICK f : Is(f, q, r)
  BY DEF Is
<1>17. f.good /\ f.out = v
  BY <1>11, <1>14, <1>16, ServerForm
<1>18. Taken(q, r)
  BY <1>15, <1>16, <1>17 DEF Taken, Is
<1>19. Tells(q, u, data, v)
  BY <1>12, <1>15, <1>16, <1>17, TellsAnswer
<1> QED
  BY <1>4, <1>5, <1>7, <1>9, <1>12, <1>18, <1>19 DEF Informs

(* the event log,                                                          *)
LEMMA LogInforms ==
  ASSUME NEW q, q.name = "getCommEventLog", NEW s, Server(s), Kept(q, s),
         NEW t \in Told, NEW g, Sends(g, q), NEW data, data = g.data
  PROVE  Informs(q, s, t, data)
<1> DEFINE w1 == t.words[1]
           w2 == t.words[2]
           w3 == t.words[3]
           p == Put(s, 0, t.bytes)
           x == WithLow(p.orMask, Len(t.bytes))
           u == [p EXCEPT !.orMask = x, !.offset = w1, !.count = w2, !.andMask = w3]
           v == t.bytes
           b == Buff(u, 0, Len(t.bytes))
           out == EventLog(t)
<1>1. s.func = 12
  BY DEF Kept
<1>2. PICK n \in Nat : n = Len(v) /\ n <= 255 /\ Row(v, n)
  BY ToldWords
<1>w. /\ w1 \in Short /\ w2 \in Short /\ w3 \in Short /\ Row(t.words, 3)
      /\ w1 \in Int /\ w2 \in Int /\ w3 \in Int
  BY ToldWords
<1>3. Low(n) = n /\ n <= ValueBuffSz /\ n \in Octet
  BY <1>2, Bytes
<1>4. Inform(s, t) = u
  BY <1>1 DEF Inform
<1>5. Information(s, t) = out
  BY <1>1 DEF Information
<1>6. Server(p) /\ p = [s EXCEPT !.valueBuff = p.valueBuff]
  BY PutServer
<1> HIDE DEF p, w1, w2, w3
<1>7. p.unit = s.unit /\ p.func = s.func /\ p.orMask \in Int
  BY <1>6 DEF Server
<1>8. x \in Int /\ Low(x) = n
  BY <1>2, <1>3, <1>7, LowByte
<1> HIDE DEF x
<1>9. /\ Server(u) /\ u.unit = p.unit /\ u.func = p.func /\ u.orMask = x
      /\ u.valueBuff = p.valueBuff /\ u.offset = w1 /\ u.count = w2 /\ u.andMask = w3
  BY <1>6, <1>8, <1>w DEF Server
<1> HIDE DEF u
<1>10. Row(b, n) /\ \A i \in 1..n : b[i] = v[i]
  <2>1. n <= n
    OBVIOUS
  <2> QED
    BY <1>2, <1>3, <1>9, <2>1, PutBuff DEF p
<1> HIDE DEF b, v, out
<1>11. b = v
  BY <1>2, <1>10, RowEqual
<1> DEFINE one == <<Low(n + 6)>>
           c == Word(w1) \o Word(w2)
           h5 == one \o c
           h7 == h5 \o Word(w3)
           r == h7 \o b
<1>12. processOutputData(u, data) = r
  <2>1. processOutputData(u, data) = LogOutput(u)
    BY <1>1, <1>7, <1>9 DEF processOutputData
  <2>2. Low(u.orMask) = n /\ b = Buff(u, 0, n)
    BY <1>2, <1>8, <1>9 DEF b, v
  <2>3. LogOutput(u) = r
    BY <1>9, <2>2, Zenon DEF LogOutput, CounterOutput
  <2> QED
    BY <2>1, <2>3
<1>13. /\ Joined(c, Word(w1), Word(w2)) /\ Joined(h5, one, c) /\ Joined(h7, h5, Word(w3))
       /\ Joined(r, h7, b)
  BY DEF Joined
<1>14. Row(one, 1) /\ one[1] = Low(n + 6)
  BY RowOne
<1> HIDE DEF one, c, h5, h7, r
<1>15. Row(c, 4) /\ 256 * c[1] + c[2] = w1 /\ 256 * c[3] + c[4] = w2
  BY <1>w, <1>13, TwoWords
<1>16. /\ Row(h5, 5) /\ h5[1] = one[1]
       /\ h5[2] = c[1] /\ h5[3] = c[2] /\ h5[4] = c[3] /\ h5[5] = c[4]
  <2>1. Row(h5, 1 + 4) /\ (\A i \in 1..1 : h5[i] = one[i]) /\ \A i \in 1..4 : h5[1 + i] = c[i]
    BY <1>13, <1>14, <1>15, RowConcat
  <2>2. /\ 1 \in 1..1 /\ 1 \in 1..4 /\ 2 \in 1..4 /\ 3 \in 1..4 /\ 4 \in 1..4
        /\ 1 + 4 = 5 /\ 1 + 1 = 2 /\ 1 + 2 = 3 /\ 1 + 3 = 4
    OBVIOUS
  <2> QED
    BY <2>1, <2>2
<1>17. /\ Row(h7, 7) /\ 256 * h7[6] + h7[7] = w3
       /\ h7[1] = one[1] /\ 256 * h7[2] + h7[3] = w1 /\ 256 * h7[4] + h7[5] = w2
  <2>1. 5 \in Nat /\ 6 = 5 + 1 /\ 7 = 5 + 2
    OBVIOUS
  <2>2. Joined(h7, h5, Word(w3)) /\ Row(h5, 5)
    BY <1>13, <1>16
  <2>3. Row(h7, 7) /\ (\A i \in 1..5 : h7[i] = h5[i]) /\ 256 * h7[6] + h7[7] = w3
    BY <1>w, <2>1, <2>2, LastWord
  <2>4. h7[1] = h5[1] /\ h7[2] = h5[2] /\ h7[3] = h5[3] /\ h7[4] = h5[4] /\ h7[5] = h5[5]
    <3>1. 1 \in 1..5 /\ 2 \in 1..5 /\ 3 \in 1..5 /\ 4 \in 1..5 /\ 5 \in 1..5
      OBVIOUS
    <3> QED
      BY <2>3, <3>1
  <2> QED
    BY <1>15, <1>16, <2>3, <2>4
<1>18. PICK k \in Nat : k = 7
  OBVIOUS
<1>19. Row(h7, k)
  BY <1>17, <1>18
<1>20. Row(r, k + n) /\ \A i \in 1..k : r[i] = h7[i]
  BY <1>10, <1>13, <1>19, RowConcat
<1>21. After(r, k) = b
  BY <1>10, <1>13, <1>19, AfterJoined
<1>22. Len(r) = 7 + n /\ Len(r) >= 7 /\ LeastOf(Len(r), 7) = 7
  <2>1. Len(r) = k + n
    BY <1>20, RowLen
  <2> QED
    BY <1>18, <2>1 DEF LeastOf
<1>23. /\ r[1] = h7[1] /\ r[2] = h7[2] /\ r[3] = h7[3] /\ r[4] = h7[4] /\ r[5] = h7[5]
       /\ r[6] = h7[6] /\ r[7] = h7[7]
  BY <1>18, <1>20
<1> DEFINE z == SubSeq(r, 2, 7)
<1>24. Words(z) = t.words
  <2>1. Part(z, r, 1, k)
    BY <1>18 DEF Part
  <2> HIDE DEF z
  <2>2. k + n \in Nat /\ 1 \in Int /\ 0 <= 1 /\ 1 <= k /\ k <= k + n /\ k \in Int /\ k - 1 = 6
    BY <1>18
  <2>3. Row(z, k - 1) /\ \A i \in 1..k - 1 : z[i] = r[1 + i]
    BY <1>20, <2>1, <2>2, RowPart
  <2>4. Row(z, 6)
    BY <2>2, <2>3
  <2>5. z[1] = r[2] /\ z[2] = r[3] /\ z[3] = r[4] /\ z[4] = r[5] /\ z[5] = r[6] /\ z[6] = r[7]
    <3>1. \A i \in 1..6 : z[i] = r[1 + i]
      BY <2>2, <2>3
    <3> QED
      BY <3>1
  <2>6. Row(Words(z), 3)
    <3>1. Row(Words(z), 6 \div 2)
      BY <2>4, WordsAt
    <3>2. 6 \div 2 = 3
      OBVIOUS
    <3> QED
      BY <3>1, <3>2
  <2>7. /\ Words(z)[1] = 256 * z[1] + z[2]
        /\ Words(z)[2] = 256 * z[3] + z[4]
        /\ Words(z)[3] = 256 * z[5] + z[6]
    <3>1. 2 <= 6 /\ 4 <= 6 /\ 6 <= 6
      OBVIOUS
    <3> QED
      BY <2>4, <3>1, FirstWords
  <2>8. Words(z)[1] = w1 /\ Words(z)[2] = w2 /\ Words(z)[3] = w3
    BY <1>17, <1>23, <2>5, <2>7
  <2>9. PICK m \in Nat : m = 3
    OBVIOUS
  <2>10. \A i \in 1..m : Words(z)[i] = t.words[i]
    BY <2>8, <2>9 DEF w1, w2, w3
  <2> QED
    BY <1>w, <2>6, <2>9, <2>10, RowEqual
<1>25. PICK f : Is(f, q, r)
  BY DEF Is
<1>26. f.out = out
  <2>1. Joined(f.out, Words(SubSeq(r, 2, LeastOf(Len(r), 7))), After(r, 7))
    BY <1>25, LogForm
  <2>2. Joined(f.out, t.words, v)
    BY <1>11, <1>18, <1>21, <1>22, <1>24, <2>1
  <2> QED
    BY <2>2 DEF Joined, out, EventLog, v
<1>27. Len(out) = 3 + n
  <2>1. Joined(out, t.words, v)
    BY DEF Joined, out, EventLog, v
  <2>2. Row(out, 3 + n)
    BY <1>2, <1>w, <2>1, RowConcat
  <2> QED
    BY <2>2, RowLen
<1>28. ASSUME Small(u, out)
       PROVE  Taken(q, r)
  <2>1. n <= 64
    BY <1>1, <1>7, <1>9, <1>27, <1>28 DEF Small, EventLogMax
  <2>2. Low(n + 6) = n + 6
    BY <2>1 DEF Low
  <2>3. r[1] = n + 6
    BY <1>14, <1>17, <1>23, <2>2
  <2>4. Sized(r)
    BY <1>22, <2>3 DEF Sized
  <2>5. r[1] - 6 <= EventLogMax
    BY <2>1, <2>3 DEF EventLogMax
  <2>6. f.good
    BY <1>22, <1>25, <2>4, <2>5, LogForm
  <2>7. Len(r) <= DataMax
    BY <1>22, <2>1 DEF DataMax
  <2> QED
    BY <1>25, <2>6, <2>7 DEF Taken, Is
<1>29. Tells(q, u, data, out)
  <2>1. CASE Len(r) <= DataMax
    BY <1>12, <1>25, <1>26, <2>1, TellsAnswer
  <2>2. CASE ~ (Len(r) <= DataMax)
    <3>1. data = <<>>
      <4>1. Is(g, q, <<>>)
        BY DEF Sends, Is
      <4> QED
        BY <4>1, LogForm
    <3>2. PICK e : Is(e, q, data)
      BY DEF Is
    <3>3. ~ (Len(data) >= 7)
      BY <3>1
    <3>4. ~ e.good
      BY <3>2, <3>3, LogForm
    <3>5. ~ Function(q, data).good
      BY <3>2, <3>4 DEF Is
    <3> QED
      BY <1>12, <2>2, <3>5 DEF Tells
  <2> QED
    BY <2>1, <2>2
<1> QED
  BY <1>4, <1>5, <1>7, <1>9, <1>12, <1>28, <1>29 DEF Informs

(* a queue,                                                                *)
LEMMA QueueInforms ==
  ASSUME NEW q \in QueueCalls, NEW s, Server(s), Kept(q, s), NEW t \in Told, NEW data
  PROVE  Informs(q, s, t, data)
<1> DEFINE p == Put(s, 0, t.bytes)
           x == Len(t.bytes) \div 2
           u == [p EXCEPT !.count = x]
           b == Buff(u, 0, 2 * u.count)
           w == Swapped(b)
           out == Words(Swapped(t.bytes))
           r == Word((2 * u.count + 2) % 65536) \o Word(u.count) \o w
<1>1. s.func = 24
  BY DEF Kept, QueueCalls
<1>2. PICK n \in Nat : n = Len(t.bytes) /\ n <= 255 /\ Row(t.bytes, n)
  BY ToldWords
<1>3. PICK c \in Nat : c = x /\ c <= 127 /\ 2 * c <= n
  <2>1. n \div 2 \in Nat /\ n \div 2 <= 127 /\ 2 * (n \div 2) <= n
    BY <1>2, Halved
  <2>2. n \div 2 = x
    BY <1>2
  <2> QED
    BY <2>1, <2>2
<1>4. Inform(s, t) = u
  BY <1>1 DEF Inform
<1>5. Information(s, t) = out
  BY <1>1 DEF Information
<1>6. Server(p) /\ p = [s EXCEPT !.valueBuff = p.valueBuff]
  BY PutServer
<1> HIDE DEF p
<1>7. p.unit = s.unit /\ p.func = s.func
  BY <1>6 DEF Server
<1>8. x \in Int
  BY <1>3
<1> HIDE DEF x
<1>9. /\ Server(u) /\ u.unit = p.unit /\ u.func = p.func /\ u.count = x
      /\ u.valueBuff = p.valueBuff
  BY <1>6, <1>8 DEF Server
<1> HIDE DEF u
<1>10. PICK m \in Nat : m = 2 * c /\ m <= n /\ n <= ValueBuffSz /\ m <= 254
  BY <1>2, <1>3 DEF ValueBuffSz
<1>11. Row(b, m) /\ \A i \in 1..m : b[i] = t.bytes[i]
  <2>1. 2 * u.count = m
    BY <1>3, <1>9, <1>10
  <2> HIDE DEF b
  <2>2. b = Buff(u, 0, m)
    BY <2>1 DEF b
  <2> QED
    BY <1>2, <1>9, <1>10, <2>2, PutBuff DEF p
<1>12. processOutputData(u, data) = r
  <2>1. processOutputData(u, data) = QueueOutput(u)
    BY <1>1, <1>7, <1>9 DEF processOutputData
  <2> QED
    BY <2>1 DEF QueueOutput
<1> HIDE DEF b
<1>13. Row(w, m) /\ \A i \in 1..m : w[i] = b[IF i % 2 = 1 THEN i + 1 ELSE i - 1]
  BY <1>10, <1>11, SwapsAt
<1>14. w = Swapped(t.bytes)
  <2>1. Swapped(t.bytes) = [i \in 1..m |-> t.bytes[IF i % 2 = 1 THEN i + 1 ELSE i - 1]]
    <3>1. 2 * (Len(t.bytes) \div 2) = m
      BY <1>3, <1>10 DEF x
    <3> QED
      BY <3>1 DEF Swapped
  <2>2. ASSUME NEW i \in 1..m
        PROVE  w[i] = t.bytes[IF i % 2 = 1 THEN i + 1 ELSE i - 1]
    <3>1. (IF i % 2 = 1 THEN i + 1 ELSE i - 1) \in 1..m
      BY <1>10
    <3> QED
      BY <1>11, <1>13, <3>1
  <2> HIDE DEF w
  <2> QED
    BY <1>13, <2>1, <2>2 DEF Row
<1>15. Joined(r, Word((2 * u.count + 2) % 65536) \o Word(u.count), w)
  BY DEF Joined
<1> HIDE DEF w, r
<1>16. /\ (2 * u.count + 2) % 65536 = 2 * x + 2
       /\ (2 * u.count + 2) % 65536 \in Short
       /\ u.count \in Short
  <2>1. u.count = c /\ x = c
    BY <1>3, <1>9
  <2>2. (2 * c + 2) % 65536 = 2 * c + 2 /\ 2 * c + 2 \in Short /\ c \in Short
    BY <1>3, Doubled
  <2> QED
    BY <2>1, <2>2
<1>17. /\ Row(r, 4 + m) /\ Words(r)[1] = 2 * x + 2 /\ Words(r)[2] = x
       /\ \A i \in 1..m : r[4 + i] = w[i]
  <2>1. /\ Row(r, 4 + m)
        /\ Words(r)[1] = (2 * u.count + 2) % 65536 /\ Words(r)[2] = u.count
        /\ \A i \in 1..m : r[4 + i] = w[i]
    BY <1>13, <1>15, <1>16, FrontWords
  <2> QED
    BY <1>9, <1>16, <2>1
<1>18. Len(r) = 4 + m /\ Len(r) >= 4 /\ Len(r) <= DataMax
  <2>1. Len(r) = 4 + m
    BY <1>17, RowLen
  <2> QED
    BY <1>10, <2>1 DEF DataMax
<1>19. Row(out, c) /\ \A i \in 1..c : out[i] = 256 * w[2 * i - 1] + w[2 * i]
  <2>1. Row(w, m)
    BY <1>13
  <2>2. m \div 2 = c
    BY <1>10
  <2>3. Row(Words(w), m \div 2) /\ \A i \in 1..m \div 2 : Words(w)[i] = 256 * w[2 * i - 1] + w[2 * i]
    BY <2>1, WordsAt
  <2> QED
    BY <1>14, <2>2, <2>3
<1>20. After(Words(r), 2) = out
  <2> DEFINE z == Words(r)
             y == After(z, 2)
  <2>1. (4 + m) \div 2 = 2 + c
    BY <1>10
  <2>2. Row(z, 2 + c) /\ \A i \in 1..2 + c : z[i] = 256 * r[2 * i - 1] + r[2 * i]
    <3>1. /\ Row(z, (4 + m) \div 2)
          /\ \A i \in 1..(4 + m) \div 2 : z[i] = 256 * r[2 * i - 1] + r[2 * i]
      BY <1>17, WordsAt
    <3> QED
      BY <2>1, <3>1
  <2> HIDE DEF z
  <2>3. Len(z) = 2 + c
    BY <2>2, RowLen
  <2>4. PICK k \in Nat : k = 2
    OBVIOUS
  <2>5. Part(y, z, k, k + c)
    BY <2>3, <2>4 DEF Part, After
  <2> HIDE DEF y
  <2>6. Row(y, c) /\ \A i \in 1..c : y[i] = z[k + i]
    <3>1. k \in Int /\ k + c \in Int /\ 0 <= k /\ k <= k + c /\ k + c <= k + c /\ k + c - k = c
      OBVIOUS
    <3>2. Row(z, k + c)
      BY <2>2, <2>4
    <3> QED
      BY <2>5, <3>1, <3>2, RowPart
  <2>7. ASSUME NEW i \in 1..c
        PROVE  y[i] = out[i]
    <3>1. 2 * i - 1 \in 1..m /\ 2 * i \in 1..m
      BY <1>10
    <3>2. r[4 + (2 * i - 1)] = w[2 * i - 1] /\ r[4 + 2 * i] = w[2 * i]
      BY <1>17, <3>1
    <3>3. 2 * (2 + i) - 1 = 4 + (2 * i - 1) /\ 2 * (2 + i) = 4 + 2 * i /\ 2 + i \in 1..2 + c
      OBVIOUS
    <3>4. z[2 + i] = 256 * r[4 + (2 * i - 1)] + r[4 + 2 * i]
      BY <2>2, <3>3
    <3> QED
      BY <1>19, <2>4, <2>6, <3>2, <3>4
  <2> HIDE DEF out
  <2> QED
    BY <1>19, <2>6, <2>7, RowEqual DEF y, z
<1>21. Len(out) = c
  BY <1>19, RowLen
<1> HIDE DEF out
<1>22. PICK f : Is(f, q, r)
  BY DEF Is
<1>23. f.out = out
  BY <1>20, <1>22, QueueForm
<1>24. ASSUME Small(u, out)
       PROVE  Taken(q, r)
  <2>1. c <= FifoMax
    BY <1>1, <1>7, <1>9, <1>21, <1>24 DEF Small
  <2>2. Words(r)[1] = Len(r) - 2 /\ Words(r)[1] = 2 * (Words(r)[2] + 1)
    BY <1>3, <1>10, <1>17, <1>18
  <2>3. Words(r)[2] <= FifoMax
    BY <1>3, <1>17, <2>1
  <2>4. f.good
    BY <1>18, <1>22, <2>2, <2>3, QueueForm
  <2> QED
    BY <1>18, <1>22, <2>4 DEF Taken, Is
<1>25. Tells(q, u, data, out)
  BY <1>12, <1>18, <1>22, <1>23, TellsAnswer
<1> QED
  BY <1>4, <1>5, <1>7, <1>9, <1>12, <1>24, <1>25 DEF Informs

(* and the identification of the device.                                   *)
LEMMA IdentityInforms ==
  ASSUME NEW q \in IdentityCalls, NEW s, Server(s), Kept(q, s), NEW t \in Told,
         NEW g, Sends(g, q), NEW data, data = g.data
  PROVE  Informs(q, s, t, data)
<1> DEFINE w2 == t.words[2]
           w3 == t.words[3]
           p == Put(s, 0, t.bytes)
           x == WithLow(p.orMask, Len(t.bytes))
           u == [p EXCEPT !.orMask = x, !.count = w2, !.andMask = w3]
           v == t.bytes
           b == Buff(u, 0, Len(t.bytes))
           out == Identification(t)
           any == IF Low(w3) # 0 THEN 255 ELSE 0
           h == <<14, q.code, High(w2), any, High(w3), Low(w2)>>
           o == <<High(w2), any, High(w3), Low(w2)>>
           r == h \o b
<1>1. s.func = 43 /\ Low(s.offset) = q.code
  <2>1. s.func = 43 /\ s.offset = q.code + 256 * q.object
    BY DEF Kept, IdentityCalls
  <2>2. q.code \in Octet /\ q.object \in Octet
    BY DEF IdentityCalls
  <2>3. PICK c \in 0..255, object \in 0..255 : c = q.code /\ object = q.object
    BY <2>2 DEF Octet
  <2>4. (256 * object + c) % 256 = c
    BY <2>3
  <2>5. s.offset = 256 * object + c
    BY <2>1, <2>3
  <2> QED
    BY <2>1, <2>3, <2>4, <2>5 DEF Low
<1>2. PICK n \in Nat : n = Len(v) /\ n <= 255 /\ Row(v, n)
  BY ToldWords
<1>w. w2 \in Int /\ w3 \in Int
  BY ToldWords
<1>3. Low(n) = n /\ n <= ValueBuffSz /\ n \in Octet
  BY <1>2, Bytes
<1>4. Inform(s, t) = u
  BY <1>1 DEF Inform
<1>5. Information(s, t) = out
  BY <1>1 DEF Information
<1>6. Server(p) /\ p = [s EXCEPT !.valueBuff = p.valueBuff]
  BY PutServer
<1> HIDE DEF p, w2, w3
<1>7. p.unit = s.unit /\ p.func = s.func /\ p.orMask \in Int /\ p.offset = s.offset
  BY <1>6 DEF Server
<1>8. x \in Int /\ Low(x) = n
  BY <1>2, <1>3, <1>7, LowByte
<1> HIDE DEF x
<1>9. /\ Server(u) /\ u.unit = p.unit /\ u.func = p.func /\ u.orMask = x /\ u.offset = p.offset
      /\ u.valueBuff = p.valueBuff /\ u.count = w2 /\ u.andMask = w3
  BY <1>6, <1>8, <1>w DEF Server
<1> HIDE DEF u
<1>10. Row(b, n) /\ \A i \in 1..n : b[i] = v[i]
  <2>1. n <= n
    OBVIOUS
  <2> QED
    BY <1>2, <1>3, <1>9, <2>1, PutBuff DEF p
<1>12. processOutputData(u, data) = r
  <2> HIDE DEF r
  <2>1. processOutputData(u, data) = IdentificationOutput(u)
    BY <1>1, <1>7, <1>9 DEF processOutputData
  <2>2. Low(u.orMask) = n /\ b = Buff(u, 0, n) /\ Low(u.offset) = q.code
    BY <1>1, <1>2, <1>7, <1>8, <1>9 DEF b, v
  <2>3. IdentificationOutput(u) = r
    BY <1>9, <2>2, Zenon DEF IdentificationOutput, r, h, any
  <2> QED
    BY <2>1, <2>3
<1>13. Joined(r, h, b) /\ Joined(out, o, v)
  BY DEF Joined, Identification, w2, w3
<1> HIDE DEF b, v, out, any
<1>11. b = v
  BY <1>2, <1>10, RowEqual
<1>14. /\ Row(h, 6) /\ h[1] = 14 /\ h[2] = q.code
       /\ h[3] = o[1] /\ h[4] = o[2] /\ h[5] = o[3] /\ h[6] = o[4]
  BY DEF Row
<1>15. Row(o, 4)
  BY DEF Row
<1> HIDE DEF h, o, r
<1>16. PICK k \in Nat, j \in Nat : k = 6 /\ j = 4
  OBVIOUS
<1>17. Row(h, k) /\ Row(o, j)
  BY <1>14, <1>15, <1>16
<1>18. /\ Row(r, k + n) /\ (\A i \in 1..k : r[i] = h[i]) /\ \A i \in 1..n : r[k + i] = b[i]
  BY <1>10, <1>13, <1>17, RowConcat
<1>19. /\ Row(out, j + n) /\ (\A i \in 1..j : out[i] = o[i]) /\ \A i \in 1..n : out[j + i] = v[i]
  BY <1>2, <1>13, <1>17, RowConcat
<1>20. Len(r) = 6 + n /\ Len(out) = 4 + n
  BY <1>16, <1>18, <1>19, RowLen
<1>21. r[1] = 14 /\ r[2] = q.code
  BY <1>14, <1>16, <1>18
<1>22. After(r, 2) = out
  <2> DEFINE y == After(r, 2)
  <2>1. PICK m \in Nat : m = 2
    OBVIOUS
  <2>2. Part(y, r, m, k + n)
    BY <1>16, <1>20, <2>1 DEF Part, After
  <2> HIDE DEF y
  <2>3. Row(y, j + n) /\ \A i \in 1..j + n : y[i] = r[m + i]
    <3>1. PICK e \in Nat : e = k + n
      OBVIOUS
    <3>2. e \in Int /\ 0 <= m /\ m <= e /\ e <= e /\ e - m = j + n
      BY <1>16, <2>1, <3>1
    <3>3. Row(r, e) /\ Part(y, r, m, e)
      BY <1>18, <2>2, <3>1
    <3>4. Row(y, e - m) /\ \A i \in 1..e - m : y[i] = r[m + i]
      BY <3>2, <3>3, RowPart
    <3> QED
      BY <3>2, <3>4
  <2>4. ASSUME NEW i \in 1..j + n
        PROVE  y[i] = out[i]
    <3>1. CASE i \in 1..j
      <4>1. i = 1 \/ i = 2 \/ i = 3 \/ i = 4
        BY <1>16, <3>1
      <4>2. r[3] = o[1] /\ r[4] = o[2] /\ r[5] = o[3] /\ r[6] = o[4]
        BY <1>14, <1>16, <1>18
      <4>3. y[i] = r[2 + i] /\ out[i] = o[i]
        BY <1>19, <2>1, <2>3, <3>1
      <4> QED
        BY <4>1, <4>2, <4>3
    <3>2. CASE i \notin 1..j
      <4>1. PICK a \in 1..n : i = j + a
        BY <3>2
      <4>2. m + i = k + a
        BY <1>16, <2>1, <4>1
      <4>3. y[i] = b[a] /\ out[i] = v[a]
        BY <1>18, <1>19, <2>3, <4>1, <4>2
      <4> QED
        BY <1>11, <4>3
    <3> QED
      BY <3>1, <3>2
  <2>5. j + n \in Nat
    OBVIOUS
  <2> QED
    BY <1>19, <2>3, <2>4, <2>5, RowEqual DEF y
<1>23. PICK f : Is(f, q, r)
  BY DEF Is
<1>24. f.out = out
  BY <1>22, <1>23, IdentityForm
<1>25. ASSUME Small(u, out)
       PROVE  Taken(q, r)
  <2>1. n <= 254
    BY <1>1, <1>7, <1>9, <1>20, <1>25 DEF Small, DataMax
  <2>2. f.good
    <3>1. Len(r) >= 6
      BY <1>20
    <3> QED
      BY <1>21, <1>23, <3>1, IdentityForm
  <2>3. Len(r) <= DataMax
    BY <1>20, <2>1 DEF DataMax
  <2> QED
    BY <1>23, <2>2, <2>3 DEF Taken, Is
<1>26. Tells(q, u, data, out)
  <2>1. CASE Len(r) <= DataMax
    BY <1>12, <1>23, <1>24, <2>1, TellsAnswer
  <2>2. CASE ~ (Len(r) <= DataMax)
    <3>1. data = <<14, q.code, q.object>>
      <4>1. Is(g, q, <<>>)
        BY DEF Sends, Is
      <4> QED
        BY <4>1, IdentityForm
    <3>2. PICK e : Is(e, q, data)
      BY DEF Is
    <3>3. ~ (Len(data) >= 6)
      BY <3>1
    <3>4. ~ e.good
      BY <3>2, <3>3, IdentityForm
    <3>5. ~ Function(q, data).good
      BY <3>2, <3>4 DEF Is
    <3> QED
      BY <1>12, <2>2, <3>5 DEF Tells
  <2> QED
    BY <2>1, <2>2
<1> QED
  BY <1>4, <1>5, <1>7, <1>9, <1>12, <1>25, <1>26 DEF Informs

-----------------------------------------------------------------------------
(***************************************************************************)
(* What comes of the call of a device.                                     *)
(***************************************************************************)

(* A call has a unit,                                                      *)
LEMMA CallUnit ==
  ASSUME NEW q \in Calls \ FileCalls
  PROVE  q.unit \in Int
<1>1. q.unit \in Octet
  BY DEF Calls, BitCalls, RegisterCalls, CoilCalls, ValueCalls, PlainCalls, QueryCalls,
         ResetCalls, DelimiterCalls, DiagnosticCalls, PackedCalls, BoolCalls, WriteCalls,
         MaskCalls, ReadWriteCalls, QueueCalls, IdentityCalls
<1> QED
  BY <1>1 DEF Octet

(* and is not one to write files, which are left out.                      *)
LEMMA CallName ==
  ASSUME NEW q \in Calls \ FileCalls
  PROVE  q.name # "writeFileRecord"
  BY DEF Calls, BitCalls, RegisterCalls, CoilCalls, ValueCalls, PlainCalls, QueryCalls,
         ResetCalls, DelimiterCalls, DiagnosticCalls, PackedCalls, BoolCalls, WriteCalls,
         MaskCalls, ReadWriteCalls, QueueCalls, IdentityCalls

(* Function numbers leave the highest bit to exceptions.                   *)
LEMMA CallNumber ==
  ASSUME NEW q \in Calls \ FileCalls, NEW f, Sends(f, q)
  PROVE  f.func \in 1..127
<1>1. Is(f, q, <<>>)
  BY DEF Is, Sends
<1>2. q \in BitCalls => f.func \in {1, 2}
  BY <1>1, BitForm
<1>3. q \in RegisterCalls => f.func \in {3, 4}
  BY <1>1, RegisterForm
<1>4. q \in CoilCalls => f.func \in {5}
  BY <1>1, CoilForm
<1>5. q \in ValueCalls => f.func \in {6}
  BY <1>1, ValueForm
<1>6. q \in QueryCalls => f.func \in {8}
  BY <1>1, QueryForm
<1>7. q \in ResetCalls \union DelimiterCalls \union DiagnosticCalls => f.func \in {8}
  BY <1>1, DiagnosticForm
<1>8. q \in PackedCalls => f.func \in {15}
  BY <1>1, PackedForm
<1>9. q \in BoolCalls => f.func \in {15}
  BY <1>1, BoolForm
<1>10. q \in WriteCalls => f.func \in {16}
  BY <1>1, WriteForm
<1>11. q \in MaskCalls => f.func \in {22}
  BY <1>1, MaskForm
<1>12. q \in ReadWriteCalls => f.func \in {23}
  BY <1>1, ReadWriteForm
<1>13. q \in QueueCalls => f.func \in {24}
  BY <1>1, QueueForm
<1>14. q \in IdentityCalls => f.func \in {43}
  BY <1>1, IdentityForm
<1>15. q \in PlainCalls => f.func \in {7, 11, 12, 17}
  BY <1>1, StatusForm, CounterForm, LogForm, ServerForm DEF PlainCalls
<1>16. f.func \in {1, 2, 3, 4, 5, 6, 7, 8, 11, 12, 15, 16, 17, 22, 23, 24, 43}
  BY <1>2, <1>3, <1>4, <1>5, <1>6, <1>7, <1>8,
     <1>9, <1>10, <1>11, <1>12, <1>13, <1>14, <1>15 DEF Calls
<1> QED
  BY <1>16

(* The client takes the answer to any request of a function on memory.     *)
LEMMA MemoryAnswers ==
  ASSUME NEW q \in Calls \ FileCalls, NEW s, Server(s), Kept(q, s),
         s.func \in MemoryFunctions, NEW data
  PROVE  Taken(q, processOutputData(s, data))
<1>1. s.func \notin {8, 11, 12, 17, 24, 43}
  BY DEF MemoryFunctions
<1>2. CASE q \in PlainCalls
  <2>1. q.name = "readExceptionStatus"
    BY <1>1, <1>2 DEF PlainCalls, Kept
  <2> QED
    BY <2>1, StatusAnswers
<1>3. q \notin QueryCalls
  BY <1>1 DEF QueryCalls, Kept
<1>4. q \notin ResetCalls \union DelimiterCalls \union DiagnosticCalls
  BY <1>1 DEF ResetCalls, DelimiterCalls, DiagnosticCalls, Kept, Resets
<1>5. q \notin QueueCalls /\ q \notin IdentityCalls
  BY <1>1 DEF QueueCalls, IdentityCalls, Kept
<1> QED
  BY <1>2, <1>3, <1>4, <1>5, BitAnswers, RegisterAnswers, CoilAnswers, ValueAnswers,
     MultipleAnswers, MaskAnswers
     DEF Calls

(* What a device tells arrives, whatever it is asked for.                  *)
LEMMA OtherInforms ==
  ASSUME NEW q \in Calls \ FileCalls, q.name \notin Resets, NEW s, Server(s), Kept(q, s),
         s.func \notin MemoryFunctions, NEW t \in Told,
         NEW g, Sends(g, q), NEW data, data = g.data
  PROVE  Informs(q, s, t, data)
<1>1. s.func \notin {1, 2, 3, 4, 5, 6, 7, 15, 16, 22, 23}
  BY DEF MemoryFunctions
<1>2. CASE q \in PlainCalls
  <2>1. q.name \in {"getCommEventCounter", "getCommEventLog", "reportServerID"}
    BY <1>1, <1>2 DEF PlainCalls, Kept
  <2> QED
    BY <2>1, CounterInforms, LogInforms, ServerInforms
<1>3. q \notin ResetCalls \union DelimiterCalls \union DiagnosticCalls
  BY DEF ResetCalls, DelimiterCalls, DiagnosticCalls, Resets
<1>4. q \notin BitCalls /\ q \notin RegisterCalls /\ q \notin ReadWriteCalls
  BY <1>1 DEF BitCalls, RegisterCalls, ReadWriteCalls, Kept
<1>5. q \notin CoilCalls /\ q \notin ValueCalls /\ q \notin MaskCalls
  BY <1>1 DEF CoilCalls, ValueCalls, MaskCalls, Kept
<1>6. q \notin PackedCalls /\ q \notin BoolCalls /\ q \notin WriteCalls
  BY <1>1 DEF PackedCalls, BoolCalls, WriteCalls, Kept
<1> QED
  BY <1>2, <1>3, <1>4, <1>5, <1>6, QueryInforms, QueueInforms, IdentityInforms DEF Calls

(* Telling leaves the server engine with the request it has, whatever the  *)
(* request.                                                                *)
LEMMA DiagnosticInform ==
  ASSUME NEW s, Server(s), s.func = 8, NEW t
  PROVE  Server(Inform(s, t)) /\ Inform(s, t).unit = s.unit /\ Inform(s, t).func = s.func
<1> DEFINE x == WithLow(s.orMask, Low(s.count))
           u == [s EXCEPT !.orMask = x]
           p == Put(s, 0, Native(t.words[1]))
<1>1. \/ Inform(s, t) = u
      \/ Inform(s, t) = s
      \/ Inform(s, t) = p
  BY DEF Inform
<1>2. x \in Int
  BY DEF Server, WithLow, Low, High
<1>3. Server(u) /\ u.unit = s.unit /\ u.func = s.func
  BY <1>2 DEF Server
<1>4. Server(p) /\ p = [s EXCEPT !.valueBuff = p.valueBuff]
  BY PutServer
<1>5. p.unit = s.unit /\ p.func = s.func
  BY <1>4 DEF Server
<1> HIDE DEF u, p
<1> QED
  BY <1>1, <1>3, <1>4, <1>5

(* The diagnostics have one function number.                               *)
LEMMA ResetNumber ==
  ASSUME NEW q, q.name \in Resets, NEW s, Kept(q, s)
  PROVE  s.func = 8
  BY DEF Kept

(* A function on memory never says that there is no such device to the     *)
(* unit of the device.                                                     *)
Fine(r) ==
  /\ r = [status |-> r.status, mem |-> r.mem, out |-> r.out]
  /\ r.status \in {"Good", "BadIllegalDataAddress"}

(* Reading and writing end well or with an illegal address.                *)
LEMMA MemoryFine ==
  ASSUME NEW m, NEW b, NEW a, NEW c, NEW v
  PROVE  /\ Fine(readBits(m, b, a, c))
         /\ Fine(readRegs(m, b, a, c))
         /\ Fine(writeBits(m, b, a, c, v))
         /\ Fine(writeRegs(m, b, a, c, v)) /\ writeRegs(m, b, a, c, v).out = <<>>
<1> USE DEF Done, Failed, Good, IllegalDataAddress
<1>1. Fine(readBits(m, b, a, c))
  BY DEF readBits, Fine
<1>2. Fine(readRegs(m, b, a, c))
  BY DEF readRegs, Fine
<1>3. Fine(writeBits(m, b, a, c, v))
  BY DEF writeBits, Fine
<1>4. Fine(writeRegs(m, b, a, c, v)) /\ writeRegs(m, b, a, c, v).out = <<>>
  BY DEF writeRegs, Fine
<1> QED
  BY <1>1, <1>2, <1>3, <1>4

(* So do the operations that do both.                                      *)
LEMMA StatusFine ==
  ASSUME NEW m, NEW b, NEW a, NEW c, NEW v, NEW x, NEW y
  PROVE  /\ Fine(readStatus(m, b))
         /\ Fine(device_readExceptionStatus(m))
         /\ Fine(maskRegister(m, b, a, c, v))
         /\ Fine(readWriteRegs(m, b, a, c, x, y, v))
<1>1. Fine(readStatus(m, b))
  <2>1. Fine(readRegs(m, b, 0, 1))
    BY MemoryFine
  <2> QED
    BY <2>1 DEF readStatus, Fine
<1>2. Fine(device_readExceptionStatus(m))
  BY DEF device_readExceptionStatus, Done, Good, Fine
<1>3. Fine(maskRegister(m, b, a, c, v))
  <2> DEFINE r == readRegs(m, b, a, 1)
             x0 == maskRegister(m, b, a, c, v)
  <2>1. Fine(r) /\ \A w : Fine(writeRegs(m, b, a, 1, w))
    BY MemoryFine
  <2>2. CASE r.status # Good
    <3>1. x0 = r
      BY <2>2 DEF maskRegister
    <3> QED
      BY <2>1, <3>1
  <2>3. CASE r.status = Good
    <3>1. \E w : x0 = writeRegs(m, b, a, 1, w)
      BY <2>3 DEF maskRegister
    <3> QED
      BY <2>1, <3>1
  <2> QED
    BY <2>2, <2>3
<1>4. Fine(readWriteRegs(m, b, a, c, x, y, v))
  <2> DEFINE w == writeRegs(m, b, x, y, v)
  <2>1. Fine(w) /\ \A n : Fine(readRegs(n, b, a, c))
    BY MemoryFine
  <2> HIDE DEF w
  <2> QED
    BY <2>1, Zenon DEF readWriteRegs, w
<1> QED
  BY <1>1, <1>2, <1>3, <1>4

(* So it is for every request of the functions on memory, and function 6   *)
(* gives nothing out.                                                      *)
LEMMA OperationFine ==
  ASSUME NEW s, s.func \in MemoryFunctions, NEW k, NEW b
  PROVE  /\ Fine(MemoryOperation(s, k, b))
         /\ s.func = 6 => MemoryOperation(s, k, b).out = <<>>
<1> DEFINE r == MemoryOperation(s, k, b)
<1>1. CASE s.func = 1
  BY <1>1, MemoryFine DEF MemoryOperation
<1>2. CASE s.func = 2
  BY <1>2, MemoryFine DEF MemoryOperation
<1>3. CASE s.func = 3
  BY <1>3, MemoryFine DEF MemoryOperation
<1>4. CASE s.func = 4
  BY <1>4, MemoryFine DEF MemoryOperation
<1>5. CASE s.func = 5
  BY <1>5, MemoryFine DEF MemoryOperation
<1>6. CASE s.func = 6
  BY <1>6, MemoryFine DEF MemoryOperation
<1>7. CASE s.func = 7
  BY <1>7, StatusFine DEF MemoryOperation
<1>8. CASE s.func = 15
  BY <1>8, MemoryFine DEF MemoryOperation
<1>9. CASE s.func = 16
  BY <1>9, MemoryFine DEF MemoryOperation
<1>10. CASE s.func = 22
  BY <1>10, StatusFine DEF MemoryOperation
<1>11. CASE s.func = 23
  BY <1>11, StatusFine DEF MemoryOperation
<1> QED
  BY <1>1, <1>2, <1>3, <1>4, <1>5, <1>6, <1>7, <1>8, <1>9, <1>10, <1>11 DEF MemoryFunctions

(* And so it is when the memory is put back among the memories.            *)
LEMMA MemoryStatus ==
  ASSUME NEW s, s.func \in MemoryFunctions, s.unit = DeviceUnit, NEW m
  PROVE  /\ MemoryCall(s, m).status \in {"Good", "BadIllegalDataAddress"}
         /\ s.func = 6 => MemoryCall(s, m).out = <<>>
<1> DEFINE t == device.table[s.func]
           r == MemoryOperation(s, m[t], device.bits[t])
           x == [m EXCEPT ![t] = r.mem]
<1>1. Fine(r) /\ (s.func = 6 => r.out = <<>>)
  BY OperationFine
<1>2. MemoryCall(s, m) = [r EXCEPT !.mem = x]
  BY DEF MemoryCall
<1> HIDE DEF r, x
<1>3. MemoryCall(s, m) = [status |-> r.status, mem |-> x, out |-> r.out]
  BY <1>1, <1>2 DEF Fine
<1> QED
  BY <1>1, <1>3 DEF Fine

(* What a device puts into valueBuff leaves what the server engine keeps   *)
(* of the request as it is (function 6 keeps its value there, and its      *)
(* device puts nothing).                                                   *)
LEMMA PutKept ==
  ASSUME NEW q, NEW s, Server(s), Kept(q, s), NEW out, s.func = 6 => out = <<>>,
         NEW u, u = Put(s, 0, out)
  PROVE  Server(u) /\ u.unit = s.unit /\ u.func = s.func /\ Kept(q, u)
<1>1. /\ Server(u)
      /\ u = [s EXCEPT !.valueBuff = u.valueBuff]
      /\ \A i \in 1..ValueBuffSz :
           u.valueBuff[i] = IF i - 0 \in DOMAIN out THEN out[i - 0] ELSE s.valueBuff[i]
  BY PutServer
<1>2. /\ u.unit = s.unit /\ u.func = s.func /\ u.offset = s.offset /\ u.count = s.count
      /\ u.andMask = s.andMask /\ u.orMask = s.orMask
  BY <1>1 DEF Server
<1>3. s.func = 6 => u.valueBuff[1] = s.valueBuff[1] /\ u.valueBuff[2] = s.valueBuff[2]
  <2>1. DOMAIN <<>> = {}
    OBVIOUS
  <2>2. 1 \in 1..ValueBuffSz /\ 2 \in 1..ValueBuffSz
    BY DEF ValueBuffSz
  <2> QED
    BY <1>1, <2>1, <2>2
<1>4. Kept(q, u)
  BY <1>2, <1>3 DEF Kept
<1> QED
  BY <1>1, <1>2, <1>4

(* The answer to q that the server engine makes of its fields s and the    *)
(* data of the request is taken by the client, if what the device gave out *)
(* is small enough; and it hands out what the device told.                 *)
Delivers(q, s, data, out) ==
  /\ Small(s, out) => Taken(q, processOutputData(s, data))
  /\ s.func \notin MemoryFunctions => Tells(q, s, data, out)

Comes(q, s, d, data) ==
  /\ Server(d.srv)
  /\ d.srv.unit = s.unit
  /\ d.srv.func = s.func
  /\ s.unit = DeviceUnit => d.r.status # GatewayPathUnavailable
  /\ s.unit = DeviceUnit /\ d.r.status = Good /\ q.name \notin Resets =>
       Delivers(q, d.srv, data, d.r.out)

(* A function on memory.                                                   *)
LEMMA MemoryComes ==
  ASSUME NEW q \in Calls \ FileCalls, NEW s, Server(s), Kept(q, s),
         s.func \in MemoryFunctions, NEW m, NEW data,
         NEW d, d = [r |-> MemoryCall(s, m), srv |-> Put(s, 0, MemoryCall(s, m).out)]
  PROVE  Comes(q, s, d, data)
<1> DEFINE r == MemoryCall(s, m)
           u == Put(s, 0, r.out)
<1>1. d.r = r /\ d.srv = u
  OBVIOUS
<1>2. s.unit = DeviceUnit => r.status \in {"Good", "BadIllegalDataAddress"}
  BY MemoryStatus
<1>3. s.func = 6 => r.out = <<>>
  <2>1. CASE s.unit = DeviceUnit
    BY <2>1, MemoryStatus
  <2>2. CASE s.unit # DeviceUnit
    BY <2>2 DEF MemoryCall, Failed
  <2> QED
    BY <2>1, <2>2
<1> HIDE DEF r
<1>4. Server(u) /\ u.unit = s.unit /\ u.func = s.func /\ Kept(q, u)
  BY <1>3, PutKept
<1> HIDE DEF u
<1>5. Taken(q, processOutputData(u, data))
  BY <1>4, MemoryAnswers
<1>6. Delivers(q, u, data, r.out)
  BY <1>4, <1>5 DEF Delivers
<1>7. s.unit = DeviceUnit => r.status # GatewayPathUnavailable
  BY <1>2 DEF GatewayPathUnavailable
<1> QED
  BY <1>1, <1>4, <1>6, <1>7 DEF Comes

(* A function that the device refuses, or in which it fails.               *)
LEMMA FailureComes ==
  ASSUME NEW q, NEW s, Server(s), NEW m, NEW data, NEW x,
         s.unit = DeviceUnit => x # GatewayPathUnavailable, x # Good,
         NEW d, d = [r |-> Failed(m, x), srv |-> s]
  PROVE  Comes(q, s, d, data)
<1>1. d.srv = s /\ d.r.status = x
  BY DEF Failed
<1> QED
  BY <1>1 DEF Comes

(* A function in which the device tells something of itself.               *)
LEMMA TellingComes ==
  ASSUME NEW q \in Calls \ FileCalls, NEW s, Server(s), Kept(q, s),
         s.func \notin MemoryFunctions, NEW g, Sends(g, q), NEW data, data = g.data,
         NEW m, NEW t \in Told,
         NEW d, d = [r |-> Done(m, Information(s, t)), srv |-> Inform(s, t)]
  PROVE  Comes(q, s, d, data)
<1> DEFINE u == Inform(s, t)
           out == Information(s, t)
<1>1. d.srv = u /\ d.r.status = "Good" /\ d.r.out = out
  BY DEF Done, Good
<1>2. "Good" # GatewayPathUnavailable
  BY DEF GatewayPathUnavailable
<1>3. CASE q.name \in Resets
  <2>1. s.func = 8
    BY <1>3, ResetNumber
  <2>2. Server(u) /\ u.unit = s.unit /\ u.func = s.func
    BY <2>1, DiagnosticInform
  <2> HIDE DEF u, out
  <2> QED
    BY <1>1, <1>2, <1>3, <2>2 DEF Comes
<1>4. CASE q.name \notin Resets
  <2>1. Informs(q, s, t, data)
    BY <1>4, OtherInforms
  <2>2. /\ Server(u) /\ u.unit = s.unit /\ u.func = s.func
        /\ Small(u, out) => Taken(q, processOutputData(u, data))
        /\ Tells(q, u, data, out)
    BY <2>1 DEF Informs
  <2> HIDE DEF u, out
  <2>3. Delivers(q, u, data, out)
    BY <2>2 DEF Delivers
  <2> QED
    BY <1>1, <1>2, <2>2, <2>3 DEF Comes
<1> QED
  BY <1>3, <1>4

(* Whatever comes of the call of a device.                                 *)
LEMMA Operates ==
  ASSUME device \in Devices,
         NEW q \in Calls \ FileCalls, NEW s, Server(s), Kept(q, s),
         NEW g, Sends(g, q), NEW data, data = g.data,
         NEW m, NEW d \in processDevice(s, m)
  PROVE  Comes(q, s, d, data)
<1>1. functions(device) \subseteq MemoryFunctions
  BY DEF functions
<1>2. IllegalFunction # Good /\ IllegalFunction # GatewayPathUnavailable
  BY DEF IllegalFunction, Good, GatewayPathUnavailable
<1>3. "BadDeviceFault" # Good /\ "BadDeviceFault" # GatewayPathUnavailable
  BY DEF Good, GatewayPathUnavailable
<1>4. GatewayPathUnavailable # Good
  BY DEF Good, GatewayPathUnavailable
<1>5. CASE s.func \in functions(device)
  <2>1. d = [r |-> MemoryCall(s, m), srv |-> Put(s, 0, MemoryCall(s, m).out)]
    BY <1>5 DEF processDevice, cModbusInterfaceImpl, Telling
  <2>2. s.func \in MemoryFunctions
    BY <1>1, <1>5
  <2> QED
    BY <2>1, <2>2, MemoryComes
<1>6. CASE s.func \notin functions(device) /\ device.kind = "mbserver"
  <2>1. d = [r |-> Failed(m, IllegalFunction), srv |-> s]
    BY <1>6 DEF processDevice, cModbusInterfaceImpl, ModbusInterface
  <2> QED
    BY <1>2, <2>1, FailureComes
<1>7. CASE s.func \notin functions(device) /\ device.kind # "mbserver"
  <2>1. s.func \notin MemoryFunctions
    BY <1>7, DevicesAssumption
  <2>2. CASE s.unit # DeviceUnit
    <3>1. d = [r |-> Failed(m, GatewayPathUnavailable), srv |-> s]
      BY <1>7, <2>2 DEF processDevice, Telling
    <3> QED
      BY <1>4, <2>2, <3>1, FailureComes
  <2>3. CASE s.unit = DeviceUnit
    <3>1. \/ d = [r |-> Failed(m, IllegalFunction), srv |-> s]
          \/ d = [r |-> Failed(m, "BadDeviceFault"), srv |-> s]
          \/ \E t \in Told : d = [r |-> Done(m, Information(s, t)), srv |-> Inform(s, t)]
      BY <1>7, <2>3 DEF processDevice, Telling, ModbusInterface
    <3>2. CASE d = [r |-> Failed(m, IllegalFunction), srv |-> s]
      BY <1>2, <3>2, FailureComes
    <3>3. CASE d = [r |-> Failed(m, "BadDeviceFault"), srv |-> s]
      BY <1>3, <3>3, FailureComes
    <3>4. CASE \E t \in Told : d = [r |-> Done(m, Information(s, t)), srv |-> Inform(s, t)]
      <4>1. PICK t \in Told : d = [r |-> Done(m, Information(s, t)), srv |-> Inform(s, t)]
        BY <3>4
      <4> QED
        BY <2>1, <4>1, TellingComes
    <3> QED
      BY <3>1, <3>2, <3>3, <3>4
  <2> QED
    BY <2>2, <2>3
<1> QED
  BY <1>5, <1>6, <1>7

-----------------------------------------------------------------------------
(***************************************************************************)
(* The exchange.  Requests about files are left out: what the server       *)
(* understands of them is computed record by record.                       *)
(***************************************************************************)
NoFiles == \A i \in 1..Len(Rounds) : Rounds[i] \intersect FileCalls = {}

(* The answers to the subfunctions of diagnostics other than the first do  *)
(* not begin with the subfunction (DiagnosticsOutput), so the client does  *)
(* not take them.                                                          *)
NoResets == \A i \in 1..Len(Rounds) : \A q \in Rounds[i] : q.name \notin Resets

(* The request under way, and what a client function made of it.           *)
Asking ==
  /\ asked \in Calls \ FileCalls
  /\ \E f : /\ Sends(f, asked)
            /\ f.func \in 1..127
            /\ wire = [unit |-> asked.unit, func |-> f.func, data |-> f.data]

(* The server engine has understood the request, and keeps what the answer *)
(* needs of it.                                                            *)
Serving ==
  /\ status = Good
  /\ Kept(asked, srv)
  /\ srv.unit = asked.unit
  /\ srv.func = wire.func

(* The device was called, and the answer would deliver what it gave out.   *)
Operating ==
  /\ srv.unit = asked.unit
  /\ given.called
  /\ given.status = status
  /\ asked.unit = DeviceUnit => status # GatewayPathUnavailable
  /\ asked.unit = DeviceUnit /\ status = Good /\ asked.name \notin Resets =>
       Delivers(asked, srv, wire.data, given.out)

(* The answer is on its way.                                               *)
Answering ==
  asked.unit = DeviceUnit /\ asked.name \notin Resets =>
    IF given.status = Good
    THEN /\ ~ (wire.func >= 128)
         /\ Small(srv, given.out) => Function(asked, wire.data).good
         /\ srv.func \notin MemoryFunctions /\ Function(asked, wire.data).good =>
              Function(asked, wire.data).out = given.out
    ELSE wire.func >= 128 /\ wire.data[1] = Code(given.status)

Stages == {"idle", "sent", "served", "operated", "answered"}
Known == asked = Nobody \/ \E i \in 1..Len(Rounds) : asked \in Rounds[i]

IInv ==
  /\ device \in Devices
  /\ turn \in Nat
  /\ stage \in Stages
  /\ Server(srv)
  /\ Known
  /\ stage \in {"sent", "served", "operated"} => Asking
  /\ stage = "served" => Serving
  /\ stage = "operated" => Operating
  /\ stage = "answered" => Answering
  /\ asked.name \notin Resets => OutcomeArrives /\ InformationArrives

(* No call is one of nobody.                                               *)
LEMMA RoundCalls ==
  ASSUME NoFiles, NEW i \in 1..Len(Rounds), NEW q \in Rounds[i]
  PROVE  q \in Calls \ FileCalls
<1>1. Rounds[i] \subseteq Calls
  BY RoundsAssumption
<1>2. Rounds[i] \intersect FileCalls = {}
  BY DEF NoFiles
<1> QED
  BY <1>1, <1>2

(* An exception tells its status: those that have a code of their own come *)
(* as they are.                                                            *)
LEMMA CodeExact ==
  ASSUME NEW x
  PROVE  Code(x) \in 1..4 /\ Exceptions[Code(x)] # Good
<1>1. ASSUME x \in ToSet(Exceptions)
      PROVE  \E c \in 1..4 : Exceptions[c] = x
  BY <1>1 DEF ToSet, Exceptions
<1>2. Code(x) \in 1..4
  <2>1. CASE x \in ToSet(Exceptions)
    <3>1. Code(x) = CHOOSE c \in 1..4 : Exceptions[c] = x
      BY <2>1 DEF Code
    <3> HIDE DEF Exceptions
    <3> QED
      BY <1>1, <2>1, <3>1
  <2>2. CASE x \notin ToSet(Exceptions)
    BY <2>2 DEF Code
  <2> QED
    BY <2>1, <2>2
<1> QED
  BY <1>2 DEF Exceptions, Good

(* It holds at first, whatever the fields of the engine hold.              *)
LEMMA InitIInv ==
  ASSUME Init
  PROVE  IInv
<1>1. Server(srv)
  <2>1. /\ srv \in Fields(srv.valueBuff)
        /\ srv.valueBuff = [i \in 1..ValueBuffSz |-> srv.valueBuff[i]]
    BY GarbageAssumption DEF Init
  <2>2. ValueBuffSz \in Nat
    BY DEF ValueBuffSz
  <2> QED
    BY <2>1, <2>2 DEF Server, Row, Fields
<1>2. OutcomeArrives /\ InformationArrives
  BY DEF Init, Nothing, OutcomeArrives, InformationArrives
<1> QED
  BY <1>1, <1>2 DEF Init, IInv, Known, Stages

(* A request is asked (or refused by the client function).                 *)
LEMMA AskIInv ==
  ASSUME NoFiles, IInv, Ask
  PROVE  IInv'
<1>1. PICK q \in Rounds[turn + 1] :
        /\ asked' = q
        /\ \/ ~ Function(q, <<>>).valid /\ stage' = "idle"
           \/ Function(q, <<>>).valid /\ stage' = "idle"
           \/ /\ Function(q, <<>>).valid
              /\ stage' = "sent"
              /\ wire' = [unit |-> q.unit, func |-> Function(q, <<>>).func,
                          data |-> Function(q, <<>>).data]
  BY DEF Ask, Return
<1>2. /\ given' = Nothing /\ device' = device /\ srv' = srv /\ turn' = turn + 1
      /\ turn < Len(Rounds)
  BY DEF Ask
<1>3. turn + 1 \in 1..Len(Rounds) /\ turn + 1 \in Nat
  <2>1. Len(Rounds) \in Nat
    BY RoundsAssumption
  <2> QED
    BY <1>2, <2>1 DEF IInv
<1>4. q \in Calls \ FileCalls
  BY <1>3, RoundCalls
<1>5. PICK f : f = Function(q, <<>>)
  OBVIOUS
<1>6. ASSUME stage' # "idle"
      PROVE  Asking'
  <2>1. Sends(f, q) /\ wire' = [unit |-> q.unit, func |-> f.func, data |-> f.data]
    BY <1>1, <1>5, <1>6 DEF Sends
  <2>2. f.func \in 1..127
    BY <1>4, <2>1, CallNumber
  <2> QED
    BY <1>1, <1>4, <2>1, <2>2 DEF Asking
<1>7. OutcomeArrives' /\ InformationArrives'
  BY <1>2 DEF Nothing, OutcomeArrives, InformationArrives
<1>8. Server(srv)' /\ Known' /\ (device \in Devices)' /\ (turn \in Nat)'
  BY <1>1, <1>2, <1>3 DEF IInv, Known
<1>9. stage' \in {"idle", "sent"}
  BY <1>1
<1> QED
  BY <1>6, <1>7, <1>8, <1>9 DEF IInv, Stages

(* The server engine takes it apart, and understands it.                   *)
LEMMA ServeIInv ==
  ASSUME IInv, Serve
  PROVE  IInv'
<1> DEFINE s == [srv EXCEPT !.unit = wire.unit, !.func = wire.func]
           in == processInputData(s, wire.data)
<1>1. Asking /\ Server(srv)
  BY DEF Serve, IInv
<1>2. PICK f : /\ Sends(f, asked) /\ f.func \in 1..127
               /\ wire = [unit |-> asked.unit, func |-> f.func, data |-> f.data]
  BY <1>1 DEF Asking
<1>3. asked \in Calls \ FileCalls /\ asked.unit \in Int
  BY <1>1, CallUnit DEF Asking
<1>4. Server(s) /\ s.unit = asked.unit /\ s.func = f.func /\ wire.data = f.data
  <2>1. wire.unit = asked.unit /\ wire.func = f.func /\ wire.data = f.data
    BY <1>2
  <2>2. f.func \in Int
    BY <1>2
  <2>3. s = [srv EXCEPT !.unit = asked.unit, !.func = f.func]
    BY <2>1
  <2> HIDE DEF s
  <2> QED
    BY <1>1, <1>3, <2>1, <2>2, <2>3 DEF Server
<1>a. wire.func = f.func
  BY <1>2
<1>5. srv' = in.srv /\ status' = in.status /\ stage' = "served"
  BY DEF Serve
<1>6. device' = device /\ turn' = turn /\ asked' = asked /\ wire' = wire
  BY DEF Serve
<1> HIDE DEF s
<1>7. Heard(in, s) /\ Kept(asked, in.srv)
  BY <1>2, <1>3, <1>4, CallReaches DEF Reaches
<1> HIDE DEF in
<1>8. Serving'
  BY <1>4, <1>5, <1>6, <1>7, <1>a DEF Serving, Heard, Good
<1>9. Server(srv)'
  BY <1>5, <1>7 DEF Heard
<1>10. Asking'
  BY <1>1, <1>6 DEF Asking
<1>11. OutcomeArrives' /\ InformationArrives'
  BY <1>5 DEF OutcomeArrives, InformationArrives
<1>12. Known' /\ (device \in Devices)' /\ (turn \in Nat)'
  BY <1>6 DEF IInv, Known
<1> QED
  BY <1>5, <1>8, <1>9, <1>10, <1>11, <1>12 DEF IInv, Stages

(* The device is called.                                                   *)
LEMMA OperateIInv ==
  ASSUME IInv, Operate
  PROVE  IInv'
<1>1. Asking /\ Serving /\ Server(srv) /\ device \in Devices
  BY DEF Operate, IInv
<1>2. PICK f : Sends(f, asked) /\ wire.data = f.data
  BY <1>1 DEF Asking
<1>3. asked \in Calls \ FileCalls /\ Kept(asked, srv) /\ srv.unit = asked.unit
  BY <1>1 DEF Asking, Serving
<1>4. PICK d \in processDevice(srv, mem) :
        /\ srv' = d.srv
        /\ status' = d.r.status
        /\ given' = [called |-> TRUE, status |-> d.r.status, out |-> d.r.out]
  BY DEF Operate
<1>5. stage' = "operated" /\ device' = device /\ turn' = turn /\ asked' = asked /\ wire' = wire
  BY DEF Operate
<1>6. Comes(asked, srv, d, wire.data)
  BY <1>1, <1>2, <1>3, Operates
<1>7. Server(srv')
  BY <1>4, <1>6 DEF Comes
<1>8. given'.called /\ given'.status = status' /\ given'.out = d.r.out
  BY <1>4
<1>9. Operating'
  BY <1>3, <1>4, <1>5, <1>6, <1>8 DEF Operating, Comes
<1>10. Asking'
  BY <1>1, <1>5 DEF Asking
<1>11. OutcomeArrives' /\ InformationArrives'
  BY <1>5 DEF OutcomeArrives, InformationArrives
<1>12. Known' /\ (device \in Devices)' /\ (turn \in Nat)'
  BY <1>5 DEF IInv, Known
<1> QED
  BY <1>5, <1>7, <1>9, <1>10, <1>11, <1>12 DEF IInv, Stages

(* The answer is made. A request that was served is not answered before    *)
(* the device is called.                                                   *)
LEMMA ReplyIInv ==
  ASSUME IInv, Reply
  PROVE  IInv'
<1> DEFINE out == IF status = Good THEN processOutputData(srv, wire.data) ELSE <<Code(status)>>
<1>1. stage = "operated"
  BY DEF Reply, IInv, Serving
<1>2. Asking /\ Operating
  BY <1>1 DEF IInv
<1>3. /\ stage' = "answered" /\ device' = device /\ turn' = turn /\ asked' = asked
      /\ srv' = srv /\ given' = given
  BY DEF Reply
<1>4. wire' = IF Len(out) <= DataMax
              THEN [wire EXCEPT !.func = IF status = Good THEN @ ELSE @ + 128, !.data = out]
              ELSE wire
  BY DEF Reply
<1>5. PICK f : /\ f.func \in 1..127
               /\ wire = [unit |-> asked.unit, func |-> f.func, data |-> f.data]
  BY <1>2 DEF Asking
<1>6. wire.func \in 1..127
  BY <1>5
<1>7. ASSUME asked.unit = DeviceUnit, asked.name \notin Resets, status = Good
      PROVE  /\ ~ (wire'.func >= 128)
             /\ Small(srv, given.out) => Function(asked, wire'.data).good
             /\ srv.func \notin MemoryFunctions /\ Function(asked, wire'.data).good =>
                  Function(asked, wire'.data).out = given.out
  <2> DEFINE r == processOutputData(srv, wire.data)
  <2>1. Delivers(asked, srv, wire.data, given.out)
    BY <1>2, <1>7 DEF Operating
  <2>2. out = r
    BY <1>7
  <2> HIDE DEF out
  <2>3. /\ Small(srv, given.out) => Len(r) <= DataMax /\ Function(asked, r).good
        /\ srv.func \notin MemoryFunctions =>
             IF Len(r) <= DataMax THEN Function(asked, r).out = given.out
             ELSE ~ Function(asked, wire.data).good
    BY <2>1 DEF Delivers, Taken, Tells
  <2> HIDE DEF r
  <2>4. CASE Len(r) <= DataMax
    <3>1. wire' = [wire EXCEPT !.func = @, !.data = r]
      BY <1>4, <1>7, <2>2, <2>4
    <3>2. wire'.func = wire.func /\ wire'.data = r
      BY <1>5, <3>1
    <3>3. ~ (wire'.func >= 128)
      BY <1>6, <3>2
    <3> QED
      BY <2>3, <2>4, <3>2, <3>3
  <2>5. CASE ~ (Len(r) <= DataMax)
    <3>1. wire' = wire
      BY <1>4, <2>2, <2>5
    <3>2. ~ (wire'.func >= 128)
      BY <1>6, <3>1
    <3> QED
      BY <2>3, <2>5, <3>1, <3>2
  <2> QED
    BY <2>4, <2>5
<1>8. ASSUME status # Good
      PROVE  wire'.func >= 128 /\ wire'.data[1] = Code(status)
  <2>1. out = <<Code(status)>>
    BY <1>8
  <2>2. Len(out) <= DataMax
    <3>1. Len(out) = 1
      BY <2>1, RowOne, RowLen
    <3>2. 1 <= DataMax
      BY DEF DataMax
    <3> QED
      BY <3>1, <3>2
  <2> HIDE DEF out
  <2>3. wire' = [wire EXCEPT !.func = @ + 128, !.data = <<Code(status)>>]
    BY <1>4, <1>8, <2>1, <2>2
  <2>4. wire'.func = wire.func + 128 /\ wire'.data = <<Code(status)>>
    BY <1>5, <2>3
  <2> QED
    BY <1>6, <2>4
<1>9. given.status = status
  BY <1>2 DEF Operating
<1> HIDE DEF out
<1>10. Answering'
  BY <1>3, <1>7, <1>8, <1>9 DEF Answering
<1>11. OutcomeArrives' /\ InformationArrives'
  BY <1>3 DEF OutcomeArrives, InformationArrives
<1>12. Known' /\ (device \in Devices)' /\ (turn \in Nat)' /\ Server(srv)'
  BY <1>3 DEF IInv, Known
<1> QED
  BY <1>3, <1>10, <1>11, <1>12 DEF IInv, Stages

(* The client takes the answer.                                            *)
LEMMA TakeIInv ==
  ASSUME NoFiles, IInv, Take
  PROVE  IInv'
<1> DEFINE f == Function(asked, wire.data)
<1>1. Answering
  BY DEF Take, IInv
<1>2. \/ wire.func >= 128 /\ result' = [status |-> Exceptions[wire.data[1]], out |-> <<>>]
      \/ ~ (wire.func >= 128) /\ f.good /\ result' = [status |-> Good, out |-> f.out]
      \/ /\ ~ (wire.func >= 128) /\ ~ f.good
         /\ result' = [status |-> "BadNotCorrectResponse", out |-> <<>>]
  BY DEF Take, Return
<1>3. /\ stage' = "idle" /\ device' = device /\ turn' = turn /\ asked' = asked
      /\ srv' = srv /\ given' = given
  BY DEF Take, Return
<1> HIDE DEF f
<1>4. ASSUME asked.unit = DeviceUnit, asked.name \notin Resets, Small(srv, given.out)
      PROVE  result'.status = IF given.status = Good THEN Good
                              ELSE Exceptions[Code(given.status)]
  <2>1. CASE given.status = Good
    <3>1. ~ (wire.func >= 128) /\ f.good
      BY <1>1, <1>4, <2>1 DEF Answering, f
    <3> QED
      BY <1>2, <2>1, <3>1
  <2>2. CASE given.status # Good
    <3>1. wire.func >= 128 /\ wire.data[1] = Code(given.status)
      BY <1>1, <1>4, <2>2 DEF Answering
    <3> QED
      BY <1>2, <2>2, <3>1
  <2> QED
    BY <2>1, <2>2
<1>5. ASSUME asked.unit = DeviceUnit, asked.name \notin Resets,
             srv.func \notin MemoryFunctions, result'.status = Good
      PROVE  result'.out = given.out
  <2>1. CASE given.status = Good
    <3>1. ~ (wire.func >= 128) /\ (f.good => f.out = given.out)
      BY <1>1, <1>5, <2>1 DEF Answering, f
    <3>2. "BadNotCorrectResponse" # Good
      BY DEF Good
    <3> QED
      BY <1>2, <1>5, <3>1, <3>2
  <2>2. CASE given.status # Good
    <3>1. wire.func >= 128 /\ wire.data[1] = Code(given.status)
      BY <1>1, <1>5, <2>2 DEF Answering
    <3>2. result'.status = Exceptions[Code(given.status)]
      BY <1>2, <3>1
    <3> QED
      BY <1>5, <3>2, CodeExact
  <2> QED
    BY <2>1, <2>2
<1>6. asked.name # "writeFileRecord"
  <2>1. CASE asked = Nobody
    BY <2>1 DEF Nobody
  <2>2. CASE asked # Nobody
    <3>1. asked \in Calls \ FileCalls
      BY <2>2, RoundCalls DEF IInv, Known
    <3> QED
      BY <3>1, CallName
  <2> QED
    BY <2>1, <2>2
<1>7. asked.name \notin Resets => OutcomeArrives'
  <2>1. Tellable' = Small(srv, given.out)
    BY <1>3 DEF Tellable, Small
  <2> QED
    BY <1>3, <1>4, <2>1 DEF OutcomeArrives
<1>8. asked.name \notin Resets => InformationArrives'
  BY <1>3, <1>5, <1>6 DEF InformationArrives
<1>9. Known' /\ (device \in Devices)' /\ (turn \in Nat)' /\ Server(srv)'
  BY <1>3 DEF IInv, Known
<1> QED
  BY <1>3, <1>7, <1>8, <1>9 DEF IInv, Stages

(* Nobody answers: the request was for another unit.                       *)
LEMMA UnansweredIInv ==
  ASSUME IInv, Unanswered
  PROVE  IInv'
<1>1. /\ stage' = "idle" /\ device' = device /\ turn' = turn /\ asked' = asked
      /\ srv' = srv /\ given' = given
  BY DEF Unanswered, Return
<1>2. Silent
  BY DEF Unanswered
<1>3. stage = "operated"
  BY <1>2 DEF Silent, IInv, Serving, Good, NotCorrect
<1>4. Operating /\ (status = GatewayPathUnavailable \/ srv.unit = 0)
  BY <1>2, <1>3 DEF Silent, IInv
<1>5. asked.unit # DeviceUnit
  <2>1. DeviceUnit # 0
    BY UnitAssumption
  <2> QED
    BY <1>4, <2>1 DEF Operating
<1>6. OutcomeArrives' /\ InformationArrives'
  BY <1>1, <1>5 DEF OutcomeArrives, InformationArrives
<1>7. Known' /\ (device \in Devices)' /\ (turn \in Nat)' /\ Server(srv)'
  BY <1>1 DEF IInv, Known
<1> QED
  BY <1>1, <1>6, <1>7 DEF IInv, Stages

(* Every step keeps the invariant.                                         *)
LEMMA NextIInv ==
  ASSUME NoFiles, IInv, [Next]_vars
  PROVE  IInv'
<1>1. CASE Ask
  BY <1>1, AskIInv
<1>2. CASE Serve
  BY <1>2, ServeIInv
<1>3. CASE Operate
  BY <1>3, OperateIInv
<1>4. CASE Reply
  BY <1>4, ReplyIInv
<1>5. CASE Take
  BY <1>5, TakeIInv
<1>6. CASE Unanswered
  BY <1>6, UnansweredIInv
<1>7. CASE UNCHANGED vars
  BY <1>7 DEF vars, IInv, Known, Asking, Serving, Operating, Answering, OutcomeArrives,
              Tellable, InformationArrives
<1> QED
  BY <1>1, <1>2, <1>3, <1>4, <1>5, <1>6, <1>7 DEF Next

(* The inductive invariant, when no request is about files.                *)
THEOREM Exchanges ==
  ASSUME NoFiles
  PROVE  Spec => []IInv
<1>1. Init => IInv
  BY InitIInv
<1>2. IInv /\ [Next]_vars => IInv'
  BY NextIInv
<1> QED
  BY <1>1, <1>2, PTL DEF Spec

(* A server understands every request, not about files, that a client      *)
(* function lets through, whatever the arguments, and whatever the request *)
(* before it has left in the fields of the server engine.                  *)
THEOREM RequestsUnderstood ==
  ASSUME NoFiles
  PROVE  Spec => []Understood
<1>1. IInv => Understood
  BY DEF IInv, Serving, Understood, Good, NotCorrect
<1> QED
  BY <1>1, Exchanges, PTL

(* No request is one of those whose answers the client does not take.      *)
LEMMA NotReset ==
  ASSUME NoResets, Known
  PROVE  asked.name \notin Resets
<1>1. CASE asked = Nobody
  BY <1>1 DEF Nobody, Resets
<1>2. CASE asked # Nobody
  BY <1>2 DEF Known, NoResets
<1> QED
  BY <1>1, <1>2

(* What a device returns is what the client function returns, for all      *)
(* requests but those about files and those for the subfunctions of        *)
(* diagnostics whose answers the client does not take.                     *)
THEOREM OutcomesArrive ==
  ASSUME NoFiles, NoResets
  PROVE  Spec => []OutcomeArrives
<1>1. IInv => OutcomeArrives
  BY NotReset DEF IInv
<1> QED
  BY <1>1, Exchanges, PTL

(* And what a client function hands out as information of the device is    *)
(* what the device told, for the same requests.                            *)
THEOREM InformationComes ==
  ASSUME NoFiles, NoResets
  PROVE  Spec => []InformationArrives
<1>1. IInv => InformationArrives
  BY NotReset DEF IInv
<1> QED
  BY <1>1, Exchanges, PTL
=============================================================================
