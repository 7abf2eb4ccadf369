---------------------- MODULE ModbusTransportProofs ----------------------
(* Theorems about the ports and the transport, for any number of requests, *)
(* attempts, disturbances and changed settings.                            *)
EXTENDS ModbusTransport, SequenceTheorems, WellFoundedInduction, TLAPS

(***************************************************************************)
(* The inductive invariant, first of every port.                           *)
(***************************************************************************)
TypeOK ==
  /\ type \in Types /\ blocking \in BOOLEAN
  /\ tries \in Tries /\ repeats \in Nat /\ repeats < tries
  /\ transaction \in Nat /\ transaction < 65536 /\ autoIncrement \in BOOLEAN
  /\ asked \in 0..Requests
  /\ valid \in BOOLEAN /\ changed \in BOOLEAN /\ error \in BOOLEAN /\ hangup \in BOOLEAN
  /\ blocked \in BOOLEAN

(* The state of a port tells what the port is in the middle of.            *)
PortState ==
  /\ state = "WAIT_FOR_OPEN" =>
       /\ line = "tcp" /\ ~blocking
       /\ engine = "WAIT_FOR_OPEN" /\ valid
  /\ Net /\ state \in {"OPENED", "WAIT_FOR_READ"} => valid

(* A buffer holds the request until an answer may be read into it.         *)
BufferKept ==
  /\ engine = "READ" => blocked
  /\ blocked /\ (Net \/ blocking \/ (tries = 1 /\ engine # "READ")) => buff = Request
  /\ blocked => outcome.data = <<>>

PortInv == TypeOK /\ PortState /\ BufferKept /\ WireCarriesRequest

(***************************************************************************)
(* Then of NET frames.  Answers have identifiers that were used some       *)
(* requests ago, and those with the one in use belong to the last request. *)
(***************************************************************************)
Age(id) == (transaction - id) % 65536

Known ==
  {k \in Nat \X Nat :
     /\ k[1] < 65536 /\ Age(k[1]) < asked
     /\ k[2] \in DOMAIN answered
     /\ Age(k[1]) = 0 => answered[k[2]] = asked}

(* An answer's number is no part of a header: the server counts from 1.    *)
Answers(known) == \A k \in known : k \in Nat \X Nat /\ k[1] < 65536 /\ k[2] # 0

Answer(k) == NetFrame(k[1], Unit, Func, <<k[2]>>)

Whole(bytes, known) == \E k \in known : bytes = Answer(k)

(* What arrives, and what is on its way.                                   *)
Chunks == Seq(Seq(Int))
Carried == [bytes : Seq(Int), n : Int]

(* Datagrams are whole.                                                    *)
Datagrams(arrived, sent, known) ==
  /\ arrived \in Chunks
  /\ sent \in Seq(Carried)
  /\ \A i \in 1..Len(arrived) : Whole(arrived[i], known)
  /\ \A i \in 1..Len(sent) : Whole(sent[i].bytes, known)

(* A stream may begin inside of an answer, p bytes after the beginning of  *)
(* one: the bytes before were read without the rest.                       *)
Phase(p, j) == (p + j - 1) % 9

InPhase(bytes, p, known) ==
  \A j \in 1..Len(bytes) :
    /\ Phase(p, j) \in {2, 3, 4} => bytes[j] = 0
    /\ Phase(p, j) \in {5, 7} => bytes[j] = 3
    /\ Phase(p, j) = 6 => bytes[j] = 1
    /\ Phase(p, j) = 8 => bytes[j] # 0
    /\ Phase(p, j) = 0 /\ j + 8 <= Len(bytes) =>
         <<256 * bytes[j] + bytes[j + 1], bytes[j + 8]>> \in known

First(sent) == IF sent = <<>> THEN <<>> ELSE sent[1].bytes
Stream(arrived, sent) == FlattenSeq(arrived) \o First(sent)

InOrder(arrived, sent, gone, known) ==
  /\ arrived \in Chunks /\ (arrived # <<>> => FlattenSeq(arrived) # <<>>)
  /\ sent \in Seq(Carried) /\ (sent # <<>> => First(sent) # <<>>)
  /\ \E p \in Nat :
       /\ InPhase(Stream(arrived, sent), p, known)
       /\ ~gone => (p + Len(Stream(arrived, sent))) % 9 = 0
  /\ \A i \in 2..Len(sent) : Whole(sent[i].bytes, known)

(* What is lost with a connection.                                         *)
Lost ==
  /\ hangup => wire = <<>>
  /\ error => hangup /\ input = <<>>
  /\ ~valid => input = <<>> /\ wire = <<>>

(* After an attempt that failed only the next one can be answered, and a   *)
(* request that borrows the identifier meets no whole answer to another.   *)
Borrowed ==
  ~autoIncrement =>
    /\ Len(wire) <= 1
    /\ Len(Stream(input, wire)) <= 9
    /\ blocked => engine = "READ" \/ (input = <<>> /\ wire = <<>>)
    /\ ~blocked => Len(Stream(input, wire)) <= 8

StreamInv == InOrder(input, wire, hangup, Known) /\ Lost /\ Borrowed
DatagramInv == Datagrams(input, wire, Known) /\ autoIncrement = TRUE

AnswerInv ==
  /\ answered \in Seq(Int)
  /\ blocked => asked # 0
  /\ line = "tcp" => StreamInv
  /\ line = "udp" /\ tries = 1 => DatagramInv
  /\ OwnAnswer

Inv == PortInv /\ (frame = "NET" => AnswerInv)

-----------------------------------------------------------------------------
(***************************************************************************)
(* Every port: what its operations leave, and that they keep the contract. *)
(***************************************************************************)

(* What a step makes of a port: PortContract's action.                     *)
ContractStep ==
  \E b \in {blocking} :
       CASE call'.op = "open" -> Port(b)!PortOpen(PortResult(call'.result))
         [] call'.op = "close" -> Port(b)!PortClose
         [] call'.op \in {"write", "read"} -> Port(b)!PortTransfer(PortResult(call'.result))
         [] call'.op = "none" -> UNCHANGED <<valid, state>>

(* The flags of a port stay truth values, and a state in which it may be   *)
(* used means that it is open.                                             *)
PortTyped ==
  /\ valid \in BOOLEAN /\ changed \in BOOLEAN /\ error \in BOOLEAN /\ hangup \in BOOLEAN
  /\ Net /\ state \in {"OPENED", "WAIT_FOR_READ"} => valid

(* The contract in the words of a port's own state.                        *)
Opens(r) ==
  /\ r \in {"Good", "Bad", "Processing"}
  /\ blocking => r # "Processing"
  /\ valid /\ state # "WAIT_FOR_OPEN" /\ ~changed => r = "Good"
  /\ changed' => state = "WAIT_FOR_OPEN" /\ changed
  /\ state = "WAIT_FOR_OPEN" /\ changed => changed'
  /\ state' = "WAIT_FOR_OPEN" => r = "Processing"
  /\ r = "Processing" => state' = "WAIT_FOR_OPEN"
  /\ ~valid' => r = "Bad"

Transfers(r) ==
  /\ r \in {"Good", "Bad", "Processing"}
  /\ blocking => r # "Processing"
  /\ ~valid => r = "Bad"
  /\ valid' => valid
  /\ valid /\ ~valid' => r = "Bad"
  /\ state' # "WAIT_FOR_OPEN"
  /\ changed' = changed

(* A state left by open() is one that ModbusPort allows.                   *)
LEMMA OpensContract ==
  ASSUME TypeOK, PortTyped', NEW r, Opens(r), call' = [op |-> "open", result |-> r]
  PROVE  ContractStep
<1>1. /\ call'.op = "open" /\ call'.result = r
      /\ PortResult(r) = "BadPort" <=> r = "Bad"
      /\ PortResult(r) = "Processing" <=> r = "Processing"
      /\ PortResult(r) = "Good" <=> r = "Good"
  BY DEF Opens, PortResult
<1>2. valid' \in {TRUE, PortResult(r) # "BadPort"}
  BY <1>1 DEF Opens, PortTyped
<1>3. (state' = "WAIT_FOR_OPEN") = (PortResult(r) = "Processing")
  BY <1>1 DEF Opens
<1>4. changed' = (state = "WAIT_FOR_OPEN" /\ changed)
  BY DEF Opens, PortTyped, TypeOK
<1>5. valid /\ state # "WAIT_FOR_OPEN" /\ ~changed => PortResult(r) = "Good"
  BY <1>1 DEF Opens
<1>6. blocking => PortResult(r) # "Processing"
  BY <1>1 DEF Opens
<1>7. ASSUME NEW b \in {blocking}
      PROVE  Port(b)!PortOpen(PortResult(r))
  <2>1. b => PortResult(r) # "Processing"
    <3>1. b \in BOOLEAN /\ b = blocking
      BY DEF TypeOK
    <3>2. SUFFICES ASSUME b = TRUE
                   PROVE  PortResult(r) # "Processing"
      BY <3>1
    <3>3. blocking = TRUE
      BY <3>1, <3>2
    <3> QED
      BY <1>6, <3>3
  <2> QED
    BY <1>2, <1>3, <1>4, <1>5, <2>1
       DEF Port!PortOpen, Port!BadPort, Port!Processing, Port!Good
<1> QED
  BY <1>1, <1>7 DEF ContractStep

(* The same of write() and read(), on a port that is not connecting.       *)
LEMMA TransfersContract ==
  ASSUME TypeOK, PortTyped', state # "WAIT_FOR_OPEN",
         NEW r, Transfers(r), NEW op \in {"write", "read"}, call' = [op |-> op, result |-> r]
  PROVE  ContractStep
<1>1. /\ call'.op = op /\ call'.result = r
      /\ PortResult(r) = "BadPort" <=> r = "Bad"
      /\ PortResult(r) = "Processing" <=> r = "Processing"
  BY DEF Transfers, PortResult
<1>2. valid' \in {valid, valid /\ PortResult(r) # "BadPort"}
  BY <1>1 DEF Transfers, PortTyped, TypeOK
<1>3. (state' = "WAIT_FOR_OPEN") = (state = "WAIT_FOR_OPEN")
  BY DEF Transfers
<1>4. ASSUME NEW b \in {blocking}
      PROVE  Port(b)!PortTransfer(PortResult(r))
  BY <1>1, <1>2, <1>3 DEF Transfers, Port!PortTransfer, Port!BadPort, Port!Processing
<1> QED
  BY <1>1, <1>4 DEF ContractStep

(* open() waits only on a TCP port that does not block.                    *)
LEMMA OpenLeaves ==
  ASSUME TypeOK, PortState, open, UNCHANGED settings
  PROVE  /\ ContractStep
         /\ PortTyped'
         /\ buff' = buff
         /\ call' = [op |-> "open", result |-> call'.result]
         /\ call'.result \in {"Good", "Bad", "Processing"}
         /\ state' = "WAIT_FOR_OPEN" =>
              line = "tcp" /\ ~blocking /\ valid' /\ call'.result = "Processing"
<1> DEFINE Leaves == /\ Opens(call'.result)
                     /\ PortTyped'
                     /\ buff' = buff
                     /\ call' = [op |-> "open", result |-> call'.result]
                     /\ state' = "WAIT_FOR_OPEN" =>
                          line = "tcp" /\ ~blocking /\ valid' /\ call'.result = "Processing"
<1> SUFFICES Leaves
  BY OpensContract DEF Opens
<1>1. UNCHANGED line
  BY DEF settings, line, createPort
<1>0. /\ valid \in BOOLEAN /\ changed \in BOOLEAN
      /\ error \in BOOLEAN /\ hangup \in BOOLEAN
      /\ state = "WAIT_FOR_OPEN" => line = "tcp" /\ ~blocking /\ valid
      /\ line \in {"tcp", "udp"} /\ state \in {"OPENED", "WAIT_FOR_READ"} => valid
  BY DEF TypeOK, PortState, Net
<1>2. CASE OpenAlready
  BY <1>0, <1>1, <1>2 DEF OpenAlready, Returns, PortTyped, Net, Opens
<1>3. ASSUME Opening
      PROVE  /\ changed' = FALSE /\ error' = FALSE /\ hangup' = FALSE
             /\ buff' = buff
             /\ state # "WAIT_FOR_OPEN" /\ (~valid \/ changed)
  BY <1>3 DEF Opening, Fresh
<1>4. CASE OpenFails
  BY <1>0, <1>1, <1>3, <1>4 DEF OpenFails, Before, Returns, PortTyped, Net,
     Opens
<1>5. CASE OpenUdp
  BY <1>0, <1>1, <1>3, <1>5 DEF OpenUdp, Returns, PortTyped, Net,
     Opens
<1>6. CASE OpenSerial
  BY <1>0, <1>1, <1>3, <1>6 DEF OpenSerial, Before, Returns, PortTyped, Net,
     Opens
<1>7. CASE OpenTcp
  <2>1. /\ line = "tcp" /\ error' = FALSE /\ hangup' = FALSE /\ buff' = buff
        /\ state # "WAIT_FOR_OPEN" => ~valid \/ changed
        /\ changed' \in BOOLEAN
        /\ changed' => state = "WAIT_FOR_OPEN" /\ changed
        /\ state = "WAIT_FOR_OPEN" /\ changed => changed'
    <3>1. CASE Opening
      BY <1>3, <1>7, <3>1 DEF OpenTcp
    <3>2. CASE state = "WAIT_FOR_OPEN" /\ Fresh /\ UNCHANGED <<changed, buff>>
      BY <1>0, <1>7, <3>2 DEF OpenTcp, Fresh
    <3> QED
      BY <1>7, <3>1, <3>2 DEF OpenTcp
  <2>2. \/ ConnectEnds("Good") \/ ConnectEnds("Bad") \/ Connecting
    BY <1>7 DEF OpenTcp
  <2>3. CASE ConnectEnds("Good")
    <3>1. /\ call' = [op |-> "open", result |-> "Good"]
          /\ valid' = TRUE /\ state' = "OPENED"
      BY <2>3 DEF ConnectEnds, Returns
    <3> QED
      BY <1>0, <1>1, <2>1, <3>1 DEF PortTyped, Net, Opens
  <2>4. CASE ConnectEnds("Bad")
    <3>1. /\ call' = [op |-> "open", result |-> "Bad"]
          /\ valid' = FALSE /\ state' = "CLOSED"
      BY <2>4 DEF ConnectEnds, Returns
    <3> QED
      BY <1>0, <1>1, <2>1, <3>1 DEF PortTyped, Net, Opens
  <2>5. CASE Connecting
    BY <1>0, <1>1, <2>1, <2>5 DEF Connecting, Returns, PortTyped, Net,
       Opens
  <2> QED
    BY <2>2, <2>3, <2>4, <2>5
<1> HIDE DEF Leaves
<1> QED
  BY <1>2, <1>4, <1>5, <1>6, <1>7 DEF open

(* write() leaves the buffer alone and sends nothing on a closed port.     *)
LEMMA WriteLeaves ==
  ASSUME TypeOK, PortState, engine = "WRITE", Sent \/ NotSent, UNCHANGED settings
  PROVE  /\ ContractStep
         /\ PortTyped'
         /\ buff' = buff
         /\ call' = [op |-> "write", result |-> call'.result]
         /\ call'.result \in {"Good", "Bad", "Processing"}
         /\ Sent => call'.result = "Good"
         /\ NotSent => call'.result # "Good"
         /\ state' # "WAIT_FOR_OPEN"
<1> DEFINE Leaves == /\ Transfers(call'.result)
                     /\ PortTyped'
                     /\ buff' = buff
                     /\ call' = [op |-> "write", result |-> call'.result]
                     /\ state' # "WAIT_FOR_OPEN"
<1>1. UNCHANGED line /\ blocking \in BOOLEAN
  BY DEF TypeOK, settings, line, createPort
<1>0. /\ valid \in BOOLEAN /\ changed \in BOOLEAN
      /\ error \in BOOLEAN /\ hangup \in BOOLEAN
      /\ line \in {"tcp", "udp"} /\ state \in {"OPENED", "WAIT_FOR_READ"} => valid
  BY DEF TypeOK, PortState, Net
<1>2. state # "WAIT_FOR_OPEN"
  BY DEF PortState
<1>3. ASSUME SendNet
      PROVE  Leaves /\ call'.result = "Good"
  BY <1>0, <1>1, <1>2, <1>3 DEF SendNet, Usable, Returns, PortTyped, Net,
     Transfers
<1>4. ASSUME SendNetFails
      PROVE  Leaves /\ call'.result = "Bad"
  <2>1. CASE close /\ Returns("write", "Bad")
    BY <1>0, <1>1, <1>2, <2>1 DEF close, Fresh, Returns, PortTyped, Net,
       Transfers
  <2>2. CASE NotUsable("write")
    BY <1>0, <1>1, <1>2, <2>2 DEF NotUsable, Returns, PortTyped, Net,
       Transfers
  <2> QED
    BY <1>4, <2>1, <2>2 DEF SendNetFails
<1>5. ASSUME NEW r \in {"Good", "Bad", "Processing"}, SendSerial(r)
      PROVE  Leaves /\ call'.result = r
  BY <1>0, <1>1, <1>2, <1>5 DEF SendSerial, Returns, PortTyped, Net,
     Transfers
<1> HIDE DEF Leaves
<1>6. Sent => Leaves /\ call'.result = "Good"
  BY <1>3, <1>5 DEF Sent
<1>7. NotSent => Leaves /\ call'.result # "Good"
  BY <1>4, <1>5 DEF NotSent
<1> QED
  BY <1>2, <1>6, <1>7, TransfersContract DEF Leaves, Transfers

(* read() fills the buffer of a port that blocks, or of a socket, only with*)
(* what it then returns.                                                   *)
LEMMA ReadLeaves ==
  ASSUME TypeOK, PortState, engine = "READ", read, UNCHANGED settings
  PROVE  /\ ContractStep
         /\ PortTyped'
         /\ call' = [op |-> "read", result |-> call'.result]
         /\ call'.result \in {"Good", "Bad", "Processing"}
         /\ state' # "WAIT_FOR_OPEN"
         /\ Net \/ blocking => call'.result = "Good" \/ buff' = buff
<1> DEFINE Leaves == /\ Transfers(call'.result)
                     /\ PortTyped'
                     /\ call' = [op |-> "read", result |-> call'.result]
                     /\ state' # "WAIT_FOR_OPEN"
                     /\ Net \/ blocking => call'.result = "Good" \/ buff' = buff
<1> SUFFICES Leaves
  <2>1. state # "WAIT_FOR_OPEN"
    BY DEF PortState
  <2> QED
    BY <2>1, TransfersContract DEF Transfers
<1>1. UNCHANGED line /\ blocking \in BOOLEAN
  BY DEF TypeOK, settings, line, createPort
<1>0. /\ valid \in BOOLEAN /\ changed \in BOOLEAN
      /\ error \in BOOLEAN /\ hangup \in BOOLEAN
      /\ line \in {"tcp", "udp"} /\ state \in {"OPENED", "WAIT_FOR_READ"} => valid
  BY DEF TypeOK, PortState, Net
<1>2. state # "WAIT_FOR_OPEN"
  BY DEF PortState
<1>3. CASE ReceiveNet
  BY <1>0, <1>1, <1>2, <1>3 DEF ReceiveNet, Usable, Reads, Returns, PortTyped, Net, Transfers
<1>4. CASE ReceiveNetFails
  <2>1. CASE close /\ Returns("read", "Bad")
    BY <1>0, <1>1, <1>2, <2>1 DEF close, Fresh, Returns, PortTyped, Net,
       Transfers
  <2>2. CASE NotUsable("read")
    BY <1>0, <1>1, <1>2, <2>2 DEF NotUsable, Returns, PortTyped, Net,
       Transfers
  <2> QED
    BY <1>4, <2>1, <2>2 DEF ReceiveNetFails
<1>5. CASE ReceiveUdpTimeout
  BY <1>0, <1>1, <1>2, <1>5 DEF ReceiveUdpTimeout, Usable, Reads, Returns, PortTyped, Net, Transfers
<1>6. CASE AwaitNet
  BY <1>0, <1>1, <1>2, <1>6 DEF AwaitNet, Usable, Reads, Returns, PortTyped, Net, Transfers
<1>7. CASE ReceiveSerialBlocking
  BY <1>0, <1>1, <1>2, <1>7 DEF ReceiveSerialBlocking, Reads, Returns, PortTyped, Net, Transfers
<1>8. CASE ReceiveSerialFails
  <2>1. line = "serial" /\ ~blocking
    BY <1>8 DEF ReceiveSerialFails
  <2>2. CASE valid
    BY <1>0, <1>1, <1>2, <1>8, <2>1, <2>2 DEF ReceiveSerialFails, Reads, Returns, PortTyped, Net, Transfers
  <2>3. CASE ~valid
    <3>1. NotUsable("read")
      BY <1>8, <2>3 DEF ReceiveSerialFails
    <3> QED
      BY <1>0, <1>1, <1>2, <2>1, <3>1 DEF NotUsable, Returns, PortTyped, Net, Transfers
  <2> QED
    BY <1>2, <2>2, <2>3
<1>9. ASSUME NEW r \in {"Good", "Bad", "Processing"}, ReceiveSerial(r)
      PROVE  Leaves
  <2>1. /\ line = "serial" /\ ~blocking /\ valid /\ Reads(r)
        /\ state' \in {"OPENED", "WAIT_FOR_READ", "WAIT_FOR_READ_ALL"}
    BY <1>9 DEF ReceiveSerial
  <2> QED
    BY <1>0, <1>1, <1>2, <2>1 DEF Reads, Returns, PortTyped, Net, Transfers
<1> HIDE DEF Leaves
<1> QED
  BY <1>3, <1>4, <1>5, <1>6, <1>7, <1>8, <1>9 DEF read

(* A step that calls no operation of the port.                             *)
LEMMA QuietContract ==
  ASSUME call' = NoCall, UNCHANGED <<valid, state>>
  PROVE  ContractStep /\ call' # [op |-> "write", result |-> "Good"]
  BY DEF ContractStep, NoCall

(* A port stays on its line.                                               *)
LEMMA SameLine ==
  ASSUME UNCHANGED settings
  PROVE  UNCHANGED <<type, blocking, frame, line, Net>>
  BY DEF settings, frame, line, Net, createPort

(* The bytes of a request are those of its settings, number and identifier. *)
LEMMA SameRequest ==
  ASSUME UNCHANGED settings, UNCHANGED <<transaction, asked>>
  PROVE  Request' = Request
  BY SameLine DEF Request

(* There is at least one attempt.                                          *)
LEMMA TriesPositive == \A t \in Tries : t \in Nat /\ t # 0
  BY TransportAssumption

(* After an attempt that failed there is a next one, or the end.           *)
LEMMA FailedAttempt ==
  ASSUME TypeOK, BufferKept, blocked, NEW r, AttemptFails(r), UNCHANGED tries
  PROVE  /\ repeats' \in Nat /\ repeats' < tries /\ autoIncrement' \in BOOLEAN /\ blocked' \in BOOLEAN
         /\ blocked' => tries # 1
         /\ outcome'.data = <<>>
<1>1. tries \in Nat /\ tries # 0
  <2>1. tries \in Tries
    BY DEF TypeOK
  <2> QED
    BY <2>1, TriesPositive
<1>2. repeats \in Nat /\ repeats < tries /\ autoIncrement \in BOOLEAN
  BY DEF TypeOK
<1>3. outcome.data = <<>>
  BY DEF BufferKept
<1>4. CASE repeats + 1 < tries
  <2>1. repeats' = repeats + 1 /\ autoIncrement' \in BOOLEAN
        /\ UNCHANGED <<blocked, outcome>>
    BY <1>4 DEF AttemptFails, setNextRequestRepeated
  <2> QED
    BY <1>1, <1>2, <1>3, <1>4, <2>1
<1>5. CASE ~(repeats + 1 < tries)
  <2>1. /\ repeats' = 0 /\ blocked' = FALSE /\ autoIncrement' = autoIncrement
        /\ outcome' = [status |-> r, data |-> <<>>]
    BY <1>5 DEF AttemptFails
  <2>2. repeats' \in Nat /\ repeats' < tries
    BY <1>1, <2>1
  <2>3. outcome'.data = <<>>
    BY <2>1
  <2> QED
    BY <1>2, <2>1, <2>2, <2>3
<1> QED
  BY <1>4, <1>5

(* The same attempt goes on.                                               *)
LEMMA SameAttemptKeeps ==
  ASSUME TypeOK, BufferKept, blocked, SameAttempt, UNCHANGED tries
  PROVE  /\ repeats' \in Nat /\ repeats' < tries /\ autoIncrement' \in BOOLEAN /\ blocked' \in BOOLEAN
         /\ blocked' /\ outcome'.data = <<>>
  BY DEF TypeOK, BufferKept, SameAttempt

(* What the engine leaves when it has not just written: the buffer, except *)
(* where reading fills it.                                                 *)
LEMMA EngineKeeps ==
  ASSUME PortInv, PortTyped',
         UNCHANGED <<settings, tries, transaction, asked>>,
         state' = "WAIT_FOR_OPEN" =>
           line = "tcp" /\ ~blocking /\ engine' = "WAIT_FOR_OPEN" /\ valid',
         repeats' \in Nat /\ repeats' < tries, autoIncrement' \in BOOLEAN, blocked' \in BOOLEAN,
         blocked' => blocked /\ outcome'.data = <<>>,
         engine' = "READ" => blocked',
         blocked' => \/ /\ buff' = buff
                        /\ engine # "READ" \/ engine' = "READ" \/ tries # 1
                     \/ ~Net /\ ~blocking /\ (engine' = "READ" \/ tries # 1),
         call' = [op |-> "write", result |-> "Good"] => buff' = buff /\ blocked /\ engine # "READ"
  PROVE  PortInv'
<1>1. UNCHANGED <<type, blocking, frame, line, Net, Request>>
  BY SameLine, SameRequest
<1>2. blocked /\ (Net \/ blocking \/ (tries = 1 /\ engine # "READ")) => buff = Request
  BY DEF PortInv, BufferKept
<1>3. TypeOK'
  <2>1. /\ type \in Types /\ blocking \in BOOLEAN /\ tries \in Tries
        /\ transaction \in Nat /\ transaction < 65536 /\ asked \in 0..Requests
    BY DEF PortInv, TypeOK
  <2>2. /\ valid' \in BOOLEAN /\ changed' \in BOOLEAN
        /\ error' \in BOOLEAN /\ hangup' \in BOOLEAN
    BY DEF PortTyped
  <2> QED
    BY <1>1, <2>1, <2>2 DEF TypeOK
<1>4. PortState'
  BY <1>1 DEF PortState, PortTyped
<1>5. BufferKept'
  <2>1. blocked' /\ (Net \/ blocking \/ (tries = 1 /\ engine' # "READ")) => buff' = Request
    BY <1>2
  <2> QED
    BY <1>1, <2>1 DEF BufferKept
<1>6. WireCarriesRequest'
  <2>1. call' = [op |-> "write", result |-> "Good"] /\ (Net \/ blocking \/ tries = 1)
          => buff' = Request
    BY <1>2
  <2> QED
    BY <1>1, <2>1 DEF WireCarriesRequest
<1> QED
  BY <1>3, <1>4, <1>5, <1>6 DEF PortInv

-----------------------------------------------------------------------------
(***************************************************************************)
(* Every port: the steps.                                                  *)
(***************************************************************************)

(* The next identifier is one.                                             *)
LEMMA NextId ==
  ASSUME TypeOK, writeId
  PROVE  transaction' \in Nat /\ transaction' < 65536 /\ autoIncrement' = TRUE
<1>1. transaction \in Nat /\ transaction < 65536
  BY DEF TypeOK
<1>2. (transaction + 1) % 65536 \in Nat /\ (transaction + 1) % 65536 < 65536
  BY <1>1
<1> QED
  BY <1>1, <1>2 DEF writeId

(* The engine begins a request: the buffer is filled with its frame.       *)
LEMMA AskPort ==
  ASSUME PortInv, Ask
  PROVE  PortInv' /\ ContractStep
<1>1. /\ UNCHANGED <<settings, tries, repeats, engine, state, valid, changed, error, hangup>>
      /\ ~blocked /\ blocked' = TRUE /\ asked < Requests /\ asked' = asked + 1
      /\ outcome' = Nothing /\ call' = NoCall
      /\ buff' = Frame(frame, transaction', Unit, Func, <<asked'>>)
  BY DEF Ask
<1>2. /\ transaction' \in Nat /\ transaction' < 65536 /\ autoIncrement' = TRUE
  BY NextId DEF PortInv, Ask
<1>3. UNCHANGED <<type, blocking, frame, line, Net>>
  BY <1>1, SameLine
<1>4. asked' \in 0..Requests
  BY <1>1, TransportAssumption DEF PortInv, TypeOK
<1>5. TypeOK'
  BY <1>1, <1>2, <1>3, <1>4 DEF PortInv, TypeOK
<1>6. PortState'
  BY <1>1, <1>3 DEF PortInv, PortState
<1>7. BufferKept'
  <2>1. buff' = Request'
    BY <1>1, <1>3 DEF Request
  <2>2. outcome'.data = <<>>
    BY <1>1 DEF Nothing
  <2> QED
    BY <1>1, <2>1, <2>2 DEF BufferKept
<1>8. WireCarriesRequest'
  BY <1>1 DEF WireCarriesRequest, NoCall
<1> QED
  BY <1>1, <1>5, <1>6, <1>7, <1>8, QuietContract DEF PortInv

(* A request too long for the buffer ends where it begins.                 *)
LEMMA AskTooLongPort ==
  ASSUME PortInv, AskTooLong
  PROVE  PortInv' /\ ContractStep
<1>1. /\ UNCHANGED <<settings, tries, repeats, engine, state, valid, changed, error, hangup>>
      /\ ~blocked /\ blocked' = blocked /\ asked < Requests /\ asked' = asked + 1
      /\ call' = NoCall
  BY DEF AskTooLong
<1>2. /\ transaction' \in Nat /\ transaction' < 65536 /\ autoIncrement' = TRUE
  BY NextId DEF PortInv, AskTooLong
<1>3. UNCHANGED <<type, blocking, frame, line, Net>>
  BY <1>1, SameLine
<1>4. asked' \in 0..Requests
  BY <1>1, TransportAssumption DEF PortInv, TypeOK
<1>5. TypeOK'
  BY <1>1, <1>2, <1>3, <1>4 DEF PortInv, TypeOK
<1>6. PortState'
  BY <1>1, <1>3 DEF PortInv, PortState
<1>7. BufferKept'
  BY <1>1 DEF PortInv, BufferKept
<1>8. WireCarriesRequest'
  BY <1>1 DEF WireCarriesRequest, NoCall
<1> QED
  BY <1>1, <1>5, <1>6, <1>7, <1>8, QuietContract DEF PortInv

(* What PortInv says of the port alone.                                    *)
LEMMA PortFacts ==
  ASSUME PortInv
  PROVE  /\ TypeOK /\ PortState /\ BufferKept /\ PortTyped
         /\ state = "WAIT_FOR_OPEN" =>
              line = "tcp" /\ ~blocking /\ engine = "WAIT_FOR_OPEN" /\ valid
  BY DEF PortInv, TypeOK, PortState, PortTyped

(* isOpen() only forgets an error.                                         *)
LEMMA LookLeaves ==
  ASSUME TypeOK, PortTyped, UNCHANGED settings, NEW up, isOpen(up)
  PROVE  PortTyped' /\ UNCHANGED <<state, valid, changed, buff>>
<1>1. UNCHANGED <<Net, state, valid, changed, buff, hangup>> /\ error' = FALSE
  BY SameLine DEF isOpen
<1> QED
  BY <1>1 DEF PortTyped

(* The engine asks isOpen().                                               *)
LEMMA LookWhetherOpenPort ==
  ASSUME PortInv, LookWhetherOpen
  PROVE  PortInv' /\ ContractStep
<1>1. /\ blocked /\ engine = "UNKNOWN" /\ engine' \in {"OPENED", "WAIT_FOR_OPEN"}
      /\ UNCHANGED <<settings, tries, transaction, asked>> /\ SameAttempt
      /\ call' = NoCall
  BY DEF LookWhetherOpen, EngineStep
<1>2. PortTyped' /\ UNCHANGED <<state, valid, changed, buff>>
  <2>1. \E up \in BOOLEAN : isOpen(up)
    BY DEF LookWhetherOpen
  <2> QED
    BY <1>1, <2>1, LookLeaves, PortFacts
<1>3. state # "WAIT_FOR_OPEN"
  BY <1>1, PortFacts
<1> QED
  BY <1>1, <1>2, <1>3, PortFacts, SameAttemptKeeps, EngineKeeps, QuietContract

(* The engine opens the port, or waits until it is open.                   *)
LEMMA OpenPort ==
  ASSUME PortInv, Open
  PROVE  PortInv' /\ ContractStep
<1>1. /\ blocked /\ engine \in {"CLOSED", "WAIT_FOR_OPEN"} /\ open
      /\ UNCHANGED <<settings, tries, transaction, asked>>
  BY DEF Open, EngineStep
<1>2. /\ ContractStep /\ PortTyped' /\ buff' = buff
      /\ call' = [op |-> "open", result |-> call'.result]
      /\ call'.result \in {"Good", "Bad", "Processing"}
      /\ state' = "WAIT_FOR_OPEN" =>
           line = "tcp" /\ ~blocking /\ valid' /\ call'.result = "Processing"
  BY <1>1, OpenLeaves, PortFacts
<1>3. call' # [op |-> "write", result |-> "Good"]
  BY <1>2
<1>4. CASE call'.result = "Bad"
  <2>1. engine' = "TIMEOUT" /\ AttemptFails("Bad")
    BY <1>4 DEF Open
  <2> QED
    BY <1>1, <1>2, <1>3, <1>4, <2>1, PortFacts, FailedAttempt, EngineKeeps
<1>5. CASE call'.result \in {"Good", "Processing"}
  <2>1. /\ SameAttempt
        /\ engine' = IF call'.result = "Good" THEN "OPENED" ELSE "WAIT_FOR_OPEN"
    BY <1>5 DEF Open
  <2> QED
    BY <1>1, <1>2, <1>3, <1>5, <2>1, PortFacts, SameAttemptKeeps, EngineKeeps
<1> QED
  BY <1>2, <1>4, <1>5

(* A changed setting makes the engine close the port first.                *)
LEMMA ReopenPort ==
  ASSUME PortInv, Reopen
  PROVE  PortInv' /\ ContractStep
<1>1. /\ blocked /\ engine = "OPENED" /\ engine' = "CLOSED"
      /\ UNCHANGED <<settings, tries, transaction, asked>> /\ SameAttempt
      /\ call' = [op |-> "close", result |-> "Good"]
  BY DEF Reopen, EngineStep, Returns
<1>2. /\ valid' = FALSE /\ state' = "CLOSED" /\ error' = FALSE /\ hangup' = FALSE
      /\ UNCHANGED <<changed, buff>>
  BY DEF Reopen, close, Fresh
<1>3. PortTyped'
  BY <1>2, PortFacts DEF PortTyped
<1>4. ContractStep
  <2>1. state # "WAIT_FOR_OPEN"
    BY <1>1, PortFacts
  <2>2. ASSUME NEW b
        PROVE  Port(b)!PortClose
    BY <1>2 DEF Port!PortClose
  <2> QED
    BY <1>1, <2>2 DEF ContractStep
<1> QED
  BY <1>1, <1>2, <1>3, <1>4, PortFacts, SameAttemptKeeps, EngineKeeps

(* The engine finds the port open and turns to writing.                    *)
LEMMA PrepareWritePort ==
  ASSUME PortInv, PrepareWrite
  PROVE  PortInv' /\ ContractStep
<1>1. /\ blocked /\ engine = "OPENED" /\ call' = NoCall
      /\ UNCHANGED <<settings, tries, transaction, asked>>
  BY DEF PrepareWrite, EngineStep
<1>2. PortTyped' /\ UNCHANGED <<state, valid, changed, buff>>
  <2>1. \E up \in BOOLEAN : isOpen(up)
    BY DEF PrepareWrite
  <2> QED
    BY <1>1, <2>1, LookLeaves, PortFacts
<1>3. state # "WAIT_FOR_OPEN"
  BY <1>1, PortFacts
<1>4. CASE engine' = "WRITE" /\ SameAttempt
  BY <1>1, <1>2, <1>3, <1>4, PortFacts, SameAttemptKeeps, EngineKeeps, QuietContract
<1>5. CASE engine' = "CLOSED" /\ AttemptFails("BadPortClosed")
  BY <1>1, <1>2, <1>3, <1>5, PortFacts, FailedAttempt, EngineKeeps, QuietContract
<1> QED
  BY <1>4, <1>5 DEF PrepareWrite

(* The frame goes out: it is that of the pending request.                  *)
LEMMA WritePort ==
  ASSUME PortInv, Write
  PROVE  PortInv' /\ ContractStep
<1>1. /\ blocked /\ engine = "WRITE" /\ engine' = "READ" /\ Sent /\ SameAttempt
      /\ UNCHANGED <<settings, tries, transaction, asked>>
  BY DEF Write
<1>2. /\ ContractStep /\ PortTyped' /\ buff' = buff /\ state' # "WAIT_FOR_OPEN"
  BY <1>1, WriteLeaves, PortFacts
<1> QED
  BY <1>1, <1>2, PortFacts, SameAttemptKeeps, EngineKeeps

(* The port cannot write; the attempt ends.                                *)
LEMMA WriteFailsPort ==
  ASSUME PortInv, WriteFails
  PROVE  PortInv' /\ ContractStep
<1>1. /\ blocked /\ engine = "WRITE" /\ NotSent
      /\ UNCHANGED <<settings, tries, transaction, asked>>
  BY DEF WriteFails, EngineStep
<1>2. /\ ContractStep /\ PortTyped' /\ buff' = buff /\ state' # "WAIT_FOR_OPEN"
      /\ call' = [op |-> "write", result |-> call'.result]
      /\ call'.result # "Good"
  BY <1>1, WriteLeaves, PortFacts
<1>3. call' # [op |-> "write", result |-> "Good"]
  BY <1>2
<1>4. CASE engine' = "TIMEOUT" /\ AttemptFails("Bad")
  BY <1>1, <1>2, <1>3, <1>4, PortFacts, FailedAttempt, EngineKeeps
<1>5. CASE SameAttempt /\ UNCHANGED engine
  BY <1>1, <1>2, <1>3, <1>5, PortFacts, SameAttemptKeeps, EngineKeeps
<1> QED
  BY <1>4, <1>5 DEF WriteFails

(* The engine reads: an answer, an error, a time-out or nothing yet.       *)
LEMMA ReadAnswerPort ==
  ASSUME PortInv, ReadAnswer
  PROVE  PortInv' /\ ContractStep
<1>1. /\ blocked /\ engine = "READ" /\ read
      /\ UNCHANGED <<settings, tries, transaction, asked>>
  BY DEF ReadAnswer, EngineStep
<1>2. /\ ContractStep /\ PortTyped' /\ state' # "WAIT_FOR_OPEN"
      /\ call' = [op |-> "read", result |-> call'.result]
      /\ call'.result \in {"Good", "Bad", "Processing"}
      /\ Net \/ blocking => call'.result = "Good" \/ buff' = buff
  BY <1>1, ReadLeaves, PortFacts
<1>3. call' # [op |-> "write", result |-> "Good"]
  BY <1>2
<1>4. CASE call'.result = "Good"
  <2>1. \E room \in {0, 1} : Take(buff', room)
    BY <1>4 DEF ReadAnswer
  <2>2. repeats' = 0 /\ blocked' = FALSE /\ autoIncrement' = autoIncrement
    BY <2>1 DEF Take
  <2>3. engine' # "READ"
    BY <1>4 DEF ReadAnswer
  <2>4. tries \in Nat /\ tries # 0 /\ autoIncrement \in BOOLEAN
    BY PortFacts, TriesPositive DEF TypeOK
  <2>5. /\ repeats' \in Nat /\ repeats' < tries /\ autoIncrement' \in BOOLEAN
        /\ ~blocked' /\ blocked' \in BOOLEAN
    <3>1. repeats' \in Nat /\ repeats' < tries
      BY <2>2, <2>4
    <3>2. autoIncrement' \in BOOLEAN /\ ~blocked' /\ blocked' \in BOOLEAN
      BY <2>2, <2>4, Zenon
    <3> QED
      BY <3>1, <3>2
  <2> QED
    BY <1>1, <1>2, <1>3, <2>3, <2>5, EngineKeeps
<1>5. CASE call'.result = "Bad"
  <2>1. engine' = "TIMEOUT" /\ AttemptFails("Bad")
    BY <1>5 DEF ReadAnswer
  <2> QED
    BY <1>1, <1>2, <1>3, <1>5, <2>1, PortFacts, FailedAttempt, EngineKeeps
<1>6. CASE call'.result = "Processing"
  <2>1. SameAttempt /\ UNCHANGED engine
    BY <1>6 DEF ReadAnswer
  <2> QED
    BY <1>1, <1>2, <1>3, <1>6, <2>1, PortFacts, SameAttemptKeeps, EngineKeeps
<1> QED
  BY <1>2, <1>4, <1>5, <1>6

(* The time-out between two tries passes.                                  *)
LEMMA PausePort ==
  ASSUME PortInv, Pause
  PROVE  PortInv' /\ ContractStep
<1>1. /\ blocked /\ engine = "TIMEOUT" /\ engine' = "UNKNOWN" /\ SameAttempt
      /\ UNCHANGED <<settings, tries, transaction, asked>>
      /\ UNCHANGED <<state, valid, changed, buff, error, hangup>>
      /\ call' = NoCall
  BY DEF Pause, EngineStep
<1>2. PortTyped'
  BY <1>1, PortFacts, SameLine DEF PortTyped
<1> QED
  BY <1>1, <1>2, PortFacts, SameAttemptKeeps, EngineKeeps, QuietContract

(* What happens beside the engine leaves it and its buffer alone.          *)
LEMMA OutsidePort ==
  ASSUME PortInv,
         UNCHANGED <<settings, tries, engineVars, idVars, state, valid, buff>>,
         changed' \in BOOLEAN, error' \in BOOLEAN, hangup' \in BOOLEAN, call' = NoCall
  PROVE  PortInv' /\ ContractStep
<1>1. /\ UNCHANGED <<settings, tries, transaction, asked>>
      /\ UNCHANGED <<engine, blocked, repeats, outcome, autoIncrement, state, valid, buff>>
  BY DEF engineVars, idVars
<1>2. PortTyped'
  BY <1>1, PortFacts, SameLine DEF PortTyped
<1>3. /\ repeats \in Nat /\ repeats < tries
      /\ autoIncrement \in BOOLEAN /\ blocked \in BOOLEAN
      /\ engine = "READ" => blocked
      /\ blocked => outcome.data = <<>>
  BY DEF PortInv, TypeOK, BufferKept
<1> QED
  BY <1>1, <1>2, <1>3, PortFacts, EngineKeeps, QuietContract

(* The owner changes a setting of the port.                                *)
LEMMA ChangeSettingPort ==
  ASSUME PortInv, ChangeSetting
  PROVE  PortInv' /\ ContractStep
<1>1. /\ UNCHANGED <<settings, tries, engineVars, idVars, state, valid, buff, error, hangup>>
      /\ changed' = TRUE /\ call' = NoCall
  BY DEF ChangeSetting, Change
<1> QED
  BY <1>1, PortFacts, OutsidePort DEF PortTyped

(* The line and the server change nothing that belongs to the port.        *)
LEMMA MediumPort ==
  ASSUME PortInv, Medium
  PROVE  PortInv' /\ ContractStep
<1>1. ASSUME NEW bytes, Arrives(bytes)
      PROVE  /\ UNCHANGED <<settings, tries, engineVars, idVars, state, valid, buff>>
             /\ UNCHANGED <<changed, error, hangup>> /\ call' = NoCall
  BY <1>1 DEF Arrives
<1>2. ASSUME HangUp
      PROVE  /\ UNCHANGED <<settings, tries, engineVars, idVars, state, valid, buff>>
             /\ UNCHANGED changed /\ hangup' = TRUE /\ error' \in {error, TRUE}
             /\ call' = NoCall
  BY <1>2 DEF HangUp
<1>3. HangUp \/ \E bytes : Arrives(bytes)
  BY DEF Medium, Deliver, DeliverPart, DeliverTwice, DeliverDamaged
<1> QED
  BY <1>1, <1>2, <1>3, PortFacts, OutsidePort DEF PortTyped

(* At first nothing is asked and no port is open.                          *)
LEMMA PortInit == Init => PortInv
<1> SUFFICES ASSUME Init
             PROVE  PortInv
  OBVIOUS
<1>1. /\ type \in Types /\ blocking \in BOOLEAN /\ tries \in Tries
      /\ repeats = 0 /\ asked = 0 /\ autoIncrement = TRUE
      /\ engine = "UNKNOWN" /\ blocked = FALSE
  BY DEF Init
<1>2. /\ state = "UNKNOWN" /\ call = NoCall
      /\ valid = FALSE /\ changed = FALSE /\ error = FALSE /\ hangup = FALSE
  BY DEF Init, LineInit
<1>3. transaction \in Nat /\ transaction < 65536
  <2>1. transaction \in Ids \/ transaction = 0
    BY DEF Init
  <2>2. \A id \in Ids : id \in Nat /\ id < 65536
    BY TransportAssumption
  <2> QED
    BY <2>1, <2>2
<1>4. tries \in Nat /\ tries # 0 /\ Requests \in Nat
  BY <1>1, TriesPositive, TransportAssumption
<1>5. TypeOK
  <2>1. repeats \in Nat /\ repeats < tries /\ asked \in 0..Requests
    BY <1>1, <1>4
  <2>2. /\ autoIncrement \in BOOLEAN /\ blocked \in BOOLEAN
        /\ valid \in BOOLEAN /\ changed \in BOOLEAN
        /\ error \in BOOLEAN /\ hangup \in BOOLEAN
    BY <1>1, <1>2
  <2>3. type \in Types /\ blocking \in BOOLEAN /\ tries \in Tries
    BY <1>1
  <2> QED
    BY <1>3, <2>1, <2>2, <2>3 DEF TypeOK
<1>6. PortState /\ BufferKept /\ WireCarriesRequest
  BY <1>1, <1>2 DEF PortState, BufferKept, WireCarriesRequest, NoCall
<1> QED
  BY <1>5, <1>6 DEF PortInv

(* Each step keeps the invariant, and is one that ModbusPort allows.       *)
LEMMA PortNext == PortInv /\ Next => PortInv' /\ ContractStep
  BY AskPort, AskTooLongPort, LookWhetherOpenPort, OpenPort, ReopenPort, PrepareWritePort,
     WritePort, WriteFailsPort, ReadAnswerPort, PausePort, ChangeSettingPort, MediumPort
     DEF Next, process

(* Without a step nothing is to be shown.                                  *)
LEMMA PortIdle ==
  ASSUME PortInv, UNCHANGED vars
  PROVE  PortInv'
<1>1. /\ UNCHANGED <<settings, tries, engineVars, idVars>>
      /\ UNCHANGED <<state, valid, changed, buff, error, hangup, call>>
  BY DEF vars, lineVars
<1>2. UNCHANGED <<Net, line, Request>>
  BY <1>1, SameLine, SameRequest DEF engineVars, idVars
<1>3. UNCHANGED <<type, blocking, tries, repeats, transaction, autoIncrement, asked,
                  valid, changed, error, hangup, blocked, engine, outcome, state, buff>>
  BY <1>1 DEF settings, engineVars, idVars
<1> QED
  BY <1>1, <1>2, <1>3 DEF PortInv, TypeOK, PortState, BufferKept, WireCarriesRequest

(***************************************************************************)
(* Every port: the theorems.                                               *)
(***************************************************************************)

(* The invariant of the port holds in every state.                         *)
LEMMA PortInvariance == Spec => []PortInv
<1>1. PortInv /\ [Next]_vars => PortInv'
  BY PortIdle, PortNext
<1> QED
  BY <1>1, PortInit, PTL DEF Spec

(* Every step finds the values in their ranges.                            *)
THEOREM TypeCorrect == Spec => []TypeOK
<1>1. PortInv => TypeOK
  BY DEF PortInv
<1> QED
  BY <1>1, PortInvariance, PTL

(* What is written is the frame of the request, in each of its attempts.   *)
THEOREM RequestOnTheWire == Spec => []WireCarriesRequest
<1>1. PortInv => WireCarriesRequest
  BY DEF PortInv
<1> QED
  BY <1>1, PortInvariance, PTL

(* Every built-in port keeps to what the engines take for granted of one.  *)
THEOREM PortsKeepContract == Spec => PortContract
<1>1. PortInv /\ [Next]_vars => [ContractStep]_vars
  BY PortNext
<1> QED
  BY <1>1, PortInvariance, PTL DEF Spec, PortContract, ContractStep

-----------------------------------------------------------------------------
(***************************************************************************)
(* What a stream holds: its chunks one after the other.                    *)
(***************************************************************************)

(* What may be counted has a least member.                                 *)
LEMMA Least == \A T \in SUBSET Nat : T # {} => \E m \in T : \A k \in T : m <= k
<1> SUFFICES ASSUME NEW T \in SUBSET Nat, T # {}
             PROVE  \E m \in T : \A k \in T : m <= k
  OBVIOUS
<1>1. PICK m \in T : \A k \in T : ~(<<k, m>> \in OpToRel(<, Nat))
  BY WFMin, NatLessThanWellFounded
<1>2. \A k \in T : ~(k < m)
  BY <1>1 DEF OpToRel
<1> QED
  BY <1>2

(* flat holds what the first chunks come to.                               *)
IsFlat(flat, chunks, upto) ==
  /\ flat \in [1..upto -> Seq(Int)]
  /\ \A i \in 1..upto : flat[i] = IF i = 1 THEN chunks[i] ELSE flat[i - 1] \o chunks[i]

LEMMA FlatExists ==
  ASSUME NEW chunks \in Chunks, NEW upto \in 0..Len(chunks)
  PROVE  \E flat : IsFlat(flat, chunks, upto)
<1> DEFINE Runs(m) == \E flat : IsFlat(flat, chunks, m)
           Fails == {m \in Nat : m <= Len(chunks) /\ ~Runs(m)}
<1> SUFFICES ASSUME Fails # {}
             PROVE  FALSE
  OBVIOUS
<1>1. PICK m \in Fails : \A k \in Fails : m <= k
  <2> HIDE DEF Fails
  <2>1. Fails \in SUBSET Nat
    BY DEF Fails
  <2> QED
    BY <2>1, Least
<1>2. m \in Nat /\ m <= Len(chunks) /\ ~Runs(m) /\ Len(chunks) \in Nat
  BY <1>1 DEF Chunks
<1>3. CASE m = 0
  <2> DEFINE none == [i \in 1..0 |-> <<>>]
  <2>1. none \in [1..0 -> Seq(Int)]
    OBVIOUS
  <2>2. IsFlat(none, chunks, 0)
    BY <2>1 DEF IsFlat
  <2> QED
    BY <1>2, <1>3, <2>2
<1>4. CASE m # 0
  <2>1. m - 1 \in Nat /\ m - 1 <= Len(chunks) /\ m - 1 \notin Fails
    BY <1>1, <1>2, <1>4
  <2>2. PICK flat : IsFlat(flat, chunks, m - 1)
    BY <2>1
  <2>3. chunks[m] \in Seq(Int) /\ flat \in [1..m - 1 -> Seq(Int)]
    BY <1>2, <1>4, <2>2 DEF Chunks, IsFlat
  <2> DEFINE last == IF m = 1 THEN chunks[m] ELSE flat[m - 1] \o chunks[m]
             longer == [i \in 1..m |-> IF i = m THEN last ELSE flat[i]]
  <2>4. last \in Seq(Int)
    BY <1>2, <1>4, <2>3
  <2> HIDE DEF last
  <2>5. longer \in [1..m -> Seq(Int)]
    BY <1>2, <1>4, <2>3, <2>4
  <2>6. longer[m] = last /\ \A i \in 1..m - 1 : longer[i] = flat[i]
    BY <1>2, <1>4
  <2> HIDE DEF longer
  <2>7. ASSUME NEW i \in 1..m
        PROVE  longer[i] = IF i = 1 THEN chunks[i] ELSE longer[i - 1] \o chunks[i]
    <3>1. CASE i = m
      <4>1. i # 1 => i - 1 \in 1..m - 1
        BY <1>2, <2>7, <3>1
      <4> QED
        BY <2>6, <3>1, <4>1 DEF last
    <3>2. CASE i \in 1..m - 1
      <4>1. i # 1 => i - 1 \in 1..m - 1
        BY <1>2, <3>2
      <4>2. flat[i] = IF i = 1 THEN chunks[i] ELSE flat[i - 1] \o chunks[i]
        BY <2>2, <3>2 DEF IsFlat
      <4> QED
        BY <2>6, <3>2, <4>1, <4>2
    <3> QED
      BY <1>2, <2>7, <3>1, <3>2
  <2>8. IsFlat(longer, chunks, m)
    BY <2>5, <2>7 DEF IsFlat
  <2> QED
    BY <1>2, <2>8
<1> QED
  BY <1>3, <1>4

(* Chunks that start alike come to the same.                               *)
LEMMA FlatAgrees ==
  ASSUME NEW s, NEW t, NEW n \in Nat, NEW f, NEW g, NEW m \in Nat, n <= m,
         IsFlat(f, s, n), IsFlat(g, t, m), \A i \in 1..n : s[i] = t[i]
  PROVE  \A i \in 1..n : f[i] = g[i]
<1> DEFINE Fails == {i \in Nat : i \in 1..n /\ f[i] # g[i]}
<1> SUFFICES ASSUME Fails # {}
             PROVE  FALSE
  OBVIOUS
<1>1. PICK i \in Fails : \A k \in Fails : i <= k
  <2>1. Fails \in SUBSET Nat
    OBVIOUS
  <2> HIDE DEF Fails
  <2> QED
    BY <2>1, Least
<1>2. i \in 1..n /\ i \in 1..m /\ f[i] # g[i]
  BY <1>1
<1>3. /\ f[i] = IF i = 1 THEN s[i] ELSE f[i - 1] \o s[i]
      /\ g[i] = IF i = 1 THEN t[i] ELSE g[i - 1] \o t[i]
  BY <1>2 DEF IsFlat
<1>4. i # 1
  BY <1>2, <1>3
<1>5. i - 1 \in 1..n /\ i - 1 \in Nat /\ i - 1 \notin Fails
  BY <1>1, <1>2, <1>4
<1>6. f[i - 1] = g[i - 1]
  BY <1>5
<1>7. s[i] = t[i]
  BY <1>2
<1> HIDE DEF Fails
<1> QED
  BY <1>2, <1>3, <1>4, <1>6, <1>7

LEMMA FlattenRuns ==
  ASSUME NEW chunks \in Chunks, chunks # <<>>
  PROVE  \E flat : IsFlat(flat, chunks, Len(chunks)) /\ FlattenSeq(chunks) = flat[Len(chunks)]
<1> DEFINE n == Len(chunks)
           Of(flat) == [i \in 1..n |-> IF i = 1 THEN chunks[i] ELSE flat[i - 1] \o chunks[i]]
           F == CHOOSE f : f = Of(f)
<1>1. n \in Nat /\ n # 0 /\ n \in 0..Len(chunks)
  BY DEF Chunks
<1>2. PICK flat : IsFlat(flat, chunks, n)
  BY <1>1, FlatExists
<1>3. flat = Of(flat)
  <2>1. \A i \in 1..n : flat[i] = Of(flat)[i]
    BY <1>2 DEF IsFlat
  <2>2. flat = [i \in 1..n |-> flat[i]]
    BY <1>2 DEF IsFlat
  <2>3. Of(flat) = [i \in 1..n |-> Of(flat)[i]]
    OBVIOUS
  <2> HIDE DEF Of, n
  <2> QED
    BY <2>1, <2>2, <2>3
<1>4. F = Of(F)
  <2> HIDE DEF Of
  <2> QED
    BY <1>3
<1>5. FlattenSeq(chunks) = F[n]
  BY <1>1 DEF FlattenSeq
<1> HIDE DEF F
<1>6. F = [i \in 1..n |-> F[i]]
  <2>1. Of(F) = [i \in 1..n |-> Of(F)[i]]
    OBVIOUS
  <2> HIDE DEF Of, n
  <2> QED
    BY <1>4, <2>1
<1>7. \A i \in 1..n : F[i] = IF i = 1 THEN chunks[i] ELSE F[i - 1] \o chunks[i]
  <2>1. \A i \in 1..n : Of(F)[i] = IF i = 1 THEN chunks[i] ELSE F[i - 1] \o chunks[i]
    OBVIOUS
  <2> HIDE DEF Of, n
  <2> QED
    BY <1>4, <2>1
<1>8. \A i \in 1..n : F[i] = flat[i]
  <2> DEFINE Fails == {i \in Nat : i \in 1..n /\ F[i] # flat[i]}
  <2> SUFFICES ASSUME Fails # {}
               PROVE  FALSE
    OBVIOUS
  <2>1. PICK i \in Fails : \A k \in Fails : i <= k
    <3>1. Fails \in SUBSET Nat
      OBVIOUS
    <3> HIDE DEF Fails
    <3> QED
      BY <3>1, Least
  <2>2. i \in 1..n /\ F[i] # flat[i]
    BY <2>1
  <2>3. /\ F[i] = IF i = 1 THEN chunks[i] ELSE F[i - 1] \o chunks[i]
        /\ flat[i] = IF i = 1 THEN chunks[i] ELSE flat[i - 1] \o chunks[i]
    BY <1>2, <1>7, <2>2 DEF IsFlat
  <2>4. i # 1
    BY <2>2, <2>3
  <2>5. i - 1 \in 1..n /\ i - 1 \in Nat /\ i - 1 \notin Fails
    BY <1>1, <2>1, <2>2, <2>4
  <2>6. F[i - 1] = flat[i - 1]
    BY <2>5
  <2> HIDE DEF Fails
  <2> QED
    BY <2>2, <2>3, <2>4, <2>6
<1>9. n \in 1..n
  BY <1>1
<1> QED
  BY <1>2, <1>5, <1>8, <1>9

LEMMA FlattenEmpty == FlattenSeq(<<>>) = <<>>
  BY DEF FlattenSeq

(* A chunk more ends the stream.                                           *)
LEMMA FlattenAppend ==
  ASSUME NEW chunks \in Chunks, NEW chunk \in Seq(Int)
  PROVE  /\ FlattenSeq(chunks) \in Seq(Int)
         /\ FlattenSeq(Append(chunks, chunk)) = FlattenSeq(chunks) \o chunk
<1> DEFINE n == Len(chunks)
           more == Append(chunks, chunk)
<1>1. /\ n \in Nat /\ more \in Chunks /\ Len(more) = n + 1 /\ more # <<>>
      /\ more[n + 1] = chunk
      /\ \A i \in 1..n : more[i] = chunks[i]
  BY AppendProperties DEF Chunks
<1> HIDE DEF more
<1>2. PICK g : IsFlat(g, more, n + 1) /\ FlattenSeq(more) = g[n + 1]
  BY <1>1, FlattenRuns
<1>3. PICK k \in 1..n + 1 :
        k = n + 1 /\ g[k] = IF k = 1 THEN more[k] ELSE g[k - 1] \o more[k]
  <2>1. n + 1 \in 1..n + 1
    BY <1>1
  <2>2. \A i \in 1..n + 1 : g[i] = IF i = 1 THEN more[i] ELSE g[i - 1] \o more[i]
    BY <1>2 DEF IsFlat
  <2> HIDE DEF n
  <2> QED
    BY <2>1, <2>2
<1>4. CASE chunks = <<>>
  <2>1. n = 0
    BY <1>4
  <2>2. FlattenSeq(more) = chunk
    BY <1>1, <1>2, <1>3, <2>1
  <2>3. FlattenSeq(chunks) = <<>>
    BY <1>4, FlattenEmpty
  <2> QED
    BY <2>2, <2>3, ConcatEmptySeq DEF more
<1>5. CASE chunks # <<>>
  <2>1. PICK f : IsFlat(f, chunks, n) /\ FlattenSeq(chunks) = f[n]
    BY <1>5, FlattenRuns
  <2>2. n # 0 /\ n \in 1..n
    BY <1>1, <1>5 DEF Chunks
  <2>3. \A i \in 1..n : f[i] = g[i]
    <3>1. n <= n + 1 /\ n + 1 \in Nat /\ \A i \in 1..n : chunks[i] = more[i]
      BY <1>1
    <3> HIDE DEF n
    <3> QED
      BY <1>1, <1>2, <2>1, <3>1, FlatAgrees
  <2>4. f[n] \in Seq(Int)
    BY <2>1, <2>2 DEF IsFlat
  <2>5. g[n + 1] = g[n] \o chunk
    BY <1>1, <1>3, <2>2
  <2> QED
    BY <1>2, <2>1, <2>2, <2>3, <2>4, <2>5 DEF more
<1> QED
  BY <1>4, <1>5

-----------------------------------------------------------------------------
(***************************************************************************)
(* What a NET frame holds, and what is read of one.                        *)
(***************************************************************************)

(* Only sockets carry NET frames.                                          *)
LEMMA NetLine ==
  ASSUME TypeOK, frame = "NET"
  PROVE  line \in {"tcp", "udp"} /\ Net
<1>1. type \in DOMAIN createPort
  BY TransportAssumption DEF TypeOK
<1> QED
  BY <1>1 DEF createPort, frame, line, Net

(* The nine bytes of a frame with one number.                              *)
Nine(b, id, n) ==
  /\ b \in Seq(Int) /\ Len(b) = 9
  /\ 256 * b[1] + b[2] = id
  /\ b[3] = 0 /\ b[4] = 0 /\ b[5] = 0 /\ b[6] = 3
  /\ b[7] = 1 /\ b[8] = 3 /\ b[9] = n

(* An answer has nine bytes, and so does a request.                        *)
LEMMA AnswerBytes ==
  ASSUME NEW id \in Nat, id < 65536, NEW n \in Nat
  PROVE  Nine(NetFrame(id, Unit, Func, <<n>>), id, n)
<1> DEFINE bytes == <<Hi(id), Lo(id), 0, 0, 0, 3, 1, 3, n>>
<1>1. Hi(id) \in Int /\ Lo(id) \in Int /\ 256 * Hi(id) + Lo(id) = id
  BY DEF Hi, Lo
<1>2. Hi(3) = 0 /\ Lo(3) = 3
  BY DEF Hi, Lo
<1>3. Len(<<n>>) + 2 = 3
  OBVIOUS
<1>4. NetFrame(id, Unit, Func, <<n>>) = <<Hi(id), Lo(id), 0, 0, 0, 3, 1, 3>> \o <<n>>
  BY <1>2, <1>3 DEF NetFrame, Unit, Func
<1>5. NetFrame(id, Unit, Func, <<n>>) = bytes
  BY <1>1, <1>4
<1>6. bytes \in Seq(Int) /\ Len(bytes) = 9
  BY <1>1
<1>7. /\ bytes[1] = Hi(id) /\ bytes[2] = Lo(id)
      /\ bytes[3] = 0 /\ bytes[4] = 0 /\ bytes[5] = 0 /\ bytes[6] = 3
      /\ bytes[7] = 1 /\ bytes[8] = 3 /\ bytes[9] = n
  OBVIOUS
<1> HIDE DEF bytes
<1>8. Nine(bytes, id, n)
  BY <1>1, <1>6, <1>7 DEF Nine
<1> QED
  BY <1>5, <1>8

(* What is taken for a frame.                                              *)
LEMMA ReadAccepts ==
  ASSUME NEW b \in Seq(Int), NEW room \in Nat, NetRead(b, room).status = "Good"
  PROVE  /\ Len(b) >= 8 /\ b[3] = 0 /\ b[4] = 0 /\ 256 * b[5] + b[6] = Len(b) - 6
         /\ NetRead(b, room) = Taken(256 * b[1] + b[2], SubSeq(b, 7, Len(b)), room)
<1>1. ~(\/ Len(b) < 8
        \/ b[3] # 0 \/ b[4] # 0
        \/ 256 * b[5] + b[6] # Len(b) - 6)
  BY DEF NetRead, Refused
<1>2. NetRead(b, room) = Taken(256 * b[1] + b[2], SubSeq(b, 7, Len(b)), room)
  BY <1>1 DEF NetRead
<1>3. b[3] = 0 /\ b[4] = 0 /\ 256 * b[5] + b[6] = Len(b) - 6
  BY <1>1
<1>4. Len(b) \in Nat /\ ~(Len(b) < 8)
  BY <1>1
<1>5. Len(b) >= 8
  BY <1>4
<1> QED
  BY <1>2, <1>3, <1>5

(* A sequence of one element.                                              *)
LEMMA OneElement ==
  ASSUME NEW s \in Seq(Int), Len(s) = 1
  PROVE  s = <<s[1]>>
<1>1. s[1] \in Int
  BY ElementOfSeq
<1>2. <<s[1]>> \in Seq(Int) /\ Len(<<s[1]>>) = 1 /\ <<s[1]>>[1] = s[1]
  BY <1>1
<1>3. \A i \in 1..Len(s) : s[i] = <<s[1]>>[i]
  BY <1>2
<1> QED
  BY <1>2, <1>3, SeqEqual

(* ... and what is taken of its end.                                       *)
LEMMA TakenBytes ==
  ASSUME NEW body \in Seq(Int), NEW room \in Nat, NEW id, NEW q, q = Taken(id, body, room)
  PROVE  /\ q.status = "Good" /\ q.id = id /\ q.unit = body[1] /\ q.func = body[2]
         /\ Len(body) = 3 /\ room = 0 => q.data = <<>>
         /\ Len(body) = 3 /\ room # 0 => q.data = <<body[3]>>
<1>1. q.status = "Good" /\ q.id = id /\ q.unit = body[1] /\ q.func = body[2]
  BY DEF Taken
<1> DEFINE end == IF Len(body) - 2 > room THEN room + 2 ELSE Len(body)
<1>2. q.data = SubSeq(body, 3, end)
  BY DEF Taken
<1>3. ASSUME Len(body) = 3, room = 0
      PROVE  q.data = <<>>
  <2>1. end = 2
    BY <1>3
  <2>2. SubSeq(body, 3, 2) = <<>>
    BY SubSeqEmpty
  <2> QED
    BY <1>2, <2>1, <2>2
<1>4. ASSUME Len(body) = 3, room # 0
      PROVE  q.data = <<body[3]>>
  <2>1. end = 3
    BY <1>4
  <2>2. body[3] \in Int
    <3>1. 3 \in 1..Len(body)
      BY <1>4
    <3> QED
      BY <3>1, ElementOfSeq
  <2>3. \A i \in 3..3 : body[i] \in Int
    BY <2>2
  <2>4. /\ SubSeq(body, 3, 3) \in Seq(Int) /\ Len(SubSeq(body, 3, 3)) = 1
        /\ SubSeq(body, 3, 3)[1] = body[3]
    BY <2>3, SubSeqProperties
  <2>5. SubSeq(body, 3, 3) = <<body[3]>>
    BY <2>4, OneElement
  <2> HIDE DEF end
  <2> QED
    BY <1>2, <2>1, <2>5
<1> QED
  BY <1>1, <1>3, <1>4

(* The end of a frame, behind its length.                                  *)
LEMMA FrameEnd ==
  ASSUME NEW b \in Seq(Int), Len(b) >= 8, NEW body, body = SubSeq(b, 7, Len(b))
  PROVE  /\ body \in Seq(Int) /\ Len(body) = Len(b) - 6
         /\ body[1] = b[7] /\ body[2] = b[8]
         /\ Len(b) = 9 => body[3] = b[9]
<1>1. Len(b) \in Nat
  OBVIOUS
<1> QED
  BY <1>1

(* A frame is read back.                                                   *)
LEMMA FrameRead ==
  ASSUME NEW b, NEW id, NEW n, Nine(b, id, n), NEW room \in Nat
  PROVE  /\ NetRead(b, room).status = "Good" /\ NetRead(b, room).id = id
         /\ NetRead(b, room).unit = Unit /\ NetRead(b, room).func = Func
         /\ room = 0 => NetRead(b, room).data = <<>>
         /\ room # 0 => NetRead(b, room).data = <<n>>
<1>1. PICK c \in Seq(Int) : c = b
  BY DEF Nine
<1>2. /\ Len(c) = 9 /\ 256 * c[1] + c[2] = id
      /\ c[3] = 0 /\ c[4] = 0 /\ c[5] = 0 /\ c[6] = 3
      /\ c[7] = 1 /\ c[8] = 3 /\ c[9] = n
  <2>1. Nine(c, id, n)
    BY <1>1
  <2> QED
    BY <2>1 DEF Nine
<1>3. PICK body : body = SubSeq(c, 7, Len(c))
  OBVIOUS
<1>4. PICK q : q = NetRead(c, room) /\ q = Taken(id, body, room)
  <2>1. ~(Len(c) < 8) /\ 256 * c[5] + c[6] = Len(c) - 6
    BY <1>2
  <2>2. c[3] = 0 /\ c[4] = 0 /\ 256 * c[1] + c[2] = id
    BY <1>2
  <2>3. NetRead(c, room) = Taken(id, body, room)
    BY <1>3, <2>1, <2>2 DEF NetRead
  <2> QED
    BY <2>3
<1>5. body \in Seq(Int) /\ Len(body) = 3 /\ body[1] = 1 /\ body[2] = 3 /\ body[3] = n
  <2>1. Len(c) >= 8
    BY <1>2
  <2>2. /\ body \in Seq(Int) /\ Len(body) = Len(c) - 6
        /\ body[1] = c[7] /\ body[2] = c[8]
        /\ Len(c) = 9 => body[3] = c[9]
    BY <1>3, <2>1, FrameEnd
  <2> QED
    BY <1>2, <2>2
<1>6. /\ q.status = "Good" /\ q.id = id /\ q.unit = body[1] /\ q.func = body[2]
      /\ room = 0 => q.data = <<>>
      /\ room # 0 => q.data = <<body[3]>>
  BY <1>4, <1>5, TakenBytes
<1> QED
  BY <1>1, <1>4, <1>5, <1>6 DEF Unit, Func

-----------------------------------------------------------------------------
(***************************************************************************)
(* Streams of answers: what a client finds that reads some of one.         *)
(***************************************************************************)

(* Numbers modulo nine: a phase, ...                                       *)
LEMMA PhaseRange == ASSUME NEW p \in Nat PROVE p % 9 \in 0..8
  OBVIOUS

(* ... that of a later byte, ...                                           *)
LEMMA PhaseLater ==
  ASSUME NEW p \in Nat, NEW d \in Nat
  PROVE  (p + d) % 9 = ((p % 9) + d) % 9
  OBVIOUS

(* ... that of a byte after an end, ...                                    *)
LEMMA PhaseAfter ==
  ASSUME NEW p \in Nat, NEW n \in Nat, NEW j \in Nat, j >= 1, (p + n) % 9 = 0
  PROVE  (p + (n + j) - 1) % 9 = (0 + j - 1) % 9
  OBVIOUS

(* ... and the distance of an end from a beginning before it.              *)
LEMMA PhaseDistance ==
  ASSUME NEW p \in Nat, NEW n \in Nat, NEW j \in Nat, j >= 1, j <= n,
         (p + j - 1) % 9 = 0, (p + n) % 9 = 0
  PROVE  j + 8 <= n
  OBVIOUS

(* The elements of two sequences in a row.                                 *)
LEMMA Elements ==
  ASSUME NEW s \in Seq(Int), NEW t \in Seq(Int), NEW u, u = s \o t
  PROVE  /\ u \in Seq(Int) /\ Len(u) = Len(s) + Len(t)
         /\ Len(s) \in Nat /\ Len(t) \in Nat
         /\ \A i \in 1..Len(s) : u[i] = s[i]
         /\ \A i \in 1..Len(t) : u[Len(s) + i] = t[i]
<1>1. Len(s) \in Nat /\ Len(t) \in Nat
  OBVIOUS
<1>2. /\ u \in Seq(Int) /\ Len(u) = Len(s) + Len(t)
      /\ \A i \in 1..Len(s) + Len(t) : u[i] = IF i <= Len(s) THEN s[i] ELSE t[i - Len(s)]
  BY ConcatProperties
<1>3. ASSUME NEW i \in 1..Len(s)
      PROVE  u[i] = s[i]
  <2>1. i \in 1..Len(s) + Len(t) /\ i <= Len(s)
    BY <1>1
  <2> QED
    BY <1>2, <2>1
<1>4. ASSUME NEW i \in 1..Len(t)
      PROVE  u[Len(s) + i] = t[i]
  <2>1. /\ Len(s) + i \in 1..Len(s) + Len(t) /\ ~(Len(s) + i <= Len(s))
        /\ Len(s) + i - Len(s) = i
    BY <1>1
  <2> QED
    BY <1>2, <2>1
<1> QED
  BY <1>1, <1>2, <1>3, <1>4

(* An answer more.                                                         *)
LEMMA NineMore ==
  ASSUME NEW s \in Seq(Int), NEW t \in Seq(Int), NEW u, u = s \o t
  PROVE  Len(t) = 9 => Len(u) = Len(s) + 9
<1>1. Len(u) = Len(s) + Len(t)
  BY Elements
<1> QED
  BY <1>1, Zenon

(* Three parts of a stream.                                                *)
LEMMA Regroup ==
  ASSUME NEW s \in Seq(Int), NEW t \in Seq(Int), NEW u \in Seq(Int)
  PROVE  (s \o t) \o u = s \o (t \o u)
  BY ConcatAssociative

(* What the phase of a byte says of it.                                    *)
At(bytes, p, j, known) ==
  /\ Phase(p, j) \in {2, 3, 4} => bytes[j] = 0
  /\ Phase(p, j) \in {5, 7} => bytes[j] = 3
  /\ Phase(p, j) = 6 => bytes[j] = 1
  /\ Phase(p, j) = 8 => bytes[j] # 0
  /\ Phase(p, j) = 0 /\ j + 8 <= Len(bytes) =>
       <<256 * bytes[j] + bytes[j + 1], bytes[j + 8]>> \in known

LEMMA PhaseAt ==
  ASSUME NEW bytes, NEW p, NEW known
  PROVE  InPhase(bytes, p, known) <=> \A j \in 1..Len(bytes) : At(bytes, p, j, known)
  BY DEF InPhase, At

(* An answer begins at its beginning.                                      *)
LEMMA WholeInPhase ==
  ASSUME NEW known, Answers(known), NEW bytes, Whole(bytes, known)
  PROVE  /\ bytes \in Seq(Int) /\ Len(bytes) = 9 /\ bytes # <<>>
         /\ InPhase(bytes, 0, known)
<1>1. PICK k \in known : bytes = Answer(k)
  BY DEF Whole
<1>2. k = <<k[1], k[2]>> /\ k[1] \in Nat /\ k[1] < 65536 /\ k[2] \in Nat /\ k[2] # 0
  BY <1>1 DEF Answers
<1>3. /\ bytes \in Seq(Int) /\ Len(bytes) = 9
      /\ 256 * bytes[1] + bytes[2] = k[1]
      /\ bytes[3] = 0 /\ bytes[4] = 0 /\ bytes[5] = 0 /\ bytes[6] = 3
      /\ bytes[7] = 1 /\ bytes[8] = 3 /\ bytes[9] = k[2]
  <2>1. Nine(bytes, k[1], k[2])
    BY <1>1, <1>2, AnswerBytes DEF Answer
  <2> QED
    BY <2>1 DEF Nine
<1>4. \A j \in 1..9 : Phase(0, j) = j - 1
  BY DEF Phase
<1>5. <<256 * bytes[1] + bytes[2], bytes[9]>> \in known
  <2>1. <<256 * bytes[1] + bytes[2], bytes[9]>> = <<k[1], k[2]>>
    BY <1>3
  <2> QED
    BY <1>2, <2>1
<1>6. ASSUME NEW j \in 1..9
      PROVE  At(bytes, 0, j, known)
  <2>1. CASE j = 1
    <3>1. Phase(0, j) = 0 /\ j + 1 = 2 /\ j + 8 = 9
      BY <1>4, <2>1
    <3> QED
      BY <1>5, <2>1, <3>1 DEF At
  <2>2. CASE j # 1
    <3>1. Phase(0, j) = j - 1 /\ Phase(0, j) # 0
      BY <1>4, <2>2
    <3>2. /\ bytes[3] = 0 /\ bytes[4] = 0 /\ bytes[5] = 0 /\ bytes[6] = 3
          /\ bytes[7] = 1 /\ bytes[8] = 3 /\ bytes[9] # 0
      BY <1>2, <1>3
    <3>3. /\ Phase(0, j) \in {2, 3, 4} => j = 3 \/ j = 4 \/ j = 5
          /\ Phase(0, j) \in {5, 7} => j = 6 \/ j = 8
          /\ Phase(0, j) = 6 => j = 7
          /\ Phase(0, j) = 8 => j = 9
      BY <3>1
    <3>4. /\ Phase(0, j) \in {2, 3, 4} => bytes[j] = 0
          /\ Phase(0, j) \in {5, 7} => bytes[j] = 3
          /\ Phase(0, j) = 6 => bytes[j] = 1
          /\ Phase(0, j) = 8 => bytes[j] # 0
      BY <3>2, <3>3
    <3> QED
      BY <3>1, <3>4 DEF At
  <2> QED
    BY <2>1, <2>2
<1>7. bytes # <<>>
  <2>1. Len(<<>>) = 0 /\ Len(bytes) # 0
    BY <1>3
  <2> QED
    BY <2>1, Zenon
<1> QED
  BY <1>3, <1>6, <1>7, PhaseAt

(* A part of a stream is one; each end of it has its phase.                *)
LEMMA PartsInPhase ==
  ASSUME NEW s \in Seq(Int), NEW t \in Seq(Int), NEW p \in Nat, NEW known,
         NEW u, u = s \o t, InPhase(u, p, known)
  PROVE  InPhase(s, p, known) /\ InPhase(t, p + Len(s), known)
<1>1. /\ Len(u) = Len(s) + Len(t) /\ Len(s) \in Nat /\ Len(t) \in Nat
      /\ \A i \in 1..Len(s) : u[i] = s[i]
      /\ \A i \in 1..Len(t) : u[Len(s) + i] = t[i]
  BY Elements
<1>2. \A j \in 1..Len(u) : At(u, p, j, known)
  BY PhaseAt
<1>3. ASSUME NEW j \in 1..Len(s)
      PROVE  At(s, p, j, known)
  <2>1. j \in 1..Len(u) /\ u[j] = s[j]
    BY <1>1
  <2>2. At(u, p, j, known)
    BY <1>2, <2>1
  <2>3. j + 8 <= Len(s) => /\ j + 8 <= Len(u) /\ u[j + 1] = s[j + 1] /\ u[j + 8] = s[j + 8]
    BY <1>1
  <2> QED
    BY <2>1, <2>2, <2>3 DEF At
<1>4. ASSUME NEW j \in 1..Len(t)
      PROVE  At(t, p + Len(s), j, known)
  <2>1. /\ Len(s) + j \in 1..Len(u) /\ u[Len(s) + j] = t[j]
        /\ p + (Len(s) + j) - 1 = p + Len(s) + j - 1
    BY <1>1
  <2>2. At(u, p, Len(s) + j, known) /\ Phase(p, Len(s) + j) = Phase(p + Len(s), j)
    BY <1>2, <2>1 DEF Phase
  <2>3. j + 8 <= Len(t) => /\ Len(s) + j + 8 <= Len(u)
                           /\ u[Len(s) + j + 1] = t[j + 1]
                           /\ u[Len(s) + j + 8] = t[j + 8]
    <3> SUFFICES ASSUME j + 8 <= Len(t)
                 PROVE  /\ Len(s) + j + 8 <= Len(u)
                        /\ u[Len(s) + j + 1] = t[j + 1]
                        /\ u[Len(s) + j + 8] = t[j + 8]
      OBVIOUS
    <3>1. /\ j + 1 \in 1..Len(t) /\ j + 8 \in 1..Len(t)
          /\ Len(s) + (j + 1) = Len(s) + j + 1 /\ Len(s) + (j + 8) = Len(s) + j + 8
          /\ Len(s) + j + 8 <= Len(u)
      BY <1>1
    <3> QED
      BY <1>1, <3>1
  <2> DEFINE k == Len(s) + j
             q == Phase(p + Len(s), j)
  <2>4. At(u, p, k, known) /\ Phase(p, k) = q /\ u[k] = t[j]
    BY <2>1, <2>2
  <2>5. j + 8 <= Len(t) => k + 8 <= Len(u) /\ u[k + 1] = t[j + 1] /\ u[k + 8] = t[j + 8]
    BY <2>3
  <2>6. /\ q \in {2, 3, 4} => u[k] = 0
        /\ q \in {5, 7} => u[k] = 3
        /\ q = 6 => u[k] = 1
        /\ q = 8 => u[k] # 0
        /\ q = 0 /\ k + 8 <= Len(u) => <<256 * u[k] + u[k + 1], u[k + 8]>> \in known
    BY <2>4 DEF At
  <2> HIDE DEF k
  <2>7. /\ q \in {2, 3, 4} => t[j] = 0
        /\ q \in {5, 7} => t[j] = 3
        /\ q = 6 => t[j] = 1
        /\ q = 8 => t[j] # 0
        /\ q = 0 /\ j + 8 <= Len(t) => <<256 * t[j] + t[j + 1], t[j + 8]>> \in known
    <3> HIDE DEF q
    <3> QED
      BY <2>4, <2>5, <2>6
  <2> QED
    BY <2>7 DEF At
<1> QED
  BY <1>3, <1>4, PhaseAt

(* An answer may follow where one ends.                                    *)
LEMMA NextInPhase ==
  ASSUME NEW s \in Seq(Int), NEW t \in Seq(Int), NEW p \in Nat, NEW known,
         NEW u, u = s \o t,
         InPhase(s, p, known), (p + Len(s)) % 9 = 0, InPhase(t, 0, known)
  PROVE  InPhase(u, p, known)
<1>1. /\ Len(u) = Len(s) + Len(t) /\ Len(s) \in Nat /\ Len(t) \in Nat
      /\ \A i \in 1..Len(s) : u[i] = s[i]
      /\ \A i \in 1..Len(t) : u[Len(s) + i] = t[i]
  BY Elements
<1>2. \A j \in 1..Len(s) : At(s, p, j, known)
  BY PhaseAt
<1>3. \A j \in 1..Len(t) : At(t, 0, j, known)
  BY PhaseAt
<1>4. ASSUME NEW j \in 1..Len(s)
      PROVE  At(u, p, j, known)
  <2>1. At(s, p, j, known) /\ u[j] = s[j]
    BY <1>1, <1>2
  <2>2. Phase(p, j) = 0 => j + 8 <= Len(s)
    <3>1. j \in Nat /\ j >= 1 /\ j <= Len(s)
      BY <1>1
    <3> QED
      BY <1>1, <3>1, PhaseDistance DEF Phase
  <2>3. j + 8 <= Len(s) => u[j + 1] = s[j + 1] /\ u[j + 8] = s[j + 8]
    BY <1>1
  <2> QED
    BY <2>1, <2>2, <2>3 DEF At
<1>5. ASSUME NEW j \in 1..Len(t)
      PROVE  At(u, p, Len(s) + j, known)
  <2>1. At(t, 0, j, known) /\ u[Len(s) + j] = t[j]
    BY <1>1, <1>3
  <2>2. Phase(p, Len(s) + j) = Phase(0, j)
    <3>1. Len(s) \in Nat /\ j \in Nat /\ j >= 1
      BY <1>1
    <3> QED
      BY <3>1, PhaseAfter DEF Phase
  <2>3. Len(s) + j + 8 <= Len(u) => /\ j + 8 <= Len(t)
                                    /\ u[Len(s) + j + 1] = t[j + 1]
                                    /\ u[Len(s) + j + 8] = t[j + 8]
    <3> SUFFICES ASSUME Len(s) + j + 8 <= Len(u)
                 PROVE  /\ j + 8 <= Len(t)
                        /\ u[Len(s) + j + 1] = t[j + 1]
                        /\ u[Len(s) + j + 8] = t[j + 8]
      OBVIOUS
    <3>1. /\ j + 1 \in 1..Len(t) /\ j + 8 \in 1..Len(t)
          /\ Len(s) + (j + 1) = Len(s) + j + 1 /\ Len(s) + (j + 8) = Len(s) + j + 8
          /\ j + 8 <= Len(t)
      BY <1>1
    <3> QED
      BY <1>1, <3>1
  <2> QED
    BY <2>1, <2>2, <2>3 DEF At
<1>6. ASSUME NEW j \in 1..Len(u)
      PROVE  At(u, p, j, known)
  <2>1. CASE j \in 1..Len(s)
    BY <1>4, <2>1
  <2>2. CASE j \notin 1..Len(s)
    <3>1. j - Len(s) \in 1..Len(t) /\ Len(s) + (j - Len(s)) = j
      BY <1>1, <2>2
    <3> QED
      BY <1>5, <3>1
  <2> QED
    BY <2>1, <2>2
<1> QED
  BY <1>6, PhaseAt

(* The phases of the first bytes tell of those that a header has to have.  *)
LEMMA PhaseOfHeader ==
  ASSUME NEW p \in Nat
  PROVE  \/ Phase(p, 1) = 0 /\ Phase(p, 5) = 4 /\ Phase(p, 6) = 5
         \/ Phase(p, 7) = 7
         \/ Phase(p, 4) \in {5, 7}
         \/ Phase(p, 3) \in {5, 7, 8}
         \/ Phase(p, 5) \in {2, 3, 4} /\ Phase(p, 6) \in {2, 3, 4}
<1> DEFINE c == p % 9
<1>1. c \in 0..8
  BY PhaseRange
<1>2. /\ p + 1 - 1 = p + 0 /\ p + 3 - 1 = p + 2 /\ p + 4 - 1 = p + 3
      /\ p + 5 - 1 = p + 4 /\ p + 6 - 1 = p + 5 /\ p + 7 - 1 = p + 6
  OBVIOUS
<1>3. \A d \in Nat : (p + d) % 9 = (c + d) % 9
  BY PhaseLater
<1> HIDE DEF c
<1>4. /\ Phase(p, 1) = (c + 0) % 9 /\ Phase(p, 3) = (c + 2) % 9 /\ Phase(p, 4) = (c + 3) % 9
      /\ Phase(p, 5) = (c + 4) % 9 /\ Phase(p, 6) = (c + 5) % 9 /\ Phase(p, 7) = (c + 6) % 9
  BY <1>2, <1>3 DEF Phase
<1> QED
  BY <1>1, <1>4

(* A client takes bytes of a stream for an answer only if they are one.    *)
LEMMA StreamTaken ==
  ASSUME NEW b \in Seq(Int), NEW p \in Nat, NEW known, InPhase(b, p, known),
         Len(b) >= 8, b[3] = 0, b[4] = 0, 256 * b[5] + b[6] = Len(b) - 6,
         b[7] = 1, b[8] = 3
  PROVE  Len(b) = 9 /\ <<256 * b[1] + b[2], b[9]>> \in known
<1>1. \A j \in 1..8 : At(b, p, j, known)
  <2>1. \A j \in 1..8 : j \in 1..Len(b)
    OBVIOUS
  <2> QED
    BY <2>1, PhaseAt
<1>2. /\ At(b, p, 1, known) /\ At(b, p, 3, known) /\ At(b, p, 4, known)
      /\ At(b, p, 5, known) /\ At(b, p, 6, known) /\ At(b, p, 7, known)
  BY <1>1
<1>3. CASE Phase(p, 1) = 0 /\ Phase(p, 5) = 4 /\ Phase(p, 6) = 5
  <2>1. b[5] = 0 /\ b[6] = 3
    BY <1>2, <1>3 DEF At
  <2>2. Len(b) = 9
    BY <2>1
  <2>3. 1 + 8 <= Len(b) /\ 1 + 1 = 2 /\ 1 + 8 = 9
    BY <2>2
  <2> QED
    BY <1>2, <1>3, <2>2, <2>3 DEF At
<1>4. CASE Phase(p, 7) = 7
  <2>1. b[7] = 3
    BY <1>2, <1>4 DEF At
  <2> QED
    BY <2>1
<1>5. CASE Phase(p, 4) \in {5, 7}
  <2>1. b[4] = 3
    BY <1>2, <1>5 DEF At
  <2> QED
    BY <2>1
<1>6. CASE Phase(p, 3) \in {5, 7, 8}
  <2>1. b[3] # 0
    BY <1>2, <1>6 DEF At
  <2> QED
    BY <2>1
<1>7. CASE Phase(p, 5) \in {2, 3, 4} /\ Phase(p, 6) \in {2, 3, 4}
  <2>1. b[5] = 0 /\ b[6] = 0
    BY <1>2, <1>7 DEF At
  <2>2. Len(b) = 6
    BY <2>1
  <2> QED
    BY <2>2
<1> QED
  BY <1>3, <1>4, <1>5, <1>6, <1>7, PhaseOfHeader

(* The bytes that come next.                                               *)
LEMMA FirstBytes ==
  ASSUME NEW sent \in Seq(Carried)
  PROVE  /\ First(sent) \in Seq(Int)
         /\ sent # <<>> => First(sent) = sent[1].bytes /\ sent[1] \in Carried
<1>1. CASE sent = <<>>
  <2>1. First(sent) = <<>> /\ <<>> \in Seq(Int)
    BY <1>1 DEF First
  <2> QED
    BY <1>1, <2>1
<1>2. CASE sent # <<>>
  <2>1. 1 \in 1..Len(sent)
    BY <1>2
  <2>2. sent[1] \in Carried
    BY <2>1, ElementOfSeq
  <2>3. sent[1].bytes \in Seq(Int)
    BY <2>2 DEF Carried
  <2> QED
    BY <1>2, <2>2, <2>3 DEF First
<1> QED
  BY <1>1, <1>2

(* The bytes of a stream.                                                  *)
LEMMA StreamBytes ==
  ASSUME NEW arrived \in Chunks, NEW sent \in Seq(Carried)
  PROVE  /\ FlattenSeq(arrived) \in Seq(Int) /\ First(sent) \in Seq(Int)
         /\ Stream(arrived, sent) \in Seq(Int)
         /\ Len(FlattenSeq(arrived)) \in Nat /\ Len(First(sent)) \in Nat
         /\ Len(Stream(arrived, sent)) = Len(FlattenSeq(arrived)) + Len(First(sent))
<1>1. FlattenSeq(arrived) \in Seq(Int)
  <2>1. <<>> \in Seq(Int)
    OBVIOUS
  <2> QED
    BY <2>1, FlattenAppend
<1>2. First(sent) \in Seq(Int)
  BY FirstBytes
<1> QED
  BY <1>1, <1>2, Elements DEF Stream

(* Nothing is on its way, or nothing has arrived.                          *)
LEMMA StreamEnds ==
  ASSUME NEW arrived \in Chunks, NEW sent \in Seq(Carried)
  PROVE  /\ Stream(arrived, <<>>) = FlattenSeq(arrived)
         /\ Stream(<<>>, sent) = First(sent)
<1>1. FlattenSeq(arrived) \in Seq(Int) /\ First(sent) \in Seq(Int)
  BY StreamBytes
<1>2. First(<<>>) = <<>>
  BY DEF First
<1> QED
  BY <1>1, <1>2, FlattenEmpty, ConcatEmptySeq DEF Stream

(* Without connection there is no stream.                                  *)
LEMMA InOrderEmpty ==
  ASSUME NEW gone, NEW known
  PROVE  InOrder(<<>>, <<>>, gone, known) /\ Stream(<<>>, <<>>) = <<>>
<1>1. <<>> \in Chunks /\ <<>> \in Seq(Carried)
  BY DEF Chunks
<1>2. Stream(<<>>, <<>>) = <<>>
  BY <1>1, StreamEnds, FlattenEmpty
<1>3. InPhase(<<>>, 0, known)
  BY DEF InPhase
<1>4. (0 + Len(<<>>)) % 9 = 0
  OBVIOUS
<1> QED
  BY <1>1, <1>2, <1>3, <1>4 DEF InOrder

(* More answers are known.                                                 *)
LEMMA InOrderKnown ==
  ASSUME NEW arrived, NEW sent, NEW gone, NEW known, NEW more, known \subseteq more,
         InOrder(arrived, sent, gone, known)
  PROVE  InOrder(arrived, sent, gone, more)
<1>1. ASSUME NEW bytes, Whole(bytes, known)
      PROVE  Whole(bytes, more)
  BY <1>1 DEF Whole
<1>2. ASSUME NEW bytes, NEW p \in Nat, InPhase(bytes, p, known)
      PROVE  InPhase(bytes, p, more)
  BY <1>2 DEF InPhase
<1> QED
  BY <1>1, <1>2 DEF InOrder

(* A stream of less than an answer holds none.                             *)
LEMMA InOrderShort ==
  ASSUME NEW arrived, NEW sent, NEW gone, NEW known, NEW others,
         InOrder(arrived, sent, gone, known),
         Len(Stream(arrived, sent)) <= 8, Len(sent) <= 1
  PROVE  InOrder(arrived, sent, gone, others)
<1>1. arrived \in Chunks /\ sent \in Seq(Carried)
  BY DEF InOrder
<1>2. Len(Stream(arrived, sent)) \in Nat /\ Len(sent) \in Nat
  BY <1>1, StreamBytes
<1>3. ASSUME NEW p \in Nat, InPhase(Stream(arrived, sent), p, known)
      PROVE  InPhase(Stream(arrived, sent), p, others)
  <2>1. ASSUME NEW j \in 1..Len(Stream(arrived, sent))
        PROVE  ~(j + 8 <= Len(Stream(arrived, sent)))
    BY <1>2
  <2>2. ASSUME NEW j \in 1..Len(Stream(arrived, sent)),
               At(Stream(arrived, sent), p, j, known)
        PROVE  At(Stream(arrived, sent), p, j, others)
    BY <2>1, <2>2 DEF At
  <2> QED
    BY <1>3, <2>2, PhaseAt
<1>4. \A i \in 2..Len(sent) : Whole(sent[i].bytes, others)
  BY <1>2
<1> QED
  BY <1>3, <1>4 DEF InOrder

(* A client has read all that had arrived.                                 *)
LEMMA InOrderConsumed ==
  ASSUME NEW arrived, NEW sent, NEW gone, NEW known,
         InOrder(arrived, sent, gone, known), arrived # <<>>
  PROVE  /\ InOrder(<<>>, sent, gone, known)
         /\ FlattenSeq(arrived) \in Seq(Int)
         /\ \E p \in Nat : InPhase(FlattenSeq(arrived), p, known)
         /\ Len(Stream(<<>>, sent)) + 1 <= Len(Stream(arrived, sent))
<1>1. arrived \in Chunks /\ sent \in Seq(Carried) /\ FlattenSeq(arrived) # <<>>
  BY DEF InOrder
<1>2. /\ FlattenSeq(arrived) \in Seq(Int) /\ First(sent) \in Seq(Int)
      /\ Len(FlattenSeq(arrived)) \in Nat /\ Len(First(sent)) \in Nat
      /\ Len(Stream(arrived, sent)) = Len(FlattenSeq(arrived)) + Len(First(sent))
      /\ Stream(<<>>, sent) = First(sent)
  BY <1>1, StreamBytes, StreamEnds
<1>3. PICK p \in Nat : /\ InPhase(Stream(arrived, sent), p, known)
                       /\ ~gone => (p + Len(Stream(arrived, sent))) % 9 = 0
  BY DEF InOrder
<1>4. /\ InPhase(FlattenSeq(arrived), p, known)
      /\ InPhase(First(sent), p + Len(FlattenSeq(arrived)), known)
  BY <1>2, <1>3, PartsInPhase DEF Stream
<1>5. p + Len(FlattenSeq(arrived)) \in Nat
  BY <1>2
<1>6. ~gone => (p + Len(FlattenSeq(arrived)) + Len(First(sent))) % 9 = 0
  <2>1. p + (Len(FlattenSeq(arrived)) + Len(First(sent)))
          = p + Len(FlattenSeq(arrived)) + Len(First(sent))
    BY <1>2
  <2> QED
    BY <1>2, <1>3, <2>1
<1>7. InOrder(<<>>, sent, gone, known)
  <2>1. <<>> \in Chunks
    BY DEF Chunks
  <2>2. \A i \in 2..Len(sent) : Whole(sent[i].bytes, known)
    BY DEF InOrder
  <2>3. sent # <<>> => First(sent) # <<>>
    BY DEF InOrder
  <2> QED
    BY <1>1, <1>2, <1>4, <1>5, <1>6, <2>1, <2>2, <2>3 DEF InOrder
<1>8. Len(FlattenSeq(arrived)) # 0
  BY <1>1, <1>2
<1>9. Len(Stream(<<>>, sent)) + 1 <= Len(Stream(arrived, sent))
  BY <1>2, <1>8
<1> QED
  BY <1>2, <1>4, <1>7, <1>9

(* What had not arrived is lost.                                           *)
LEMMA InOrderGone ==
  ASSUME NEW arrived, NEW sent, NEW gone, NEW known,
         InOrder(arrived, sent, gone, known)
  PROVE  /\ InOrder(arrived, <<>>, TRUE, known)
         /\ Len(Stream(arrived, <<>>)) <= Len(Stream(arrived, sent))
<1>1. /\ arrived \in Chunks /\ sent \in Seq(Carried)
      /\ arrived # <<>> => FlattenSeq(arrived) # <<>>
  BY DEF InOrder
<1>2. /\ FlattenSeq(arrived) \in Seq(Int) /\ First(sent) \in Seq(Int)
      /\ Len(FlattenSeq(arrived)) \in Nat /\ Len(First(sent)) \in Nat
      /\ Len(Stream(arrived, sent)) = Len(FlattenSeq(arrived)) + Len(First(sent))
      /\ Stream(arrived, <<>>) = FlattenSeq(arrived)
  BY <1>1, StreamBytes, StreamEnds
<1>3. PICK p \in Nat : InPhase(Stream(arrived, sent), p, known)
  BY DEF InOrder
<1>4. InPhase(FlattenSeq(arrived), p, known)
  BY <1>2, <1>3, PartsInPhase DEF Stream
<1>5. <<>> \in Seq(Carried) /\ \A i \in 2..Len(<<>>) : Whole(<<>>[i].bytes, known)
  OBVIOUS
<1>6. InOrder(arrived, <<>>, TRUE, known)
  BY <1>1, <1>2, <1>4, <1>5 DEF InOrder
<1>7. Len(Stream(arrived, <<>>)) <= Len(Stream(arrived, sent))
  BY <1>2
<1> QED
  BY <1>6, <1>7

(* An end of a whole answer after an end of another.                       *)
LEMMA PhaseNine ==
  ASSUME NEW p \in Nat, NEW n \in Nat, (p + n) % 9 = 0
  PROVE  (p + (n + 9)) % 9 = 0
  OBVIOUS

(* The server sends an answer.                                             *)
LEMMA InOrderSent ==
  ASSUME NEW arrived, NEW sent, NEW known, Answers(known),
         InOrder(arrived, sent, FALSE, known),
         NEW c \in Carried, Whole(c.bytes, known)
  PROVE  /\ InOrder(arrived, Append(sent, c), FALSE, known)
         /\ arrived = <<>> /\ sent = <<>> => Len(Stream(arrived, Append(sent, c))) <= 9
<1> DEFINE more == Append(sent, c)
           n == Len(sent)
<1>1. /\ arrived \in Chunks /\ sent \in Seq(Carried)
      /\ arrived # <<>> => FlattenSeq(arrived) # <<>>
      /\ sent # <<>> => First(sent) # <<>>
      /\ \A i \in 2..Len(sent) : Whole(sent[i].bytes, known)
  BY DEF InOrder
<1>2. /\ more \in Seq(Carried) /\ n \in Nat /\ Len(more) = n + 1 /\ more # <<>>
      /\ more[n + 1] = c
      /\ \A i \in 1..n : more[i] = sent[i]
  BY <1>1, AppendProperties
<1>3. /\ c.bytes \in Seq(Int) /\ Len(c.bytes) = 9 /\ c.bytes # <<>>
      /\ InPhase(c.bytes, 0, known)
  BY WholeInPhase
<1>4. PICK p \in Nat : /\ InPhase(Stream(arrived, sent), p, known)
                       /\ (p + Len(Stream(arrived, sent))) % 9 = 0
  BY DEF InOrder
<1>5. /\ FlattenSeq(arrived) \in Seq(Int) /\ First(sent) \in Seq(Int)
      /\ Stream(arrived, sent) \in Seq(Int)
      /\ Len(Stream(arrived, sent)) \in Nat
  BY <1>1, StreamBytes
<1> HIDE DEF more, n
<1>6. \A i \in 2..Len(more) : Whole(more[i].bytes, known)
  <2> SUFFICES ASSUME NEW i \in 2..Len(more)
               PROVE  Whole(more[i].bytes, known)
    OBVIOUS
  <2>1. CASE i = n + 1
    BY <1>2, <2>1
  <2>2. CASE i # n + 1
    <3>1. i \in 1..n /\ i \in 2..n
      BY <1>2, <2>2
    <3> QED
      BY <1>1, <1>2, <3>1 DEF n
  <2> QED
    BY <2>1, <2>2
<1>7. CASE sent = <<>>
  <2>1. First(sent) = <<>> /\ First(more) = c.bytes
    BY <1>2, <1>7 DEF First, n
  <2>2. Stream(arrived, sent) = FlattenSeq(arrived)
    BY <1>1, <1>7, StreamEnds
  <2>3. Stream(arrived, more) = Stream(arrived, sent) \o c.bytes
    BY <2>1, <2>2 DEF Stream
  <2>4. InPhase(Stream(arrived, more), p, known)
    BY <1>3, <1>4, <1>5, <2>3, NextInPhase
  <2>5. Len(Stream(arrived, more)) = Len(Stream(arrived, sent)) + 9
    BY <1>3, <1>5, <2>3, NineMore
  <2>6. (p + Len(Stream(arrived, more))) % 9 = 0
    BY <1>4, <1>5, <2>5, PhaseNine
  <2>7. First(more) # <<>>
    BY <1>3, <2>1, Zenon
  <2>8. InOrder(arrived, more, FALSE, known)
    BY <1>1, <1>2, <1>6, <2>4, <2>6, <2>7 DEF InOrder
  <2>9. arrived = <<>> => Len(Stream(arrived, more)) <= 9
    <3> SUFFICES ASSUME arrived = <<>>
                 PROVE  Len(Stream(arrived, more)) <= 9
      OBVIOUS
    <3>1. Stream(arrived, sent) = <<>>
      BY <2>2, FlattenEmpty
    <3> QED
      BY <2>5, <3>1
  <2> QED
    BY <2>8, <2>9 DEF more
<1>8. CASE sent # <<>>
  <2>1. First(more) = First(sent)
    <3>1. 1 \in 1..n
      BY <1>1, <1>8 DEF n
    <3> QED
      BY <1>2, <1>8, <3>1 DEF First
  <2>2. Stream(arrived, more) = Stream(arrived, sent)
    BY <2>1 DEF Stream
  <2>3. InOrder(arrived, more, FALSE, known)
    BY <1>1, <1>2, <1>4, <1>6, <1>8, <2>1, <2>2 DEF InOrder
  <2> QED
    BY <1>8, <2>3 DEF more
<1> QED
  BY <1>7, <1>8

(* What remains when one is removed.                                       *)
LEMMA RemoveOne ==
  ASSUME NEW S, NEW s \in Seq(S), NEW i \in DOMAIN s
  PROVE  /\ RemoveAt(s, i) \in Seq(S) /\ Len(RemoveAt(s, i)) = Len(s) - 1
         /\ \A j \in 1..Len(s) - 1 : RemoveAt(s, i)[j] = IF j < i THEN s[j] ELSE s[j + 1]
<1> DEFINE before == SubSeq(s, 1, i - 1)
           after == SubSeq(s, i + 1, Len(s))
<1>1. Len(s) \in Nat /\ i \in Nat /\ i >= 1 /\ i <= Len(s)
  BY LenProperties
<1>2. \A j \in 1..Len(s) : s[j] \in S
  BY ElementOfSeq
<1>3. /\ before \in Seq(S) /\ Len(before) = i - 1
      /\ \A j \in 1..i - 1 : before[j] = s[j]
  BY <1>1, <1>2
<1>4. /\ after \in Seq(S) /\ Len(after) = Len(s) - i
      /\ \A j \in 1..Len(s) - i : after[j] = s[i + j]
  BY <1>1, <1>2
<1>5. RemoveAt(s, i) = before \o after
  BY DEF RemoveAt
<1> HIDE DEF before, after
<1>6. /\ before \o after \in Seq(S) /\ Len(before \o after) = Len(before) + Len(after)
      /\ \A j \in 1..Len(before) + Len(after) :
           (before \o after)[j] = IF j <= Len(before) THEN before[j] ELSE after[j - Len(before)]
  BY <1>3, <1>4, ConcatProperties
<1>7. Len(before) + Len(after) = Len(s) - 1
  BY <1>1, <1>3, <1>4
<1>8. ASSUME NEW j \in 1..Len(s) - 1
      PROVE  RemoveAt(s, i)[j] = IF j < i THEN s[j] ELSE s[j + 1]
  <2>1. RemoveAt(s, i)[j] = IF j <= i - 1 THEN before[j] ELSE after[j - (i - 1)]
    BY <1>3, <1>5, <1>6, <1>7
  <2>2. CASE j < i
    <3>1. j \in 1..i - 1 /\ j <= i - 1
      BY <1>1, <2>2
    <3> QED
      BY <1>3, <2>1, <2>2, <3>1
  <2>3. CASE ~(j < i)
    <3>1. j - (i - 1) \in 1..Len(s) - i /\ i + (j - (i - 1)) = j + 1 /\ ~(j <= i - 1)
      BY <1>1, <2>3
    <3> QED
      BY <1>4, <2>1, <2>3, <3>1
  <2> QED
    BY <2>2, <2>3
<1> QED
  BY <1>5, <1>6, <1>7, <1>8

(* All that is left of an answer is delivered.                             *)
LEMMA InOrderDelivered ==
  ASSUME NEW arrived, NEW sent, NEW known, Answers(known),
         InOrder(arrived, sent, FALSE, known), sent # <<>>
  PROVE  /\ InOrder(Append(arrived, sent[1].bytes), RemoveAt(sent, 1), FALSE, known)
         /\ Len(sent) <= 1 =>
              /\ RemoveAt(sent, 1) = <<>>
              /\ Stream(Append(arrived, sent[1].bytes), RemoveAt(sent, 1))
                   = Stream(arrived, sent)
<1> DEFINE x == sent[1].bytes
           rest == RemoveAt(sent, 1)
           now == Append(arrived, x)
<1>1. /\ arrived \in Chunks /\ sent \in Seq(Carried)
      /\ arrived # <<>> => FlattenSeq(arrived) # <<>>
      /\ First(sent) # <<>>
      /\ \A i \in 2..Len(sent) : Whole(sent[i].bytes, known)
  BY DEF InOrder
<1>2. x = First(sent) /\ x \in Seq(Int) /\ x # <<>>
  BY <1>1, FirstBytes
<1>3. /\ rest \in Seq(Carried) /\ Len(rest) = Len(sent) - 1
      /\ Len(sent) \in Nat /\ Len(sent) >= 1
      /\ \A j \in 1..Len(sent) - 1 : rest[j] = sent[j + 1]
  <2>1. 1 \in DOMAIN sent /\ Len(sent) \in Nat /\ Len(sent) >= 1
    BY <1>1
  <2>2. \A j \in 1..Len(sent) - 1 : ~(j < 1)
    OBVIOUS
  <2> HIDE DEF rest
  <2>3. /\ rest \in Seq(Carried) /\ Len(rest) = Len(sent) - 1
        /\ \A j \in 1..Len(sent) - 1 : rest[j] = IF j < 1 THEN sent[j] ELSE sent[j + 1]
    BY <1>1, <2>1, RemoveOne DEF rest
  <2> QED
    BY <2>1, <2>2, <2>3
<1>4. PICK p \in Nat : /\ InPhase(Stream(arrived, sent), p, known)
                       /\ (p + Len(Stream(arrived, sent))) % 9 = 0
  BY DEF InOrder
<1>5. /\ FlattenSeq(arrived) \in Seq(Int)
      /\ Stream(arrived, sent) \in Seq(Int)
      /\ Len(Stream(arrived, sent)) \in Nat
  BY <1>1, StreamBytes
<1> HIDE DEF x, rest
<1>6. /\ now \in Chunks
      /\ FlattenSeq(now) = Stream(arrived, sent)
      /\ FlattenSeq(now) # <<>>
  <2>1. now \in Chunks /\ FlattenSeq(now) = FlattenSeq(arrived) \o x
    BY <1>1, <1>2, FlattenAppend, AppendProperties DEF Chunks
  <2>2. Len(x) # 0 /\ Len(FlattenSeq(arrived) \o x) = Len(FlattenSeq(arrived)) + Len(x)
    BY <1>2, <1>5
  <2>3. FlattenSeq(now) # <<>>
    <3>1. Len(x) \in Nat /\ Len(FlattenSeq(arrived)) \in Nat
      BY <1>2, <1>5
    <3>2. Len(FlattenSeq(now)) # 0
      BY <2>1, <2>2, <3>1
    <3> QED
      BY <3>2
  <2> QED
    BY <1>2, <2>1, <2>3 DEF Stream
<1> HIDE DEF now
<1>7. \A i \in 2..Len(rest) : Whole(rest[i].bytes, known)
  <2> SUFFICES ASSUME NEW i \in 2..Len(rest)
               PROVE  Whole(rest[i].bytes, known)
    OBVIOUS
  <2>1. i \in 1..Len(sent) - 1 /\ i + 1 \in 2..Len(sent)
    BY <1>3
  <2> QED
    BY <1>1, <1>3, <2>1
<1>8. CASE Len(sent) <= 1
  <2>1. rest = <<>>
    BY <1>3, <1>8
  <2>2. Stream(now, rest) = Stream(arrived, sent)
    BY <1>3, <1>6, <2>1, StreamEnds
  <2>3. InOrder(now, rest, FALSE, known)
    BY <1>3, <1>4, <1>6, <1>7, <2>1, <2>2 DEF InOrder
  <2> QED
    BY <2>1, <2>2, <2>3 DEF now, rest, x
<1>9. CASE ~(Len(sent) <= 1)
  <2>1. 1 \in 1..Len(sent) - 1 /\ 1 + 1 = 2 /\ 2 \in 2..Len(sent) /\ rest # <<>>
    BY <1>3, <1>9
  <2>2. First(rest) = sent[2].bytes
    BY <1>3, <2>1 DEF First
  <2>3. Whole(First(rest), known)
    BY <1>1, <2>1, <2>2
  <2>4. /\ First(rest) \in Seq(Int) /\ Len(First(rest)) = 9 /\ First(rest) # <<>>
        /\ InPhase(First(rest), 0, known)
    BY <2>3, WholeInPhase
  <2>5. Stream(now, rest) = Stream(arrived, sent) \o First(rest)
    BY <1>6 DEF Stream
  <2>6. InPhase(Stream(now, rest), p, known)
    BY <1>4, <1>5, <2>4, <2>5, NextInPhase
  <2>7. Len(Stream(now, rest)) = Len(Stream(arrived, sent)) + 9
    BY <1>5, <2>4, <2>5, NineMore
  <2>8. (p + Len(Stream(now, rest))) % 9 = 0
    BY <1>4, <1>5, <2>7, PhaseNine
  <2>9. InOrder(now, rest, FALSE, known)
    BY <1>3, <1>6, <1>7, <2>4, <2>6, <2>8 DEF InOrder
  <2> QED
    BY <1>9, <2>9 DEF now, rest, x
<1> QED
  BY <1>8, <1>9

(* What remains when the first has lost some bytes.                        *)
Shortened(rest, sent, y) ==
  /\ rest \in Seq(Carried) /\ Len(rest) = Len(sent)
  /\ First(rest) = y
  /\ \A i \in 2..Len(sent) : rest[i] = sent[i]

LEMMA ShortenFirst ==
  ASSUME NEW sent \in Seq(Carried), sent # <<>>, NEW y \in Seq(Int)
  PROVE  Shortened([sent EXCEPT ![1].bytes = y], sent, y)
<1>1. PICK c : c = [sent[1] EXCEPT !.bytes = y]
  OBVIOUS
<1>2. sent[1] \in Carried
  BY FirstBytes
<1>3. c \in Carried /\ c.bytes = y
  BY <1>1, <1>2 DEF Carried
<1>4. PICK r : r = [sent EXCEPT ![1] = c]
  OBVIOUS
<1>5. r = [sent EXCEPT ![1].bytes = y]
  BY <1>1, <1>4
<1>6. Len(sent) \in Nat /\ 1 \in 1..Len(sent) /\ \A i \in 2..Len(sent) : i \in 1..Len(sent) /\ i # 1
  OBVIOUS
<1>7. /\ r \in Seq(Carried) /\ Len(r) = Len(sent)
      /\ \A i \in 1..Len(sent) : r[i] = IF i = 1 THEN c ELSE sent[i]
  BY <1>3, <1>4, <1>6, ExceptSeq
<1>8. r # <<>>
  <2>1. Len(r) # 0 /\ Len(<<>>) = 0
    BY <1>6, <1>7
  <2> QED
    BY <2>1, Zenon
<1>9. Shortened(r, sent, y)
  BY <1>3, <1>6, <1>7, <1>8 DEF Shortened, First
<1> QED
  BY <1>5, <1>9

(* A part of an answer is delivered.                                       *)
TwoParts(s, x, y) ==
  x \in Seq(Int) /\ y \in Seq(Int) /\ x # <<>> /\ y # <<>> /\ s = x \o y

Moved(now, rest, arrived, sent, known) ==
  InOrder(now, rest, FALSE, known) /\ Stream(now, rest) = Stream(arrived, sent)

LEMMA InOrderPart ==
  ASSUME NEW arrived, NEW sent, NEW known,
         InOrder(arrived, sent, FALSE, known), sent # <<>>,
         NEW x, NEW y, TwoParts(First(sent), x, y),
         NEW rest, Shortened(rest, sent, y)
  PROVE  Moved(Append(arrived, x), rest, arrived, sent, known)
<1>0. x \in Seq(Int) /\ y \in Seq(Int) /\ x # <<>> /\ y # <<>> /\ First(sent) = x \o y
  BY DEF TwoParts
<1> DEFINE now == Append(arrived, x)
<1>1. /\ arrived \in Chunks /\ sent \in Seq(Carried)
      /\ \A i \in 2..Len(sent) : Whole(sent[i].bytes, known)
  BY DEF InOrder
<1>2. /\ rest \in Seq(Carried) /\ Len(rest) = Len(sent) /\ First(rest) = y
      /\ \A i \in 2..Len(sent) : rest[i] = sent[i]
  BY DEF Shortened
<1>3. /\ now \in Chunks /\ FlattenSeq(now) = FlattenSeq(arrived) \o x
      /\ FlattenSeq(arrived) \in Seq(Int)
  BY <1>0, <1>1, FlattenAppend, AppendProperties DEF Chunks
<1>4. Stream(now, rest) = Stream(arrived, sent)
  <2>1. (FlattenSeq(arrived) \o x) \o y = FlattenSeq(arrived) \o (x \o y)
    BY <1>0, <1>3, Regroup
  <2> QED
    BY <1>0, <1>2, <1>3, <2>1 DEF Stream
<1>5. FlattenSeq(now) # <<>>
  <2>1. /\ Len(FlattenSeq(now)) = Len(FlattenSeq(arrived)) + Len(x)
        /\ Len(FlattenSeq(arrived)) \in Nat /\ Len(x) \in Nat
    BY <1>0, <1>3, Elements
  <2>2. Len(x) # 0
    BY <1>0
  <2>3. Len(FlattenSeq(now)) # 0
    BY <2>1, <2>2
  <2> QED
    BY <2>3
<1> HIDE DEF now
<1>6. \A i \in 2..Len(rest) : Whole(rest[i].bytes, known)
  BY <1>1, <1>2
<1>7. \E p \in Nat : /\ InPhase(Stream(now, rest), p, known)
                     /\ (p + Len(Stream(now, rest))) % 9 = 0
  BY <1>4 DEF InOrder
<1>8. InOrder(now, rest, FALSE, known)
  BY <1>0, <1>2, <1>3, <1>5, <1>6, <1>7 DEF InOrder
<1> QED
  BY <1>4, <1>8 DEF now, Moved

-----------------------------------------------------------------------------
(***************************************************************************)
(* The answers that are known, and what a step makes of them.              *)
(***************************************************************************)

(* An identifier grows older by one, as long as it is not the next.        *)
LEMMA OlderByOne ==
  ASSUME NEW t \in Nat, t < 65536, NEW id \in Nat, id < 65536, (t - id) % 65536 < 65535
  PROVE  (((t + 1) % 65536) - id) % 65536 = ((t - id) % 65536) + 1
  OBVIOUS

(* An age is a number.                                                     *)
LEMMA AgeNumber ==
  ASSUME NEW t \in Nat, NEW id \in Nat
  PROVE  (t - id) % 65536 \in Nat
  OBVIOUS

(* An identifier of no age is the one in use.                              *)
LEMMA SameIdentifier ==
  ASSUME NEW t \in Nat
  PROVE  (t - t) % 65536 = 0
  OBVIOUS

(* Known answers have numbers.                                             *)
LEMMA KnownNumbers ==
  ASSUME answered \in Seq(Int)
  PROVE  Answers(Known)
  BY DEF Answers, Known

(* ... and so after a step.                                                *)
LEMMA KnownNumbersNext ==
  ASSUME answered' \in Seq(Int)
  PROVE  Answers(Known')
  BY DEF Answers, Known

(* A step that neither asks nor answers.                                   *)
LEMMA KnownSame ==
  ASSUME UNCHANGED <<transaction, asked, answered>>
  PROVE  Known' = Known
  BY DEF Known, Age

(* A request that takes the next identifier makes all others older.        *)
LEMMA KnownAsk ==
  ASSUME Requests < 65536, TypeOK, answered \in Seq(Int),
         asked < Requests, asked' = asked + 1, answered' = answered,
         transaction' = (transaction + 1) % 65536
  PROVE  Known \subseteq Known'
<1> SUFFICES ASSUME NEW k \in Known
             PROVE  k \in Known'
  OBVIOUS
<1>1. /\ k \in Nat \X Nat /\ k[1] < 65536 /\ Age(k[1]) < asked
      /\ k[2] \in DOMAIN answered
  BY DEF Known
<1>2. k[1] \in Nat /\ transaction \in Nat /\ transaction < 65536
  BY <1>1 DEF TypeOK
<1>3. asked \in Nat /\ Requests \in Nat
  BY TransportAssumption DEF TypeOK
<1>4. Age(k[1]) \in Nat
  BY <1>2, AgeNumber DEF Age
<1>5. Age(k[1])' = Age(k[1]) + 1
  <2>1. Age(k[1]) < 65535
    BY <1>1, <1>3, <1>4
  <2>2. PICK t \in Nat, id \in Nat : t = transaction /\ id = k[1]
    BY <1>2
  <2>3. Age(k[1]) = (t - id) % 65536 /\ Age(k[1])' = (((t + 1) % 65536) - id) % 65536
    BY <2>2 DEF Age
  <2>4. t < 65536 /\ id < 65536 /\ (t - id) % 65536 < 65535
    BY <1>1, <1>2, <2>1, <2>2, <2>3
  <2>5. (((t + 1) % 65536) - id) % 65536 = ((t - id) % 65536) + 1
    BY <2>4, OlderByOne
  <2> QED
    BY <2>3, <2>5
<1>6. Age(k[1])' < asked' /\ Age(k[1])' # 0
  BY <1>1, <1>3, <1>4, <1>5
<1> QED
  BY <1>1, <1>6 DEF Known

(* An answer to the last request.                                          *)
LEMMA KnownWrite ==
  ASSUME TypeOK, answered \in Seq(Int), asked # 0,
         UNCHANGED <<transaction, asked>>, answered' = Append(answered, asked)
  PROVE  /\ answered' \in Seq(Int)
         /\ Known \subseteq Known'
         /\ <<transaction, Len(answered) + 1>> \in Known'
<1>1. asked \in Nat /\ asked > 0 /\ transaction \in Nat /\ transaction < 65536
  BY TransportAssumption DEF TypeOK
<1>2. /\ answered' \in Seq(Int) /\ Len(answered) \in Nat
      /\ DOMAIN answered = 1..Len(answered)
      /\ DOMAIN answered' = 1..Len(answered) + 1
      /\ answered'[Len(answered) + 1] = asked
      /\ \A i \in 1..Len(answered) : answered'[i] = answered[i]
  BY <1>1, AppendProperties
<1>3. ASSUME NEW k \in Known
      PROVE  k \in Known'
  <2>1. /\ k \in Nat \X Nat /\ k[1] < 65536 /\ Age(k[1]) < asked
        /\ k[2] \in DOMAIN answered
        /\ Age(k[1]) = 0 => answered[k[2]] = asked
    BY DEF Known
  <2>2. Age(k[1])' = Age(k[1])
    BY DEF Age
  <2>3. k[2] \in DOMAIN answered' /\ answered'[k[2]] = answered[k[2]]
    BY <1>2, <2>1
  <2> QED
    BY <2>1, <2>2, <2>3 DEF Known
<1>4. <<transaction, Len(answered) + 1>> \in Known'
  <2>1. PICK k : k = <<transaction, Len(answered) + 1>>
    OBVIOUS
  <2>2. k \in Nat \X Nat /\ k[1] = transaction /\ k[2] = Len(answered) + 1
    BY <1>1, <1>2, <2>1
  <2>3. Age(k[1])' = 0
    <3>1. Age(k[1])' = (transaction - transaction) % 65536
      BY <2>2 DEF Age
    <3> QED
      BY <1>1, <3>1, SameIdentifier
  <2>4. k[2] \in DOMAIN answered' /\ answered'[k[2]] = asked
    BY <1>2, <2>2
  <2>5. Age(k[1])' < asked' /\ k[1] < 65536
    BY <1>1, <2>2, <2>3
  <2> QED
    BY <2>1, <2>2, <2>4, <2>5 DEF Known
<1> QED
  BY <1>2, <1>3, <1>4

(* More answers are known, to datagrams.                                   *)
LEMMA DatagramsKnown ==
  ASSUME NEW arrived, NEW sent, NEW known, NEW more, known \subseteq more,
         Datagrams(arrived, sent, known)
  PROVE  Datagrams(arrived, sent, more)
  BY DEF Datagrams, Whole

-----------------------------------------------------------------------------
(***************************************************************************)
(* What is taken for an answer.                                            *)
(***************************************************************************)

(* Of a stream only a known answer is, if there is room for its number.    *)
LEMMA StreamAccepted ==
  ASSUME NEW b \in Seq(Int), NEW p \in Nat, NEW known, InPhase(b, p, known),
         NEW room \in Nat, NEW q, q = NetRead(b, room),
         q.status = "Good", q.unit = Unit, q.func = Func
  PROVE  q.data = <<>> \/ \E n : q.data = <<n>> /\ <<q.id, n>> \in known
<1>1. /\ Len(b) >= 8 /\ b[3] = 0 /\ b[4] = 0 /\ 256 * b[5] + b[6] = Len(b) - 6
      /\ q = Taken(256 * b[1] + b[2], SubSeq(b, 7, Len(b)), room)
  BY ReadAccepts
<1>2. PICK body, id : body = SubSeq(b, 7, Len(b)) /\ id = 256 * b[1] + b[2]
  OBVIOUS
<1>3. /\ body \in Seq(Int) /\ Len(body) = Len(b) - 6
      /\ body[1] = b[7] /\ body[2] = b[8]
      /\ Len(b) = 9 => body[3] = b[9]
  BY <1>1, <1>2, FrameEnd
<1>4. /\ q.status = "Good" /\ q.id = id /\ q.unit = body[1] /\ q.func = body[2]
      /\ Len(body) = 3 /\ room = 0 => q.data = <<>>
      /\ Len(body) = 3 /\ room # 0 => q.data = <<body[3]>>
  <2>1. q = Taken(id, body, room) /\ body \in Seq(Int)
    BY <1>1, <1>2, <1>3
  <2> QED
    BY <2>1, TakenBytes
<1>5. b[7] = 1 /\ b[8] = 3
  BY <1>3, <1>4 DEF Unit, Func
<1>6. Len(b) = 9 /\ <<id, b[9]>> \in known
  BY <1>1, <1>2, <1>5, StreamTaken
<1>7. Len(body) = 3 /\ body[3] = b[9]
  BY <1>3, <1>6
<1> QED
  BY <1>4, <1>6, <1>7

(* A whole answer is taken for itself.                                     *)
LEMMA WholeAccepted ==
  ASSUME NEW known, Answers(known), NEW b, Whole(b, known),
         NEW room \in Nat, NEW q, q = NetRead(b, room)
  PROVE  q.data = <<>> \/ \E n : q.data = <<n>> /\ <<q.id, n>> \in known
<1>1. PICK k \in known : b = Answer(k)
  BY DEF Whole
<1>2. k = <<k[1], k[2]>> /\ k[1] \in Nat /\ k[1] < 65536 /\ k[2] \in Nat
  BY <1>1 DEF Answers
<1>3. Nine(b, k[1], k[2])
  BY <1>1, <1>2, AnswerBytes DEF Answer
<1>4. /\ q.id = k[1]
      /\ room = 0 => q.data = <<>>
      /\ room # 0 => q.data = <<k[2]>>
  BY <1>3, FrameRead
<1>5. <<q.id, k[2]>> \in known
  BY <1>2, <1>4
<1> QED
  BY <1>4, <1>5

(* A known answer that has the identifier in use is the one to the request.*)
LEMMA TakenIsOwn ==
  ASSUME frame = "NET", TypeOK, UNCHANGED <<settings, tries, transaction, asked, answered>>,
         NEW b, NEW room, Take(b, room), NEW q, q = NetRead(b, room),
         q.status = "Good" /\ q.unit = Unit /\ q.func = Func =>
           q.data = <<>> \/ \E n : q.data = <<n>> /\ <<q.id, n>> \in Known
  PROVE  OwnAnswer'
<1> SUFFICES ASSUME outcome'.data # <<>>
             PROVE  answered'[outcome'.data[1]] = asked'
  BY DEF OwnAnswer
<1>1. Read(frame, b, room) = q
  BY DEF Read
<1>2. outcome' = [status |-> Verdict(b, room),
                  data |-> IF Verdict(b, room) = "Good" THEN q.data ELSE <<>>]
  BY <1>1 DEF Take
<1>3. Verdict(b, room) = "Good" /\ outcome'.data = q.data
  BY <1>2
<1>4. q.status = "Good" /\ q.id = transaction /\ q.unit = Unit /\ q.func = Func
  BY <1>1, <1>3 DEF Verdict
<1>5. PICK n : q.data = <<n>> /\ <<transaction, n>> \in Known
  BY <1>3, <1>4
<1>6. PICK k : k = <<transaction, n>>
  OBVIOUS
<1>7. k[1] = transaction /\ k[2] = n /\ k \in Known
  BY <1>5, <1>6
<1>8. Age(k[1]) = 0
  <2>1. transaction \in Nat /\ Age(k[1]) = (transaction - transaction) % 65536
    BY <1>7 DEF TypeOK, Age
  <2> QED
    BY <2>1, SameIdentifier
<1>9. answered[k[2]] = asked
  BY <1>7, <1>8 DEF Known
<1>10. outcome'.data[1] = n
  BY <1>3, <1>5
<1> QED
  BY <1>7, <1>9, <1>10

-----------------------------------------------------------------------------
(***************************************************************************)
(* The steps of an engine that carries NET frames.                         *)
(***************************************************************************)

(* All that was under way is gone with the socket, or stays.               *)
Emptied == input' = <<>> /\ wire' = <<>> /\ error' = FALSE
Stays == UNCHANGED <<input, wire, hangup, valid>> /\ (error' = FALSE \/ error' = error)

(* A new stream is in order.                                               *)
LEMMA StreamEmptied ==
  ASSUME Emptied
  PROVE  StreamInv'
<1>1. InOrder(<<>>, <<>>, hangup', Known') /\ Stream(<<>>, <<>>) = <<>>
  BY InOrderEmpty
<1>2. Len(<<>>) = 0
  OBVIOUS
<1>3. Lost'
  BY DEF Emptied, Lost
<1>4. Borrowed'
  BY <1>1, <1>2 DEF Emptied, Borrowed
<1> QED
  BY <1>1, <1>3, <1>4 DEF Emptied, StreamInv

(* A stream that nobody touches stays so.                                  *)
LEMMA StreamStays ==
  ASSUME StreamInv, Stays, blocked, engine' = engine \/ engine # "READ",
         UNCHANGED <<transaction, asked, answered, blocked, autoIncrement>>
  PROVE  StreamInv'
<1>1. Known' = Known
  BY KnownSame
<1>2. InOrder(input', wire', hangup', Known')
  BY <1>1 DEF StreamInv, Stays
<1>3. Lost'
  <2>1. CASE error' = FALSE
    BY <2>1 DEF StreamInv, Stays, Lost
  <2>2. CASE error' = error
    BY <2>2 DEF StreamInv, Stays, Lost
  <2> QED
    BY <2>1, <2>2 DEF Stays
<1>4. Borrowed'
  BY DEF StreamInv, Stays, Borrowed
<1> QED
  BY <1>2, <1>3, <1>4 DEF StreamInv

(* The engine goes on with an attempt or ends it, and takes no answer.     *)
Quiet ==
  /\ blocked /\ UNCHANGED <<settings, tries, transaction, asked, answered>>
  /\ Emptied \/ Stays
  /\ \/ SameAttempt /\ (engine' = engine \/ engine # "READ")
     \/ \E r : AttemptFails(r) /\ (line = "tcp" => Emptied)

(* Then no data come of it, and the answers are kept.                      *)
LEMMA QuietAnswer ==
  ASSUME Inv, frame = "NET", Quiet
  PROVE  AnswerInv'
<1>1. UNCHANGED <<frame, line, tries>>
  BY SameLine DEF Quiet
<1>2. TypeOK /\ BufferKept /\ AnswerInv /\ blocked
  BY DEF Inv, PortInv, Quiet
<1>3. answered' \in Seq(Int) /\ asked' # 0
  BY <1>2 DEF AnswerInv, Quiet
<1>4. outcome'.data = <<>>
  <2>1. CASE SameAttempt
    BY <1>1, <1>2, <2>1, SameAttemptKeeps
  <2>2. CASE \E r : AttemptFails(r)
    BY <1>1, <1>2, <2>2, FailedAttempt
  <2> QED
    BY <2>1, <2>2 DEF Quiet
<1>5. OwnAnswer'
  BY <1>4 DEF OwnAnswer
<1>6. ASSUME line = "tcp"
      PROVE  StreamInv'
  <2>1. CASE Emptied
    BY <2>1, StreamEmptied
  <2>2. CASE Stays /\ SameAttempt /\ (engine' = engine \/ engine # "READ")
    <3>1. UNCHANGED <<transaction, asked, answered, blocked, autoIncrement>>
      BY <2>2 DEF Quiet, SameAttempt
    <3>2. StreamInv
      BY <1>2, <1>6 DEF AnswerInv
    <3> QED
      BY <1>2, <2>2, <3>1, <3>2, StreamStays
  <2> QED
    BY <1>6, <2>1, <2>2 DEF Quiet
<1>7. ASSUME line = "udp", tries = 1
      PROVE  DatagramInv'
  <2>1. Datagrams(input, wire, Known) /\ autoIncrement = TRUE
    BY <1>2, <1>7 DEF AnswerInv, DatagramInv
  <2>2. autoIncrement' = TRUE
    <3>1. CASE SameAttempt
      BY <2>1, <3>1 DEF SameAttempt
    <3>2. CASE \E r : AttemptFails(r)
      <4>1. ~(repeats + 1 < tries)
        BY <1>2, <1>7 DEF TypeOK
      <4> QED
        BY <2>1, <3>2, <4>1 DEF AttemptFails
    <3> QED
      BY <3>1, <3>2 DEF Quiet
  <2>3. Known' = Known
    BY KnownSame DEF Quiet
  <2>4. Datagrams(input', wire', Known')
    <3>1. CASE Emptied
      <4>1. Datagrams(<<>>, <<>>, Known')
        BY DEF Datagrams, Chunks
      <4> QED
        BY <3>1, <4>1 DEF Emptied
    <3>2. CASE Stays
      BY <2>1, <2>3, <3>2 DEF Stays
    <3> QED
      BY <3>1, <3>2 DEF Quiet
  <2> QED
    BY <2>2, <2>4 DEF DatagramInv
<1> QED
  BY <1>1, <1>3, <1>5, <1>6, <1>7 DEF AnswerInv

(* What a connection that has ended, or was reset, leaves.                 *)
LEMMA LostAll ==
  ASSUME Lost, ~valid \/ error
  PROVE  input = <<>> /\ wire = <<>>
  BY DEF Lost

(* The engine looks whether the port is open.                              *)
LEMMA LookQuiet ==
  ASSUME frame = "NET", TypeOK, LookWhetherOpen
  PROVE  Quiet
<1>1. PICK up \in BOOLEAN : isOpen(up)
  BY DEF LookWhetherOpen
<1>2. Stays
  BY <1>1 DEF isOpen, Stays
<1> QED
  BY <1>2 DEF LookWhetherOpen, EngineStep, Quiet

(* open() leaves a socket as it is or makes a new one.                     *)
LEMMA OpenQuiet ==
  ASSUME frame = "NET", TypeOK, Open
  PROVE  Quiet
<1>1. Net /\ open /\ engine \in {"CLOSED", "WAIT_FOR_OPEN"}
  BY NetLine DEF Open
<1>2. Fresh => Emptied
  BY <1>1 DEF Fresh, Emptied
<1>3. (Stays /\ call'.result = "Good") \/ Emptied
  <2>1. ASSUME OpenAlready
        PROVE  Stays /\ call'.result = "Good"
    BY <2>1 DEF OpenAlready, Returns, Stays
  <2>2. Opening => Emptied
    BY <1>2 DEF Opening
  <2>3. OpenFails \/ OpenUdp \/ OpenSerial => Emptied
    BY <2>2 DEF OpenFails, OpenUdp, OpenSerial
  <2>4. OpenTcp => Emptied
    BY <1>2, <2>2 DEF OpenTcp
  <2> QED
    BY <1>1, <2>1, <2>3, <2>4 DEF open
<1>4. \/ SameAttempt
      \/ AttemptFails("Bad") /\ call'.result = "Bad"
  <2>1. call'.result \in {"Good", "Bad", "Processing"}
    BY <1>1 DEF open, OpenAlready, OpenFails, OpenUdp, OpenSerial, OpenTcp,
       ConnectEnds, Connecting, Returns
  <2> QED
    BY <2>1 DEF Open
<1>5. engine # "READ"
  BY <1>1
<1>6. blocked /\ UNCHANGED <<settings, tries, transaction, asked, answered>>
  BY DEF Open, EngineStep
<1>7. CASE SameAttempt
  BY <1>3, <1>5, <1>6, <1>7 DEF Quiet
<1>8. CASE AttemptFails("Bad") /\ call'.result = "Bad"
  <2>1. Emptied
    BY <1>3, <1>8
  <2> QED
    BY <1>6, <1>8, <2>1 DEF Quiet
<1> QED
  BY <1>4, <1>7, <1>8

(* The engine closes a port whose settings have changed.                   *)
LEMMA ReopenQuiet ==
  ASSUME frame = "NET", TypeOK, Reopen
  PROVE  Quiet
<1>1. Emptied
  BY NetLine DEF Reopen, close, Fresh, Emptied
<1> QED
  BY <1>1 DEF Reopen, EngineStep, Quiet

(* The engine finds the port open, or what it held lost.                   *)
LEMMA PrepareWriteQuiet ==
  ASSUME frame = "NET", TypeOK, PrepareWrite, line = "tcp" => Lost
  PROVE  Quiet
<1>1. PICK up \in BOOLEAN :
        /\ isOpen(up)
        /\ IF up THEN engine' = "WRITE" /\ SameAttempt
                 ELSE engine' = "CLOSED" /\ AttemptFails("BadPortClosed")
  BY DEF PrepareWrite
<1>2. Stays
  BY <1>1 DEF isOpen, Stays
<1>3. blocked /\ UNCHANGED <<settings, tries, transaction, asked, answered>> /\ engine # "READ"
  BY DEF PrepareWrite, EngineStep
<1>4. CASE up
  <2>1. SameAttempt
    BY <1>1, <1>4
  <2> QED
    BY <1>2, <1>3, <2>1 DEF Quiet
<1>5. CASE ~up
  <2>1. AttemptFails("BadPortClosed") /\ (~valid \/ error) /\ error' = FALSE
    BY <1>1, <1>5 DEF isOpen
  <2>2. line = "tcp" => Emptied
    BY <1>2, <2>1, LostAll DEF Emptied, Stays
  <2> QED
    BY <1>2, <1>3, <2>1, <2>2 DEF Quiet
<1> QED
  BY <1>4, <1>5

(* A socket that cannot be used.                                           *)
LEMMA UnusableLine ==
  ASSUME line = "tcp" => Lost, NEW states, NEW op, ~Usable(states), NotUsable(op)
  PROVE  Stays /\ (line = "tcp" => Emptied) /\ call' = [op |-> op, result |-> "Bad"]
<1>1. ~valid \/ error
  BY DEF Usable
<1>2. error' = FALSE /\ UNCHANGED <<input, wire, hangup, valid>>
      /\ call' = [op |-> op, result |-> "Bad"]
  BY DEF NotUsable, Returns
<1> QED
  BY <1>1, <1>2, LostAll DEF Stays, Emptied

(* A socket that closes.                                                   *)
LEMMA ClosedLine ==
  ASSUME Net, close
  PROVE  Emptied
  BY DEF close, Fresh, Emptied

(* The port cannot write.                                                  *)
LEMMA WriteFailsQuiet ==
  ASSUME frame = "NET", TypeOK, WriteFails, line = "tcp" => Lost
  PROVE  Quiet
<1>1. Net /\ SendNetFails
  BY NetLine DEF WriteFails, NotSent, SendSerial
<1>2. (Emptied \/ Stays) /\ (line = "tcp" => Emptied) /\ call'.result = "Bad"
  <2>1. CASE Usable({"OPENED"})
    BY <1>1, <2>1, ClosedLine DEF SendNetFails, Returns
  <2>2. CASE ~Usable({"OPENED"})
    BY <1>1, <2>2, UnusableLine DEF SendNetFails
  <2> QED
    BY <2>1, <2>2
<1>3. AttemptFails("Bad")
  BY <1>2 DEF WriteFails
<1> QED
  BY <1>2, <1>3 DEF WriteFails, EngineStep, Quiet

(* The time-out between two tries passes.                                  *)
LEMMA PauseQuiet ==
  ASSUME Pause
  PROVE  Quiet
<1>1. Stays
  BY DEF Pause, Stays
<1> QED
  BY <1>1 DEF Pause, EngineStep, Quiet

(* The engine reads no answer, or one.                                     *)
LEMMA ReadQuiet ==
  ASSUME frame = "NET", TypeOK, ReadAnswer, line = "tcp" => Lost
  PROVE  Quiet \/ (ReceiveNet /\ \E room \in {0, 1} : Take(buff', room))
<1>1. Net /\ read
  BY NetLine DEF ReadAnswer
<1>2. blocked /\ UNCHANGED <<settings, tries, transaction, asked, answered>>
  BY DEF ReadAnswer, EngineStep
<1>3. CASE ReceiveNet
  <2>1. call'.result = "Good"
    BY <1>3 DEF ReceiveNet, Reads, Returns
  <2>2. \E room \in {0, 1} : Take(buff', room)
    BY <2>1 DEF ReadAnswer
  <2> QED
    BY <1>3, <2>2
<1>4. CASE ReceiveNetFails
  <2>1. (Emptied \/ Stays) /\ (line = "tcp" => Emptied) /\ call'.result = "Bad"
    <3>1. CASE Usable({"OPENED", "WAIT_FOR_READ"})
      BY <1>1, <1>4, <3>1, ClosedLine DEF ReceiveNetFails, Returns
    <3>2. CASE ~Usable({"OPENED", "WAIT_FOR_READ"})
      BY <1>4, <3>2, UnusableLine DEF ReceiveNetFails
    <3> QED
      BY <3>1, <3>2
  <2>2. AttemptFails("Bad")
    BY <2>1 DEF ReadAnswer
  <2> QED
    BY <1>2, <2>1, <2>2 DEF Quiet
<1>5. CASE ReceiveUdpTimeout
  <2>1. line # "tcp" /\ Stays /\ call'.result = "Bad"
    BY <1>5 DEF ReceiveUdpTimeout, Reads, Returns, Stays
  <2>2. AttemptFails("Bad")
    BY <2>1 DEF ReadAnswer
  <2> QED
    BY <1>2, <2>1, <2>2 DEF Quiet
<1>6. CASE AwaitNet
  <2>1. Stays /\ call'.result = "Processing"
    BY <1>6 DEF AwaitNet, Reads, Returns, Stays
  <2>2. SameAttempt /\ engine' = engine
    BY <2>1 DEF ReadAnswer
  <2> QED
    BY <1>2, <2>1, <2>2 DEF Quiet
<1>7. ~ReceiveSerialBlocking /\ ~ReceiveSerialFails /\ \A r : ~ReceiveSerial(r)
  BY NetLine DEF ReceiveSerialBlocking, ReceiveSerialFails, ReceiveSerial
<1> QED
  BY <1>1, <1>3, <1>4, <1>5, <1>6, <1>7 DEF read

(* An answer is read.                                                      *)
LEMMA TakeAnswer ==
  ASSUME Inv, frame = "NET", ReadAnswer, ReceiveNet, NEW room \in {0, 1}, Take(buff', room)
  PROVE  AnswerInv'
<1>1. /\ UNCHANGED <<settings, tries, transaction, asked, answered>>
      /\ blocked' = FALSE /\ autoIncrement' = autoIncrement
  BY DEF ReadAnswer, EngineStep, Take
<1>2. /\ input # <<>>
      /\ buff' = IF line = "tcp" THEN FlattenSeq(input) ELSE Head(input)
      /\ input' = IF line = "tcp" THEN <<>> ELSE Tail(input)
      /\ UNCHANGED <<valid, error, hangup, wire>>
  BY DEF ReceiveNet, Reads
<1>3. TypeOK /\ AnswerInv /\ room \in Nat
  BY DEF Inv, PortInv
<1>4. UNCHANGED <<frame, line, tries>> /\ line \in {"tcp", "udp"}
  BY <1>1, <1>3, SameLine, NetLine
<1>5. Known' = Known
  BY <1>1, KnownSame
<1>6. answered \in Seq(Int) /\ answered' \in Seq(Int)
  BY <1>1, <1>3 DEF AnswerInv
<1>7. Answers(Known)
  BY <1>6, KnownNumbers
<1>8. PICK b : b = buff' /\ Take(b, room)
  OBVIOUS
<1>9. PICK q : q = NetRead(b, room)
  OBVIOUS
<1>10. CASE line = "tcp"
  <2>1. InOrder(input, wire, hangup, Known) /\ Lost /\ Borrowed
    BY <1>3, <1>10 DEF AnswerInv, StreamInv
  <2>2. /\ InOrder(<<>>, wire, hangup, Known)
        /\ FlattenSeq(input) \in Seq(Int)
        /\ \E p \in Nat : InPhase(FlattenSeq(input), p, Known)
        /\ Len(Stream(<<>>, wire)) + 1 <= Len(Stream(input, wire))
    BY <1>2, <2>1, InOrderConsumed
  <2>3. b \in Seq(Int) /\ \E p \in Nat : InPhase(b, p, Known)
    BY <1>2, <1>8, <1>10, <2>2
  <2>4. q.status = "Good" /\ q.unit = Unit /\ q.func = Func =>
          q.data = <<>> \/ \E n : q.data = <<n>> /\ <<q.id, n>> \in Known
    BY <1>3, <1>9, <2>3, StreamAccepted
  <2>5. OwnAnswer'
    BY <1>1, <1>3, <1>8, <1>9, <2>4, TakenIsOwn
  <2>6. InOrder(input', wire', hangup', Known')
    BY <1>2, <1>5, <1>10, <2>2
  <2>7. Lost'
    BY <1>2, <1>10, <2>1 DEF Lost
  <2>8. Borrowed'
    <3>1. CASE autoIncrement
      BY <1>1, <3>1 DEF Borrowed
    <3>2. CASE ~autoIncrement
      <4>1. Len(wire) <= 1 /\ Len(Stream(input, wire)) <= 9
        BY <2>1, <3>2 DEF Borrowed
      <4>2. Len(Stream(<<>>, wire)) \in Nat /\ Len(Stream(input, wire)) \in Nat
        <5>1. input \in Chunks /\ wire \in Seq(Carried) /\ <<>> \in Chunks
          BY <2>1 DEF InOrder, Chunks
        <5> QED
          BY <5>1, StreamBytes
      <4>3. Len(Stream(<<>>, wire)) <= 8
        BY <2>2, <4>1, <4>2
      <4>4. Len(Stream(<<>>, wire)) <= 9
        BY <4>2, <4>3
      <4>5. input' = <<>> /\ wire' = wire
        BY <1>2, <1>10
      <4> QED
        BY <1>1, <4>1, <4>3, <4>4, <4>5 DEF Borrowed
    <3> QED
      BY <3>1, <3>2
  <2>9. StreamInv'
    BY <2>6, <2>7, <2>8 DEF StreamInv
  <2> QED
    BY <1>1, <1>4, <1>6, <1>10, <2>5, <2>9 DEF AnswerInv
<1>11. CASE line = "udp" /\ tries = 1
  <2>1. Datagrams(input, wire, Known) /\ autoIncrement = TRUE
    BY <1>3, <1>11 DEF AnswerInv, DatagramInv
  <2>2. /\ input \in Chunks
        /\ wire \in Seq(Carried)
        /\ \A i \in 1..Len(input) : Whole(input[i], Known)
        /\ \A i \in 1..Len(wire) : Whole(wire[i].bytes, Known)
    BY <2>1 DEF Datagrams
  <2>3. Head(input) = input[1] /\ 1 \in 1..Len(input)
    BY <1>2, <2>2 DEF Chunks
  <2>4. Whole(b, Known)
    BY <1>2, <1>8, <1>11, <2>2, <2>3
  <2>5. q.data = <<>> \/ \E n : q.data = <<n>> /\ <<q.id, n>> \in Known
    BY <1>3, <1>7, <1>9, <2>4, WholeAccepted
  <2>6. OwnAnswer'
    BY <1>1, <1>3, <1>8, <1>9, <2>5, TakenIsOwn
  <2>7. /\ Tail(input) \in Chunks
        /\ \A i \in 1..Len(Tail(input)) : Whole(Tail(input)[i], Known)
    <3>1. /\ Tail(input) \in Chunks /\ Len(Tail(input)) = Len(input) - 1 /\ Len(input) \in Nat
          /\ \A i \in 1..Len(Tail(input)) : Tail(input)[i] = input[i + 1]
      BY <1>2, <2>2, HeadTailProperties DEF Chunks
    <3>2. \A i \in 1..Len(Tail(input)) : i + 1 \in 1..Len(input)
      BY <3>1
    <3> QED
      BY <2>2, <3>1, <3>2
  <2>8. DatagramInv'
    <3>1. input' = Tail(input) /\ wire' = wire
      BY <1>2, <1>11
    <3> QED
      BY <1>1, <1>5, <2>1, <2>2, <2>7, <3>1 DEF DatagramInv, Datagrams
  <2> QED
    BY <1>1, <1>4, <1>6, <1>11, <2>6, <2>8 DEF AnswerInv
<1>12. CASE line = "udp" /\ tries # 1
  BY <1>1, <1>4, <1>6, <1>12 DEF AnswerInv, OwnAnswer
<1> QED
  BY <1>4, <1>10, <1>11, <1>12

(* The bytes that are written.                                             *)
LEMMA RequestBytes ==
  ASSUME TypeOK, BufferKept, frame = "NET", blocked
  PROVE  Nine(buff, transaction, asked)
<1>1. transaction \in Nat /\ transaction < 65536 /\ asked \in Nat
  BY TransportAssumption DEF TypeOK
<1>2. buff = NetFrame(transaction, Unit, Func, <<asked>>)
  <2>1. buff = Request
    BY NetLine DEF BufferKept
  <2> QED
    BY <2>1 DEF Request, Frame
<1> QED
  BY <1>1, <1>2, AnswerBytes

(* An answer on its way.                                                   *)
LEMMA AnswerCarried ==
  ASSUME NEW id \in Nat, id < 65536, NEW n \in Nat
  PROVE  [bytes |-> Answer(<<id, n>>), n |-> n] \in Carried
<1>1. Nine(Answer(<<id, n>>), id, n)
  BY AnswerBytes DEF Answer
<1>2. Answer(<<id, n>>) \in Seq(Int)
  BY <1>1 DEF Nine
<1> QED
  BY <1>2 DEF Carried

(* The request arrives as it was written, and is answered or not.          *)
LEMMA ReachAnswers ==
  ASSUME TypeOK, BufferKept, answered \in Seq(Int), frame = "NET", blocked, Reach
  PROVE  \/ /\ ~hangup
            /\ answered' = Append(answered, asked)
            /\ \E c \in Carried :
                 /\ c.bytes = Answer(<<transaction, Len(answered) + 1>>)
                 /\ wire' = Append(wire, c)
         \/ UNCHANGED <<answered, wire>>
<1>1. transaction \in Nat /\ transaction < 65536 /\ Len(answered) + 1 \in Nat
  BY DEF TypeOK
<1>2. Nine(buff, transaction, asked)
  BY RequestBytes
<1>3. NetBuffSz \in Nat /\ NetBuffSz # 0
  BY DEF NetBuffSz
<1>4. PICK q : q = NetRead(buff, NetBuffSz)
  OBVIOUS
<1>5. /\ q.status = "Good" /\ q.id = transaction
      /\ q.unit = Unit /\ q.func = Func /\ q.data = <<asked>>
  BY <1>2, <1>3, <1>4, FrameRead
<1>6. Read(frame, buff, NetBuffSz) = q
  BY <1>4 DEF Read
<1> DEFINE n == Len(answered) + 1
           c == [bytes |-> Frame(frame, q.id, q.unit, q.func, <<n>>), n |-> n]
<1>7. \/ /\ ~hangup
         /\ answered' = Append(answered, q.data[1])
         /\ wire' = Append(wire, c)
      \/ UNCHANGED <<answered, wire>>
  BY <1>6 DEF Reach
<1>8. Frame(frame, q.id, q.unit, q.func, <<n>>) = Answer(<<transaction, n>>)
  BY <1>5 DEF Frame, Answer
<1>9. c \in Carried /\ c.bytes = Answer(<<transaction, n>>)
  <2> HIDE DEF n
  <2>1. [bytes |-> Answer(<<transaction, n>>), n |-> n] \in Carried
    BY <1>1, AnswerCarried DEF n
  <2> QED
    BY <1>8, <2>1
<1>10. q.data[1] = asked
  BY <1>5
<1> HIDE DEF c
<1> QED
  BY <1>7, <1>9, <1>10

(* The request goes out.                                                   *)
LEMMA WriteAnswer ==
  ASSUME Inv, frame = "NET", Write
  PROVE  AnswerInv'
<1>1. /\ blocked /\ engine = "WRITE" /\ engine' = "READ" /\ SameAttempt /\ Reach
      /\ UNCHANGED <<settings, tries, transaction, asked>>
  BY DEF Write
<1>2. TypeOK /\ PortState /\ BufferKept /\ AnswerInv
  BY DEF Inv, PortInv
<1>3. Net /\ line \in {"tcp", "udp"} /\ UNCHANGED <<frame, line>>
  BY <1>1, <1>2, NetLine, SameLine
<1>4. SendNet
  BY <1>3 DEF Write, Sent, SendSerial
<1>5. valid = TRUE /\ UNCHANGED <<valid, error, hangup, input>>
  BY <1>2, <1>3, <1>4 DEF SendNet, Usable, PortState, TypeOK
<1>6. answered \in Seq(Int) /\ asked # 0
  BY <1>1, <1>2 DEF AnswerInv
<1>7. CASE UNCHANGED <<answered, wire>>
  <2>1. Quiet
    BY <1>1, <1>5, <1>7 DEF Quiet, Stays
  <2> QED
    BY <2>1, QuietAnswer
<1>8. ASSUME ~hangup, answered' = Append(answered, asked),
             NEW c \in Carried, c.bytes = Answer(<<transaction, Len(answered) + 1>>),
             wire' = Append(wire, c)
      PROVE  AnswerInv'
  <2>1. /\ answered' \in Seq(Int)
        /\ Known \subseteq Known'
        /\ <<transaction, Len(answered) + 1>> \in Known'
    BY <1>1, <1>2, <1>6, <1>8, KnownWrite
  <2>2. Answers(Known')
    BY <2>1, KnownNumbersNext
  <2>3. Whole(c.bytes, Known')
    BY <1>8, <2>1 DEF Whole
  <2>4. OwnAnswer'
    BY <1>1, <1>2 DEF BufferKept, SameAttempt, OwnAnswer
  <2>5. ASSUME line = "tcp"
        PROVE  StreamInv'
    <3>1. InOrder(input, wire, hangup, Known) /\ Lost /\ Borrowed
      BY <1>2, <2>5 DEF AnswerInv, StreamInv
    <3>2. hangup = FALSE /\ error = FALSE
      BY <1>2, <1>8, <3>1 DEF TypeOK, Lost
    <3>3. InOrder(input, wire, FALSE, Known')
      BY <2>1, <3>1, <3>2, InOrderKnown
    <3>4. /\ InOrder(input, Append(wire, c), FALSE, Known')
          /\ input = <<>> /\ wire = <<>> => Len(Stream(input, Append(wire, c))) <= 9
      BY <2>2, <2>3, <3>3, InOrderSent
    <3>5. InOrder(input', wire', hangup', Known')
      BY <1>5, <1>8, <3>2, <3>4
    <3>6. Lost'
      BY <1>5, <3>2 DEF Lost
    <3>7. Borrowed'
      <4>1. autoIncrement' = autoIncrement /\ blocked' = blocked
        BY <1>1 DEF SameAttempt
      <4>2. CASE autoIncrement
        BY <4>1, <4>2 DEF Borrowed
      <4>3. CASE ~autoIncrement
        <5>1. input = <<>> /\ wire = <<>>
          BY <1>1, <3>1, <4>3 DEF Borrowed
        <5>2. wire' = <<c>> /\ input' = <<>>
          BY <1>5, <1>8, <5>1
        <5>3. Len(wire') <= 1
          BY <5>2
        <5>4. Len(Stream(input', wire')) <= 9
          BY <1>5, <1>8, <3>4, <5>1
        <5> QED
          BY <1>1, <4>1, <5>3, <5>4 DEF Borrowed
      <4> QED
        BY <4>2, <4>3
    <3> QED
      BY <3>5, <3>6, <3>7 DEF StreamInv
  <2>6. ASSUME line = "udp", tries = 1
        PROVE  DatagramInv'
    <3>1. Datagrams(input, wire, Known) /\ autoIncrement = TRUE
      BY <1>2, <2>6 DEF AnswerInv, DatagramInv
    <3>2. Datagrams(input, wire, Known')
      BY <2>1, <3>1, DatagramsKnown
    <3>3. /\ input \in Chunks /\ wire \in Seq(Carried)
          /\ \A i \in 1..Len(input) : Whole(input[i], Known')
          /\ \A i \in 1..Len(wire) : Whole(wire[i].bytes, Known')
      BY <3>2 DEF Datagrams
    <3>4. /\ wire' \in Seq(Carried) /\ Len(wire') = Len(wire) + 1 /\ Len(wire) \in Nat
          /\ wire'[Len(wire) + 1] = c
          /\ \A i \in 1..Len(wire) : wire'[i] = wire[i]
      BY <1>8, <3>3, AppendProperties
    <3>5. ASSUME NEW i \in 1..Len(wire')
          PROVE  Whole(wire'[i].bytes, Known')
      <4>1. CASE i = Len(wire) + 1
        BY <2>3, <3>4, <4>1
      <4>2. CASE i # Len(wire) + 1
        <5>1. i \in 1..Len(wire)
          BY <3>4, <4>2
        <5> QED
          BY <3>3, <3>4, <5>1
      <4> QED
        BY <4>1, <4>2
    <3>6. Datagrams(input', wire', Known')
      BY <1>5, <3>3, <3>4, <3>5 DEF Datagrams
    <3>7. autoIncrement' = TRUE
      BY <1>1, <3>1 DEF SameAttempt
    <3> QED
      BY <3>6, <3>7 DEF DatagramInv
  <2> QED
    BY <1>1, <1>3, <1>6, <2>1, <2>4, <2>5, <2>6 DEF AnswerInv
<1>9. \/ UNCHANGED <<answered, wire>>
      \/ \E c \in Carried :
           /\ ~hangup
           /\ answered' = Append(answered, asked)
           /\ c.bytes = Answer(<<transaction, Len(answered) + 1>>)
           /\ wire' = Append(wire, c)
  BY <1>1, <1>2, <1>6, ReachAnswers
<1> QED
  BY <1>7, <1>8, <1>9

(* A request takes the next identifier, or borrows the one in use.         *)
LEMMA NewRequest ==
  ASSUME Requests < 65536, Inv, frame = "NET", ~blocked, asked < Requests, asked' = asked + 1,
         writeId, outcome'.data = <<>>,
         UNCHANGED <<settings, tries, answered, valid, error, hangup, input, wire>>
  PROVE  AnswerInv'
<1>1. TypeOK /\ AnswerInv /\ answered \in Seq(Int)
  BY DEF Inv, PortInv, AnswerInv
<1>2. UNCHANGED <<frame, line>>
  BY SameLine
<1>3. /\ transaction' = IF autoIncrement THEN (transaction + 1) % 65536 ELSE transaction
      /\ autoIncrement' = TRUE
  BY DEF writeId
<1>4. autoIncrement => Known \subseteq Known'
  BY <1>1, <1>3, KnownAsk
<1>5. asked' # 0
  <2>1. asked \in Nat
    BY <1>1, TransportAssumption DEF TypeOK
  <2> QED
    BY <2>1
<1>6. OwnAnswer'
  BY DEF OwnAnswer
<1>7. ASSUME line = "tcp"
      PROVE  StreamInv'
  <2>1. InOrder(input, wire, hangup, Known) /\ Lost /\ Borrowed
    BY <1>1, <1>7 DEF AnswerInv, StreamInv
  <2>2. InOrder(input, wire, hangup, Known')
    <3>1. CASE autoIncrement
      BY <1>4, <2>1, <3>1, InOrderKnown
    <3>2. CASE ~autoIncrement
      <4>1. Len(Stream(input, wire)) <= 8 /\ Len(wire) <= 1
        BY <2>1, <3>2 DEF Borrowed
      <4> QED
        BY <2>1, <4>1, InOrderShort
    <3> QED
      BY <3>1, <3>2
  <2>3. Lost'
    BY <2>1 DEF Lost
  <2>4. Borrowed'
    BY <1>3 DEF Borrowed
  <2> QED
    BY <2>2, <2>3, <2>4 DEF StreamInv
<1>8. ASSUME line = "udp", tries = 1
      PROVE  DatagramInv'
  <2>1. Datagrams(input, wire, Known) /\ autoIncrement = TRUE
    BY <1>1, <1>8 DEF AnswerInv, DatagramInv
  <2>2. Datagrams(input, wire, Known')
    BY <1>4, <2>1, DatagramsKnown
  <2> QED
    BY <1>3, <2>2 DEF DatagramInv
<1> QED
  BY <1>1, <1>2, <1>5, <1>6, <1>7, <1>8 DEF AnswerInv

(* ... whether or not its data fit into a frame.                           *)
LEMMA AskAnswer ==
  ASSUME Requests < 65536, Inv, frame = "NET", Ask \/ AskTooLong
  PROVE  AnswerInv'
<1>1. /\ ~blocked /\ asked < Requests /\ asked' = asked + 1 /\ writeId
      /\ UNCHANGED <<settings, tries, answered, valid, error, hangup, input, wire>>
  BY DEF Ask, AskTooLong, history
<1>2. outcome'.data = <<>>
  BY DEF Ask, AskTooLong, Nothing
<1> QED
  BY <1>1, <1>2, NewRequest

(* The engine, the identifiers and the history stay.                       *)
Aside == UNCHANGED <<settings, tries, engineVars, idVars, answered>>

(* Then what holds of the outcome still does, and only the line is open.   *)
LEMMA AsideAnswer ==
  ASSUME Inv, frame = "NET", Aside,
         line = "tcp" => StreamInv',
         line = "udp" /\ tries = 1 => Datagrams(input', wire', Known)
  PROVE  AnswerInv'
<1>1. UNCHANGED <<frame, line>>
  BY SameLine DEF Aside
<1>2. UNCHANGED <<tries, blocked, asked, outcome, answered, transaction, autoIncrement>>
  BY DEF Aside, engineVars, idVars
<1>3. Known' = Known
  BY <1>2, KnownSame
<1>4. AnswerInv
  BY DEF Inv
<1>5. line = "udp" /\ tries = 1 => DatagramInv'
  BY <1>2, <1>3, <1>4 DEF AnswerInv, DatagramInv
<1>6. OwnAnswer'
  BY <1>1, <1>2, <1>4 DEF AnswerInv, OwnAnswer
<1> QED
  BY <1>1, <1>2, <1>4, <1>5, <1>6 DEF AnswerInv

(* Nothing happens to the line.                                            *)
LEMMA IdleAnswer ==
  ASSUME Inv, frame = "NET", Aside, UNCHANGED <<valid, error, hangup, input, wire>>
  PROVE  AnswerInv'
<1>1. AnswerInv
  BY DEF Inv
<1>2. UNCHANGED <<engine, blocked, asked, answered, transaction, autoIncrement>>
  BY DEF Aside, engineVars, idVars
<1>3. Known' = Known
  BY <1>2, KnownSame
<1>4. line = "tcp" => StreamInv'
  BY <1>1, <1>2, <1>3 DEF AnswerInv, StreamInv, Lost, Borrowed
<1>5. line = "udp" /\ tries = 1 => Datagrams(input', wire', Known)
  BY <1>1 DEF AnswerInv, DatagramInv
<1> QED
  BY <1>4, <1>5, AsideAnswer

(* Bytes move on in a stream that is no longer than before.                *)
LEMMA MovedAnswer ==
  ASSUME Inv, frame = "NET", line = "tcp", Aside, UNCHANGED <<valid, error, hangup>>,
         wire # <<>>, InOrder(input', wire', FALSE, Known),
         Len(wire) <= 1 => /\ Len(wire') <= 1
                           /\ Stream(input', wire') = Stream(input, wire)
  PROVE  AnswerInv'
<1>1. TypeOK /\ Lost /\ Borrowed
  BY DEF Inv, PortInv, AnswerInv, StreamInv
<1>2. UNCHANGED <<engine, blocked, asked, answered, transaction, autoIncrement>>
  BY DEF Aside, engineVars, idVars
<1>3. Known' = Known
  BY <1>2, KnownSame
<1>4. hangup' = FALSE /\ error' = FALSE /\ valid' = TRUE
  BY <1>1 DEF TypeOK, Lost
<1>5. InOrder(input', wire', hangup', Known')
  BY <1>3, <1>4
<1>6. Lost'
  BY <1>4 DEF Lost
<1>7. Borrowed'
  BY <1>1, <1>2 DEF Borrowed
<1>8. StreamInv'
  BY <1>5, <1>6, <1>7 DEF StreamInv
<1> QED
  BY <1>8, AsideAnswer

(* What is sent on an open connection.                                     *)
LEMMA Connected ==
  ASSUME Inv, frame = "NET", line = "tcp", wire # <<>>
  PROVE  /\ valid = TRUE /\ hangup = FALSE
         /\ InOrder(input, wire, FALSE, Known) /\ Answers(Known)
<1>1. TypeOK /\ InOrder(input, wire, hangup, Known) /\ Lost /\ answered \in Seq(Int)
  BY DEF Inv, PortInv, AnswerInv, StreamInv
<1>2. valid = TRUE /\ hangup = FALSE
  BY <1>1 DEF TypeOK, Lost
<1> QED
  BY <1>1, <1>2, KnownNumbers

(* Datagrams that arrive, from those that were sent.                       *)
LEMMA DatagramArrives ==
  ASSUME NEW arrived, NEW sent, NEW known, Datagrams(arrived, sent, known), Answers(known),
         NEW i \in DOMAIN sent
  PROVE  /\ Datagrams(Append(arrived, sent[i].bytes), sent, known)
         /\ Datagrams(Append(arrived, sent[i].bytes), RemoveAt(sent, i), known)
         /\ Datagrams(arrived, RemoveAt(sent, i), known)
<1>1. /\ arrived \in Chunks /\ sent \in Seq(Carried)
      /\ \A j \in 1..Len(arrived) : Whole(arrived[j], known)
      /\ \A j \in 1..Len(sent) : Whole(sent[j].bytes, known)
  BY DEF Datagrams
<1>2. PICK b : b = sent[i].bytes
  OBVIOUS
<1>3. Whole(b, known) /\ b \in Seq(Int)
  <2>1. Whole(b, known)
    BY <1>1, <1>2
  <2> QED
    BY <2>1, WholeInPhase
<1>4. PICK now : now = Append(arrived, b)
  OBVIOUS
<1>5. /\ now \in Chunks /\ Len(now) = Len(arrived) + 1 /\ Len(arrived) \in Nat
      /\ now[Len(arrived) + 1] = b
      /\ \A j \in 1..Len(arrived) : now[j] = arrived[j]
  BY <1>1, <1>3, <1>4, AppendProperties DEF Chunks
<1>6. ASSUME NEW j \in 1..Len(now)
      PROVE  Whole(now[j], known)
  <2>1. CASE j = Len(arrived) + 1
    BY <1>3, <1>5, <2>1
  <2>2. CASE j # Len(arrived) + 1
    <3>1. j \in 1..Len(arrived)
      BY <1>5, <2>2
    <3> QED
      BY <1>1, <1>5, <3>1
  <2> QED
    BY <2>1, <2>2
<1>7. PICK rest : rest = RemoveAt(sent, i)
  OBVIOUS
<1>8. /\ rest \in Seq(Carried) /\ Len(rest) = Len(sent) - 1 /\ Len(sent) \in Nat
      /\ \A j \in 1..Len(sent) - 1 : rest[j] = IF j < i THEN sent[j] ELSE sent[j + 1]
  BY <1>1, <1>7, RemoveOne
<1>9. ASSUME NEW j \in 1..Len(rest)
      PROVE  Whole(rest[j].bytes, known)
  <2>1. j \in 1..Len(sent) - 1 /\ j \in 1..Len(sent) /\ j + 1 \in 1..Len(sent)
    BY <1>8
  <2>2. rest[j] = sent[j] \/ rest[j] = sent[j + 1]
    BY <1>8, <2>1
  <2> QED
    BY <1>1, <2>1, <2>2
<1> QED
  BY <1>1, <1>2, <1>4, <1>5, <1>6, <1>7, <1>8, <1>9 DEF Datagrams

(* What arrives is kept by an open port.                                   *)
LEMMA ArrivesAside ==
  ASSUME NEW bytes, Arrives(bytes)
  PROVE  /\ Aside /\ UNCHANGED <<valid, error, hangup>>
         /\ valid => input' = Append(input, bytes)
         /\ ~valid => input' = input
  BY DEF Arrives, Aside, history

(* An answer, or the rest of one, arrives.                                 *)
LEMMA DeliverAnswer ==
  ASSUME Inv, frame = "NET", Deliver
  PROVE  AnswerInv'
<1>1. PICK i \in DOMAIN wire : /\ i = 1 \/ line = "udp"
                               /\ Arrives(wire[i].bytes)
                               /\ wire' = RemoveAt(wire, i)
  BY DEF Deliver
<1>2. /\ Aside /\ UNCHANGED <<valid, error, hangup>>
      /\ valid => input' = Append(input, wire[i].bytes)
      /\ ~valid => input' = input
  BY <1>1, ArrivesAside
<1>3. TypeOK /\ AnswerInv /\ line \in {"tcp", "udp"}
  BY NetLine DEF Inv, PortInv
<1>4. CASE line = "tcp"
  <2>1. i = 1
    BY <1>1, <1>4
  <2>2. wire # <<>>
    BY <1>1
  <2>3. /\ valid = TRUE /\ InOrder(input, wire, FALSE, Known) /\ Answers(Known)
    BY <1>4, <2>2, Connected
  <2>4. input' = Append(input, wire[1].bytes) /\ wire' = RemoveAt(wire, 1)
    BY <1>1, <1>2, <2>1, <2>3
  <2>5. /\ InOrder(input', wire', FALSE, Known)
        /\ Len(wire) <= 1 => wire' = <<>> /\ Stream(input', wire') = Stream(input, wire)
    BY <2>2, <2>3, <2>4, InOrderDelivered
  <2>6. Len(wire) <= 1 => Len(wire') <= 1
    BY <2>5
  <2> QED
    BY <1>2, <1>4, <2>2, <2>5, <2>6, MovedAnswer
<1>5. CASE line = "udp"
  <2>1. ASSUME tries = 1
        PROVE  Datagrams(input', wire', Known)
    <3>1. Datagrams(input, wire, Known) /\ answered \in Seq(Int)
      BY <1>3, <1>5, <2>1 DEF AnswerInv, DatagramInv
    <3>2. Answers(Known)
      BY <3>1, KnownNumbers
    <3>3. /\ Datagrams(Append(input, wire[i].bytes), RemoveAt(wire, i), Known)
          /\ Datagrams(input, RemoveAt(wire, i), Known)
      BY <3>1, <3>2, DatagramArrives
    <3> QED
      BY <1>1, <1>2, <3>3
  <2> QED
    BY <1>2, <1>5, <2>1, AsideAnswer
<1> QED
  BY <1>3, <1>4, <1>5

(* A datagram comes twice.                                                 *)
LEMMA DeliverTwiceAnswer ==
  ASSUME Inv, frame = "NET", DeliverTwice
  PROVE  AnswerInv'
<1>1. line = "udp" /\ wire # <<>> /\ Arrives(wire[1].bytes) /\ wire' = wire
  BY DEF DeliverTwice
<1>2. /\ Aside
      /\ valid => input' = Append(input, wire[1].bytes)
      /\ ~valid => input' = input
  BY <1>1, ArrivesAside
<1>3. ASSUME tries = 1
      PROVE  Datagrams(input', wire', Known)
  <2>1. Datagrams(input, wire, Known) /\ answered \in Seq(Int)
    BY <1>1, <1>3 DEF Inv, AnswerInv, DatagramInv
  <2>2. 1 \in DOMAIN wire
    BY <1>1, <2>1 DEF Datagrams
  <2>3. Answers(Known)
    BY <2>1, KnownNumbers
  <2>4. Datagrams(Append(input, wire[1].bytes), wire, Known)
    BY <2>1, <2>2, <2>3, DatagramArrives
  <2> QED
    BY <1>1, <1>2, <2>1, <2>4
<1> QED
  BY <1>1, <1>2, <1>3, AsideAnswer

(* Half of a number.                                                       *)
LEMMA Half ==
  ASSUME NEW n \in Nat, n > 1
  PROVE  n \div 2 \in Nat /\ n \div 2 >= 1 /\ n \div 2 < n
  OBVIOUS

(* Two parts make the whole.                                               *)
Parts(s, cut, x, y) == x = SubSeq(s, 1, cut) /\ y = SubSeq(s, cut + 1, Len(s))

LEMMA CutInTwo ==
  ASSUME NEW s \in Seq(Int), NEW cut \in Nat, cut >= 1, cut < Len(s),
         NEW x, NEW y, Parts(s, cut, x, y)
  PROVE  TwoParts(s, x, y)
<1>1. Len(s) \in Nat /\ \A i \in 1..Len(s) : s[i] \in Int
  BY ElementOfSeq
<1>2. /\ x \in Seq(Int) /\ Len(x) = cut
      /\ \A i \in 1..cut : x[i] = s[i]
  BY <1>1 DEF Parts
<1>3. /\ y \in Seq(Int) /\ Len(y) = Len(s) - cut
      /\ \A i \in 1..Len(s) - cut : y[i] = s[cut + i]
  BY <1>1 DEF Parts
<1>4. /\ x \o y \in Seq(Int) /\ Len(x \o y) = Len(x) + Len(y)
      /\ \A i \in 1..Len(x) + Len(y) :
           (x \o y)[i] = IF i <= Len(x) THEN x[i] ELSE y[i - Len(x)]
  BY <1>2, <1>3, ConcatProperties
<1>5. Len(x) + Len(y) = Len(s)
  BY <1>1, <1>2, <1>3
<1>6. ASSUME NEW i \in 1..Len(s)
      PROVE  s[i] = (x \o y)[i]
  <2>1. CASE i <= cut
    <3>1. i \in 1..cut
      BY <1>1, <2>1
    <3> QED
      BY <1>2, <1>4, <1>5, <2>1, <3>1
  <2>2. CASE ~(i <= cut)
    <3>1. i - cut \in 1..Len(s) - cut /\ cut + (i - cut) = i
      BY <1>1, <2>2
    <3> QED
      BY <1>2, <1>3, <1>4, <1>5, <2>2, <3>1
  <2> QED
    BY <2>1, <2>2
<1>7. s = x \o y
  BY <1>4, <1>5, <1>6, SeqEqual
<1>8. x # <<>> /\ y # <<>>
  <2>1. Len(x) # 0 /\ Len(y) # 0 /\ Len(<<>>) = 0
    BY <1>1, <1>2, <1>3
  <2> QED
    BY <2>1, Zenon
<1> QED
  BY <1>2, <1>3, <1>7, <1>8 DEF TwoParts

(* The first half of an answer arrives.                                    *)
LEMMA DeliverPartAnswer ==
  ASSUME Inv, frame = "NET", DeliverPart
  PROVE  AnswerInv'
<1>1. /\ line = "tcp" /\ wire # <<>>
      /\ Len(wire[1].bytes) > 1
  BY NetLine DEF DeliverPart, Inv, PortInv
<1>2. PICK s, cut, x, y :
        s = wire[1].bytes /\ cut = Len(s) \div 2 /\ Parts(s, cut, x, y)
  BY DEF Parts
<1>3. Arrives(x) /\ wire' = [wire EXCEPT ![1].bytes = y]
  BY <1>2 DEF DeliverPart, Parts
<1>4. /\ Aside /\ UNCHANGED <<valid, error, hangup>>
      /\ valid => input' = Append(input, x)
  BY <1>3, ArrivesAside
<1>5. valid = TRUE /\ InOrder(input, wire, FALSE, Known)
  BY <1>1, Connected
<1>6. wire \in Seq(Carried)
  BY <1>5 DEF InOrder
<1>7. s \in Seq(Int) /\ First(wire) = s
  BY <1>1, <1>2, <1>6, FirstBytes
<1>8. cut \in Nat /\ cut >= 1 /\ cut < Len(s)
  <2>1. Len(s) \in Nat /\ Len(s) > 1
    BY <1>1, <1>2, <1>7
  <2> QED
    BY <1>2, <2>1, Half
<1>9. Parts(s, cut, x, y) /\ s \in Seq(Int)
  BY <1>2, <1>7
<1>10. TwoParts(s, x, y)
  BY <1>8, <1>9, CutInTwo
<1>11. TwoParts(First(wire), x, y) /\ y \in Seq(Int)
  BY <1>7, <1>10 DEF TwoParts
<1>12. PICK rest : rest = wire' /\ Shortened(rest, wire, y)
  BY <1>1, <1>3, <1>6, <1>11, ShortenFirst
<1>13. Moved(Append(input, x), rest, input, wire, Known)
  <2>1. InOrder(input, wire, FALSE, Known)
    BY <1>5
  <2>2. wire # <<>>
    BY <1>1
  <2>3. TwoParts(First(wire), x, y)
    BY <1>11
  <2>4. Shortened(rest, wire, y)
    BY <1>12
  <2> QED
    BY <2>1, <2>2, <2>3, <2>4, InOrderPart, Zenon
<1>14. /\ InOrder(input', wire', FALSE, Known)
       /\ Stream(input', wire') = Stream(input, wire)
  BY <1>4, <1>5, <1>12, <1>13 DEF Moved
<1>15. Len(wire') = Len(wire)
  BY <1>12 DEF Shortened
<1> QED
  BY <1>1, <1>4, <1>14, <1>15, MovedAnswer

(* The connection ends.                                                    *)
LEMMA HangUpAnswer ==
  ASSUME Inv, frame = "NET", HangUp
  PROVE  AnswerInv'
<1>1. /\ line = "tcp" /\ hangup' = TRUE /\ wire' = <<>> /\ valid' = valid /\ valid
      /\ UNCHANGED <<error, input>> \/ (error' = TRUE /\ input' = <<>>)
      /\ Aside
  BY DEF HangUp, Aside, history
<1>2. /\ TypeOK /\ InOrder(input, wire, hangup, Known) /\ Lost /\ Borrowed
  BY <1>1 DEF Inv, PortInv, AnswerInv, StreamInv
<1>3. UNCHANGED <<engine, blocked, asked, answered, transaction, autoIncrement>>
  BY <1>1 DEF Aside, engineVars, idVars
<1>4. Known' = Known
  BY <1>3, KnownSame
<1>5. Lost'
  BY <1>1, <1>2 DEF Lost
<1>6. /\ InOrder(input', wire', hangup', Known')
      /\ Len(Stream(input', wire')) \in Nat
      /\ Len(Stream(input', wire')) <= Len(Stream(input, wire))
      /\ input = <<>> => input' = <<>>
  <2>1. Len(Stream(input, wire)) \in Nat
    BY <1>2, StreamBytes DEF InOrder
  <2>2. CASE input' = <<>>
    <3>1. InOrder(input', wire', TRUE, Known) /\ Stream(input', wire') = <<>>
      BY <1>1, <2>2, InOrderEmpty
    <3>2. Len(Stream(input', wire')) = 0
      BY <3>1
    <3>3. InOrder(input', wire', hangup', Known')
      BY <1>1, <1>4, <3>1
    <3> QED
      BY <2>1, <2>2, <3>2, <3>3
  <2>3. CASE UNCHANGED <<error, input>>
    <3>1. /\ InOrder(input, <<>>, TRUE, Known)
          /\ Len(Stream(input, <<>>)) <= Len(Stream(input, wire))
      BY <1>2, InOrderGone
    <3>2. Len(Stream(input, <<>>)) \in Nat
      BY <3>1, StreamBytes DEF InOrder
    <3> QED
      BY <1>1, <1>4, <2>3, <3>1, <3>2
  <2> QED
    BY <1>1, <2>2, <2>3
<1>7. Borrowed'
  <2>1. CASE autoIncrement
    BY <1>3, <2>1 DEF Borrowed
  <2>2. CASE ~autoIncrement
    <3>1. /\ Len(Stream(input, wire)) <= 9
          /\ blocked => engine = "READ" \/ (input = <<>> /\ wire = <<>>)
          /\ ~blocked => Len(Stream(input, wire)) <= 8
      BY <1>2, <2>2 DEF Borrowed
    <3>2. Len(Stream(input, wire)) \in Nat
      BY <1>2, StreamBytes DEF InOrder
    <3>3. /\ Len(Stream(input', wire')) <= 9
          /\ ~blocked => Len(Stream(input', wire')) <= 8
      BY <1>6, <3>1, <3>2
    <3>4. Len(wire') <= 1
      BY <1>1
    <3>5. blocked => engine = "READ" \/ (input' = <<>> /\ wire' = <<>>)
      BY <1>1, <1>6, <3>1
    <3> QED
      BY <1>3, <3>3, <3>4, <3>5 DEF Borrowed
  <2> QED
    BY <2>1, <2>2
<1>8. StreamInv'
  BY <1>5, <1>6, <1>7 DEF StreamInv
<1> QED
  BY <1>1, <1>8, AsideAnswer

(* The line and the other side.                                            *)
LEMMA MediumAnswer ==
  ASSUME Inv, frame = "NET", Medium
  PROVE  AnswerInv'
<1>1. ~DeliverDamaged
  BY NetLine DEF DeliverDamaged, Inv, PortInv
<1> QED
  BY <1>1, DeliverAnswer, DeliverTwiceAnswer, DeliverPartAnswer, HangUpAnswer DEF Medium

-----------------------------------------------------------------------------
(***************************************************************************)
(* The answer to a request.                                                *)
(***************************************************************************)

(* At first nothing is sent.                                               *)
LEMMA AnswerInit ==
  ASSUME Init
  PROVE  AnswerInv
<1>1. /\ blocked = FALSE /\ answered = <<>> /\ outcome = Nothing /\ autoIncrement = TRUE
      /\ input = <<>> /\ wire = <<>> /\ error = FALSE
  BY DEF Init, LineInit
<1>2. OwnAnswer
  BY <1>1 DEF OwnAnswer, Nothing
<1>3. StreamInv
  <2>1. InOrder(<<>>, <<>>, hangup, Known)
    BY InOrderEmpty
  <2>2. Lost /\ Borrowed
    BY <1>1 DEF Lost, Borrowed
  <2> QED
    BY <1>1, <2>1, <2>2 DEF StreamInv
<1>4. DatagramInv
  BY <1>1 DEF DatagramInv, Datagrams, Chunks
<1> QED
  BY <1>1, <1>2, <1>3, <1>4 DEF AnswerInv

(* Every step of the engine keeps to the answers that are known.           *)
LEMMA ProcessAnswer ==
  ASSUME Inv, frame = "NET", process
  PROVE  AnswerInv'
<1>1. TypeOK /\ (line = "tcp" => Lost)
  BY DEF Inv, PortInv, AnswerInv, StreamInv
<1>2. \/ Quiet \/ Write
      \/ ReadAnswer /\ ReceiveNet /\ \E room \in {0, 1} : Take(buff', room)
  BY <1>1, LookQuiet, OpenQuiet, ReopenQuiet, PrepareWriteQuiet, WriteFailsQuiet,
     ReadQuiet, PauseQuiet DEF process
<1> QED
  BY <1>2, QuietAnswer, WriteAnswer, TakeAnswer

(* And so does every step.                                                 *)
LEMMA AnswerNext ==
  ASSUME Requests < 65536, Inv, frame = "NET", [Next]_vars
  PROVE  AnswerInv'
<1>1. CASE Ask \/ AskTooLong
  BY <1>1, AskAnswer
<1>2. CASE process
  BY <1>2, ProcessAnswer
<1>3. CASE ChangeSetting
  <2>1. Aside /\ UNCHANGED <<valid, error, hangup, input, wire>>
    BY <1>3 DEF ChangeSetting, Change, Aside, history
  <2> QED
    BY <2>1, IdleAnswer
<1>4. CASE Medium
  BY <1>4, MediumAnswer
<1>5. CASE UNCHANGED vars
  <2>1. Aside /\ UNCHANGED <<valid, error, hangup, input, wire>>
    BY <1>5 DEF vars, lineVars, Aside, history
  <2> QED
    BY <2>1, IdleAnswer
<1> QED
  BY <1>1, <1>2, <1>3, <1>4, <1>5 DEF Next

(* A port is never made another.                                           *)
LEMMA SettingsStay ==
  ASSUME [Next]_vars
  PROVE  UNCHANGED settings
<1>1. Ask \/ AskTooLong \/ ChangeSetting => UNCHANGED settings
  BY DEF Ask, AskTooLong, ChangeSetting
<1>2. process => UNCHANGED settings
  BY DEF process, LookWhetherOpen, Open, Reopen, PrepareWrite, Write, WriteFails,
         ReadAnswer, Pause, EngineStep
<1>3. Medium => UNCHANGED settings
  BY DEF Medium, Deliver, DeliverPart, DeliverTwice, DeliverDamaged, HangUp, Arrives
<1>4. UNCHANGED vars => UNCHANGED settings
  BY DEF vars
<1> QED
  BY <1>1, <1>2, <1>3, <1>4 DEF Next

(* What a client is handed is the answer to its request, as long as no     *)
(* identifier is used a second time.                                       *)
THEOREM AnswerIsOwn ==
  ASSUME Requests < 65536
  PROVE  Spec => []OwnAnswer
<1>1. Init => Inv
  BY PortInit, AnswerInit DEF Inv
<1>2. Inv /\ [Next]_vars => Inv'
  <2> SUFFICES ASSUME Inv, [Next]_vars
               PROVE  Inv'
    OBVIOUS
  <2>1. PortInv'
    BY PortNext, PortIdle DEF Inv
  <2>2. UNCHANGED frame
    BY SettingsStay, SameLine
  <2>3. frame = "NET" => AnswerInv'
    BY AnswerNext
  <2> QED
    BY <2>1, <2>2, <2>3 DEF Inv
<1>3. Inv => OwnAnswer
  BY DEF Inv, AnswerInv, OwnAnswer
<1> QED
  BY <1>1, <1>2, <1>3, PTL DEF Spec
-----------------------------------------------------------------------------
(***************************************************************************)
(* What a client is handed comes from the server, with any identifiers and *)
(* any number of attempts.                                                 *)
(***************************************************************************)

(* The answers that the server gave, with any identifier.                  *)
Served == {k \in Nat \X Nat : k[1] < 65536 /\ k[2] \in DOMAIN answered}

(* A stream carries them in order, datagrams each on its own.              *)
ServedLine ==
  /\ line = "tcp" => InOrder(input, wire, hangup, Served) /\ Lost
  /\ line = "udp" => Datagrams(input, wire, Served)

ServedInv == answered \in Seq(Int) /\ ServedLine /\ Genuine

NetInv == PortInv /\ (frame = "NET" => ServedInv)

(* Given answers have numbers.                                             *)
LEMMA ServedNumbers ==
  ASSUME answered \in Seq(Int)
  PROVE  Answers(Served)
  BY DEF Answers, Served

(* ... and so after a step.                                                *)
LEMMA ServedNumbersNext ==
  ASSUME answered' \in Seq(Int)
  PROVE  Answers(Served')
  BY DEF Answers, Served

(* The server gives an answer.                                             *)
LEMMA ServedMore ==
  ASSUME TypeOK, answered \in Seq(Int), answered' = Append(answered, asked)
  PROVE  /\ answered' \in Seq(Int)
         /\ Served \subseteq Served'
         /\ <<transaction, Len(answered) + 1>> \in Served'
<1>1. asked \in Int /\ transaction \in Nat /\ transaction < 65536
  BY TransportAssumption DEF TypeOK
<1>2. /\ answered' \in Seq(Int) /\ Len(answered) \in Nat
      /\ DOMAIN answered = 1..Len(answered)
      /\ DOMAIN answered' = 1..Len(answered) + 1
  BY <1>1, AppendProperties
<1>3. Served \subseteq Served'
  <2>1. \A n \in DOMAIN answered : n \in DOMAIN answered'
    BY <1>2
  <2> QED
    BY <2>1 DEF Served
<1>4. <<transaction, Len(answered) + 1>> \in Served'
  <2>1. PICK k : k = <<transaction, Len(answered) + 1>>
    OBVIOUS
  <2>2. k \in Nat \X Nat /\ k[1] = transaction /\ k[2] = Len(answered) + 1
    BY <1>1, <1>2, <2>1
  <2>3. k[2] \in DOMAIN answered'
    BY <1>2, <2>2
  <2> QED
    BY <1>1, <2>1, <2>2, <2>3 DEF Served
<1> QED
  BY <1>2, <1>3, <1>4

(* Without an answer more, only the line and the outcome are open.         *)
LEMMA ServedSame ==
  ASSUME frame = "NET", ServedInv, UNCHANGED <<settings, answered>>, Genuine',
         line = "tcp" => InOrder(input', wire', hangup', Served) /\ Lost',
         line = "udp" => Datagrams(input', wire', Served)
  PROVE  ServedInv'
<1>1. UNCHANGED line
  BY SameLine
<1>2. Served' = Served
  BY DEF Served
<1>3. answered' \in Seq(Int)
  BY DEF ServedInv
<1> QED
  BY <1>1, <1>2, <1>3 DEF ServedInv, ServedLine

(* The engine goes on with an attempt or ends it, and takes no answer.     *)
LEMMA QuietServed ==
  ASSUME PortInv, ServedInv, frame = "NET", Quiet
  PROVE  ServedInv'
<1>1. TypeOK /\ BufferKept /\ blocked /\ UNCHANGED <<settings, tries, answered>>
  BY DEF PortInv, Quiet
<1>2. Genuine'
  <2>1. outcome'.data = <<>>
    <3>1. CASE SameAttempt
      BY <1>1, <3>1, SameAttemptKeeps
    <3>2. CASE \E r : AttemptFails(r)
      BY <1>1, <3>2, FailedAttempt
    <3> QED
      BY <3>1, <3>2 DEF Quiet
  <2> QED
    BY <2>1 DEF Genuine
<1>3. CASE Emptied
  <2>1. InOrder(<<>>, <<>>, hangup', Served)
    BY InOrderEmpty
  <2>2. Datagrams(<<>>, <<>>, Served)
    BY DEF Datagrams, Chunks
  <2>3. Lost'
    BY <1>3 DEF Emptied, Lost
  <2>4. InOrder(input', wire', hangup', Served) /\ Datagrams(input', wire', Served)
    BY <1>3, <2>1, <2>2 DEF Emptied
  <2> QED
    BY <1>1, <1>2, <2>3, <2>4, ServedSame
<1>4. CASE Stays
  <2>1. UNCHANGED <<input, wire, hangup, valid>> /\ (error' = FALSE \/ error' = error)
    BY <1>4 DEF Stays
  <2>2. Lost => Lost'
    <3>1. CASE error' = FALSE
      BY <2>1, <3>1 DEF Lost
    <3>2. CASE error' = error
      BY <2>1, <3>2 DEF Lost
    <3> QED
      BY <2>1, <3>1, <3>2
  <2>3. ServedLine
    BY DEF ServedInv
  <2>4. line = "tcp" => InOrder(input', wire', hangup', Served) /\ Lost'
    BY <2>1, <2>2, <2>3 DEF ServedLine
  <2>5. line = "udp" => Datagrams(input', wire', Served)
    BY <2>1, <2>3 DEF ServedLine
  <2> QED
    BY <1>1, <1>2, <2>4, <2>5, ServedSame
<1> QED
  BY <1>3, <1>4 DEF Quiet

(* What is taken of a frame is a number of the server.                     *)
LEMMA TakenIsServed ==
  ASSUME frame = "NET", UNCHANGED answered,
         NEW b, NEW room, Take(b, room), NEW q, q = NetRead(b, room),
         q.status = "Good" /\ q.unit = Unit /\ q.func = Func =>
           q.data = <<>> \/ \E n : q.data = <<n>> /\ <<q.id, n>> \in Served
  PROVE  Genuine'
<1> SUFFICES ASSUME outcome'.data # <<>>
             PROVE  outcome'.data[1] \in DOMAIN answered'
  BY DEF Genuine
<1>1. Read(frame, b, room) = q
  BY DEF Read
<1>2. outcome' = [status |-> Verdict(b, room),
                  data |-> IF Verdict(b, room) = "Good" THEN q.data ELSE <<>>]
  BY <1>1 DEF Take
<1>3. Verdict(b, room) = "Good" /\ outcome'.data = q.data
  BY <1>2
<1>4. q.status = "Good" /\ q.unit = Unit /\ q.func = Func
  BY <1>1, <1>3 DEF Verdict
<1>5. PICK n : q.data = <<n>> /\ <<q.id, n>> \in Served
  BY <1>3, <1>4
<1>6. PICK k : k = <<q.id, n>>
  OBVIOUS
<1>7. k[2] = n /\ k \in Served
  BY <1>5, <1>6
<1>8. n \in DOMAIN answered
  BY <1>7 DEF Served
<1>9. outcome'.data[1] = n
  BY <1>3, <1>5
<1> QED
  BY <1>8, <1>9

(* An answer is read.                                                      *)
LEMMA TakeServed ==
  ASSUME PortInv, ServedInv, frame = "NET",
         ReadAnswer, ReceiveNet, NEW room \in {0, 1}, Take(buff', room)
  PROVE  ServedInv'
<1>1. UNCHANGED <<settings, answered>>
  BY DEF ReadAnswer, EngineStep
<1>2. /\ input # <<>>
      /\ buff' = IF line = "tcp" THEN FlattenSeq(input) ELSE Head(input)
      /\ input' = IF line = "tcp" THEN <<>> ELSE Tail(input)
      /\ UNCHANGED <<valid, error, hangup, wire>>
  BY DEF ReceiveNet, Reads
<1>3. TypeOK /\ ServedLine /\ answered \in Seq(Int) /\ room \in Nat
  BY DEF PortInv, ServedInv
<1>4. line \in {"tcp", "udp"}
  BY <1>3, NetLine
<1>5. Answers(Served)
  BY <1>3, ServedNumbers
<1>6. PICK b : b = buff' /\ Take(b, room)
  OBVIOUS
<1>7. PICK q : q = NetRead(b, room)
  OBVIOUS
<1>8. CASE line = "tcp"
  <2>1. InOrder(input, wire, hangup, Served) /\ Lost
    BY <1>3, <1>8 DEF ServedLine
  <2>2. /\ InOrder(<<>>, wire, hangup, Served)
        /\ FlattenSeq(input) \in Seq(Int)
        /\ \E p \in Nat : InPhase(FlattenSeq(input), p, Served)
    BY <1>2, <2>1, InOrderConsumed
  <2>3. b \in Seq(Int) /\ \E p \in Nat : InPhase(b, p, Served)
    BY <1>2, <1>6, <1>8, <2>2
  <2>4. q.status = "Good" /\ q.unit = Unit /\ q.func = Func =>
          q.data = <<>> \/ \E n : q.data = <<n>> /\ <<q.id, n>> \in Served
    BY <1>3, <1>7, <2>3, StreamAccepted
  <2>5. Genuine'
    BY <1>1, <1>6, <1>7, <2>4, TakenIsServed
  <2>6. InOrder(input', wire', hangup', Served)
    BY <1>2, <1>8, <2>2
  <2>7. Lost'
    BY <1>2, <1>8, <2>1 DEF Lost
  <2> QED
    BY <1>1, <1>8, <2>5, <2>6, <2>7, ServedSame
<1>9. CASE line = "udp"
  <2>1. Datagrams(input, wire, Served)
    BY <1>3, <1>9 DEF ServedLine
  <2>2. /\ input \in Chunks
        /\ wire \in Seq(Carried)
        /\ \A i \in 1..Len(input) : Whole(input[i], Served)
        /\ \A i \in 1..Len(wire) : Whole(wire[i].bytes, Served)
    BY <2>1 DEF Datagrams
  <2>3. Head(input) = input[1] /\ 1 \in 1..Len(input)
    BY <1>2, <2>2 DEF Chunks
  <2>4. Whole(b, Served)
    BY <1>2, <1>6, <1>9, <2>2, <2>3
  <2>5. q.data = <<>> \/ \E n : q.data = <<n>> /\ <<q.id, n>> \in Served
    BY <1>3, <1>5, <1>7, <2>4, WholeAccepted
  <2>6. Genuine'
    BY <1>1, <1>6, <1>7, <2>5, TakenIsServed
  <2>7. /\ Tail(input) \in Chunks
        /\ \A i \in 1..Len(Tail(input)) : Whole(Tail(input)[i], Served)
    <3>1. /\ Tail(input) \in Chunks /\ Len(Tail(input)) = Len(input) - 1 /\ Len(input) \in Nat
          /\ \A i \in 1..Len(Tail(input)) : Tail(input)[i] = input[i + 1]
      BY <1>2, <2>2, HeadTailProperties DEF Chunks
    <3>2. \A i \in 1..Len(Tail(input)) : i + 1 \in 1..Len(input)
      BY <3>1
    <3> QED
      BY <2>2, <3>1, <3>2
  <2>8. Datagrams(input', wire', Served)
    <3>1. input' = Tail(input) /\ wire' = wire
      BY <1>2, <1>9
    <3> QED
      BY <2>2, <2>7, <3>1 DEF Datagrams
  <2> QED
    BY <1>1, <1>9, <2>6, <2>8, ServedSame
<1> QED
  BY <1>4, <1>8, <1>9

(* A datagram more.                                                        *)
LEMMA DatagramSent ==
  ASSUME NEW arrived, NEW sent, NEW known, Datagrams(arrived, sent, known),
         NEW c \in Carried, Whole(c.bytes, known)
  PROVE  Datagrams(arrived, Append(sent, c), known)
<1>1. /\ arrived \in Chunks /\ sent \in Seq(Carried)
      /\ \A i \in 1..Len(arrived) : Whole(arrived[i], known)
      /\ \A i \in 1..Len(sent) : Whole(sent[i].bytes, known)
  BY DEF Datagrams
<1>2. PICK more : more = Append(sent, c)
  OBVIOUS
<1>3. /\ more \in Seq(Carried) /\ Len(more) = Len(sent) + 1 /\ Len(sent) \in Nat
      /\ more[Len(sent) + 1] = c
      /\ \A i \in 1..Len(sent) : more[i] = sent[i]
  BY <1>1, <1>2, AppendProperties
<1>4. ASSUME NEW i \in 1..Len(more)
      PROVE  Whole(more[i].bytes, known)
  <2>1. CASE i = Len(sent) + 1
    BY <1>3, <2>1
  <2>2. CASE i # Len(sent) + 1
    <3>1. i \in 1..Len(sent)
      BY <1>3, <2>2
    <3> QED
      BY <1>1, <1>3, <3>1
  <2> QED
    BY <2>1, <2>2
<1>5. Datagrams(arrived, more, known)
  BY <1>1, <1>3, <1>4 DEF Datagrams
<1> QED
  BY <1>2, <1>5

(* The request goes out.                                                   *)
LEMMA WriteServed ==
  ASSUME PortInv, ServedInv, frame = "NET", Write
  PROVE  ServedInv'
<1>1. /\ blocked /\ engine = "WRITE" /\ engine' = "READ" /\ SameAttempt /\ Reach
      /\ UNCHANGED <<settings, tries, transaction, asked>>
  BY DEF Write
<1>2. TypeOK /\ PortState /\ BufferKept /\ ServedLine /\ answered \in Seq(Int)
  BY DEF PortInv, ServedInv
<1>3. Net /\ line \in {"tcp", "udp"} /\ UNCHANGED <<frame, line>>
  BY <1>1, <1>2, NetLine, SameLine
<1>4. SendNet
  BY <1>3 DEF Write, Sent, SendSerial
<1>5. valid = TRUE /\ UNCHANGED <<valid, error, hangup, input>>
  BY <1>2, <1>3, <1>4 DEF SendNet, Usable, PortState, TypeOK
<1>6. CASE UNCHANGED <<answered, wire>>
  <2>1. Quiet
    BY <1>1, <1>5, <1>6 DEF Quiet, Stays
  <2> QED
    BY <2>1, QuietServed
<1>7. ASSUME ~hangup, answered' = Append(answered, asked),
             NEW c \in Carried, c.bytes = Answer(<<transaction, Len(answered) + 1>>),
             wire' = Append(wire, c)
      PROVE  ServedInv'
  <2>1. /\ answered' \in Seq(Int)
        /\ Served \subseteq Served'
        /\ <<transaction, Len(answered) + 1>> \in Served'
    BY <1>2, <1>7, ServedMore
  <2>2. Answers(Served')
    BY <2>1, ServedNumbersNext
  <2>3. Whole(c.bytes, Served')
    BY <1>7, <2>1 DEF Whole
  <2>4. Genuine'
    BY <1>1, <1>2 DEF BufferKept, SameAttempt, Genuine
  <2>5. ASSUME line = "tcp"
        PROVE  InOrder(input', wire', hangup', Served') /\ Lost'
    <3>1. InOrder(input, wire, hangup, Served) /\ Lost
      BY <1>2, <2>5 DEF ServedLine
    <3>2. hangup = FALSE /\ error = FALSE
      BY <1>2, <1>7, <3>1 DEF TypeOK, Lost
    <3>3. InOrder(input, wire, FALSE, Served')
      BY <2>1, <3>1, <3>2, InOrderKnown
    <3>4. InOrder(input, Append(wire, c), FALSE, Served')
      BY <2>2, <2>3, <3>3, InOrderSent
    <3>5. InOrder(input', wire', hangup', Served')
      BY <1>5, <1>7, <3>2, <3>4
    <3>6. Lost'
      BY <1>5, <3>2 DEF Lost
    <3> QED
      BY <3>5, <3>6
  <2>6. ASSUME line = "udp"
        PROVE  Datagrams(input', wire', Served')
    <3>1. Datagrams(input, wire, Served)
      BY <1>2, <2>6 DEF ServedLine
    <3>2. Datagrams(input, wire, Served')
      BY <2>1, <3>1, DatagramsKnown
    <3>3. Datagrams(input, Append(wire, c), Served')
      BY <2>3, <3>2, DatagramSent
    <3> QED
      BY <1>5, <1>7, <3>3
  <2> QED
    BY <1>3, <2>1, <2>4, <2>5, <2>6 DEF ServedInv, ServedLine
<1>8. \/ UNCHANGED <<answered, wire>>
      \/ \E c \in Carried :
           /\ ~hangup
           /\ answered' = Append(answered, asked)
           /\ c.bytes = Answer(<<transaction, Len(answered) + 1>>)
           /\ wire' = Append(wire, c)
  BY <1>1, <1>2, ReachAnswers
<1> QED
  BY <1>6, <1>7, <1>8

(* A request begins, or nothing happens to the line: no outcome is new.    *)
LEMMA IdleServed ==
  ASSUME PortInv, ServedInv, frame = "NET",
         UNCHANGED <<settings, answered, valid, error, hangup, input, wire>>,
         outcome' = outcome \/ outcome'.data = <<>>
  PROVE  ServedInv'
<1>1. ServedLine /\ Genuine
  BY DEF ServedInv
<1>2. line = "tcp" => InOrder(input', wire', hangup', Served) /\ Lost'
  BY <1>1 DEF ServedLine, Lost
<1>3. line = "udp" => Datagrams(input', wire', Served)
  BY <1>1 DEF ServedLine
<1>4. Genuine'
  BY <1>1 DEF Genuine
<1> QED
  BY <1>2, <1>3, <1>4, ServedSame

(* What comes in does not touch the outcome.                               *)
LEMMA AsideServed ==
  ASSUME PortInv, ServedInv, frame = "NET", Aside,
         line = "tcp" => InOrder(input', wire', hangup', Served) /\ Lost',
         line = "udp" => Datagrams(input', wire', Served)
  PROVE  ServedInv'
<1>1. UNCHANGED <<settings, answered, outcome>>
  BY DEF Aside, engineVars
<1>2. Genuine'
  BY <1>1 DEF ServedInv, Genuine
<1> QED
  BY <1>1, <1>2, ServedSame

(* Something is sent on a connection that is open.                         *)
LEMMA OpenConnection ==
  ASSUME PortInv, ServedInv, line = "tcp", wire # <<>>,
         UNCHANGED <<valid, error, hangup>>
  PROVE  /\ valid = TRUE /\ hangup' = FALSE
         /\ InOrder(input, wire, FALSE, Served)
         /\ Lost'
<1>1. InOrder(input, wire, hangup, Served) /\ Lost /\ TypeOK
  BY DEF PortInv, ServedInv, ServedLine
<1>2. valid = TRUE /\ hangup = FALSE /\ error = FALSE
  BY <1>1 DEF TypeOK, Lost
<1>3. Lost'
  BY <1>2 DEF Lost
<1> QED
  BY <1>1, <1>2, <1>3

(* An answer, or the rest of one, arrives.                                 *)
LEMMA DeliverServed ==
  ASSUME PortInv, ServedInv, frame = "NET", Deliver
  PROVE  ServedInv'
<1>1. PICK i \in DOMAIN wire : /\ i = 1 \/ line = "udp"
                               /\ Arrives(wire[i].bytes)
                               /\ wire' = RemoveAt(wire, i)
  BY DEF Deliver
<1>2. /\ Aside /\ UNCHANGED <<valid, error, hangup>>
      /\ valid => input' = Append(input, wire[i].bytes)
      /\ ~valid => input' = input
  BY <1>1, ArrivesAside
<1>3. ServedLine /\ Answers(Served)
  BY ServedNumbers DEF ServedInv
<1>4. ASSUME line = "tcp"
      PROVE  InOrder(input', wire', hangup', Served) /\ Lost'
  <2>1. i = 1 /\ wire # <<>>
    BY <1>1, <1>4
  <2>2. /\ valid = TRUE /\ hangup' = FALSE
        /\ InOrder(input, wire, FALSE, Served)
        /\ Lost'
    BY <1>2, <1>4, <2>1, OpenConnection
  <2>3. InOrder(Append(input, wire[1].bytes), RemoveAt(wire, 1), FALSE, Served)
    BY <1>3, <2>1, <2>2, InOrderDelivered
  <2>4. input' = Append(input, wire[1].bytes) /\ wire' = RemoveAt(wire, 1)
    BY <1>1, <1>2, <2>1, <2>2
  <2> QED
    BY <2>2, <2>3, <2>4
<1>5. ASSUME line = "udp"
      PROVE  Datagrams(input', wire', Served)
  <2>1. Datagrams(input, wire, Served)
    BY <1>3, <1>5 DEF ServedLine
  <2>2. /\ Datagrams(Append(input, wire[i].bytes), RemoveAt(wire, i), Served)
        /\ Datagrams(input, RemoveAt(wire, i), Served)
    BY <1>3, <2>1, DatagramArrives
  <2> QED
    BY <1>1, <1>2, <2>2
<1> QED
  BY <1>2, <1>4, <1>5, AsideServed

(* A datagram comes twice.                                                 *)
LEMMA DeliverTwiceServed ==
  ASSUME PortInv, ServedInv, frame = "NET", DeliverTwice
  PROVE  ServedInv'
<1>1. line = "udp" /\ wire # <<>> /\ Arrives(wire[1].bytes) /\ wire' = wire
  BY DEF DeliverTwice
<1>2. /\ Aside
      /\ valid => input' = Append(input, wire[1].bytes)
      /\ ~valid => input' = input
  BY <1>1, ArrivesAside
<1>3. Datagrams(input, wire, Served) /\ Answers(Served)
  BY <1>1, ServedNumbers DEF ServedInv, ServedLine
<1>4. 1 \in DOMAIN wire
  BY <1>1, <1>3 DEF Datagrams
<1>5. Datagrams(Append(input, wire[1].bytes), wire, Served)
  BY <1>3, <1>4, DatagramArrives
<1>6. Datagrams(input', wire', Served)
  BY <1>1, <1>2, <1>3, <1>5
<1> QED
  BY <1>1, <1>2, <1>6, AsideServed

(* The first half of an answer arrives.                                    *)
LEMMA DeliverPartServed ==
  ASSUME PortInv, ServedInv, frame = "NET", DeliverPart
  PROVE  ServedInv'
<1>1. /\ line = "tcp" /\ wire # <<>>
      /\ Len(wire[1].bytes) > 1
  BY NetLine DEF DeliverPart, PortInv
<1>2. PICK s, cut, x, y :
        s = wire[1].bytes /\ cut = Len(s) \div 2 /\ Parts(s, cut, x, y)
  BY DEF Parts
<1>3. Arrives(x) /\ wire' = [wire EXCEPT ![1].bytes = y]
  BY <1>2 DEF DeliverPart, Parts
<1>4. /\ Aside /\ UNCHANGED <<valid, error, hangup>>
      /\ valid => input' = Append(input, x)
  BY <1>3, ArrivesAside
<1>5. /\ valid = TRUE /\ hangup' = FALSE
      /\ InOrder(input, wire, FALSE, Served)
      /\ Lost'
  BY <1>1, <1>4, OpenConnection
<1>6. wire \in Seq(Carried)
  BY <1>5 DEF InOrder
<1>7. s \in Seq(Int) /\ First(wire) = s
  BY <1>1, <1>2, <1>6, FirstBytes
<1>8. cut \in Nat /\ cut >= 1 /\ cut < Len(s)
  <2>1. Len(s) \in Nat /\ Len(s) > 1
    BY <1>1, <1>2, <1>7
  <2> QED
    BY <1>2, <2>1, Half
<1>9. Parts(s, cut, x, y) /\ s \in Seq(Int)
  BY <1>2, <1>7
<1>10. TwoParts(s, x, y)
  BY <1>8, <1>9, CutInTwo
<1>11. TwoParts(First(wire), x, y) /\ y \in Seq(Int)
  BY <1>7, <1>10 DEF TwoParts
<1>12. PICK rest : rest = wire' /\ Shortened(rest, wire, y)
  BY <1>1, <1>3, <1>6, <1>11, ShortenFirst
<1>13. Moved(Append(input, x), rest, input, wire, Served)
  <2>1. InOrder(input, wire, FALSE, Served)
    BY <1>5
  <2>2. wire # <<>>
    BY <1>1
  <2>3. TwoParts(First(wire), x, y)
    BY <1>11
  <2>4. Shortened(rest, wire, y)
    BY <1>12
  <2> QED
    BY <2>1, <2>2, <2>3, <2>4, InOrderPart, Zenon
<1>14. InOrder(input', wire', hangup', Served)
  BY <1>4, <1>5, <1>12, <1>13 DEF Moved
<1> QED
  BY <1>1, <1>4, <1>5, <1>14, AsideServed

(* The connection ends.                                                    *)
LEMMA HangUpServed ==
  ASSUME PortInv, ServedInv, frame = "NET", HangUp
  PROVE  ServedInv'
<1>1. /\ line = "tcp" /\ hangup' = TRUE /\ wire' = <<>> /\ valid' = valid /\ valid
      /\ UNCHANGED <<error, input>> \/ (error' = TRUE /\ input' = <<>>)
      /\ Aside
  BY DEF HangUp, Aside, history
<1>2. InOrder(input, wire, hangup, Served) /\ Lost
  BY <1>1 DEF ServedInv, ServedLine
<1>3. Lost'
  BY <1>1, <1>2 DEF Lost
<1>4. InOrder(input', wire', hangup', Served)
  <2>1. CASE input' = <<>>
    <3>1. InOrder(<<>>, <<>>, TRUE, Served)
      BY InOrderEmpty
    <3> QED
      BY <1>1, <2>1, <3>1
  <2>2. CASE input' = input
    <3>1. InOrder(input, <<>>, TRUE, Served)
      BY <1>2, InOrderGone
    <3> QED
      BY <1>1, <2>2, <3>1
  <2> QED
    BY <1>1, <2>1, <2>2
<1> QED
  BY <1>1, <1>3, <1>4, AsideServed

(* Every step of the engine.                                               *)
LEMMA ProcessServed ==
  ASSUME PortInv, ServedInv, frame = "NET", process
  PROVE  ServedInv'
<1>1. TypeOK /\ (line = "tcp" => Lost)
  BY DEF PortInv, ServedInv, ServedLine
<1>2. \/ Quiet \/ Write
      \/ ReadAnswer /\ ReceiveNet /\ \E room \in {0, 1} : Take(buff', room)
  BY <1>1, LookQuiet, OpenQuiet, ReopenQuiet, PrepareWriteQuiet, WriteFailsQuiet,
     ReadQuiet, PauseQuiet DEF process
<1> QED
  BY <1>2, QuietServed, WriteServed, TakeServed

(* And every step.                                                         *)
LEMMA ServedNext ==
  ASSUME PortInv, ServedInv, frame = "NET", [Next]_vars
  PROVE  ServedInv'
<1>1. CASE Ask \/ AskTooLong
  <2>1. UNCHANGED <<settings, answered, valid, error, hangup, input, wire>>
    BY <1>1 DEF Ask, AskTooLong, history
  <2>2. outcome'.data = <<>>
    BY <1>1 DEF Ask, AskTooLong, Nothing
  <2> QED
    BY <2>1, <2>2, IdleServed
<1>2. CASE process
  BY <1>2, ProcessServed
<1>3. CASE ChangeSetting
  <2>1. UNCHANGED <<settings, answered, valid, error, hangup, input, wire, outcome>>
    BY <1>3 DEF ChangeSetting, Change, history, engineVars
  <2> QED
    BY <2>1, IdleServed
<1>4. CASE Medium
  <2>1. ~DeliverDamaged
    BY NetLine DEF DeliverDamaged, PortInv
  <2> QED
    BY <1>4, <2>1, DeliverServed, DeliverTwiceServed, DeliverPartServed, HangUpServed
       DEF Medium
<1>5. CASE UNCHANGED vars
  <2>1. UNCHANGED <<settings, answered, valid, error, hangup, input, wire, outcome>>
    BY <1>5 DEF vars, lineVars, history, engineVars
  <2> QED
    BY <2>1, IdleServed
<1> QED
  BY <1>1, <1>2, <1>3, <1>4, <1>5 DEF Next

(* At first nothing is sent.                                               *)
LEMMA ServedInit ==
  ASSUME Init
  PROVE  ServedInv
<1>1. answered = <<>> /\ outcome = Nothing /\ input = <<>> /\ wire = <<>> /\ error = FALSE
  BY DEF Init, LineInit
<1>2. Genuine
  BY <1>1 DEF Genuine, Nothing
<1>3. InOrder(input, wire, hangup, Served)
  BY <1>1, InOrderEmpty
<1>4. Lost
  BY <1>1 DEF Lost
<1>5. Datagrams(input, wire, Served)
  BY <1>1 DEF Datagrams, Chunks
<1> QED
  BY <1>1, <1>2, <1>3, <1>4, <1>5 DEF ServedInv, ServedLine

(* On the sockets that carry NET frames, whatever a client is handed was   *)
(* answered by the server: no two parts of answers, read together or apart,*)
(* are taken for one.                                                      *)
THEOREM AnswerIsGenuine == Spec => [](frame = "NET" => Genuine)
<1>1. Init => NetInv
  BY PortInit, ServedInit DEF NetInv
<1>2. NetInv /\ [Next]_vars => NetInv'
  <2> SUFFICES ASSUME NetInv, [Next]_vars
               PROVE  NetInv'
    OBVIOUS
  <2>1. PortInv'
    BY PortNext, PortIdle DEF NetInv
  <2>2. UNCHANGED frame
    BY SettingsStay, SameLine
  <2>3. frame = "NET" => ServedInv'
    BY ServedNext DEF NetInv
  <2> QED
    BY <2>1, <2>2, <2>3 DEF NetInv
<1>3. NetInv => (frame = "NET" => Genuine)
  BY DEF NetInv, ServedInv
<1> QED
  BY <1>1, <1>2, <1>3, PTL DEF Spec
=============================================================================
