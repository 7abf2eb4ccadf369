------------------------- MODULE ModbusTransport -------------------------
(***************************************************************************)
(* One client engine, one of the built-in ports, the line and a server:    *)
(* the bytes of every frame travel, late, lost, split or damaged, and the  *)
(* client tells the answer to its request from all the others, or not.     *)
(* Every request asks the same function of the same unit, as a client that *)
(* polls does, and every answer has a number of its own.  A step is one    *)
(* operation of the port inside ModbusClientPort::process.                 *)
(***************************************************************************)
EXTENDS ModbusLines

CONSTANTS
  Types,        \* the protocol types that are checked
  Tries,        \* values of setTries
  Ids,          \* values of setTransactionId before the first request
  Requests,     \* bound: requests of the client
  Disturbances, \* bound: answers lost, split, doubled or damaged, hang-ups
  Changes       \* bound: settings changed while the port is in use

ASSUME TransportAssumption ==
  /\ Types \subseteq DOMAIN createPort
  /\ Tries \subseteq Nat \ {0}
  /\ Ids \subseteq {id \in Nat : id < 65536}
  /\ Requests \in Nat /\ Disturbances \in Nat /\ Changes \in Nat

VARIABLES
  tries,          \* settings.tries
  transaction,    \* the identifier of a NET frame
  autoIncrement,  \* whether writeBuffer takes the next one
  engine,         \* ModbusClientPortPrivate::state
  blocked,        \* isWriteBufferBlocked: a request is under way
  repeats,        \* attempts of it that have failed
  asked,          \* the number of the last request
  outcome,        \* what the last request came to
  answered,       \* the request that each answer belongs to
  passed,         \* answers that had arrived before the last write
  disturbances, changes   \* what is left of the bounds

engineVars == <<engine, blocked, repeats, asked, outcome>>
idVars == <<transaction, autoIncrement>>
history == <<answered, passed>>
budget == <<disturbances, changes>>
vars == <<lineVars, settings, tries, engineVars, idVars, history, budget>>

Unit == 1
Func == 3
Nothing == [status |-> "None", data |-> <<>>]

Init ==
  /\ type \in Types
  /\ blocking \in BOOLEAN
  /\ interByte \in IF line = "serial" /\ ~blocking THEN BOOLEAN ELSE {TRUE}
  /\ tries \in Tries
  /\ transaction \in IF frame = "NET" THEN Ids ELSE {0}
  /\ autoIncrement = TRUE
  /\ LineInit
  /\ engine = "UNKNOWN"
  /\ blocked = FALSE
  /\ repeats = 0
  /\ asked = 0
  /\ outcome = Nothing
  /\ answered = <<>>
  /\ passed = {}
  /\ disturbances = Disturbances
  /\ changes = Changes

(* The frame of the last request, as it was first written.                 *)
Request == Frame(frame, transaction, Unit, Func, <<asked>>)

-----------------------------------------------------------------------------
(* ModbusClientPort::request                                               *)

(* writeBuffer takes an identifier even for data that do not fit.          *)
writeId ==
  /\ transaction' = IF frame = "NET" /\ autoIncrement
                    THEN (transaction + 1) % 65536 ELSE transaction
  /\ autoIncrement' = TRUE

Ask ==
  /\ ~blocked
  /\ asked < Requests
  /\ asked' = asked + 1
  /\ writeId
  /\ buff' = Frame(frame, transaction', Unit, Func, <<asked'>>)
  /\ blocked' = TRUE
  /\ outcome' = Nothing
  /\ call' = NoCall
  /\ UNCHANGED <<engine, repeats, state, valid, changed, error, hangup, input, wire,
                 settings, tries, history, budget>>

TooLong == [i \in 1..AscBuffSz \div 2 - 2 |-> 0]

AskTooLong ==
  /\ ~blocked
  /\ asked < Requests
  /\ ~Fits(frame, TooLong)
  /\ asked' = asked + 1
  /\ writeId
  /\ outcome' = [status |-> "BadWriteBufferOverflow", data |-> <<>>]
  /\ call' = NoCall
  /\ UNCHANGED <<engine, repeats, blocked, buff, state, valid, changed, error, hangup,
                 input, wire, settings, tries, history, budget>>

(* The port's setNextRequestRepeated: only NET frames have an identifier.  *)
setNextRequestRepeated == autoIncrement' = (frame # "NET")

\* mutant: an attempt is made again without counting it.
AttemptFailsUncounted(r) ==
  IF repeats + 1 < tries
  THEN /\ setNextRequestRepeated
       /\ UNCHANGED <<repeats, blocked, outcome>>
  ELSE /\ repeats' = 0
       /\ blocked' = FALSE
       /\ outcome' = [status |-> r, data |-> <<>>]
       /\ UNCHANGED autoIncrement

(* process() failed: another attempt with the same buffer, or the end.     *)
AttemptFails(r) ==
  IF repeats + 1 < tries
  THEN /\ repeats' = repeats + 1
       /\ setNextRequestRepeated
       /\ UNCHANGED <<blocked, outcome>>
  ELSE /\ repeats' = 0
       /\ blocked' = FALSE
       /\ outcome' = [status |-> r, data |-> <<>>]
       /\ UNCHANGED autoIncrement

\* mutant: the identifier of the answer is not compared.
VerdictAnyId(bytes, room) ==
  LET q == Read(frame, bytes, room)
  IN  IF q.status # "Good" THEN q.status
      ELSE IF q.unit # Unit \/ q.func # Func THEN "BadNotCorrectResponse"
      ELSE "Good"

(* readBuffer and what request() asks of the answer; there is no next      *)
(* attempt after an answer that is refused.                                *)
Verdict(bytes, room) ==
  LET q == Read(frame, bytes, room)
  IN  IF q.status # "Good" THEN q.status
      ELSE IF frame = "NET" /\ q.id # transaction THEN "BadNotCorrectResponse"
      ELSE IF q.unit # Unit \/ q.func # Func THEN "BadNotCorrectResponse"
      ELSE "Good"

Take(bytes, room) ==
  LET v == Verdict(bytes, room)
  IN  /\ repeats' = 0
      /\ blocked' = FALSE
      /\ outcome' = [status |-> v,
                     data |-> IF v = "Good" THEN Read(frame, bytes, room).data ELSE <<>>]
      /\ UNCHANGED autoIncrement

-----------------------------------------------------------------------------
(* ModbusClientPort::process, one operation of the port at a time          *)

EngineStep == /\ blocked
              /\ UNCHANGED <<settings, tries, transaction, asked, budget, answered>>

SameAttempt == UNCHANGED <<blocked, repeats, outcome, autoIncrement>>

LookWhetherOpen ==
  /\ EngineStep
  /\ engine = "UNKNOWN"
  /\ \E up \in BOOLEAN :
       /\ isOpen(up)
       /\ engine' = IF up THEN "OPENED" ELSE "WAIT_FOR_OPEN"
  /\ call' = NoCall
  /\ SameAttempt
  /\ UNCHANGED passed

Open ==
  /\ EngineStep
  /\ engine \in {"CLOSED", "WAIT_FOR_OPEN"}
  /\ open
  /\ CASE call'.result = "Good" -> engine' = "OPENED" /\ SameAttempt
       [] call'.result = "Processing" -> engine' = "WAIT_FOR_OPEN" /\ SameAttempt
       [] call'.result = "Bad" -> engine' = "TIMEOUT" /\ AttemptFails("Bad")
  /\ UNCHANGED passed

Reopen ==
  /\ EngineStep
  /\ engine = "OPENED" /\ changed
  /\ close
  /\ engine' = "CLOSED"
  /\ Returns("close", "Good")
  /\ SameAttempt
  /\ UNCHANGED passed

PrepareWrite ==
  /\ EngineStep
  /\ engine = "OPENED" /\ ~changed
  /\ \E up \in BOOLEAN :
       /\ isOpen(up)
       /\ IF up THEN engine' = "WRITE" /\ SameAttempt
                ELSE engine' = "CLOSED" /\ AttemptFails("BadPortClosed")
  /\ call' = NoCall
  /\ UNCHANGED passed

Numbers == {wire[i].n : i \in DOMAIN wire}

(* A request that arrives is answered with the next number, unless it or   *)
(* its answer is lost.                                                     *)
Reach ==
  LET q == Read(frame, buff, NetBuffSz)
      n == Len(answered) + 1
      a == [bytes |-> Frame(frame, q.id, q.unit, q.func, <<n>>), n |-> n]
  IN  \/ /\ q.status = "Good" /\ ~hangup
         /\ answered' = Append(answered, q.data[1])
         /\ wire' = Append(wire, a)
         /\ UNCHANGED disturbances
      \/ /\ disturbances > 0 \/ hangup \/ q.status # "Good"
         /\ disturbances' = IF hangup \/ q.status # "Good" THEN disturbances
                                                           ELSE disturbances - 1
         /\ UNCHANGED <<answered, wire>>

Write ==
  /\ blocked
  /\ engine = "WRITE"
  /\ Sent
  /\ Reach
  /\ engine' = "READ"
  /\ passed' = (1..Len(answered)) \ Numbers
  /\ SameAttempt
  /\ UNCHANGED <<settings, tries, transaction, asked, changes>>

WriteFails ==
  /\ EngineStep
  /\ engine = "WRITE"
  /\ NotSent
  /\ IF call'.result = "Bad" THEN engine' = "TIMEOUT" /\ AttemptFails("Bad")
                             ELSE SameAttempt /\ UNCHANGED engine
  /\ UNCHANGED passed

(* An answer is looked at in the step that read it.                        *)
ReadAnswer ==
  /\ EngineStep
  /\ engine = "READ"
  /\ read
  /\ CASE call'.result = "Good" ->
            /\ engine' = IF valid' THEN "OPENED" ELSE "CLOSED"
            /\ \E room \in {0, 1} : Take(buff', room)
       [] call'.result = "Processing" -> SameAttempt /\ UNCHANGED engine
       [] call'.result = "Bad" -> engine' = "TIMEOUT" /\ AttemptFails("Bad")
  /\ UNCHANGED passed

(* After a failure the engine waits for the rest of the time-out.          *)
Pause ==
  /\ EngineStep
  /\ engine = "TIMEOUT"
  /\ engine' = "UNKNOWN"
  /\ call' = NoCall
  /\ SameAttempt
  /\ UNCHANGED <<state, valid, changed, buff, error, hangup, input, wire, passed>>

process ==
  \/ LookWhetherOpen \/ Open \/ Reopen \/ PrepareWrite
  \/ Write \/ WriteFails \/ ReadAnswer \/ Pause

ChangeSetting ==
  /\ changes > 0
  /\ Change
  /\ changes' = changes - 1
  /\ UNCHANGED <<settings, tries, engineVars, idVars, history, disturbances>>

-----------------------------------------------------------------------------
(* The line and the other side                                             *)

Arrives(bytes) ==
  /\ input' = IF valid THEN Append(input, bytes) ELSE input
  /\ call' = NoCall
  /\ UNCHANGED <<state, valid, changed, buff, error, hangup, settings, tries,
                 engineVars, idVars, history, changes>>

(* Datagrams overtake each other.                                          *)
Deliver ==
  /\ \E i \in DOMAIN wire :
       /\ i = 1 \/ line = "udp"
       /\ Arrives(wire[i].bytes)
       /\ wire' = RemoveAt(wire, i)
  /\ UNCHANGED disturbances

Disturbed == /\ disturbances > 0
             /\ disturbances' = disturbances - 1

(* A stream delivers a part first.                                         *)
DeliverPart ==
  /\ Disturbed
  /\ line # "udp" /\ wire # <<>>
  /\ Len(wire[1].bytes) > 1
  /\ LET a == wire[1]
         cut == Len(a.bytes) \div 2
     IN  /\ Arrives(SubSeq(a.bytes, 1, cut))
         /\ wire' = [wire EXCEPT ![1].bytes = SubSeq(a.bytes, cut + 1, Len(a.bytes))]

(* A datagram comes twice.                                                 *)
DeliverTwice ==
  /\ Disturbed
  /\ line = "udp" /\ wire # <<>>
  /\ Arrives(wire[1].bytes)
  /\ UNCHANGED wire

(* A serial line changes a byte.                                           *)
DeliverDamaged ==
  /\ Disturbed
  /\ line = "serial" /\ wire # <<>>
  /\ \E i \in DOMAIN wire[1].bytes :
       Arrives([wire[1].bytes EXCEPT ![i] = (@ + 1) % 256])
  /\ wire' = Tail(wire)

(* The other side closes the connection, orderly or not.                   *)
HangUp ==
  /\ Disturbed
  /\ line = "tcp" /\ valid /\ ~hangup /\ state # "WAIT_FOR_OPEN"
  /\ hangup' = TRUE
  /\ wire' = <<>>
  /\ \/ UNCHANGED <<error, input>>
     \/ error' = TRUE /\ input' = <<>>
  /\ call' = NoCall
  /\ UNCHANGED <<state, valid, changed, buff, settings, tries, engineVars, idVars,
                 history, changes>>

Medium == Deliver \/ DeliverPart \/ DeliverTwice \/ DeliverDamaged \/ HangUp

Next == Ask \/ AskTooLong \/ process \/ ChangeSetting \/ Medium

(* Nothing limits the time of a write to a serial device, which may take   *)
(* no bytes and report no error: a blocking write then does not return,    *)
(* and another returns Status_Processing on and on.                        *)
HeldUp == line = "serial" /\ engine = "WRITE"

(* A caller calls again while its request is under way, and the clock goes *)
(* on, which ends every other operation that is pending; nothing is asked  *)
(* of the line and of the server.                                          *)
Spec == Init /\ [][Next]_vars /\ WF_vars(process /\ ~HeldUp)

-----------------------------------------------------------------------------
(* What a client is handed as the answer to its request is the answer to   *)
(* this request, over TCP and, if it is not tried again, over UDP: an      *)
(* answer that comes late has another identifier, also when the            *)
(* identifiers start over and when a request that was tried again lends    *)
(* its identifier to the next.                                             *)
OwnAnswer ==
  frame = "NET" /\ (line = "tcp" \/ tries = 1) /\ outcome.data # <<>>
    => answered[outcome.data[1]] = asked

(* What a client is handed is always the answer to its request: not so on  *)
(* lines whose frames have no identifier, nor after a request that was     *)
(* tried again over UDP.                                                   *)
OwnAnswerAlways == outcome.data # <<>> => answered[outcome.data[1]] = asked

(* Whatever a client is handed was answered by the server: parts of two    *)
(* answers, and an answer with a byte changed on the way, are refused.     *)
Genuine == outcome.data # <<>> => outcome.data[1] \in DOMAIN answered

(* On a serial line, what arrived before a request was written is not      *)
(* taken for its answer.                                                   *)
FlushedIsGone ==
  line = "serial" /\ outcome.data # <<>> => outcome.data[1] \notin passed

(* What goes out is the frame of the request, with one identifier for all  *)
(* its attempts, except on a serial line that does not block, whose reading*)
(* empties the buffer.                                                     *)
WireCarriesRequest ==
  call = [op |-> "write", result |-> "Good"] /\ (Net \/ blocking \/ tries = 1)
    => buff = Request

(* ... which every line would need for its retries to be any use.          *)
WireCarriesRequestAlways ==
  call = [op |-> "write", result |-> "Good"] => buff = Request

(* Each built-in port keeps to what the models of the engines take for     *)
(* granted of a port.                                                      *)
Port(b) == INSTANCE ModbusPort WITH Blocking <- b, portOpen <- valid,
                                    connecting <- state = "WAIT_FOR_OPEN"
PortResult(r) == IF r = "Bad" THEN "BadPort" ELSE r
PortContract ==
  [][\E b \in {blocking} :
       CASE call'.op = "open" -> Port(b)!PortOpen(PortResult(call'.result))
         [] call'.op = "close" -> Port(b)!PortClose
         [] call'.op \in {"write", "read"} -> Port(b)!PortTransfer(PortResult(call'.result))
         [] call'.op = "none" -> UNCHANGED <<valid, state>>]_vars

(* A request comes to an end, in both modes, after lost answers, closed    *)
(* connections and changed settings, on every line but a serial one whose  *)
(* device holds up a write for ever.                                       *)
RequestEnds == []<>~HeldUp => (blocked ~> ~blocked)

(* ... which such a device prevents, for no time-out ends the write.       *)
RequestEndsAlways == blocked ~> ~blocked
=============================================================================
