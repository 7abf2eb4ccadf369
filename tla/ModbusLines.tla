--------------------------- MODULE ModbusLines ---------------------------
(***************************************************************************)
(* The built-in ports on the lines they work on: open(), close(),          *)
(* isOpen(), write() and read() of ModbusTcpPortBase, ModbusUdpPortBase    *)
(* and ModbusSerialPort on unix, as a client uses them.  A system call     *)
(* returns any of what it may return; time that has elapsed is one of      *)
(* these outcomes.  "state" is the port's own state inside an operation.   *)
(***************************************************************************)
EXTENDS ModbusFrames

VARIABLES
  type,          \* Modbus::ProtocolType
  blocking,      \* modeBlocking
  interByte,     \* a serial port's timeoutInterByte is not 0
  state,         \* ModbusPortPrivate::state
  valid,         \* there is a socket or a device
  changed,       \* a setting differs from what open() used
  buff,          \* frame->buff up to frame->sz, for both directions
  error,         \* the kernel holds an error of the socket
  hangup,        \* the other side closed a TCP connection
  input,         \* what arrived and was not read yet, in chunks
  wire,          \* answers on their way: the bytes left and a number
  call           \* the operation of this step and its result

lineVars == <<state, valid, changed, buff, error, hangup, input, wire, call>>
settings == <<type, blocking, interByte>>

(* createPort: a frame on a line.                                          *)
createPort ==
  [RTU     |-> [frame |-> "RTU", line |-> "serial"],
   ASC     |-> [frame |-> "ASC", line |-> "serial"],
   TCP     |-> [frame |-> "NET", line |-> "tcp"],
   UDP     |-> [frame |-> "NET", line |-> "udp"],
   ASCvTCP |-> [frame |-> "ASC", line |-> "tcp"],
   RTUvTCP |-> [frame |-> "RTU", line |-> "tcp"],
   ASCvUDP |-> [frame |-> "ASC", line |-> "udp"],
   RTUvUDP |-> [frame |-> "RTU", line |-> "udp"]]

frame == createPort[type].frame
line == createPort[type].line
Net == line \in {"tcp", "udp"}

NoCall == [op |-> "none", result |-> "none"]
Returns(op, r) == call' = [op |-> op, result |-> r]

LineInit ==
  /\ state = "UNKNOWN"
  /\ valid = FALSE /\ changed = FALSE /\ error = FALSE /\ hangup = FALSE
  /\ buff = <<>>
  /\ input = <<>> /\ wire = <<>>
  /\ call = NoCall

(* A setter whose value differs.                                           *)
Change ==
  /\ ~changed
  /\ changed' = TRUE
  /\ call' = NoCall
  /\ UNCHANGED <<state, valid, buff, error, hangup, input, wire>>

(* isOpen() asks the socket for its error, which clears it.                *)
isOpen(up) ==
  /\ up = (valid /\ ~error)
  /\ error' = FALSE
  /\ UNCHANGED <<state, valid, changed, buff, hangup, input, wire>>

(* What the kernel held for a socket or a device goes with it, and so do   *)
(* answers on their way to a socket.                                       *)
Fresh ==
  /\ error' = FALSE
  /\ hangup' = FALSE
  /\ input' = <<>>
  /\ wire' = IF Net THEN <<>> ELSE wire

close ==
  /\ Fresh
  /\ valid' = FALSE
  /\ state' = "CLOSED"
  /\ UNCHANGED <<changed, buff>>

-----------------------------------------------------------------------------
(* open()                                                                  *)

(* The port is open with the current settings.  A pending error makes      *)
(* isOpen() say no once, and it is asked again before a new socket is made.*)
OpenAlready ==
  /\ state # "WAIT_FOR_OPEN"
  /\ valid /\ ~changed
  /\ state' = "OPENED"
  /\ error' = FALSE
  /\ Returns("open", "Good")
  /\ UNCHANGED <<valid, changed, buff, hangup, input, wire>>

(* The port is opened anew, after closing one with other settings.         *)
Opening ==
  /\ state # "WAIT_FOR_OPEN"
  /\ ~valid \/ changed
  /\ changed' = FALSE
  /\ Fresh
  /\ UNCHANGED buff

(* The state in which an attempt fails before there is a socket.           *)
Before == IF state = "UNKNOWN" /\ ~valid THEN "UNKNOWN" ELSE "CLOSED"

(* The address cannot be resolved, the socket or the device not opened.    *)
OpenFails ==
  /\ Opening
  /\ valid' = FALSE
  /\ state' = Before
  /\ Returns("open", "Bad")

\* mutant: a new socket forgets that the settings it uses are the new ones.
OpenUdpUncleared ==
  /\ line = "udp"
  /\ state # "WAIT_FOR_OPEN"
  /\ ~valid \/ changed
  /\ Fresh
  /\ UNCHANGED <<buff, changed>>
  /\ valid' = TRUE
  /\ state' = "OPENED"
  /\ Returns("open", "Good")

OpenUdp ==
  /\ line = "udp"
  /\ Opening
  /\ valid' = TRUE
  /\ state' = "OPENED"
  /\ Returns("open", "Good")

(* A device that was opened stays so when its attributes cannot be set.    *)
OpenSerial ==
  /\ line = "serial"
  /\ Opening
  /\ valid' = TRUE
  /\ state' = Before
  /\ \E r \in {"Good", "Bad"} : Returns("open", r)

(* connect(): a blocking port waits for its outcome, another asks again;   *)
(* settings that change meanwhile are left for later.                      *)
ConnectEnds(r) ==
  /\ valid' = (r = "Good")
  /\ state' = IF r = "Good" THEN "OPENED" ELSE "CLOSED"
  /\ Returns("open", r)

Connecting ==
  /\ ~blocking
  /\ valid' = TRUE
  /\ state' = "WAIT_FOR_OPEN"
  /\ Returns("open", "Processing")

OpenTcp ==
  /\ line = "tcp"
  /\ \/ Opening
     \/ state = "WAIT_FOR_OPEN" /\ Fresh /\ UNCHANGED <<changed, buff>>
  /\ ConnectEnds("Good") \/ ConnectEnds("Bad") \/ Connecting

open == OpenAlready \/ OpenFails \/ OpenUdp \/ OpenSerial \/ OpenTcp

-----------------------------------------------------------------------------
(* write()                                                                 *)

(* In a state of another operation the port looks whether it is open.      *)
Usable(states) == state \in states \/ (valid /\ ~error)

NotUsable(op) ==
  /\ error' = FALSE
  /\ Returns(op, "Bad")
  /\ UNCHANGED <<state, valid, changed, buff, hangup, input, wire>>

(* Bytes are taken; what comes back is up to who listens.                  *)
SendNet ==
  /\ Net
  /\ Usable({"OPENED"})
  /\ buff # <<>>
  /\ state' = "OPENED"
  /\ Returns("write", "Good")
  /\ UNCHANGED <<valid, changed, buff, error, hangup, input>>

SendNetFails ==
  /\ Net
  /\ IF Usable({"OPENED"}) THEN close /\ Returns("write", "Bad") ELSE NotUsable("write")

\* mutant: what arrived before is left in the input.
SendSerialUnflushed(r) ==
  /\ line = "serial"
  /\ state' = IF r = "Processing" THEN "WAIT_FOR_WRITE" ELSE "OPENED"
  /\ blocking => r # "Processing"
  /\ ~valid => r = "Bad"
  /\ Returns("write", r)
  /\ UNCHANGED <<valid, changed, buff, error, hangup, input>>

(* The input is flushed first.  An empty frame is written like any other,  *)
(* and a device that takes no bytes yet is asked again without limit.  The *)
(* engine has just looked whether the port is open.                        *)
SendSerial(r) ==
  /\ line = "serial"
  /\ input' = <<>>
  /\ state' = IF r = "Processing" THEN "WAIT_FOR_WRITE" ELSE "OPENED"
  /\ blocking => r # "Processing"
  /\ ~valid => r = "Bad"
  /\ Returns("write", r)
  /\ UNCHANGED <<valid, changed, buff, error, hangup>>

Sent == SendNet \/ SendSerial("Good")
NotSent ==
  \/ SendNetFails
  \/ /\ SendSerial("Bad") \/ SendSerial("Processing")
     /\ UNCHANGED wire

-----------------------------------------------------------------------------
(* read()                                                                  *)

Reads(r) == /\ Returns("read", r)
            /\ UNCHANGED <<valid, changed, error, hangup, wire>>

(* recv takes what a stream holds, recvfrom one datagram.                  *)
ReceiveNet ==
  /\ Net
  /\ Usable({"OPENED", "WAIT_FOR_READ"})
  /\ input # <<>>
  /\ buff' = IF line = "tcp" THEN FlattenSeq(input) ELSE Head(input)
  /\ input' = IF line = "tcp" THEN <<>> ELSE Tail(input)
  /\ state' = "OPENED"
  /\ Reads("Good")

(* The other side is gone, the call fails, or the time is over: the port   *)
(* closes.                                                                 *)
ReceiveNetFails ==
  /\ Net
  /\ IF Usable({"OPENED", "WAIT_FOR_READ"})
     THEN input = <<>> /\ close /\ Returns("read", "Bad")
     ELSE NotUsable("read")

(* ... but not a UDP port that does not block.                             *)
ReceiveUdpTimeout ==
  /\ line = "udp" /\ ~blocking
  /\ Usable({"OPENED", "WAIT_FOR_READ"})
  /\ input = <<>>
  /\ state' = "OPENED"
  /\ Reads("Bad")
  /\ UNCHANGED <<buff, input>>

AwaitNet ==
  /\ Net /\ ~blocking
  /\ Usable({"OPENED", "WAIT_FOR_READ"})
  /\ input = <<>> /\ ~hangup /\ ~error
  /\ state' = "WAIT_FOR_READ"
  /\ Reads("Processing")
  /\ UNCHANGED <<buff, input>>

\* mutant: the buffer is filled before the outcome of the read is looked at.
ReceiveSerialBlockingKept ==
  /\ line = "serial" /\ blocking
  /\ state' = "OPENED"
  /\ buff' = FlattenSeq(input)
  /\ \/ /\ valid
        /\ input' = <<>>
        /\ Reads("Good")
     \/ /\ Reads("Bad")
        /\ UNCHANGED input

(* A blocking serial read cannot tell nothing in time from an empty frame. *)
ReceiveSerialBlocking ==
  /\ line = "serial" /\ blocking
  /\ state' = "OPENED"
  /\ \/ /\ valid
        /\ buff' = FlattenSeq(input)
        /\ input' = <<>>
        /\ Reads("Good")
     \/ /\ Reads("Bad")
        /\ UNCHANGED <<buff, input>>

(* The first bytes, which start an empty buffer ...                        *)
AwaitFirst == state # "WAIT_FOR_READ_ALL"
Gathered == (IF AwaitFirst THEN <<>> ELSE buff) \o FlattenSeq(input)

(* ... and the next, until none comes for timeoutInterByte.                *)
ReceiveSerial(r) ==
  /\ line = "serial" /\ ~blocking /\ valid
  /\ buff' = Gathered
  /\ input' = <<>>
  /\ IF input = <<>>
     THEN r \in {"Processing", IF AwaitFirst THEN "Bad" ELSE "Good"}
     ELSE r = IF AwaitFirst /\ ~interByte THEN "Good" ELSE "Processing"
  /\ state' = CASE r # "Processing" -> "OPENED"
                [] AwaitFirst /\ input = <<>> -> "WAIT_FOR_READ"
                [] OTHER -> "WAIT_FOR_READ_ALL"
  /\ Reads(r)

ReceiveSerialFails ==
  /\ line = "serial" /\ ~blocking
  /\ IF valid
     THEN /\ buff' = IF AwaitFirst THEN <<>> ELSE buff
          /\ state' = "OPENED"
          /\ Reads("Bad")
          /\ UNCHANGED input
     ELSE NotUsable("read")

read ==
  \/ ReceiveNet \/ ReceiveNetFails \/ ReceiveUdpTimeout \/ AwaitNet
  \/ ReceiveSerialBlocking \/ ReceiveSerialFails
  \/ \E r \in {"Good", "Bad", "Processing"} : ReceiveSerial(r)
=============================================================================
