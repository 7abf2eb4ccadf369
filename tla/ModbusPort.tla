---------------------------- MODULE ModbusPort ----------------------------
(***************************************************************************)
(* The port under an engine: the virtual class ModbusPort, as far as every *)
(* built-in port keeps to it.  r is what an operation returned and up what *)
(* isOpen() answered; the operations say what may be returned and what is  *)
(* left.                                                                   *)
(***************************************************************************)
CONSTANT Blocking  \* ModbusPort::isBlocking

ASSUME PortAssumption == Blocking \in BOOLEAN

VARIABLES
  portOpen,        \* the socket or the device is open
  connecting,      \* port state WAIT_FOR_OPEN
  changed          \* a setting changed since the port was opened

Good == "Good"
Processing == "Processing"
Uncertain == "Uncertain"
BadPort == "BadPort"     \* any error whose text the port holds

(* What isOpen() answers: a pending socket error can make it say no once.  *)
IsOpen(up) == up => portOpen

(* What open() may return, and what it leaves.                             *)
PortOpen(r) ==
  /\ Blocking => r # Processing
  /\ portOpen /\ ~connecting /\ ~changed => r = Good
  /\ changed' = (connecting /\ changed)
  /\ connecting' = (r = Processing)
  /\ portOpen' \in {TRUE, r # BadPort}

PortClose ==
  /\ portOpen' = FALSE
  /\ connecting' = FALSE
  /\ UNCHANGED changed

(* What write() and read() may return, and what they leave: a closed port  *)
(* only fails, a failing one may close itself.                             *)
PortTransfer(r) ==
  /\ Blocking => r # Processing
  /\ ~portOpen => r = BadPort
  /\ portOpen' \in {portOpen, portOpen /\ r # BadPort}
  /\ UNCHANGED <<connecting, changed>>
=============================================================================
