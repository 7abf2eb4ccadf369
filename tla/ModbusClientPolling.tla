----------------------- MODULE ModbusClientPolling -----------------------
(***************************************************************************)
(* The client port in the loop of an application that polls its clients.   *)
(*                                                                         *)
(* The port has no queue: whoever polls it first after it became free gets *)
(* it.  Whether every client is served is therefore a property of the      *)
(* polling loop, and this module states it for two of them: one that       *)
(* visits the clients in a circle, one call each, and one that visits each *)
(* client again and again in whatever order.                               *)
(***************************************************************************)
EXTENDS ModbusClientPort

CONSTANT NextClient   \* the circle: the client visited after each client

ASSUME CircleAssumption == NextClient \in [Client -> Client]

VARIABLE turn         \* the client the loop visits next

pollingVars == <<vars, turn>>

Poll(c) ==
  \E q \in Request :
    Enable(c, q) \/ EnableRefused(c, q) \/ Process(c, q) \/ Disable(c, q)

PollingInit == Init /\ turn = Self

(* The loop visits the client whose turn it is; a client that has nothing  *)
(* to ask may pass.                                                        *)
Visit ==
  /\ call = None
  /\ turn' = NextClient[turn]
  /\ Poll(turn) \/ (want[turn] = None /\ UNCHANGED vars)

Inside == (Step \/ Manage) /\ UNCHANGED turn

CircleNext == Visit \/ Inside

(* The loop visits any client.                                             *)
AnyOrderNext ==
  \/ (\E c \in Client : Poll(c)) /\ UNCHANGED turn
  \/ Inside

Ends == PortResult \ {Processing}

(* A call runs to its end; a port does not answer Processing for ever (its *)
(* open() and read() give up after timeout(), write() when the buffer of   *)
(* the operating system has room); timeout() passes.                       *)
PortFairness ==
  /\ WF_pollingVars(Step /\ UNCHANGED turn)
  /\ SF_pollingVars((\E r \in Ends, up \in BOOLEAN : Open(r, up)) /\ UNCHANGED turn)
  /\ SF_pollingVars((\E r \in Ends : Write(r)) /\ UNCHANGED turn)
  /\ SF_pollingVars((\E r \in Ends, up \in BOOLEAN : Read(r, up)) /\ UNCHANGED turn)
  /\ SF_pollingVars(TimeoutOver /\ UNCHANGED turn)

CircleSpec ==
  /\ PollingInit /\ [][CircleNext]_pollingVars
  /\ PortFairness
  /\ WF_pollingVars(Visit)

(* Every client that waits is polled again and again.                      *)
AnyOrderSpec ==
  /\ PollingInit /\ [][AnyOrderNext]_pollingVars
  /\ PortFairness
  /\ \A c \in Client : SF_pollingVars(want[c] # None /\ Poll(c) /\ UNCHANGED turn)

(* Every request that a client polls ends: the port completes it, and the  *)
(* other clients let go of the port in between (ModbusClientPort.h: "next  *)
(* client in the queue will capture it, and so on in a circle").           *)
EveryRequestEnds == \A c \in Client : want[c] # None ~> want[c] = None
=============================================================================
