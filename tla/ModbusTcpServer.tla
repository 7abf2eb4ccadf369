-------------------------- MODULE ModbusTcpServer --------------------------
(***************************************************************************)
(* The TCP server: a listener, and a ModbusServerResource for each         *)
(* connection accepted.                                                    *)
(*                                                                         *)
(* The application polls process(), which runs pass by pass like the       *)
(* engine's; a pass in STATE_PROCESS_DEVICE accepts at most one connection *)
(* and calls process() of every one (ServerConnection!After), a pass in    *)
(* STATE_WAIT_FOR_CLOSE calls it of those still to be closed.  close() and *)
(* open() act on the listener at once and on the rest through cmdClose.    *)
(***************************************************************************)
EXTENDS Integers, Sequences, Functions, ServerConnection

CONSTANTS
  Device,        \* the devices that setDevice may be given
  Unit,          \* unit addresses that occur
  MaxConn,       \* bound of maxconn
  AcceptErrors,  \* accept() may fail with an error other than EWOULDBLOCK
  Management,    \* the operations called between two calls of process(), by name
  None

ManagementOps == {"open", "close", "maxconn", "broadcast", "unitmap", "device"}

ASSUME TcpServerAssumption ==
  /\ MaxConn \in Nat \ {0}
  /\ AcceptErrors \in BOOLEAN
  /\ Management \subseteq ManagementOps

State == {"UNKNOWN", "CLOSED", "PROCESS_DEVICE", "TIMEOUT", "WAIT_FOR_CLOSE"}
UnitMap == {None} \union SUBSET Unit
Settings == [unitMap : UnitMap, broadcastEnabled : BOOLEAN]

Connection == [st : ConnectionState, sock : BOOLEAN, cmdClose : BOOLEAN,
               device : Device, settings : Settings]

VARIABLES
  state, cmdClose,
  listening,     \* the listener's socket is valid
  maxconn,
  device, settings,
  connections,   \* in the order of the list
  running,       \* a call of process() is in progress
  \* history
  announced,     \* signalOpened came last, not signalClosed
  known          \* connections announced and not yet announced closed

settingVars == <<maxconn, device, settings>>
vars == <<state, cmdClose, listening, settingVars, connections, running,
          announced, known>>

TypeOK ==
  /\ state \in State
  /\ cmdClose \in BOOLEAN
  /\ listening \in BOOLEAN
  /\ maxconn \in 1..MaxConn
  /\ device \in Device
  /\ settings \in Settings
  /\ connections \in Seq(Connection)
  /\ running \in BOOLEAN
  /\ announced \in BOOLEAN
  /\ known \in Nat

Init ==
  /\ state = "UNKNOWN"
  /\ cmdClose = FALSE
  /\ listening = FALSE
  /\ maxconn \in 1..MaxConn
  /\ device \in Device
  /\ settings = [unitMap |-> None, broadcastEnabled |-> TRUE]
  /\ connections = <<>>
  /\ running = FALSE
  /\ announced = FALSE
  /\ known = 0

-----------------------------------------------------------------------------
(***************************************************************************)
(* The connections.                                                        *)
(***************************************************************************)

NewConnection ==
  [st |-> "UNKNOWN", sock |-> TRUE, cmdClose |-> FALSE,
   device |-> device, settings |-> settings]

(* What process() of a connection may leave of it.                         *)
Processed(c) ==
  {[c EXCEPT !.st = a.st, !.sock = a.sock] : a \in After(c.st, c.sock, c.cmdClose)}

isStateClosed(c) == c.st \in {"CLOSED", "TIMEOUT"}

(* close() of every connection.                                            *)
CloseAll(cs) == [i \in DOMAIN cs |-> [cs[i] EXCEPT !.cmdClose = TRUE]]

\* mutant: a connection whose socket is closed is kept.
LeftDead(c) == Processed(c)

(* What process() leaves of a connection that stays in the list.           *)
Left(c) == {d \in Processed(c) : d.sock}

(* The places of those that stay, in their order.  Any may go: isOpen()    *)
(* says no for an open socket, too, that has an error pending.             *)
Kept(cs) ==
  UNION {{at \in [1..n -> DOMAIN cs] : \A i, j \in 1..n : i < j => at[i] < at[j]} :
           n \in 0..Len(cs)}

(* process() of every connection, those not open deleted.                  *)
Served(cs) ==
  LET left == [c \in Range(cs) |-> Left(c)]
  IN  UNION {{ds \in [DOMAIN at -> UNION Range(left)] :
                \A i \in DOMAIN at : ds[i] \in left[cs[at[i]]]} : at \in Kept(cs)}

(* process() of the connections in turn, up to the first that is not       *)
(* closed after it.                                                        *)
Closing(cs) ==
  {after \in [DOMAIN cs -> UNION {Processed(c) \union {c} : c \in Range(cs)}] :
     \E n \in 0..Len(cs) :
       /\ \A i \in 1..n : after[i] \in Processed(cs[i])
       /\ \A i \in 1..n : i < n => isStateClosed(after[i])
       /\ n < Len(cs) => n > 0 /\ ~isStateClosed(after[n])
       /\ \A i \in DOMAIN cs : i > n => after[i] = cs[i]}

AllClosed(cs) == \A i \in DOMAIN cs : isStateClosed(cs[i])

-----------------------------------------------------------------------------
(***************************************************************************)
(* process(), pass by pass.                                                *)
(***************************************************************************)
Call ==
  /\ ~running
  /\ running' = TRUE
  /\ UNCHANGED <<state, cmdClose, listening, settingVars, connections,
                 announced, known>>

In(st) == running /\ state = st
GoOn == UNCHANGED running
Return == running' = FALSE

StayClosed ==
  /\ In("CLOSED")
  /\ cmdClose
  /\ Return
  /\ UNCHANGED <<state, cmdClose, listening, settingVars, connections,
                 announced, known>>

(* STATE_CLOSED, BEGIN_OPEN, WAIT_FOR_OPEN and OPENED: open() opens the     *)
(* listener if it is not, in one call or with an error.                    *)
Open(ok) ==
  /\ In("CLOSED")
  /\ ~cmdClose
  /\ listening => ok
  /\ listening' = ok
  /\ UNCHANGED <<cmdClose, settingVars, connections, known>>
  /\ \/ ok /\ state' = "PROCESS_DEVICE" /\ announced' = TRUE /\ GoOn
     \/ ~ok /\ state' = "TIMEOUT" /\ UNCHANGED announced /\ Return

\* mutant: closed at once, without the connections.
MeetCloseAtOnce ==
  /\ In("PROCESS_DEVICE")
  /\ cmdClose
  /\ state' = "CLOSED"
  /\ GoOn
  /\ UNCHANGED <<cmdClose, listening, settingVars, connections, announced, known>>

MeetClose ==
  /\ In("PROCESS_DEVICE")
  /\ cmdClose
  /\ state' = "WAIT_FOR_CLOSE"
  /\ GoOn
  /\ UNCHANGED <<cmdClose, listening, settingVars, connections, announced, known>>

\* mutant: no signalCloseConnection.
ClearSilently == connections' = <<>> /\ UNCHANGED known

clearConnections == connections' = <<>> /\ known' = known - Len(connections)

(* STATE_WAIT_FOR_CLOSE calls close(), which is done when every connection *)
(* is.                                                                     *)
Close ==
  /\ In("WAIT_FOR_CLOSE")
  /\ listening' = FALSE
  /\ cmdClose' = TRUE
  /\ Return
  /\ UNCHANGED settingVars
  /\ \E cs \in Closing(CloseAll(connections)) :
       IF AllClosed(cs)
       THEN clearConnections /\ state' = "CLOSED" /\ announced' = FALSE
       ELSE connections' = cs /\ UNCHANGED <<state, announced, known>>

(* STATE_PROCESS_DEVICE: accept, then serve.                               *)
ServeAll(cs, added) ==
  \E left \in Served(cs) :
    /\ connections' = left
    /\ known' = known + added - (Len(cs) - Len(left))

Serve ==
  /\ In("PROCESS_DEVICE")
  /\ ~cmdClose
  /\ Return
  /\ UNCHANGED <<cmdClose, settingVars, announced>>

(* ... with nobody new, or one refused because there are maxconn.          *)
ServeOn ==
  /\ Serve
  /\ ServeAll(connections, 0)
  /\ UNCHANGED <<state, listening>>

\* mutant: off by one.
HasRoomOne == Len(connections) <= maxconn

HasRoom == Len(connections) < maxconn

Accept ==
  /\ Serve
  /\ listening
  /\ HasRoom
  /\ ServeAll(Append(connections, NewConnection), 1)
  /\ UNCHANGED <<state, listening>>

(* ... with an error of accept(), which closes the listener.               *)
AcceptFails ==
  /\ AcceptErrors
  /\ Serve
  /\ ServeAll(connections, 0)
  /\ listening' = FALSE
  /\ state' = "CLOSED"

TimeoutRuns ==
  /\ In("TIMEOUT")
  /\ Return
  /\ UNCHANGED <<state, cmdClose, listening, settingVars, connections,
                 announced, known>>

TimeoutOver ==
  /\ In("TIMEOUT")
  /\ state' = "CLOSED"
  /\ GoOn
  /\ UNCHANGED <<cmdClose, listening, settingVars, connections, announced, known>>

(* The default branch.                                                     *)
Orient ==
  /\ In("UNKNOWN")
  /\ state' = IF ~listening THEN "CLOSED"
              ELSE IF cmdClose THEN "WAIT_FOR_CLOSE" ELSE "PROCESS_DEVICE"
  /\ GoOn
  /\ UNCHANGED <<cmdClose, listening, settingVars, connections, announced, known>>
-----------------------------------------------------------------------------
(***************************************************************************)
(* The application, between two calls of process().                        *)
(***************************************************************************)
Manages(op) == op \in Management /\ ~running

(* open() listens unless the listener is open, which in STATE_CLOSED means *)
(* to go on at once.                                                       *)
open ==
  /\ Manages("open")
  /\ cmdClose' = FALSE
  /\ IF listening
     THEN /\ state' = IF state = "CLOSED" THEN "PROCESS_DEVICE" ELSE state
          /\ UNCHANGED listening
     ELSE /\ state' = "CLOSED"
          /\ listening' \in BOOLEAN
  /\ UNCHANGED <<settingVars, connections, running, announced, known>>

close ==
  /\ Manages("close")
  /\ listening' = FALSE
  /\ cmdClose' = TRUE
  /\ connections' \in IF state = "WAIT_FOR_CLOSE" THEN Closing(CloseAll(connections))
                       ELSE {CloseAll(connections)}
  /\ UNCHANGED <<state, settingVars, running, announced, known>>

AtLeastOne(n) == IF n = 0 THEN 1 ELSE n

setMaxConnections(n) ==
  /\ Manages("maxconn")
  /\ maxconn' = AtLeastOne(n)
  /\ UNCHANGED <<state, cmdClose, listening, device, settings, connections,
                 running, announced, known>>

setDevice(d) ==
  /\ Manages("device")
  /\ device' = d
  /\ UNCHANGED <<state, cmdClose, listening, maxconn, settings, connections,
                 running, announced, known>>

(* A setting is applied to the server, then to every connection.           *)
Apply(Set(_)) ==
  /\ settings' = Set(settings)
  /\ connections' = [i \in DOMAIN connections |->
                       [connections[i] EXCEPT !.settings = Set(@)]]

Configures(op) ==
  /\ Manages(op)
  /\ UNCHANGED <<state, cmdClose, listening, maxconn, device, running,
                 announced, known>>

setBroadcastEnabled(b) ==
  /\ Configures("broadcast")
  /\ Apply(LAMBDA s : [s EXCEPT !.broadcastEnabled = b])

\* mutant: the connections keep their map.
setUnitMapOwn(map) ==
  /\ Configures("unitmap")
  /\ settings' = [settings EXCEPT !.unitMap = map]
  /\ UNCHANGED connections

setUnitMap(map) ==
  /\ Configures("unitmap")
  /\ Apply(LAMBDA s : [s EXCEPT !.unitMap = map])

(* Without a map, one unit is switched in a map of none.                   *)
Switch(map, u, b) ==
  LET units == IF map = None THEN {} ELSE map
  IN  IF b THEN units \union {u} ELSE units \ {u}

setUnitEnabled(u, b) ==
  /\ Configures("unitmap")
  /\ Apply(LAMBDA s : [s EXCEPT !.unitMap = Switch(@, u, b)])

-----------------------------------------------------------------------------
Pass ==
  \/ StayClosed
  \/ \E ok \in BOOLEAN : Open(ok)
  \/ MeetClose
  \/ Close
  \/ ServeOn
  \/ Accept
  \/ AcceptFails
  \/ TimeoutRuns
  \/ TimeoutOver
  \/ Orient

Manage ==
  \/ open
  \/ close
  \/ \E n \in 0..MaxConn : setMaxConnections(n)
  \/ \E d \in Device : setDevice(d)
  \/ \E b \in BOOLEAN : setBroadcastEnabled(b)
  \/ \E map \in UnitMap : setUnitMap(map)
  \/ \E u \in Unit, b \in BOOLEAN : setUnitEnabled(u, b)

Next == Call \/ Pass \/ Manage

Spec == Init /\ [][Next]_vars

(* Fairness: the application polls process(), a call runs to its return,   *)
(* and the timer and every device come to an end when polled on and on.    *)
DeviceEnds ==
  /\ Close
  /\ \E i \in DOMAIN connections :
       /\ connections[i].st = "SERVE"
       /\ connections' # <<>> => connections'[i].st # "SERVE"

FairSpec ==
  /\ Spec
  /\ WF_vars(Call)
  /\ WF_vars(Pass)
  /\ SF_vars(TimeoutOver)
  /\ SF_vars(DeviceEnds)

-----------------------------------------------------------------------------
(***************************************************************************)
(* Properties.                                                             *)
(***************************************************************************)

(* Between two calls, a connection in the list is open or told to close.   *)
(* One that is neither would be opened again by its own process(), which   *)
(* for a port made from an accepted socket means to dial (process()).      *)
NeverDials ==
  ~running => \A i \in DOMAIN connections : connections[i].sock \/ connections[i].cmdClose

(* Every signalNewConnection is followed by one signalCloseConnection, and *)
(* only when the connection is deleted (process(), clearConnections()).    *)
SignalsPair == known = Len(connections)

(* ModbusTcpServer.h: the server enforces the limit when it accepts, while *)
(* lowering the limit disconnects nobody (nextPendingConnection()).        *)
AcceptBounded ==
  [][Len(connections') > Len(connections) => Len(connections') <= maxconn]_vars

(* ModbusTcpServer.h: unit map and broadcast are propagated to all active  *)
(* connections, whatever is set, accepted and closed in whatever order.    *)
SettingsAgree == \A i \in DOMAIN connections : connections[i].settings = settings

(* close() of an open server ends with the listener and every connection   *)
(* closed, whatever the connections are at, unless open() takes it back    *)
(* (process() and close()).                                                *)
Closed == ~listening /\ connections = <<>>
CloseCompletes ==
  cmdClose /\ state \in {"PROCESS_DEVICE", "WAIT_FOR_CLOSE"} ~> ~cmdClose \/ Closed

(* ModbusServerPort.h: close() closes the port, from any state.            *)
CloseAlwaysCompletes == cmdClose ~> ~cmdClose \/ Closed

(* ModbusServerPort.h, setDevice: all requests are transferred to it.      *)
DeviceAgrees == \A i \in DOMAIN connections : connections[i].device = device

(* ModbusServerPort.h, signalOpened: occurs when the port was opened.  So  *)
(* a server that has connections has announced that it is open.            *)
OpenAnnounced == connections # <<>> => announced
=============================================================================
