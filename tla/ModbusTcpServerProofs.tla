----------------------- MODULE ModbusTcpServerProofs -----------------------
(* Theorems about the TCP server, for any number of connections, devices   *)
(* and units.                                                              *)
EXTENDS ModbusTcpServer, TLAPS

(***************************************************************************)
(* The inductive invariant: at any time, not only between two calls, a     *)
(* connection in the list is open or told to close.                        *)
(***************************************************************************)
OpenOrClosing(c) == c.sock \/ c.cmdClose

NoneDials == \A i \in DOMAIN connections : OpenOrClosing(connections[i])

Inv == TypeOK /\ NoneDials /\ SettingsAgree /\ SignalsPair

-----------------------------------------------------------------------------
(***************************************************************************)
(* What process() of the connections leaves.                               *)
(***************************************************************************)

(* ... in what state, ...                                                  *)
LEMMA AfterType ==
  ASSUME NEW st \in ConnectionState, NEW sock \in BOOLEAN, NEW cmd \in BOOLEAN
  PROVE  After(st, sock, cmd) \subseteq [st : ConnectionState, sock : BOOLEAN]
<1> DEFINE T == [st : ConnectionState, sock : BOOLEAN]
<1>1. \A t \in ConnectionState, socks \in SUBSET BOOLEAN : At(t, socks) \subseteq T
  BY DEF At
<1>2. Reads(TRUE) \subseteq T /\ Reads(FALSE) \subseteq T
  BY <1>1 DEF Reads, ConnectionState
<1>3. Serves \subseteq T /\ Closes \subseteq T
  BY <1>1 DEF Serves, Closes, ConnectionState
<1>4. Opens \subseteq T
  BY <1>1, <1>2 DEF Opens, ConnectionState
<1>5. FromClosed(sock, cmd) \subseteq T
  BY <1>1, <1>2, <1>4 DEF FromClosed, ConnectionState
<1>6. FromRead(sock, cmd) \subseteq T
  BY <1>2, <1>3 DEF FromRead
<1>7. FromUnknown(sock, cmd) \subseteq T
  BY <1>5, <1>6 DEF FromUnknown
<1>8. At("TIMEOUT", {sock}) \subseteq T
  BY <1>1 DEF ConnectionState
<1>9. \/ After(st, sock, cmd) \in {FromUnknown(sock, cmd), FromRead(sock, cmd),
                                   FromClosed(sock, cmd), Closes, Opens, Serves}
      \/ After(st, sock, cmd) = At("TIMEOUT", {sock}) \union FromUnknown(sock, cmd)
  BY DEF After, ConnectionState
<1> HIDE DEF T
<1>10. After(st, sock, cmd) \subseteq T
  BY <1>3, <1>4, <1>5, <1>6, <1>7, <1>8, <1>9
<1> QED
  BY <1>10 DEF T

(* ... and of which fields: a connection keeps its settings and whether it *)
(* is told to close.                                                       *)
LEMMA ProcessedType ==
  ASSUME NEW c \in Connection, NEW d \in Processed(c)
  PROVE  d \in Connection /\ d.settings = c.settings /\ d.cmdClose = c.cmdClose
<1>1. PICK a \in After(c.st, c.sock, c.cmdClose) : d = [c EXCEPT !.st = a.st, !.sock = a.sock]
  BY DEF Processed
<1>2. a.st \in ConnectionState /\ a.sock \in BOOLEAN
  BY <1>1, AfterType DEF Connection
<1> QED
  BY <1>1, <1>2 DEF Connection

(* A list of connections that may stand between two passes.                *)
Sound(cs) ==
  /\ cs \in Seq(Connection)
  /\ \A i \in DOMAIN cs : OpenOrClosing(cs[i]) /\ cs[i].settings = settings

(* Those that stay are open, and no more than there were.                  *)
LEMMA ServedSound ==
  ASSUME NEW cs, Sound(cs), NEW left \in Served(cs)
  PROVE  Sound(left) /\ Len(left) <= Len(cs)
<1> DEFINE L == [c \in Range(cs) |-> Left(c)]
<1>0. PICK at \in Kept(cs) : /\ left \in [DOMAIN at -> UNION Range(L)]
                             /\ \A i \in DOMAIN at : left[i] \in L[cs[at[i]]]
  BY DEF Served
<1>1. PICK n \in 0..Len(cs) : at \in [1..n -> DOMAIN cs]
  BY <1>0 DEF Kept
<1>2. \A i \in 1..n : left[i] \in Left(cs[at[i]])
  BY <1>0, <1>1 DEF Range
<1>3. ASSUME NEW i \in 1..n
      PROVE  left[i] \in Connection /\ left[i].sock /\ left[i].settings = settings
  <2>1. at[i] \in DOMAIN cs /\ cs[at[i]] \in Connection /\ cs[at[i]].settings = settings
    BY <1>1, <1>3 DEF Sound
  <2>2. left[i] \in Processed(cs[at[i]]) /\ left[i].sock
    BY <1>2, <1>3 DEF Left
  <2> QED
    BY <2>1, <2>2, ProcessedType
<1>4. n \in Nat /\ Len(cs) \in Nat /\ n <= Len(cs)
  BY <1>1 DEF Sound
<1>5. left \in [1..n -> Connection]
  BY <1>0, <1>1, <1>3
<1>6. left \in Seq(Connection) /\ Len(left) = n
  BY <1>4, <1>5
<1> QED
  BY <1>3, <1>4, <1>6 DEF Sound, OpenOrClosing

(* Telling all to close, and closing some, keeps the list.                 *)
LEMMA CloseAllSound ==
  ASSUME NEW cs, Sound(cs)
  PROVE  /\ CloseAll(cs) \in Seq(Connection)
         /\ Len(CloseAll(cs)) = Len(cs)
         /\ \A i \in DOMAIN CloseAll(cs) : /\ CloseAll(cs)[i].cmdClose
                                           /\ CloseAll(cs)[i].settings = settings
<1>1. DOMAIN cs = 1..Len(cs) /\ Len(cs) \in Nat
  BY DEF Sound
<1>2. ASSUME NEW i \in 1..Len(cs)
      PROVE  LET c == [cs[i] EXCEPT !.cmdClose = TRUE]
             IN  c \in Connection /\ c.cmdClose /\ c.settings = settings
  <2>1. cs[i] \in Connection /\ cs[i].settings = settings
    BY <1>1, <1>2 DEF Sound
  <2> QED
    BY <2>1 DEF Connection
<1>3. CloseAll(cs) = [i \in 1..Len(cs) |-> [cs[i] EXCEPT !.cmdClose = TRUE]]
  BY <1>1 DEF CloseAll
<1>4. CloseAll(cs) \in [1..Len(cs) -> Connection]
  BY <1>2, <1>3
<1>5. CloseAll(cs) \in Seq(Connection) /\ Len(CloseAll(cs)) = Len(cs)
  BY <1>1, <1>4
<1> QED
  BY <1>2, <1>3, <1>5

(* A pass over the connections that are being closed keeps them sound.     *)
LEMMA ClosingSound ==
  ASSUME NEW cs, Sound(cs), NEW after \in Closing(CloseAll(cs))
  PROVE  Sound(after) /\ Len(after) = Len(cs)
<1> DEFINE told == CloseAll(cs)
<1>1. /\ told \in Seq(Connection) /\ Len(told) = Len(cs)
      /\ \A i \in DOMAIN told : told[i].cmdClose /\ told[i].settings = settings
  BY CloseAllSound
<1> HIDE DEF told
<1>2. after \in Closing(told)
  BY DEF told
<1>3. DOMAIN after = 1..Len(cs) /\ DOMAIN told = 1..Len(cs)
  BY <1>1, <1>2 DEF Closing
<1>4. \A i \in 1..Len(cs) : after[i] = told[i] \/ after[i] \in Processed(told[i])
  <2> SUFFICES ASSUME NEW i \in 1..Len(cs)
               PROVE  after[i] = told[i] \/ after[i] \in Processed(told[i])
    OBVIOUS
  <2>1. PICK n \in 0..Len(told) : /\ \A j \in 1..n : after[j] \in Processed(told[j])
                                  /\ \A j \in DOMAIN told : j > n => after[j] = told[j]
    BY <1>2 DEF Closing
  <2> QED
    BY <1>1, <1>3, <2>1
<1>5. \A i \in 1..Len(cs) : /\ after[i] \in Connection
                            /\ after[i].cmdClose
                            /\ after[i].settings = settings
  <2> SUFFICES ASSUME NEW i \in 1..Len(cs)
               PROVE  /\ after[i] \in Connection
                      /\ after[i].cmdClose
                      /\ after[i].settings = settings
    OBVIOUS
  <2>1. told[i] \in Connection /\ told[i].cmdClose /\ told[i].settings = settings
    BY <1>1, <1>3
  <2> QED
    BY <1>4, <2>1, ProcessedType
<1>6. after \in [1..Len(cs) -> Connection]
  <2>1. after = [i \in 1..Len(cs) |-> after[i]]
    BY <1>2, <1>3 DEF Closing
  <2> QED
    BY <1>5, <2>1
<1>7. after \in Seq(Connection) /\ Len(after) = Len(cs)
  BY <1>6 DEF Sound
<1> QED
  BY <1>3, <1>5, <1>7 DEF Sound, OpenOrClosing

-----------------------------------------------------------------------------
(***************************************************************************)
(* The invariant, action by action.                                        *)
(***************************************************************************)
LEMMA SoundConnections == Inv => Sound(connections)
BY DEF Inv, TypeOK, NoneDials, SettingsAgree, Sound

(* A step that leaves a sound list, and counts it, keeps the invariant if  *)
(* it keeps the other types.                                               *)
LEMMA SoundNext ==
  ASSUME Sound(connections'), UNCHANGED settings, known' = Len(connections'),
         state' \in State, cmdClose' \in BOOLEAN, listening' \in BOOLEAN,
         maxconn' \in 1..MaxConn, device' \in Device, settings' \in Settings,
         running' \in BOOLEAN, announced' \in BOOLEAN
  PROVE  Inv'
BY DEF Sound, Inv, TypeOK, NoneDials, SettingsAgree, SignalsPair

(* What serving does to the list and to the count of the connections.      *)
LEMMA ServeAllSound ==
  ASSUME NEW cs, Sound(cs), NEW added \in {0, 1}, known \in Nat,
         known + added = Len(cs), ServeAll(cs, added)
  PROVE  /\ Sound(connections')
         /\ known' = Len(connections')
         /\ Len(connections') <= Len(cs)
<1>1. PICK left \in Served(cs) : /\ connections' = left
                                 /\ known' = known + added - (Len(cs) - Len(left))
  BY DEF ServeAll
<1>2. Sound(left) /\ Len(left) <= Len(cs)
  BY ServedSound
<1>3. Len(left) \in Nat /\ Len(cs) \in Nat
  BY <1>2 DEF Sound
<1> QED
  BY <1>1, <1>2, <1>3

(* The connection that is accepted gets the settings of the server.        *)
LEMMA AcceptedSound ==
  ASSUME Inv
  PROVE  /\ Sound(Append(connections, NewConnection))
         /\ Len(Append(connections, NewConnection)) = Len(connections) + 1
<1>1. NewConnection \in Connection
  BY DEF Inv, TypeOK, NewConnection, Connection, ConnectionState
<1>2. NewConnection.sock /\ NewConnection.settings = settings
  BY DEF NewConnection
<1>3. Sound(connections)
  BY SoundConnections
<1> QED
  BY <1>1, <1>2, <1>3 DEF Sound, OpenOrClosing

(* Serving the connections, and accepting one.                             *)
LEMMA ServingInv ==
  ASSUME Inv, ServeOn \/ Accept \/ AcceptFails
  PROVE  Inv'
<1> DEFINE next == Append(connections, NewConnection)
<1>1. Sound(connections) /\ known \in Nat /\ known = Len(connections)
  BY SoundConnections DEF Inv, TypeOK, SignalsPair
<1>2. Sound(next) /\ Len(next) = Len(connections) + 1
  BY AcceptedSound
<1>3. ServeAll(connections, 0) \/ ServeAll(next, 1)
  BY DEF ServeOn, Accept, AcceptFails
<1> HIDE DEF next
<1>4. Sound(connections') /\ known' = Len(connections')
  <2>1. CASE ServeAll(connections, 0)
    BY <1>1, <2>1, ServeAllSound
  <2>2. CASE ServeAll(next, 1)
    BY <1>1, <1>2, <2>2, ServeAllSound
  <2> QED
    BY <1>3, <2>1, <2>2
<1>5. UNCHANGED <<cmdClose, settingVars, announced>> /\ running' = FALSE
  BY DEF ServeOn, Accept, AcceptFails, Serve, Return
<1>6. /\ state' = state \/ state' = "CLOSED"
      /\ listening' = listening \/ listening' = FALSE
  BY DEF ServeOn, Accept, AcceptFails
<1> QED
  BY <1>4, <1>5, <1>6, SoundNext DEF Inv, TypeOK, State, settingVars

(* Closing the server, asked for or carried on by process().               *)
LEMMA ClosingInv ==
  ASSUME Inv, Close \/ close
  PROVE  Inv'
<1>1. Sound(connections) /\ known = Len(connections) /\ known \in Nat
  BY SoundConnections DEF Inv, TypeOK, SignalsPair
<1>2. /\ cmdClose' = TRUE /\ listening' = FALSE
      /\ UNCHANGED settingVars /\ state' \in {state, "CLOSED"}
      /\ running' \in {running, FALSE} /\ announced' \in {announced, FALSE}
  BY DEF Close, close, Return
<1>3. Sound(connections') /\ known' = Len(connections')
  <2>1. CASE clearConnections
    BY <1>1, <2>1 DEF clearConnections, Sound
  <2>2. CASE connections' \in Closing(CloseAll(connections)) /\ UNCHANGED known
    BY <1>1, <2>2, ClosingSound
  <2>3. CASE connections' = CloseAll(connections) /\ UNCHANGED known
    BY <1>1, <2>3, CloseAllSound DEF Sound, OpenOrClosing
  <2> QED
    BY <2>1, <2>2, <2>3 DEF Close, close
<1> QED
  BY <1>2, <1>3, SoundNext DEF Inv, TypeOK, State, settingVars

(* A setting reaches the server and every connection.                      *)
LEMMA AppliedInv ==
  ASSUME Inv, NEW value \in Settings, settings' = value,
         connections' = [i \in DOMAIN connections |->
                           [connections[i] EXCEPT !.settings = value]],
         UNCHANGED <<state, cmdClose, listening, maxconn, device, running,
                     announced, known>>
  PROVE  Inv'
<1>1. Sound(connections) /\ DOMAIN connections = 1..Len(connections)
        /\ Len(connections) \in Nat
  BY SoundConnections DEF Sound
<1>2. ASSUME NEW i \in 1..Len(connections)
      PROVE  LET c == [connections[i] EXCEPT !.settings = value]
             IN  c \in Connection /\ OpenOrClosing(c) /\ c.settings = value
  <2>1. connections[i] \in Connection /\ OpenOrClosing(connections[i])
    BY <1>1, <1>2 DEF Sound
  <2> QED
    BY <2>1 DEF Connection, OpenOrClosing
<1>3. connections' \in [1..Len(connections) -> Connection]
  BY <1>1, <1>2
<1>4. connections' \in Seq(Connection) /\ Len(connections') = Len(connections)
  BY <1>1, <1>3
<1>5. \A i \in DOMAIN connections' : OpenOrClosing(connections'[i])
                                     /\ connections'[i].settings = settings'
  BY <1>1, <1>2
<1> QED
  BY <1>4, <1>5 DEF Inv, TypeOK, NoneDials, SettingsAgree, SignalsPair

(* The setters that hand a setting on to every connection.                 *)
LEMMA ConfiguredInv ==
  ASSUME Inv,
         \/ \E b \in BOOLEAN : setBroadcastEnabled(b)
         \/ \E map \in UnitMap : setUnitMap(map)
         \/ \E u \in Unit, b \in BOOLEAN : setUnitEnabled(u, b)
  PROVE  Inv'
<1> DEFINE Given(value) ==
      /\ settings' = value
      /\ connections' = [i \in DOMAIN connections |->
                           [connections[i] EXCEPT !.settings = value]]
<1>1. settings \in Settings /\ \A i \in DOMAIN connections : connections[i].settings = settings
  BY DEF Inv, TypeOK, SettingsAgree
<1>2. UNCHANGED <<state, cmdClose, listening, maxconn, device, running, announced, known>>
  BY DEF setBroadcastEnabled, setUnitMap, setUnitEnabled, Configures
<1>3. CASE \E b \in BOOLEAN : setBroadcastEnabled(b)
  <2>1. PICK b \in BOOLEAN : setBroadcastEnabled(b)
    BY <1>3
  <2>2. Given([settings EXCEPT !.broadcastEnabled = b])
    BY <1>1, <2>1 DEF setBroadcastEnabled, Apply
  <2>3. [settings EXCEPT !.broadcastEnabled = b] \in Settings
    BY <1>1 DEF Settings
  <2> QED
    BY <1>2, <2>2, <2>3, AppliedInv
<1>4. CASE \E map \in UnitMap : setUnitMap(map)
  <2>1. PICK map \in UnitMap : setUnitMap(map)
    BY <1>4
  <2>2. Given([settings EXCEPT !.unitMap = map])
    BY <1>1, <2>1 DEF setUnitMap, Apply
  <2>3. [settings EXCEPT !.unitMap = map] \in Settings
    BY <1>1 DEF Settings
  <2> QED
    BY <1>2, <2>2, <2>3, AppliedInv
<1>5. CASE \E u \in Unit, b \in BOOLEAN : setUnitEnabled(u, b)
  <2>1. PICK u \in Unit, b \in BOOLEAN : setUnitEnabled(u, b)
    BY <1>5
  <2> DEFINE value == [settings EXCEPT !.unitMap = Switch(settings.unitMap, u, b)]
  <2>2. Given(value)
    BY <1>1, <2>1 DEF setUnitEnabled, Apply
  <2>3. Switch(settings.unitMap, u, b) \in UnitMap
    BY <1>1 DEF Settings, UnitMap, Switch
  <2>4. value \in Settings
    BY <1>1, <2>3 DEF Settings
  <2> HIDE DEF value
  <2> QED
    BY <1>2, <2>2, <2>4, AppliedInv
<1> QED
  BY <1>3, <1>4, <1>5

(* The other actions leave the connections, their count and the settings.  *)
LEMMA OtherInv ==
  ASSUME Inv,
         \/ Call \/ StayClosed \/ MeetClose \/ TimeoutRuns \/ TimeoutOver \/ Orient \/ open
         \/ \E ok \in BOOLEAN : Open(ok)
         \/ \E n \in 0..MaxConn : setMaxConnections(n)
         \/ \E d \in Device : setDevice(d)
  PROVE  Inv'
<1>1. UNCHANGED <<connections, known, settings>>
  BY DEF Call, StayClosed, MeetClose, TimeoutRuns, TimeoutOver, Orient, open, Open,
         setMaxConnections, setDevice, settingVars
<1>2. state' \in State /\ cmdClose' \in BOOLEAN /\ listening' \in BOOLEAN
        /\ running' \in BOOLEAN /\ announced' \in BOOLEAN
  BY DEF Inv, TypeOK, State, Call, StayClosed, MeetClose, TimeoutRuns, TimeoutOver, Orient,
         open, Open, setMaxConnections, setDevice, settingVars, Return, GoOn
<1>3. maxconn' \in 1..MaxConn
  <2>1. \A n \in 0..MaxConn : AtLeastOne(n) \in 1..MaxConn
    BY TcpServerAssumption DEF AtLeastOne
  <2> QED
    BY <2>1
    DEF Inv, TypeOK, Call, StayClosed, MeetClose, TimeoutRuns, TimeoutOver, Orient, open,
        Open, setMaxConnections, setDevice, settingVars
<1>4. device' \in Device
  BY DEF Inv, TypeOK, Call, StayClosed, MeetClose, TimeoutRuns, TimeoutOver, Orient, open,
         Open, setMaxConnections, setDevice, settingVars
<1> QED
  BY <1>1, <1>2, <1>3, <1>4 DEF Inv, TypeOK, NoneDials, SettingsAgree, SignalsPair

(* The invariant holds at first, each step keeps it, and so it always holds. *)
LEMMA InitInv == Init => Inv
<1> SUFFICES ASSUME Init
             PROVE  Inv
  OBVIOUS
<1>1. settings \in Settings
  BY DEF Init, Settings, UnitMap
<1>2. connections = <<>> /\ known = Len(connections) /\ connections \in Seq(Connection)
  BY DEF Init
<1>3. DOMAIN connections = {}
  BY <1>2
<1>4. connections \in Seq(Connection) /\ known \in Nat
  BY <1>2 DEF Init
<1>5. TypeOK
  BY <1>1, <1>4 DEF Init, TypeOK, State
<1>6. NoneDials /\ SettingsAgree /\ SignalsPair
  BY <1>2, <1>3 DEF NoneDials, SettingsAgree, SignalsPair
<1> QED
  BY <1>5, <1>6 DEF Inv

LEMMA NextInv == Inv /\ [Next]_vars => Inv'
<1> SUFFICES ASSUME Inv, [Next]_vars
             PROVE  Inv'
  OBVIOUS
<1>1. CASE Call \/ Pass
  BY <1>1, ServingInv, ClosingInv, OtherInv DEF Pass
<1>2. CASE Manage
  BY <1>2, ClosingInv, ConfiguredInv, OtherInv DEF Manage
<1>3. CASE UNCHANGED vars
  BY <1>3 DEF vars, settingVars, Inv, TypeOK, NoneDials, SettingsAgree, SignalsPair
<1> QED
  BY <1>1, <1>2, <1>3 DEF Next

(* The inductive invariant holds in every state of the server.             *)
THEOREM Invariance == Spec => []Inv
  BY InitInv, NextInv, PTL DEF Spec

-----------------------------------------------------------------------------
(* The variables keep their types, however many connections are accepted.  *)
THEOREM TypeCorrect == Spec => []TypeOK
<1>1. Inv => TypeOK
  BY DEF Inv
<1> QED
  BY <1>1, Invariance, PTL

(* No connection is ever left for its own process() to dial.               *)
THEOREM NeverDialsAlways == Spec => []NeverDials
<1>1. Inv => NeverDials
  BY DEF Inv, NoneDials, OpenOrClosing, NeverDials
<1> QED
  BY <1>1, Invariance, PTL

(* Each connection announced is in the list until it is announced closed.  *)
THEOREM SignalsPairAlways == Spec => []SignalsPair
<1>1. Inv => SignalsPair
  BY DEF Inv
<1> QED
  BY <1>1, Invariance, PTL

(* Unit map and broadcast are those of the server on every connection.     *)
THEOREM SettingsAgreeAlways == Spec => []SettingsAgree
<1>1. Inv => SettingsAgree
  BY DEF Inv
<1> QED
  BY <1>1, Invariance, PTL

(* A pass that accepts does so below the limit, and no other step adds a   *)
(* connection, whatever the limit was when the others came.                *)
THEOREM AcceptBoundedAlways == Spec => AcceptBounded
<1>1. ASSUME Inv, [Next]_vars
      PROVE  [Len(connections') > Len(connections) => Len(connections') <= maxconn]_vars
  <2>1. /\ Sound(connections) /\ Len(connections) \in Nat /\ Len(connections') \in Nat
        /\ known \in Nat /\ known = Len(connections) /\ maxconn \in Nat
    BY <1>1, SoundConnections, NextInv DEF Sound, Inv, TypeOK, SignalsPair
  <2>2. CASE Accept
    <3> DEFINE next == Append(connections, NewConnection)
    <3>1. Sound(next) /\ Len(next) = Len(connections) + 1
      BY <1>1, AcceptedSound
    <3>2. ServeAll(next, 1) /\ Len(connections) < maxconn
      BY <2>2 DEF Accept, HasRoom
    <3> HIDE DEF next
    <3>3. Len(connections') <= Len(next)
      BY <2>1, <3>1, <3>2, ServeAllSound
    <3> QED
      BY <2>1, <3>1, <3>2, <3>3
  <2>3. CASE ServeOn \/ AcceptFails
    <3>1. ServeAll(connections, 0)
      BY <2>3 DEF ServeOn, AcceptFails
    <3>2. Len(connections') <= Len(connections)
      BY <2>1, <3>1, ServeAllSound
    <3> QED
      BY <2>1, <3>2
  <2>4. CASE \/ ~(ServeOn \/ Accept \/ AcceptFails) /\ Pass
             \/ Call \/ Manage \/ UNCHANGED vars
    <3>1. UNCHANGED known \/ known' = known - Len(connections)
      BY <2>4
      DEF Pass, Call, Manage, vars, StayClosed, MeetClose, TimeoutRuns, TimeoutOver, Orient,
          open, Open, setMaxConnections, setDevice, Close, close, clearConnections,
          setBroadcastEnabled, setUnitMap, setUnitEnabled, Configures
    <3>2. known' = Len(connections')
      BY <1>1, NextInv DEF Inv, SignalsPair
    <3> QED
      BY <2>1, <3>1, <3>2
  <2> QED
    BY <1>1, <2>2, <2>3, <2>4 DEF Next
<1>2. Inv /\ [Next]_vars
        => [Len(connections') > Len(connections) => Len(connections') <= maxconn]_vars
  BY <1>1
<1> QED
  BY <1>2, Invariance, PTL DEF Spec, AcceptBounded
=============================================================================
