------------------------- MODULE ServerConnection -------------------------
(***************************************************************************)
(* What one call of ModbusServerResource::process() does to a connection,  *)
(* as far as a TCP server sees it: the state the call leaves and whether   *)
(* the socket is open after it.  ModbusServerResource is checked against   *)
(* this relation (CallsAreSteps), ModbusTcpServer is built on it.          *)
(***************************************************************************)
ConnectionState == {"UNKNOWN", "OPENING", "READ", "SERVE", "TIMEOUT", "CLOSED"}

At(st, socks) == {[st |-> st, sock |-> s] : s \in socks}

(* A call that reads: nothing yet, a request answered at once or being     *)
(* served, an error, or the other side closed.  A closed socket only fails. *)
Reads(sock) ==
  IF sock THEN At("READ", {TRUE}) \union At("SERVE", {TRUE})
               \union At("TIMEOUT", BOOLEAN) \union At("CLOSED", BOOLEAN)
          ELSE At("TIMEOUT", {FALSE})

(* ... that goes on with the device or the response.                       *)
Serves == At("SERVE", {TRUE}) \union At("READ", {TRUE}) \union At("TIMEOUT", BOOLEAN)

(* ... that opens the port, and reads if it is open.                       *)
Opens == At("OPENING", {TRUE}) \union At("TIMEOUT", BOOLEAN) \union Reads(TRUE)

(* ... that closes it.                                                     *)
Closes == At("CLOSED", {FALSE})

FromClosed(sock, cmd) ==
  IF cmd THEN At("CLOSED", {sock}) ELSE IF sock THEN Reads(TRUE) ELSE Opens

FromRead(sock, cmd) == IF cmd THEN Closes ELSE Reads(sock)

(* isOpen() may answer no for a socket with an error pending.              *)
FromUnknown(sock, cmd) ==
  FromClosed(sock, cmd) \union (IF sock THEN FromRead(sock, cmd) ELSE {})

After(st, sock, cmd) ==
  CASE st = "UNKNOWN" -> FromUnknown(sock, cmd)
    [] st = "OPENING" -> IF cmd THEN Closes ELSE Opens
    [] st = "READ"    -> FromRead(sock, cmd)
    [] st = "SERVE"   -> Serves
    [] st = "TIMEOUT" -> At("TIMEOUT", {sock}) \union FromUnknown(sock, cmd)
    [] st = "CLOSED"  -> FromClosed(sock, cmd)
=============================================================================
