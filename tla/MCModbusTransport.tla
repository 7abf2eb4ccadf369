------------------------ MODULE MCModbusTransport ------------------------
(* ModbusTransport on every protocol type.                                 *)
EXTENDS ModbusTransport

MCTypes == DOMAIN createPort
MCTries == {1, 2}
(* The second request starts the identifiers over.                         *)
MCIds == {65534}
=============================================================================
