------------------------- MODULE MCModbusTcpServer -------------------------
(* Small instances of the TCP server for TLC: up to two connections, so    *)
(* that the limit is met and one can wait for the other.                   *)
EXTENDS ModbusTcpServer

MCDevice == {"d1", "d2"}
MCOneDevice == {"d1"}
MCUnit == {1}
=============================================================================
