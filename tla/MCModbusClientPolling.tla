---------------------- MODULE MCModbusClientPolling ----------------------
(* Small instances of the polling loops for TLC.                           *)
EXTENDS ModbusClientPolling, TLC

CONSTANTS c1, c2, c3

MCTwoClients == {c1, c2}
MCThreeClients == {c1, c2, c3}
MCTwoInCircle == (c1 :> c2) @@ (c2 :> c1)
MCThreeInCircle == (c1 :> c2) @@ (c2 :> c3) @@ (c3 :> c1)
MCOne == {[id |-> 1, unit |-> 1, valid |-> TRUE, raw |-> FALSE]}
=============================================================================
