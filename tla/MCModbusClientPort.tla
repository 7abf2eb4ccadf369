------------------------ MODULE MCModbusClientPort ------------------------
(* Small instances of the client engine for TLC.                           *)
EXTENDS ModbusClientPort, FiniteSets

CONSTANTS c1, c2

MCClient == {c1, c2}
MCAlone == {c1}
MCRequests(ids) ==
  {q \in [id : 1..4, unit : 0..1, valid : BOOLEAN, raw : BOOLEAN] :
     /\ q.id \in ids
     /\ q.unit = IF q.id = 2 THEN 0 ELSE 1
     /\ q.valid = (q.id # 3)
     /\ q.raw = (q.id = 4)}
MCOne == MCRequests({1})
MCTwo == MCRequests({1, 2})
MCAll == MCRequests(1..4)
=============================================================================
