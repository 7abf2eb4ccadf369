--------------------------- MODULE MCModbusObject ---------------------------
EXTENDS ModbusObject

CONSTANTS p, q, s

F == [object |-> None, method |-> "f"]
A == [object |-> p, method |-> "m"]
B == [object |-> p, method |-> "k"]

MCSlot == {F, A}
MCThreeSlots == {F, A, B}
=============================================================================
