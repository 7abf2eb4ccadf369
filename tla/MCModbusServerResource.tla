---------------------- MODULE MCModbusServerResource ----------------------
(* Small instances of the server engine for TLC: a broadcast unit, a unit  *)
(* that a map may or may not serve, and every verdict on a frame.          *)
EXTENDS ModbusServerResource

MCUnit == {0, 1}
MCUnitMap == SUBSET MCUnit
MCPart(a, b) == [first |-> a, last |-> b]
(* The maps above as texts, and a wrong one ...                            *)
MCUnitText == SUBSET {MCPart(0, 0), MCPart(1, 1)} \union {{MCPart(1, 1), None}}
(* ... and maps with gaps of one unit and of many, ranges, also up to the  *)
(* last unit, and all units.                                               *)
MCWideText ==
  MCUnitText \union {text \union {MCPart(3, 3), MCPart(14, 15)} : text \in MCUnitText}
    \union {{MCPart(0, 15)}, {MCPart(1, 0)}}
MCFrames(verdicts) == [unit : MCUnit, verdict : verdicts]
MCReadable == MCFrames({Good, Illegal})
MCRequest == MCFrames({Good, Illegal, NotCorrect}) \union
             {[unit |-> 1, verdict |-> Unreadable]}
=============================================================================
