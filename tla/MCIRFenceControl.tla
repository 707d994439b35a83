------------------------- MODULE MCIRFenceControl --------------------------
(* The parser thread of control.py over the inputs of MCIRFenceData.       *)
EXTENDS IRFenceControl

CONSTANTS n1, n2, p1, p2

Data == INSTANCE MCIRFenceData

MCNodes == Data!MCNodes
MCPos == Data!MCPos
MCDims == Data!MCDims
MCLines == Data!MCLines
MCWellFormedLines == Data!MCWellFormedLines

=============================================================================
