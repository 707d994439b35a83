------------------------- MODULE MCControlDisplay ---------------------------
(* Both threads of control.py over the inputs of MCIRFenceData.            *)
EXTENDS ControlDisplay

CONSTANTS n1, n2, p1, p2

Data == INSTANCE MCIRFenceData

MCNodes == Data!MCNodes
MCPos == Data!MCPos
MCDims == Data!MCDims
MCLines == Data!MCLines

=============================================================================
