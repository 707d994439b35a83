------------------------- MODULE MCLab3GraphViewer -------------------------
(* Two statements, and every non-empty graph of them.                      *)
EXTENDS Lab3GraphViewer

CONSTANTS s1, s2

MCStmts == {s1, s2}
MCGraphs == SUBSET MCStmts \ {{}}
=============================================================================
