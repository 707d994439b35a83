--------------------------- MODULE MCExecTrace ---------------------------
(* The two tasks of the lab's Nano-RK application (PERIODS_S keys).        *)
EXTENDS ExecTrace

MCTasks == {1, 2}
=============================================================================
