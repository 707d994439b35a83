---------------------------- MODULE MCJobTrace ----------------------------
(* PERIODS_S of job-trace-to-csv.py (1.0 s and 2.0 s) in half seconds.    *)
EXTENDS JobTrace

MCTasks == {1, 2}
MCPeriods == [t \in MCTasks |-> 2 * t]
=============================================================================
