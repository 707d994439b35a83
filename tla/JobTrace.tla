------------------------------ MODULE JobTrace ------------------------------
(***************************************************************************)
(* Release and completion times of lab1 assignment 3:                     *)
(*   job-trace-to-csv.py  a completion line "TaskN: sec nsec" per job;    *)
(*                        the release time is not printed but counted:    *)
(*                        release_s[task] starts at 0 and grows by        *)
(*                        PERIODS_S[task] per completion line;             *)
(*   response-time.py     response_s = completion_s - release_s.          *)
(* The device (Nano-RK) releases job k of task t at k * PERIODS_S[t]      *)
(* after boot and prints the line when the job completes.  Time is        *)
(* counted in half seconds (Tick); a line carries sec and nsec.           *)
(***************************************************************************)
EXTENDS Integers, Sequences, FiniteSets

CONSTANTS Tasks,        \* task indices
          PERIODS_S,    \* task -> period, in half seconds
          MaxTime,      \* the device clock runs 0 .. MaxTime half seconds
          MaxAborted,   \* jobs that end without printing a line
          MaxReboots,   \* device resets during the capture
          MaxGarbage    \* lines that match neither pattern

NSEC == 1000000000
Tick == NSEC \div 2        \* nanoseconds per half second

VARIABLES clock,        \* device time since boot
          nextJob,      \* task -> index of its next job since boot
          lastDone,     \* task -> completion time of its last job, -1 if none
          trace,        \* the captured UART lines
          faults,       \* [aborted, reboots, garbage] used so far
          aborted,      \* history: task -> its jobs that printed no line
          phase,        \* "device", "convert", "failed", "done"
          pos,          \* lines of trace read by the converter
          release_s,    \* task -> next release time (half seconds)
          rows          \* CSV rows written, with the true release (truth),
                        \* the boot the job ran in and the aborted jobs of
                        \* its task before it

device == <<clock, nextJob, lastDone, trace, faults, aborted>>
converter == <<pos, release_s, rows>>
vars == <<device, phase, converter>>

VersionLine == [kind |-> "version"]
GarbageLine == [kind |-> "garbage"]
CompletionLine(t, c, r, b, a) ==
    [kind |-> "job", task |-> t, sec |-> c \div 2, nsec |-> (c % 2) * Tick,
     truth |-> r, boot |-> b, aborted |-> a]

-----------------------------------------------------------------------------
(* Device.                                                                 *)

Release(t, k) == k * PERIODS_S[t]

TimePasses ==
    /\ phase = "device" /\ clock < MaxTime
    /\ clock' = clock + 1
    /\ UNCHANGED <<nextJob, lastDone, trace, faults, aborted, phase, converter>>

\* The next job of t completes now (it was released and has run) and the
\* completion line is printed.
Complete(t) ==
    /\ phase = "device"
    /\ Release(t, nextJob[t]) < clock /\ lastDone[t] < clock
    /\ trace' = Append(trace, CompletionLine(t, clock, Release(t, nextJob[t]),
                                               faults.reboots, aborted[t]))
    /\ nextJob' = [nextJob EXCEPT ![t] = @ + 1]
    /\ lastDone' = [lastDone EXCEPT ![t] = clock]
    /\ UNCHANGED <<clock, faults, aborted, phase, converter>>

\* The next job of t ends without a completion line.
Abort(t) ==
    /\ phase = "device" /\ faults.aborted < MaxAborted
    /\ Release(t, nextJob[t]) < clock /\ lastDone[t] < clock
    /\ nextJob' = [nextJob EXCEPT ![t] = @ + 1]
    /\ lastDone' = [lastDone EXCEPT ![t] = clock]
    /\ faults' = [faults EXCEPT !.aborted = @ + 1]
    /\ aborted' = [aborted EXCEPT ![t] = @ + 1]
    /\ UNCHANGED <<clock, trace, phase, converter>>

\* The device resets: it prints its banner and starts again from time 0.
Reboot ==
    /\ phase = "device" /\ faults.reboots < MaxReboots
    /\ clock' = 0
    /\ nextJob' = [t \in Tasks |-> 0]
    /\ lastDone' = [t \in Tasks |-> -1]
    /\ trace' = Append(trace, VersionLine)
    /\ faults' = [faults EXCEPT !.reboots = @ + 1]
    /\ UNCHANGED <<aborted, phase, converter>>

\* Something else is printed.
Garbage ==
    /\ phase = "device" /\ faults.garbage < MaxGarbage
    /\ trace' = Append(trace, GarbageLine)
    /\ faults' = [faults EXCEPT !.garbage = @ + 1]
    /\ UNCHANGED <<clock, nextJob, lastDone, aborted, phase, converter>>

\* The capture is stopped and the script is run on it.
EndCapture ==
    /\ phase = "device"
    /\ phase' = "convert"
    /\ UNCHANGED <<device, converter>>

-----------------------------------------------------------------------------
(* job-trace-to-csv.py, lines 30-53.                                       *)

\* Mutant: float(nsec) is not divided by 10^9.
CompNoDivide(l) == l.sec * 2 + 2 * l.nsec

\* comp = float(sec) + float(nsec)/1000000000, in half seconds.
Comp(l) == l.sec * 2 + (2 * l.nsec) \div NSEC

\* Mutant: release_s[task] is advanced before the row is written.
ConvertJobEarlyAdvance(l) ==
    /\ rows' = Append(rows, [task |-> l.task,
                             release |-> release_s[l.task] + PERIODS_S[l.task],
                             comp |-> Comp(l), truth |-> l.truth, boot |-> l.boot,
                             aborted |-> l.aborted])
    /\ release_s' = [release_s EXCEPT ![l.task] = @ + PERIODS_S[l.task]]

\* A completion line: write (task, release_s[task], comp), then advance
\* release_s[task] by the period.
ConvertJob(l) ==
    /\ rows' = Append(rows, [task |-> l.task, release |-> release_s[l.task],
                             comp |-> Comp(l), truth |-> l.truth, boot |-> l.boot,
                             aborted |-> l.aborted])
    /\ release_s' = [release_s EXCEPT ![l.task] = @ + PERIODS_S[l.task]]

\* One iteration of the for loop.
ReadLine ==
    /\ phase = "convert" /\ pos < Len(trace)
    /\ LET l == trace[pos + 1]
       IN  \/ l.kind = "job" /\ ConvertJob(l) /\ UNCHANGED phase
           \/ l.kind = "version" /\ UNCHANGED <<release_s, rows, phase>>
           \/ l.kind = "garbage" /\ phase' = "failed"
                                 /\ UNCHANGED <<release_s, rows>>
    /\ pos' = pos + 1
    /\ UNCHANGED device

\* The loop ends; fout.close().
EndOfTrace ==
    /\ phase = "convert" /\ pos = Len(trace)
    /\ phase' = "done"
    /\ UNCHANGED <<device, converter>>

\* response-time.py: response_s = completion_s - release_s.
Response(r) == r.comp - r.release

Finished ==
    /\ phase \in {"failed", "done"}
    /\ UNCHANGED vars

\* The device boots (printing its banner) as the capture starts; the
\* script starts with release_s = 0 for every task (lines 30-33).
Init ==
    /\ clock = 0
    /\ nextJob = [t \in Tasks |-> 0]
    /\ lastDone = [t \in Tasks |-> -1]
    /\ trace = <<VersionLine>>
    /\ faults = [aborted |-> 0, reboots |-> 0, garbage |-> 0]
    /\ aborted = [t \in Tasks |-> 0]
    /\ phase = "device"
    /\ pos = 0
    /\ release_s = [t \in Tasks |-> 0]
    /\ rows = <<>>

Next ==
    \/ TimePasses
    \/ \E t \in Tasks : Complete(t) \/ Abort(t)
    \/ Reboot
    \/ Garbage
    \/ EndCapture
    \/ ReadLine
    \/ EndOfTrace
    \/ Finished

Spec == Init /\ [][Next]_vars

-----------------------------------------------------------------------------
(* Properties.                                                             *)

TypeOK ==
    /\ clock \in 0 .. MaxTime
    /\ phase \in {"device", "convert", "failed", "done"}
    /\ \A i \in DOMAIN rows :
          /\ rows[i].task \in Tasks
          /\ rows[i].comp \in 0 .. MaxTime
          /\ rows[i].release \in Nat

\* As long as the device has not been reset, the release time of every
\* row is off by exactly one period per earlier job of its task that
\* printed no completion line, and is exact when there was none: the
\* release is inferred by counting completion lines per task (release_s,
\* line 51), while jobs overrun their period and two tasks interleave.
ReleaseErrorIsAbortedPeriods ==
    \A i \in DOMAIN rows :
        rows[i].boot = 0 =>
            rows[i].release = rows[i].truth - rows[i].aborted * PERIODS_S[rows[i].task]

\* response-time.py: no job completes before it is released.
ResponseNonNegative ==
    \A i \in DOMAIN rows : Response(rows[i]) >= 0

=============================================================================
