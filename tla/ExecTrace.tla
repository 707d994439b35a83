----------------------------- MODULE ExecTrace -----------------------------
(***************************************************************************)
(* The execution-timeline pipeline of lab1 assignment 3:                  *)
(*   job-time-trace-to-csv.py  UART lines "TaskN: s ns s ns" -> CSV rows  *)
(*                             (task, start_s, end_s);                     *)
(*   calc-exec.py              per task, rows (start, 1) then (end, 0),    *)
(*                             sorted by time -> (time_s, is_running);     *)
(*   plot-exec.py              ax.step(time, is_running, where='post').   *)
(* and the context-switch pipeline that feeds the same plot:               *)
(*   ctx-trace-to-csv.py       UART lines "s ns out->in" -> per task rows  *)
(*                             (time_s, 0) for out and (time_s, 1) for in. *)
(* A capture is of one kind or the other (capture), as the firmware is    *)
(* built to print job times or context switches.                          *)
(* The device prints one line per job when the job completes.  Times are  *)
(* abstracted to small integers (the sec + nsec/1e9 sum is exact at this  *)
(* grain).  DataFrame.sort uses quicksort, which does not keep the order  *)
(* of rows with equal times, so every order of equal times is possible.   *)
(***************************************************************************)
EXTENDS Integers, Sequences, SequencesExt, FiniteSets

CONSTANTS Tasks,      \* task indices the device runs
          MaxTime,    \* times are 0 .. MaxTime
          MaxJobs,    \* jobs per task
          Touching,   \* a job may start at the instant the previous one ends
          MaxSwitches, \* context switches in a ctx capture
          NotDrawn    \* the step plot before its first point

VARIABLES capture,    \* "job" or "ctx": what the firmware prints
          jobs,       \* history: the jobs the device ran, per task
          switches,   \* history: the context switches the device made
          lines,      \* trace lines not yet read by job-time-trace-to-csv
          rows,       \* CSV rows written
          status,     \* "converting", "failed", "converted", "done",
                      \* then "plotted" or "plotfailed" (plot-exec.py)
          traces,     \* the per-task (time_s, is_running) files: calc-exec's
                      \* output, or ctx-trace-to-csv's
          panels,     \* plot-exec: per subplot, the task and the points drawn
          visible     \* plot-exec: the times inside the shared x limits

plot == <<panels, visible>>
vars == <<capture, jobs, switches, lines, rows, status, traces, plot>>

Times == 0 .. MaxTime

-----------------------------------------------------------------------------
(* Device.                                                                 *)

\* A job of one task runs from start to end.
Intervals ==
    {j \in [start : Times, end : Times] : j.start < j.end}

\* Jobs of one task follow one another.
JobSeqs ==
    {s \in BoundedSeq(Intervals, MaxJobs) :
        \A i \in 1 .. Len(s) - 1 :
            IF Touching THEN s[i].end <= s[i + 1].start
                        ELSE s[i].end < s[i + 1].start}

JobLine(t, j) == [kind |-> "job", task |-> t, start |-> j.start, end |-> j.end]
VersionLine == [kind |-> "version"]
GarbageLine == [kind |-> "garbage"]

\* Every order of the sequence s.
Arrangements(s) ==
    {[i \in 1 .. Len(s) |-> s[p[i]]] : p \in Permutations(1 .. Len(s))}

\* The lines of a run: the boot banner, then one line per job in the order
\* the jobs complete, and possibly one line that matches no pattern.
DeviceOutputs(js) ==
    LET done == FoldLeft(LAMBDA acc, t :
                    acc \o [i \in 1 .. Len(js[t]) |-> JobLine(t, js[t][i])],
                    <<>>, SetToSeq(Tasks))
        byEnd == {s \in Arrangements(done) :
                    IsSorted(s, LAMBDA a, b : a.end <= b.end)}
    IN  {<<VersionLine>> \o s : s \in byEnd}
        \cup UNION {{InsertAt(<<VersionLine>> \o s, i, GarbageLine) :
                        i \in 2 .. Len(s) + 2} : s \in byEnd}

\* One CPU: each switch hands the CPU from the task that had it to
\* another, at a time no earlier than the previous switch.
SwitchSeqs ==
    {s \in BoundedSeq([time : Times, out : Tasks, in : Tasks], MaxSwitches) :
        /\ \A i \in DOMAIN s : s[i].out # s[i].in
        /\ \A i \in 1 .. Len(s) - 1 :
              s[i].time <= s[i + 1].time /\ s[i + 1].out = s[i].in}

SwitchLine(w) == [kind |-> "switch"] @@ w

\* A ctx capture: the banner, a line per switch as it happens, and possibly
\* one line that matches no pattern.
CtxOutputs(sw) ==
    LET s == <<VersionLine>> \o [i \in DOMAIN sw |-> SwitchLine(sw[i])]
    IN  {s} \cup {InsertAt(s, i, GarbageLine) : i \in 2 .. Len(s) + 1}

-----------------------------------------------------------------------------
(* job-time-trace-to-csv.py, lines 34-48.                                   *)

\* A line matching completion_re becomes a row.
ConvertJob ==
    /\ capture = "job" /\ status = "converting" /\ lines # <<>> /\ Head(lines).kind = "job"
    /\ rows' = Append(rows, [task |-> Head(lines).task,
                             start |-> Head(lines).start,
                             end |-> Head(lines).end])
    /\ lines' = Tail(lines)
    /\ UNCHANGED <<plot, capture, jobs, switches, status, traces>>

\* The "Nano-RK Version" banner is skipped.
SkipVersion ==
    /\ capture = "job" /\ status = "converting" /\ lines # <<>> /\ Head(lines).kind = "version"
    /\ lines' = Tail(lines)
    /\ UNCHANGED <<plot, capture, jobs, switches, rows, status, traces>>

\* Any other line raises; the rows written so far stay in the file.
FailLine ==
    /\ capture = "job" /\ status = "converting" /\ lines # <<>> /\ Head(lines).kind = "garbage"
    /\ status' = "failed"
    /\ UNCHANGED <<plot, capture, jobs, switches, lines, rows, traces>>

\* The end of the trace file: fout.close().
EndOfTrace ==
    /\ capture = "job" /\ status = "converting" /\ lines = <<>>
    /\ status' = "converted"
    /\ UNCHANGED <<plot, capture, jobs, switches, lines, rows, traces>>

-----------------------------------------------------------------------------
(* ctx-trace-to-csv.py, lines 20-45.                                       *)

\* Lines 33-37: a task seen for the first time gets its file.
Opened(files, ts) ==
    [t \in DOMAIN files \cup ts |-> IF t \in DOMAIN files THEN files[t] ELSE <<>>]

WriteRow(files, t, r) == [files EXCEPT ![t] = Append(@, r)]

\* Mutant: the task switched out gets no row.
WriteSwitchNoOut(l) ==
    LET f == Opened(traces, {l.in, l.out})
    IN  WriteRow(f, l.in, [time |-> l.time, running |-> 1])

\* Lines 41-42: "time,0" to task_out's file, then "time,1" to task_in's.
WriteSwitch(l) ==
    LET f == Opened(traces, {l.in, l.out})
    IN  WriteRow(WriteRow(f, l.out, [time |-> l.time, running |-> 0]),
                 l.in, [time |-> l.time, running |-> 1])

\* One iteration of the for loop: a switch line is written, the banner is
\* skipped, any other line raises.
CtxReadLine ==
    /\ capture = "ctx" /\ status = "converting" /\ lines # <<>>
    /\ \/ Head(lines).kind = "switch" /\ traces' = WriteSwitch(Head(lines))
                                       /\ lines' = Tail(lines)
                                       /\ UNCHANGED status
       \/ Head(lines).kind = "version" /\ lines' = Tail(lines)
                                        /\ UNCHANGED <<status, traces>>
       \/ Head(lines).kind = "garbage" /\ status' = "failed"
                                        /\ UNCHANGED <<lines, traces>>
    /\ UNCHANGED <<plot, capture, jobs, switches, rows>>

\* The loop ends and the files are closed, ready for plot-exec.
CtxEnd ==
    /\ capture = "ctx" /\ status = "converting" /\ lines = <<>>
    /\ status' = "done"
    /\ UNCHANGED <<plot, capture, jobs, switches, lines, rows, traces>>

-----------------------------------------------------------------------------
(* calc-exec.py, lines 17-37.                                              *)

\* TASKS = job_data['task'].unique()
TasksOf(rs) == {rs[i].task : i \in DOMAIN rs}

\* Mutant: the is_running column of the starts is the job count.
EventsCountNotOnes(rs, t) ==
    LET js == SelectSeq(rs, LAMBDA r : r.task = t)
    IN  [i \in 1 .. Len(js) |-> [time |-> js[i].start, running |-> Len(js)]]
        \o [i \in 1 .. Len(js) |-> [time |-> js[i].end, running |-> 0]]

\* The rows of task t as (start_s, 1) rows followed by (end_s, 0) rows.
Events(rs, t) ==
    LET js == SelectSeq(rs, LAMBDA r : r.task = t)
    IN  [i \in 1 .. Len(js) |-> [time |-> js[i].start, running |-> 1]]
        \o [i \in 1 .. Len(js) |-> [time |-> js[i].end, running |-> 0]]

\* Mutant: the sort is left out.
SortByTimeMissing(s) == {s}

\* trace_data.sort('time_s'): any order of equal times.
SortByTime(s) ==
    {r \in Arrangements(s) : IsSorted(r, LAMBDA a, b : a.time <= b.time)}

\* One output file per task.
CalcExec ==
    /\ status = "converted"
    /\ LET out == [t \in TasksOf(rows) |-> SortByTime(Events(rows, t))]
       IN  traces' \in {f \in [TasksOf(rows) -> UNION {out[t] : t \in TasksOf(rows)}] :
                          \A t \in TasksOf(rows) : f[t] \in out[t]}
    /\ status' = "done"
    /\ UNCHANGED <<plot, capture, jobs, switches, lines, rows>>

-----------------------------------------------------------------------------
(* plot-exec.py, lines 28-53.                                              *)

\* Mutant: ax.step without where='post' (matplotlib's default is 'pre'):
\* at x the value of the first point at or after x.
StepPre(trace, x) ==
    LET i == SelectInSeq(trace, LAMBDA r : r.time >= x)
    IN  IF trace = <<>> \/ x < trace[1].time \/ i = 0 THEN NotDrawn
        ELSE trace[i].running

\* ax.step(time, is_running, where='post') draws from the first point to
\* the last; at x it shows the value of the last point at or before x.
Step(trace, x) ==
    IF trace = <<>> \/ x < trace[1].time \/ x > Last(trace).time THEN NotDrawn
    ELSE trace[SelectLastInSeq(trace, LAMBDA r : r.time <= x)].running

\* Lines 34-35: with --duration d >= 0 only the rows at or before d.
Limited(trace, d) ==
    IF d >= 0 THEN SelectSeq(trace, LAMBDA r : r.time <= d) ELSE trace

\* Lines 42-43 with X_MARGIN = 0.05: set_xlim([min * 0.95, max * 1.05]).
\* The subplots share their x axis (sharex=True), so the limits the last
\* subplot sets hold for all of them.  An empty subplot sets NaN limits.
XLimits(trace) ==
    IF trace = <<>> THEN {}
    ELSE {x \in Times : 20 * x >= 19 * trace[1].time /\ 20 * x <= 21 * Last(trace).time}

\* plot-exec.py is given the files of some tasks, in some order, and a
\* duration (-1, the default, or a time).
PlotArgs ==
    (SetToAllKPermutations(DOMAIN traces) \ {<<>>}) \X ({-1} \cup Times)

\* One file: pl.subplots(1) returns a single Axes, and ax_list[0] raises
\* TypeError before anything is drawn.
PlotOneFile ==
    /\ status = "done"
    /\ \E a \in PlotArgs : Len(a[1]) = 1
    /\ status' = "plotfailed"
    /\ UNCHANGED <<plot, capture, jobs, switches, lines, rows, traces>>

\* Two or more files: subplot i draws file i (lines 30-53).
PlotFigure ==
    /\ status = "done"
    /\ \E a \in PlotArgs :
         LET files == a[1]
             pts(t) == Limited(traces[t], a[2])
         IN  /\ Len(files) >= 2
             /\ panels' = [i \in DOMAIN files |-> [task |-> files[i], points |-> pts(files[i])]]
             /\ visible' = XLimits(pts(Last(files)))
    /\ status' = "plotted"
    /\ UNCHANGED <<capture, jobs, switches, lines, rows, traces>>

\* The pipeline has finished or stopped (the files may also never be
\* plotted).
Finished ==
    /\ status \in {"failed", "done", "plotted", "plotfailed"}
    /\ UNCHANGED vars

Init ==
    /\ \/ /\ capture = "job"
          /\ jobs \in [Tasks -> JobSeqs] /\ switches = <<>>
          /\ lines \in DeviceOutputs(jobs)
       \/ /\ capture = "ctx"
          /\ jobs = [t \in Tasks |-> <<>>] /\ switches \in SwitchSeqs
          /\ lines \in CtxOutputs(switches)
    /\ rows = <<>>
    /\ status = "converting"
    /\ traces = <<>>
    /\ panels = <<>>
    /\ visible = {}

Next ==
    \/ ConvertJob
    \/ SkipVersion
    \/ FailLine
    \/ EndOfTrace
    \/ CtxReadLine
    \/ CtxEnd
    \/ CalcExec
    \/ PlotOneFile
    \/ PlotFigure
    \/ Finished

Spec == Init /\ [][Next]_vars

-----------------------------------------------------------------------------
(* References: what the plot should say.                                   *)

\* Reference: task t is running at x when one of its jobs has started and
\* not yet ended.
Running(t, x) ==
    IF \E i \in DOMAIN jobs[t] : jobs[t][i].start <= x /\ x < jobs[t][i].end
    THEN 1 ELSE 0

\* Reference for a ctx capture: t has the CPU at x when it was switched in
\* by the last switch at or before x, or, before the first switch, when
\* the first switch takes the CPU from it.
OnCpu(t, x) ==
    LET at == {i \in DOMAIN switches : switches[i].time <= x}
        owner == IF at = {} THEN switches[1].out ELSE switches[Max(at)].in
    IN  IF owner = t THEN 1 ELSE 0

Truth(t, x) == IF capture = "job" THEN Running(t, x) ELSE OnCpu(t, x)

TypeOK ==
    /\ capture \in {"job", "ctx"}
    /\ status \in {"converting", "failed", "converted", "done", "plotted", "plotfailed"}
    /\ \A i \in DOMAIN rows : rows[i].task \in Tasks
    /\ \A t \in DOMAIN traces :
          \A i \in DOMAIN traces[t] :
             traces[t][i].time \in Times /\ traces[t][i].running \in {0, 1}

\* The figure is exact: wherever a subplot draws inside the shared x
\* limits, it shows its task running exactly while one of its jobs runs
\* (calc-exec's output, whatever order the sort leaves equal times in), or
\* exactly while it has the CPU (ctx-trace-to-csv's output, also when
\* several switches share one time stamp), for any --duration and any
\* order of the files.
PlotIsExact ==
    status = "plotted" =>
        \A i \in DOMAIN panels :
            \A x \in visible :
                Step(panels[i].points, x) \in {NotDrawn, Truth(panels[i].task, x)}

=============================================================================
