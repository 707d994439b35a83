# TLA+ models of WSNS15IRFence

This directory holds TLA+ models of the code under `src/`. TLC checks them.
The repository is a set of lab scripts. The core of this project is the one that keeps state across inputs and runs two threads:
`src/projects/irfence/control/control.py`, the live viewer of the IR-fence network. The lab3 live viewer and the lab1 trace pipelines, which turn a Nano-RK device's UART output into CSV files and plots, are modelled with the device that feeds them.

## 1. Inventory

### Components

| Component | Source | State | Operations |
|---|---|---|---|
| Parser thread | `control.py` 351-371 (`parse`) | the open device, the line just read | read a line. A `CTRL: ` line goes to `handle_msg`. Any other line, or EOF, ends the inner loop and the thread sleeps 10 ms. When idle, `select` times out after 1 s. |
| Message handler | `control.py` 260-349 (`handle_msg`) | globals `G` (the merged graph) and `prev_graph_str` | **graph line** (`[RF: ]digraph ...`): strip the prefix, skip it if `--dedup` is set and the text repeats, parse it with pydot/networkx (errors are printed and the line dropped), adopt it as `G` if `G` is None, run `updaters[name]`, then `draw_graph`. **fence line** (`fence: n:s n:s ...`): drop it if `not G`; parse the posts; clear beam/breached on every edge; apply each section (consecutive post pair) to the edge `G.edge[out][in]`; redraw. **anything else**: print an error. |
| Graph merge | `control.py` 39-92 | works on `G` | `sync_graphs` adds new nodes and edges. `update_rf` and `update_ir` move the `rflink`/`irlink` flags to exactly the new graph's edges. `update_loc` copies `dim_x`/`dim_y`, deletes every x/y, then copies the new graph's x/y. |
| Renderer | `control.py` 172-258 (`draw_graph`) | the matplotlib axes `ax` | Split nodes into located and unlocated. Take the axis limits from the dimensions. Lay out the unlocated nodes (a circle if none is located, otherwise a row). Draw nodes, labels and one layer of edges per flag. `color_legend` (94-142) is unused, but it records which flag combinations the author regarded as errors. |
| GUI main thread | `control.py` 373-378 | the figure | starts the daemon parser thread, then runs `plt.show()`, the event loop that repaints the figure |
| Static viewer | `irfence/control/graph.py` | none | draws one DOT file |
| lab3 live viewer | `lab3/graph/graph.py` | `fout`, `last_graph`, the temp file | `update()` runs in the GUI thread on each animation frame. It reads one line. `graph G` opens the temp file, every line is appended, and `}` closes the file, reparses it and redraws if the text changed. |
| Trace converters | `lab1/assignment3/*-to-csv.py` | per-task output files, `release_s` counters | Each script turns lines into CSV rows with a regex, skips the `Nano-RK Version` banner, and raises on any other line. `job-trace-to-csv` infers release times by adding one period per completion. `job-time-trace-to-csv` writes (task, start, end) rows. `ctx-trace-to-csv` writes `time,0` to the file of the task switched out and `time,1` to the file of the task switched in. |
| calc-exec | `lab1/assignment3/calc-exec.py` | none | per task: concatenate (start,1) and (end,0) rows, sort by time, write a step trace |
| Plots/statistics | `plot-exec.py`, `response-time.py`, `plot-rssi-vs-dist.py`, `path-loss-exp.py`, `convert-units.py` | none | pandas/matplotlib glue. The RSSI value is parsed from binary. A least-squares fit. |

### How the parts interact

The device streams text lines. The parser thread is their only reader, and the only writer of `G` and `prev_graph_str`.
After each update the parser thread draws `G` into the shared axes and calls `plt.draw()`. Meanwhile the main thread's event loop repaints from the same axes.
No lock guards the axes: the axes object is the only state the two threads share.
Nothing catches exceptions in the parser thread: the `try` around `handle_msg` is commented out. So any exception ends that thread, and the window stays up with the last frame.

### What is hard

* **Order of inputs.** The outcome depends on which kind of graph comes first, on repeats (`--dedup`), and on a fence line arriving before or after the graph that has its edges. The first graph is *aliased*: `G = G_new`, then `updater(G, G)`.
* **Partial failure.** Several handlers mutate `G` and then raise: `update_loc` after sync, and a fence after resetting flags and applying some sections. The thread then dies.
* **Stale flags.** Flags must be cleared before being set again. Graph updates never clear the fence flags.
* **Buffered reads.** `parse()` waits in `select()` on the fd and then calls `fin.readline()` on a buffered file object, whose buffer `select()` cannot see.
* **Concurrency.** The parser thread draws with matplotlib while the GUI thread repaints.
* **Numeric edges.** The row layout's arithmetic, `len(G) == 0` being false-y, and ties in calc-exec's sort.
* **Device faults seen by the converters.** A reset of the device in the middle of a capture, a job that prints no line, a garbage line, and a viewer that attaches in the middle of a block.

### What makes each part correct

* Merge: the graph only grows. The RF/IR flags are those of the last RF/IR graph. After a LOC graph, coordinates are that graph's. `--dedup` skips only lines whose effect is already there.
* Fence: beam/breached reflect the last fence line alone.
* Parser: every line is eventually read, whatever came before it.
* Renderer: every node is placed inside the axes, and the display eventually shows the current `G`.
* lab3 viewer: once the device stops, the axes come to show its last graph.
* Execution plots: the step plot of each task is 1 exactly while the task runs (calc-exec) or has the CPU (ctx-trace).
* job-trace: the release paired with each completion is the job's own release, and no response time is negative.

## 2. Modules and how they map to the code

### `IRFenceControl` — the parser thread and handle_msg (modelled)

* **Variables.**
  * `uart`: lines written but not yet read from the fd.
  * `stdio`: lines a `read()` of the fd put in `fin`'s buffer that `readline` has not yet returned.
  * `sent`: the number of lines written.
  * `G`: `None`, or a record `[nodes, edges, coord, dims, rf, ir, beam, breached]`.
  * `prevGraphStr`: the last graph text applied.
  * `alive`: the thread has not died.
  * History variables `lastRF`, `lastIR`, `lastLoc` and `lastFence`, used only to state properties.
* **Input abstraction.** A DOT text is the record that pydot and `nx.from_pydot` make of it: name, nodes, directed edges, node coordinates, dimensions, and whether it parses. A fence post is `[node, status]`, or `Malformed` when `split`/`int` reject it. The `RF: ` prefix is stripped before anything reads the line, so a graph line carries its stripped text.
* **Flags.** Each flag is a set of edges, because `bflag` reads a missing flag as False.
* **Graph representation.** G is a simple digraph. The code's multigraph keys (`G[u][v]` is a key dictionary for a non-strict `digraph`) are not modelled. The code both writes and reads flags through `G[u][v]`, so flag values behave as one flag per pair.
* **Operators.**
  * `SyncGraphs`, `UpdateRf`, `UpdateIr` and `UpdateLoc` model `sync_graphs` and the updaters. `UpdateLoc` takes an `aliased` argument for the first-graph case.
  * `Sections`, `ApplySection` and `ApplyFence` model the fence parsing and the loop, a `FoldLeft` over the sections.
  * `DrawFails` is draw_graph's TypeError. `RowXScaled` is the row layout, multiplied by n+2 so that it stays an integer.
* **Actions.**
  * One per path through `handle_msg`, each the whole path including the redraw: `GraphDuplicate`, `GraphParseError`, `GraphUnknownName`, `GraphLocNoDims`, `GraphApplied`, `FenceBeforeGraph`, `FenceMalformed`, `FenceApplied`.
  * The parse loop: `ReadCtrlLine`, `ReadOtherLine` and `Idle` (select timing out, or the thread dead while the GUI loop runs). Both reads are guarded by `uart # <<>>`, because `select()` sees only the fd.
  * `Readline` is `fin.readline()`: the head of `stdio`, or, when `stdio` is empty, one `read()` of the fd. On a canonical-mode tty that read returns one line. With `RawTty` it may return any number of the lines waiting, and all but the first stay in `stdio`. The tty mode depends on how the port was configured before the viewer started, and the code does not set it.
  * The device: `DeviceWrite`.
* **Fairness.** Weak fairness on the two read actions. The thread blocks only in `select`, which returns as soon as a line is there. The device has no fairness, so it may stop writing.

### `TopologyView` — what the viewer promises (abstract, refined)

The state is the topology on display (`nodes`, `edges`, `rf`, `ir`, `beam`, `breached`) and `running`.
* `GraphStep` merges a graph. Its edges become the RF links, the IR links or neither, and the fence flags are left alone.
* `FenceStep` sets beam/breached on edges already shown.
* `Stop` ends the viewer before, after or in the middle of either step. Nothing changes after it.

`IRFenceControl` defines `TV == INSTANCE TopologyView WITH nodes <- Shown("nodes"), ..., running <- alive`, where `Shown(f)` is `{}` while G is None. The property `TopologyRefinement == TV!Spec` is checked in `control_core`. Coordinates are left out of the view: the first-graph aliasing (`first_loc_coords`) breaks any promise about them.

### `ControlDisplay` — the parser's drawing and the GUI event loop (modelled)

`C == INSTANCE IRFenceControl WITH stdio <- <<>>, RawTty <- FALSE` supplies the handler actions on a canonical-mode tty; `ControlDisplay` adds the axes and the screen.
* `pc` is the parser thread's place in `draw_graph`: 0 reading, 1..6 about to make the drawing call `DrawSteps[pc]` (nodes, labels, then one edge layer per flag, lines 226-256), 7 about to call `plt.draw()` (258).
* `ax` is the axes: the graph being drawn and the layers drawn so far. `screen` is `ax` as the last repaint rendered it. `dirty` is a `plt.draw()` request the event loop has not yet serviced.
* `ReadAndDraw`: a line whose path reaches `draw_graph` (`GraphApplied`, or `FenceApplied` without a KeyError). G is updated and `ax.clear()` runs. If `draw_graph` raises at line 213 the thread ends with the axes cleared.
* `ReadNoDraw`: every other path of `handle_msg`, and the non-CTRL lines. The axes are untouched.
* `DrawLayer`, `PltDraw`: one matplotlib call each.
* `Repaint`: the event loop services a draw request (`plt.show()`, line 378). `Expose`: a window event repaints unasked.
* Fairness: weak fairness on the parser actions (the thread runs whenever it has work) and on `Repaint` (matplotlib services every pending draw request). `Expose` comes from the user and has none.

### `Lab3GraphViewer` — the lab3 live viewer (modelled)

* **Variables.**
  * `uart`: the lines the device printed that `update()` has not read.
  * `fout`: `None`, or the lines written to the open temp file.
  * `last_graph`: the text last read back.
  * `shown`: the graph on the axes.
  * `alive`: FuncAnimation still calls `update()`.
  * History: `sent` and `lastSent`, the graph of the device's last whole block.
* **Abstraction.** A graph is a set of statements, and a line is its kind (open, body, close, noise). `Parse` stands for pydot plus `nx.from_pydot`: a file of exactly one block gives its statements, and anything else does not parse.
* **Actions.**
  * `Update` is one call of `update()` and reads one line. `UpdateLine` covers "graph G" (opens and truncates the file) and every other line written to an open file. `UpdateCloseNoFile` is `}` with no file open, where `fout.close()` raises at line 40. `UpdateClose` closes the file, reads it back and redraws when the text changed.
  * An exception escaping the callback (`Raise`) may or may not stop the animation: that depends on the GUI backend's timer, so both outcomes are allowed.
  * The device: `PrintGraph`, `PrintNoise`.
* **Init.** With `MidStream`, the viewer may open the device at any line of the first block.
* **Fairness.** Weak fairness on `Update`: the animation timer calls it on every frame while it is alive. Also on `PrintGraph`: the device prints its topology periodically.

### `ExecTrace` — the execution-timeline plots of lab1 assignment 3 (modelled)

Two pipelines produce the per-task `time_s,is_running` files that `plot-exec.py` draws as a step plot. `capture` says which one a run follows.
* **Job capture.** The device's jobs (`jobs`, per task, with gaps between them, or back to back under `Touching`) are printed in order of completion. `ConvertJob`, `SkipVersion`, `FailLine` and `EndOfTrace` are `job-time-trace-to-csv.py`. `CalcExec` is `calc-exec.py`: `Events` gives (start,1) rows followed by (end,0) rows, and `SortByTime` allows any order of equal times, since `DataFrame.sort` is a quicksort.
* **ctx capture.** The device's context switches (`switches`, each handing the CPU from the task that had it) are printed as they happen. Several switches may share a time stamp. `CtxReadLine` and `CtxEnd` are `ctx-trace-to-csv.py`: `Opened` gives a task its file on first sight, and `WriteSwitch` is the two writes.
* **plot-exec.py.** `PlotFigure` and `PlotOneFile` are one run of the script, given some of the files in some order (`PlotArgs`) and a `--duration`.
  * `Limited` is the duration filter.
  * `Step` is `ax.step(where='post')`: drawn from the first point to the last, showing the last point at or before x.
  * `XLimits` is `set_xlim([min * 0.95, max * 1.05])`. Because of `sharex=True`, the last subplot's limits hold for all of them (`visible`).
  * A single file makes `ax_list[0]` raise TypeError: `pl.subplots(1)` returns one Axes, not a list.
  * The y limits, titles and labels are left out: they always contain the data. Each subplot is titled with its position `i` in the argument list (line 50), not its task number, which is wording only.
* `Running` and `OnCpu` are the references the figure is checked against.
* Both device outputs may carry one garbage line, which makes the script raise (`status = "failed"`).

### `JobTrace` — release and response times of lab1 assignment 3 (modelled)

* **Device.** A clock in half seconds. Job k of task t is released at `k * PERIODS_S[t]`. `Complete` prints `TaskN: sec nsec`. `Abort` ends a job without a line. `Reboot` prints the banner and restarts the clock and the job count. `Garbage` prints something else.
* **Converter.** `ReadLine` is one loop iteration of `job-trace-to-csv.py`. `ConvertJob` writes (task, release_s[task], comp) and advances `release_s[task]` by the period. `Comp` is `sec + nsec/1e9`. `Response` is `response-time.py`'s subtraction.
* **History.** Each row records the true release, the boot it ran in and the number of aborted jobs before it, so the properties can compare the inferred release with the real one.

### `MCIRFenceData`, `MCIRFenceControl`, `MCControlDisplay` — model-checking instances

* **Nodes.** Two nodes, `n1` and `n2`, model values.
* **Graph texts.** Ten:
  * RF (and its alias G) and IR graphs in either direction.
  * A LOC graph with all coordinates and dims (1,1).
  * A LOC graph with one coordinate and dims (1,2).
  * A LOC graph without dims.
  * An RF graph with one coordinate.
  * An empty graph.
  * A graph with an unknown name.
  * A text that fails to parse.
* **Fence lines.** Six: the sections in both directions, a line whose sections name the edge n1→n2 twice (ACTIVE, then BREACHED on n2→n1, then NONE on n1→n2 again), an unknown status, an empty line, and a malformed post.
* **Other lines.** An unexpected CTRL line and a non-CTRL line.
* **Bounds.** Up to 12 lines in the passing run (176k states, 6 s), and one line buffered.
  * Six lines already give every case the properties are about: a graph, a fence, a second graph that changes the links, a second fence, a repeat, and a failure. Twelve give each of them twice, in any order.
  * The state space grows slowly with the bound because the graph over two nodes saturates.
  * The device buffer size does not affect the handler: only the order of lines does. So `control_core` uses a canonical tty and `UartCap = 1`. A raw tty with `UartCap = 2` multiplies the states by about 14 without handing `handle_msg` any new order of lines.
  * `MCWellFormedLines` (an RF and an IR graph, a valid fence, an unexpected line) makes no handler raise. `buffered_line_liveness` runs over it with a raw tty and `UartCap = 2`. On a canonical tty the same cfg passes (713 states), so the violation comes from the buffering alone.
* **`MCControlDisplay`** bounds the lines to 4 (1.0M states, about 2 minutes). Every draw has seven steps, each of which the GUI may interleave. Three lines already give a redraw overtaking an unserviced one, and the fourth adds a draw that follows a failure.
* **Why not a symmetry set.** The texts name the nodes, so the nodes are not interchangeable.

### `MCLab3GraphViewer`, `MCExecTrace`, `MCJobTrace`

* **`MCLab3GraphViewer`.** Two statements and the three non-empty graphs of them. `MaxPrints = 3` blocks or noise lines after the first block, which is enough for a changed graph, a repeat and noise. `MidStream = TRUE` in both runs. About 2.5k states.
* **`MCExecTrace`.** Two tasks. Times 0..4. Up to 2 jobs per task, or 3 context switches. About 11k states: every tie between a start and an end, and every pair of switches at one time stamp, fits in these bounds. The `exec_back_to_back` run uses times 0..3 with `Touching`.
* **`MCJobTrace`.** Two tasks with periods 1 s and 2 s (the `PERIODS_S` of the script), in half seconds. Times 0..4. One aborted job, one reboot and one garbage line. About 1.1M states in 16 s. With `MaxTime` 5 and every fault enabled the run exceeds 5 minutes. The reboot run uses `MaxTime` 5 with only the reboot enabled.

## 3. Runs

| Run | Expect | What it shows |
|---|---|---|
| `control_core` | pass | ~176k states. `TypeOK`. `TopologyRefinement`: `IRFenceControl` implements `TopologyView` under the mapping from G's fields and `alive`. `FlagsFollowLastGraph`: rf/ir equal the edges of the last RF/IR graph, across every interleaving of other graphs, fences, duplicates and failures. `FenceFollowsLastFence`: while the thread runs, beam/breached equal what the last fence line means, stated over its sections (`BeamOf`, `BreachedOf`) rather than by the loop. |
| `first_loc_coords` | violation of `CoordsFollowLastLoc` | The first graph is a LOC graph. Its coordinates are deleted by the same update that should copy them (aliasing at line 283). The run has `--dedup` on, so a repeat of the same LOC line, which would restore them, is skipped. |
| `row_layout` | violation of `UnlocatedInView` | dims (1,2) with one unlocated node: its x is -4/3 while the axis spans -1..1. Line 217 uses `y_lim[0]`. |
| `malformed_line_liveness` | violation of `LinesAreConsumed` | One malformed line kills the parser thread, and later lines are never read. The spec says malformed lines are tolerated. |
| `buffered_line_liveness` | violation of `LinesAreConsumed` | Well-formed lines only, on a raw-mode tty. The device writes two lines, one `read()` takes both, and `readline` returns the first. `select()` then sees an empty fd, so the second line waits in `fin`'s buffer until the device writes again, and forever if it does not. |
| `display` | pass | ~1.0M states, about 2.5 minutes. `NoTornFrameAtRest`: whenever the parser has finished a line and no draw request is pending, the screen shows the axes as they are, so a repaint that caught a half-drawn G is always followed by `plt.draw()`'s request. `DisplaySettles`: with the two threads interleaved at every matplotlib call, once the device stops and the parser is idle the screen comes to show every layer of the final G. |
| `lab3_viewer` | pass | `TypeOK`. `DisplayFollowsWhileAlive`: as long as `update()` is called, the axes come to show the device's last graph, also after attaching mid-block, repeats and noise. |
| `lab3_midstream` | violation of `DisplayFollowsDevice` | Attached inside a block, the first `}` finds `fout` None. `fout.close()` raises (line 40), and on a backend that does not rearm the timer the viewer never draws again. |
| `exec_trace` | pass | ~15k states. `TypeOK`. `PlotIsExact`: wherever a subplot of plot-exec's figure draws inside the shared x limits, it shows its task's true state. This covers calc-exec's output for jobs with gaps between them (ties of the sort occur only in `exec_back_to_back`), ctx-trace-to-csv's output with several switches per time stamp, any `--duration` and any order of the files. |
| `exec_back_to_back` | violation of `PlotIsExact` | A job that starts when the previous one of its task ends: the sort may put (t,1) before (t,0), and the plot shows the task idle while it runs (calc-exec line 34). |
| `job_trace` | pass | `TypeOK`. `ReleaseErrorIsAbortedPeriods`: until a reboot, every row's release is exact unless jobs of its task printed no line, and then it is late by exactly one period per such job. This holds across the interleaving of two tasks, overrunning jobs and garbage lines. |
| `job_reboot` | violation of `ResponseNonNegative` | After a device reset the banner is skipped but `release_s` is not reset. Completion times restart from 0, and response times go negative. |

Two further behaviours were found while modelling and are not kept as runs:
* **Torn frames.** In `ControlDisplay` a repaint between `ax.clear()` and `plt.draw()` shows a half-drawn graph. `NoTornFrameAtRest` shows that a draw request always follows it before the parser reads on, and `DisplaySettles` that the window catches up.
* **Legend.** A fence section over an RF-only edge sets beam without irlink, a combination `color_legend` marks as an error. `color_legend` is never called.
* **plot-exec x limits.** The subplots share their x axis, so the limits set for the last file given hold for every subplot. A task whose trace starts earlier or ends later than the last one's is cut off.
* **plot-exec with one file.** `pl.subplots(1)` returns a single Axes, so `ax_list[0]` raises TypeError before anything is drawn (`PlotOneFile`).

Each property of a passing run has a mutant in `PROJECT.json`: a plausible slip in the code that TLC must catch.
* `TypeOK` catches a missing edge check.
* `FlagsFollowLastGraph` catches a missing rflink reset.
* `FenceFollowsLastFence` catches a missing beam/breached reset, and a NONE section that does not clear the beam, which shows only on the fence line of `MCIRFenceData` that names one edge twice.
* `TopologyRefinement` catches a merge that replaces the graph instead of taking the union.
* `DisplaySettles` catches a `draw_graph` without its final `plt.draw()`.
* `NoTornFrameAtRest` also catches the missing `plt.draw()`.
* In lab3, `TypeOK` catches opening a file for any line, and `DisplayFollowsWhileAlive` catches testing for `}` before writing the line.
* In `exec_trace`, `TypeOK` catches an is_running column filled with the count. `PlotIsExact` catches a missing sort, a switch that writes no row for the task switched out, and `ax.step` without `where='post'` (matplotlib's default is `'pre'`).
* In `job_trace`, `TypeOK` catches nsec not divided by 10^9, `ReleaseErrorIsAbortedPeriods` catches advancing `release_s` before the row is written.

## 4. Plan

In order of importance:

1. **Done: `IRFenceControl`**, with the `--dedup` flag and the readline buffer, and **`ControlDisplay`**.
2. **Done: `Lab3GraphViewer`, `ExecTrace` (job and ctx captures) and `JobTrace`.**
3. **Done: `TopologyView`**, refined by `IRFenceControl` in `control_core`.
4. **Next.** A device reset in `ExecTrace`'s ctx capture. Coordinates in `TopologyView` for inputs whose first graph is not a LOC graph. A third node in `MCIRFenceData`, if the state space allows it.

## 5. Not modelled

* `response-time.py`'s per-task `describe()`, the y limits and titles of `plot-exec.py`, `plot-rssi-vs-dist.py` and the static `irfence/control/graph.py` have no state and produce only pictures or printed tables.
* `convert-units.py` is one stateless expression per column. `int(str(x), 2)` reads back the binary digits that pandas parsed as a decimal number. That is exact for every complete column, since leading zeros change neither reading. One empty cell makes the column float, and then `'101.0'` raises. This is listed as a hazard in `PROJECT.json`.
* The least-squares fit in `path-loss-exp.py` needs real numbers and logarithms. Its plotted line `dist * n + C` (line 38) is not the fitted model `10 n log10 d + C`.
* In `ControlDisplay` the tty is canonical. The raw-mode buffer is checked in `IRFenceControl` alone: with it the display run would exceed its time bound.
* In `draw_graph`, the pixel output, `circular_layout` and the per-flag styles are not modelled.
* Four hazards in `PROJECT.json` have no property: the device resets in the ctx and start/end captures, `convert-units.py`'s type inference and plot-exec's shared x limits. What each shows is a failure, so each would need a violation run of its own. The project's runs are spent on the findings above, and the hazards are recorded with notes.
* A device reset during a ctx or start/end capture is not modelled in `ExecTrace`. It is the same clock restart that `job_reboot` shows for `job-trace-to-csv.py`, and it would push the run past its bounds.
