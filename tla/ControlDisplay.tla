--------------------------- MODULE ControlDisplay ---------------------------
(***************************************************************************)
(* The two threads of control.py that share the matplotlib axes: the      *)
(* parser thread, which updates G (IRFenceControl) and then draws it with *)
(* draw_graph (lines 177-258), one matplotlib call after another, and the *)
(* main thread, whose plt.show() event loop (line 378) repaints the       *)
(* figure from the axes when plt.draw() asked for it or when the window   *)
(* is exposed.  Nothing orders the two.                                    *)
(*                                                                         *)
(* The axes are abstracted to the graph being drawn and the layers drawn  *)
(* so far; the screen to the axes as they were at the last repaint.       *)
(* The tty is taken in canonical mode (one line per read); the raw-mode   *)
(* buffering of readline is checked in IRFenceControl alone.              *)
(***************************************************************************)
EXTENDS Integers, Sequences

CONSTANTS Nodes, None, NoCoord, NoDims, Malformed, Lines, Dedup, MaxLines,
          UartCap, Pos, Dims

VARIABLES uart, sent, G, prevGraphStr, alive, lastRF, lastIR, lastLoc, lastFence,
          pc,      \* parser: 0 reading, 1..6 about to draw DrawSteps[pc], 7 plt.draw
          ax,      \* [g, parts]: the graph on the axes and the layers drawn
          screen,  \* the axes as the last repaint showed them
          dirty    \* plt.draw() has asked for a repaint not yet done

\* The parser's reads are modelled here on a canonical-mode tty, where one
\* read() returns one line and fin's buffer stays empty.
C == INSTANCE IRFenceControl WITH stdio <- <<>>, RawTty <- FALSE

handler == <<G, prevGraphStr, alive, lastRF, lastIR, lastLoc, lastFence>>
display == <<pc, ax, screen, dirty>>
vars == <<uart, sent, handler, display>>

\* The matplotlib calls of draw_graph after ax.clear(), in order: nodes
\* (227-232), labels (234-238), one edge layer per flag (240-256).
DrawSteps == <<"nodes", "labels", "rflink", "irlink", "beam", "breached">>
AllParts == {DrawSteps[i] : i \in DOMAIN DrawSteps}
PLT_DRAW == Len(DrawSteps) + 1

\* The axes holding every layer of g.
Frame(g) == [g |-> g, parts |-> AllParts]

\* Before the first graph nothing has been drawn.
Blank == [g |-> None, parts |-> AllParts]

-----------------------------------------------------------------------------
(* Parser thread.                                                          *)

\* A section that is not an edge of G raises KeyError (line 324) before
\* draw_graph is reached.
FenceRaises(posts) == C!ApplyFence(G, C!Sections(posts)).failed

\* handle_msg on a line whose path calls draw_graph: G is updated and
\* ax.clear() runs.  If draw_graph then raises (line 213) the axes stay
\* cleared and the thread ends (pc back to 0, alive FALSE).
ReadAndDraw ==
    /\ pc = 0 /\ alive /\ uart # <<>>
    /\ uart' = Tail(uart) /\ UNCHANGED sent
    /\ LET line == Head(uart) IN
       \/ line.kind = "graph" /\ C!GraphApplied(line.text)
       \/ line.kind = "fence" /\ C!FenceApplied(line.posts)
                              /\ ~FenceRaises(line.posts)
    /\ ax' = [g |-> G', parts |-> {}]
    /\ pc' = IF alive' THEN 1 ELSE 0
    /\ UNCHANGED <<screen, dirty>>

\* handle_msg on a line whose path returns or raises before draw_graph,
\* and the non-CTRL lines the loop skips: the axes are not touched.
ReadNoDraw ==
    /\ pc = 0 /\ alive /\ uart # <<>>
    /\ uart' = Tail(uart) /\ UNCHANGED sent
    /\ LET line == Head(uart) IN
       \/ line.kind = "noctrl" /\ UNCHANGED handler
       \/ line.kind = "other" /\ UNCHANGED handler
       \/ line.kind = "graph" /\ \/ C!GraphDuplicate(line.text)
                                 \/ C!GraphParseError(line.text)
                                 \/ C!GraphUnknownName(line.text)
                                 \/ C!GraphLocNoDims(line.text)
       \/ line.kind = "fence" /\ \/ C!FenceBeforeGraph(line.posts)
                                 \/ C!FenceMalformed(line.posts)
                                 \/ C!FenceApplied(line.posts)
                                    /\ FenceRaises(line.posts)
    /\ UNCHANGED display

\* One drawing call of draw_graph adds its layer to the axes.
DrawLayer ==
    /\ pc \in DOMAIN DrawSteps
    /\ ax' = [ax EXCEPT !.parts = @ \cup {DrawSteps[pc]}]
    /\ pc' = pc + 1
    /\ UNCHANGED <<uart, sent, handler, screen, dirty>>

\* Mutant: the plt.draw() call at the end of draw_graph is missing.
PltDrawMissing ==
    /\ pc = PLT_DRAW
    /\ pc' = 0
    /\ UNCHANGED <<uart, sent, handler, ax, screen, dirty>>

\* plt.draw() (line 258): ask the GUI for a repaint; handle_msg returns.
PltDraw ==
    /\ pc = PLT_DRAW
    /\ dirty' = TRUE
    /\ pc' = 0
    /\ UNCHANGED <<uart, sent, handler, ax, screen>>

-----------------------------------------------------------------------------
(* Main thread: the plt.show() event loop.                                 *)

\* The pending draw request is serviced: the figure is rendered from the
\* axes as they are now.
Repaint ==
    /\ dirty
    /\ screen' = ax
    /\ dirty' = FALSE
    /\ UNCHANGED <<uart, sent, handler, pc, ax>>

\* A window event (expose, resize) renders the figure unasked.
Expose ==
    /\ screen # ax
    /\ screen' = ax
    /\ UNCHANGED <<uart, sent, handler, pc, ax, dirty>>

\* Nothing to read or draw, or the parser thread is gone.
Idle ==
    /\ pc = 0 /\ (uart = <<>> \/ ~alive)
    /\ UNCHANGED vars

Init ==
    /\ C!Init
    /\ pc = 0
    /\ ax = Blank
    /\ screen = Blank
    /\ dirty = FALSE

Next ==
    \/ \E line \in Lines : C!DeviceWrite(line) /\ UNCHANGED display
    \/ ReadAndDraw
    \/ ReadNoDraw
    \/ DrawLayer
    \/ PltDraw
    \/ Repaint
    \/ Expose
    \/ Idle

\* The parser thread runs whenever it can; the event loop services every
\* draw request (draw_idle).  Window events come when the user acts: no
\* fairness.
Spec ==
    /\ Init /\ [][Next]_vars
    /\ WF_vars(ReadAndDraw) /\ WF_vars(ReadNoDraw)
    /\ WF_vars(DrawLayer) /\ WF_vars(PltDraw)
    /\ WF_vars(Repaint)

-----------------------------------------------------------------------------
(* Properties.                                                             *)

\* Whenever the parser has finished a line and no repaint request is
\* pending, the window shows the axes as they are: a repaint that caught
\* a half-drawn G (between ax.clear() and the last layer) has always been
\* followed by the plt.draw() request at the end of draw_graph, so a torn
\* frame never outlives the redraw it interrupted.
NoTornFrameAtRest ==
    (alive /\ pc = 0 /\ ~dirty) => screen = ax

\* Once the device has stopped and the parser is idle, the window comes
\* to show the complete drawing of the final G: every redraw ends with a
\* request that the event loop services after the last layer is drawn.
DisplaySettles ==
    <>[]((alive /\ pc = 0 /\ uart = <<>>) =>
            screen = IF G = None THEN Blank ELSE Frame(G))

=============================================================================
