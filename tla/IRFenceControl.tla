--------------------------- MODULE IRFenceControl ---------------------------
(***************************************************************************)
(* The parser thread of src/projects/irfence/control/control.py: it reads *)
(* lines from the UART device, strips the "CTRL: " prefix and hands each  *)
(* line to handle_msg, which merges DOT graphs ("digraph RF/IR/LOC ...")   *)
(* into the persistent graph G, applies fence status lines ("fence: ...") *)
(* to G's edges, and redraws G after each update.                          *)
(*                                                                         *)
(* A DOT text is abstracted to the record pydot + nx.from_pydot turn it   *)
(* into: its name, nodes, directed edges, node coordinates and the        *)
(* dim_x/dim_y graph attributes.  Boolean edge flags are sets of edges:   *)
(* bflag reads a missing flag as False, so "absent" and "False" are one.  *)
(* Exceptions the code does not catch end the parser thread (alive).      *)
(***************************************************************************)
EXTENDS Integers, Sequences, SequencesExt, FiniteSets

CONSTANTS
    Nodes,      \* node names that occur in DOT texts and fence lines
    None,       \* Python's None: G and prev_graph_str before the first graph
    NoCoord,    \* a node without x/y attributes
    NoDims,     \* a graph without dim_x/dim_y attributes
    Malformed,  \* a fence post that post.split(':') / int(status) reject
    Lines,      \* the lines the device may send
    Dedup,      \* the -d/--dedup command-line flag
    MaxLines,   \* bound on the number of lines the device sends
    UartCap,    \* bound on the lines buffered in the device
    RawTty,     \* the tty is in raw mode: one read() may return several lines
    Pos,        \* node coordinates (x, y)
    Dims        \* graph dimensions (dim_x, dim_y)

ASSUME Dedup \in BOOLEAN /\ MaxLines \in Nat /\ UartCap \in Nat \ {0} /\ RawTty \in BOOLEAN

VARIABLES
    uart,          \* lines written by the device, not yet read from the fd
    stdio,         \* lines read from the fd into fin's buffer, not yet returned
    sent,          \* lines written so far (bounded by MaxLines)
    G,             \* the global graph G, or None
    prevGraphStr,  \* prev_graph_str
    alive,         \* the parser thread has not died of an exception
    \* history variables, for stating properties only:
    lastRF,        \* edges of the last RF/G graph applied
    lastIR,        \* edges of the last IR graph applied
    lastLoc,       \* the last LOC text applied, or None
    lastFence      \* sections of the last fence line applied

handler == <<G, prevGraphStr, alive, lastRF, lastIR, lastLoc, lastFence>>
vars == <<uart, stdio, sent, handler>>

Edges == Nodes \X Nodes
STATUS_NONE == 0
STATUS_ACTIVE == 1
STATUS_BREACHED == 2

\* The keys of the updaters dictionary (lines 87-92).
UpdaterNames == {"RF", "G", "IR", "LOC"}

-----------------------------------------------------------------------------
(* Graphs.                                                                 *)

\* nx.from_pydot(pydot.graph_from_dot_data(text)): a fresh graph whose
\* edges carry none of the rflink/irlink/beam/breached flags.
FromDot(t) ==
    [nodes |-> t.nodes, edges |-> t.edges, coord |-> t.coord, dims |-> t.dims,
     rf |-> {}, ir |-> {}, beam |-> {}, breached |-> {}]

\* Mutant: G_old takes G_new's nodes and edges instead of their union.
SyncGraphsReplace(old, new) ==
    [old EXCEPT !.nodes = new.nodes, !.edges = new.edges]

\* sync_graphs: add the nodes and edges of G_new that G_old lacks.
SyncGraphs(old, new) ==
    [old EXCEPT !.nodes = @ \cup new.nodes, !.edges = @ \cup new.edges]

\* Mutant: the loop clearing rflink (lines 51-52) is missing.
UpdateRfNoReset(old, new) ==
    [SyncGraphs(old, new) EXCEPT !.rf = @ \cup new.edges]

\* update_rf: sync, clear rflink on every edge of G_old, set it on the
\* edges of G_new.
UpdateRf(old, new) ==
    [SyncGraphs(old, new) EXCEPT !.rf = new.edges]

\* update_ir: the same with irlink.
UpdateIr(old, new) ==
    [SyncGraphs(old, new) EXCEPT !.ir = new.edges]

\* update_loc with dim_x/dim_y present: sync, copy the dimensions, delete
\* x/y of every node of G_old, then copy x/y from the nodes of G_new.
\* When G_old and G_new are one object (the first graph, line 283) the
\* deletion has already removed the coordinates the copy reads.
UpdateLoc(old, new, aliased) ==
    LET cleared == [n \in Nodes |-> NoCoord]
        source  == IF aliased THEN cleared ELSE new.coord
    IN  [SyncGraphs(old, new) EXCEPT !.dims = new.dims, !.coord = source]

\* updaters[name](G, G_new) for a name that is a key of updaters.
ApplyUpdater(name, old, new, aliased) ==
    CASE name \in {"RF", "G"} -> UpdateRf(old, new)
      [] name = "IR"          -> UpdateIr(old, new)
      [] name = "LOC"         -> UpdateLoc(old, new, aliased)

Located(g) == {n \in g.nodes : g.coord[n] # NoCoord}
Unlocated(g) == g.nodes \ Located(g)

\* draw_graph with both located and unlocated nodes (lines 193-220): the
\* axes span -dim..dim and the unlocated nodes are put in a row, the k-th
\* at x = y_lim[0] + k * x_step with x_step = 2 * dim_x / (n + 2).  The
\* result is the set of those x values multiplied by n + 2, so that they
\* stay integers.
RowXScaled(g) ==
    LET n == Cardinality(Unlocated(g))
    IN  {-g.dims[2] * (n + 2) + k * 2 * g.dims[1] : k \in 1 .. n}

\* draw_graph raises TypeError at line 213 (x_lim is None) when some nodes
\* have coordinates, some do not, and G has no dim_x/dim_y.
DrawFails(g) ==
    /\ Located(g) # {}
    /\ Unlocated(g) # {}
    /\ g.dims = NoDims

-----------------------------------------------------------------------------
(* Fence lines.                                                            *)

\* sections: consecutive posts (node_i, node_i+1) with node_i's status.
Sections(posts) ==
    [i \in 1 .. Len(posts) - 1 |->
        [edge |-> <<posts[i].node, posts[i + 1].node>>, status |-> posts[i].status]]

\* Mutant: the edge is looked up with a default (no KeyError).
ApplySectionUnchecked(acc, sec) ==
    LET e == sec.edge
    IN  CASE sec.status = STATUS_NONE     -> [acc EXCEPT !.g.beam = @ \ {e}]
          [] sec.status = STATUS_ACTIVE   -> [acc EXCEPT !.g.beam = @ \cup {e}]
          [] sec.status = STATUS_BREACHED -> [acc EXCEPT !.g.breached = @ \cup {e}]
          [] OTHER                        -> acc

\* Mutant: a NONE section does not clear the beam (the branch at line
\* 338 is missing), which shows only on an edge named twice in a line.
ApplySectionNoneIgnored(acc, sec) ==
    LET e == sec.edge
    IN  CASE acc.failed                   -> acc
          [] e \notin acc.g.edges         -> [acc EXCEPT !.failed = TRUE]
          [] sec.status = STATUS_ACTIVE   -> [acc EXCEPT !.g.beam = @ \cup {e}]
          [] sec.status = STATUS_BREACHED -> [acc EXCEPT !.g.breached = @ \cup {e}]
          [] OTHER                        -> acc

\* One iteration of the loop at lines 329-343.  G.edge[out][in] raises
\* KeyError when the pair is not an edge of G; the loop stops there.
ApplySection(acc, sec) ==
    LET g == acc.g
        e == sec.edge
    IN  CASE acc.failed                   -> acc
          [] e \notin g.edges             -> [acc EXCEPT !.failed = TRUE]
          [] sec.status = STATUS_NONE     -> [acc EXCEPT !.g.beam = @ \ {e}]
          [] sec.status = STATUS_ACTIVE   -> [acc EXCEPT !.g.beam = @ \cup {e}]
          [] sec.status = STATUS_BREACHED -> [acc EXCEPT !.g.breached = @ \cup {e}]
          [] OTHER                        -> acc

\* Mutant: the loop clearing beam and breached (lines 325-327) is missing.
ApplyFenceNoReset(g, secs) ==
    FoldLeft(ApplySection, [g |-> g, failed |-> FALSE], secs)

\* Lines 325-343: clear beam and breached on every edge, then apply the
\* sections in order.
ApplyFence(g, secs) ==
    FoldLeft(ApplySection, [g |-> [g EXCEPT !.beam = {}, !.breached = {}],
                            failed |-> FALSE], secs)

-----------------------------------------------------------------------------
(* handle_msg, graph branch (lines 265-289); t is graph_str, the line with *)
(* the "RF: " prefix removed.                                              *)

\* Dedup is on and the text equals prev_graph_str: nothing happens.
GraphDuplicate(t) ==
    /\ Dedup /\ t = prevGraphStr
    /\ UNCHANGED handler

Fresh(t) == ~(Dedup /\ t = prevGraphStr)

\* pydot/networkx raise: the exception is printed and the line dropped.
GraphParseError(t) ==
    /\ Fresh(t) /\ ~t.parses
    /\ UNCHANGED handler

\* G is set to G_new if it was None, then updaters[G_new.name] raises
\* KeyError: nothing catches it and the parser thread ends.
GraphUnknownName(t) ==
    /\ Fresh(t) /\ t.parses /\ t.name \notin UpdaterNames
    /\ G' = IF G = None THEN FromDot(t) ELSE G
    /\ alive' = FALSE
    /\ UNCHANGED <<prevGraphStr, lastRF, lastIR, lastLoc, lastFence>>

\* update_loc syncs, then new_attrs['dim_x'] raises KeyError.
GraphLocNoDims(t) ==
    /\ Fresh(t) /\ t.parses /\ t.name = "LOC" /\ t.dims = NoDims
    /\ G' = SyncGraphs(IF G = None THEN FromDot(t) ELSE G, FromDot(t))
    /\ alive' = FALSE
    /\ UNCHANGED <<prevGraphStr, lastRF, lastIR, lastLoc, lastFence>>

\* The updater runs, then draw_graph; prev_graph_str is set only if
\* draw_graph returns.
GraphApplied(t) ==
    /\ Fresh(t) /\ t.parses /\ t.name \in UpdaterNames
    /\ ~(t.name = "LOC" /\ t.dims = NoDims)
    /\ LET new == FromDot(t)
           old == IF G = None THEN new ELSE G
           g   == ApplyUpdater(t.name, old, new, G = None)
       IN  /\ G' = g
           /\ alive' = ~DrawFails(g)
           /\ prevGraphStr' = IF DrawFails(g) THEN prevGraphStr ELSE t
    /\ lastRF' = IF t.name \in {"RF", "G"} THEN t.edges ELSE lastRF
    /\ lastIR' = IF t.name = "IR" THEN t.edges ELSE lastIR
    /\ lastLoc' = IF t.name = "LOC" THEN t ELSE lastLoc
    /\ UNCHANGED lastFence

GraphMsg(t) ==
    \/ GraphDuplicate(t)
    \/ GraphParseError(t)
    \/ GraphUnknownName(t)
    \/ GraphLocNoDims(t)
    \/ GraphApplied(t)

-----------------------------------------------------------------------------
(* handle_msg, fence branch (lines 291-347).                              *)

\* The truth value of G: G is not None and has a node (len(G) > 0).
GraphIsTrue == IF G = None THEN FALSE ELSE G.nodes # {}

\* "if not G": G is None, or a graph with no nodes.
FenceBeforeGraph(posts) ==
    /\ ~GraphIsTrue
    /\ UNCHANGED handler

\* post.split(':') or int(status) raises ValueError before G is touched.
FenceMalformed(posts) ==
    /\ GraphIsTrue
    /\ \E i \in DOMAIN posts : posts[i] = Malformed
    /\ alive' = FALSE
    /\ UNCHANGED <<G, prevGraphStr, lastRF, lastIR, lastLoc, lastFence>>

\* Flags are reset and the sections applied; a section that is not an
\* edge of G raises KeyError and leaves the sections before it applied.
FenceApplied(posts) ==
    /\ GraphIsTrue
    /\ \A i \in DOMAIN posts : posts[i] # Malformed
    /\ LET r == ApplyFence(G, Sections(posts))
       IN  /\ G' = r.g
           /\ alive' = ~r.failed /\ ~DrawFails(r.g)
           /\ lastFence' = IF r.failed THEN lastFence ELSE Sections(posts)
    /\ UNCHANGED <<prevGraphStr, lastRF, lastIR, lastLoc>>

FenceMsg(posts) ==
    \/ FenceBeforeGraph(posts)
    \/ FenceMalformed(posts)
    \/ FenceApplied(posts)

\* handle_msg(line): a graph, a fence line, or "unexpected msg".
HandleMsg(line) ==
    \/ line.kind = "graph" /\ GraphMsg(line.text)
    \/ line.kind = "fence" /\ FenceMsg(line.posts)
    \/ line.kind = "other" /\ UNCHANGED handler

-----------------------------------------------------------------------------
(* The device and the parse loop (lines 351-371).                          *)

\* The device writes a line.
DeviceWrite(line) ==
    /\ sent < MaxLines /\ Len(uart) < UartCap
    /\ uart' = Append(uart, line)
    /\ sent' = sent + 1
    /\ UNCHANGED <<stdio, handler>>

\* fin.readline() on the file object of open(args.dev): the next line of
\* its stdio buffer or, when that is empty, one read() of the fd, whose
\* first line is returned and, on a raw-mode tty, whose further lines stay
\* in the buffer.  Each outcome is <<line, stdio', uart'>>.
Readline ==
    IF stdio # <<>>
    THEN {<<Head(stdio), Tail(stdio), uart>>}
    ELSE {<<Head(uart), SubSeq(uart, 2, k), SubSeq(uart, k + 1, Len(uart))>> :
            k \in IF RawTty THEN 1 .. Len(uart) ELSE {1}}

\* select([fin]) reports the fd readable (it cannot see fin's buffer) and
\* readline returns a "CTRL: " line: it is handed to handle_msg.
ReadCtrlLine ==
    /\ alive /\ uart # <<>>
    /\ \E r \in Readline :
          /\ r[1].kind # "noctrl"
          /\ stdio' = r[2] /\ uart' = r[3]
          /\ HandleMsg(r[1])
    /\ UNCHANGED sent

\* Any other line is taken for EOF: it is dropped and the loop sleeps.
ReadOtherLine ==
    /\ alive /\ uart # <<>>
    /\ \E r \in Readline :
          /\ r[1].kind = "noctrl"
          /\ stdio' = r[2] /\ uart' = r[3]
    /\ UNCHANGED <<sent, handler>>

\* select times out on an idle fd, or the parser thread is gone and only
\* the main thread's plt.show() event loop runs.
Idle ==
    /\ uart = <<>> \/ ~alive
    /\ UNCHANGED vars

Init ==
    /\ uart = <<>>
    /\ stdio = <<>>
    /\ sent = 0
    /\ G = None
    /\ prevGraphStr = None
    /\ alive = TRUE
    /\ lastRF = {}
    /\ lastIR = {}
    /\ lastLoc = None
    /\ lastFence = <<>>

Next ==
    \/ \E line \in Lines : DeviceWrite(line)
    \/ ReadCtrlLine
    \/ ReadOtherLine
    \/ Idle

\* The parser thread runs whenever it can: it is a plain thread blocked
\* only in select, which returns as soon as the device has a line.
Spec == Init /\ [][Next]_vars /\ WF_vars(ReadCtrlLine) /\ WF_vars(ReadOtherLine)

-----------------------------------------------------------------------------
(* Properties.                                                             *)

GraphRecs ==
    [nodes: SUBSET Nodes, edges: SUBSET Edges, coord: [Nodes -> Pos \cup {NoCoord}],
     dims: Dims \cup {NoDims}, rf: SUBSET Edges, ir: SUBSET Edges,
     beam: SUBSET Edges, breached: SUBSET Edges]

\* G is None or a graph whose edges join its nodes, whose flags lie on its
\* edges and whose coordinates belong to its nodes: sync_graphs adds the
\* endpoints of every edge it adds, and flags are set only on edges
\* G.edge[u][v] finds.
TypeOK ==
    /\ \/ G = None
       \/ /\ G \in GraphRecs
          /\ G.edges \subseteq G.nodes \X G.nodes
          /\ G.rf \cup G.ir \cup G.beam \cup G.breached \subseteq G.edges
          /\ \A n \in Nodes \ G.nodes : G.coord[n] = NoCoord
    /\ alive \in BOOLEAN
    /\ sent \in 0 .. MaxLines
    /\ Len(uart) <= UartCap
    /\ Len(stdio) < UartCap

\* The topology G shows, field by field; nothing before the first graph.
Shown(f) == IF G = None THEN {} ELSE G[f]

TV == INSTANCE TopologyView WITH
        nodes <- Shown("nodes"), edges <- Shown("edges"),
        rf <- Shown("rf"), ir <- Shown("ir"),
        beam <- Shown("beam"), breached <- Shown("breached"),
        running <- alive

\* handle_msg implements the viewer's promise (TopologyView): each line
\* only adds nodes and edges, replaces the RF or IR links by the edges of
\* one graph without touching the fence flags, or sets fence flags on
\* edges G has, and an exception (the updaters, a fence KeyError after
\* some sections, draw_graph) freezes G as the update left it.
TopologyRefinement == TV!Spec

\* update_rf/update_ir: an edge is drawn as an RF (IR) link exactly when
\* it is an edge of the last RF (IR) graph received, however many graphs
\* of the other kinds, fences and duplicates came between.
FlagsFollowLastGraph ==
    G # None => G.rf = lastRF /\ G.ir = lastIR

\* What a fence line means, stated over its sections rather than by the
\* loop: a section's edge has a beam when its last NONE/ACTIVE section is
\* ACTIVE, and is breached when any section of it is BREACHED.
BeamOf(secs) ==
    {secs[i].edge : i \in {i \in DOMAIN secs :
        /\ secs[i].status = STATUS_ACTIVE
        /\ \A j \in DOMAIN secs :
              (j > i /\ secs[j].edge = secs[i].edge)
                  => secs[j].status \notin {STATUS_NONE, STATUS_ACTIVE}}}
BreachedOf(secs) ==
    {secs[i].edge : i \in {i \in DOMAIN secs : secs[i].status = STATUS_BREACHED}}

\* While the parser runs, the beam and breached flags of G are those of
\* the last fence line alone: earlier fence lines leave nothing behind,
\* and graph updates in between neither set nor clear them.
FenceFollowsLastFence ==
    (alive /\ G # None) =>
        /\ G.beam = BeamOf(lastFence)
        /\ G.breached = BreachedOf(lastFence)

-----------------------------------------------------------------------------
(* Properties the code does not have (violation runs).                     *)

\* update_loc: once a LOC graph has been applied, every node it gives
\* coordinates has those coordinates in G, until the next LOC graph.
CoordsFollowLastLoc ==
    (alive /\ lastLoc # None) =>
        \A n \in lastLoc.nodes :
            lastLoc.coord[n] # NoCoord => G.coord[n] = lastLoc.coord[n]

\* draw_graph places every unlocated node inside the axis limits it has
\* just set from dim_x/dim_y.
UnlocatedInView ==
    (alive /\ G # None /\ Located(G) # {} /\ Unlocated(G) # {}) =>
        LET n == Cardinality(Unlocated(G))
        IN  \A x \in RowXScaled(G) :
                -G.dims[1] * (n + 2) <= x /\ x <= G.dims[1] * (n + 2)

\* The lines written and not yet handed back by readline.
Pending == stdio \o uart

\* Every line the device writes is read eventually, so later graphs and
\* fence states still reach the display: malformed lines are tolerated,
\* and select's timeout loop empties fin's buffer as well as the fd.
LinesAreConsumed ==
    (Pending # <<>>) ~> (Pending = <<>>)

=============================================================================
