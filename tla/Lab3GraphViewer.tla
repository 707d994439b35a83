--------------------------- MODULE Lab3GraphViewer ---------------------------
(***************************************************************************)
(* The live topology viewer of lab3 (src/projects/lab3/graph/graph.py).   *)
(* The device prints its topology again and again as a DOT block, one    *)
(* statement per line:                                                     *)
(*     graph G {        (an "open" line)                                   *)
(*       a -- b;        (one "body" line per node or edge statement)       *)
(*     }                (a "close" line)                                   *)
(* with other output ("noise") between blocks.  FuncAnimation calls       *)
(* update() on the GUI thread, which reads one line per call: "graph G"   *)
(* opens the temporary DOT file, every line is appended while it is open, *)
(* and "}" closes it, reads it back and redraws if its text changed.      *)
(*                                                                         *)
(* A graph is abstracted to the set of its statements; a line to its kind *)
(* and statement.  The temporary file is the sequence of lines written.   *)
(***************************************************************************)
EXTENDS Integers, Sequences, SequencesExt, FiniteSets

CONSTANTS Stmts,      \* the statements the device's graphs are made of
          Graphs,     \* the graphs the device may print
          None,       \* fout is None
          NoParse,    \* the text read back is not a DOT graph
          MaxPrints,  \* blocks and noise lines the device prints after the first
          MidStream   \* the viewer may open the device in the middle of a block

VARIABLES uart,       \* lines printed by the device and not yet read
          sent,       \* blocks and noise lines printed
          lastSent,   \* history: the graph of the last whole block printed,
                      \* {} (nothing to draw) before the first
          fout,       \* None, or the lines written to the open temp file
          last_graph, \* the text of the last file read back
          shown,      \* the graph on the axes
          alive       \* FuncAnimation still calls update()

vars == <<uart, sent, lastSent, fout, last_graph, shown, alive>>

OpenLine  == [kind |-> "open"]
CloseLine == [kind |-> "close"]
NoiseLine == [kind |-> "noise"]
BodyLine(s) == [kind |-> "body", stmt |-> s]
Lines == {OpenLine, CloseLine, NoiseLine} \cup {BodyLine(s) : s \in Stmts}

\* The lines the device prints for graph g.
Block(g) ==
    <<OpenLine>> \o [i \in 1 .. Cardinality(g) |-> BodyLine(SetToSeq(g)[i])]
                 \o <<CloseLine>>

\* pydot.graph_from_dot_file and nx.from_pydot (lines 47-48): a file that
\* is one block parses to its statements; anything else does not parse.
Parse(text) ==
    IF /\ Len(text) >= 2
       /\ text[1] = OpenLine /\ Last(text) = CloseLine
       /\ \A i \in 2 .. Len(text) - 1 : text[i].kind = "body"
    THEN {text[i].stmt : i \in 2 .. Len(text) - 1}
    ELSE NoParse

-----------------------------------------------------------------------------
(* Device.                                                                *)

\* The device prints the topology as one block.
PrintGraph(g) ==
    /\ sent < MaxPrints
    /\ uart' = uart \o Block(g)
    /\ sent' = sent + 1
    /\ lastSent' = g
    /\ UNCHANGED <<fout, last_graph, shown, alive>>

\* The device prints something that is not a graph.
PrintNoise ==
    /\ sent < MaxPrints
    /\ uart' = Append(uart, NoiseLine)
    /\ sent' = sent + 1
    /\ UNCHANGED <<lastSent, fout, last_graph, shown, alive>>

-----------------------------------------------------------------------------
(* update(i), lines 28-51.                                                 *)

\* An exception escapes update(): whether FuncAnimation is called again
\* depends on the GUI backend's timer, so both outcomes are possible.
Raise == alive' \in BOOLEAN

\* Mutant: a file is opened for any line when none is open.
WrittenLazyOpen(line) ==
    LET f == IF line = OpenLine \/ fout = None THEN <<>> ELSE fout
    IN  Append(f, line)

\* The steps of update() before the "}" test: "graph G" opens (and
\* truncates) the temp file, and an open file gets the line.
Written(line) ==
    LET f == IF line = OpenLine THEN <<>> ELSE fout
    IN  IF f = None THEN None ELSE Append(f, line)

\* A line that is not "}".
UpdateLine(line) ==
    /\ line # CloseLine
    /\ fout' = Written(line)
    /\ UNCHANGED <<last_graph, shown, alive>>

\* "}" with no file open: fout.close() on None raises AttributeError
\* (line 40).
UpdateCloseNoFile ==
    /\ Written(CloseLine) = None
    /\ Raise
    /\ UNCHANGED <<fout, last_graph, shown>>

\* Mutant: "}" is tested before the line is written, so the file read
\* back lacks its closing brace.
UpdateCloseBeforeWrite ==
    LET new_graph == fout
    IN  /\ Written(CloseLine) # None
        /\ fout' = None
        /\ IF last_graph # new_graph
           THEN /\ last_graph' = new_graph
                /\ IF Parse(new_graph) = NoParse
                   THEN Raise /\ UNCHANGED shown
                   ELSE shown' = Parse(new_graph) /\ UNCHANGED alive
           ELSE UNCHANGED <<last_graph, shown, alive>>

\* "}" closes the file and reads it back; a changed text is drawn.  A text
\* pydot cannot parse makes from_pydot raise after last_graph was set.
UpdateClose ==
    LET new_graph == Written(CloseLine)
    IN  /\ new_graph # None
        /\ fout' = None
        /\ IF last_graph # new_graph
           THEN /\ last_graph' = new_graph
                /\ IF Parse(new_graph) = NoParse
                   THEN Raise /\ UNCHANGED shown
                   ELSE shown' = Parse(new_graph) /\ UNCHANGED alive
           ELSE UNCHANGED <<last_graph, shown, alive>>

\* One call of update(): fin.readline() takes the next line (it blocks
\* until the device prints one).
Update ==
    /\ alive /\ uart # <<>>
    /\ uart' = Tail(uart)
    /\ LET line == Head(uart)
       IN  \/ UpdateLine(line)
           \/ line = CloseLine /\ UpdateCloseNoFile
           \/ line = CloseLine /\ UpdateClose
    /\ UNCHANGED <<sent, lastSent>>

\* The device has stopped and everything is read, or the animation is over.
Idle ==
    /\ sent = MaxPrints /\ (uart = <<>> \/ ~alive)
    /\ UNCHANGED vars

\* The viewer opens the device at the start of a block or, with
\* MidStream, anywhere inside the first block it sees.
Init ==
    /\ \E g \in Graphs :
         \E k \in (IF MidStream THEN 1 .. Len(Block(g)) ELSE {1}) :
            /\ uart = SubSeq(Block(g), k, Len(Block(g)))
            /\ lastSent = IF k = 1 THEN g ELSE {}
    /\ sent = 0
    /\ fout = None
    /\ last_graph = <<>>
    /\ shown = {}
    /\ alive = TRUE

Next ==
    \/ \E g \in Graphs : PrintGraph(g)
    \/ PrintNoise
    \/ Update
    \/ Idle

\* The animation timer calls update() again and again, and the device
\* keeps printing until it has printed MaxPrints blocks.
Spec ==
    /\ Init /\ [][Next]_vars
    /\ WF_vars(Update)
    /\ WF_vars(\E g \in Graphs : PrintGraph(g))

-----------------------------------------------------------------------------
(* Properties.                                                             *)

TypeOK ==
    /\ uart \in Seq(Lines)
    /\ fout = None \/ (fout \in Seq(Lines) /\ fout # <<>> /\ fout[1] = OpenLine)
    /\ last_graph \in Seq(Lines)
    /\ shown \in SUBSET Stmts
    /\ alive \in BOOLEAN

\* The viewer is live: once the device has stopped printing, the axes come
\* to show the graph of its last block, whatever blocks, repeats and
\* noise came before (update(), the "}" branch and last_graph).
DisplayFollowsDevice == <>[](shown = lastSent)

\* The viewer fails only by stopping: as long as update() is still being
\* called, the axes come to show the graph of the device's last block,
\* also when the viewer opened the device in the middle of a block.
DisplayFollowsWhileAlive == <>[](alive => shown = lastSent)

=============================================================================
