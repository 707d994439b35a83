---------------------------- MODULE TopologyView ----------------------------
(***************************************************************************)
(* What the IR-fence viewer promises about the topology it shows, without *)
(* how control.py stores or merges it: the nodes and edges only grow, a    *)
(* graph line replaces the RF or IR link set by the edges it carries (or   *)
(* leaves both, for a LOC graph) and leaves the fence flags alone, and a   *)
(* fence line only changes which known edges have a beam or are breached. *)
(* The viewer may stop in the middle of an update, and then shows the     *)
(* topology as the update left it forever.  Coordinates are not part of   *)
(* this view (see CoordsFollowLastLoc in IRFenceControl).                 *)
(***************************************************************************)
CONSTANTS Nodes

VARIABLES nodes, edges, rf, ir, beam, breached, running

view == <<nodes, edges, rf, ir, beam, breached>>
vars == <<view, running>>

\* A graph with nodes N and edges E is merged in; its edges become the RF
\* links, the IR links, or neither.
GraphStep ==
    \E N \in SUBSET Nodes :
      \E E \in SUBSET (N \X N) :
        /\ nodes' = nodes \cup N
        /\ edges' = edges \cup E
        /\ \/ rf' = E /\ ir' = ir
           \/ ir' = E /\ rf' = rf
           \/ rf' = rf /\ ir' = ir
        /\ UNCHANGED <<beam, breached>>

\* A fence line sets beam and breached on edges already shown.
FenceStep ==
    /\ beam' \subseteq edges /\ breached' \subseteq edges
    /\ UNCHANGED <<nodes, edges, rf, ir>>

Update ==
    /\ running
    /\ GraphStep \/ FenceStep
    /\ UNCHANGED running

\* The viewer stops, before, after or in the middle of an update.
Stop ==
    /\ running
    /\ running' = FALSE
    /\ GraphStep \/ FenceStep \/ UNCHANGED view

Init ==
    /\ nodes = {} /\ edges = {}
    /\ rf = {} /\ ir = {} /\ beam = {} /\ breached = {}
    /\ running = TRUE

Next == Update \/ Stop

Spec == Init /\ [][Next]_vars

=============================================================================
