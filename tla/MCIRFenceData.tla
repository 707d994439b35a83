--------------------------- MODULE MCIRFenceData ----------------------------
(***************************************************************************)
(* The inputs the model checks: two nodes, the DOT texts and fence lines  *)
(* below, as the firmware sends them.  RF and IR graphs over the two      *)
(* nodes in either direction, LOC graphs with all, some or no             *)
(* coordinates, a fence line naming one edge twice (beam set, then      *)
(* cleared by a later section), and the malformed inputs each handler    *)
(* branch is for.                                                          *)
(***************************************************************************)
CONSTANTS n1, n2, p1, p2, NoCoord, NoDims, Malformed

MCNodes == {n1, n2}
MCPos == {p1, p2}
MCDims == {<<1, 1>>, <<1, 2>>}

NoCoords == [n \in MCNodes |-> NoCoord]

Text(name, nodes, edges, coord, dims) ==
    [name |-> name, nodes |-> nodes, edges |-> edges, coord |-> coord,
     dims |-> dims, parses |-> TRUE]

TextRF12 == Text("RF", MCNodes, {<<n1, n2>>}, NoCoords, NoDims)
TextRF21 == Text("G", MCNodes, {<<n2, n1>>}, NoCoords, NoDims)
TextIR12 == Text("IR", MCNodes, {<<n1, n2>>}, NoCoords, NoDims)
TextLoc  == Text("LOC", MCNodes, {}, [n \in MCNodes |-> IF n = n1 THEN p1 ELSE p2], <<1, 1>>)
TextLocHalf == Text("LOC", MCNodes, {}, [NoCoords EXCEPT ![n1] = p1], <<1, 2>>)
TextLocNoDims == Text("LOC", {n1}, {}, [NoCoords EXCEPT ![n1] = p2], NoDims)
TextRFHalf == Text("RF", MCNodes, {<<n1, n2>>}, [NoCoords EXCEPT ![n1] = p1], NoDims)
TextEmpty == Text("RF", {}, {}, NoCoords, NoDims)
TextUnknown == Text("X", {n2}, {}, NoCoords, NoDims)
TextBroken == [TextIR12 EXCEPT !.parses = FALSE]

Post(n, st) == [node |-> n, status |-> st]

MCFences ==
    { <<Post(n1, 1), Post(n2, 0)>>,
      <<Post(n2, 1), Post(n1, 0)>>,
      <<Post(n1, 1), Post(n2, 2), Post(n1, 0), Post(n2, 0)>>,
      <<Post(n1, 3), Post(n2, 0)>>,
      <<>>,
      <<Post(n1, 1), Malformed>> }

MCLines ==
    {[kind |-> "graph", text |-> t] :
        t \in {TextRF12, TextRF21, TextIR12, TextLoc, TextLocHalf, TextLocNoDims,
               TextRFHalf, TextEmpty, TextUnknown, TextBroken}}
    \cup {[kind |-> "fence", posts |-> f] : f \in MCFences}
    \cup {[kind |-> "other"], [kind |-> "noctrl"]}

\* Lines none of whose handlers raises, whatever came before them.
MCWellFormedLines ==
    {[kind |-> "graph", text |-> t] : t \in {TextRF12, TextIR12}}
    \cup {[kind |-> "fence", posts |-> <<Post(n1, 1), Post(n2, 0)>>],
          [kind |-> "other"]}

=============================================================================
