-------------------------- MODULE GraphProjection --------------------------
(***************************************************************************)
(* extractGraphData: the cells of a result are scanned once, in row order, *)
(* into a capped graph of nodes and edges (the tool's presentation meta),  *)
(* and capRenderData: the web client's own, smaller cap on what it draws.  *)
(*                                                                         *)
(* A step is one cell.  A path cell is the run of its node and edge        *)
(* elements; any other cell changes nothing.  A result may end after any   *)
(* cell, so what holds in every state holds of every projection.           *)
(***************************************************************************)
EXTENDS Naturals, Sequences, FiniteSets

CONSTANTS Ids,          \* node ids
          MaxNodes,     \* MAX_GRAPH_NODES
          MaxEdges,     \* MAX_GRAPH_EDGES
          RenderNodes,  \* RENDER_NODE_CAP
          RenderEdges,  \* RENDER_EDGE_CAP
          MaxCells      \* bound: cells in a result

ASSUME CapsAssumption ==
         /\ {MaxNodes, MaxEdges, RenderNodes, RenderEdges} \subseteq Nat \ {0}
         /\ RenderNodes < MaxNodes        \* 700 and 1000
ASSUME CellsAssumption == MaxCells \in Nat

VARIABLES nodes,         \* ids in the insertion order of the Map
          placeholders,  \* ids that stand for a node cell still to come
          edges,         \* <<source, target>> in the order of the cells
          truncated,
          nodeCells,     \* history: ids whose node cell was scanned
          edgeCells      \* history: how many edge cells were scanned

vars == <<nodes, placeholders, edges, truncated, nodeCells, edgeCells>>

NodeIds == {nodes[i] : i \in DOMAIN nodes}

TypeOK ==
  /\ nodes \in Seq(Ids)
  /\ placeholders \in SUBSET Ids
  /\ edges \in Seq(Ids \X Ids)
  /\ truncated \in BOOLEAN
  /\ nodeCells \in SUBSET Ids
  /\ edgeCells \in 0..MaxCells

Init ==
  /\ nodes = <<>>
  /\ placeholders = {}
  /\ edges = <<>>
  /\ truncated = FALSE
  /\ nodeCells = {}
  /\ edgeCells = 0

-----------------------------------------------------------------------------
(* addNode.  A real node is kept as it was; a placeholder is upgraded in   *)
(* place; but at the cap both a new node and an upgrade are refused.       *)
NodeKept(id) == id \in NodeIds \ placeholders

AddNodeSilently(id) ==
  /\ nodeCells' = nodeCells \cup {id}
  /\ IF NodeKept(id) \/ Len(nodes) >= MaxNodes
     THEN UNCHANGED <<nodes, placeholders, truncated>>
     ELSE /\ nodes' = IF id \in NodeIds THEN nodes ELSE Append(nodes, id)
          /\ placeholders' = placeholders \ {id}
          /\ UNCHANGED truncated
  /\ UNCHANGED <<edges, edgeCells>>

AddNode(id) ==
  /\ nodeCells' = nodeCells \cup {id}
  /\ \/ /\ NodeKept(id)
        /\ UNCHANGED <<nodes, placeholders, truncated>>
     \/ /\ ~NodeKept(id) /\ Len(nodes) >= MaxNodes
        /\ truncated' = TRUE
        /\ UNCHANGED <<nodes, placeholders>>
     \/ /\ ~NodeKept(id) /\ Len(nodes) < MaxNodes
        /\ nodes' = IF id \in NodeIds THEN nodes ELSE Append(nodes, id)
        /\ placeholders' = placeholders \ {id}
        /\ UNCHANGED truncated
  /\ UNCHANGED <<edges, edgeCells>>

(* ensureEndpoint: a missing endpoint is appended while there is room. *)
WithEndpoint(list, id) ==
  IF (\E i \in DOMAIN list : list[i] = id) \/ Len(list) >= MaxNodes THEN list ELSE Append(list, id)

EveryEndpointWaits(s, t, present) == placeholders \cup ({s, t} \cap present)

WaitingEndpoints(s, t, present) == placeholders \cup (({s, t} \cap present) \ NodeIds)

WithEdgeFlat(s, t) == edges \o <<s, t>>

WithEdge(s, t) == Append(edges, <<s, t>>)

(* addEdge: beyond the cap the cell is dropped; else its endpoints get     *)
(* placeholders, as far as the node cap has room for them.                 *)
AddEdge(s, t) ==
  /\ edgeCells < MaxCells
  /\ edgeCells' = edgeCells + 1
  /\ \/ /\ Len(edges) >= MaxEdges
        /\ truncated' = TRUE
        /\ UNCHANGED <<nodes, placeholders, edges>>
     \/ /\ Len(edges) < MaxEdges
        /\ nodes' = WithEndpoint(WithEndpoint(nodes, s), t)
        /\ placeholders' = WaitingEndpoints(s, t, NodeIds')
        /\ truncated' = (truncated \/ ~({s, t} \subseteq NodeIds'))
        /\ edges' = WithEdge(s, t)
  /\ UNCHANGED nodeCells

Next ==
  \/ \E id \in Ids : AddNode(id)
  \/ \E s, t \in Ids : AddEdge(s, t)

Spec == Init /\ [][Next]_vars

-----------------------------------------------------------------------------
(* capRenderData: all of it when it fits, else the first nodes and, of the *)
(* edges between them, the first ones.  An edge is drawn by its index.     *)
Fits == Len(nodes) <= RenderNodes /\ Len(edges) <= RenderEdges

RenderedNodes ==
  IF Fits THEN NodeIds ELSE {nodes[i] : i \in {j \in DOMAIN nodes : j <= RenderNodes}}

Drawable(i) == edges[i][1] \in RenderedNodes /\ edges[i][2] \in RenderedNodes

RenderedUnfiltered == {i \in DOMAIN edges : i <= RenderEdges}

RenderedEdges ==
  IF Fits THEN DOMAIN edges
  ELSE {i \in DOMAIN edges : Drawable(i) /\ Cardinality({j \in 1..i : Drawable(j)}) <= RenderEdges}

-----------------------------------------------------------------------------
(* The projection never outgrows its caps and no node is in it twice,      *)
(* however node, edge and placeholder arrive (addNode, ensureEndpoint).    *)
WithinCaps ==
  /\ Len(nodes) <= MaxNodes /\ Len(edges) <= MaxEdges
  /\ \A i, j \in DOMAIN nodes : nodes[i] = nodes[j] => i = j

(* What the projection lacks it says it lacks: unless truncated is set,    *)
(* every node cell is there as a real node, every edge cell is there, and  *)
(* every edge has both its endpoints.                                      *)
NothingLostSilently ==
  ~truncated =>
    /\ nodeCells \subseteq NodeIds \ placeholders
    /\ Len(edges) = edgeCells
    /\ \A i \in DOMAIN edges : {edges[i][1], edges[i][2]} \subseteq NodeIds

(* Only ids that no node cell described are placeholders, until the node   *)
(* cap is reached (addNode refuses the upgrade there).                     *)
PlaceholdersLackCells ==
  Len(nodes) < MaxNodes => placeholders = NodeIds \ nodeCells

(* The client never hands G6 an edge to a node it does not draw: an edge   *)
(* whose endpoint met the host's cap is caught by the client's own cap,    *)
(* which is smaller (capRenderData over extractGraphData).                 *)
NoDanglingDrawn ==
  \A i \in RenderedEdges : {edges[i][1], edges[i][2]} \subseteq RenderedNodes

=============================================================================
