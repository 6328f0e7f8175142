-------------------------- MODULE GraphViewProofs --------------------------
(***************************************************************************)
(* What extractGraphData and capRenderData keep, for all caps, ids and     *)
(* results (ProjectionInv), and the cards of a conversation and the way of *)
(* a graph to the screen, for any number of turns and events: what the     *)
(* log, the engine's contexts, React's effects and the browser keep        *)
(* together, and that the parts of GraphView do not disturb each other.    *)
(***************************************************************************)
EXTENDS GraphView, FiniteSetTheorems, SequenceTheorems, WellFoundedInduction, TLAPS

-----------------------------------------------------------------------------
IdsIn(list) == {list[i] : i \in DOMAIN list}

NoRepeats(list) == \A i, j \in DOMAIN list : list[i] = list[j] => i = j

(* Until the node list is full every node cell and every endpoint is in it,*)
(* also when edges were dropped.                                           *)
Anchored ==
  Len(nodes) < MaxNodes =>
    /\ nodeCells \subseteq NodeIds
    /\ \A i \in DOMAIN edges : {edges[i][1], edges[i][2]} \subseteq NodeIds

ProjectionInv ==
  /\ TypeOK
  /\ WithinCaps
  /\ placeholders \subseteq NodeIds
  /\ Anchored
  /\ NothingLostSilently
  /\ PlaceholdersLackCells

LEMMA AppendFacts ==
  ASSUME NEW S, NEW list \in Seq(S), NEW x \in S
  PROVE  /\ Append(list, x) \in Seq(S)
         /\ Len(Append(list, x)) = Len(list) + 1
         /\ DOMAIN list = 1..Len(list)
         /\ DOMAIN Append(list, x) = 1..(Len(list) + 1)
         /\ \A i \in 1..Len(list) : Append(list, x)[i] = list[i]
         /\ Append(list, x)[Len(list) + 1] = x
         /\ Len(list) \in Nat
OBVIOUS

LEMMA AppendIds ==
  ASSUME NEW list \in Seq(Ids), NEW id \in Ids
  PROVE  IdsIn(Append(list, id)) = IdsIn(list) \cup {id}
<1>1. \A i \in DOMAIN list : i \in DOMAIN Append(list, id) /\ Append(list, id)[i] = list[i]
  BY AppendFacts
<1>2. Len(list) + 1 \in DOMAIN Append(list, id)
  BY AppendFacts
<1>3. \A i \in DOMAIN Append(list, id) : i \in DOMAIN list \/ i = Len(list) + 1
  BY AppendFacts
<1>4. Append(list, id)[Len(list) + 1] = id
  BY AppendFacts
<1>. QED
  BY <1>1, <1>2, <1>3, <1>4 DEF IdsIn

LEMMA AppendNoRepeats ==
  ASSUME NEW list \in Seq(Ids), NEW id \in Ids, id \notin IdsIn(list), NoRepeats(list)
  PROVE  NoRepeats(Append(list, id))
<1> SUFFICES ASSUME NEW i \in DOMAIN Append(list, id), NEW j \in DOMAIN Append(list, id),
                    Append(list, id)[i] = Append(list, id)[j]
             PROVE  i = j
  BY DEF NoRepeats
<1>1. \A k \in DOMAIN list : list[k] # id
  BY DEF IdsIn
<1>2. \A k \in DOMAIN Append(list, id) :
        \/ k \in DOMAIN list /\ Append(list, id)[k] = list[k]
        \/ k = Len(list) + 1 /\ Append(list, id)[k] = id
  BY AppendFacts
<1>. QED
  BY <1>1, <1>2 DEF NoRepeats

(* ensureEndpoint adds at most the endpoint, and only skips it at the cap. *)
LEMMA EndpointFacts ==
  ASSUME NEW list \in Seq(Ids), NEW id \in Ids, Len(list) <= MaxNodes, NoRepeats(list)
  PROVE  /\ WithEndpoint(list, id) \in Seq(Ids)
         /\ Len(list) <= Len(WithEndpoint(list, id)) /\ Len(WithEndpoint(list, id)) <= MaxNodes
         /\ NoRepeats(WithEndpoint(list, id))
         /\ IdsIn(list) \subseteq IdsIn(WithEndpoint(list, id))
         /\ IdsIn(WithEndpoint(list, id)) \subseteq IdsIn(list) \cup {id}
         /\ id \notin IdsIn(WithEndpoint(list, id)) => Len(WithEndpoint(list, id)) = MaxNodes
<1>1. MaxNodes \in Nat /\ Len(list) \in Nat
  BY CapsAssumption
<1>2. CASE id \in IdsIn(list)
  BY <1>1, <1>2 DEF WithEndpoint, IdsIn
<1>3. CASE id \notin IdsIn(list) /\ Len(list) >= MaxNodes
  BY <1>1, <1>3 DEF WithEndpoint
<1>4. CASE id \notin IdsIn(list) /\ Len(list) < MaxNodes
  <2>1. WithEndpoint(list, id) = Append(list, id)
    BY <1>1, <1>4 DEF WithEndpoint, IdsIn
  <2>2. /\ Append(list, id) \in Seq(Ids)
        /\ Len(Append(list, id)) = Len(list) + 1
    BY AppendFacts
  <2>. QED
    BY <1>1, <1>4, <2>1, <2>2, AppendIds, AppendNoRepeats
<1>. QED
  BY <1>1, <1>2, <1>3, <1>4

LEMMA AddNodeKeeps ==
  ASSUME ProjectionInv, NEW id \in Ids, AddNode(id)
  PROVE  ProjectionInv'
<1>0. /\ nodes \in Seq(Ids) /\ Len(nodes) \in Nat /\ MaxNodes \in Nat /\ Len(nodes) <= MaxNodes
      /\ edges' = edges /\ edgeCells' = edgeCells /\ nodeCells' = nodeCells \cup {id}
      /\ NodeIds = IdsIn(nodes) /\ NodeIds' = IdsIn(nodes')
  BY CapsAssumption DEF ProjectionInv, TypeOK, WithinCaps, AddNode, NodeIds, IdsIn
<1>1. CASE NodeKept(id)
  <2>1. nodes' = nodes /\ placeholders' = placeholders /\ truncated' = truncated
    BY <1>1 DEF AddNode
  <2>2. id \in NodeIds /\ id \notin placeholders /\ NodeIds' = NodeIds
    BY <1>1, <2>1 DEF NodeKept, NodeIds
  <2>3. Len(nodes) < MaxNodes => id \in nodeCells
    BY <2>2 DEF ProjectionInv, PlaceholdersLackCells
  <2>. QED
    BY <1>0, <2>1, <2>2, <2>3 DEF ProjectionInv, TypeOK, WithinCaps, Anchored,
       NothingLostSilently, PlaceholdersLackCells
<1>2. CASE ~NodeKept(id) /\ Len(nodes) >= MaxNodes
  <2>1. nodes' = nodes /\ placeholders' = placeholders /\ truncated' = TRUE
    BY <1>0, <1>2 DEF AddNode
  <2>. QED
    BY <1>0, <1>2, <2>1 DEF ProjectionInv, TypeOK, WithinCaps, Anchored,
       NothingLostSilently, PlaceholdersLackCells, NodeIds
<1>3. CASE ~NodeKept(id) /\ Len(nodes) < MaxNodes
  <2>1. /\ nodes' = IF id \in NodeIds THEN nodes ELSE Append(nodes, id)
        /\ placeholders' = placeholders \ {id}
        /\ truncated' = truncated
    BY <1>0, <1>3 DEF AddNode
  <2>2. NodeIds' = NodeIds \cup {id}
    BY <1>0, <2>1, AppendIds
  <2>3. nodes' \in Seq(Ids) /\ Len(nodes) <= Len(nodes') /\ Len(nodes') <= MaxNodes
    BY <1>0, <1>3, <2>1, AppendFacts
  <2>4. NoRepeats(nodes')
    <3>1. NoRepeats(nodes)
      BY DEF ProjectionInv, WithinCaps, NoRepeats
    <3>. QED
      BY <1>0, <2>1, <3>1, AppendNoRepeats
  <2>5. PlaceholdersLackCells'
    <3>1. placeholders = NodeIds \ nodeCells
      BY <1>3 DEF ProjectionInv, PlaceholdersLackCells
    <3>. QED
      BY <1>0, <2>1, <2>2, <3>1 DEF PlaceholdersLackCells
  <2>6. TypeOK' /\ WithinCaps'
    BY <1>0, <2>1, <2>3, <2>4 DEF ProjectionInv, TypeOK, WithinCaps, NoRepeats
  <2>7. Anchored' /\ NothingLostSilently' /\ (placeholders \subseteq NodeIds)'
    BY <1>0, <1>3, <2>1, <2>2, <2>3 DEF ProjectionInv, Anchored, NothingLostSilently
  <2>. QED
    BY <2>5, <2>6, <2>7 DEF ProjectionInv
<1>. QED
  BY <1>0, <1>1, <1>2, <1>3

LEMMA AddEdgeKeeps ==
  ASSUME ProjectionInv, NEW s \in Ids, NEW t \in Ids, AddEdge(s, t)
  PROVE  ProjectionInv'
<1>0. /\ nodes \in Seq(Ids) /\ Len(nodes) \in Nat /\ Len(nodes) <= MaxNodes
      /\ MaxNodes \in Nat /\ MaxEdges \in Nat /\ MaxCells \in Nat /\ edgeCells \in Nat
      /\ edges \in Seq(Ids \X Ids) /\ Len(edges) \in Nat /\ Len(edges) <= MaxEdges
      /\ edgeCells' = edgeCells + 1 /\ edgeCells' \in 0..MaxCells /\ nodeCells' = nodeCells
      /\ NodeIds = IdsIn(nodes) /\ NodeIds' = IdsIn(nodes')
      /\ NoRepeats(nodes)
  BY CapsAssumption, CellsAssumption
  DEF ProjectionInv, TypeOK, WithinCaps, AddEdge, NodeIds, IdsIn, NoRepeats
<1>1. CASE Len(edges) >= MaxEdges
  <2>1. nodes' = nodes /\ placeholders' = placeholders /\ edges' = edges /\ truncated'
    BY <1>0, <1>1 DEF AddEdge
  <2>. QED
    BY <1>0, <2>1 DEF ProjectionInv, TypeOK, WithinCaps, Anchored, NothingLostSilently,
       PlaceholdersLackCells, NodeIds
<1>2. CASE Len(edges) < MaxEdges
  <2>1. /\ nodes' = WithEndpoint(WithEndpoint(nodes, s), t)
        /\ placeholders' = placeholders \cup (({s, t} \cap NodeIds') \ NodeIds)
        /\ truncated' = (truncated \/ ~({s, t} \subseteq NodeIds'))
        /\ edges' = Append(edges, <<s, t>>)
    BY <1>0, <1>2 DEF AddEdge, WaitingEndpoints, WithEdge
  <2> DEFINE mid == WithEndpoint(nodes, s)
             last == WithEndpoint(mid, t)
  <2>2. /\ mid \in Seq(Ids)
        /\ Len(nodes) <= Len(mid) /\ Len(mid) <= MaxNodes /\ NoRepeats(mid)
        /\ IdsIn(nodes) \subseteq IdsIn(mid) /\ IdsIn(mid) \subseteq IdsIn(nodes) \cup {s}
        /\ s \notin IdsIn(mid) => Len(mid) = MaxNodes
    BY <1>0, EndpointFacts
  <2> HIDE DEF mid
  <2>11. /\ last \in Seq(Ids)
         /\ Len(mid) <= Len(last) /\ Len(last) <= MaxNodes /\ NoRepeats(last)
         /\ IdsIn(mid) \subseteq IdsIn(last) /\ IdsIn(last) \subseteq IdsIn(mid) \cup {t}
         /\ t \notin IdsIn(last) => Len(last) = MaxNodes
    BY <2>2, EndpointFacts
  <2>12. nodes' = last
    BY <2>1 DEF mid
  <2> HIDE DEF last
  <2>3. /\ nodes' \in Seq(Ids) /\ Len(nodes') \in Nat /\ Len(mid) \in Nat
        /\ Len(mid) <= Len(nodes') /\ Len(nodes') <= MaxNodes /\ NoRepeats(nodes')
        /\ IdsIn(mid) \subseteq IdsIn(nodes') /\ IdsIn(nodes') \subseteq IdsIn(mid) \cup {t}
        /\ t \notin IdsIn(nodes') => Len(nodes') = MaxNodes
    BY <2>2, <2>11, <2>12
  <2>4. /\ NodeIds \subseteq NodeIds' /\ NodeIds' \subseteq NodeIds \cup {s, t}
        /\ ~({s, t} \subseteq NodeIds') => Len(nodes') = MaxNodes
    BY <1>0, <2>2, <2>3
  <2>5. /\ edges' \in Seq(Ids \X Ids) /\ Len(edges') = Len(edges) + 1
        /\ \A i \in DOMAIN edges' : \/ i \in DOMAIN edges /\ edges'[i] = edges[i]
                                    \/ edges'[i] = <<s, t>>
    BY <1>0, <2>1, AppendFacts
  <2>6. TypeOK' /\ WithinCaps'
    <3>1. TypeOK'
      BY <1>0, <2>1, <2>3, <2>5 DEF ProjectionInv, TypeOK
    <3>. QED
      BY <1>0, <1>2, <3>1, <2>3, <2>5 DEF WithinCaps, NoRepeats
  <2>7. (placeholders \subseteq NodeIds)'
    BY <2>1, <2>4 DEF ProjectionInv
  <2>8. Anchored'
    <3> SUFFICES ASSUME Len(nodes') < MaxNodes
                 PROVE  /\ nodeCells' \subseteq NodeIds'
                        /\ \A i \in DOMAIN edges' :
                             {edges'[i][1], edges'[i][2]} \subseteq NodeIds'
      BY DEF Anchored
    <3>1. Len(nodes) < MaxNodes
      BY <1>0, <2>2, <2>3
    <3>2. {s, t} \subseteq NodeIds'
      BY <1>0, <2>4
    <3>3. nodeCells \subseteq NodeIds
      BY <3>1 DEF ProjectionInv, Anchored
    <3>4. \A i \in DOMAIN edges : {edges[i][1], edges[i][2]} \subseteq NodeIds
      BY <3>1 DEF ProjectionInv, Anchored
    <3>. QED
      BY <1>0, <2>4, <2>5, <3>2, <3>3, <3>4
  <2>9. NothingLostSilently'
    <3> SUFFICES ASSUME ~truncated'
                 PROVE  /\ nodeCells' \subseteq NodeIds' \ placeholders'
                        /\ Len(edges') = edgeCells'
                        /\ \A i \in DOMAIN edges' :
                             {edges'[i][1], edges'[i][2]} \subseteq NodeIds'
      BY DEF NothingLostSilently
    <3>1. ~truncated /\ {s, t} \subseteq NodeIds'
      BY <2>1
    <3>2. /\ nodeCells \subseteq NodeIds \ placeholders
          /\ Len(edges) = edgeCells
          /\ \A i \in DOMAIN edges : {edges[i][1], edges[i][2]} \subseteq NodeIds
      BY <3>1 DEF ProjectionInv, NothingLostSilently
    <3>3. \A i \in DOMAIN edges' : {edges'[i][1], edges'[i][2]} \subseteq NodeIds'
      BY <2>4, <2>5, <3>1, <3>2
    <3>. QED
      BY <1>0, <2>1, <2>4, <2>5, <3>2, <3>3
  <2>10. PlaceholdersLackCells'
    <3> SUFFICES ASSUME Len(nodes') < MaxNodes PROVE placeholders' = NodeIds' \ nodeCells'
      BY DEF PlaceholdersLackCells
    <3>1. placeholders = NodeIds \ nodeCells
      BY <1>0, <2>2, <2>3 DEF ProjectionInv, PlaceholdersLackCells
    <3>2. nodeCells \subseteq NodeIds
      BY <1>0, <2>2, <2>3 DEF ProjectionInv, Anchored
    <3>. QED
      BY <1>0, <2>1, <2>4, <3>1, <3>2
  <2>. QED
    BY <2>6, <2>7, <2>8, <2>9, <2>10 DEF ProjectionInv
<1>. QED
  BY <1>0, <1>1, <1>2

(* The invariants of the scan hold together in every reachable state. *)
THEOREM ProjectionInvariant == Spec => []ProjectionInv
<1>1. Init => ProjectionInv
  <2> SUFFICES ASSUME Init PROVE ProjectionInv
    OBVIOUS
  <2>1. /\ nodes = <<>> /\ edges = <<>> /\ Len(nodes) = 0 /\ Len(edges) = 0
        /\ DOMAIN nodes = {} /\ DOMAIN edges = {} /\ NodeIds = {}
        /\ placeholders = {} /\ nodeCells = {} /\ edgeCells = 0 /\ truncated = FALSE
    BY DEF Init, NodeIds
  <2>2. TypeOK
    <3>1. <<>> \in Seq(Ids) /\ <<>> \in Seq(Ids \X Ids) /\ 0 \in 0..MaxCells
      BY CellsAssumption
    <3>. QED
      BY <2>1, <3>1 DEF TypeOK
  <2>3. WithinCaps
    BY <2>1, CapsAssumption DEF WithinCaps
  <2>. QED
    BY <2>1, <2>2, <2>3 DEF ProjectionInv, Anchored, NothingLostSilently, PlaceholdersLackCells
<1>2. ProjectionInv /\ [Next]_vars => ProjectionInv'
  <2> SUFFICES ASSUME ProjectionInv, [Next]_vars PROVE ProjectionInv'
    OBVIOUS
  <2>1. CASE UNCHANGED vars
    BY <2>1 DEF vars, ProjectionInv, TypeOK, WithinCaps, NodeIds, Anchored,
       NothingLostSilently, PlaceholdersLackCells
  <2>. QED
    BY <2>1, AddNodeKeeps, AddEdgeKeeps DEF Next
<1>. QED
  BY <1>1, <1>2, PTL DEF Spec

(* What the projection does not carry it reports as truncated, whatever    *)
(* the order of node, edge and path cells (extractGraphData).              *)
THEOREM TruncationReported == Spec => []NothingLostSilently
BY ProjectionInvariant, PTL DEF ProjectionInv

(* Caps and node identity hold for all results (extractGraphData).         *)
THEOREM CapsHold == Spec => []WithinCaps
BY ProjectionInvariant, PTL DEF ProjectionInv

(* Below the cap, exactly the undescribed endpoints are placeholders        *)
(* (addNode, ensureEndpoint).                                              *)
THEOREM PlaceholdersExact == Spec => []PlaceholdersLackCells
BY ProjectionInvariant, PTL DEF ProjectionInv

(* The two caps work together: because the client's node cap is below the  *)
(* host's, no edge without both its nodes is drawn (capRenderData).        *)
THEOREM DrawnEdgesAnchored == Spec => []NoDanglingDrawn
<1>1. ProjectionInv => NoDanglingDrawn
  <2> SUFFICES ASSUME ProjectionInv, NEW i \in RenderedEdges
               PROVE  {edges[i][1], edges[i][2]} \subseteq RenderedNodes
    BY DEF NoDanglingDrawn
  <2>1. CASE Fits
    <3>1. Len(nodes) < MaxNodes
      <4>1. nodes \in Seq(Ids)
        BY DEF ProjectionInv, TypeOK
      <4>. QED
        BY <2>1, <4>1, CapsAssumption DEF Fits
    <3>2. RenderedNodes = NodeIds /\ i \in DOMAIN edges
      BY <2>1 DEF RenderedNodes, RenderedEdges
    <3>. QED
      BY <3>1, <3>2 DEF ProjectionInv, Anchored
  <2>2. CASE ~Fits
    BY <2>2 DEF RenderedEdges, Drawable
  <2>. QED
    BY <2>1, <2>2
<1>. QED
  BY <1>1, ProjectionInvariant, PTL

-----------------------------------------------------------------------------
(* The events that brought turn t a graph.                                 *)
Results(t) == {n \in DOMAIN log : log[n] = [kind |-> "graph result", turn |-> t]}

(* A context stands at the last graph of its turn in the log, and a turn   *)
(* without a context has none there.                                       *)
StandsAtLast(t) ==
  /\ ~context[t].open => context[t].graph = NoGraph
  /\ context[t].graph = NoGraph => Results(t) = {}
  /\ context[t].graph # NoGraph =>
       /\ context[t].latest = context[t].graph
       /\ context[t].graph \in Results(t)
       /\ \A n \in Results(t) : n <= context[t].graph

ContextsInv == \A t \in Turns : StandsAtLast(t)

(* A G6 instance belongs to the last run of its card's effect.             *)
InstancesInv ==
  /\ \A i \in live : i[2] = view[i[1]].drawn
  /\ \A t \in Turns : view[t].drawn # NoGraph => <<t, view[t].drawn>> \in live

CardsInv == CardsTypeOK /\ ContextsInv /\ InstancesInv /\ NoStrandedOverlay

-----------------------------------------------------------------------------
(* What ScreenWithout returns: the stack without t, nothing twice on it,   *)
(* and the same stack when t is not on it (the browser's part).            *)
LEMMA ScreenWithoutFacts ==
  ASSUME screen \in Seq(Turns), IsInjective(screen), NEW t \in Turns
  PROVE  /\ ScreenWithout(t) \in Seq(Turns)
         /\ IsInjective(ScreenWithout(t))
         /\ \A i \in DOMAIN ScreenWithout(t) : ScreenWithout(t)[i] # t
         /\ ~Contains(screen, t) => ScreenWithout(t) = screen
<1>0. Len(screen) \in Nat /\ DOMAIN screen = 1..Len(screen)
  BY LenProperties
<1>1. CASE ~Contains(screen, t)
  <2>1. ScreenWithout(t) = screen
    BY <1>1 DEF ScreenWithout
  <2> QED
    BY <1>0, <1>1, <2>1 DEF Contains
<1>2. CASE Contains(screen, t)
  <2> DEFINE k == CHOOSE i \in DOMAIN screen : screen[i] = t
             a == SubSeq(screen, 1, k - 1)
             b == SubSeq(screen, k + 1, Len(screen))
             r == a \o b
  <2>1. k \in 1..Len(screen) /\ screen[k] = t
    BY <1>0, <1>2 DEF Contains
  <2>2. ScreenWithout(t) = r
    BY <1>2 DEF ScreenWithout, RemoveAt
  <2> HIDE DEF k
  <2>3. a \in Seq(Turns) /\ Len(a) = k - 1 /\ \A i \in 1..(k - 1) : a[i] = screen[i]
    <3>1. \A i \in 1..(k - 1) : screen[i] \in Turns
      BY <1>0, <2>1, ElementOfSeq
    <3>2. /\ a \in Seq(Turns)
          /\ Len(a) = IF 1 <= k - 1 THEN (k - 1) - 1 + 1 ELSE 0
          /\ \A i \in 1..((k - 1) - 1 + 1) : a[i] = screen[1 + i - 1]
      BY <1>0, <2>1, SubSeqProperties
    <3> QED
      BY <2>1, <3>2, <1>0
  <2>4. /\ b \in Seq(Turns) /\ Len(b) = Len(screen) - k
        /\ \A i \in 1..(Len(screen) - k) : b[i] = screen[k + i]
    <3>2. /\ b \in Seq(Turns)
          /\ Len(b) = IF k + 1 <= Len(screen) THEN Len(screen) - (k + 1) + 1 ELSE 0
          /\ \A i \in 1..(Len(screen) - (k + 1) + 1) : b[i] = screen[k + 1 + i - 1]
      BY <1>0, <2>1, SubSeqProperties
    <3> QED
      BY <2>1, <3>2, <1>0
  <2> HIDE DEF a, b
  <2>5. /\ r \in Seq(Turns) /\ Len(r) = Len(screen) - 1
        /\ \A i \in 1..Len(r) : r[i] = screen[IF i < k THEN i ELSE i + 1]
    <3>1. r \in Seq(Turns) /\ Len(r) = Len(a) + Len(b)
          /\ \A i \in 1..(Len(a) + Len(b)) : r[i] = IF i <= Len(a) THEN a[i] ELSE b[i - Len(a)]
      BY <2>3, <2>4, ConcatProperties
    <3>2. SUFFICES ASSUME NEW i \in 1..Len(r) PROVE r[i] = screen[IF i < k THEN i ELSE i + 1]
      BY <3>1, <2>3, <2>4, <1>0, <2>1
    <3>3. CASE i < k
      BY <3>1, <3>3, <2>3, <2>4, <1>0, <2>1
    <3>4. CASE i >= k
      <4>1. r[i] = b[i - (k - 1)] /\ i - (k - 1) \in 1..(Len(screen) - k)
        BY <3>1, <3>4, <2>3, <2>4, <1>0, <2>1
      <4>2. k + (i - (k - 1)) = i + 1
        BY <2>1, <1>0, <3>1, <2>3, <2>4
      <4> QED
        BY <4>1, <4>2, <2>4, <3>4, <2>1, <1>0
    <3> QED
      BY <3>3, <3>4, <2>1, <1>0, <3>1
  <2> HIDE DEF r
  <2>6. DOMAIN r = 1..Len(r)
    BY <2>5, LenProperties
  <2>7. \A i \in 1..Len(r) : r[i] # t
    BY <2>5, <2>1, <1>0 DEF IsInjective
  <2>8. IsInjective(r)
    <3> SUFFICES ASSUME NEW i \in 1..Len(r), NEW j \in 1..Len(r), r[i] = r[j] PROVE i = j
      BY <2>6 DEF IsInjective
    <3>1. PICK p \in 1..Len(screen) : r[i] = screen[p] /\ p = IF i < k THEN i ELSE i + 1
      BY <2>5, <2>1, <1>0
    <3>2. PICK q \in 1..Len(screen) : r[j] = screen[q] /\ q = IF j < k THEN j ELSE j + 1
      BY <2>5, <2>1, <1>0
    <3>3. p = q
      BY <3>1, <3>2, <1>0 DEF IsInjective
    <3> QED
      BY <3>1, <3>2, <3>3, <2>1, <2>5, <1>0
  <2> QED
    BY <1>2, <2>2, <2>5, <2>6, <2>7, <2>8
<1> QED
  BY <1>1, <1>2

-----------------------------------------------------------------------------
(* What a step does not touch it keeps.                                    *)
LEMMA ContextsUntouched ==
  ASSUME ContextsInv, UNCHANGED <<log, context>>
  PROVE  ContextsInv'
<1>1. \A t \in Turns : Results(t)' = Results(t)
  BY DEF Results
<1> QED
  BY <1>1 DEF ContextsInv, StandsAtLast

LEMMA InstancesUntouched ==
  ASSUME InstancesInv, live \subseteq Turns \X (Graphs \ {NoGraph}), live' = live,
         \A t \in Turns : view'[t].drawn = view[t].drawn
  PROVE  InstancesInv'
BY DEF InstancesInv

(* The results of a turn after one more event (nebulaGraphDefinition).     *)
LEMMA ResultsAfter ==
  ASSUME CardsTypeOK, NEW kind \in Kinds, NEW t \in Turns, NEW u \in Turns,
         log' = Append(log, [kind |-> kind, turn |-> t])
  PROVE  Results(u)' = IF kind = "graph result" /\ t = u
                       THEN Results(u) \cup {Len(log) + 1} ELSE Results(u)
<1> DEFINE event == [kind |-> kind, turn |-> t]
           wanted == [kind |-> "graph result", turn |-> u]
<1>1. /\ log \in Seq([kind : Kinds, turn : Turns]) /\ Len(log) \in Nat
      /\ event \in [kind : Kinds, turn : Turns]
  BY LenProperties DEF CardsTypeOK
<1>2. event = wanted <=> kind = "graph result" /\ t = u
  OBVIOUS
<1> HIDE DEF event, wanted
<1>3. /\ Len(log') = Len(log) + 1 /\ DOMAIN log = 1..Len(log) /\ DOMAIN log' = 1..(Len(log) + 1)
      /\ \A i \in 1..Len(log) : log'[i] = log[i]
      /\ log'[Len(log) + 1] = event
  <2>1. log' = Append(log, event)
    BY DEF event
  <2>2. /\ Append(log, event) \in Seq([kind : Kinds, turn : Turns])
        /\ Len(Append(log, event)) = Len(log) + 1
        /\ \A i \in 1..Len(log) : Append(log, event)[i] = log[i]
        /\ Append(log, event)[Len(log) + 1] = event
    BY <1>1, AppendProperties
  <2> QED
    BY <1>1, <2>1, <2>2, LenProperties
<1>4. Results(u) = {n \in 1..Len(log) : log[n] = wanted}
  BY <1>3 DEF Results, wanted
<1>5. Results(u)' = {n \in 1..(Len(log) + 1) : log'[n] = wanted}
  BY <1>3 DEF Results, wanted
<1>6. Results(u)' = Results(u) \cup {n \in {Len(log) + 1} : log'[n] = wanted}
  BY <1>1, <1>3, <1>4, <1>5
<1> QED
  BY <1>2, <1>3, <1>6

(* An event moves the context of its turn to its last graph: start, update *)
(* and the events the node leaves alone (nebulaGraphDefinition).           *)
LEMMA EventKeeps ==
  ASSUME CardsInv, NEW kind \in Kinds, NEW t \in Turns, Event(kind, t)
  PROVE  CardsInv'
<1> DEFINE seq == Len(log) + 1
<1>0. CardsTypeOK /\ ContextsInv /\ InstancesInv /\ NoStrandedOverlay
  BY DEF CardsInv
<1>1. /\ log \in Seq([kind : Kinds, turn : Turns]) /\ Len(log) \in Nat
      /\ context \in [Turns -> Contexts] /\ context[t] \in Contexts
  BY <1>0, LenProperties DEF CardsTypeOK
<1>2. log' = Append(log, [kind |-> kind, turn |-> t]) /\ seq <= MaxEvents
  BY DEF Event
<1>3. UNCHANGED <<view, live, screen, asking, leaving, changed>>
  BY DEF Event
<1>4. kind = "turn start" <=> ~context[t].open
  BY DEF Event
<1>5. seq \in Graphs /\ seq # NoGraph /\ NoGraph \in Graphs
  BY <1>1, <1>2, MaxEventsAssumption DEF Graphs, NoGraph
<1>6. \A u \in Turns : Results(u) \subseteq Nat \ {NoGraph} /\ \A n \in Results(u) : n < seq
  <2>1. DOMAIN log = 1..Len(log)
    BY <1>1, LenProperties
  <2> SUFFICES ASSUME NEW u \in Turns, NEW n \in Results(u) PROVE n \in Nat \ {NoGraph} /\ n < seq
    OBVIOUS
  <2>2. n \in 1..Len(log)
    BY <2>1 DEF Results
  <2> QED
    BY <2>2, <1>1 DEF NoGraph
<1>7. log' \in Seq([kind : Kinds, turn : Turns]) /\ Len(log') <= MaxEvents
  <2> DEFINE event == [kind |-> kind, turn |-> t]
  <2>1. event \in [kind : Kinds, turn : Turns]
    OBVIOUS
  <2>2. log' = Append(log, event)
    BY <1>2
  <2> HIDE DEF event
  <2>3. Append(log, event) \in Seq([kind : Kinds, turn : Turns]) /\ Len(Append(log, event)) = Len(log) + 1
    BY <2>1, <1>1, AppendProperties
  <2> QED
    BY <2>2, <2>3, <1>2
<1>8. PICK c \in Contexts :
        /\ context' = [context EXCEPT ![t] = c]
        /\ c.open <=> kind = "turn start" \/ context[t].open
        /\ \/ kind = "turn start" /\ c.graph = NoGraph
           \/ kind = "graph result" /\ c.graph = seq /\ c.latest = seq
           \/ kind = "other result" /\ c = context[t]
  <2>1. CASE kind = "turn start"
    <3> DEFINE c == [open |-> TRUE, graph |-> NoGraph, latest |-> seq]
    <3>1. context' = [context EXCEPT ![t] = c]
      BY <2>1 DEF Event, Match
    <3>2. c \in Contexts
      BY <1>5 DEF Contexts
    <3> QED
      BY <2>1, <3>1, <3>2
  <2>2. CASE kind = "graph result"
    <3> DEFINE c == [open |-> context[t].open, graph |-> seq, latest |-> seq]
    <3>1. context' = [context EXCEPT ![t] = [context[t] EXCEPT !.graph = seq, !.latest = seq]]
      BY <2>2 DEF Event, Match, Updated
    <3>2. c \in Contexts
      BY <1>1, <1>5 DEF Contexts
    <3>3. context' = [context EXCEPT ![t] = c]
      <4> DEFINE r == [context[t] EXCEPT !.graph = seq]
      <4>1. r = [open |-> context[t].open, graph |-> seq, latest |-> context[t].latest]
        BY <1>1 DEF Contexts
      <4> HIDE DEF r
      <4>2. [r EXCEPT !.latest = seq] = c
        BY <4>1
      <4>3. context' = [context EXCEPT ![t] = [r EXCEPT !.latest = seq]]
        BY <3>1 DEF r
      <4> QED
        BY <4>2, <4>3
    <3>4. c.open <=> context[t].open
      OBVIOUS
    <3> QED
      BY <2>2, <3>2, <3>3, <3>4
  <2>3. CASE kind = "other result"
    <3>1. context' = context
      BY <2>3 DEF Event, Match
    <3>2. context = [context EXCEPT ![t] = context[t]]
      BY <1>1
    <3> QED
      BY <2>3, <3>1, <3>2, <1>1
  <2> QED
    BY <2>1, <2>2, <2>3 DEF Kinds
<1>9. context' \in [Turns -> Contexts] /\ context'[t] = c /\ \A u \in Turns \ {t} : context'[u] = context[u]
  BY <1>1, <1>8
<1>10. CardsTypeOK'
  BY <1>0, <1>3, <1>7, <1>9 DEF CardsTypeOK
<1>11. ASSUME NEW u \in Turns PROVE StandsAtLast(u)'
  <2>1. StandsAtLast(u)
    BY <1>0 DEF ContextsInv
  <2>2. Results(u)' = IF kind = "graph result" /\ t = u THEN Results(u) \cup {seq} ELSE Results(u)
    BY <1>0, <1>2, ResultsAfter
  <2> HIDE DEF seq
  <2>3. CASE u # t
    <3>1. context'[u] = context[u] /\ Results(u)' = Results(u)
      BY <1>9, <2>2, <2>3
    <3> QED
      BY <2>1, <3>1 DEF StandsAtLast
  <2>4. CASE u = t /\ kind = "turn start"
    <3>1. context'[u].open /\ context'[u].graph = NoGraph
      BY <1>8, <1>9, <2>4
    <3>2. Results(u) = {} /\ Results(u)' = Results(u)
      BY <2>1, <2>2, <2>4, <1>4 DEF StandsAtLast
    <3> QED
      BY <3>1, <3>2 DEF StandsAtLast
  <2>5. CASE u = t /\ kind = "graph result"
    <3>1. context'[u].graph = seq /\ context'[u].latest = seq /\ context'[u].open
      BY <1>4, <1>8, <1>9, <2>5
    <3>2. Results(u)' = Results(u) \cup {seq}
      BY <2>2, <2>5
    <3>3. \A n \in Results(u)' : n <= seq
      BY <3>2, <1>5, <1>6 DEF Graphs
    <3> QED
      BY <3>1, <3>2, <3>3, <1>5 DEF StandsAtLast
  <2>6. CASE u = t /\ kind = "other result"
    <3>1. context'[u] = context[u] /\ Results(u)' = Results(u)
      BY <1>8, <1>9, <2>2, <2>6
    <3> QED
      BY <2>1, <3>1 DEF StandsAtLast
  <2> QED
    BY <2>3, <2>4, <2>5, <2>6 DEF Kinds
<1>12. InstancesInv'
  BY <1>0, <1>3, InstancesUntouched DEF CardsTypeOK
<1>13. NoStrandedOverlay'
  BY <1>0, <1>3 DEF NoStrandedOverlay
<1> QED
  BY <1>10, <1>11, <1>12, <1>13 DEF CardsInv, ContextsInv

(* A render changes what the card shows, not what its effect drew          *)
(* (buildViewNode, NebulaGraphView).                                       *)
LEMMA RenderKeeps ==
  ASSUME CardsInv, NEW t \in Turns, Render(t)
  PROVE  CardsInv'
<1>0. /\ CardsTypeOK /\ ContextsInv /\ InstancesInv /\ NoStrandedOverlay
      /\ context \in [Turns -> Contexts] /\ view \in [Turns -> Views]
  BY DEF CardsInv, CardsTypeOK
<1>1. /\ view' = [view EXCEPT ![t].shown = context[t].graph]
      /\ UNCHANGED <<log, context, live, screen, asking, leaving, changed>>
  BY DEF Render
<1>2. view' \in [Turns -> Views]
  BY <1>0, <1>1 DEF Views, Contexts
<1>3. CardsTypeOK'
  BY <1>0, <1>1, <1>2 DEF CardsTypeOK
<1>4. \A u \in Turns : /\ view'[u].drawn = view[u].drawn /\ view'[u].full = view[u].full
                       /\ view'[u].refused = view[u].refused
  BY <1>0, <1>1 DEF Views
<1>5. InstancesInv'
  BY <1>0, <1>1, <1>4, InstancesUntouched DEF CardsTypeOK
<1>6. NoStrandedOverlay'
  BY <1>0, <1>1, <1>4 DEF NoStrandedOverlay
<1> QED
  BY <1>0, <1>1, <1>3, <1>5, <1>6, ContextsUntouched DEF CardsInv

(* The effect's cleanup and its body leave the card with the instance of   *)
(* the graph it shows, and no other (the [graph] effect).                  *)
LEMMA RunEffectKeeps ==
  ASSUME CardsInv, NEW t \in Turns, RunEffect(t)
  PROVE  CardsInv'
<1>0. /\ CardsTypeOK /\ ContextsInv /\ InstancesInv /\ NoStrandedOverlay
      /\ view \in [Turns -> Views] /\ live \subseteq Turns \X (Graphs \ {NoGraph})
  BY DEF CardsInv, CardsTypeOK
<1>1. /\ view' = [view EXCEPT ![t].drawn = view[t].shown]
      /\ live' = Instances(t)
      /\ UNCHANGED <<log, context, screen, asking, leaving, changed>>
  BY DEF RunEffect
<1>2. view' \in [Turns -> Views]
  BY <1>0, <1>1 DEF Views
<1>3. \A u \in Turns : /\ view'[u].drawn = IF u = t THEN view[t].shown ELSE view[u].drawn
                       /\ view'[u].full = view[u].full /\ view'[u].refused = view[u].refused
  BY <1>0, <1>1 DEF Views
<1>4. live' \subseteq Turns \X (Graphs \ {NoGraph})
  BY <1>0, <1>1 DEF Instances, Mounted, Views
<1>5. CardsTypeOK'
  BY <1>0, <1>1, <1>2, <1>4 DEF CardsTypeOK
<1>6. ASSUME NEW i \in live' PROVE i[2] = view'[i[1]].drawn
  <2>1. CASE i \in live /\ i # <<t, view[t].drawn>>
    <3>1. i[2] = view[i[1]].drawn /\ i = <<i[1], i[2]>> /\ i[1] \in Turns
      BY <2>1, <1>0 DEF InstancesInv
    <3>2. i[1] # t
      BY <2>1, <3>1
    <3> QED
      BY <3>1, <3>2, <1>3
  <2>2. CASE i = <<t, view[t].shown>>
    BY <2>2, <1>3
  <2> QED
    BY <2>1, <2>2, <1>1 DEF Instances
<1>7. ASSUME NEW u \in Turns, view'[u].drawn # NoGraph PROVE <<u, view'[u].drawn>> \in live'
  <2>1. CASE u = t
    BY <2>1, <1>1, <1>3, <1>7 DEF Instances, Mounted
  <2>2. CASE u # t
    BY <2>2, <1>0, <1>1, <1>3, <1>7 DEF Instances, InstancesInv
  <2> QED
    BY <2>1, <2>2
<1>8. NoStrandedOverlay'
  BY <1>0, <1>1, <1>3 DEF NoStrandedOverlay
<1> QED
  BY <1>0, <1>1, <1>5, <1>6, <1>7, <1>8, ContextsUntouched DEF CardsInv, InstancesInv

(* A card that leaves the page takes its state with it (React, browser).   *)
LEMMA UnmountKeeps ==
  ASSUME CardsInv, NEW t \in Turns, Unmount(t)
  PROVE  CardsInv'
<1>0. /\ CardsTypeOK /\ ContextsInv /\ InstancesInv /\ NoStrandedOverlay
      /\ view \in [Turns -> Views] /\ screen \in Seq(Turns) /\ IsInjective(screen)
      /\ changed \in BOOLEAN
  BY DEF CardsInv, CardsTypeOK
<1>1. /\ view' = [view EXCEPT ![t] =
                     [shown |-> NoGraph, drawn |-> view[t].drawn, full |-> FALSE, refused |-> FALSE]]
      /\ asking' = asking \ {t}
      /\ screen' = ScreenWithout(t)
      /\ UNCHANGED <<log, context, live, leaving>>
  BY DEF Unmount
<1>2. changed' \in BOOLEAN /\ (changed' <=> changed \/ Contains(screen, t))
  <2>1. changed' = (changed \/ Contains(screen, t))
    BY Zenon DEF Unmount
  <2> QED
    BY <2>1 DEF Contains
<1>3. /\ screen' \in Seq(Turns) /\ IsInjective(screen')
      /\ ~Contains(screen, t) => screen' = screen
  BY <1>0, <1>1, ScreenWithoutFacts
<1>4. view' \in [Turns -> Views]
  <2> DEFINE v == [shown |-> NoGraph, drawn |-> view[t].drawn, full |-> FALSE, refused |-> FALSE]
  <2>1. NoGraph \in Graphs
    BY MaxEventsAssumption DEF Graphs, NoGraph
  <2>2. v \in Views
    BY <1>0, <2>1 DEF Views
  <2>3. view' = [view EXCEPT ![t] = v]
    BY <1>1
  <2> QED
    BY <1>0, <2>2, <2>3
<1>5. CardsTypeOK'
  BY <1>0, <1>1, <1>2, <1>3, <1>4 DEF CardsTypeOK
<1>6. \A u \in Turns : view'[u].drawn = view[u].drawn
  BY <1>0, <1>1 DEF Views
<1>7. \A u \in Turns \ {t} : view'[u] = view[u]
  BY <1>0, <1>1
<1>8. ~view'[t].full
  BY <1>0, <1>1 DEF Views
<1>9. InstancesInv'
  BY <1>0, <1>1, <1>6, InstancesUntouched DEF CardsTypeOK
<1>10. NoStrandedOverlay'
  <2> SUFFICES ASSUME NEW u \in Turns, view'[u].full, screen' = <<>>, ~changed'
               PROVE  u \in asking' \/ view'[u].refused
    BY DEF NoStrandedOverlay
  <2>1. u # t /\ view'[u] = view[u]
    BY <1>7, <1>8
  <2>2. ~changed /\ screen = <<>>
    BY <1>2, <1>3
  <2> QED
    BY <2>1, <2>2, <1>0, <1>1 DEF NoStrandedOverlay
<1> QED
  BY <1>0, <1>1, <1>5, <1>9, <1>10, ContextsUntouched DEF CardsInv

(* The button changes the state of its card at once (toggleFullscreen).    *)
LEMMA ToggleKeeps ==
  ASSUME CardsInv, NEW t \in Turns, ToggleFullscreen(t)
  PROVE  CardsInv'
<1>0. /\ CardsTypeOK /\ ContextsInv /\ InstancesInv /\ NoStrandedOverlay
      /\ view \in [Turns -> Views] /\ asking \subseteq Turns /\ leaving \in BOOLEAN
  BY DEF CardsInv, CardsTypeOK
<1>1. UNCHANGED <<log, context, live, screen, changed>>
  BY DEF ToggleFullscreen
<1>2. PICK v \in Views :
        /\ view' = [view EXCEPT ![t] = v]
        /\ v.drawn = view[t].drawn
        /\ \/ v.full = FALSE /\ asking' = asking
           \/ asking' = asking \cup {t}
  <2>1. CASE view[t].full
    <3> DEFINE v == [view[t] EXCEPT !.full = FALSE]
    <3>1. v \in Views /\ v.drawn = view[t].drawn /\ v.full = FALSE
      BY <1>0 DEF Views
    <3>2. view' = [view EXCEPT ![t] = v] /\ asking' = asking
      BY <2>1 DEF ToggleFullscreen
    <3> HIDE DEF v
    <3> QED
      BY <3>1, <3>2
  <2>2. CASE ~view[t].full
    <3> DEFINE w == [view[t] EXCEPT !.full = TRUE]
               v == [w EXCEPT !.refused = FALSE]
    <3>1. w \in Views /\ w.drawn = view[t].drawn
      BY <1>0 DEF Views
    <3>2. view' = [view EXCEPT ![t] = v] /\ asking' = asking \cup {t}
      BY <2>2 DEF ToggleFullscreen
    <3> HIDE DEF w
    <3>3. v \in Views /\ v.drawn = view[t].drawn
      BY <3>1 DEF Views
    <3> HIDE DEF v
    <3> QED
      BY <3>2, <3>3
  <2> QED
    BY <2>1, <2>2
<1>3. leaving' \in BOOLEAN
  BY <1>0 DEF ToggleFullscreen
<1>4. view' \in [Turns -> Views] /\ view'[t] = v /\ \A u \in Turns \ {t} : view'[u] = view[u]
  BY <1>0, <1>2
<1>5. asking \subseteq asking' /\ asking' \subseteq Turns
  BY <1>0, <1>2
<1>6. CardsTypeOK'
  BY <1>0, <1>1, <1>3, <1>4, <1>5 DEF CardsTypeOK
<1>7. \A u \in Turns : view'[u].drawn = view[u].drawn
  BY <1>2, <1>4
<1>8. InstancesInv'
  BY <1>0, <1>1, <1>7, InstancesUntouched DEF CardsTypeOK
<1>9. NoStrandedOverlay'
  <2> SUFFICES ASSUME NEW u \in Turns, view'[u].full, screen' = <<>>, ~changed'
               PROVE  u \in asking' \/ view'[u].refused
    BY DEF NoStrandedOverlay
  <2>1. CASE u = t
    BY <2>1, <1>2, <1>4
  <2>2. CASE u # t
    BY <2>2, <1>0, <1>1, <1>4, <1>5 DEF NoStrandedOverlay
  <2> QED
    BY <2>1, <2>2
<1> QED
  BY <1>0, <1>1, <1>6, <1>8, <1>9, ContextsUntouched DEF CardsInv

(* Whoever hears fullscreenchange on an empty screen is not full (onChange).*)
LEMMA FullscreenChangeKeeps ==
  ASSUME CardsInv, FullscreenChange
  PROVE  CardsInv'
<1>0. /\ CardsTypeOK /\ ContextsInv /\ InstancesInv /\ NoStrandedOverlay
      /\ view \in [Turns -> Views]
  BY DEF CardsInv, CardsTypeOK
<1>1. changed' = FALSE /\ UNCHANGED <<log, context, live, screen, asking, leaving>>
  BY DEF FullscreenChange
<1>2. /\ view' = [t \in Turns |-> IF screen = <<>> THEN [view[t] EXCEPT !.full = FALSE] ELSE view[t]]
  BY DEF FullscreenChange
<1>3. ASSUME NEW u \in Turns
      PROVE  /\ view'[u] \in Views /\ view'[u].drawn = view[u].drawn
             /\ screen = <<>> => view'[u].full = FALSE
  <2>1. CASE screen = <<>>
    BY <2>1, <1>0, <1>2 DEF Views
  <2>2. CASE screen # <<>>
    BY <2>2, <1>0, <1>2
  <2> QED
    BY <2>1, <2>2
<1>4. view' \in [Turns -> Views]
  BY <1>2, <1>3
<1>5. CardsTypeOK'
  BY <1>0, <1>1, <1>4 DEF CardsTypeOK
<1>6. InstancesInv'
  BY <1>0, <1>1, <1>3, InstancesUntouched DEF CardsTypeOK
<1>7. NoStrandedOverlay'
  BY <1>1, <1>3 DEF NoStrandedOverlay
<1> QED
  BY <1>0, <1>1, <1>5, <1>6, <1>7, ContextsUntouched DEF CardsInv

(* The browser fills the screen with a card, and says so.                  *)
LEMMA FillsKeeps ==
  ASSUME CardsInv, NEW t \in Turns, Fills(t)
  PROVE  CardsInv'
<1>0. /\ CardsTypeOK /\ ContextsInv /\ InstancesInv /\ NoStrandedOverlay
      /\ screen \in Seq(Turns) /\ IsInjective(screen)
  BY DEF CardsInv, CardsTypeOK
<1>1. /\ asking' = asking \ {t} /\ screen' = Append(ScreenWithout(t), t) /\ changed' = TRUE
      /\ UNCHANGED <<log, context, view, live, leaving>>
  BY DEF Fills
<1> DEFINE rest == ScreenWithout(t)
<1>2. rest \in Seq(Turns) /\ IsInjective(rest) /\ \A i \in DOMAIN rest : rest[i] # t
  BY <1>0, ScreenWithoutFacts
<1> HIDE DEF rest
<1>3. /\ Len(rest) \in Nat /\ DOMAIN rest = 1..Len(rest)
      /\ Append(rest, t) \in Seq(Turns) /\ Len(Append(rest, t)) = Len(rest) + 1
      /\ \A i \in 1..Len(rest) : Append(rest, t)[i] = rest[i]
      /\ Append(rest, t)[Len(rest) + 1] = t
  BY <1>2, AppendProperties, LenProperties
<1>4. DOMAIN Append(rest, t) = 1..(Len(rest) + 1)
  BY <1>3, LenProperties
<1>5. IsInjective(Append(rest, t))
  <2> SUFFICES ASSUME NEW i \in 1..(Len(rest) + 1), NEW j \in 1..(Len(rest) + 1),
                      Append(rest, t)[i] = Append(rest, t)[j]
               PROVE  i = j
    BY <1>4 DEF IsInjective
  <2>1. CASE i \in 1..Len(rest) /\ j \in 1..Len(rest)
    BY <2>1, <1>2, <1>3 DEF IsInjective
  <2>2. CASE i = Len(rest) + 1 \/ j = Len(rest) + 1
    BY <2>2, <1>2, <1>3
  <2> QED
    BY <2>1, <2>2, <1>3
<1>6. screen' \in Seq(Turns) /\ IsInjective(screen')
  BY <1>1, <1>3, <1>5 DEF rest
<1>7. CardsTypeOK'
  BY <1>0, <1>1, <1>6 DEF CardsTypeOK
<1>8. InstancesInv'
  BY <1>0, <1>1, InstancesUntouched DEF CardsTypeOK
<1>9. NoStrandedOverlay'
  BY <1>1 DEF NoStrandedOverlay
<1> QED
  BY <1>0, <1>1, <1>7, <1>8, <1>9, ContextsUntouched DEF CardsInv

(* The browser refuses: the card keeps its state (toggleFullscreen).       *)
LEMMA RefusesKeeps ==
  ASSUME CardsInv, NEW t \in Turns, Refuses(t)
  PROVE  CardsInv'
<1>0. /\ CardsTypeOK /\ ContextsInv /\ InstancesInv /\ NoStrandedOverlay
      /\ view \in [Turns -> Views]
  BY DEF CardsInv, CardsTypeOK
<1>1. /\ asking' = asking \ {t} /\ view' = [view EXCEPT ![t].refused = TRUE]
      /\ UNCHANGED <<log, context, live, screen, leaving, changed>>
  BY DEF Refuses
<1>2. view'[t].refused /\ \A u \in Turns \ {t} : view'[u] = view[u]
  BY <1>0, <1>1 DEF Views
<1>3. view' \in [Turns -> Views]
  BY <1>0, <1>1 DEF Views
<1>4. \A u \in Turns : view'[u].drawn = view[u].drawn
  BY <1>0, <1>1 DEF Views
<1>5. CardsTypeOK'
  BY <1>0, <1>1, <1>3 DEF CardsTypeOK
<1>6. InstancesInv'
  BY <1>0, <1>1, <1>4, InstancesUntouched DEF CardsTypeOK
<1>7. NoStrandedOverlay'
  BY <1>0, <1>1, <1>2 DEF NoStrandedOverlay
<1> QED
  BY <1>0, <1>1, <1>5, <1>6, <1>7, ContextsUntouched DEF CardsInv

(* The browser leaves full screen, asked by a card or by the user.         *)
LEMMA LeavesKeeps ==
  ASSUME CardsInv, Leaves \/ Escape
  PROVE  CardsInv'
<1>0. /\ CardsTypeOK /\ ContextsInv /\ InstancesInv /\ NoStrandedOverlay
      /\ screen \in Seq(Turns) /\ IsInjective(screen)
  BY DEF CardsInv, CardsTypeOK
<1>1. leaving' \in BOOLEAN /\ UNCHANGED <<log, context, view, live, asking>>
  BY <1>0 DEF Leaves, Escape, CardsTypeOK
<1>2. \/ screen' = screen /\ changed' = changed
      \/ screen' = Front(screen) /\ screen # <<>> /\ changed' = TRUE
      \/ screen' = <<>> /\ changed' = TRUE
  BY DEF Leaves, Escape
<1>3. screen' \in Seq(Turns) /\ IsInjective(screen')
  <2>1. CASE screen' = screen
    BY <2>1, <1>0
  <2>2. CASE screen' = Front(screen) /\ screen # <<>>
    <3>1. PICK n \in Nat : Len(screen) = n + 1 /\ DOMAIN screen = 1..(n + 1)
      <4>1. Len(screen) \in Nat /\ Len(screen) # 0 /\ DOMAIN screen = 1..Len(screen)
        BY <2>2, <1>0, LenProperties, EmptySeq
      <4>2. Len(screen) - 1 \in Nat /\ Len(screen) = (Len(screen) - 1) + 1
        BY <4>1
      <4> QED
        BY <4>1, <4>2
    <3>2. \A i \in 1..n : screen[i] \in Turns
      BY <1>0, <3>1, ElementOfSeq
    <3> DEFINE f == SubSeq(screen, 1, n)
    <3>3. /\ f \in Seq(Turns)
          /\ Len(f) = IF 1 <= n THEN n - 1 + 1 ELSE 0
          /\ \A i \in 1..(n - 1 + 1) : f[i] = screen[1 + i - 1]
      BY <3>1, <3>2, SubSeqProperties
    <3>4. screen' = f
      <4>1. Len(screen) - 1 = n
        BY <3>1
      <4> QED
        BY <2>2, <4>1 DEF Front
    <3> HIDE DEF f
    <3>5. DOMAIN f = 1..n /\ \A i \in 1..n : f[i] = screen[i]
      <4>1. Len(f) = n
        BY <3>3
      <4>2. DOMAIN f = 1..n
        BY <3>3, <4>1, LenProperties
      <4>3. ASSUME NEW i \in 1..n PROVE f[i] = screen[i]
        <5>1. i \in 1..(n - 1 + 1) /\ 1 + i - 1 = i
          OBVIOUS
        <5> QED
          BY <5>1, <3>3
      <4> QED
        BY <4>2, <4>3
    <3>6. IsInjective(f)
      BY <1>0, <3>1, <3>5 DEF IsInjective
    <3> QED
      BY <3>3, <3>4, <3>6
  <2>3. CASE screen' = <<>>
    BY <2>3, EmptySeq DEF IsInjective
  <2> QED
    BY <2>1, <2>2, <2>3, <1>2
<1>4. changed' \in BOOLEAN
  BY <1>0, <1>2 DEF CardsTypeOK
<1>5. CardsTypeOK'
  BY <1>0, <1>1, <1>3, <1>4 DEF CardsTypeOK
<1>6. InstancesInv'
  BY <1>0, <1>1, InstancesUntouched DEF CardsTypeOK
<1>7. NoStrandedOverlay'
  BY <1>0, <1>1, <1>2 DEF NoStrandedOverlay
<1> QED
  BY <1>0, <1>1, <1>5, <1>6, <1>7, ContextsUntouched DEF CardsInv

-----------------------------------------------------------------------------
(* The invariant of the cards, for all turns and any number of events:     *)
(* events, renders, effects, clicks and the browser's answers, in whatever *)
(* order they come (nebulaGraphDefinition, NebulaGraphView).               *)
THEOREM CardsCorrect == CardsSpec => []CardsInv
<1>1. CardsInit => CardsInv
  <2> SUFFICES ASSUME CardsInit PROVE CardsInv
    OBVIOUS
  <2>1. log = <<>> /\ live = {} /\ screen = <<>> /\ asking = {} /\ leaving = FALSE /\ changed = FALSE
    BY DEF CardsInit
  <2>2. /\ log \in Seq([kind : Kinds, turn : Turns]) /\ Len(log) = 0 /\ DOMAIN log = {}
        /\ screen \in Seq(Turns) /\ DOMAIN screen = {}
    BY <2>1, EmptySeq
  <2>3. NoGraph \in Graphs /\ 0 <= MaxEvents
    BY MaxEventsAssumption DEF Graphs, NoGraph
  <2>4. context = [t \in Turns |-> [open |-> FALSE, graph |-> NoGraph, latest |-> NoGraph]]
    BY DEF CardsInit
  <2>5. view = [t \in Turns |-> [shown |-> NoGraph, drawn |-> NoGraph, full |-> FALSE, refused |-> FALSE]]
    BY DEF CardsInit
  <2>6. context \in [Turns -> Contexts] /\ \A t \in Turns : context[t].graph = NoGraph
    BY <2>3, <2>4 DEF Contexts
  <2>7. /\ view \in [Turns -> Views]
        /\ \A t \in Turns : view[t].drawn = NoGraph /\ view[t].full = FALSE
    BY <2>3, <2>5 DEF Views
  <2>8. CardsTypeOK
    BY <2>1, <2>2, <2>3, <2>6, <2>7 DEF CardsTypeOK, IsInjective
  <2>9. ContextsInv
    BY <2>2, <2>6 DEF ContextsInv, StandsAtLast, Results
  <2>10. InstancesInv
    BY <2>1, <2>7 DEF InstancesInv
  <2>11. NoStrandedOverlay
    BY <2>7 DEF NoStrandedOverlay
  <2> QED
    BY <2>8, <2>9, <2>10, <2>11 DEF CardsInv
<1>2. CardsInv /\ [CardsNext]_cardVars => CardsInv'
  <2> SUFFICES ASSUME CardsInv, [CardsNext]_cardVars PROVE CardsInv'
    OBVIOUS
  <2>1. CASE \E t \in Turns :
               \/ \E kind \in Kinds : Event(kind, t)
               \/ Render(t) \/ RunEffect(t) \/ Unmount(t)
               \/ ToggleFullscreen(t) \/ Fills(t) \/ Refuses(t)
    <3> PICK t \in Turns : \/ \E kind \in Kinds : Event(kind, t)
                           \/ Render(t) \/ RunEffect(t) \/ Unmount(t)
                           \/ ToggleFullscreen(t) \/ Fills(t) \/ Refuses(t)
      BY <2>1
    <3> QED
      BY EventKeeps, RenderKeeps, RunEffectKeeps, UnmountKeeps, ToggleKeeps, FillsKeeps, RefusesKeeps
  <2>2. CASE FullscreenChange
    BY <2>2, FullscreenChangeKeeps
  <2>3. CASE Leaves \/ Escape
    BY <2>3, LeavesKeeps
  <2>4. CASE UNCHANGED cardVars
    <3>1. /\ UNCHANGED <<log, context>> /\ UNCHANGED <<view, live>>
          /\ UNCHANGED <<screen, asking>> /\ UNCHANGED <<leaving, changed>>
      BY <2>4 DEF cardVars
    <3>2. CardsTypeOK' /\ NoStrandedOverlay' /\ InstancesInv'
      BY <3>1 DEF CardsInv, CardsTypeOK, NoStrandedOverlay, InstancesInv
    <3> QED
      BY <3>1, <3>2, ContextsUntouched DEF CardsInv
  <2> QED
    BY <2>1, <2>2, <2>3, <2>4 DEF CardsNext
<1> QED
  BY <1>1, <1>2, PTL DEF CardsSpec

(* A context that stands at the last graph of its turn is at LastGraph.    *)
LEMMA AtLastGraph ==
  ASSUME NEW t \in Turns, StandsAtLast(t), Results(t) \subseteq Nat
  PROVE  context[t].graph = LastGraph(t)
<1>1. LastGraph(t) = IF Results(t) = {} THEN NoGraph
                     ELSE CHOOSE n \in Results(t) : \A m \in Results(t) : m <= n
  BY DEF LastGraph, Results
<1>2. CASE Results(t) = {}
  BY <1>1, <1>2 DEF StandsAtLast
<1>3. CASE Results(t) # {}
  <2>1. context[t].graph \in Results(t) /\ \A m \in Results(t) : m <= context[t].graph
    BY <1>3 DEF StandsAtLast
  <2>2. \A n \in Results(t) : (\A m \in Results(t) : m <= n) => n = context[t].graph
    BY <2>1
  <2> QED
    BY <1>1, <1>3, <2>1, <2>2
<1> QED
  BY <1>2, <1>3

(* The invariant says which graph is drawn.                                *)
LEMMA FinalGraphFollows ==
  ASSUME CardsInv
  PROVE  FinalGraphDrawn
<1> SUFFICES ASSUME NEW t \in Turns
             PROVE  /\ context[t].graph # NoGraph => context[t].latest = LastGraph(t)
                    /\ Flushed(t) /\ view[t].shown \in {NoGraph, context[t].graph} =>
                         {i \in live : i[1] = t} = (IF Mounted(t) THEN {<<t, LastGraph(t)>>} ELSE {})
  BY DEF FinalGraphDrawn
<1>1. /\ StandsAtLast(t) /\ InstancesInv /\ live \subseteq Turns \X (Graphs \ {NoGraph})
      /\ log \in Seq([kind : Kinds, turn : Turns])
  BY DEF CardsInv, ContextsInv, CardsTypeOK
<1>2. Results(t) \subseteq Nat
  <2>1. DOMAIN log = 1..Len(log) /\ Len(log) \in Nat
    BY <1>1, LenProperties
  <2> SUFFICES ASSUME NEW n \in Results(t) PROVE n \in Nat
    OBVIOUS
  <2>2. n \in 1..Len(log)
    BY <2>1 DEF Results
  <2> QED
    BY <2>2
<1>3. context[t].graph = LastGraph(t)
  BY <1>1, <1>2, AtLastGraph
<1>4. context[t].graph # NoGraph => context[t].latest = LastGraph(t)
  BY <1>1, <1>3 DEF StandsAtLast
<1>5. ASSUME Flushed(t), view[t].shown \in {NoGraph, context[t].graph}
      PROVE  {i \in live : i[1] = t} = (IF Mounted(t) THEN {<<t, LastGraph(t)>>} ELSE {})
  <2>1. \A i \in live : i[1] = t => i = <<t, view[t].drawn>> /\ view[t].drawn # NoGraph
    BY <1>1 DEF InstancesInv
  <2>2. view[t].drawn # NoGraph => <<t, view[t].drawn>> \in live
    BY <1>1 DEF InstancesInv
  <2>3. CASE Mounted(t)
    <3>1. view[t].drawn = LastGraph(t) /\ view[t].drawn # NoGraph
      BY <1>3, <1>5, <2>3 DEF Flushed, Mounted
    <3> QED
      BY <2>1, <2>2, <2>3, <3>1
  <2>4. CASE ~Mounted(t)
    <3>1. view[t].drawn = NoGraph
      BY <1>5, <2>4 DEF Flushed, Mounted
    <3> QED
      BY <2>1, <2>4, <3>1
  <2> QED
    BY <2>3, <2>4
<1> QED
  BY <1>4, <1>5

(* Every state of the cards has the type the model states.                 *)
THEOREM CardsTypes == CardsSpec => []CardsTypeOK
BY CardsCorrect, PTL DEF CardsInv

(* "Only the turn's FINAL graph renders": whatever order events, renders   *)
(* and effects come in, a card that React has caught up with has one G6    *)
(* instance, of the last graph in the log, and a card off the page none.   *)
THEOREM LastGraphDrawn == CardsSpec => []FinalGraphDrawn
<1>1. CardsInv => FinalGraphDrawn
  BY FinalGraphFollows
<1> QED
  BY <1>1, CardsCorrect, PTL

(* No card covers the page when nothing fills the screen, unless a request *)
(* is open or was refused (toggleFullscreen, onChange).                    *)
THEOREM NoOverlayStranded == CardsSpec => []NoStrandedOverlay
BY CardsCorrect, PTL DEF CardsInv

-----------------------------------------------------------------------------
(* The payload of a card stays within its bound, element by element.       *)
THEOREM DataTypes == DataSpec => []DataTypeOK
<1>1. DataInit => DataTypeOK
  BY EmptySeq, DrawnAssumption DEF DataInit, DataTypeOK
<1>2. DataTypeOK /\ [DataNext]_dataVars => DataTypeOK'
  <2> SUFFICES ASSUME DataTypeOK, [DataNext]_dataVars PROVE DataTypeOK'
    OBVIOUS
  <2>1. /\ dataNodes \in Seq(DataNodes) /\ Len(dataNodes) \in Nat
        /\ dataEdges \in Seq(DataEdges) /\ Len(dataEdges) \in Nat
        /\ Len(dataNodes) + Len(dataEdges) <= MaxElements
    BY LenProperties DEF DataTypeOK
  <2>2. CASE PayloadNode
    <3> PICK n \in DataNodes : dataNodes' = Append(dataNodes, n)
      BY <2>2 DEF PayloadNode
    <3>1. Len(dataNodes) < MaxElements /\ dataEdges = <<>> /\ dataEdges' = dataEdges
      BY <2>2 DEF PayloadNode
    <3>2. dataNodes' \in Seq(DataNodes) /\ Len(dataNodes') = Len(dataNodes) + 1
      BY <2>1, AppendProperties
    <3>3. Len(dataEdges') = 0
      BY <3>1, EmptySeq
    <3> QED
      BY <2>1, <3>1, <3>2, <3>3, DrawnAssumption DEF DataTypeOK
  <2>3. CASE PayloadEdge
    <3> PICK e \in DataEdges : dataEdges' = Append(dataEdges, e)
      BY <2>3 DEF PayloadEdge
    <3>1. Len(dataNodes) + Len(dataEdges) < MaxElements /\ dataNodes' = dataNodes
      BY <2>3 DEF PayloadEdge
    <3>2. dataEdges' \in Seq(DataEdges) /\ Len(dataEdges') = Len(dataEdges) + 1
      BY <2>1, AppendProperties
    <3> QED
      BY <2>1, <3>1, <3>2, DrawnAssumption DEF DataTypeOK
  <2>4. CASE UNCHANGED dataVars
    BY <2>4 DEF dataVars, DataTypeOK
  <2> QED
    BY <2>2, <2>3, <2>4 DEF DataNext
<1> QED
  BY <1>1, <1>2, PTL DEF DataSpec

-----------------------------------------------------------------------------
(* SetToSeq lists each element of a finite set once.                       *)
LEMMA SetToSeqFacts ==
  ASSUME NEW S, IsFiniteSet(S)
  PROVE  /\ Cardinality(S) \in Nat /\ Len(SetToSeq(S)) = Cardinality(S)
         /\ SetToSeq(S) \in Seq(S) /\ DOMAIN SetToSeq(S) = 1 .. Cardinality(S)
         /\ \A i, j \in 1 .. Cardinality(S) : SetToSeq(S)[i] = SetToSeq(S)[j] => i = j
         /\ \A x \in S : \E i \in 1 .. Cardinality(S) : SetToSeq(S)[i] = x
<1> DEFINE n == Cardinality(S)
           s == SetToSeq(S)
<1>1. n \in Nat /\ ExistsBijection(1 .. n, S)
  BY FS_CardinalityType
<1>2. \E f \in [1 .. n -> S] : IsInjective(f)
  BY <1>1 DEF ExistsBijection, Bijection, Injection, IsInjective
<1>3. s \in [1 .. n -> S] /\ IsInjective(s)
  BY <1>2 DEF SetToSeq
<1> HIDE DEF s
<1>4. s \in Seq(S)
  BY <1>1, <1>3, SeqDef
<1>5. DOMAIN s = 1 .. n /\ Len(s) \in Nat /\ DOMAIN s = 1 .. Len(s)
  BY <1>3, <1>4, LenProperties
<1>6. Len(s) = n
  <2> HIDE DEF n
  <2>1. CASE Len(s) < n
    <3>1. n \in 1 .. n /\ n \notin 1 .. Len(s)
      BY <1>1, <1>5, <2>1
    <3> QED
      BY <1>5, <3>1
  <2>2. CASE n < Len(s)
    <3>1. Len(s) \in 1 .. Len(s) /\ Len(s) \notin 1 .. n
      BY <1>1, <1>5, <2>2
    <3> QED
      BY <1>5, <3>1
  <2> QED
    BY <1>1, <1>5, <2>1, <2>2
<1>7. \A i, j \in 1 .. n : s[i] = s[j] => i = j
  BY <1>3, <1>5 DEF IsInjective
<1>8. \A x \in S : \E i \in 1 .. n : s[i] = x
  <2>1. IsFiniteSet(1 .. n) /\ Cardinality(1 .. n) = n
    BY <1>1, FS_Interval
  <2>2. s \in Injection(1 .. n, S)
    BY <1>3 DEF Injection, IsInjective
  <2>3. s \in Surjection(1 .. n, S)
    BY <2>1, <2>2, FS_Injection
  <2> QED
    BY <2>3 DEF Surjection
<1> QED
  BY <1>1, <1>4, <1>5, <1>6, <1>7, <1>8 DEF s

(* The rows of a tooltip and their count of what is left out are the       *)
(* properties, however many there are (propertyRowsHtml).                  *)
THEOREM TooltipRowsAccount ==
  ASSUME NEW properties, IsFiniteSet(DOMAIN properties), NEW marked
  PROVE  RowsShow(PropertyRows(properties, marked), properties, marked)
<1> DEFINE keys == SetToSeq(DOMAIN properties)
           N == Cardinality(DOMAIN properties)
           m == IF Len(keys) <= TooltipMax THEN Len(keys) ELSE TooltipMax
           shown == SubSeq(keys, 1, m)
           row(i) == [name |-> shown[i], key |-> shown[i] \in marked, value |-> properties[shown[i]]]
           rows == [i \in DOMAIN shown |-> row(i)]
           tip == PropertyRows(properties, marked)
<1>1. /\ N \in Nat /\ Len(keys) = N /\ keys \in Seq(DOMAIN properties) /\ DOMAIN keys = 1 .. N
      /\ \A i, j \in 1 .. N : keys[i] = keys[j] => i = j
  BY SetToSeqFacts
<1>2. tip.rows = rows /\ tip.omitted = Len(keys) - Len(shown)
  BY DEF PropertyRows
<1> HIDE DEF keys, N, tip
<1>3. m \in Nat /\ m <= N
  BY <1>1, DrawnAssumption
<1> HIDE DEF m
<1>4. /\ shown \in Seq(DOMAIN properties) /\ Len(shown) = m /\ DOMAIN shown = 1 .. m
      /\ \A i \in 1 .. m : shown[i] = keys[i] /\ shown[i] \in DOMAIN properties
  <2>1. \A i \in 1 .. m : keys[i] \in DOMAIN properties /\ i \in 1 .. N
    BY <1>1, <1>3, ElementOfSeq
  <2>2. /\ shown \in Seq(DOMAIN properties)
        /\ Len(shown) = IF 1 <= m THEN m - 1 + 1 ELSE 0
        /\ \A i \in 1 .. m - 1 + 1 : shown[i] = keys[1 + i - 1]
    BY <1>1, <1>3, <2>1, SubSeqProperties
  <2> HIDE DEF shown
  <2>3. Len(shown) = m
    BY <1>3, <2>2
  <2>4. DOMAIN shown = 1 .. m
    BY <2>2, <2>3, LenProperties
  <2>5. ASSUME NEW i \in 1 .. m PROVE shown[i] = keys[i]
    <3>1. i \in 1 .. m - 1 + 1 /\ 1 + i - 1 = i
      BY <1>3
    <3> QED
      BY <3>1, <2>2
  <2> QED
    BY <2>1, <2>2, <2>3, <2>4, <2>5
<1>5. DOMAIN rows = 1 .. m /\ Len(rows) = m
  BY <1>3, <1>4
<1> HIDE DEF shown
<1>6. ASSUME NEW i \in 1 .. m
      PROVE  /\ rows[i].name = keys[i] /\ rows[i].name \in DOMAIN properties
             /\ rows[i].value = properties[keys[i]]
             /\ rows[i].key <=> rows[i].name \in marked
  <2> DEFINE key == shown[i] \in marked
  <2>1. key \in BOOLEAN /\ (key <=> shown[i] \in marked)
    OBVIOUS
  <2>2. rows[i] = [name |-> shown[i], key |-> key, value |-> properties[shown[i]]]
    BY Zenon, <1>4
  <2> HIDE DEF key, rows
  <2> QED
    BY <1>4, <2>1, <2>2
<1> HIDE DEF rows
<1>7. Len(tip.rows) + tip.omitted = N
  BY <1>1, <1>2, <1>3, <1>4, <1>5
<1>8. ASSUME NEW i \in 1 .. m, NEW j \in 1 .. m, rows[j].name = rows[i].name PROVE i = j
  BY <1>1, <1>3, <1>6, <1>8
<1> QED
  BY <1>2, <1>5, <1>6, <1>7, <1>8 DEF RowsShow, N, tip

(* As long as the palette is large enough, two types are coloured alike    *)
(* only if they are one, and no type looks like none (buildTypeColors,     *)
(* colorForType).                                                          *)
THEOREM ColoursTellTypes ==
  ASSUME NEW types, IsFiniteSet(ToSet(types)), Cardinality(ToSet(types) \ {<<>>}) <= PaletteSize,
         NEW a \in ToSet(types), NEW b \in ToSet(types)
  PROVE  ColorForType(a, BuildTypeColors(types)) = ColorForType(b, BuildTypeColors(types)) <=> a = b
<1> DEFINE named == ToSet(types) \ {<<>>}
           N == Cardinality(named)
           distinct == SetToSeq(named)
           place(t) == CHOOSE i \in DOMAIN distinct : distinct[i] = t
           colors == BuildTypeColors(types)
<1>1. IsFiniteSet(named)
  <2>1. named \in SUBSET ToSet(types)
    OBVIOUS
  <2> QED
    BY <2>1, FS_Subset
<1>2. /\ N \in Nat /\ DOMAIN distinct = 1 .. N /\ distinct \in Seq(named) /\ Len(distinct) = N
      /\ \A x \in named : \E i \in 1 .. N : distinct[i] = x
  BY <1>1, SetToSeqFacts
<1>3. colors = [t \in ToSet(distinct) |-> (place(t) - 1) % PaletteSize]
  BY DEF BuildTypeColors
<1> HIDE DEF named, distinct, colors
<1>4. ToSet(distinct) = named
  <2>1. \A i \in 1 .. N : distinct[i] \in named
    BY <1>2, ElementOfSeq
  <2> QED
    BY <1>2, <2>1 DEF ToSet
<1>5. ASSUME NEW t \in named
      PROVE  /\ place(t) \in 1 .. N /\ distinct[place(t)] = t
             /\ ColorForType(t, colors) = place(t) - 1 /\ place(t) - 1 \in Nat /\ place(t) - 1 < PaletteSize
  <2>1. place(t) \in 1 .. N /\ distinct[place(t)] = t
    BY <1>2
  <2> HIDE DEF place
  <2>2. N <= PaletteSize /\ PaletteSize \in Nat
    BY DrawnAssumption DEF named
  <2>3. place(t) - 1 \in Nat /\ place(t) - 1 < PaletteSize
    BY <1>2, <2>1, <2>2
  <2>4. (place(t) - 1) % PaletteSize = place(t) - 1
    BY <2>2, <2>3
  <2>5. ColorForType(t, colors) = colors[t]
    BY <1>3, <1>4 DEF ColorForType, named
  <2> QED
    BY <1>3, <1>4, <2>1, <2>3, <2>4, <2>5
<1> HIDE DEF place
<1>6. ColorForType(<<>>, colors) = PaletteSize
  <2>1. ASSUME NEW t, NEW f, t = <<>>, t \notin DOMAIN f  PROVE ColorForType(t, f) = UnknownFill
    BY <2>1 DEF ColorForType
  <2>2. <<>> \notin DOMAIN colors
    BY <1>3, <1>4 DEF named
  <2> QED
    BY <2>1, <2>2 DEF UnknownFill
<1>7. a \in named \/ a = <<>>
  BY DEF named
<1>8. b \in named \/ b = <<>>
  BY DEF named
<1>9. CASE a \in named /\ b \in named
  <2>1. place(a) = place(b) => a = b
    BY <1>5, <1>9
  <2>2. place(a) - 1 = place(b) - 1 => place(a) = place(b)
    BY <1>2, <1>5, <1>9
  <2> QED
    BY <1>5, <1>9, <2>1, <2>2 DEF colors
<1>10. CASE a = <<>> \/ b = <<>>
  BY <1>5, <1>6, <1>7, <1>8, <1>10, DrawnAssumption DEF colors
<1> QED
  BY <1>7, <1>8, <1>9, <1>10

-----------------------------------------------------------------------------
(* parseGraphTypeDesc keeps what it was told: the node types are those of  *)
(* the node rows, the edge types those of the edge rows, and no row gives  *)
(* two types.  No two rows read describe one type, so no two vertices of   *)
(* described types have one name.                                          *)
SchemaInv ==
  /\ DescTypeOK
  /\ nodeTypes \in Seq({NodeTypeOf(row) : row \in DescRows})
  /\ edgeTypes \in Seq({EdgeTypeOf(row) : row \in DescRows})
  /\ ToSet(nodeTypes) = {NodeTypeOf(descRows[i]) : i \in Described("node")}
  /\ ToSet(edgeTypes) = {EdgeTypeOf(descRows[i]) : i \in Described("edge")}
  /\ \A i, j \in DOMAIN descRows :
       descRows[i].entity = descRows[j].entity /\ descRows[i].name = descRows[j].name => i = j
  /\ \A i, j \in DOMAIN nodeTypes : nodeTypes[i].name = nodeTypes[j].name => i = j

(* What appending does to a sequence and the set of its elements.          *)
LEMMA AppendToSet ==
  ASSUME NEW S, NEW s \in Seq(S), NEW x \in S
  PROVE  /\ Append(s, x) \in Seq(S) /\ Len(Append(s, x)) = Len(s) + 1 /\ Len(s) \in Nat
         /\ DOMAIN s = 1..Len(s) /\ DOMAIN Append(s, x) = 1..(Len(s) + 1)
         /\ \A i \in 1..Len(s) : Append(s, x)[i] = s[i]
         /\ Append(s, x)[Len(s) + 1] = x
         /\ ToSet(Append(s, x)) = ToSet(s) \cup {x}
<1>1. /\ Append(s, x) \in Seq(S) /\ Len(Append(s, x)) = Len(s) + 1 /\ Len(s) \in Nat
      /\ \A i \in 1..Len(s) : Append(s, x)[i] = s[i]
      /\ Append(s, x)[Len(s) + 1] = x
  BY AppendProperties, LenProperties
<1>2. DOMAIN s = 1..Len(s) /\ DOMAIN Append(s, x) = 1..(Len(s) + 1)
  BY <1>1, LenProperties
<1> DEFINE r == Append(s, x)
<1> HIDE DEF r
<1>3. ToSet(r) = ToSet(s) \cup {x}
  <2>1. DOMAIN r = 1..(Len(s) + 1) /\ (\A i \in 1..Len(s) : r[i] = s[i]) /\ r[Len(s) + 1] = x
    BY <1>1, <1>2 DEF r
  <2>2. ASSUME NEW y \in ToSet(r) PROVE y \in ToSet(s) \cup {x}
    <3>1. PICK i \in 1..(Len(s) + 1) : y = r[i]
      BY <2>1 DEF ToSet
    <3>2. i \in 1..Len(s) \/ i = Len(s) + 1
      BY <1>1
    <3> QED
      BY <2>1, <3>1, <3>2, <1>2 DEF ToSet
  <2>3. ASSUME NEW y \in ToSet(s) \cup {x} PROVE y \in ToSet(r)
    <3>1. CASE y \in ToSet(s)
      <4>1. PICK i \in 1..Len(s) : y = s[i]
        BY <1>2, <3>1 DEF ToSet
      <4>2. i \in 1..(Len(s) + 1)
        BY <1>1
      <4> QED
        BY <2>1, <4>1, <4>2 DEF ToSet
    <3>2. CASE y = x
      <4>1. Len(s) + 1 \in 1..(Len(s) + 1)
        BY <1>1
      <4> QED
        BY <2>1, <3>2, <4>1 DEF ToSet
    <3> QED
      BY <3>1, <3>2
  <2> QED
    BY <2>2, <2>3
<1> QED
  BY <1>1, <1>2, <1>3 DEF r

(* One more row (parseGraphTypeDesc).                                      *)
LEMMA ReadDescRowKeeps ==
  ASSUME SchemaInv, ReadDescRow
  PROVE  SchemaInv'
<1> PICK row \in DescRows :
      /\ \A i \in DOMAIN descRows : <<descRows[i].entity, descRows[i].name>> # <<row.entity, row.name>>
      /\ descRows' = Append(descRows, row)
      /\ CASE row.entity = "node" ->
                nodeTypes' = Append(nodeTypes, NodeTypeOf(row)) /\ UNCHANGED edgeTypes
           [] row.entity = "edge" ->
                edgeTypes' = Append(edgeTypes, EdgeTypeOf(row)) /\ UNCHANGED nodeTypes
           [] OTHER -> UNCHANGED <<nodeTypes, edgeTypes>>
  BY DEF ReadDescRow
<1>0. /\ descRows \in Seq(DescRows) /\ Len(descRows) \in Nat /\ Len(descRows) < MaxTypes /\ MaxTypes \in Nat
      /\ Len(nodeTypes) + Len(edgeTypes) <= Len(descRows)
  BY LenProperties, MaxTypesAssumption DEF ReadDescRow, SchemaInv, DescTypeOK
<1>1. /\ nodeTypes \in Seq({NodeTypeOf(r) : r \in DescRows}) /\ Len(nodeTypes) \in Nat
      /\ edgeTypes \in Seq({EdgeTypeOf(r) : r \in DescRows}) /\ Len(edgeTypes) \in Nat
      /\ ToSet(nodeTypes) = {NodeTypeOf(descRows[i]) : i \in Described("node")}
      /\ ToSet(edgeTypes) = {EdgeTypeOf(descRows[i]) : i \in Described("edge")}
  BY LenProperties DEF SchemaInv
<1>2. /\ descRows' \in Seq(DescRows) /\ Len(descRows') = Len(descRows) + 1
      /\ DOMAIN descRows = 1..Len(descRows) /\ DOMAIN descRows' = 1..(Len(descRows) + 1)
      /\ \A i \in 1..Len(descRows) : descRows'[i] = descRows[i]
      /\ descRows'[Len(descRows) + 1] = row
  BY <1>0, AppendToSet
<1> DEFINE last == Len(descRows) + 1
<1>3. ASSUME NEW entity
      PROVE  /\ Described(entity)' = Described(entity) \cup (IF row.entity = entity THEN {last} ELSE {})
             /\ Described(entity) \subseteq 1..Len(descRows)
  BY <1>0, <1>2 DEF Described
<1>4. /\ {NodeTypeOf(descRows'[i]) : i \in Described("node")} = {NodeTypeOf(descRows[i]) : i \in Described("node")}
      /\ {EdgeTypeOf(descRows'[i]) : i \in Described("edge")} = {EdgeTypeOf(descRows[i]) : i \in Described("edge")}
  BY <1>2, <1>3
<1>5. /\ nodeTypes' \in Seq({NodeTypeOf(r) : r \in DescRows})
      /\ edgeTypes' \in Seq({EdgeTypeOf(r) : r \in DescRows})
      /\ Len(nodeTypes') + Len(edgeTypes') <= Len(nodeTypes) + Len(edgeTypes) + 1
      /\ ToSet(nodeTypes') = ToSet(nodeTypes) \cup (IF row.entity = "node" THEN {NodeTypeOf(row)} ELSE {})
      /\ ToSet(edgeTypes') = ToSet(edgeTypes) \cup (IF row.entity = "edge" THEN {EdgeTypeOf(row)} ELSE {})
  <2>1. CASE row.entity = "node"
    <3>1. nodeTypes' = Append(nodeTypes, NodeTypeOf(row)) /\ edgeTypes' = edgeTypes
      BY <2>1
    <3>2. NodeTypeOf(row) \in {NodeTypeOf(r) : r \in DescRows}
      OBVIOUS
    <3>3. /\ nodeTypes' \in Seq({NodeTypeOf(r) : r \in DescRows}) /\ Len(nodeTypes') = Len(nodeTypes) + 1
          /\ ToSet(nodeTypes') = ToSet(nodeTypes) \cup {NodeTypeOf(row)}
      <4> DEFINE types == {NodeTypeOf(r) : r \in DescRows}
                 type == NodeTypeOf(row)
      <4>1. nodeTypes \in Seq(types) /\ type \in types /\ nodeTypes' = Append(nodeTypes, type)
        BY <1>1, <3>1, <3>2
      <4> HIDE DEF types, type
      <4>2. /\ nodeTypes' \in Seq(types) /\ Len(nodeTypes') = Len(nodeTypes) + 1
            /\ ToSet(nodeTypes') = ToSet(nodeTypes) \cup {type}
        BY <4>1, AppendToSet
      <4> QED
        BY <4>2 DEF types, type
    <3> QED
      BY <1>1, <2>1, <3>1, <3>3
  <2>2. CASE row.entity = "edge"
    <3>1. edgeTypes' = Append(edgeTypes, EdgeTypeOf(row)) /\ nodeTypes' = nodeTypes
      BY <2>2
    <3>2. EdgeTypeOf(row) \in {EdgeTypeOf(r) : r \in DescRows}
      OBVIOUS
    <3>3. /\ edgeTypes' \in Seq({EdgeTypeOf(r) : r \in DescRows}) /\ Len(edgeTypes') = Len(edgeTypes) + 1
          /\ ToSet(edgeTypes') = ToSet(edgeTypes) \cup {EdgeTypeOf(row)}
      <4> DEFINE types == {EdgeTypeOf(r) : r \in DescRows}
                 type == EdgeTypeOf(row)
      <4>1. edgeTypes \in Seq(types) /\ type \in types /\ edgeTypes' = Append(edgeTypes, type)
        BY <1>1, <3>1, <3>2
      <4> HIDE DEF types, type
      <4>2. /\ edgeTypes' \in Seq(types) /\ Len(edgeTypes') = Len(edgeTypes) + 1
            /\ ToSet(edgeTypes') = ToSet(edgeTypes) \cup {type}
        BY <4>1, AppendToSet
      <4> QED
        BY <4>2 DEF types, type
    <3> QED
      BY <1>1, <2>2, <3>1, <3>3
  <2>3. CASE row.entity # "node" /\ row.entity # "edge"
    <3>1. nodeTypes' = nodeTypes /\ edgeTypes' = edgeTypes
      BY <2>3
    <3> QED
      BY <1>1, <2>3, <3>1
  <2> QED
    BY <2>1, <2>2, <2>3
<1>6. DescTypeOK'
  BY <1>0, <1>1, <1>2, <1>5, LenProperties DEF DescTypeOK
<1>7. ToSet(nodeTypes') = {NodeTypeOf(descRows'[i]) : i \in Described("node")'}
  BY <1>1, <1>2, <1>3, <1>4, <1>5
<1>8. ToSet(edgeTypes') = {EdgeTypeOf(descRows'[i]) : i \in Described("edge")'}
  BY <1>1, <1>2, <1>3, <1>4, <1>5
<1>9. \A i \in 1..Len(descRows) : descRows[i].entity # row.entity \/ descRows[i].name # row.name
  BY <1>2
<1>10. ASSUME NEW i \in DOMAIN descRows', NEW j \in DOMAIN descRows',
              descRows'[i].entity = descRows'[j].entity /\ descRows'[i].name = descRows'[j].name
       PROVE  i = j
  <2>1. (i \in 1..Len(descRows) \/ i = last) /\ (j \in 1..Len(descRows) \/ j = last)
    BY <1>0, <1>2
  <2>2. \A k, l \in 1..Len(descRows) :
          descRows[k].entity = descRows[l].entity /\ descRows[k].name = descRows[l].name => k = l
    BY <1>2 DEF SchemaInv
  <2> QED
    BY <1>2, <1>9, <1>10, <2>1, <2>2
<1>11. ASSUME NEW i \in DOMAIN nodeTypes', NEW j \in DOMAIN nodeTypes', nodeTypes'[i].name = nodeTypes'[j].name
       PROVE  i = j
  <2>1. CASE row.entity = "node"
    <3>1. nodeTypes' = Append(nodeTypes, NodeTypeOf(row)) /\ NodeTypeOf(row) \in {NodeTypeOf(r) : r \in DescRows}
      BY <2>1
    <3>2. /\ DOMAIN nodeTypes = 1..Len(nodeTypes) /\ DOMAIN nodeTypes' = 1..(Len(nodeTypes) + 1)
          /\ \A k \in 1..Len(nodeTypes) : nodeTypes'[k] = nodeTypes[k]
          /\ nodeTypes'[Len(nodeTypes) + 1] = NodeTypeOf(row)
      BY <1>1, <3>1, AppendToSet
    <3>3. ASSUME NEW k \in 1..Len(nodeTypes) PROVE nodeTypes[k].name # NodeTypeOf(row).name
      <4>1. nodeTypes[k] \in ToSet(nodeTypes)
        BY <3>2 DEF ToSet
      <4>2. PICK l \in Described("node") : nodeTypes[k] = NodeTypeOf(descRows[l])
        BY <1>1, <4>1
      <4>3. l \in 1..Len(descRows) /\ descRows[l].entity = "node"
        BY <1>2, <4>2 DEF Described
      <4>4. NodeTypeOf(descRows[l]).name = descRows[l].name /\ NodeTypeOf(row).name = row.name
        BY DEF NodeTypeOf
      <4> QED
        BY <1>9, <2>1, <4>2, <4>3, <4>4
    <3>4. (i \in 1..Len(nodeTypes) \/ i = Len(nodeTypes) + 1) /\ (j \in 1..Len(nodeTypes) \/ j = Len(nodeTypes) + 1)
      BY <1>1, <3>2
    <3>5. \A k, l \in 1..Len(nodeTypes) : nodeTypes[k].name = nodeTypes[l].name => k = l
      BY <3>2 DEF SchemaInv
    <3> QED
      BY <1>11, <3>2, <3>3, <3>4, <3>5
  <2>2. CASE row.entity # "node"
    <3>1. nodeTypes' = nodeTypes
      BY <2>2
    <3> QED
      BY <1>11, <3>1 DEF SchemaInv
  <2> QED
    BY <2>1, <2>2
<1> QED
  BY <1>5, <1>6, <1>7, <1>8, <1>10, <1>11 DEF SchemaInv

(* What the overview keeps of the answer is what the answer's rows say, in *)
(* every answer and after every row of it (parseGraphTypeDesc).            *)
THEOREM OverviewOfRows == SchemaSpec => []SchemaInv
<1>1. SchemaInit => SchemaInv
  <2> SUFFICES ASSUME SchemaInit PROVE SchemaInv
    OBVIOUS
  <2>1. descRows = <<>> /\ nodeTypes = <<>> /\ edgeTypes = <<>>
    BY DEF SchemaInit
  <2>2. \A entity : Described(entity) = {}
    BY <2>1, EmptySeq DEF Described
  <2>3. ToSet(nodeTypes) = {} /\ ToSet(edgeTypes) = {}
    BY <2>1, EmptySeq DEF ToSet
  <2>4. DescTypeOK
    BY <2>1, EmptySeq, MaxTypesAssumption DEF DescTypeOK
  <2> QED
    BY <2>1, <2>2, <2>3, <2>4, EmptySeq DEF SchemaInv
<1>2. SchemaInv /\ [SchemaNext]_schemaVars => SchemaInv'
  <2> SUFFICES ASSUME SchemaInv, [SchemaNext]_schemaVars PROVE SchemaInv'
    OBVIOUS
  <2>1. CASE SchemaNext
    BY <2>1, ReadDescRowKeeps DEF SchemaNext
  <2>2. CASE UNCHANGED schemaVars
    BY <2>2 DEF schemaVars, SchemaInv, DescTypeOK, Described
  <2> QED
    BY <2>1, <2>2
<1> QED
  BY <1>1, <1>2, PTL DEF SchemaSpec

(* A set of numbers that is not empty has a least one. *)
LEMMA LeastNumber ==
  ASSUME NEW S \in SUBSET Nat, S # {}
  PROVE  \E n \in S : \A m \in S : n <= m
<1>1. PICK n \in S : \A m \in S : ~(<<m, n>> \in OpToRel(<, Nat))
  BY NatLessThanWellFounded, WFMin
<1>2. \A m \in S : ~(m < n)
  BY <1>1 DEF OpToRel
<1>3. QED
  BY <1>2

-----------------------------------------------------------------------------
(* A list sent as text, none of whose names has a comma, is cut into those *)
(* very names (parseListCell).                                             *)
LEMMA SinglesFlattened ==
  ASSUME NEW S, NEW names \in Seq(S), NEW singles \in Seq(Seq(S)), Len(singles) = Len(names),
         \A i \in 1 .. Len(names) : singles[i] = <<names[i]>>
  PROVE  FlattenSeq(singles) = names
<1> DEFINE n == Len(names)
           Step(g) == [i \in 1 .. n |-> IF i = 1 THEN singles[i] ELSE g[i - 1] \o singles[i]]
           prefix(i) == SubSeq(names, 1, i)
           prefixes == [i \in 1 .. n |-> prefix(i)]
           flatten == CHOOSE g : g = Step(g)
<1>1. n \in Nat /\ DOMAIN names = 1 .. n
  BY LenProperties
<1>2. CASE n = 0
  BY <1>2, EmptySeq DEF FlattenSeq
<1>3. CASE n # 0
  <2>1. n \in 1 .. n /\ 1 \in 1 .. n
    BY <1>1, <1>3
  <2>2. \A i \in 1 .. n : prefix(i) \in Seq(S) /\ Len(prefix(i)) = i /\ \A j \in 1 .. i : prefix(i)[j] = names[j]
    <3> SUFFICES ASSUME NEW i \in 1 .. n
                 PROVE  prefix(i) \in Seq(S) /\ Len(prefix(i)) = i /\ \A j \in 1 .. i : prefix(i)[j] = names[j]
      OBVIOUS
    <3> QED
      BY <1>1
  <2>3. prefix(1) = singles[1]
    <3>1. names[1] \in S /\ <<names[1]>> \in Seq(S) /\ Len(<<names[1]>>) = 1 /\ <<names[1]>>[1] = names[1]
      BY <1>1, <2>1, ElementOfSeq
    <3>2. prefix(1) \in Seq(S) /\ Len(prefix(1)) = 1 /\ prefix(1)[1] = names[1]
      BY <2>1, <2>2
    <3> HIDE DEF prefix
    <3>3. prefix(1) = <<names[1]>>
      BY <3>1, <3>2, SeqEqual
    <3> QED
      BY <2>1, <3>3
  <2>4. ASSUME NEW i \in 1 .. n, i # 1 PROVE prefix(i) = prefix(i - 1) \o singles[i]
    <3>1. i - 1 \in 1 .. n
      BY <1>1, <2>4
    <3>2. singles[i] = <<names[i]>> /\ names[i] \in S
      BY <1>1
    <3> HIDE DEF n
    <3> QED
      BY <1>1, <2>4, <3>1, <3>2 DEF n
  <2> HIDE DEF prefix
  <2>5. prefixes = Step(prefixes)
    <3>1. \A i \in 1 .. n : i # 1 => i - 1 \in 1 .. n
      BY <1>1
    <3>2. \A i \in 1 .. n : prefixes[i] = IF i = 1 THEN singles[i] ELSE prefixes[i - 1] \o singles[i]
      BY <2>3, <2>4, <3>1
    <3> QED
      BY <3>2
  <2>6. flatten = Step(flatten)
    BY <2>5
  <2>7. \A i \in 1 .. n : flatten[i] = IF i = 1 THEN singles[i] ELSE flatten[i - 1] \o singles[i]
    BY <2>6
  <2> DEFINE wrong == {i \in 1 .. n : flatten[i] # prefix(i)}
  <2>8. FlattenSeq(singles) = flatten[n]
    BY <1>1, <1>3 DEF FlattenSeq
  <2> HIDE DEF flatten
  <2>9. wrong = {}
    <3> SUFFICES ASSUME wrong # {} PROVE FALSE
      OBVIOUS
    <3>1. wrong \in SUBSET Nat
      BY <1>1
    <3> HIDE DEF wrong
    <3>2. PICK i \in wrong : \A j \in wrong : i <= j
      BY <3>1, LeastNumber
    <3> USE DEF wrong
    <3>3. CASE i = 1
      BY <2>3, <2>7, <3>2, <3>3
    <3>4. CASE i # 1
      <4>1. i - 1 \in 1 .. n /\ i - 1 \notin wrong
        BY <1>1, <3>2, <3>4
      <4> QED
        BY <2>4, <2>7, <3>2, <3>4, <4>1
    <3> QED
      BY <3>3, <3>4
  <2>10. prefix(n) = names
    BY <1>1, <2>1 DEF prefix
  <2> QED
    BY <2>1, <2>8, <2>9, <2>10
<1> QED
  BY <1>2, <1>3

(* A cell none of whose names has a comma is read as the names it stands   *)
(* for, in whichever form it arrives (parseListCell).                      *)
LEMMA CellsRead ==
  ASSUME NEW cell \in CellType, cell.form = "null" => cell.names = <<>>, Told(cell)
  PROVE  ParseListCell(cell) = cell.names
<1> DEFINE names == cell.names
           cut(i) == [j \in DOMAIN names[i] |-> <<names[i][j]>>]
           cuts == [i \in DOMAIN names |-> cut(i)]
<1>1. names \in Seq(Seq(STRING)) /\ cell.form \in {"array", "list text", "text", "null"}
  BY DEF CellType
<1>2. CASE cell.form = "list text"
  <2>1. \A i \in DOMAIN names : Len(names[i]) = 1
    BY <1>2 DEF Told
  <2>2. Len(names) \in Nat /\ DOMAIN names = 1 .. Len(names)
    BY <1>1, LenProperties
  <2>3. ASSUME NEW i \in 1 .. Len(names) PROVE cut(i) = <<names[i]>> /\ cut(i) \in Seq(Seq(STRING))
    <3>1. names[i] \in Seq(STRING) /\ Len(names[i]) = 1 /\ DOMAIN names[i] = 1 .. 1
      BY <1>1, <2>1, <2>2, ElementOfSeq, LenProperties
    <3> DEFINE name == names[i]
    <3>2. name \in Seq(STRING) /\ Len(name) = 1 /\ DOMAIN name = 1 .. 1
      BY <3>1
    <3> HIDE DEF name
    <3>3. name[1] \in STRING /\ <<name[1]>> = name
      <4>1. name[1] \in STRING
        <5>1. 1 \in 1 .. Len(name)
          BY <3>2
        <5> QED
          BY <3>2, <5>1, ElementOfSeq
      <4>2. <<name[1]>> \in Seq(STRING) /\ Len(<<name[1]>>) = 1 /\ <<name[1]>>[1] = name[1]
        BY <4>1
      <4> DEFINE single == <<name[1]>>
      <4>3. single \in Seq(STRING) /\ Len(single) = Len(name) /\ \A j \in 1 .. Len(single) : single[j] = name[j]
        BY <3>2, <4>1, <4>2
      <4> HIDE DEF single
      <4>4. single = name
        BY <3>2, <4>3, SeqEqual
      <4> QED
        BY <4>1, <4>4 DEF single
    <3>4. [j \in DOMAIN name |-> <<name[j]>>] = <<<<name[1]>>>>
      BY <3>2
    <3>5. <<name>> \in Seq(Seq(STRING))
      BY <3>2
    <3> QED
      BY <3>3, <3>4, <3>5 DEF name
  <2>4. ParseListCell(cell) = FlattenSeq(cuts)
    BY <1>2 DEF ParseListCell
  <2> HIDE DEF cut
  <2>5. cuts \in Seq(Seq(Seq(STRING))) /\ Len(cuts) = Len(names) /\ \A i \in 1 .. Len(names) : cuts[i] = <<names[i]>>
    <3>1. \A i \in 1 .. Len(names) : cut(i) \in Seq(Seq(STRING))
      BY <2>3
    <3>2. cuts \in [1 .. Len(names) -> Seq(Seq(STRING))]
      BY <2>2, <3>1
    <3> QED
      BY <2>2, <2>3, <3>2
  <2> HIDE DEF cuts
  <2> QED
    BY <1>1, <2>4, <2>5, SinglesFlattened
<1>3. CASE cell.form # "list text"
  BY <1>1, <1>3 DEF ParseListCell
<1> QED
  BY <1>2, <1>3

(* The rows of names in a schema tooltip and their count of what is left   *)
(* out are the names, in their order (schemaNodeTooltip, schemaEdgeTooltip). *)
LEMMA NameRowsAccount ==
  ASSUME NEW S, NEW names \in Seq(S), NEW marked
  PROVE  /\ Len(NameRows(names, marked).rows) + NameRows(names, marked).omitted = Len(names)
         /\ \A i \in DOMAIN NameRows(names, marked).rows : NameRows(names, marked).rows[i].name = names[i]
<1> DEFINE m == IF Len(names) <= TooltipMax THEN Len(names) ELSE TooltipMax
           shown == SubSeq(names, 1, m)
           rows == [i \in DOMAIN shown |-> [name |-> shown[i], key |-> shown[i] \in marked]]
           tip == NameRows(names, marked)
<1>1. tip.rows = rows /\ tip.omitted = Len(names) - Len(shown)
  BY DEF NameRows
<1> HIDE DEF tip
<1>2. m \in Nat /\ m <= Len(names) /\ Len(names) \in Nat
  BY DrawnAssumption, LenProperties
<1> HIDE DEF m
<1>3. Len(shown) = m /\ DOMAIN shown = 1 .. m /\ \A i \in 1 .. m : shown[i] = names[i]
  <2>1. \A i \in 1 .. m : names[i] \in S
    BY <1>2, ElementOfSeq
  <2>2. /\ shown \in Seq(S)
        /\ Len(shown) = IF 1 <= m THEN m - 1 + 1 ELSE 0
        /\ \A i \in 1 .. m - 1 + 1 : shown[i] = names[1 + i - 1]
    BY <1>2, <2>1, SubSeqProperties
  <2> HIDE DEF shown
  <2>3. Len(shown) = m
    BY <1>2, <2>2
  <2>4. DOMAIN shown = 1 .. m
    BY <2>2, <2>3, LenProperties
  <2>5. ASSUME NEW i \in 1 .. m PROVE shown[i] = names[i]
    <3>1. i \in 1 .. m - 1 + 1 /\ 1 + i - 1 = i
      BY <1>2
    <3> QED
      BY <3>1, <2>2
  <2> QED
    BY <2>3, <2>4, <2>5
<1> HIDE DEF shown
<1>4. DOMAIN rows = 1 .. m /\ Len(rows) = m /\ \A i \in 1 .. m : rows[i].name = names[i]
  BY <1>2, <1>3
<1> HIDE DEF rows
<1> QED
  BY <1>1, <1>2, <1>3, <1>4 DEF tip

(* Exactly the names of the key are marked in the rows.                    *)
LEMMA KeyRowsMarked ==
  ASSUME NEW names, NEW marked
  PROVE  \A i \in DOMAIN NameRows(names, marked).rows :
           NameRows(names, marked).rows[i].key <=> NameRows(names, marked).rows[i].name \in marked
<1> DEFINE shown == SubSeq(names, 1, IF Len(names) <= TooltipMax THEN Len(names) ELSE TooltipMax)
           tip == NameRows(names, marked)
           rows == [i \in DOMAIN shown |-> [name |-> shown[i], key |-> shown[i] \in marked]]
<1>1. tip.rows = rows
  BY DEF NameRows
<1> HIDE DEF shown, tip
<1>2. ASSUME NEW i \in DOMAIN shown PROVE rows[i].name = shown[i] /\ (rows[i].key <=> shown[i] \in marked)
  <2> DEFINE key == shown[i] \in marked
  <2>1. key \in BOOLEAN /\ (key <=> shown[i] \in marked)
    OBVIOUS
  <2>2. rows[i] = [name |-> shown[i], key |-> key]
    BY Zenon
  <2> HIDE DEF key, rows
  <2> QED
    BY <2>1, <2>2
<1>3. DOMAIN rows = DOMAIN shown
  OBVIOUS
<1> HIDE DEF rows
<1> QED
  BY <1>1, <1>2, <1>3 DEF tip

(* What is known of a row of an answer, and how its cells are read.        *)
LEMMA RowFacts ==
  ASSUME NEW row \in DescRows
  PROVE  /\ row.name \in STRING /\ row.pattern \in Seq(STRING) /\ (row.entity = "edge" => Len(row.pattern) = 2)
         /\ row.labels \in CellType /\ row.key \in CellType /\ row.properties \in CellType
         /\ Told(row.labels) => ParseListCell(row.labels) = row.labels.names
         /\ Told(row.key) => ParseListCell(row.key) = row.key.names
         /\ Told(row.properties) => ParseListCell(row.properties) = row.properties.names
<1>1. row \in [entity : STRING, name : STRING, pattern : Seq(STRING),
               labels : CellType, key : CellType, properties : CellType]
  BY DescRowsAssumption
<1>2. /\ row.entity = "edge" => Len(row.pattern) = 2
      /\ \A cell \in {row.labels, row.key, row.properties} : cell.form = "null" => cell.names = <<>>
  BY DescRowsAssumption
<1> QED
  BY <1>1, <1>2, CellsRead

(* A described node type is shown as its row says (buildSchemaGraphMeta,   *)
(* toSchemaG6Data, schemaNodeTooltip).                                     *)
LEMMA DescribedShown ==
  ASSUME NEW row \in DescRows
  PROVE  VertexShows(Vertex(NodeTypeOf(row)), row)
<1> DEFINE v == Vertex(NodeTypeOf(row))
           d == G6Vertex(v).data
           tip == SchemaNodeTooltip(d)
           key == ParseListCell(row.key)
           properties == ParseListCell(row.properties)
<1>1. /\ d.name = row.name /\ d.labels = ParseListCell(row.labels) /\ d.primaryKey = key /\ d.properties = properties
      /\ d.label = Lines(<<<<row.name>>, ParseListCell(row.labels)>>)
  BY DEF Vertex, NodeTypeOf, G6Vertex
<1> HIDE DEF d, key, properties
<1>2. /\ tip.name = row.name /\ tip.labels = ParseListCell(row.labels) /\ tip.key = key
      /\ tip.properties = NameRows(properties, ToSet(key))
  BY <1>1 DEF SchemaNodeTooltip
<1> HIDE DEF tip
<1>3. ShowsNames(tip.labels, row.labels) /\ ShowsNames(tip.key, row.key)
  BY <1>2, RowFacts DEF ShowsNames, key
<1>4. ShowsRows(tip.properties, row.properties)
  <2> SUFFICES ASSUME Told(row.properties)
               PROVE  /\ Len(tip.properties.rows) + tip.properties.omitted = Len(properties)
                      /\ \A i \in DOMAIN tip.properties.rows : tip.properties.rows[i].name = properties[i]
    BY RowFacts DEF ShowsRows, properties
  <2>1. properties \in Seq(Seq(STRING))
    BY RowFacts DEF properties, CellType
  <2> QED
    BY <1>2, <2>1, NameRowsAccount
<1>5. Told(row.labels) => d.label = Lines(<<<<row.name>>, row.labels.names>>)
  BY <1>1, RowFacts
<1>6. ASSUME Told(row.key), NEW i \in DOMAIN tip.properties.rows
      PROVE  tip.properties.rows[i].key <=> Contains(row.key.names, tip.properties.rows[i].name)
  <2>1. tip.properties.rows[i].key <=> tip.properties.rows[i].name \in ToSet(key)
    BY <1>2, KeyRowsMarked
  <2>2. key = row.key.names /\ DOMAIN key = 1 .. Len(key)
    <3>1. key = row.key.names
      BY <1>6, RowFacts DEF key
    <3>2. row.key.names \in Seq(Seq(STRING))
      BY RowFacts DEF CellType
    <3> QED
      BY <3>1, <3>2, LenProperties
  <2>3. ASSUME NEW x PROVE x \in ToSet(key) <=> Contains(key, x)
    BY <2>2 DEF ToSet, Contains
  <2> QED
    BY <2>1, <2>2, <2>3
<1> QED
  BY <1>2, <1>3, <1>4, <1>5, <1>6 DEF VertexShows, tip, d

(* What an end of an edge type may be called. *)
EndNames == STRING \cup {""}

(* The first and the last of at most two places. *)
LEMMA LeastAndGreatest ==
  /\ Min({1}) = 1 /\ Max({1}) = 1
  /\ Min({2}) = 2 /\ Max({2}) = 2
  /\ Min({1, 2}) = 1 /\ Max({1, 2}) = 2
<1>1. ASSUME NEW S, NEW n \in S, \A y \in S : y \in Nat, \A y \in S : n <= y  PROVE Min(S) = n
  <2>1. Min(S) \in S /\ \A y \in S : Min(S) <= y
    BY <1>1, Zenon DEF Min
  <2> QED
    BY <1>1, <2>1
<1>2. ASSUME NEW S, NEW n \in S, \A y \in S : y \in Nat, \A y \in S : n >= y  PROVE Max(S) = n
  <2>1. Max(S) \in S /\ \A y \in S : Max(S) >= y
    BY <1>2, Zenon DEF Max
  <2> QED
    BY <1>2, <2>1
<1>3. Min({1}) = 1 /\ Min({2}) = 2 /\ Min({1, 2}) = 1
  BY <1>1
<1>4. Max({1}) = 1 /\ Max({2}) = 2 /\ Max({1, 2}) = 2
  BY <1>2
<1> QED
  BY <1>3, <1>4

(* The ends of an edge type: those of its pattern if both have a name.     *)
LEMMA EndsOfPattern ==
  ASSUME NEW row \in DescRows, row.entity = "edge"
  PROVE  /\ EdgeTypeOf(row).source \in EndNames /\ EdgeTypeOf(row).target \in EndNames
         /\ EdgeTypeOf(row).name = row.name
         /\ ToSet(row.pattern) = {Head(row.pattern), Last(row.pattern)}
         /\ ~Anonymous(row) => /\ EdgeTypeOf(row).source = Head(row.pattern)
                               /\ EdgeTypeOf(row).target = Last(row.pattern)
<1> DEFINE p == row.pattern
           groups == ParsePatternGroups(p)
<1>1. p \in Seq(STRING) /\ Len(p) = 2 /\ DOMAIN p = {1, 2}
  BY RowFacts, LenProperties
<1>2. p[1] \in STRING /\ p[2] \in STRING /\ Head(p) = p[1] /\ Last(p) = p[2]
  BY <1>1, ElementOfSeq DEF Last
<1>3. /\ EdgeTypeOf(row).source = IF groups = {} THEN "" ELSE p[Min(groups)]
      /\ EdgeTypeOf(row).target = IF groups = {} THEN "" ELSE p[Max(groups)]
      /\ EdgeTypeOf(row).name = row.name
  BY DEF EdgeTypeOf
<1>4. groups \subseteq {1, 2} /\ (~Anonymous(row) => groups = {1, 2})
  BY <1>1 DEF ParsePatternGroups, Anonymous, ToSet
<1>5. ToSet(p) = {p[1], p[2]}
  BY <1>1 DEF ToSet
<1> HIDE DEF p, groups
<1>6. groups # {} => Min(groups) \in {1, 2} /\ Max(groups) \in {1, 2}
  <2>1. groups = {} \/ groups = {1} \/ groups = {2} \/ groups = {1, 2}
    BY <1>4
  <2> QED
    BY <2>1, LeastAndGreatest
<1>7. groups = {1, 2} => Min(groups) = 1 /\ Max(groups) = 2
  BY LeastAndGreatest
<1>8. EdgeTypeOf(row).source \in EndNames /\ EdgeTypeOf(row).target \in EndNames
  <2>1. CASE groups = {}
    <3>1. EdgeTypeOf(row).source = "" /\ EdgeTypeOf(row).target = ""
      BY <1>3, <2>1
    <3> QED
      BY <3>1 DEF EndNames
  <2>2. CASE groups # {}
    <3>1. EdgeTypeOf(row).source = p[Min(groups)] /\ EdgeTypeOf(row).target = p[Max(groups)]
      BY <1>3, <2>2
    <3>2. \A i \in {1, 2} : p[i] \in STRING
      BY <1>2
    <3> QED
      BY <1>6, <2>2, <3>1, <3>2 DEF EndNames
  <2> QED
    BY <2>1, <2>2
<1>9. groups = {1, 2} => EdgeTypeOf(row).source = p[1] /\ EdgeTypeOf(row).target = p[2]
  <2> SUFFICES ASSUME groups = {1, 2} PROVE EdgeTypeOf(row).source = p[1] /\ EdgeTypeOf(row).target = p[2]
    OBVIOUS
  <2>1. groups # {}
    OBVIOUS
  <2> QED
    BY <1>3, <1>7, <2>1
<1>10. ToSet(p) = {Head(p), Last(p)}
  BY <1>2, <1>5
<1>11. ~Anonymous(row) => EdgeTypeOf(row).source = Head(p) /\ EdgeTypeOf(row).target = Last(p)
  BY <1>2, <1>4, <1>9
<1> QED
  BY <1>3, <1>8, <1>10, <1>11 DEF p

(* An edge type both of whose ends have a name is shown as its row says    *)
(* (toSchemaG6Data, schemaEdgeTooltip).                                    *)
LEMMA EdgeTypeShown ==
  ASSUME NEW row \in DescRows, row.entity = "edge", ~Anonymous(row)
  PROVE  ArcShows(Arc(EdgeTypeOf(row)), row)
<1> DEFINE type == EdgeTypeOf(row)
           a == Arc(type)
           g == G6Arc(a)
           tip == SchemaEdgeTooltip(g.data)
           key == ParseListCell(row.key)
           properties == ParseListCell(row.properties)
<1>1. type.name = row.name /\ type.multiedgeKey = key /\ type.properties = properties
  BY DEF EdgeTypeOf
<1> HIDE DEF type, key, properties
<1>2. /\ a.name = row.name /\ a.multiedgeKey = key /\ a.properties = properties
      /\ a.source = type.source /\ a.target = type.target
  BY <1>1 DEF Arc
<1> HIDE DEF a
<1>3. /\ g.source = a.source /\ g.target = a.target
      /\ g.data.name = a.name /\ g.data.multiedgeKey = a.multiedgeKey /\ g.data.properties = a.properties
  BY DEF G6Arc
<1> HIDE DEF g
<1>4. /\ tip.name = row.name /\ tip.properties = NameRows(properties, {})
      /\ tip.key = IF key # <<>> /\ key[1] \notin {<<"Unique">>, <<"Auto">>} THEN key ELSE <<>>
  BY <1>2, <1>3 DEF SchemaEdgeTooltip, KeyShown
<1> HIDE DEF tip
<1>5. <<g.source, g.target>> = <<Head(row.pattern), Last(row.pattern)>>
  BY <1>2, <1>3, EndsOfPattern DEF type
<1>6. ShowsRows(tip.properties, row.properties)
  <2> SUFFICES ASSUME Told(row.properties)
               PROVE  /\ Len(tip.properties.rows) + tip.properties.omitted = Len(properties)
                      /\ \A i \in DOMAIN tip.properties.rows : tip.properties.rows[i].name = properties[i]
    BY RowFacts DEF ShowsRows, properties
  <2>1. properties \in Seq(Seq(STRING))
    BY RowFacts DEF properties, CellType
  <2> QED
    BY <1>4, <2>1, NameRowsAccount
<1>7. ASSUME Told(row.key), ~LooksMarked(row.key)
      PROVE  tip.key = IF Marked(row.key) THEN <<>> ELSE row.key.names
  <2>1. key = row.key.names
    BY <1>7, RowFacts DEF key
  <2>2. CASE Marked(row.key)
    <3>1. key = <<<<"Unique">>>> \/ key = <<<<"Auto">>>>
      BY <2>1, <2>2 DEF Marked
    <3>2. key[1] \in {<<"Unique">>, <<"Auto">>}
      BY <3>1
    <3> QED
      BY <1>4, <2>2, <3>2
  <2>3. CASE ~Marked(row.key)
    BY <1>4, <1>7, <2>1, <2>3 DEF LooksMarked
  <2> QED
    BY <2>2, <2>3
<1> QED
  BY <1>4, <1>5, <1>6, <1>7 DEF ArcShows, tip, g, a, type

-----------------------------------------------------------------------------
(* What buildSchemaGraphMeta has made of its vertices when the types named *)
(* so far have theirs: one for each name, the described ones as described. *)
VertexSet == {Vertex(NodeTypeOf(row)) : row \in DescRows} \cup {Placeholder(x) : x \in EndNames}

Vertices(vs, named) ==
  /\ vs \in Seq(VertexSet)
  /\ \A i \in DOMAIN vs : vs[i].name \in named
  /\ \A x \in named : \E i \in DOMAIN vs : vs[i].name = x
  /\ \A i, j \in DOMAIN vs : vs[i].name = vs[j].name => i = j
  /\ \A i \in DOMAIN nodeTypes : i \in DOMAIN vs /\ vs[i] = Vertex(nodeTypes[i])
  /\ \A i \in DOMAIN vs \ DOMAIN nodeTypes : vs[i] = Placeholder(vs[i].name)

DescribedNames == {nodeTypes[i].name : i \in DOMAIN nodeTypes}
NamedUpTo(n) == DescribedNames \cup UNION {{edgeTypes[k].source, edgeTypes[k].target} : k \in 1 .. n}

(* An end gets its vertex, and the others stay as they were.               *)
LEMMA EndAdded ==
  ASSUME NEW vs, NEW named, Vertices(vs, named), NEW x \in EndNames
  PROVE  Vertices(WithEnd(vs, x), named \cup {x})
<1>1. CASE \E i \in DOMAIN vs : vs[i].name = x
  <2>1. WithEnd(vs, x) = vs
    BY <1>1 DEF WithEnd
  <2>2. x \in named
    BY <1>1 DEF Vertices
  <2>3. named \cup {x} = named
    BY <2>2
  <2> QED
    BY <2>1, <2>3
<1>2. CASE ~\E i \in DOMAIN vs : vs[i].name = x
  <2> DEFINE w == Append(vs, Placeholder(x))
             n == Len(vs)
  <2>1. WithEnd(vs, x) = w
    BY <1>2, Zenon DEF WithEnd
  <2>2. vs \in Seq(VertexSet) /\ Placeholder(x) \in VertexSet
    BY DEF Vertices, VertexSet
  <2>3. /\ w \in Seq(VertexSet) /\ n \in Nat
        /\ DOMAIN vs = 1 .. n /\ DOMAIN w = 1 .. (n + 1)
        /\ \A i \in 1 .. n : w[i] = vs[i]
        /\ w[n + 1] = Placeholder(x)
    BY <2>2, AppendToSet
  <2>4. Placeholder(x).name = x
    BY DEF Placeholder, Vertex
  <2> HIDE DEF w, n
  <2>5. \A i \in 1 .. (n + 1) : i \in 1 .. n \/ i = n + 1
    BY <2>3
  <2>6. \A i \in 1 .. n : i \in 1 .. (n + 1)
    BY <2>3
  <2>7. \A i \in DOMAIN w : w[i].name \in named \cup {x}
    BY <2>3, <2>4, <2>5 DEF Vertices
  <2>8. ASSUME NEW y \in named \cup {x} PROVE \E i \in DOMAIN w : w[i].name = y
    <3>1. CASE y = x
      <4>1. n + 1 \in DOMAIN w
        BY <2>3
      <4> QED
        BY <2>3, <2>4, <3>1, <4>1
    <3>2. CASE y \in named
      <4>1. PICK i \in 1 .. n : vs[i].name = y
        BY <2>3, <3>2 DEF Vertices
      <4> QED
        BY <2>3, <2>6, <4>1
    <3> QED
      BY <3>1, <3>2
  <2>9. ASSUME NEW i \in DOMAIN w, NEW j \in DOMAIN w, w[i].name = w[j].name PROVE i = j
    <3>1. \A k \in 1 .. n : vs[k].name # x
      BY <1>2, <2>3
    <3>2. \A k, l \in 1 .. n : vs[k].name = vs[l].name => k = l
      BY <2>3 DEF Vertices
    <3> QED
      BY <2>3, <2>4, <2>5, <2>9, <3>1, <3>2
  <2>10. \A i \in DOMAIN nodeTypes : i \in DOMAIN w /\ w[i] = Vertex(nodeTypes[i])
    BY <2>3, <2>6 DEF Vertices
  <2>11. ASSUME NEW i \in DOMAIN w \ DOMAIN nodeTypes PROVE w[i] = Placeholder(w[i].name)
    <3>1. CASE i \in 1 .. n
      BY <2>3, <2>11, <3>1 DEF Vertices
    <3>2. CASE i = n + 1
      BY <2>3, <2>4, <3>2
    <3> QED
      BY <2>3, <2>5, <2>11, <3>1, <3>2
  <2> QED
    BY <2>1, <2>3, <2>7, <2>8, <2>9, <2>10, <2>11 DEF Vertices
<1> QED
  BY <1>1, <1>2

(* The described types come first.                                         *)
LEMMA DescribedFirst ==
  ASSUME SchemaInv
  PROVE  Vertices([i \in DOMAIN nodeTypes |-> Vertex(nodeTypes[i])], DescribedNames)
<1> DEFINE n == Len(nodeTypes)
           vs == [i \in DOMAIN nodeTypes |-> Vertex(nodeTypes[i])]
<1>1. /\ nodeTypes \in Seq({NodeTypeOf(row) : row \in DescRows})
      /\ n \in Nat /\ DOMAIN nodeTypes = 1 .. n
  BY LenProperties DEF SchemaInv
<1>2. \A i \in 1 .. n : Vertex(nodeTypes[i]) \in VertexSet /\ Vertex(nodeTypes[i]).name = nodeTypes[i].name
  <2> SUFFICES ASSUME NEW i \in 1 .. n
               PROVE  Vertex(nodeTypes[i]) \in VertexSet /\ Vertex(nodeTypes[i]).name = nodeTypes[i].name
    OBVIOUS
  <2>1. PICK row \in DescRows : nodeTypes[i] = NodeTypeOf(row)
    <3>1. nodeTypes[i] \in {NodeTypeOf(row) : row \in DescRows}
      BY <1>1, ElementOfSeq
    <3> QED
      BY <3>1
  <2> QED
    BY <2>1 DEF VertexSet, Vertex
<1>3. vs \in [1 .. n -> VertexSet] /\ DOMAIN vs = 1 .. n
  BY <1>1, <1>2
<1>4. vs \in Seq(VertexSet)
  BY <1>1, <1>3
<1>5. \A i \in 1 .. n : vs[i] = Vertex(nodeTypes[i]) /\ vs[i].name = nodeTypes[i].name
  BY <1>1, <1>2
<1> HIDE DEF vs
<1> QED
  BY <1>1, <1>3, <1>4, <1>5 DEF Vertices, DescribedNames, SchemaInv

(* The recursion of WithEnds is what it says for any number of edge types. *)
LEMMA WithEndsComputed ==
  ASSUME Len(edgeTypes) \in Nat
  PROVE  /\ WithEnds[0] = [i \in DOMAIN nodeTypes |-> Vertex(nodeTypes[i])]
         /\ \A n \in 1 .. Len(edgeTypes) :
              WithEnds[n] = WithEnd(WithEnd(WithEnds[n - 1], edgeTypes[n].source), edgeTypes[n].target)
<1> DEFINE N == Len(edgeTypes)
           base == [i \in DOMAIN nodeTypes |-> Vertex(nodeTypes[i])]
           next(vs, n) == WithEnd(WithEnd(vs, edgeTypes[n].source), edgeTypes[n].target)
           Step(g, m) == [n \in 0 .. m |-> IF n = 0 THEN base ELSE next(g[n - 1], n)]
           chosen == CHOOSE g : g = Step(g, N)
           wrong == {m \in 0 .. N : ~\E g : g = Step(g, m)}
<1>1. WithEnds = chosen
  BY DEF WithEnds
<1> HIDE DEF base, next
<1>2. wrong = {}
  <2> SUFFICES ASSUME wrong # {} PROVE FALSE
    OBVIOUS
  <2>1. wrong \in SUBSET Nat
    OBVIOUS
  <2> HIDE DEF wrong
  <2>2. PICK m \in wrong : \A k \in wrong : m <= k
    BY <2>1, LeastNumber
  <2> USE DEF wrong
  <2>3. m \in 0 .. N /\ ~\E g : g = Step(g, m)
    BY <2>2
  <2>4. CASE m = 0
    <3> DEFINE first == [n \in 0 .. 0 |-> base]
    <3>1. first = Step(first, 0)
      <4>1. \A n \in 0 .. 0 : n = 0
        OBVIOUS
      <4> QED
        BY <4>1
    <3> QED
      BY <2>3, <2>4, <3>1
  <2>5. CASE m # 0
    <3>1. m - 1 \in 0 .. N /\ m - 1 \notin wrong
      <4> HIDE DEF wrong, N, Step
      <4>1. N \in Nat /\ m \in 0 .. N /\ m # 0 /\ \A k \in wrong : m <= k
        BY <2>2, <2>3, <2>5 DEF N
      <4> QED
        BY <4>1
    <3>2. PICK h : h = Step(h, m - 1)
      BY <3>1
    <3> DEFINE g == [n \in 0 .. m |-> IF n = m THEN next(h[m - 1], m) ELSE h[n]]
    <3>3. ASSUME NEW n \in 0 .. m PROVE g[n] = IF n = 0 THEN base ELSE next(g[n - 1], n)
      <4>1. CASE n = m
        <5>1. m - 1 \in 0 .. m /\ m - 1 # m
          BY <2>3, <2>5
        <5> QED
          BY <2>5, <4>1, <5>1
      <4>2. CASE n # m
        <5>1. n \in 0 .. (m - 1)
          BY <2>3, <4>2
        <5>2. h[n] = IF n = 0 THEN base ELSE next(h[n - 1], n)
          BY <3>2, <5>1
        <5>3. n # 0 => n - 1 \in 0 .. m /\ n - 1 # m
          BY <2>3
        <5> QED
          BY <4>2, <5>2, <5>3
      <4> QED
        BY <4>1, <4>2
    <3>4. g = Step(g, m)
      BY <3>3
    <3> QED
      BY <2>3, <3>4
  <2> QED
    BY <2>4, <2>5
<1>3. N \in 0 .. N
  OBVIOUS
<1>4. \E g : g = Step(g, N)
  BY <1>2, <1>3
<1>5. chosen = Step(chosen, N)
  BY <1>4
<1> HIDE DEF chosen
<1>6. \A n \in 0 .. N : chosen[n] = IF n = 0 THEN base ELSE next(chosen[n - 1], n)
  BY <1>5
<1>7. chosen[0] = base
  BY <1>6
<1>8. ASSUME NEW n \in 1 .. N PROVE chosen[n] = next(chosen[n - 1], n)
  <2>1. n \in 0 .. N /\ n # 0
    OBVIOUS
  <2> QED
    BY <1>6, <2>1
<1> QED
  BY <1>1, <1>7, <1>8 DEF base, next

(* The ends of the types read so far are names.                            *)
LEMMA EndsNamed ==
  ASSUME SchemaInv, NEW k \in DOMAIN edgeTypes
  PROVE  edgeTypes[k].source \in EndNames /\ edgeTypes[k].target \in EndNames
<1>1. edgeTypes[k] \in ToSet(edgeTypes)
  BY DEF ToSet
<1>2. PICK i \in Described("edge") : edgeTypes[k] = EdgeTypeOf(descRows[i])
  BY <1>1 DEF SchemaInv
<1>3. descRows[i] \in DescRows /\ descRows[i].entity = "edge"
  BY <1>2, ElementOfSeq, LenProperties DEF Described, SchemaInv, DescTypeOK
<1> QED
  BY <1>2, <1>3, EndsOfPattern

(* After n edge types the vertices are those of the described types and of *)
(* the ends of these n.                                                    *)
LEMMA VerticesOfEnds ==
  ASSUME SchemaInv
  PROVE  \A n \in 0 .. Len(edgeTypes) : Vertices(WithEnds[n], NamedUpTo(n))
<1> DEFINE N == Len(edgeTypes)
           wrong == {n \in 0 .. N : ~Vertices(WithEnds[n], NamedUpTo(n))}
<1>1. N \in Nat /\ DOMAIN edgeTypes = 1 .. N
  BY LenProperties DEF SchemaInv
<1>2. wrong \in SUBSET Nat
  OBVIOUS
<1> SUFFICES ASSUME wrong # {} PROVE FALSE
  OBVIOUS
<1> HIDE DEF wrong
<1>3. PICK n \in wrong : \A k \in wrong : n <= k
  BY <1>2, LeastNumber
<1> USE DEF wrong
<1>4. n \in 0 .. N /\ ~Vertices(WithEnds[n], NamedUpTo(n))
  BY <1>3
<1>5. CASE n = 0
  <2>1. NamedUpTo(0) = DescribedNames
    BY DEF NamedUpTo
  <2>2. Vertices(WithEnds[0], DescribedNames)
    BY <1>1, DescribedFirst, WithEndsComputed
  <2> QED
    BY <1>4, <1>5, <2>1, <2>2
<1>6. CASE n # 0
  <2> DEFINE before == WithEnds[n - 1]
             e == edgeTypes[n]
  <2>1. n - 1 \in 0 .. N /\ n - 1 \notin wrong /\ n \in 1 .. N
    BY <1>1, <1>3, <1>4, <1>6
  <2>2. Vertices(before, NamedUpTo(n - 1))
    BY <2>1
  <2>3. e.source \in EndNames /\ e.target \in EndNames
    BY <1>1, <2>1, EndsNamed
  <2>4. WithEnds[n] = WithEnd(WithEnd(before, e.source), e.target)
    BY <1>1, <2>1, WithEndsComputed
  <2>5. Vertices(WithEnds[n], (NamedUpTo(n - 1) \cup {e.source}) \cup {e.target})
    <3> HIDE DEF before, e
    <3>1. Vertices(WithEnd(before, e.source), NamedUpTo(n - 1) \cup {e.source})
      BY <2>2, <2>3, EndAdded
    <3> QED
      BY <2>3, <2>4, <3>1, EndAdded
  <2>6. NamedUpTo(n) = (NamedUpTo(n - 1) \cup {e.source}) \cup {e.target}
    <3>1. \A k \in 1 .. n : k \in 1 .. (n - 1) \/ k = n
      BY <1>1, <2>1
    <3>2. n \in 1 .. n /\ \A k \in 1 .. (n - 1) : k \in 1 .. n
      BY <1>1, <2>1
    <3> QED
      BY <3>1, <3>2 DEF NamedUpTo
  <2> QED
    BY <1>4, <2>5, <2>6
<1> QED
  BY <1>5, <1>6

(* A set that a function names one by one has as many elements.            *)
LEMMA OneByOne ==
  ASSUME NEW S, IsFiniteSet(S), NEW T, NEW f \in [S -> T],
         \A a, b \in S : f[a] = f[b] => a = b,
         \A t \in T : \E a \in S : f[a] = t
  PROVE  IsFiniteSet(T) /\ Cardinality(T) = Cardinality(S)
<1>1. f \in Surjection(S, T) /\ f \in Injection(S, T)
  BY DEF Surjection, Injection, IsInjective
<1> QED
  BY <1>1, FS_Surjection

(* The types of the overview are those of the rows read, and the vertices  *)
(* of the graph those of the overview and of all ends.                     *)
LEMMA VerticesOfRows ==
  ASSUME SchemaInv
  PROVE  /\ Len(edgeTypes) \in Nat /\ DOMAIN edgeTypes = 1 .. Len(edgeTypes)
         /\ Vertices(BuildSchemaGraphMeta.nodes, NamedUpTo(Len(edgeTypes)))
         /\ \A v \in ToSet(BuildSchemaGraphMeta.nodes) : v.id = v.name
         /\ \A i \in DOMAIN descRows : descRows[i] \in DescRows
         /\ \A i \in Described("node") : \E k \in DOMAIN nodeTypes : nodeTypes[k] = NodeTypeOf(descRows[i])
         /\ \A k \in DOMAIN nodeTypes : \E i \in Described("node") : nodeTypes[k] = NodeTypeOf(descRows[i])
         /\ \A i \in Described("edge") : \E k \in DOMAIN edgeTypes : edgeTypes[k] = EdgeTypeOf(descRows[i])
         /\ \A k \in DOMAIN edgeTypes : \E i \in Described("edge") : edgeTypes[k] = EdgeTypeOf(descRows[i])
<1> DEFINE vs == BuildSchemaGraphMeta.nodes
<1>1. Len(edgeTypes) \in Nat /\ DOMAIN edgeTypes = 1 .. Len(edgeTypes)
  BY LenProperties DEF SchemaInv
<1>2. vs = WithEnds[Len(edgeTypes)]
  BY DEF BuildSchemaGraphMeta
<1> HIDE DEF vs
<1>3. Vertices(vs, NamedUpTo(Len(edgeTypes)))
  <2>1. Len(edgeTypes) \in 0 .. Len(edgeTypes)
    BY <1>1
  <2> QED
    BY <1>2, <2>1, VerticesOfEnds
<1>4. ASSUME NEW v \in ToSet(vs) PROVE v.id = v.name
  <2>1. PICK i \in DOMAIN vs : v = vs[i]
    BY DEF ToSet
  <2>2. v \in VertexSet
    BY <1>3, <2>1, ElementOfSeq, LenProperties DEF Vertices
  <2> QED
    BY <2>2 DEF VertexSet, Vertex, Placeholder
<1>5. \A i \in DOMAIN descRows : descRows[i] \in DescRows
  BY ElementOfSeq, LenProperties DEF SchemaInv, DescTypeOK
<1>6. ASSUME NEW i \in Described("node") PROVE \E k \in DOMAIN nodeTypes : nodeTypes[k] = NodeTypeOf(descRows[i])
  <2>1. NodeTypeOf(descRows[i]) \in ToSet(nodeTypes)
    BY DEF SchemaInv
  <2> QED
    BY <2>1 DEF ToSet
<1>7. ASSUME NEW k \in DOMAIN nodeTypes PROVE \E i \in Described("node") : nodeTypes[k] = NodeTypeOf(descRows[i])
  <2>1. nodeTypes[k] \in ToSet(nodeTypes)
    BY DEF ToSet
  <2> QED
    BY <2>1 DEF SchemaInv
<1>8. ASSUME NEW i \in Described("edge") PROVE \E k \in DOMAIN edgeTypes : edgeTypes[k] = EdgeTypeOf(descRows[i])
  <2>1. EdgeTypeOf(descRows[i]) \in ToSet(edgeTypes)
    BY DEF SchemaInv
  <2> QED
    BY <2>1 DEF ToSet
<1>9. ASSUME NEW k \in DOMAIN edgeTypes PROVE \E i \in Described("edge") : edgeTypes[k] = EdgeTypeOf(descRows[i])
  <2>1. edgeTypes[k] \in ToSet(edgeTypes)
    BY DEF ToSet
  <2> QED
    BY <2>1 DEF SchemaInv
<1> QED
  BY <1>1, <1>3, <1>4, <1>5, <1>6, <1>7, <1>8, <1>9 DEF vs

(* The arcs are those of the edge rows, between vertices there are.        *)
LEMMA ArcsOfRows ==
  ASSUME SchemaInv
  PROVE  /\ ToSet(BuildSchemaGraphMeta.edges) = {Arc(EdgeTypeOf(descRows[i])) : i \in Described("edge")}
         /\ \A a \in ToSet(BuildSchemaGraphMeta.edges) :
              {a.source, a.target} \subseteq {v.id : v \in ToSet(BuildSchemaGraphMeta.nodes)}
<1> DEFINE arcs == BuildSchemaGraphMeta.edges
           vs == BuildSchemaGraphMeta.nodes
           N == Len(edgeTypes)
<1>1. arcs = [k \in DOMAIN edgeTypes |-> Arc(edgeTypes[k])]
  BY DEF BuildSchemaGraphMeta
<1>2. Vertices(vs, NamedUpTo(N)) /\ DOMAIN edgeTypes = 1 .. N /\ \A v \in ToSet(vs) : v.id = v.name
  BY VerticesOfRows
<1> HIDE DEF arcs, vs
<1>3. ToSet(arcs) = {Arc(edgeTypes[k]) : k \in DOMAIN edgeTypes}
  BY <1>1 DEF ToSet
<1>4. {Arc(edgeTypes[k]) : k \in DOMAIN edgeTypes} = {Arc(EdgeTypeOf(descRows[i])) : i \in Described("edge")}
  <2>1. /\ \A i \in Described("edge") : \E k \in DOMAIN edgeTypes : edgeTypes[k] = EdgeTypeOf(descRows[i])
        /\ \A k \in DOMAIN edgeTypes : \E i \in Described("edge") : edgeTypes[k] = EdgeTypeOf(descRows[i])
    BY VerticesOfRows
  <2> QED
    BY <2>1
<1>5. ASSUME NEW a \in ToSet(arcs) PROVE {a.source, a.target} \subseteq {v.id : v \in ToSet(vs)}
  <2>1. PICK k \in 1 .. N : a = Arc(edgeTypes[k])
    BY <1>2, <1>3
  <2>2. a.source = edgeTypes[k].source /\ a.target = edgeTypes[k].target
    BY <2>1 DEF Arc
  <2>3. a.source \in NamedUpTo(N) /\ a.target \in NamedUpTo(N)
    BY <2>2 DEF NamedUpTo
  <2>4. ASSUME NEW x \in NamedUpTo(N) PROVE x \in {v.id : v \in ToSet(vs)}
    <3>1. PICK i \in DOMAIN vs : vs[i].name = x
      BY <1>2 DEF Vertices
    <3>2. vs[i] \in ToSet(vs)
      BY DEF ToSet
    <3> QED
      BY <1>2, <3>1, <3>2
  <2> QED
    BY <2>3, <2>4
<1> QED
  BY <1>3, <1>4, <1>5 DEF arcs, vs

(* If no end is without a name, the vertices are the described types and   *)
(* the ends of the patterns.                                               *)
LEMMA VerticesAreTypesAndEnds ==
  ASSUME SchemaInv, \A i \in Described("edge") : ~Anonymous(descRows[i])
  PROVE  {v.id : v \in ToSet(BuildSchemaGraphMeta.nodes)} =
           {descRows[i].name : i \in Described("node")} \cup UNION {ToSet(descRows[i].pattern) : i \in Described("edge")}
<1> DEFINE vs == BuildSchemaGraphMeta.nodes
           N == Len(edgeTypes)
           ids == {v.id : v \in ToSet(vs)}
           described == {descRows[i].name : i \in Described("node")}
           ends == UNION {ToSet(descRows[i].pattern) : i \in Described("edge")}
<1>1. Vertices(vs, NamedUpTo(N)) /\ DOMAIN edgeTypes = 1 .. N /\ \A v \in ToSet(vs) : v.id = v.name
  BY VerticesOfRows
<1> HIDE DEF vs, N
<1>2. ids = NamedUpTo(N)
  <2>1. ASSUME NEW v \in ToSet(vs) PROVE v.id \in NamedUpTo(N)
    BY <1>1 DEF ToSet, Vertices
  <2>2. ASSUME NEW x \in NamedUpTo(N) PROVE x \in ids
    <3>1. PICK i \in DOMAIN vs : vs[i].name = x
      BY <1>1 DEF Vertices
    <3>2. vs[i] \in ToSet(vs)
      BY DEF ToSet
    <3> QED
      BY <1>1, <3>1, <3>2
  <2> QED
    BY <2>1, <2>2
<1>3. DescribedNames = described
  <2>1. \A i \in Described("node") : NodeTypeOf(descRows[i]).name = descRows[i].name
    BY DEF NodeTypeOf
  <2>2. /\ \A i \in Described("node") : \E k \in DOMAIN nodeTypes : nodeTypes[k] = NodeTypeOf(descRows[i])
        /\ \A k \in DOMAIN nodeTypes : \E i \in Described("node") : nodeTypes[k] = NodeTypeOf(descRows[i])
    BY VerticesOfRows
  <2> QED
    BY <2>1, <2>2 DEF DescribedNames
<1>4. ASSUME NEW i \in Described("edge")
      PROVE  ToSet(descRows[i].pattern) = {EdgeTypeOf(descRows[i]).source, EdgeTypeOf(descRows[i]).target}
  <2>1. descRows[i] \in DescRows /\ descRows[i].entity = "edge" /\ ~Anonymous(descRows[i])
    BY VerticesOfRows DEF Described
  <2> QED
    BY <2>1, EndsOfPattern
<1>5. UNION {{edgeTypes[k].source, edgeTypes[k].target} : k \in 1 .. N} = ends
  <2>1. /\ \A i \in Described("edge") : \E k \in 1 .. N : edgeTypes[k] = EdgeTypeOf(descRows[i])
        /\ \A k \in 1 .. N : \E i \in Described("edge") : edgeTypes[k] = EdgeTypeOf(descRows[i])
    BY <1>1, VerticesOfRows
  <2> DEFINE at(e) == {e.source, e.target}
             type(i) == EdgeTypeOf(descRows[i])
             D == Described("edge")
  <2>2. ends = UNION {at(type(i)) : i \in D}
    BY <1>4
  <2>3. {at(type(i)) : i \in D} = {at(edgeTypes[k]) : k \in 1 .. N}
    <3> HIDE DEF at, type, D
    <3>1. /\ \A i \in D : \E k \in 1 .. N : edgeTypes[k] = type(i)
          /\ \A k \in 1 .. N : \E i \in D : edgeTypes[k] = type(i)
      BY <2>1 DEF type, D
    <3> QED
      BY <3>1
  <2> HIDE DEF ends, type
  <2> QED
    BY <2>2, <2>3
<1> QED
  BY <1>2, <1>3, <1>5 DEF NamedUpTo, vs

(* No two vertices and no two arcs have one id.                            *)
LEMMA IdsUnique ==
  ASSUME SchemaInv
  PROVE  /\ Cardinality({v.id : v \in ToSet(BuildSchemaGraphMeta.nodes)}) = Len(BuildSchemaGraphMeta.nodes)
         /\ Cardinality({a.id : a \in ToSet(BuildSchemaGraphMeta.edges)}) = Cardinality(Described("edge"))
         /\ IsFiniteSet(ToSet(BuildSchemaGraphMeta.nodes))
<1> DEFINE vs == BuildSchemaGraphMeta.nodes
           arcs == BuildSchemaGraphMeta.edges
           n == Len(vs)
<1>1. Vertices(vs, NamedUpTo(Len(edgeTypes))) /\ \A v \in ToSet(vs) : v.id = v.name
  BY VerticesOfRows
<1>2. ToSet(arcs) = {Arc(EdgeTypeOf(descRows[i])) : i \in Described("edge")}
  BY ArcsOfRows
<1> HIDE DEF vs, arcs
<1>3. n \in Nat /\ DOMAIN vs = 1 .. n
  BY <1>1, LenProperties DEF Vertices
<1> HIDE DEF n
<1>4. IsFiniteSet(1 .. n) /\ Cardinality(1 .. n) = n
  BY <1>3, FS_Interval
<1>5. Cardinality({v.id : v \in ToSet(vs)}) = n
  <2> DEFINE ids == {v.id : v \in ToSet(vs)}
             f == [i \in 1 .. n |-> vs[i].name]
  <2>1. \A i \in 1 .. n : vs[i] \in ToSet(vs) /\ vs[i].id = vs[i].name
    BY <1>1, <1>3 DEF ToSet
  <2>2. f \in [1 .. n -> ids]
    BY <2>1
  <2>3. \A i, j \in 1 .. n : f[i] = f[j] => i = j
    BY <1>1, <1>3 DEF Vertices
  <2>4. \A x \in ids : \E i \in 1 .. n : f[i] = x
    BY <1>1, <1>3 DEF ToSet
  <2> HIDE DEF ids, f
  <2>5. Cardinality(ids) = n
    BY <1>4, <2>2, <2>3, <2>4, OneByOne
  <2> QED
    BY <2>5 DEF ids
<1>6. IsFiniteSet(ToSet(vs))
  <2> DEFINE f == [i \in 1 .. n |-> vs[i]]
  <2>1. f \in [1 .. n -> ToSet(vs)] /\ \A v \in ToSet(vs) : \E i \in 1 .. n : f[i] = v
    BY <1>3 DEF ToSet
  <2>2. f \in Surjection(1 .. n, ToSet(vs))
    BY <2>1 DEF Surjection
  <2> QED
    BY <1>4, <2>2, FS_Surjection
<1>7. Cardinality({a.id : a \in ToSet(arcs)}) = Cardinality(Described("edge"))
  <2> DEFINE ids == {a.id : a \in ToSet(arcs)}
             D == Described("edge")
             id(i) == Arc(EdgeTypeOf(descRows[i])).id
             f == [i \in D |-> id(i)]
  <2>1. ids = {id(i) : i \in D}
    BY <1>2
  <2>2. IsFiniteSet(D)
    <3> DEFINE l == Len(descRows)
    <3>1. D \in SUBSET (1 .. l) /\ l \in Nat
      BY LenProperties DEF Described, SchemaInv, DescTypeOK
    <3> HIDE DEF l, D
    <3>2. IsFiniteSet(1 .. l)
      BY <3>1, FS_Interval
    <3> QED
      BY <3>1, <3>2, FS_Subset
  <2>3. ASSUME NEW i \in D PROVE id(i) = <<EdgeTypeOf(descRows[i]).source, descRows[i].name, EdgeTypeOf(descRows[i]).target>>
    BY DEF Arc, EdgeTypeOf
  <2>4. ASSUME NEW i \in D, NEW j \in D, id(i) = id(j) PROVE i = j
    <3>1. descRows[i].name = descRows[j].name
      BY <2>3, <2>4
    <3> QED
      BY <3>1 DEF Described, SchemaInv
  <2> HIDE DEF id, D, ids
  <2>5. f \in [D -> ids] /\ (\A i, j \in D : f[i] = f[j] => i = j) /\ \A x \in ids : \E i \in D : f[i] = x
    BY <2>1, <2>4
  <2> HIDE DEF f
  <2>6. Cardinality(ids) = Cardinality(D)
    BY <2>2, <2>5, OneByOne
  <2> QED
    BY <2>6 DEF ids, D
<1> QED
  BY <1>5, <1>6, <1>7 DEF vs, arcs, n

(* The text of a type tells it: no two types have one text, and only no    *)
(* type has none.                                                          *)
LEMMA TypeTexts ==
  /\ Str("").string = <<>>
  /\ \A t : t # "" => Str(t).string # <<>>
  /\ \A t, u : Str(t).string = Str(u).string => t = u
<1> DEFINE text(t) == Str(t).string
<1>1. \A t : text(t) = IF t = "" THEN <<>> ELSE <<t>>
  BY DEF Str
<1>2. \A x, y : <<x>> # <<>> /\ (<<x>> = <<y>> => x = y)
  OBVIOUS
<1> HIDE DEF text
<1>3. ASSUME NEW t, NEW u, text(t) = text(u) PROVE t = u
  <2>1. CASE t = "" /\ u = ""
    BY <2>1
  <2>2. CASE t = "" /\ u # ""
    BY <1>1, <1>2, <1>3, <2>2
  <2>3. CASE t # "" /\ u = ""
    BY <1>1, <1>2, <1>3, <2>3
  <2>4. CASE t # "" /\ u # ""
    <3>1. <<t>> = <<u>>
      BY <1>1, <1>3, <2>4
    <3> QED
      BY <1>2, <3>1
  <2> QED
    BY <2>1, <2>2, <2>3, <2>4
<1>4. text("") = <<>> /\ \A t : t # "" => text(t) # <<>>
  BY <1>1, <1>2
<1> QED
  BY <1>3, <1>4 DEF text

(* Colours tell the vertices apart as long as there are enough of them.    *)
LEMMA VerticesTold ==
  ASSUME SchemaInv, Cardinality(ToSet(BuildSchemaGraphMeta.nodes)) <= PaletteSize
  PROVE  Cardinality({SchemaFill(G6Vertex(v)) : v \in ToSet(BuildSchemaGraphMeta.nodes)})
           = Cardinality(ToSet(BuildSchemaGraphMeta.nodes))
<1> DEFINE vs == BuildSchemaGraphMeta.nodes
           V == ToSet(vs)
           text(v) == Str(v.name).string
           types == [i \in DOMAIN vs |-> text(vs[i])]
           colors == BuildTypeColors(types)
           fill(v) == ColorForType(text(v), colors)
           f == [v \in V |-> fill(v)]
           t == [v \in V |-> text(v)]
<1>1. Vertices(vs, NamedUpTo(Len(edgeTypes))) /\ IsFiniteSet(V)
  BY VerticesOfRows, IdsUnique
<1>2. ASSUME NEW v \in V PROVE SchemaFill(G6Vertex(v)) = fill(v)
  BY DEF SchemaFill, G6Vertex
<1> HIDE DEF vs
<1>3. \A v, w \in V : v.name = w.name => v = w
  BY <1>1 DEF ToSet, Vertices
<1>4. ASSUME NEW v \in V, NEW w \in V, text(v) = text(w) PROVE v = w
  <2>1. v.name = w.name
    BY <1>4, TypeTexts
  <2> QED
    BY <1>3, <2>1
<1> HIDE DEF text
<1>5. ToSet(types) = {text(v) : v \in V}
  BY DEF ToSet
<1>6. IsFiniteSet(ToSet(types)) /\ Cardinality(ToSet(types)) = Cardinality(V)
  <2>1. t \in [V -> ToSet(types)] /\ (\A v, w \in V : t[v] = t[w] => v = w) /\ \A x \in ToSet(types) : \E v \in V : t[v] = x
    BY <1>4, <1>5
  <2> QED
    BY <1>1, <2>1, OneByOne
<1>7. Cardinality(ToSet(types) \ {<<>>}) <= PaletteSize
  <2>1. ToSet(types) \ {<<>>} \in SUBSET ToSet(types)
    OBVIOUS
  <2>2. Cardinality(ToSet(types) \ {<<>>}) <= Cardinality(ToSet(types)) /\ IsFiniteSet(ToSet(types) \ {<<>>})
    BY <1>6, <2>1, FS_Subset
  <2>3. Cardinality(ToSet(types) \ {<<>>}) \in Nat /\ Cardinality(ToSet(types)) \in Nat
    BY <1>6, <2>2, FS_CardinalityType
  <2> QED
    BY <1>6, <2>2, <2>3, DrawnAssumption DEF vs
<1>8. ASSUME NEW v \in V, NEW w \in V, fill(v) = fill(w) PROVE v = w
  <2>1. text(v) \in ToSet(types) /\ text(w) \in ToSet(types)
    BY <1>5
  <2> HIDE DEF types
  <2>2. text(v) = text(w)
    BY <1>6, <1>7, <1>8, <2>1, ColoursTellTypes
  <2> QED
    BY <1>4, <2>2
<1> DEFINE fills == {SchemaFill(G6Vertex(v)) : v \in V}
<1> HIDE DEF fill, V
<1>9. fills = {fill(v) : v \in V}
  BY <1>2
<1> HIDE DEF fills
<1>10. f \in [V -> fills] /\ (\A v, w \in V : f[v] = f[w] => v = w) /\ \A x \in fills : \E v \in V : f[v] = x
  BY <1>8, <1>9
<1> HIDE DEF f
<1>11. Cardinality(fills) = Cardinality(V)
  BY <1>1, <1>10, OneByOne
<1> QED
  BY <1>11 DEF fills, V, vs

(* The card of a graph type shows that graph type, for any rows in any     *)
(* order and any number of types: what buildSchemaGraphMeta,               *)
(* toSchemaG6Data and the tooltips make of the overview says of each type  *)
(* what its row says.                                                      *)
THEOREM GraphTypeShown == SchemaSpec => []SchemaFaithful
<1>1. SchemaInv => SchemaFaithful
  <2> SUFFICES ASSUME SchemaInv PROVE SchemaFaithful
    OBVIOUS
  <2> DEFINE meta == BuildSchemaGraphMeta
             vertices == ToSet(meta.nodes)
             rowsOf(entity) == {descRows[i] : i \in Described(entity)}
             ends == UNION {ToSet(row.pattern) : row \in rowsOf("edge")}
  <2>1. Vertices(meta.nodes, NamedUpTo(Len(edgeTypes))) /\ \A v \in vertices : v.id = v.name
    BY VerticesOfRows
  <2>2. /\ \A i \in Described("node") : \E k \in DOMAIN nodeTypes : nodeTypes[k] = NodeTypeOf(descRows[i])
        /\ \A k \in DOMAIN nodeTypes : \E i \in Described("node") : nodeTypes[k] = NodeTypeOf(descRows[i])
    BY VerticesOfRows
  <2>3. \A entity : \A row \in rowsOf(entity) : row \in DescRows /\ row.entity = entity
    BY VerticesOfRows DEF Described
  <2>4. ToSet(meta.edges) = {Arc(EdgeTypeOf(row)) : row \in rowsOf("edge")}
    BY ArcsOfRows
  <2>5. \A a \in ToSet(meta.edges) : {a.source, a.target} \subseteq {v.id : v \in vertices}
    BY ArcsOfRows
  <2>6. /\ Cardinality({v.id : v \in vertices}) = Len(meta.nodes)
        /\ Cardinality({a.id : a \in ToSet(meta.edges)}) = Cardinality(Described("edge"))
    BY IdsUnique
  <2>7. (\A row \in rowsOf("edge") : ~Anonymous(row)) =>
          {v.id : v \in vertices} = {row.name : row \in rowsOf("node")} \cup ends
    <3> SUFFICES ASSUME \A row \in rowsOf("edge") : ~Anonymous(row)
                 PROVE  {v.id : v \in vertices} = {row.name : row \in rowsOf("node")} \cup ends
      OBVIOUS
    <3>1. {v.id : v \in vertices} =
            {descRows[i].name : i \in Described("node")} \cup UNION {ToSet(descRows[i].pattern) : i \in Described("edge")}
      BY VerticesAreTypesAndEnds
    <3>2. {row.name : row \in rowsOf("node")} = {descRows[i].name : i \in Described("node")}
      OBVIOUS
    <3>3. {ToSet(row.pattern) : row \in rowsOf("edge")} = {ToSet(descRows[i].pattern) : i \in Described("edge")}
      OBVIOUS
    <3> HIDE DEF meta, rowsOf
    <3> QED
      BY <3>1, <3>2, <3>3
  <2>8. Cardinality(vertices) <= PaletteSize =>
          Cardinality({SchemaFill(G6Vertex(v)) : v \in vertices}) = Cardinality(vertices)
    BY VerticesTold
  <2>9. ASSUME NEW row \in rowsOf("node") PROVE \E v \in vertices : v.id = row.name /\ VertexShows(v, row)
    <3>1. PICK k \in DOMAIN nodeTypes : nodeTypes[k] = NodeTypeOf(row)
      BY <2>2
    <3>2. k \in DOMAIN meta.nodes /\ meta.nodes[k] = Vertex(NodeTypeOf(row))
      BY <2>1, <3>1 DEF Vertices
    <3>3. Vertex(NodeTypeOf(row)) \in vertices
      BY <3>2 DEF ToSet
    <3>4. Vertex(NodeTypeOf(row)).id = row.name
      BY DEF Vertex, NodeTypeOf
    <3>5. VertexShows(Vertex(NodeTypeOf(row)), row)
      BY <2>3, DescribedShown
    <3> HIDE DEF meta, rowsOf
    <3> QED
      BY <3>3, <3>4, <3>5
  <2>10. ASSUME NEW v \in vertices PROVE (\E row \in rowsOf("node") : v.id = row.name) \/ v = Placeholder(v.id)
    <3>1. PICK k \in DOMAIN meta.nodes : v = meta.nodes[k]
      BY DEF ToSet
    <3>2. CASE k \in DOMAIN nodeTypes
      <4>1. v = Vertex(nodeTypes[k])
        BY <2>1, <3>1, <3>2 DEF Vertices
      <4>2. PICK row \in rowsOf("node") : nodeTypes[k] = NodeTypeOf(row)
        BY <2>2, <3>2
      <4>3. v.id = row.name
        BY <4>1, <4>2 DEF Vertex, NodeTypeOf
      <4> QED
        BY <4>2, <4>3
    <3>3. CASE k \notin DOMAIN nodeTypes
      BY <2>1, <3>1, <3>3 DEF Vertices
    <3> QED
      BY <3>2, <3>3
  <2>11. ASSUME NEW row \in rowsOf("edge"), ~Anonymous(row)
         PROVE  \E a \in ToSet(meta.edges) : a.name = row.name /\ ArcShows(a, row)
    <3> DEFINE a == Arc(EdgeTypeOf(row))
    <3>1. a \in ToSet(meta.edges)
      BY <2>4
    <3>2. a.name = row.name
      BY DEF Arc, EdgeTypeOf
    <3>3. ArcShows(a, row)
      BY <2>3, <2>11, EdgeTypeShown
    <3> HIDE DEF a, meta
    <3> QED
      BY <3>1, <3>2, <3>3
  <2> HIDE DEF meta, rowsOf
  <2>12. /\ \A row \in rowsOf("node") : \E v \in vertices : v.id = row.name /\ VertexShows(v, row)
         /\ \A v \in vertices : (\E row \in rowsOf("node") : v.id = row.name) \/ v = Placeholder(v.id)
         /\ \A row \in rowsOf("edge") :
              Anonymous(row) \/ \E a \in ToSet(meta.edges) : a.name = row.name /\ ArcShows(a, row)
    BY <2>9, <2>10, <2>11
  <2> QED
    BY <2>5, <2>6, <2>7, <2>8, <2>12, Zenon DEF SchemaFaithful, meta, rowsOf
<1> QED
  BY <1>1, OverviewOfRows, PTL

-----------------------------------------------------------------------------
(* FlattenSeq puts sequence after sequence: its recursion is what it says  *)
(* for any number of them.                                                 *)
LEMMA FlattenComputed ==
  ASSUME NEW parts, Len(parts) \in Nat \ {0}
  PROVE  \E g : /\ FlattenSeq(parts) = g[Len(parts)]
                /\ g[1] = parts[1]
                /\ \A i \in 2 .. Len(parts) : g[i] = g[i - 1] \o parts[i]
<1> DEFINE N == Len(parts)
           Step(g, m) == [i \in 1 .. m |-> IF i = 1 THEN parts[i] ELSE g[i - 1] \o parts[i]]
           chosen == CHOOSE g : g = Step(g, N)
           wrong == {m \in 0 .. N : ~\E g : g = Step(g, m)}
<1>1. FlattenSeq(parts) = chosen[N]
  BY DEF FlattenSeq
<1>2. wrong = {}
  <2> SUFFICES ASSUME wrong # {} PROVE FALSE
    OBVIOUS
  <2>1. wrong \in SUBSET Nat
    <3> HIDE DEF N, Step
    <3> QED
      OBVIOUS
  <2> HIDE DEF wrong
  <2>2. PICK m \in wrong : \A k \in wrong : m <= k
    BY <2>1, LeastNumber
  <2> USE DEF wrong
  <2>3. m \in 0 .. N /\ ~\E g : g = Step(g, m)
    BY <2>2
  <2>4. CASE m = 0
    <3> DEFINE none == [i \in 1 .. 0 |-> parts[i]]
    <3>1. none = Step(none, 0)
      <4>1. \A i \in 1 .. 0 : FALSE
        OBVIOUS
      <4> QED
        BY <4>1
    <3> QED
      BY <2>3, <2>4, <3>1
  <2>5. CASE m # 0
    <3>1. m - 1 \in 0 .. N /\ m - 1 \notin wrong
      <4> HIDE DEF wrong, N, Step
      <4>1. N \in Nat /\ m \in 0 .. N /\ m # 0 /\ \A k \in wrong : m <= k
        BY <2>2, <2>3, <2>5 DEF N
      <4> QED
        BY <4>1
    <3>2. PICK h : h = Step(h, m - 1)
      BY <3>1
    <3> DEFINE g == [i \in 1 .. m |-> IF i = m THEN IF m = 1 THEN parts[m] ELSE h[m - 1] \o parts[m] ELSE h[i]]
    <3>3. ASSUME NEW i \in 1 .. m PROVE g[i] = IF i = 1 THEN parts[i] ELSE g[i - 1] \o parts[i]
      <4>1. CASE i = m
        <5>1. i # 1 => i - 1 \in 1 .. m /\ i - 1 # m
          BY <2>3
        <5>2. i # 1 => g[i - 1] = h[m - 1]
          BY <4>1, <5>1
        <5> QED
          BY <4>1, <5>2
      <4>2. CASE i # m
        <5>1. i \in 1 .. (m - 1)
          BY <2>3, <4>2
        <5>2. h[i] = IF i = 1 THEN parts[i] ELSE h[i - 1] \o parts[i]
          BY <3>2, <5>1
        <5>3. i # 1 => i - 1 \in 1 .. m /\ i - 1 # m
          BY <2>3
        <5> QED
          BY <4>2, <5>2, <5>3
      <4> QED
        BY <4>1, <4>2
    <3>4. g = Step(g, m)
      BY <3>3
    <3> QED
      BY <2>3, <3>4
  <2> QED
    BY <2>4, <2>5
<1>3. N \in 0 .. N
  OBVIOUS
<1>4. \E g : g = Step(g, N)
  BY <1>2, <1>3
<1>5. chosen = Step(chosen, N)
  BY <1>4
<1> HIDE DEF chosen
<1>6. \A i \in 1 .. N : chosen[i] = IF i = 1 THEN parts[i] ELSE chosen[i - 1] \o parts[i]
  BY <1>5
<1>7. chosen[1] = parts[1]
  BY <1>6
<1>8. ASSUME NEW i \in 2 .. N PROVE chosen[i] = chosen[i - 1] \o parts[i]
  <2>1. i \in 1 .. N /\ i # 1
    OBVIOUS
  <2> QED
    BY <1>6, <2>1
<1> QED
  BY <1>1, <1>7, <1>8

(* Of sequences none of which is empty, whatever stands behind the first   *)
(* element of one stands behind the first element of all of them together. *)
LEMMA FlattenKeeps ==
  ASSUME NEW S, NEW parts \in Seq(Seq(S)), Len(parts) # 0,
         \A i \in 1 .. Len(parts) : Len(parts[i]) # 0
  PROVE  /\ FlattenSeq(parts) \in Seq(S) /\ Len(FlattenSeq(parts)) # 0
         /\ \A i \in 1 .. Len(parts) : \A j \in 2 .. Len(parts[i]) :
              \E k \in 2 .. Len(FlattenSeq(parts)) : FlattenSeq(parts)[k] = parts[i][j]
<1> DEFINE N == Len(parts)
<1>1. N \in Nat /\ N # 0 /\ DOMAIN parts = 1 .. N
  BY LenProperties
<1>2. ASSUME NEW i \in 1 .. N PROVE parts[i] \in Seq(S) /\ Len(parts[i]) \in Nat /\ Len(parts[i]) # 0
  BY ElementOfSeq, LenProperties
<1>3. PICK g : FlattenSeq(parts) = g[N] /\ g[1] = parts[1] /\ \A i \in 2 .. N : g[i] = g[i - 1] \o parts[i]
  BY <1>1, FlattenComputed
<1> DEFINE Kept(m) == /\ g[m] \in Seq(S) /\ Len(g[m]) \in Nat /\ Len(g[m]) # 0
                      /\ \A i \in 1 .. m : \A j \in 2 .. Len(parts[i]) :
                           \E k \in 2 .. Len(g[m]) : g[m][k] = parts[i][j]
           wrong == {m \in 1 .. N : ~Kept(m)}
<1> HIDE DEF N
<1>4. Kept(1)
  <2>1. 1 \in 1 .. N
    BY <1>1
  <2> QED
    BY <1>2, <1>3, <2>1
<1>5. ASSUME NEW m \in 2 .. N, Kept(m - 1) PROVE Kept(m)
  <2> DEFINE before == g[m - 1]
             part == parts[m]
             L == Len(before)
  <2>1. before \in Seq(S) /\ L \in Nat /\ L # 0
    BY <1>5
  <2>2. m \in 1 .. N
    BY <1>1
  <2>3. part \in Seq(S) /\ Len(part) \in Nat /\ Len(part) # 0
    BY <1>2, <2>2
  <2>4. g[m] = before \o part
    BY <1>3
  <2> DEFINE all == before \o part
  <2>5. /\ all \in Seq(S) /\ Len(all) = L + Len(part)
        /\ \A k \in 1 .. L + Len(part) : all[k] = IF k <= L THEN before[k] ELSE part[k - L]
    <3> HIDE DEF before, part
    <3> QED
      BY <2>1, <2>3, ConcatProperties
  <2>6. ASSUME NEW i \in 1 .. m, NEW j \in 2 .. Len(parts[i])
        PROVE  \E k \in 2 .. Len(all) : all[k] = parts[i][j]
    <3>1. CASE i = m
      <4> HIDE DEF before, all, part, L
      <4>1. j \in 2 .. Len(part) /\ part[j] = parts[i][j]
        BY <3>1 DEF part
      <4>2. L + j \in 2 .. Len(all) /\ L + j \in 1 .. L + Len(part) /\ ~(L + j <= L) /\ (L + j) - L = j
        BY <2>1, <2>3, <2>5, <4>1
      <4>3. all[L + j] = part[j]
        BY <2>5, <4>2
      <4> QED
        BY <4>1, <4>2, <4>3
    <3>2. CASE i # m
      <4>1. i \in 1 .. m - 1
        BY <1>1, <3>2
      <4>2. PICK k \in 2 .. L : before[k] = parts[i][j]
        BY <1>5, <4>1
      <4> HIDE DEF before, all, part, L
      <4>3. k \in 2 .. Len(all) /\ k \in 1 .. L + Len(part) /\ k <= L
        BY <2>1, <2>3, <2>5, <4>2
      <4>4. all[k] = before[k]
        BY <2>5, <4>3
      <4> QED
        BY <4>2, <4>3, <4>4
    <3> QED
      BY <3>1, <3>2
  <2>7. all = g[m]
    BY <2>4
  <2> HIDE DEF before, all, part, L
  <2>8. Len(all) \in Nat /\ Len(all) # 0
    BY <2>1, <2>3, <2>5
  <2> QED
    BY <2>5, <2>6, <2>7, <2>8
<1>6. wrong = {}
  <2> SUFFICES ASSUME wrong # {} PROVE FALSE
    OBVIOUS
  <2>1. wrong \in SUBSET Nat
    BY <1>1
  <2> HIDE DEF Kept
  <2>2. \A m \in wrong : m \in 1 .. N /\ ~Kept(m)
    OBVIOUS
  <2>3. \A m \in 1 .. N : m \notin wrong => Kept(m)
    OBVIOUS
  <2> HIDE DEF wrong
  <2>4. PICK m \in wrong : \A k \in wrong : m <= k
    BY <2>1, LeastNumber
  <2>5. CASE m = 1
    BY <1>4, <2>2, <2>4, <2>5
  <2>6. CASE m # 1
    <3>1. m \in 2 .. N /\ m - 1 \in 1 .. N /\ ~(m <= m - 1)
      BY <1>1, <2>2, <2>4, <2>6
    <3>2. Kept(m - 1)
      BY <2>3, <2>4, <3>1
    <3> QED
      BY <1>5, <2>2, <2>4, <3>1, <3>2
  <2> QED
    BY <2>5, <2>6
<1>7. Kept(N)
  <2>1. N \in 1 .. N
    BY <1>1
  <2> HIDE DEF Kept
  <2> QED
    BY <1>6, <2>1
<1> QED
  BY <1>3, <1>7 DEF N

(* The text of a value is made of pieces, and a missing one has no text.   *)
LEMMA TextOfValue ==
  ASSUME NEW v \in Value
  PROVE  Text(v) \in Seq(Pieces) /\ (IsText(v) => v.string \in Seq(Pieces) /\ Text(v) = v.string)
<1>1. CASE v = Null
  <2>1. DOMAIN v = {"null"}
    BY <1>1 DEF Null
  <2> QED
    BY <2>1, EmptySeq DEF Text, IsText
<1>2. CASE v = Undefined
  <2>1. DOMAIN v = {"undefined"}
    BY <1>2 DEF Undefined
  <2> QED
    BY <2>1, EmptySeq DEF Text, IsText
<1>3. CASE v \in [string : Seq(Pieces)]
  <2>1. DOMAIN v = {"string"} /\ v.string \in Seq(Pieces)
    BY <1>3
  <2> QED
    BY <2>1 DEF Text, IsText
<1>4. CASE v \in [number : Pieces]
  <2>1. DOMAIN v = {"number"} /\ v.number \in Pieces
    BY <1>4
  <2> QED
    BY <2>1 DEF Text, IsText
<1>5. CASE v \in [list : Seq(Pieces)]
  <2>1. DOMAIN v = {"list"} /\ v.list \in Seq(Pieces)
    BY <1>5
  <2> QED
    BY <2>1 DEF Text, IsText
<1> QED
  BY <1>1, <1>2, <1>3, <1>4, <1>5 DEF Value

(* A key none of whose values is missing is shown whole: the text of each  *)
(* of its values stands in the text of the key (primaryKeyLabel,           *)
(* primaryKeyValueFromData).                                               *)
LEMMA KeyShownWhole ==
  ASSUME NEW names \in Seq(STRING), names # <<>>, NEW object,
         \A i \in DOMAIN names : ~Missing(Get(object, names[i])) /\ object[names[i]] \in Value
  PROVE  \A i \in DOMAIN names : ToSet(Text(object[names[i]])) \subseteq ToSet(KeyText(names, object))
<1> DEFINE T == STRING \cup {":"}
           text(i) == Text(object[names[i]])
           parts == [i \in DOMAIN names |-> <<":">> \o text(i)]
           all == FlattenSeq(parts)
<1>1. KeyText(names, object) = Tail(all)
  BY DEF KeyText
<1>2. Len(names) \in Nat /\ Len(names) # 0 /\ DOMAIN names = 1 .. Len(names)
  BY EmptySeq, LenProperties
<1>3. ASSUME NEW i \in DOMAIN names
      PROVE  /\ text(i) \in Seq(T) /\ Len(text(i)) \in Nat /\ DOMAIN text(i) = 1 .. Len(text(i))
             /\ <<":">> \o text(i) \in Seq(T) /\ Len(<<":">> \o text(i)) = 1 + Len(text(i))
             /\ \A j \in 1 .. Len(text(i)) : (<<":">> \o text(i))[j + 1] = text(i)[j]
  <2> DEFINE t == text(i)
  <2>1. t \in Seq(Pieces)
    BY TextOfValue
  <2> HIDE DEF t
  <2>2. t \in Seq(T) /\ Len(t) \in Nat /\ DOMAIN t = 1 .. Len(t)
    <3>1. Pieces \subseteq T
      BY DEF Pieces
    <3> HIDE DEF T
    <3> QED
      BY <2>1, <3>1, LenProperties
  <2>3. <<":">> \in Seq(T) /\ Len(<<":">>) = 1
    <3>1. ":" \in T
      OBVIOUS
    <3> HIDE DEF T
    <3> QED
      BY <3>1
  <2> DEFINE p == <<":">>
  <2> HIDE DEF p, T
  <2>4. /\ p \o t \in Seq(T) /\ Len(p \o t) = 1 + Len(t)
        /\ \A j \in 1 .. 1 + Len(t) : (p \o t)[j] = IF j <= 1 THEN p[j] ELSE t[j - 1]
    BY <2>2, <2>3, ConcatProperties DEF p
  <2>5. ASSUME NEW j \in 1 .. Len(t) PROVE (p \o t)[j + 1] = t[j]
    <3>1. j + 1 \in 1 .. 1 + Len(t) /\ ~(j + 1 <= 1) /\ (j + 1) - 1 = j
      BY <2>2
    <3> QED
      BY <2>4, <3>1
  <2> QED
    BY <2>2, <2>4, <2>5 DEF p, t
<1> HIDE DEF T, text
<1>4. /\ parts \in Seq(Seq(T)) /\ Len(parts) = Len(names)
      /\ \A i \in 1 .. Len(parts) : parts[i] = <<":">> \o text(i) /\ Len(parts[i]) # 0
  <2>1. parts \in [1 .. Len(names) -> Seq(T)]
    BY <1>2, <1>3
  <2>2. parts \in Seq(Seq(T)) /\ Len(parts) = Len(names)
    BY <1>2, <2>1
  <2> QED
    BY <1>2, <1>3, <2>2
<1> HIDE DEF parts
<1>5. /\ all \in Seq(T) /\ Len(all) # 0
      /\ \A i \in 1 .. Len(parts) : \A j \in 2 .. Len(parts[i]) : \E k \in 2 .. Len(all) : all[k] = parts[i][j]
  BY <1>2, <1>4, FlattenKeeps
<1> HIDE DEF all
<1>6. ASSUME NEW k \in 2 .. Len(all) PROVE all[k] \in ToSet(Tail(all))
  <2>1. Len(all) \in Nat /\ all # <<>>
    BY <1>5, EmptySeq, LenProperties
  <2>2. /\ Tail(all) \in Seq(T) /\ Len(Tail(all)) = Len(all) - 1
        /\ \A i \in 1 .. Len(Tail(all)) : Tail(all)[i] = all[i + 1]
    BY <1>5, <2>1, HeadTailProperties
  <2>3. k - 1 \in 1 .. Len(Tail(all)) /\ (k - 1) + 1 = k
    BY <2>1, <2>2
  <2>4. Tail(all)[k - 1] = all[k] /\ k - 1 \in DOMAIN Tail(all)
    BY <2>2, <2>3, LenProperties
  <2> QED
    BY <2>4 DEF ToSet
<1>7. ASSUME NEW i \in DOMAIN names, NEW x \in ToSet(text(i)) PROVE x \in ToSet(Tail(all))
  <2>1. PICK j \in 1 .. Len(text(i)) : x = text(i)[j]
    BY <1>3 DEF ToSet
  <2>2. i \in 1 .. Len(parts) /\ parts[i] = <<":">> \o text(i)
    BY <1>2, <1>4
  <2>3. Len(parts[i]) = 1 + Len(text(i)) /\ parts[i][j + 1] = x /\ Len(text(i)) \in Nat
    BY <1>3, <2>1, <2>2
  <2>4. j + 1 \in 2 .. Len(parts[i])
    BY <2>3
  <2>5. PICK k \in 2 .. Len(all) : all[k] = parts[i][j + 1]
    BY <1>5, <2>2, <2>4
  <2> QED
    BY <1>6, <2>3, <2>5
<1> QED
  BY <1>1, <1>7 DEF text

(* What toG6Data makes of a node none of whose properties has the name of  *)
(* a field: the fields, and beside them the properties.                    *)
LEMMA NodeData ==
  ASSUME NEW n \in DataNodes, DOMAIN n.properties \cap NodeFields = {}
  PROVE  /\ G6Node(n).type = Str(n.type) /\ G6Node(n).labels = StrList(n.labels)
         /\ G6Node(n).label = [string |-> NodeLabel(n)] /\ G6Node(n).primaryKey = StrList(n.primaryKey)
         /\ DOMAIN G6Node(n) = DOMAIN n.properties \cup NodeFields
         /\ \A name \in DOMAIN n.properties : G6Node(n)[name] = n.properties[name]
<1> DEFINE own == [type |-> Str(n.type), labels |-> StrList(n.labels),
                   label |-> [string |-> NodeLabel(n)], primaryKey |-> StrList(n.primaryKey)]
           kind == [kind |-> Str("data-node")]
           both == Spread(own, n.properties)
           d == Spread(both, kind)
<1>1. /\ DOMAIN own = {"type", "labels", "label", "primaryKey"} /\ DOMAIN kind = {"kind"}
      /\ own["type"] = Str(n.type) /\ own["labels"] = StrList(n.labels)
      /\ own["label"] = [string |-> NodeLabel(n)] /\ own["primaryKey"] = StrList(n.primaryKey)
  OBVIOUS
<1> HIDE DEF own, kind
<1>2. /\ DOMAIN both = DOMAIN own \cup DOMAIN n.properties
      /\ \A name \in DOMAIN n.properties : both[name] = n.properties[name]
      /\ \A name \in DOMAIN own : name \notin DOMAIN n.properties => both[name] = own[name]
  BY DEF Spread
<1> HIDE DEF both
<1>3. /\ DOMAIN d = DOMAIN both \cup {"kind"}
      /\ \A name \in DOMAIN both : name # "kind" => d[name] = both[name]
  BY <1>1 DEF Spread
<1>4. G6Node(n) = d
  BY DEF G6Node, own, kind, both
<1> HIDE DEF d
<1>5. \A name \in NodeFields : name \notin DOMAIN n.properties
  OBVIOUS
<1>6. {"type", "labels", "label", "primaryKey", "kind"} = NodeFields
  BY DEF NodeFields
<1>7. d["type"] = own["type"] /\ d["labels"] = own["labels"] /\ d["label"] = own["label"] /\ d["primaryKey"] = own["primaryKey"]
  BY <1>1, <1>2, <1>3, <1>5, <1>6
<1>8. DOMAIN d = DOMAIN n.properties \cup NodeFields
  BY <1>1, <1>2, <1>3, <1>6
<1>9. ASSUME NEW name \in DOMAIN n.properties PROVE d[name] = n.properties[name]
  BY <1>2, <1>3, <1>5, <1>6
<1> QED
  BY <1>1, <1>4, <1>7, <1>8, <1>9

(* The tooltip reads the key of a node from the same values as its label,  *)
(* when no name in the key is that of a field.                             *)
LEMMA KeyReadBack ==
  ASSUME NEW n \in DataNodes, (DOMAIN n.properties \cup ToSet(n.primaryKey)) \cap NodeFields = {}
  PROVE  KeyText(n.primaryKey, G6Node(n)) = KeyText(n.primaryKey, n.properties)
<1> DEFINE d == G6Node(n)
           p == n.properties
           names == n.primaryKey
           parts(object) == [i \in DOMAIN names |-> <<":">> \o Text(object[names[i]])]
           lacking(object) == names = <<>> \/ \E i \in DOMAIN names : Missing(Get(object, names[i]))
<1>1. DOMAIN d = DOMAIN p \cup NodeFields /\ \A name \in DOMAIN p : d[name] = p[name]
  BY NodeData
<1>2. \A i \in DOMAIN names : names[i] \notin NodeFields
  BY DEF ToSet
<1> HIDE DEF d, p, names
<1>3. ASSUME NEW i \in DOMAIN names PROVE Get(d, names[i]) = Get(p, names[i])
  BY <1>1, <1>2 DEF Get
<1>4. lacking(d) <=> lacking(p)
  BY <1>3
<1>5. KeyText(names, d) = (IF lacking(d) THEN <<>> ELSE Tail(FlattenSeq(parts(d))))
  BY DEF KeyText
<1>6. KeyText(names, p) = (IF lacking(p) THEN <<>> ELSE Tail(FlattenSeq(parts(p))))
  BY DEF KeyText
<1>7. ASSUME ~lacking(p) PROVE parts(d) = parts(p)
  <2>1. ASSUME NEW i \in DOMAIN names PROVE d[names[i]] = p[names[i]]
    <3>1. Get(p, names[i]) # Undefined
      BY <1>7 DEF Missing
    <3> QED
      BY <1>1, <3>1 DEF Get
  <2> QED
    BY <2>1
<1> HIDE DEF lacking, parts
<1>8. KeyText(names, d) = KeyText(names, p)
  BY <1>4, <1>5, <1>6, <1>7
<1> QED
  BY <1>8 DEF d, p, names

(* A node whose properties and key names are no fields is shown as it is:  *)
(* one title on the canvas and in the tooltip, its key whole or not at     *)
(* all, its type, its labels and its properties (nodeLabel, toG6Data,      *)
(* dataNodeTooltip).                                                       *)
LEMMA NodesShown ==
  ASSUME NEW n \in DataNodes, (DOMAIN n.properties \cup ToSet(n.primaryKey)) \cap NodeFields = {}
  PROVE  NodeShown(n)
<1> DEFINE d == G6Node(n)
           p == n.properties
           names == n.primaryKey
           key == KeyText(names, p)
           tip == DataNodeTooltip(d)
           called == IF Missing(Get(p, "name")) THEN Get(p, "title") ELSE p["name"]
           keyed == names # <<>> /\ \A i \in DOMAIN names : ~Missing(Get(p, names[i]))
<1>1. /\ d.type = Str(n.type) /\ d.labels = StrList(n.labels) /\ d.label = [string |-> NodeLabel(n)]
      /\ d.primaryKey = StrList(names) /\ DOMAIN d = DOMAIN p \cup NodeFields
      /\ \A name \in DOMAIN p : d[name] = p[name]
  BY NodeData
<1>2. KeyText(names, d) = key
  BY KeyReadBack
<1>3. /\ n.id \in Pieces /\ names \in Seq(STRING) /\ IsFiniteSet(DOMAIN p)
      /\ \A name \in DOMAIN p : p[name] \in Value
  BY DataNodesAssumption
<1>4. NodeLabel(n) = (IF key # <<>> THEN key ELSE IF IsText(called) THEN called.string ELSE <<n.id>>)
  BY DEF NodeLabel
<1>5. ListOf(d.primaryKey) = names /\ ListOf(d.labels) = n.labels
  BY <1>1 DEF ListOf, StrList
<1>6. Text(d.label) = NodeLabel(n)
  <2>1. DOMAIN d.label = {"string"} /\ d.label.string = NodeLabel(n)
    BY <1>1
  <2> QED
    BY <2>1 DEF Text
<1>7. TypeShown(d) = (IF n.type = "" THEN <<"none">> ELSE <<n.type>>)
  <2> DEFINE type == d.type
             text == IF n.type = "" THEN <<>> ELSE <<n.type>>
  <2>1. DOMAIN type = {"string"} /\ type.string = text
    <3>1. type = [string |-> text]
      BY <1>1 DEF Str
    <3> HIDE DEF type, text
    <3> QED
      BY <3>1
  <2>2. <<n.type>> # <<>>
    OBVIOUS
  <2>3. TypeShown(d) = IF text # <<>> THEN text ELSE <<"none">>
    <3> HIDE DEF text
    <3>1. TypeShown(d) = IF IsText(type) THEN type.string ELSE <<"none">>
      BY DEF TypeShown
    <3> HIDE DEF type
    <3> QED
      BY <2>1, <3>1 DEF IsText
  <2> QED
    BY <2>2, <2>3
<1> DEFINE shown == Without(d, NodeFields)
<1>8. DOMAIN shown = DOMAIN p /\ \A name \in DOMAIN p : shown[name] = p[name]
  <2>1. DOMAIN shown = DOMAIN d \ NodeFields
    BY DEF Without
  <2>2. DOMAIN shown = DOMAIN p
    BY <1>1, <2>1
  <2>3. \A name \in DOMAIN d \ NodeFields : shown[name] = d[name]
    BY DEF Without
  <2> QED
    BY <1>1, <2>1, <2>2, <2>3
<1>9. /\ tip.title = (IF key # <<>> THEN key ELSE Text(d.label)) /\ tip.type = TypeShown(d)
      /\ tip.labels = n.labels /\ tip.properties = PropertyRows(shown, ToSet(names))
  BY <1>2, <1>5 DEF DataNodeTooltip
<1> HIDE DEF d, tip, shown
<1>10. tip.title = NodeLabel(n)
  BY <1>4, <1>6, <1>9
<1>11. RowsShow(tip.properties, p, ToSet(names))
  <2>1. RowsShow(PropertyRows(shown, ToSet(names)), shown, ToSet(names))
    BY <1>3, <1>8, TooltipRowsAccount
  <2> HIDE DEF p, names
  <2> QED
    BY <1>8, <1>9, <2>1 DEF RowsShow
<1> HIDE DEF p, names
<1>12. ASSUME keyed PROVE \A i \in DOMAIN names : ToSet(Text(p[names[i]])) \subseteq ToSet(tip.title)
  <2>1. \A i \in DOMAIN names : ~Missing(Get(p, names[i])) /\ p[names[i]] \in Value
    <3> SUFFICES ASSUME NEW i \in DOMAIN names PROVE ~Missing(Get(p, names[i])) /\ p[names[i]] \in Value
      OBVIOUS
    <3>1. ~Missing(Get(p, names[i]))
      BY <1>12
    <3>2. names[i] \in DOMAIN p
      BY <3>1 DEF Get, Missing
    <3> QED
      BY <1>3, <3>1, <3>2
  <2>2. \A i \in DOMAIN names : ToSet(Text(p[names[i]])) \subseteq ToSet(key)
    BY <1>3, <1>12, <2>1, KeyShownWhole
  <2>3. CASE key # <<>>
    BY <1>4, <1>10, <2>2, <2>3
  <2>4. CASE key = <<>>
    <3>1. ToSet(key) = {}
      BY <2>4, EmptySeq DEF ToSet
    <3> QED
      BY <2>2, <3>1
  <2> QED
    BY <2>3, <2>4
<1>13. IsText(called) => called.string \in Seq(Pieces) /\ called.string # <<>>
  <2> SUFFICES ASSUME IsText(called) PROVE called.string \in Seq(Pieces) /\ called.string # <<>>
    OBVIOUS
  <2>1. ~IsText(Undefined)
    <3>1. DOMAIN Undefined = {"undefined"}
      BY DEF Undefined
    <3> QED
      BY <3>1 DEF IsText
  <2>2. ~Missing(Get(p, "name")) => "name" \in DOMAIN p
    BY DEF Get, Missing
  <2>3. Get(p, "title") = Undefined \/ Get(p, "title") \in Value
    BY <1>3 DEF Get
  <2>4. called \in Value
    BY <1>3, <2>1, <2>2, <2>3
  <2> HIDE DEF called
  <2> QED
    BY <2>4, TextOfValue DEF IsText
<1>14. ASSUME ~keyed PROVE ":" \notin ToSet(tip.title)
  <2>1. key = <<>>
    BY <1>14 DEF KeyText
  <2>2. ASSUME NEW s \in Seq(Pieces) PROVE ":" \notin ToSet(s)
    <3>1. ":" \notin Pieces
      BY DEF Pieces
    <3> QED
      BY <3>1, ElementOfSeq, LenProperties DEF ToSet
  <2>3. <<n.id>> \in Seq(Pieces)
    BY <1>3
  <2> HIDE DEF called, key
  <2>4. tip.title \in Seq(Pieces)
    BY <1>4, <1>10, <1>13, <2>1, <2>3
  <2> QED
    BY <2>2, <2>4
<1>15. tip.title # <<>>
  <2>1. <<n.id>> # <<>>
    OBVIOUS
  <2> HIDE DEF called, key
  <2> QED
    BY <1>4, <1>10, <1>13, <2>1
<1>16. /\ Text(d.label) = tip.title
       /\ keyed => \A i \in DOMAIN names : ToSet(Text(p[names[i]])) \subseteq ToSet(tip.title)
       /\ ~keyed => ":" \notin ToSet(tip.title)
       /\ tip.title # <<>>
       /\ tip.type = IF n.type = "" THEN <<"none">> ELSE <<n.type>>
       /\ tip.labels = n.labels
       /\ RowsShow(tip.properties, p, ToSet(names))
  BY <1>6, <1>7, <1>9, <1>10, <1>11, <1>12, <1>14, <1>15
<1> HIDE DEF keyed, called, key
<1> QED
  BY <1>16, Zenon DEF NodeShown, d, tip, p, names, keyed

(* An edge none of whose properties has the name of a field is shown as it *)
(* is (toG6Data, dataEdgeTooltip).                                         *)
LEMMA EdgesShown ==
  ASSUME NEW e \in DataEdges, DOMAIN e.properties \cap EdgeFields = {}
  PROVE  EdgeShown(e)
<1> DEFINE p == e.properties
           names == e.multiedgeKey
           own == [type |-> Str(e.type), label |-> [string |-> EdgeLabel(e)]]
           last == [rank |-> e.rank, direction |-> e.direction, multiedgeKey |-> StrList(names), kind |-> Str("data-edge")]
           both == Spread(own, p)
           d == Spread(both, last)
           tip == DataEdgeTooltip(d)
           shown == Without(d, EdgeFields)
           marked == IF HasKey(names) THEN ToSet(names) ELSE {}
<1>1. /\ DOMAIN own = {"type", "label"} /\ own["type"] = Str(e.type)
      /\ DOMAIN last = {"rank", "direction", "multiedgeKey", "kind"} /\ last["multiedgeKey"] = StrList(names)
  OBVIOUS
<1>2. G6Edge(e) = d
  BY DEF G6Edge
<1>3. IsFiniteSet(DOMAIN p)
  BY DataEdgesAssumption
<1> HIDE DEF own, last, p
<1>4. /\ DOMAIN both = DOMAIN own \cup DOMAIN p
      /\ \A name \in DOMAIN p : both[name] = p[name]
      /\ \A name \in DOMAIN own : name \notin DOMAIN p => both[name] = own[name]
  BY DEF Spread
<1> HIDE DEF both
<1>5. /\ DOMAIN d = DOMAIN both \cup DOMAIN last
      /\ \A name \in DOMAIN last : d[name] = last[name]
      /\ \A name \in DOMAIN both : name \notin DOMAIN last => d[name] = both[name]
  BY DEF Spread
<1> HIDE DEF d
<1>6. /\ EdgeFields = {"type", "label", "kind", "rank", "direction", "multiedgeKey"}
      /\ \A name \in EdgeFields : name \notin DOMAIN p
  BY DEF EdgeFields, p
<1>7. d["type"] = Str(e.type) /\ d["multiedgeKey"] = StrList(names)
  BY <1>1, <1>4, <1>5, <1>6
<1>8. DOMAIN d = DOMAIN p \cup EdgeFields /\ \A name \in DOMAIN p : d[name] = p[name]
  BY <1>1, <1>4, <1>5, <1>6
<1>9. DOMAIN shown = DOMAIN p /\ \A name \in DOMAIN p : shown[name] = p[name]
  <2>1. DOMAIN shown = DOMAIN d \ EdgeFields /\ \A name \in DOMAIN d \ EdgeFields : shown[name] = d[name]
    BY DEF Without
  <2>2. DOMAIN shown = DOMAIN p
    BY <1>6, <1>8, <2>1
  <2> QED
    BY <1>8, <2>1, <2>2
<1>10. ListOf(d.multiedgeKey) = names
  BY <1>7 DEF ListOf, StrList
<1>11. TypeShown(d) = TypeShown([type |-> Str(e.type)])
  BY <1>7 DEF TypeShown
<1>12. /\ tip.title = TypeShown(d) /\ tip.key = (IF HasKey(names) THEN names ELSE <<>>)
       /\ tip.properties = PropertyRows(shown, marked)
  BY <1>10 DEF DataEdgeTooltip
<1>13. marked = ToSet(tip.key)
  <2>1. ToSet(<<>>) = {}
    BY EmptySeq DEF ToSet
  <2> QED
    BY <1>12, <2>1
<1> HIDE DEF shown, marked, tip, names
<1>14. RowsShow(tip.properties, p, ToSet(tip.key))
  <2>1. RowsShow(PropertyRows(shown, marked), shown, marked)
    BY <1>3, <1>9, TooltipRowsAccount
  <2> QED
    BY <1>9, <1>12, <1>13, <2>1 DEF RowsShow
<1>15. /\ tip.title = TypeShown([type |-> Str(e.type)])
       /\ tip.key = (IF HasKey(names) THEN names ELSE <<>>)
       /\ RowsShow(tip.properties, p, ToSet(tip.key))
  BY <1>11, <1>12, <1>14
<1> QED
  BY <1>2, <1>15, Zenon DEF EdgeShown, tip, names, p

(* The elements of a card are shown as they are, in any payload: label and *)
(* tooltip say the same of a node, a key is whole or not there, properties *)
(* are shown or counted, and colours tell types, as long as there are      *)
(* colours (toG6Data, the tooltips, buildTypeColors).                      *)
THEOREM ElementsShown == DataSpec => []ElementShown
<1>1. DataTypeOK => ElementShown
  <2> SUFFICES ASSUME DataTypeOK PROVE ElementShown
    OBVIOUS
  <2> DEFINE all == ToSet(dataNodes)
             plain == {n \in all : (DOMAIN n.properties \cup ToSet(n.primaryKey)) \cap NodeFields = {}}
             named == {n.type : n \in all} \ {""}
             text(t) == Str(t).string
             types == [i \in DOMAIN dataNodes |-> text(dataNodes[i].type)]
             f == [t \in named |-> text(t)]
  <2>1. all \subseteq DataNodes /\ ToSet(dataEdges) \subseteq DataEdges
    BY ElementOfSeq, LenProperties DEF DataTypeOK, ToSet
  <2>2. \A n \in plain : NodeShown(n)
    BY <2>1, NodesShown
  <2>3. \A e \in ToSet(dataEdges) : DOMAIN e.properties \cap EdgeFields = {} => EdgeShown(e)
    BY <2>1, EdgesShown
  <2>4. /\ text("") = <<>> /\ \A t : t # "" => text(t) # <<>>
        /\ \A t, u : text(t) = text(u) => t = u
    BY TypeTexts
  <2>5. ASSUME NEW n \in plain
        PROVE  NodeFill(n) = ColorForType(text(n.type), BuildTypeColors(types))
    <3>1. Text(G6Node(n).type) = text(n.type)
      <4>1. G6Node(n).type = Str(n.type)
        BY <2>1, NodeData
      <4>2. DOMAIN Str(n.type) = {"string"}
        BY DEF Str
      <4> QED
        BY <4>1, <4>2 DEF Text
    <3> QED
      BY <3>1 DEF NodeFill
  <2> HIDE DEF text
  <2>6. ToSet(types) = {text(n.type) : n \in all}
    BY DEF ToSet
  <2>7. IsFiniteSet(ToSet(types))
    <3>1. dataNodes \in Seq(DataNodes) /\ Len(dataNodes) \in Nat /\ DOMAIN dataNodes = 1 .. Len(dataNodes)
      BY LenProperties DEF DataTypeOK
    <3>2. IsFiniteSet(DOMAIN dataNodes)
      BY <3>1, FS_Interval
    <3>3. types \in Surjection(DOMAIN dataNodes, ToSet(types))
      <4>1. ToSet(types) = {types[i] : i \in DOMAIN dataNodes}
        BY DEF ToSet
      <4>2. types \in [DOMAIN dataNodes -> ToSet(types)]
        BY <4>1
      <4> HIDE DEF types
      <4> QED
        BY <4>1, <4>2 DEF Surjection
    <3> HIDE DEF types
    <3> QED
      BY <3>2, <3>3, FS_Surjection
  <2>8. Cardinality(ToSet(types) \ {<<>>}) = Cardinality(named)
    <3> DEFINE texts == ToSet(types) \ {<<>>}
    <3>1. IsFiniteSet(texts)
      <4>1. texts \in SUBSET ToSet(types)
        OBVIOUS
      <4> QED
        BY <2>7, <4>1, FS_Subset
    <3>2. texts = {text(t) : t \in named}
      <4>1. \A x : x \in texts <=> x # <<>> /\ \E n \in all : x = text(n.type)
        BY <2>6
      <4>2. \A t : t \in named <=> t # "" /\ \E n \in all : t = n.type
        OBVIOUS
      <4> HIDE DEF texts, named, all
      <4>3. ASSUME NEW x \in texts PROVE x \in {text(t) : t \in named}
        <5>1. PICK n \in all : x = text(n.type)
          BY <4>1
        <5>2. n.type # ""
          BY <2>4, <4>1, <5>1
        <5> QED
          BY <4>2, <5>1, <5>2
      <4>4. ASSUME NEW t \in named PROVE text(t) \in texts
        BY <2>4, <4>1, <4>2
      <4> QED
        BY <4>3, <4>4
    <3> DEFINE g == [x \in texts |-> CHOOSE t \in named : text(t) = x]
    <3>3. \A x \in texts : g[x] \in named /\ text(g[x]) = x
      BY <3>2
    <3>4. \A t \in named : text(t) \in texts /\ g[text(t)] = t
      BY <2>4, <3>2, <3>3
    <3>5. g \in [texts -> named]
      BY <3>3
    <3> HIDE DEF g, texts, named
    <3>6. \A a, b \in texts : g[a] = g[b] => a = b
      BY <3>3
    <3>7. \A t \in named : \E a \in texts : g[a] = t
      BY <3>4
    <3>8. Cardinality(named) = Cardinality(texts)
      BY <3>1, <3>5, <3>6, <3>7, OneByOne
    <3> QED
      BY <3>8 DEF texts
  <2>9. ASSUME Cardinality(named) <= PaletteSize, NEW n \in plain, NEW m \in plain
        PROVE  NodeFill(n) = NodeFill(m) <=> n.type = m.type
    <3>1. text(n.type) \in ToSet(types) /\ text(m.type) \in ToSet(types)
      BY <2>6
    <3>2. Cardinality(ToSet(types) \ {<<>>}) <= PaletteSize
      BY <2>8, <2>9
    <3>3. NodeFill(n) = ColorForType(text(n.type), BuildTypeColors(types))
      BY <2>5
    <3>4. NodeFill(m) = ColorForType(text(m.type), BuildTypeColors(types))
      BY <2>5
    <3> HIDE DEF types
    <3>5. NodeFill(n) = NodeFill(m) <=> text(n.type) = text(m.type)
      BY <2>7, <3>1, <3>2, <3>3, <3>4, ColoursTellTypes
    <3> QED
      BY <2>4, <3>5
  <2>10. Cardinality(named) <= PaletteSize => \A n, m \in plain : NodeFill(n) = NodeFill(m) <=> n.type = m.type
    BY <2>9
  <2> QED
    BY <2>2, <2>3, <2>10, Zenon DEF ElementShown
<1> QED
  BY <1>1, DataTypes, PTL

-----------------------------------------------------------------------------
(* The parts of GraphView do not disturb each other: seen through the      *)
(* variables of a part, every behaviour of the whole is one of the part.   *)
THEOREM PartsFollowed == ViewSpec => Spec /\ CardsSpec /\ DataSpec /\ SchemaSpec
<1>1. ViewInit => Init /\ CardsInit /\ DataInit /\ SchemaInit
  BY DEF ViewInit
<1>2. [ViewNext]_viewVars => [Next]_vars
  BY Zenon DEF ViewNext, viewVars
<1>3. [ViewNext]_viewVars => [CardsNext]_cardVars
  BY Zenon DEF ViewNext, viewVars
<1>4. [ViewNext]_viewVars => [DataNext]_dataVars
  BY Zenon DEF ViewNext, viewVars
<1>5. [ViewNext]_viewVars => [SchemaNext]_schemaVars
  BY Zenon DEF ViewNext, viewVars
<1> QED
  BY <1>1, <1>2, <1>3, <1>4, <1>5, PTL DEF ViewSpec, Spec, CardsSpec, DataSpec, SchemaSpec

(* Every state of the whole has the type it states.                        *)
THEOREM ViewTypes == ViewSpec => []ViewTypeOK
<1>1. ViewInit => stage \in Stages
  BY DEF ViewInit
<1>2. stage \in Stages /\ [ViewNext]_viewVars => (stage \in Stages)'
  BY DEF ViewNext, viewVars
<1>3. ViewSpec => [](stage \in Stages)
  BY <1>1, <1>2, PTL DEF ViewSpec
<1>4. ProjectionInv => TypeOK
  BY DEF ProjectionInv
<1>5. SchemaInv => DescTypeOK
  BY DEF SchemaInv
<1> QED
  BY <1>3, <1>4, <1>5, PartsFollowed, ProjectionInvariant, CardsTypes, DataTypes, OverviewOfRows, PTL
     DEF ViewTypeOK

(* What is proved of the projection and of the cards by themselves holds   *)
(* on the way of a graph to the screen: nothing lost in silence, no edge   *)
(* drawn without its ends, the last graph drawn, no overlay stranded, the  *)
(* elements and a graph type shown as they are.                            *)
THEOREM ViewKeepsParts ==
  ViewSpec => []( /\ NothingLostSilently /\ PlaceholdersLackCells /\ NoDanglingDrawn
                  /\ FinalGraphDrawn /\ NoStrandedOverlay /\ ElementShown /\ SchemaFaithful )
BY PartsFollowed, TruncationReported, PlaceholdersExact, DrawnEdgesAnchored, LastGraphDrawn,
   NoOverlayStranded, ElementsShown, GraphTypeShown, PTL
=============================================================================
