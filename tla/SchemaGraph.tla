----------------------------- MODULE SchemaGraph -----------------------------
(***************************************************************************)
(* From the rows of DESC GRAPH TYPE to a graph type drawn as a graph:      *)
(* parseGraphTypeDesc reads the rows, buildSchemaGraphMeta makes node      *)
(* types vertices and edge types arcs between them, and the card draws     *)
(* labels, colours and tooltips from that.  An answer may end after any    *)
(* row, so what holds in every state holds of every answer.                *)
(*                                                                         *)
(* A cell of names arrives as an array, as the text of a list, as the text *)
(* of one name, or as null.  A name is the sequence of its parts between   *)
(* commas.  A type is one string; a pattern is its (...) groups.           *)
(***************************************************************************)
EXTENDS DrawnData

CONSTANTS DescRows,  \* the rows looked at
          MaxTypes   \* bound: rows of an answer

CellType == [form : {"array", "list text", "text", "null"}, names : Seq(Seq(STRING))]

(* The pattern of an edge type names two ends; a null cell stands for none. *)
ASSUME DescRowsAssumption ==
         /\ DescRows \subseteq [entity : STRING, name : STRING, pattern : Seq(STRING),
                                labels : CellType, key : CellType, properties : CellType]
         /\ \A row \in DescRows :
              /\ row.entity = "edge" => Len(row.pattern) = 2
              /\ \A cell \in {row.labels, row.key, row.properties} : cell.form = "null" => cell.names = <<>>

ASSUME MaxTypesAssumption == MaxTypes \in Nat

VARIABLES descRows,   \* the rows read
          nodeTypes, edgeTypes  \* the overview's, parsed

schemaVars == <<descRows, nodeTypes, edgeTypes>>

-----------------------------------------------------------------------------
(* parseListCell: the text of a list is cut at every comma.                *)
ParseListCell(cell) ==
  CASE cell.form = "array" -> cell.names
    [] cell.form = "list text" ->
         FlattenSeq([i \in DOMAIN cell.names |-> [j \in DOMAIN cell.names[i] |-> <<cell.names[i][j]>>]])
    [] cell.form = "text" -> cell.names
    [] cell.form = "null" -> <<>>

(* parsePatternGroups: a group without a name is dropped.                  *)
ParsePatternGroups(pattern) == {i \in DOMAIN pattern : pattern[i] # ""}

(* parseGraphTypeDesc, one row.                                            *)
NodeTypeOf(row) ==
  [ name |-> row.name, labels |-> ParseListCell(row.labels), primaryKey |-> ParseListCell(row.key),
    properties |-> ParseListCell(row.properties) ]

EdgeTypeOf(row) ==
  LET groups == ParsePatternGroups(row.pattern)
  IN [ name |-> row.name,
       source |-> IF groups = {} THEN "" ELSE row.pattern[Min(groups)],
       target |-> IF groups = {} THEN "" ELSE row.pattern[Max(groups)],
       labels |-> ParseListCell(row.labels), multiedgeKey |-> ParseListCell(row.key),
       properties |-> ParseListCell(row.properties) ]

DescTypeOK ==
  /\ descRows \in Seq(DescRows) /\ Len(descRows) <= MaxTypes
  /\ Len(nodeTypes) + Len(edgeTypes) <= Len(descRows)

SchemaInit == descRows = <<>> /\ nodeTypes = <<>> /\ edgeTypes = <<>>

(* No two rows describe one type.                                          *)
ReadDescRow ==
  /\ Len(descRows) < MaxTypes
  /\ \E row \in DescRows :
       /\ \A i \in DOMAIN descRows : <<descRows[i].entity, descRows[i].name>> # <<row.entity, row.name>>
       /\ descRows' = Append(descRows, row)
       /\ CASE row.entity = "node" ->
                 nodeTypes' = Append(nodeTypes, NodeTypeOf(row)) /\ UNCHANGED edgeTypes
            [] row.entity = "edge" ->
                 edgeTypes' = Append(edgeTypes, EdgeTypeOf(row)) /\ UNCHANGED nodeTypes
            [] OTHER -> UNCHANGED <<nodeTypes, edgeTypes>>

SchemaNext == ReadDescRow

SchemaSpec == SchemaInit /\ [][SchemaNext]_schemaVars

-----------------------------------------------------------------------------
(* buildSchemaGraphMeta.  An end that no row described gets a vertex.      *)
Vertex(type) ==
  [ id |-> type.name, name |-> type.name, labels |-> type.labels, primaryKey |-> type.primaryKey,
    properties |-> type.properties ]

Placeholder(name) == Vertex([name |-> name, labels |-> <<>>, primaryKey |-> <<>>, properties |-> <<>>])

Arc(type) ==
  [ id |-> <<type.source, type.name, type.target>>, source |-> type.source, target |-> type.target,
    name |-> type.name, labels |-> type.labels, multiedgeKey |-> type.multiedgeKey,
    properties |-> type.properties ]

WithEndAsListed(vertices, name) ==
  IF \E i \in DOMAIN nodeTypes : nodeTypes[i].name = name THEN vertices ELSE Append(vertices, Placeholder(name))

WithEnd(vertices, name) ==
  IF \E i \in DOMAIN vertices : vertices[i].name = name THEN vertices ELSE Append(vertices, Placeholder(name))

(* The vertices once the ends of the first n edge types are among them.    *)
WithEnds[n \in 0 .. Len(edgeTypes)] ==
  IF n = 0 THEN [i \in DOMAIN nodeTypes |-> Vertex(nodeTypes[i])]
  ELSE WithEnd(WithEnd(WithEnds[n - 1], edgeTypes[n].source), edgeTypes[n].target)

BuildSchemaGraphMeta ==
  [ nodes |-> WithEnds[Len(edgeTypes)],
    edges |-> [i \in DOMAIN edgeTypes |-> Arc(edgeTypes[i])] ]

-----------------------------------------------------------------------------
(* toSchemaG6Data with schemaNodeLabel and schemaEdgeLabel, by line.       *)
KeyShown(arc) == arc.multiedgeKey # <<>> /\ arc.multiedgeKey[1] \notin {<<"Unique">>, <<"Auto">>}

Lines(lines) == SelectSeq(lines, LAMBDA line : line # <<>>)

G6Vertex(v) ==
  [ id |-> v.id,
    data |-> [ name |-> v.name, labels |-> v.labels, primaryKey |-> v.primaryKey, properties |-> v.properties,
               label |-> Lines(<<<<v.name>>, v.labels>>) ] ]

G6Arc(a) ==
  [ id |-> a.id, source |-> a.source, target |-> a.target,
    data |-> [ name |-> a.name, multiedgeKey |-> a.multiedgeKey, properties |-> a.properties,
               label |-> Lines(<<<<a.name>>, IF KeyShown(a) THEN a.multiedgeKey ELSE <<>>, a.properties>>) ] ]

(* The fill of a vertex: a vertex without a name has none of the palette.  *)
SchemaFill(v) ==
  LET names == BuildSchemaGraphMeta.nodes
  IN ColorForType(Str(v.data.name).string, BuildTypeColors([i \in DOMAIN names |-> Str(names[i].name).string]))

(* schemaNodeTooltip and schemaEdgeTooltip.                                *)
NameRows(names, marked) ==
  LET shown == SubSeq(names, 1, IF Len(names) <= TooltipMax THEN Len(names) ELSE TooltipMax)
  IN [ rows |-> [i \in DOMAIN shown |-> [name |-> shown[i], key |-> shown[i] \in marked]],
       omitted |-> Len(names) - Len(shown) ]

SchemaNodeTooltip(d) ==
  [ name |-> d.name, labels |-> d.labels, key |-> d.primaryKey,
    properties |-> NameRows(d.properties, ToSet(d.primaryKey)) ]

SchemaEdgeTooltip(d) ==
  [ name |-> d.name, key |-> IF KeyShown(d) THEN d.multiedgeKey ELSE <<>>,
    properties |-> NameRows(d.properties, {}) ]

-----------------------------------------------------------------------------
(* The names a cell stands for: all but those of a list sent as text, if   *)
(* one of them has a comma.                                                *)
Told(cell) == cell.form = "list text" => \A i \in DOMAIN cell.names : Len(cell.names[i]) = 1

(* A key marked Unique or Auto is no key.                                  *)
Marked(cell) == cell.form = "text" /\ cell.names \in {<<<<"Unique">>>>, <<<<"Auto">>>>}

(* A key whose first property has the name of a marker looks like one.     *)
LooksMarked(cell) == ~Marked(cell) /\ cell.names # <<>> /\ cell.names[1] \in {<<"Unique">>, <<"Auto">>}

ShowsNames(shown, cell) == Told(cell) => shown = cell.names

ShowsRows(shown, cell) ==
  Told(cell) => /\ Len(shown.rows) + shown.omitted = Len(cell.names)
                /\ \A i \in DOMAIN shown.rows : shown.rows[i].name = cell.names[i]

VertexShows(v, row) ==
  LET tip == SchemaNodeTooltip(G6Vertex(v).data)
  IN /\ tip.name = row.name
     /\ ShowsNames(tip.labels, row.labels) /\ ShowsNames(tip.key, row.key)
     /\ ShowsRows(tip.properties, row.properties)
     /\ Told(row.labels) => G6Vertex(v).data.label = Lines(<<<<row.name>>, row.labels.names>>)
     /\ Told(row.key) =>
          \A i \in DOMAIN tip.properties.rows :
            tip.properties.rows[i].key <=> Contains(row.key.names, tip.properties.rows[i].name)

ArcShows(a, row) ==
  LET tip == SchemaEdgeTooltip(G6Arc(a).data)
  IN /\ <<G6Arc(a).source, G6Arc(a).target>> = <<Head(row.pattern), Last(row.pattern)>>
     /\ tip.name = row.name
     /\ ShowsRows(tip.properties, row.properties)
     /\ Told(row.key) /\ ~LooksMarked(row.key) => tip.key = IF Marked(row.key) THEN <<>> ELSE row.key.names

Described(entity) == {i \in DOMAIN descRows : descRows[i].entity = entity}

(* Is an end of the row's pattern without a name?                          *)
Anonymous(row) == "" \in ToSet(row.pattern)

(* The card of a graph type shows the graph type: each node type is one    *)
(* vertex with its labels, key and properties, each edge type one arc      *)
(* between the ends of its pattern, whatever order the rows come in and    *)
(* whether or not its ends are described; every other vertex is such an    *)
(* end, once; ids are unique and colours tell the types apart              *)
(* (parseGraphTypeDesc, buildSchemaGraphMeta, toSchemaG6Data, tooltips).   *)
(* Excepted are names with commas in the text of a list, keys that look    *)
(* like a marker, ends without a name and more types than colours.         *)
SchemaFaithful ==
  LET meta == BuildSchemaGraphMeta
      vertices == ToSet(meta.nodes)
      rowsOf(entity) == {descRows[i] : i \in Described(entity)}
      ends == UNION {ToSet(row.pattern) : row \in rowsOf("edge")}
      fills == {SchemaFill(G6Vertex(v)) : v \in vertices}
  IN /\ \A row \in rowsOf("node") : \E v \in vertices : v.id = row.name /\ VertexShows(v, row)
     /\ \A v \in vertices : (\E row \in rowsOf("node") : v.id = row.name) \/ v = Placeholder(v.id)
     /\ (\A row \in rowsOf("edge") : ~Anonymous(row)) =>
          {v.id : v \in vertices} = {row.name : row \in rowsOf("node")} \cup ends
     /\ \A row \in rowsOf("edge") :
          Anonymous(row) \/ \E a \in ToSet(meta.edges) : a.name = row.name /\ ArcShows(a, row)
     /\ \A a \in ToSet(meta.edges) : {a.source, a.target} \subseteq {v.id : v \in vertices}
     /\ Cardinality({v.id : v \in vertices}) = Len(meta.nodes)
     /\ Cardinality({a.id : a \in ToSet(meta.edges)}) = Cardinality(Described("edge"))
     /\ Cardinality(vertices) <= PaletteSize => Cardinality(fills) = Cardinality(vertices)
=============================================================================
