------------------------------ MODULE DrawnData ------------------------------
(***************************************************************************)
(* What a card shows of the elements of a data graph.  toG6Data puts an    *)
(* element's own fields and its properties into one record, from which the *)
(* label, the colour and the tooltip are read back later; a property can   *)
(* have the name of such a field.                                          *)
(*                                                                         *)
(* A JSON value says what it is: null, a number, a list of strings, or a   *)
(* string, kept as the sequence of the pieces it was put together from.    *)
(* Punctuation of edge labels, HTML and the cutting of long values are     *)
(* left out.                                                               *)
(***************************************************************************)
EXTENDS Integers, Sequences, SequencesExt, FiniteSets

CONSTANTS DataNodes, DataEdges,  \* the nodes and edges looked at
          PaletteSize,           \* colours in TYPE_PALETTE
          TooltipMax,            \* TOOLTIP_MAX_PROPERTIES
          MaxElements            \* bound: nodes and edges of a payload

ASSUME DrawnAssumption == PaletteSize \in Nat /\ TooltipMax \in Nat /\ MaxElements \in Nat

(* What an element can have: ":" stands for the separator of a key's       *)
(* values, and is neither an id nor a piece of a value.                    *)
Pieces == STRING \ {":"}
Null == [null |-> TRUE]
Undefined == [undefined |-> TRUE]
Value == {Null, Undefined} \cup [string : Seq(Pieces)] \cup [number : Pieces] \cup [list : Seq(Pieces)]

ASSUME DataNodesAssumption ==
         \A n \in DataNodes :
           /\ n.id \in Pieces /\ n.type \in STRING /\ n.labels \in Seq(STRING) /\ n.primaryKey \in Seq(STRING)
           /\ IsFiniteSet(DOMAIN n.properties) /\ n.properties \in [DOMAIN n.properties -> Value]

ASSUME DataEdgesAssumption ==
         \A e \in DataEdges :
           /\ e.type \in STRING /\ e.multiedgeKey \in Seq(STRING) /\ {e.rank, e.direction} \subseteq Value
           /\ IsFiniteSet(DOMAIN e.properties) /\ e.properties \in [DOMAIN e.properties -> Value]

VARIABLES dataNodes, dataEdges   \* the payload's, in its order

dataVars == <<dataNodes, dataEdges>>

-----------------------------------------------------------------------------
Str(x) == [string |-> IF x = "" THEN <<>> ELSE <<x>>]
StrList(s) == [list |-> s]

Get(object, name) == IF name \in DOMAIN object THEN object[name] ELSE Undefined
Missing(v) == v \in {Null, Undefined}

(* String(v ?? '').                                                        *)
Text(v) ==
  CASE "string" \in DOMAIN v -> v.string
    [] "number" \in DOMAIN v -> <<v.number>>
    [] "list" \in DOMAIN v -> v.list
    [] OTHER -> <<>>

IsText(v) == "string" \in DOMAIN v /\ v.string # <<>>
ListOf(v) == IF "list" \in DOMAIN v THEN v.list ELSE <<>>

-----------------------------------------------------------------------------
(* buildTypeColors and colorForType: a type is its text, a colour its      *)
(* place in the palette.                                                   *)
UnknownFill == PaletteSize

ColorsInTurn(types) ==
  LET typed == SelectSeq(types, LAMBDA t : t # <<>>)
  IN [t \in ToSet(typed) |->
        ((CHOOSE i \in DOMAIN typed : typed[i] = t /\ \A j \in DOMAIN typed : typed[j] = t => j <= i) - 1) % PaletteSize]

BuildTypeColors(types) ==
  LET distinct == SetToSeq(ToSet(types) \ {<<>>})
  IN [t \in ToSet(distinct) |-> ((CHOOSE i \in DOMAIN distinct : distinct[i] = t) - 1) % PaletteSize]

ColorForType(type, colors) ==
  CASE type = <<>> -> UnknownFill
    [] type \in DOMAIN colors -> colors[type]
    [] OTHER -> 0

-----------------------------------------------------------------------------
(* primaryKeyLabel and primaryKeyValueFromData: the text of the key's      *)
(* values, or nothing when there is no key or one of them is missing.      *)
KeyText(names, object) ==
  IF names = <<>> \/ \E i \in DOMAIN names : Missing(Get(object, names[i])) THEN <<>>
  ELSE Tail(FlattenSeq([i \in DOMAIN names |-> <<":">> \o Text(object[names[i]])]))

NodeLabel(n) ==
  LET key == KeyText(n.primaryKey, n.properties)
      name == IF Missing(Get(n.properties, "name")) THEN Get(n.properties, "title") ELSE n.properties["name"]
  IN IF key # <<>> THEN key ELSE IF IsText(name) THEN name.string ELSE <<n.id>>

(* The multiedge key of a type that has one.                               *)
HasKey(names) == names # <<>> /\ names[1] \notin {"Unique", "Auto"}

EdgeLabel(e) ==
  LET present(name) == ~Missing(Get(e.properties, name))
      parts(name) == <<name>> \o Text(e.properties[name])
      shown == IF HasKey(e.multiedgeKey) THEN SelectSeq(e.multiedgeKey, present) ELSE <<>>
  IN Str(e.type).string \o FlattenSeq([i \in DOMAIN shown |-> parts(shown[i])])

(* toG6Data: of two fields of one name the one written last stays.         *)
Spread(object, later) ==
  [name \in DOMAIN object \cup DOMAIN later |-> IF name \in DOMAIN later THEN later[name] ELSE object[name]]

G6Node(n) ==
  Spread(Spread([type |-> Str(n.type), labels |-> StrList(n.labels),
                 label |-> [string |-> NodeLabel(n)], primaryKey |-> StrList(n.primaryKey)],
                n.properties),
         [kind |-> Str("data-node")])

G6Edge(e) ==
  Spread(Spread([type |-> Str(e.type), label |-> [string |-> EdgeLabel(e)]], e.properties),
         [rank |-> e.rank, direction |-> e.direction, multiedgeKey |-> StrList(e.multiedgeKey),
          kind |-> Str("data-edge")])

(* The fill of a node, coloured by the types of all nodes.                 *)
NodeFill(n) ==
  ColorForType(Text(G6Node(n).type), BuildTypeColors([i \in DOMAIN dataNodes |-> Str(dataNodes[i].type).string]))

-----------------------------------------------------------------------------
(* propertyRowsHtml: the first rows, those of a key marked, and how many   *)
(* there are besides.                                                      *)
PropertyRows(properties, marked) ==
  LET keys == SetToSeq(DOMAIN properties)
      shown == SubSeq(keys, 1, IF Len(keys) <= TooltipMax THEN Len(keys) ELSE TooltipMax)
  IN [ rows    |-> [i \in DOMAIN shown |-> [name |-> shown[i], key |-> shown[i] \in marked, value |-> properties[shown[i]]]],
       omitted |-> Len(keys) - Len(shown) ]

Without(object, names) == [f \in DOMAIN object \ names |-> object[f]]

NodeFields == {"type", "labels", "label", "kind", "primaryKey"}
EdgeFields == {"type", "label", "kind", "rank", "direction", "multiedgeKey"}

TypeShown(d) == IF IsText(d.type) THEN d.type.string ELSE <<"none">>

DataNodeTooltip(d) ==
  LET key == ListOf(d.primaryKey)
      pk == KeyText(key, d)
  IN [ title      |-> IF pk # <<>> THEN pk ELSE Text(d.label),
       type       |-> TypeShown(d),
       labels     |-> ListOf(d.labels),
       properties |-> PropertyRows(Without(d, NodeFields), ToSet(key)) ]

DataEdgeTooltip(d) ==
  LET key == ListOf(d.multiedgeKey)
  IN [ title      |-> TypeShown(d),
       direction  |-> IF IsText(d.direction) THEN d.direction.string ELSE <<>>,
       key        |-> IF HasKey(key) THEN key ELSE <<>>,
       properties |-> PropertyRows(Without(d, EdgeFields), IF HasKey(key) THEN ToSet(key) ELSE {}) ]

-----------------------------------------------------------------------------
DataTypeOK ==
  /\ dataNodes \in Seq(DataNodes) /\ dataEdges \in Seq(DataEdges)
  /\ Len(dataNodes) + Len(dataEdges) <= MaxElements

DataInit == dataNodes = <<>> /\ dataEdges = <<>>

(* The payload, element by element; GraphProjection has the ids.           *)
PayloadNode ==
  /\ Len(dataNodes) < MaxElements /\ dataEdges = <<>>
  /\ \E n \in DataNodes :
       /\ \A i \in DOMAIN dataNodes : dataNodes[i].id # n.id
       /\ dataNodes' = Append(dataNodes, n)
  /\ UNCHANGED dataEdges

PayloadEdge ==
  /\ Len(dataNodes) + Len(dataEdges) < MaxElements
  /\ \E e \in DataEdges :
       /\ {e.source, e.target} \subseteq {dataNodes[i].id : i \in DOMAIN dataNodes}
       /\ dataEdges' = Append(dataEdges, e)
  /\ UNCHANGED dataNodes

DataNext == PayloadNode \/ PayloadEdge

DataSpec == DataInit /\ [][DataNext]_dataVars

-----------------------------------------------------------------------------
(* The rows of a tooltip and what they leave out are the properties.       *)
RowsShow(tip, properties, keys) ==
  /\ Len(tip.rows) + tip.omitted = Cardinality(DOMAIN properties)
  /\ \A i \in DOMAIN tip.rows : LET row == tip.rows[i] IN
       /\ row.name \in DOMAIN properties /\ row.value = properties[row.name]
       /\ row.key <=> row.name \in keys
       /\ \A j \in DOMAIN tip.rows : tip.rows[j].name = row.name => i = j

NodeShown(n) ==
  LET d == G6Node(n)
      tip == DataNodeTooltip(d)
      keyed == n.primaryKey # <<>> /\ \A i \in DOMAIN n.primaryKey : ~Missing(Get(n.properties, n.primaryKey[i]))
  IN /\ Text(d.label) = tip.title
     /\ keyed => \A i \in DOMAIN n.primaryKey : ToSet(Text(n.properties[n.primaryKey[i]])) \subseteq ToSet(tip.title)
     /\ ~keyed => ":" \notin ToSet(tip.title)
     /\ tip.title # <<>>
     /\ tip.type = IF n.type = "" THEN <<"none">> ELSE <<n.type>>
     /\ tip.labels = n.labels
     /\ RowsShow(tip.properties, n.properties, ToSet(n.primaryKey))

EdgeShown(e) ==
  LET tip == DataEdgeTooltip(G6Edge(e))
  IN /\ tip.title = TypeShown([type |-> Str(e.type)])
     /\ tip.key = (IF HasKey(e.multiedgeKey) THEN e.multiedgeKey ELSE <<>>)
     /\ RowsShow(tip.properties, e.properties, ToSet(tip.key))

(* Whoever looks at a card sees each element as it is: the label on the    *)
(* canvas is the title of the tooltip, a key is shown whole or not at all, *)
(* every property is a row or counted, key marks are on the key, and nodes *)
(* have one colour exactly when they have one type (toG6Data, the tooltips,*)
(* buildTypeColors).  Excepted are properties and names in a key that have *)
(* the name of a field, and more types than colours.                       *)
ElementShown ==
  LET plain == {n \in ToSet(dataNodes) : (DOMAIN n.properties \cup ToSet(n.primaryKey)) \cap NodeFields = {}}
      types == {n.type : n \in ToSet(dataNodes)} \ {""}
  IN /\ \A n \in plain : NodeShown(n)
     /\ \A e \in ToSet(dataEdges) : DOMAIN e.properties \cap EdgeFields = {} => EdgeShown(e)
     /\ Cardinality(types) <= PaletteSize =>
          \A n, m \in plain : NodeFill(n) = NodeFill(m) <=> n.type = m.type
=============================================================================
