---------------------------- MODULE ResultDecode ----------------------------
(***************************************************************************)
(* decodeResultTable over one node or path column, batch by batch.  The    *)
(* column's schema is parsed once and then written to while batches and    *)
(* elements are decoded: where each property is found in a vector is       *)
(* stamped on it, and a path column gets the batch's vector pairs.  A flat *)
(* path is walked from element to element through adjacency cells.         *)
(*                                                                         *)
(* Values, ids, names and byte layouts are left out: a cell is named by    *)
(* the occurrence <<row, position>> and the property it was encoded from,  *)
(* so a decoded element tells which cells it was read from.  What the      *)
(* server puts into a batch is ReadBatch, after the layout the decoder's   *)
(* comments give.                                                          *)
(***************************************************************************)
EXTENDS Naturals, Sequences, FiniteSets

CONSTANTS NodeTypes, EdgeTypes,
          Props,     \* every element type has these properties
          MaxRows,   \* bound: rows of a batch
          MaxHops    \* bound: edges of a path

ASSUME TypesAssumption ==
         /\ NodeTypes \cap EdgeTypes = {} /\ NodeTypes # {}
         /\ IsFiniteSet(NodeTypes) /\ IsFiniteSet(EdgeTypes) /\ IsFiniteSet(Props)
ASSUME BoundsAssumption == MaxRows \in Nat /\ MaxHops \in Nat

VARIABLES kind,     \* what the column holds, "node" or "path"
          stamp,    \* prop.vectorIndex of every type's properties
          batch,    \* the batch being decoded, as the server encoded it
          pairs,    \* schema.meta: nodePairIndex and edgePairIndex
          walk,     \* decodePath's loop, or NoWalk
          rows      \* the rows decoded of this batch

vars == <<kind, stamp, batch, pairs, walk, rows>>

-----------------------------------------------------------------------------
Types == NodeTypes \cup EdgeTypes

Permuted(S) == {s \in [1 .. Cardinality(S) -> S] : \A x \in S : \E i \in DOMAIN s : s[i] = x}

(* A path is the sequence of its elements' types; a null row is empty.     *)
Paths ==
  { p \in UNION {[1 .. 2 * n + 1 -> Types] : n \in 0 .. MaxHops} :
      \A i \in DOMAIN p : p[i] \in (IF i % 2 = 1 THEN NodeTypes ELSE EdgeTypes) }

RowsOf(k) == {<<>>} \cup IF k = "node" THEN {<<t>> : t \in NodeTypes} ELSE Paths

(* order: the property list of a vector's special meta data, per type.     *)
(* nodes, edges: the types in the order a path's special meta data lists   *)
(* them.  end: the vector named by the adjacency cell after a last element.*)
Batches ==
  [ rows  : UNION {[1 .. n -> RowsOf(kind)] : n \in 0 .. MaxRows},
    order : [Types -> Permuted(Props)],
    nodes : Permuted(NodeTypes),
    edges : Permuted(EdgeTypes),
    end   : NodeTypes ]

(* The types of a node column share one vector and its property list.      *)
OneVector(b) == \A s, t \in Types : b.order[s] = b.order[t]

(* Cells are laid out in row order, each type's in vectors of its own.     *)
Slot(r, i) ==
  Cardinality({o \in (1 .. r) \X (1 .. 2 * MaxHops + 1) :
                 /\ o[2] \in DOMAIN batch.rows[o[1]]
                 /\ batch.rows[o[1]][o[2]] = batch.rows[r][i]
                 /\ o[1] < r \/ o[2] < i})

Header(r, i) ==
  IF i \in DOMAIN batch.rows[r]
  THEN [edge |-> batch.rows[r][i] \in EdgeTypes, next |-> batch.rows[r][i], offset |-> Slot(r, i)]
  ELSE [edge |-> FALSE, next |-> batch.end, offset |-> 0]

(* The occurrences in slot n of type t: one, or none beyond its last cell. *)
At(t, n) ==
  {o \in (1 .. Len(batch.rows)) \X (1 .. 2 * MaxHops + 1) :
     /\ o[2] \in DOMAIN batch.rows[o[1]]
     /\ batch.rows[o[1]][o[2]] = t /\ Slot(o[1], o[2]) = n}

(* Nested vectors of a path column: an element and an adjacency vector per *)
(* type, in the listed order; the vector at place 2k holds this type.      *)
VectorType(place) ==
  IF place \div 2 < Len(batch.nodes) THEN batch.nodes[place \div 2 + 1]
  ELSE batch.edges[place \div 2 - Len(batch.nodes) + 1]

(* What an element is read as: its occurrence, and per property the cell   *)
(* that was read for it.                                                   *)
Element(t, order, o, stamped) ==
  [id |-> o, props |-> [p \in Props |-> <<order[stamped[t][p]], o>>]]

Encoded(r) ==
  [i \in DOMAIN batch.rows[r] |-> [id |-> <<r, i>>, props |-> [p \in Props |-> <<p, <<r, i>>>>]]]

-----------------------------------------------------------------------------
NoWalk == [total |-> 0]
Walks ==
  {NoWalk} \cup
  [ total : 1 .. (2 * MaxHops + 1), edge : BOOLEAN, at : Types, offset : Nat,
    elements : Seq([id : Nat \X Nat, props : [Props -> Props \X (Nat \X Nat)]]) ]

TypeOK ==
  /\ kind \in {"node", "path"}
  /\ stamp \in [Types -> [Props -> 1 .. Cardinality(Props)]]
  /\ batch \in Batches
  /\ pairs \in [Types -> [cur : Nat, adj : Nat]]
  /\ walk \in Walks
  /\ Len(rows) <= Len(batch.rows)

NoPairs == [t \in Types |-> [cur |-> 0, adj |-> 1]]

Init ==
  /\ kind \in {"node", "path"}
  /\ stamp = [t \in Types |-> [p \in Props |-> 1]]
  /\ batch \in {b \in Batches : b.rows = <<>>}
  /\ pairs = NoPairs
  /\ walk = NoWalk
  /\ rows = <<>>

-----------------------------------------------------------------------------
(* decodePropVectorIndex: the position of every property of these types    *)
(* in the property list of the vector they are in.                         *)
StampedFromZero(types) ==
  [t \in Types |->
     IF t \in types
     THEN [p \in Props |-> (CHOOSE i \in DOMAIN batch'.order[t] : batch'.order[t][i] = p) - 1]
     ELSE stamp[t]]

Stamped(types) ==
  [t \in Types |->
     IF t \in types
     THEN [p \in Props |-> CHOOSE i \in DOMAIN batch'.order[t] : batch'.order[t][i] = p]
     ELSE stamp[t]]

(* decodePathSpecialData: vectors come in pairs, node types first.         *)
PairsOf(listed, first) ==
  [t \in {listed[i] : i \in DOMAIN listed} |->
     LET k == CHOOSE i \in DOMAIN listed : listed[i] = t
     IN [cur |-> 2 * (first + k - 1), adj |-> 2 * (first + k - 1) + 1]]

PairsRestarted(b) ==
  [t \in Types |-> IF t \in NodeTypes THEN PairsOf(b.nodes, 0)[t] ELSE PairsOf(b.edges, 0)[t]]

PathPairs(b) ==
  [t \in Types |-> IF t \in NodeTypes THEN PairsOf(b.nodes, 0)[t]
                   ELSE PairsOf(b.edges, Len(b.nodes))[t]]

(* prepareVector, before the rows of a batch: a node column is stamped, a  *)
(* path column gets its pairs.                                             *)
Prepare(b) ==
  \/ /\ kind = "node"
     /\ stamp' = Stamped(NodeTypes)
     /\ UNCHANGED pairs
  \/ /\ kind = "path"
     /\ pairs' = PathPairs(b)
     /\ UNCHANGED stamp

(* The next batch of the table; the rows before it are in the result.      *)
ReadBatch ==
  /\ walk = NoWalk /\ Len(rows) = Len(batch.rows)
  /\ \E b \in Batches :
       /\ kind = "node" => OneVector(b)
       /\ batch' = b
       /\ Prepare(b)
  /\ rows' = <<>>
  /\ UNCHANGED <<kind, walk>>

-----------------------------------------------------------------------------
Row == Len(rows) + 1
RowWaits == walk = NoWalk /\ Row <= Len(batch.rows)

(* decodeValue: the row's bit in the null bitmap is not set. *)
DecodeNull ==
  /\ RowWaits /\ batch.rows[Row] = <<>>
  /\ rows' = Append(rows, <<>>)
  /\ UNCHANGED <<kind, stamp, batch, pairs, walk>>

(* decodeNode: the type comes from the node's id, the properties from the  *)
(* nested vectors stamped for that type.                                   *)
DecodeNode ==
  /\ kind = "node"
  /\ RowWaits /\ batch.rows[Row] # <<>>
  /\ LET t == batch.rows[Row][1]
     IN rows' = Append(rows, <<Element(t, batch.order[t], <<Row, 1>>, stamp)>>)
  /\ UNCHANGED <<kind, stamp, batch, pairs, walk>>

(* decodePath up to its loop: the row's header names the first element.    *)
StartPath ==
  /\ kind = "path"
  /\ RowWaits /\ batch.rows[Row] # <<>>
  /\ walk' = [total |-> Len(batch.rows[Row]), edge |-> FALSE, at |-> Header(Row, 1).next,
              offset |-> Header(Row, 1).offset, elements |-> <<>>]
  /\ UNCHANGED <<kind, stamp, batch, pairs, rows>>

(* The vector the walk is at, the type in it, the occurrence at its offset.*)
Place == pairs[walk.at].cur
TypeThere == VectorType(Place)
Readable == (TypeThere \in EdgeTypes) = walk.edge /\ At(TypeThere, walk.offset) # {}

(* One turn of decodePath's loop: the element vector's own property list   *)
(* is stamped, the element is decoded, and the adjacency cell at the same  *)
(* offset leads on -- also after the last element, where it is not used.   *)
Advance(elements, next) ==
  IF Len(elements) = walk.total
  THEN /\ rows' = Append(rows, elements)
       /\ walk' = NoWalk
  ELSE /\ walk' = [total |-> walk.total, edge |-> next.edge, at |-> next.next,
                   offset |-> next.offset, elements |-> elements]
       /\ UNCHANGED rows

WalkUnstamped ==
  /\ walk # NoWalk /\ Readable
  /\ LET o == CHOOSE x \in At(TypeThere, walk.offset) : TRUE
         e == Element(TypeThere, batch.order[TypeThere], o, stamp)
     IN Advance(Append(walk.elements, e), Header(o[1], o[2] + 1))
  /\ UNCHANGED <<kind, stamp, batch, pairs>>

WalkElement ==
  /\ walk # NoWalk /\ Readable
  /\ UNCHANGED <<kind, batch, pairs>>
  /\ stamp' = Stamped({TypeThere})
  /\ LET o == CHOOSE x \in At(TypeThere, walk.offset) : TRUE
         e == Element(TypeThere, batch.order[TypeThere], o, stamp')
     IN Advance(Append(walk.elements, e), Header(o[1], o[2] + 1))

Next == ReadBatch \/ DecodeNull \/ DecodeNode \/ StartPath \/ WalkElement

Spec == Init /\ [][Next]_vars

-----------------------------------------------------------------------------
(* Every row decoded so far, and the part of a path walked so far, is what *)
(* the server encoded: the right occurrences in the right order, each      *)
(* property from its own vector, nulls where they were -- although the     *)
(* stamps and pairs are those of whichever batch and element came last.    *)
DecodedFaithfully ==
  /\ \A r \in DOMAIN rows : rows[r] = Encoded(r)
  /\ walk # NoWalk => walk.elements = SubSeq(Encoded(Row), 1, Len(walk.elements))

(* Decoding a well-formed batch never throws, so no query result is lost   *)
(* to its decoder (decodePath's "element type not found in path meta").    *)
NeverThrows == walk # NoWalk => Readable
=============================================================================
