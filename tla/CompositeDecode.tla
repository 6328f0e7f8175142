--------------------------- MODULE CompositeDecode ---------------------------
(***************************************************************************)
(* How the decoder reads types and values that have parts, given how it    *)
(* reads the parts.  A reader is a position in a stream: what is read      *)
(* comes with the position after it.  ValueDecode takes this module once   *)
(* for each level of types.                                                *)
(***************************************************************************)
EXTENDS Vectors, SequencesExt

CONSTANTS PartSchema(_, _),           \* newTypeSchema of a part
          DecodePart(_, _, _, _),     \* decodeAnyCompositeValue of a part
          DecodeFlatPart(_, _, _, _), \* decodeFlatValue of a part
          PartShows(_, _, _)          \* what a decoded part has to show

(* An object or a Map filled with one name after the other: for a name set *)
(* twice the last value stays.                                             *)
ObjectOf(names, values) ==
  [p \in ToSet(names) |->
     values[CHOOSE i \in DOMAIN names : names[i] = p /\ \A j \in DOMAIN names : j > i => names[j] # p]]

-----------------------------------------------------------------------------
(* newTypeSchema.  A count, then each one's name and type.                 *)
SchemaEnds(s, at) ==
  LET ends[k \in 0 .. s[at + 1]] == IF k = 0 THEN at + 1 ELSE PartSchema(s, ends[k - 1] + 1).at
  IN ends

NamedSchemas(s, at) ==
  LET ends == SchemaEnds(s, at)
  IN [ got |-> ObjectOf([k \in 1 .. s[at + 1] |-> s[ends[k - 1] + 1]],
                        [k \in 1 .. s[at + 1] |-> PartSchema(s, ends[k - 1] + 1).got]),
       at  |-> ends[s[at + 1]] ]

(* An element's type comes as one, with a graph and a type id.             *)
NewTypeSchema(s, at) ==
  LET code == s[at + 1]
      is(type, end) == [got |-> type, at |-> end]
      sub == PartSchema(s, at + 1)
      value == PartSchema(s, sub.at)
      fields == NamedSchemas(s, at + 1)
      props == NamedSchemas(s, at + 4)
  IN CASE code \in Lists -> is([code |-> code, sub |-> sub.got], sub.at)
       [] code = "Map" -> is([code |-> code, key |-> sub.got, value |-> value.got], value.at)
       [] code = "Record" -> is([code |-> code, props |-> fields.got], fields.at)
       [] code \in Elements ->
            is([code |-> code,
                props |-> [p \in DOMAIN props.got |-> [schema |-> props.got[p], vectorIndex |-> 0]]],
               props.at)
       [] OTHER -> PartSchema(s, at)

-----------------------------------------------------------------------------
(* getEdgeDirection and the ends: an incoming edge is turned around.       *)
EdgeOf(h, properties) ==
  [ src        |-> IF h[3] = 1 THEN h[2] ELSE h[1],
    dst        |-> IF h[3] = 1 THEN h[1] ELSE h[2],
    direction  |-> CASE h[3] = 0 -> "outgoing" [] h[3] = 1 -> "incoming" [] OTHER -> "none",
    properties |-> properties ]

(* A list or set in a stream: a type, a size and a bit for each value,     *)
(* then the values that are there.                                         *)
ItemAt(ctx, s, at, i, from) ==
  IF s[at + 3][i] THEN DecodePart(ctx, s, from, s[at + 1]) ELSE [got |-> Null, at |-> from]

ItemEnds(ctx, s, at) ==
  LET ends[i \in 0 .. s[at + 2]] == IF i = 0 THEN at + 3 ELSE ItemAt(ctx, s, at, i, ends[i - 1]).at
  IN ends

DecodeItems(ctx, s, at) ==
  LET ends == ItemEnds(ctx, s, at)
  IN [ got |-> [i \in 1 .. s[at + 2] |-> ItemAt(ctx, s, at, i, ends[i - 1]).got],
       at  |-> ends[s[at + 2]] ]

(* Fields and properties in a stream: a count, then for each one its name, *)
(* its type and its value.                                                 *)
NamedAt(ctx, s, from) == DecodePart(ctx, s, from + 2, s[from + 2])

NamedEnds(ctx, s, at) ==
  LET ends[k \in 0 .. s[at + 1]] == IF k = 0 THEN at + 1 ELSE NamedAt(ctx, s, ends[k - 1]).at
  IN ends

DecodeNamed(ctx, s, at) ==
  LET ends == NamedEnds(ctx, s, at)
  IN [ got |-> ObjectOf([k \in 1 .. s[at + 1] |-> s[ends[k - 1] + 1]],
                        [k \in 1 .. s[at + 1] |-> NamedAt(ctx, s, ends[k - 1]).got]),
       at  |-> ends[s[at + 1]] ]

(* decodeAnyCompositeValue: the value of this type at a position.  A map   *)
(* is a set of keys and a set of values.                                   *)
DecodeAnyCompositeValue(ctx, s, at, code) ==
  LET is(value, end) == [got |-> value, at |-> end]
      items == DecodeItems(ctx, s, at)
      values == DecodeItems(ctx, s, items.at)
      named(from) == DecodeNamed(ctx, s, from)
  IN CASE code \in Lists -> is([items |-> items.got], items.at)
       [] code = "Map" ->
            is([entries |-> ObjectOf([i \in DOMAIN items.got |-> items.got[i].string], values.got)], values.at)
       [] code = "Record" -> is([fields |-> named(at).got], named(at).at)
       [] code = "Node" -> is([id |-> s[at + 1], properties |-> named(at + 1).got], named(at + 1).at)
       [] code = "Edge" ->
            is(EdgeOf([i \in 1 .. 3 |-> s[at + i]], named(at + 3).got), named(at + 3).at)
       [] OTHER -> DecodePart(ctx, s, at, code)

-----------------------------------------------------------------------------
(* decodeValue of a flat vector.                                           *)
DecodeNested(ctx, v, index, t) == IF IsNull(v, index) THEN Null ELSE DecodeFlatPart(ctx, v, index, t)

(* A cell of a list, set or map: where its values start, and how many.     *)
SpanAt(v, index, i) == v.data[index + 1][1] + i - 1

SpannedFromStart(ctx, v, index, nested, t) ==
  [i \in 1 .. v.data[index + 1][2] |-> DecodeNested(ctx, v.nested[nested], i - 1, t)]

Spanned(ctx, v, index, nested, t) ==
  [i \in 1 .. v.data[index + 1][2] |-> DecodeNested(ctx, v.nested[nested], SpanAt(v, index, i), t)]

(* decodeRecord: the names are in the vector, in the order of its columns. *)
DecodeFields(ctx, v, index, t) ==
  ObjectOf(v.special, [i \in DOMAIN v.special |-> DecodeNested(ctx, v.nested[i], index, t.props[v.special[i]])])

(* decodeElementWithProps: each property from the vector it is stamped     *)
(* with, by decodeFlatValue, so without a look at its null bits.           *)
Properties(ctx, v, index, t) ==
  [p \in DOMAIN t.props |->
     DecodeFlatPart(ctx, v.nested[t.props[p].vectorIndex + 1], index, t.props[p].schema)]

DecodeFlatValue(ctx, v, index, t) ==
  CASE t.code \in Lists -> [items |-> Spanned(ctx, v, index, 1, t.sub)]
    [] t.code = "Map" ->
         LET keys == Spanned(ctx, v, index, 1, t.key)
         IN [entries |-> ObjectOf([i \in DOMAIN keys |-> keys[i].string], Spanned(ctx, v, index, 2, t.value))]
    [] t.code = "Record" -> [fields |-> DecodeFields(ctx, v, index, t)]
    [] t.code = "Node" -> [id |-> v.data[index + 1], properties |-> Properties(ctx, v, index, t)]
    [] t.code = "Edge" -> EdgeOf(v.data[index + 1], Properties(ctx, v, index, t))
    [] OTHER -> DecodeFlatPart(ctx, v, index, t)

-----------------------------------------------------------------------------
(* What a decoded value has to show of the value sent, given what a part   *)
(* has to: of an element its head and the names of its properties.         *)
HeadOf(x) == [f \in DOMAIN x \ {"properties"} |-> x[f]]

Shows(d, v, t) ==
  \/ v = Null /\ d = Null
  \/ /\ v # Null
     /\ CASE t.code \in Lists ->
               Len(d.items) = Len(v.items) /\ \A i \in DOMAIN v.items : PartShows(d.items[i], v.items[i], t.sub)
          [] t.code = "Map" ->
               /\ DOMAIN d.entries = DOMAIN v.entries
               /\ \A k \in DOMAIN v.entries : PartShows(d.entries[k], v.entries[k], t.value)
          [] t.code = "Record" ->
               /\ DOMAIN d.fields = DOMAIN v.fields
               /\ \A p \in DOMAIN v.fields : PartShows(d.fields[p], v.fields[p], t.props[p])
          [] t.code \in Elements -> HeadOf(d) = HeadOf(v) /\ DOMAIN d.properties = DOMAIN v.properties
          [] OTHER -> PartShows(d, v, t)
=============================================================================
