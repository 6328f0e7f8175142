--------------------------- MODULE CompositeFormat ---------------------------
(***************************************************************************)
(* Values with parts, and how the server writes them, as far as the        *)
(* decoder's reading tells: lists, sets, maps, records, nodes and edges,   *)
(* given how their parts are written.  A type without parts is written as  *)
(* a part is.  WireFormat takes this module once for each level of types.  *)
(*                                                                         *)
(* One item of a stream stands for one readN of the decoder.  An element's *)
(* id stands for all that its header says but the ends of an edge.         *)
(***************************************************************************)
EXTENDS Vectors, FiniteSets, SequencesExt

CONSTANTS Texts,            \* the strings looked at
          MaxItems,         \* bound: values of a list, set or map
          PartType(_),      \* whether a type may be a part
          PartValues(_),    \* of a part's type: its values ...
          PartTypeStream(_), PartStream(_, _), PartFlat(_, _, _)  \* ... and their bytes

-----------------------------------------------------------------------------
(* Types, and what the server may hold in a cell of a type, null aside.    *)
Type(t) ==
  CASE t.code \in Lists -> PartType(t.sub)
    [] t.code = "Map" -> PartType(t.value)
    [] t.code \in Elements \cup {"Record"} ->
         IsFiniteSet(DOMAIN t.props) /\ \A p \in DOMAIN t.props : PartType(t.props[p])
    [] OTHER -> PartType(t)

Values(t) ==
  LET orNull(u) == PartValues(u) \cup {Null}
      each == {f \in [DOMAIN t.props -> UNION {orNull(t.props[p]) : p \in DOMAIN t.props}] :
                 \A p \in DOMAIN t.props : f[p] \in orNull(t.props[p])}
  IN CASE t.code \in Lists ->
            {[items |-> s] : s \in UNION {[1 .. n -> orNull(t.sub)] : n \in 0 .. MaxItems}}
       [] t.code = "Map" ->
            {[entries |-> f] : f \in UNION {[K -> orNull(t.value)] :
                                 K \in {S \in SUBSET Texts : Cardinality(S) <= MaxItems}}}
       [] t.code = "Record" -> {[fields |-> f] : f \in each}
       [] t.code = "Node" -> {[id |-> "n", properties |-> f] : f \in each}
       [] t.code = "Edge" ->
            {[src |-> e[1], dst |-> e[2], direction |-> d, properties |-> f] :
               e \in {<<"n", "n">>, <<"n", "m">>}, d \in {"outgoing", "incoming", "none"}, f \in each}
       [] OTHER -> PartValues(t)

-----------------------------------------------------------------------------
(* The bytes of a type: a count, then each one's name and type.            *)
NamedTypes(props) ==
  LET names == SetToSeq(DOMAIN props)
  IN <<Len(names)>> \o FlattenSeq([i \in DOMAIN names |-> <<names[i]>> \o PartTypeStream(props[names[i]])])

TypeStream(t) ==
  CASE t.code \in Lists -> <<t.code>> \o PartTypeStream(t.sub)
    [] t.code = "Map" -> <<t.code>> \o PartTypeStream(Of("String")) \o PartTypeStream(t.value)
    [] t.code = "Record" -> <<t.code>> \o NamedTypes(t.props)
    [] t.code \in Elements -> <<t.code, 1, "graph", "type">> \o NamedTypes(t.props)
    [] OTHER -> PartTypeStream(t)

-----------------------------------------------------------------------------
(* The bytes of a value on its own.                                        *)
DirectionBits(direction) == CASE direction = "outgoing" -> 0 [] direction = "incoming" -> 1 [] OTHER -> 2

(* An incoming edge is stored the way it was walked.                       *)
EdgeHeader(v) ==
  IF v.direction = "incoming" THEN <<v.dst, v.src, DirectionBits(v.direction)>>
  ELSE <<v.src, v.dst, DirectionBits(v.direction)>>

(* The type of the values, how many, a bit for each, and those there are.  *)
SetStream(t, xs) ==
  <<t.code, Len(xs), [i \in DOMAIN xs |-> xs[i] # Null]>>
  \o FlattenSeq([i \in DOMAIN xs |-> IF xs[i] = Null THEN <<>> ELSE PartStream(t, xs[i])])

Tagged(t, x) == IF x = Null THEN <<"Unknown">> ELSE <<t.code>> \o PartStream(t, x)

NamedStream(props, f) ==
  LET names == SetToSeq(DOMAIN f)
  IN <<Len(names)>>
     \o FlattenSeq([i \in DOMAIN names |-> <<names[i]>> \o Tagged(props[names[i]], f[names[i]])])

(* A map is its keys and its values, in the order of the keys.             *)
KeysOf(v) == SetToSeq(DOMAIN v.entries)
KeyTexts(v) == [i \in DOMAIN KeysOf(v) |-> [string |-> KeysOf(v)[i]]]
EntriesOf(v) == [i \in DOMAIN KeysOf(v) |-> v.entries[KeysOf(v)[i]]]

Stream(t, v) ==
  CASE t.code \in Lists -> SetStream(t.sub, v.items)
    [] t.code = "Map" -> SetStream(Of("String"), KeyTexts(v)) \o SetStream(t.value, EntriesOf(v))
    [] t.code = "Record" -> NamedStream(t.props, v.fields)
    [] t.code = "Node" -> <<v.id>> \o NamedStream(t.props, v.properties)
    [] t.code = "Edge" -> EdgeHeader(v) \o NamedStream(t.props, v.properties)
    [] OTHER -> PartStream(t, v)

-----------------------------------------------------------------------------
(* The vector of a column of values.  The values in the lists, sets and    *)
(* maps follow each other in nested vectors, of which a cell says where    *)
(* its own start and how many they are.                                    *)
Parts(vs, f(_)) == [i \in DOMAIN vs |-> IF vs[i] = Null THEN <<>> ELSE f(vs[i])]

Spans(parts) == [i \in DOMAIN parts |-> <<Len(FlattenSeq(SubSeq(parts, 1, i - 1))), Len(parts[i])>>]

(* The order in which a vector lists its properties or fields.             *)
Listed(t, order) == IF order = "reversed" THEN Reverse(SetToSeq(DOMAIN t.props)) ELSE SetToSeq(DOMAIN t.props)

PropVectors(t, vs, f(_), order) ==
  [k \in DOMAIN Listed(t, order) |->
     LET p == Listed(t, order)[k]
     IN PartFlat(t.props[p], [i \in DOMAIN vs |-> IF vs[i] = Null THEN Null ELSE f(vs[i])[p]], order)]

Flat(t, vs, order) ==
  LET vector(data, special, nested) ==
        [nulls |-> NullBits(vs), data |-> data, special |-> special, nested |-> nested]
      items == Parts(vs, LAMBDA v : v.items)
      keys == Parts(vs, KeyTexts)
      entries == Parts(vs, EntriesOf)
      named(data, f(_)) == vector(data, Listed(t, order), PropVectors(t, vs, f, order))
  IN CASE t.code \in Lists -> vector(Spans(items), <<>>, <<PartFlat(t.sub, FlattenSeq(items), order)>>)
       [] t.code = "Map" ->
            vector(Spans(keys), <<>>, <<PartFlat(Of("String"), FlattenSeq(keys), order),
                                        PartFlat(t.value, FlattenSeq(entries), order)>>)
       [] t.code = "Record" -> named(vs, LAMBDA v : v.fields)
       [] t.code = "Node" -> named(Parts(vs, LAMBDA v : v.id), LAMBDA v : v.properties)
       [] t.code = "Edge" -> named(Parts(vs, EdgeHeader), LAMBDA v : v.properties)
       [] OTHER -> PartFlat(t, vs, order)
=============================================================================
