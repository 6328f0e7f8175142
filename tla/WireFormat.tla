----------------------------- MODULE WireFormat -----------------------------
(***************************************************************************)
(* The types and values a result column can have, and how the server       *)
(* writes them: a type as a stream, a column of values as a flat vector, a *)
(* single value as a stream.  CompositeFormat says how a value with parts  *)
(* is written, this module how one without is, and the two kinds of column *)
(* whose values bring their types along, paths and mixed (Any) values.     *)
(*                                                                         *)
(* Bound: types nest at most twice.  The parts of a column's type are of   *)
(* Inner types, and theirs are of plain ones.                              *)
(***************************************************************************)
EXTENDS ColumnRows, FiniteSets, SequencesExt

CONSTANTS Texts,     \* the strings looked at, sequences of characters
          Shapes,    \* the geographies looked at
          InlineMax, \* longest string kept in its cell (12)
          MaxItems   \* bound: values of a list, set or map

ASSUME TextsAssumption == Texts \subseteq Seq(STRING) /\ IsFiniteSet(Texts)
ASSUME ItemsAssumption == InlineMax \in Nat /\ MaxItems \in Nat

(* A shape is loops of points: one of one point, or one, or any number.    *)
ASSUME ShapesAssumption ==
  \A v \in Shapes :
    /\ v = [shape |-> v.shape, loops |-> v.loops]
    /\ v.loops \in Seq(Seq(STRING \X STRING) \ {<<>>})
    /\ \/ v.shape = "Point" /\ Len(v.loops) = 1 /\ Len(v.loops[1]) = 1
       \/ v.shape = "LineString" /\ Len(v.loops) = 1
       \/ v.shape = "Polygon"

-----------------------------------------------------------------------------
(* Values without parts.  Of the basic types those are looked at whose     *)
(* values the decoder shows as they are, and of floats those that JSON has *)
(* a text for; BasicColumn has them all.  The numbers inside a Vector and  *)
(* a geography are such floats too.                                        *)
Strings == {"String", "Decimal"}
ExactTypes == BasicTypes \ {"Int64", "Uint64", "ZonedTime", "ZonedDatetime", "Duration"}

PlainType(t) ==
  \/ t.code \in ExactTypes \cup Strings \cup {"Geography"}
  \/ t.code = "Vector" /\ t.dim \in Nat

ExactSamples(code) == {v \in Samples[code] : JsonExact(code, v)}

PlainValues(t) ==
  CASE t.code \in BasicTypes -> ExactSamples(t.code)
    [] t.code \in Strings -> {[string |-> x] : x \in Texts}
    [] t.code = "Vector" -> {[floats |-> s] : s \in [1 .. t.dim -> {"f", "g"}]}
    [] t.code = "Geography" -> Shapes

PlainTypeStream(t) ==
  CASE t.code = "Vector" -> <<t.code, t.dim, "Float32">>
    [] t.code = "Decimal" -> <<t.code, "precision", "scale">>
    [] OTHER -> <<t.code>>

(* A shape: where its loops start and where the last one ends, when there  *)
(* can be several, and the coordinates of all points.                      *)
LoopStart(loops, i) == Len(FlattenSeq(SubSeq(loops, 1, i)))

Coordinates(points) == [j \in 1 .. 2 * Len(points) |-> points[(j + 1) \div 2][((j - 1) % 2) + 1]]

ShapeStream(v) ==
  (CASE v.shape = "Point" -> <<0, "srid">>
     [] v.shape = "LineString" -> <<4, "srid", Len(v.loops[1])>>
     [] v.shape = "Polygon" ->
          <<8, "srid", Len(v.loops)>> \o [i \in 1 .. Len(v.loops) + 1 |-> LoopStart(v.loops, i - 1)])
  \o Coordinates(FlattenSeq(v.loops))

PlainStream(t, v) ==
  CASE t.code \in BasicTypes -> <<EncodeBasic(t.code, v)>>
    [] t.code \in Strings -> <<Len(v.string)>> \o v.string
    [] t.code = "Vector" -> <<Len(v.floats)>> \o v.floats
    [] t.code = "Geography" -> ShapeStream(v)

(* Long data goes to two chunk vectors in turn, one piece after the other. *)
Turn(pieces, k) == [i \in DOMAIN pieces |-> IF i % 2 = k THEN pieces[i] ELSE <<>>]
ChunkAt(pieces, i) == [chunk |-> i % 2, at |-> Len(FlattenSeq(SubSeq(Turn(pieces, i % 2), 1, i - 1)))]
Data(data) == [data |-> data, nulls |-> <<>>, special |-> <<>>, nested |-> <<>>]
Chunks(pieces) == <<Data(FlattenSeq(Turn(pieces, 0))), Data(FlattenSeq(Turn(pieces, 1)))>>

PlainFlat(t, vs, order) ==
  LET vector(data, nested) == [nulls |-> NullBits(vs), data |-> data, special |-> <<>>, nested |-> nested]
      text == [i \in DOMAIN vs |-> IF vs[i] = Null THEN <<>> ELSE vs[i].string]
      long == [i \in DOMAIN vs |-> IF Len(text[i]) > InlineMax THEN text[i] ELSE <<>>]
      shapes == [i \in DOMAIN vs |-> IF vs[i] = Null THEN <<>> ELSE ShapeStream(vs[i])]
      float(v, j) == IF v = Null THEN 0 ELSE v.floats[j]
  IN CASE t.code \in BasicTypes -> vector([i \in DOMAIN vs |-> EncodeBasic(t.code, vs[i])], <<>>)
       [] t.code \in Strings ->
            vector([i \in DOMAIN vs |-> [len |-> Len(text[i]), inline |-> text[i], long |-> ChunkAt(long, i)]],
                   Chunks(long))
       [] t.code = "Vector" ->
            vector([j \in 1 .. Len(vs) * t.dim |-> float(vs[((j - 1) \div t.dim) + 1], ((j - 1) % t.dim) + 1)], <<>>)
       [] t.code = "Geography" -> vector([i \in DOMAIN vs |-> ChunkAt(shapes, i)], Chunks(shapes))

-----------------------------------------------------------------------------
Inner == INSTANCE CompositeFormat WITH
           PartType <- PlainType, PartValues <- PlainValues, PartTypeStream <- PlainTypeStream,
           PartStream <- PlainStream, PartFlat <- PlainFlat

Outer == INSTANCE CompositeFormat WITH
           PartType <- Inner!Type, PartValues <- Inner!Values, PartTypeStream <- Inner!TypeStream,
           PartStream <- Inner!Stream, PartFlat <- Inner!Flat

(* The types of a mixed column differ in the form of their values.         *)
FormOf(code) ==
  CASE code \in Strings -> "string" [] code \in Lists -> "items" [] code = "Map" -> "entries"
    [] code = "Record" -> "fields" [] code \in Elements -> "properties" [] code = "Vector" -> "floats"
    [] code = "Geography" -> "loops" [] code = "Bool" -> "bool" [] code = "Date" -> "date"
    [] code \in {"Float32", "Float64"} -> "float" [] code = "LocalTime" -> "time"
    [] code = "LocalDatetime" -> "moment" [] OTHER -> "number"

HeldType(t, v) == CHOOSE u \in t.held : FormOf(u.code) \in DOMAIN v

ColumnType(t) ==
  CASE t.code = "Path" -> /\ t.node.code = "Node" /\ Inner!Type(t.node)
                          /\ t.edge.code = "Edge" /\ Inner!Type(t.edge)
    [] t.code = "Any" -> \A u \in t.held : Inner!Type(u) /\ \A w \in t.held : FormOf(w.code) = FormOf(u.code) => w = u
    [] OTHER -> Outer!Type(t)

ASSUME ColumnsAssumption == \A t \in Columns : t.code \in BasicTypes \/ ColumnType(t)

(* A path is a node and, maybe, an edge: the rest of it is ResultDecode's. *)
ValuesOf(t) ==
  CASE t.code = "Path" -> {[elements |-> <<x>> \o y] : x \in Inner!Values(t.node),
                             y \in {<<>>} \cup {<<e>> : e \in Inner!Values(t.edge)}}
    [] t.code = "Any" -> UNION {Inner!Values(u) : u \in t.held}
    [] OTHER -> Outer!Values(t)

(* Of a path's type only that it is one: ResultDecode has its parts.       *)
TypeStream(t) == IF t.code \in {"Path", "Any"} THEN <<t.code>> ELSE Outer!TypeStream(t)

ElementType(t, x) == IF "id" \in DOMAIN x THEN t.node ELSE t.edge

Stream(t, v) ==
  IF t.code = "Path"
  THEN <<Len(v.elements)>>
       \o FlattenSeq([i \in DOMAIN v.elements |-> Outer!Tagged(ElementType(t, v.elements[i]), v.elements[i])])
  ELSE Outer!Stream(t, v)

(* A cell of a mixed column is a basic value or where its stream is.  Such *)
(* a vector may do without null bits, a null has a type of its own.        *)
AnyFlat(t, vs, order) ==
  LET type == [i \in DOMAIN vs |-> IF vs[i] = Null THEN Of("Unknown") ELSE HeldType(t, vs[i])]
      basic(i) == type[i].code \in BasicTypes
      long == [i \in DOMAIN vs |-> IF basic(i) \/ vs[i] = Null THEN <<>> ELSE Inner!Stream(type[i], vs[i])]
  IN [ nulls   |-> IF order = "reversed" THEN NullBits(vs) ELSE <<>>,
       data    |-> [i \in DOMAIN vs |-> IF basic(i) THEN EncodeBasic(type[i].code, vs[i]) ELSE ChunkAt(long, i)],
       special |-> <<>>,
       nested  |-> <<Data([i \in DOMAIN vs |-> type[i].code])>> \o Chunks(long) ]

Flat(t, vs, order) == IF t.code = "Any" THEN AnyFlat(t, vs, order) ELSE Outer!Flat(t, vs, order)

Listed(t, order) == Outer!Listed(t, order)
=============================================================================
