----------------------------- MODULE ValueDecode -----------------------------
(***************************************************************************)
(* decodeResultTable over one column of strings, lists, sets, maps,        *)
(* records, elements with properties, embeddings, shapes or mixed (Any)    *)
(* values.  The column's type is parsed once and gets the property         *)
(* positions of each batch written into it.  The value of a const vector   *)
(* is a stream.                                                            *)
(***************************************************************************)
EXTENDS WireFormat

-----------------------------------------------------------------------------
(* newTypeSchema of a type without parts.                                  *)
PlainSchema(s, at) ==
  LET code == s[at + 1]
      is(type, size) == [got |-> type, at |-> at + size]
  IN CASE code = "Vector" -> is([code |-> code, dim |-> s[at + 2]], 3)
       [] code = "Decimal" -> is(Of(code), 3)
       [] OTHER -> is(Of(code), 1)

(* decodeGeographyData: the shape at a position.  A loop without points is *)
(* dropped.                                                                *)
PointAt(s, from) == <<s[from + 1], s[from + 2]>>
PointsAt(s, from, n) == [k \in 1 .. n |-> PointAt(s, from + 2 * (k - 1))]

DecodeGeographyData(s, at) ==
  LET n == s[at + 3]
      rowIndex(i) == s[at + 4 + i]
      coords == at + 4 + n
      loop(i) == PointsAt(s, coords + 2 * rowIndex(i - 1), rowIndex(i) - rowIndex(i - 1))
      is(shape, loops, end) == [got |-> [shape |-> shape, loops |-> loops], at |-> end]
  IN CASE s[at + 1] = 0 -> is("Point", <<PointsAt(s, at + 2, 1)>>, at + 4)
       [] s[at + 1] = 4 -> is("LineString", <<PointsAt(s, at + 3, n)>>, at + 3 + 2 * n)
       [] s[at + 1] = 8 ->
            is("Polygon",
               FlattenSeq([i \in 1 .. n |-> IF rowIndex(i - 1) < rowIndex(i) THEN <<loop(i)>> ELSE <<>>]),
               coords + 2 * rowIndex(n))

(* decodeAnyCompositeValue of a value without parts.                       *)
DecodePlain(ctx, s, at, code) ==
  LET is(value, end) == [got |-> value, at |-> end]
      size == s[at + 1]
  IN CASE code \in BasicTypes -> is(DecodeBasicValue(s[at + 1], code, ctx), at + 1)
       [] code = "Unknown" -> is(Null, at)
       [] code \in Strings -> is([string |-> [i \in 1 .. size |-> s[at + 1 + i]]], at + 1 + size)
       [] code = "Vector" -> is([floats |-> [i \in 1 .. size |-> s[at + 1 + i]]], at + 1 + size)
       [] code = "Geography" -> DecodeGeographyData(s, at)

-----------------------------------------------------------------------------
(* decodeChunkedString: up to InlineMax characters are in the cell itself. *)
DecodeChunkedString(v, index) ==
  LET cell == v.data[index + 1]
      chunk == v.nested[cell.long.chunk + 1].data
  IN [string |-> IF cell.len <= InlineMax THEN SubSeq(cell.inline, 1, cell.len)
                 ELSE SubSeq(chunk, cell.long.at + 1, cell.long.at + cell.len)]

(* decodeFlatValue of a value without parts.                               *)
DecodePlainFlat(ctx, v, index, t) ==
  LET cell == v.data[index + 1]
  IN CASE t.code \in BasicTypes -> DecodeBasicValue(cell, t.code, ctx)
       [] t.code \in Strings -> DecodeChunkedString(v, index)
       [] t.code = "Vector" -> [floats |-> [i \in 1 .. t.dim |-> v.data[index * t.dim + i]]]
       [] t.code = "Geography" -> DecodeGeographyData(v.nested[cell.chunk + 1].data, cell.at).got

PlainShows(d, v, t) == d = v

InnerDecode == INSTANCE CompositeDecode WITH
                 PartSchema <- PlainSchema, DecodePart <- DecodePlain,
                 DecodeFlatPart <- DecodePlainFlat, PartShows <- PlainShows

OuterDecode == INSTANCE CompositeDecode WITH
                 PartSchema <- InnerDecode!NewTypeSchema, DecodePart <- InnerDecode!DecodeAnyCompositeValue,
                 DecodeFlatPart <- InnerDecode!DecodeFlatValue, PartShows <- InnerDecode!Shows

-----------------------------------------------------------------------------
NewTypeSchema(s, at) == OuterDecode!NewTypeSchema(s, at)

(* A path in a stream: a count, then each element behind its type.         *)
ElementAt(ctx, s, from) == InnerDecode!DecodeAnyCompositeValue(ctx, s, from + 1, s[from + 1])

DecodePathStream(ctx, s, at) ==
  LET ends[i \in 0 .. s[at + 1]] == IF i = 0 THEN at + 1 ELSE ElementAt(ctx, s, ends[i - 1]).at
  IN [ got |-> [elements |-> [i \in 1 .. s[at + 1] |-> ElementAt(ctx, s, ends[i - 1]).got]],
       at  |-> ends[s[at + 1]] ]

DecodeStream(ctx, s, at, code) ==
  IF code = "Path" THEN DecodePathStream(ctx, s, at) ELSE OuterDecode!DecodeAnyCompositeValue(ctx, s, at, code)

(* decodeAnyValue: the row's own type, its bytes in the cell or its stream *)
(* in a chunk; the chunks come after the vector of types.                  *)
ChunkOfAny(v, cell) == v.nested[cell.chunk + 2].data

DecodeAnyValue(ctx, v, index) ==
  LET type == v.nested[1].data[index + 1]
      cell == v.data[index + 1]
  IN IF type \in BasicTypes THEN DecodeBasicValue(cell, type, ctx)
     ELSE InnerDecode!DecodeAnyCompositeValue(ctx, ChunkOfAny(v, cell), cell.at, type).got

DecodeFlatValue(ctx, v, index, t) ==
  IF t.code = "Any" THEN DecodeAnyValue(ctx, v, index) ELSE OuterDecode!DecodeFlatValue(ctx, v, index, t)

(* decodeValue of a flat vector, and of a const vector.                    *)
DecodeCell(v, index, t) == IF IsNull(v, index) THEN Null ELSE DecodeFlatValue(TimezoneOffset, v, index, t)

DecodeConstValue(present, s, t) == IF ~present THEN Null ELSE DecodeStream(TimezoneOffset, s, 0, t.code).got

-----------------------------------------------------------------------------
ValuesInit ==
  /\ column \in {c \in Columns : c.code \notin BasicTypes}
  /\ zone = 0
  /\ schema = NewTypeSchema(TypeStream(column), 0).got
  /\ layout = "none"
  /\ sent = <<>> /\ decoded = <<>>
  /\ cachedConst = NoValue

(* prepareVector: an element column gets the positions of its properties.  *)
Prepared(l) ==
  IF column.code \notin Elements \/ l = "const" THEN schema
  ELSE [schema EXCEPT !.props =
          [p \in DOMAIN @ |-> [@[p] EXCEPT !.vectorIndex =
             (CHOOSE i \in DOMAIN Listed(column, l) : Listed(column, l)[i] = p) - 1]]]

(* The batches the server may send: a const vector holds one value or null *)
(* for all its rows.  No flat path (ResultDecode has them), and no const   *)
(* vector of mixed values, which the decoder does not know.                *)
ValueBatches(l) ==
  LET each == ValuesOf(column) \cup {Null}
  IN IF l = "const" THEN {[i \in 1 .. n |-> x] : n \in 1 .. MaxRecords, x \in each}
     ELSE UNION {[1 .. n -> each] : n \in 1 .. MaxRecords}

BatchLayouts ==
  CASE column.code = "Path" -> {"const"}
    [] column.code = "Any" -> {"flat", "reversed"}
    [] column.code \in Elements \cup {"Record"} -> {"flat", "reversed", "const"}
    [] OTHER -> {"flat", "const"}

ReadValues == ReadRows(BatchLayouts, ValueBatches, Prepared)

DecodeFlatRow == DecodeFlat(LAMBDA index : DecodeCell(Flat(column, sent, layout), index, schema))

DecodeConstRow ==
  DecodeConst(DecodeConstValue(sent[1] # Null, IF sent[1] = Null THEN <<>> ELSE Stream(column, sent[1]), schema))

EndValues == EndRows

ValuesNext == ReadValues \/ DecodeFlatRow \/ DecodeConstRow \/ EndValues

ValuesSpec == ValuesInit /\ [][ValuesNext]_rowVars

-----------------------------------------------------------------------------
(* What a decoded value has to show of the value sent.  Two things it does *)
(* not show: a property that is null, of which an element shows the zeros  *)
(* in its cell, and the properties of elements within lists, maps and      *)
(* records, whose schema prepareVector never stamps, so that all of them   *)
(* are read from the first vector.  Streams are exact.                     *)
Shows(d, v, t) ==
  /\ OuterDecode!Shows(d, v, t)
  /\ v # Null /\ t.code \in Elements =>
       \A p \in DOMAIN v.properties :
         v.properties[p] # Null => InnerDecode!Shows(d.properties[p], v.properties[p], t.props[p])

(* Every row decoded so far is the row the server sent: nested values from *)
(* the right places, nulls where they were, streams read to their end, and *)
(* nothing from the batch before -- with the two exceptions of Shows.      *)
ValuesFaithful ==
  column.code \notin BasicTypes =>
    \A r \in DOMAIN decoded :
      IF layout = "const" THEN decoded[r] = sent[r] ELSE Shows(decoded[r], sent[r], column)
=============================================================================
