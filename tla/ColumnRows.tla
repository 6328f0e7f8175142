----------------------------- MODULE ColumnRows -----------------------------
(***************************************************************************)
(* decodeResultTable over one column of values, batch by batch: the type   *)
(* is parsed once, each batch brings a vector of its own, and the rows are *)
(* decoded one after the other.  A flat vector holds every row; a const    *)
(* vector holds one value, which is decoded for the first row and given to *)
(* the others.  How a vector is written and a cell is read depends on the  *)
(* column (BasicColumn, ValueDecode).                                      *)
(***************************************************************************)
EXTENDS BasicValues

CONSTANTS Columns,   \* the column types looked at
          Zones,     \* minutes east of Greenwich of the session's zone
          MaxRecords   \* bound: rows of a batch

ASSUME ZonesAssumption == 0 \in Zones /\ \A z \in Zones : z \in Int /\ z < ZoneRange

ASSUME MaxRecordsAssumption == MaxRecords \in Nat

VARIABLES column,      \* the column's type, as the server means it
          zone,        \* the session's zone
          schema,      \* the parsed type; vectorIndex is written to
          layout,      \* how the batch is laid out, or "none" between batches
          sent,        \* the batch's values
          cachedConst, \* the first row of a const vector, or NoValue
          decoded      \* the rows decoded of this batch

rowVars == <<column, zone, schema, layout, sent, cachedConst, decoded>>

-----------------------------------------------------------------------------
NoValue == [undefined |-> TRUE]

Layouts == {"none", "flat", "reversed", "const"}

(* decodeResultTable: meta.time_zone_offset, an unsigned count of minutes. *)
TimezoneOffset == (zone % ZoneRange) * SecondsPerMinute

RowsTypeOK ==
  /\ column \in Columns /\ zone \in Zones
  /\ layout \in Layouts
  /\ Len(decoded) <= Len(sent) /\ Len(sent) <= MaxRecords
  /\ layout = "none" => sent = <<>>

(* A vector in one of these layouts, with values of a batch the server may *)
(* send in it, and the schema prepared for it.                             *)
ReadRows(layouts, batches(_), prepared(_)) ==
  /\ layout = "none"
  /\ \E l \in layouts :
       /\ layout' = l
       /\ sent' \in batches(l)
       /\ schema' = prepared(l)
  /\ UNCHANGED <<column, zone, cachedConst, decoded>>

(* decodeValue of a flat vector, whose cells are read by their index.      *)
DecodeFlat(cell(_)) ==
  /\ layout \in {"flat", "reversed"} /\ Len(decoded) < Len(sent)
  /\ decoded' = Append(decoded, cell(Len(decoded)))
  /\ UNCHANGED <<column, zone, schema, layout, sent, cachedConst>>

(* decodeValue of a const vector: its first row is decoded, a null too,    *)
(* and kept for the rows after it.                                         *)
DecodeConst(first) ==
  /\ layout = "const" /\ Len(decoded) < Len(sent)
  /\ LET value == IF cachedConst # NoValue THEN cachedConst ELSE first
     IN decoded' = Append(decoded, value) /\ cachedConst' = value
  /\ UNCHANGED <<column, zone, schema, layout, sent>>

(* The batch's rows are in the result, its vector and cache are gone.      *)
EndRows ==
  /\ layout # "none" /\ Len(decoded) = Len(sent)
  /\ layout' = "none" /\ sent' = <<>> /\ decoded' = <<>> /\ cachedConst' = NoValue
  /\ UNCHANGED <<column, zone, schema>>
=============================================================================
