------------------------------- MODULE Decoder -------------------------------
(***************************************************************************)
(* One column of a result table.  decodeResultTable keeps nothing that two *)
(* columns share, so a table is its columns side by side: a column is one  *)
(* of nodes or paths, whose schema and walk ResultDecode follows, one of   *)
(* fixed-size values (BasicColumn), or one of other values, whose cells    *)
(* ValueDecode follows.                                                    *)
(***************************************************************************)
EXTENDS ResultDecode, BasicColumn, ValueDecode

VARIABLE part      \* whose column it is, "elements", "basics" or "values"

columnVars == <<part, vars, rowVars>>

(* The state of the part that is not used.                                 *)
NoElements ==
  /\ kind = "node" /\ pairs = NoPairs /\ walk = NoWalk /\ rows = <<>>
  /\ stamp = [t \in Types |-> [p \in Props |-> 1]]
  /\ batch = [rows |-> <<>>, order |-> [t \in Types |-> SetToSeq(Props)], nodes |-> SetToSeq(NodeTypes),
              edges |-> SetToSeq(EdgeTypes), end |-> SetToSeq(NodeTypes)[1]]

NoRows ==
  /\ column = Of("Unknown") /\ schema = Of("Unknown") /\ zone = 0 /\ layout = "none"
  /\ sent = <<>> /\ decoded = <<>> /\ cachedConst = NoValue

ColumnTypeOK == TypeOK /\ (part # "elements" => RowsTypeOK)

ColumnInit ==
  \/ part = "elements" /\ Init /\ NoRows
  \/ part = "basics" /\ NoElements /\ BasicInit
  \/ part = "values" /\ NoElements /\ ValuesInit

ColumnNext ==
  \/ part = "elements" /\ Next /\ UNCHANGED <<part, rowVars>>
  \/ part = "basics" /\ BasicNext /\ UNCHANGED <<part, vars>>
  \/ part = "values" /\ ValuesNext /\ UNCHANGED <<part, vars>>

ColumnSpec == ColumnInit /\ [][ColumnNext]_columnVars
=============================================================================
