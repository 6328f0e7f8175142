------------------------------ MODULE GraphView ------------------------------
(***************************************************************************)
(* A graph on its way to the screen: the host projects the rows of a       *)
(* result (GraphProjection) or the answer about a graph type (SchemaGraph),*)
(* a turn of the conversation holds it on a card (GraphCards), and the     *)
(* card shows its elements (DrawnData).  What one hands to the next is a   *)
(* finished payload, a value that no one changes, and the four share no    *)
(* state: each is followed by itself.                                      *)
(***************************************************************************)
EXTENDS GraphProjection, GraphCards, SchemaGraph

VARIABLE stage     \* the part that is followed

viewVars == <<stage, vars, cardVars, dataVars, schemaVars>>

Stages == {"projection", "cards", "data", "schema"}

ViewTypeOK ==
  /\ stage \in Stages
  /\ TypeOK /\ CardsTypeOK /\ DataTypeOK /\ DescTypeOK

ViewInit == stage \in Stages /\ Init /\ CardsInit /\ DataInit /\ SchemaInit

ViewNext ==
  /\ UNCHANGED stage
  /\ \/ stage = "projection" /\ Next /\ UNCHANGED <<cardVars, dataVars, schemaVars>>
     \/ stage = "cards" /\ CardsNext /\ UNCHANGED <<vars, dataVars, schemaVars>>
     \/ stage = "data" /\ DataNext /\ UNCHANGED <<vars, cardVars, schemaVars>>
     \/ stage = "schema" /\ SchemaNext /\ UNCHANGED <<vars, cardVars, dataVars>>

ViewSpec == ViewInit /\ [][ViewNext]_viewVars
=============================================================================
