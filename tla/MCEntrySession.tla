---------------------------- MODULE MCEntrySession ----------------------------
(* EntrySession over two graphs and two graph types.  Of the catalogs that *)
(* differ in the names of graphs and types only, one is looked at; the one *)
(* without graphs is reached by a change.                                  *)
EXTENDS EntrySession

CONSTANTS g1, g2, t1, t2

MCFirstCatalogs ==
  { [g \in Graphs |-> IF g = g1 THEN t1 ELSE NoType],
    [g \in Graphs |-> t1],
    [g \in Graphs |-> IF g = g1 THEN t1 ELSE t2] }
=============================================================================
