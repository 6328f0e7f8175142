----------------------------- MODULE MCGraphView -----------------------------
(* Small caps, two turns, and elements and catalog rows that meet each     *)
(* branch: keys whole, composite, partly missing or empty; properties that *)
(* are null, numbers, or have the name of a field; cells in every form.    *)
EXTENDS GraphView

(* Ids may be permuted, and so may turns. *)
ViewSymmetry == Permutations(Ids) \cup Permutations(Turns)

MCNumber == [number |-> "7"]

MCNode(id, type, key, properties) ==
  [id |-> id, type |-> type, labels |-> IF type = "" THEN <<>> ELSE <<type>>,
   primaryKey |-> key, properties |-> properties]

MCProperties ==
  { <<>>,
    [k |-> Str("v")], [k |-> Str("")], [k |-> Null, title |-> Str("t")],
    [k |-> MCNumber, l |-> Str("w"), name |-> Str("n")],
    [k |-> Str("v"), l |-> Null, name |-> MCNumber],
    [l |-> StrList(<<"a">>), name |-> Null, title |-> Str("t")],
    [k |-> Str("v"), type |-> Str("T")], [k |-> Str("v"), kind |-> Str("x")],
    [label |-> Str("x"), labels |-> Str("y"), primaryKey |-> Str("z")] }

MCDataNodes ==
  {MCNode("i", "S", key, p) : key \in {<<>>, <<"k">>, <<"k", "l">>}, p \in MCProperties}
  \cup {MCNode("j", type, <<"k">>, p) : type \in {"S", "T"}, p \in {[k |-> Str("v")], [k |-> Str("v"), type |-> Str("T")]}}
  \cup {MCNode("k", type, <<>>, <<>>) : type \in {"S", "T", "U"}}
  \cup {MCNode("l", type, key, <<>>) : type \in {"", "T"}, key \in {<<>>, <<"type">>}}

MCDataEdges ==
  {[source |-> "i", target |-> "i", type |-> "E", rank |-> Str("0"), direction |-> d,
    multiedgeKey |-> key, properties |-> p] :
     d \in {Undefined, Str("outgoing")}, key \in {<<>>, <<"Unique">>, <<"k">>, <<"k", "l">>},
     p \in {<<>>, [k |-> Str("v")], [k |-> Str("v"), l |-> Null], [k |-> MCNumber, l |-> Str("w"), m |-> Null],
            [k |-> Str("v"), rank |-> Str("r")]}}

MCArray(names) == [form |-> "array", names |-> names]
MCListText(names) == [form |-> "list text", names |-> names]
MCText(name) == [form |-> "text", names |-> <<name>>]
MCNull == [form |-> "null", names |-> <<>>]

MCRow(entity, name, pattern, labels, key, properties) ==
  [entity |-> entity, name |-> name, pattern |-> pattern, labels |-> labels, key |-> key, properties |-> properties]

MCDescRows ==
  {MCRow("node", "A", <<"A">>, l, k, MCListText(<<<<"x">>, <<"y">>>>)) :
     l \in {MCListText(<<<<"L">>, <<"M">>>>), MCNull}, k \in {MCListText(<<<<"x">>>>), MCArray(<<<<"y">>, <<"x">>>>)}}
  \cup {MCRow("node", "B", <<"B">>, MCArray(<<<<"L">>>>), MCListText(<<<<"x">>>>), p) :
          p \in {MCListText(<<>>), MCArray(<<<<"x">>, <<"y">>, <<"z">>>>), MCListText(<<<<"x", "y">>>>)}}
  \cup {MCRow("edge", "E", pattern, MCListText(<<<<"E">>>>), k, p) :
          pattern \in {<<"A", "B">>, <<"A", "A">>, <<"C", "A">>, <<"C", "D">>, <<"", "B">>, <<"", "">>},
          k \in {MCText(<<"Unique">>), MCListText(<<<<"x">>>>), MCListText(<<<<"Auto">>>>)},
          p \in {MCListText(<<<<"x">>, <<"y">>, <<"z">>>>), MCNull}}
  \cup {MCRow("edge", "F", pattern, MCNull, MCText(<<"Auto">>), MCNull) : pattern \in {<<"B", "A">>, <<"A", "B">>, <<"D", "C">>}}
  \cup {MCRow("other", "A", <<"A">>, MCNull, MCNull, MCNull)}
=============================================================================
