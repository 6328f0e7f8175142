------------------------------ MODULE MCDecoder ------------------------------
(* Small bytes (base 4), a small calendar, and column types for TLC. *)
EXTENDS Decoder

(* Types of a kind are interchangeable, and so are property names. *)
TypeSymmetry ==
  Permutations(NodeTypes) \cup Permutations(EdgeTypes) \cup Permutations(Props)

Numbers(size) == {-(Power[size] \div 2), -(SafeMax + 1), -SafeMax, -2, -1, 0, 1, SafeMax,
                  SafeMax + 1, SafeMax + 2, Power[size] \div 2 - 1}
Signedly(size) == {[number |-> n] : n \in {x \in Numbers(size) : -(Power[size] \div 2) <= x /\ 2 * x < Power[size]}}
Unsignedly(size) == {[number |-> n] : n \in {x \in Numbers(size) \cup {Power[size] - 2, Power[size] - 1} : 0 <= x /\ x < Power[size]}}

MCTimes == {<<h, m, s, u>> : h \in 0 .. 1, m \in 0 .. 1, s \in {0, 1}, u \in {0, 3}}
MCMoments == {<<y, p, p>> \o t : y \in {0, 1, 2, 7}, p \in {1, 2}, t \in {<<0, 0, 0, 0>>, <<1, 1, 1, 3>>}}

(* Numbers of either sign, the zeros, the infinities, not-a-number.        *)
MCMantissas == [size \in {4, 8} |-> IF size = 4 THEN 16 ELSE 1024]
MCFloats(size) ==
  LET top == Exponents(size) - 1
      of(x) == [float |-> [minus |-> x[1], exponent |-> x[2], mantissa |-> x[3]]]
  IN {of(x) : x \in {TRUE, FALSE} \X {0, top} \X {0}}
     \cup {of(<<TRUE, 0, 1>>), of(<<FALSE, top - 1, Mantissas[size] - 1>>), of(<<FALSE, top, 1>>)}

MCSamples ==
  [ Bool |-> {[bool |-> b] : b \in BOOLEAN},
    Int8 |-> {[number |-> n] : n \in {-1, 1}}, Uint8 |-> Unsignedly(1),
    Int16 |-> Signedly(2), Uint16 |-> Unsignedly(2), Int32 |-> Signedly(4), Uint32 |-> Unsignedly(4),
    Int64 |-> Signedly(8), Uint64 |-> Unsignedly(8),
    Float32 |-> MCFloats(4), Float64 |-> MCFloats(8),
    Date |-> {[date |-> <<y, m, 1>>] : y \in {-8, -1, 0, 7}, m \in {0, 1}},
    LocalTime |-> {[time |-> t] : t \in MCTimes},
    ZonedTime |-> {[time |-> t] : t \in MCTimes},
    LocalDatetime |-> {[moment |-> m] : m \in MCMoments},
    ZonedDatetime |-> {[moment |-> m] : m \in MCMoments},
    Duration |-> {[months |-> n] : n \in -5 .. 5} \cup {[micros |-> n] : n \in -36 .. 36} ]

MCTexts == {<<>>, <<"a">>, <<"b", "c">>}
MCShapes ==
  LET p == <<"x", "y">>  q == <<"u", "v">>
  IN {[shape |-> "Point", loops |-> <<<<p>>>>], [shape |-> "LineString", loops |-> <<<<p, q>>>>],
      [shape |-> "Polygon", loops |-> <<<<p, q>>, <<q>>>>], [shape |-> "Polygon", loops |-> <<<<q>>>>]}

MCInt == Of("Int8")
MCText == Of("String")
MCList(t) == [code |-> "List", sub |-> t]
MCProps == [p |-> MCInt, q |-> MCInt]
MCNode == [code |-> "Node", props |-> MCProps]
MCEdge == [code |-> "Edge", props |-> [p |-> MCInt]]
MCRecord == [code |-> "Record", props |-> [p |-> MCInt, q |-> MCText]]
MCMap == [code |-> "Map", value |-> MCInt]

MCColumns ==
  {Of(code) : code \in BasicTypes} \cup {MCText, Of("Decimal"), Of("Geography"), MCNode, MCEdge, MCRecord, MCMap}
  \cup {[code |-> "Set", sub |-> MCText], MCList(MCInt), MCList(MCList(MCInt)), MCList(MCNode),
        [code |-> "Map", value |-> [code |-> "Node", props |-> [p |-> MCInt]]],
        [code |-> "Record", props |-> [p |-> MCList(MCInt), q |-> MCInt]],
        [code |-> "Vector", dim |-> 2],
        [code |-> "Path", node |-> [code |-> "Node", props |-> [p |-> MCInt]], edge |-> MCEdge],
        [code |-> "Any", held |-> {MCInt, MCText, MCNode}],
        [code |-> "Any", held |-> {MCList(MCInt), MCMap, Of("Bool")}],
        [code |-> "Any", held |-> {MCRecord, [code |-> "Vector", dim |-> 2], Of("Geography")}]}

MCZones == {-1, 0, 1, 3}

MCDurations == {Of("Duration")}
=============================================================================
