---------------------------- MODULE DecoderProofs ----------------------------
(***************************************************************************)
(* The result decoder, for any element types, properties, rows and path    *)
(* lengths, and any column types, values and sizes of a batch.             *)
(*                                                                         *)
(* Nodes and paths (decodeResultTable over a node or path column): the     *)
(* stamps and pairs written to the shared schema are right whenever they   *)
(* are read (DecodeInv).                                                   *)
(*                                                                         *)
(* Other values: CompositesProofs says what values with parts come back as *)
(* if their parts come back.  It is instantiated twice, for composites of  *)
(* plain values (IP) and for composites of those (OP), as the format is;   *)
(* what it asks of the parts is proved here of plain values first and of   *)
(* the inner composites then.  A column's schema is parsed once, from the  *)
(* stream its type was written to, and stamped again with every batch; its *)
(* rows are right as long as it stays the schema of that type (ValuesInv). *)
(***************************************************************************)
EXTENDS Decoder, BasicColumnProofs, FiniteSetTheorems


(* A decoded element: its occurrence and a cell per property.              *)
Decoded == [id : Nat \X Nat, props : [Props -> Props \X (Nat \X Nat)]]

(* Each property of these types is read where its vector has it.           *)
StampsRight(types) == \A t \in types : \A p \in Props : batch.order[t][stamp[t][p]] = p

(* What prepareVector leaves for the rows of a batch.                      *)
PreparedInv ==
  batch.rows # <<>> => /\ kind = "node" => StampsRight(NodeTypes)
                       /\ kind = "path" => pairs = PathPairs(batch)

ElementRowsInv ==
  /\ rows \in Seq(Seq(Decoded))
  /\ \A r \in DOMAIN rows : rows[r] = Encoded(r)

(* The element the walk reads next.                                        *)
Position == Len(walk.elements) + 1

(* The walk has read the elements before this one and stands before it.    *)
WalkInv ==
  walk # NoWalk =>
    /\ kind = "path" /\ Row <= Len(batch.rows) /\ walk.total = Len(batch.rows[Row])
    /\ walk.elements \in Seq(Decoded) /\ Len(walk.elements) < walk.total
    /\ \A i \in DOMAIN walk.elements : walk.elements[i] = Encoded(Row)[i]
    /\ walk.at = batch.rows[Row][Position]
    /\ walk.edge <=> walk.at \in EdgeTypes
    /\ walk.offset = Slot(Row, Position)

DecodeInv == TypeOK /\ PreparedInv /\ ElementRowsInv /\ WalkInv

-----------------------------------------------------------------------------
(* A function on 1..n is a sequence of length n.                           *)
LEMMA FunctionIsSeq ==
  ASSUME NEW S, NEW n \in Nat, NEW f \in [1 .. n -> S]
  PROVE  f \in Seq(S) /\ Len(f) = n /\ DOMAIN f = 1 .. n
<1>1. f \in Seq(S)
  BY SeqDef
<1>2. Len(f) \in Nat /\ DOMAIN f = 1 .. Len(f) /\ DOMAIN f = 1 .. n
  BY <1>1, LenProperties
<1>3. Len(f) = n
  <2>1. CASE Len(f) < n
    <3>1. n \in 1 .. n /\ n \notin 1 .. Len(f)
      BY <1>2, <2>1
    <3> QED
      BY <1>2, <3>1
  <2>2. CASE n < Len(f)
    <3>1. Len(f) \in 1 .. Len(f) /\ Len(f) \notin 1 .. n
      BY <1>2, <2>2
    <3> QED
      BY <1>2, <3>1
  <2> QED
    BY <1>2, <2>1, <2>2
<1> QED
  BY <1>1, <1>2, <1>3

(* A listing of a set in some order has each of its elements.              *)
LEMMA PermutedFacts ==
  ASSUME NEW S, IsFiniteSet(S), NEW s \in Permuted(S)
  PROVE  /\ Cardinality(S) \in Nat /\ Len(s) = Cardinality(S) /\ DOMAIN s = 1 .. Cardinality(S)
         /\ \A i \in 1 .. Cardinality(S) : s[i] \in S
         /\ \A x \in S : \E i \in 1 .. Cardinality(S) : s[i] = x
<1>1. Cardinality(S) \in Nat
  BY FS_CardinalityType
<1>2. s \in [1 .. Cardinality(S) -> S] /\ \A x \in S : \E i \in DOMAIN s : s[i] = x
  BY DEF Permuted
<1>3. Len(s) = Cardinality(S) /\ DOMAIN s = 1 .. Cardinality(S)
  BY <1>1, <1>2, FunctionIsSeq
<1> QED
  BY <1>1, <1>2, <1>3

(* What a batch is made of.                                                *)
LEMMA BatchFields ==
  ASSUME NEW b \in Batches
  PROVE  /\ b.order \in [Types -> Permuted(Props)]
         /\ b.nodes \in Permuted(NodeTypes) /\ b.edges \in Permuted(EdgeTypes)
         /\ b.end \in NodeTypes
         /\ b.rows \in UNION {[1 .. n -> RowsOf(kind)] : n \in 0 .. MaxRows}
BY DEF Batches

(* Arithmetic of the places.                                               *)
LEMMA Halves == \A j \in Nat : (2 * j) \div 2 = j /\ 2 * j \in Nat /\ 2 * j + 1 \in Nat
OBVIOUS

LEMMA Predecessor == \A n \in Nat : \A k \in 1 .. n : k - 1 \in Nat /\ (k - 1) + 1 = k /\ k - 1 < n
OBVIOUS

(* The two vectors of a type, the n-th of its column.                      *)
PairAt(n) == [cur |-> 2 * n, adj |-> 2 * n + 1]

(* The pair of t is that of its place in the listing s of S.               *)
PairPlaced(S, s, first, t) ==
  \E k \in 1 .. Cardinality(S) : s[k] = t /\ PairsOf(s, first)[t] = PairAt(first + k - 1)

(* A pair leads to a place of its own: node types fill the places up to    *)
(* twice their number, edge types those after them (decodePathSpecialData).*)
LEMMA PairOf ==
  ASSUME NEW S, IsFiniteSet(S), NEW s \in Permuted(S), NEW first \in Nat, NEW t \in S
  PROVE  PairPlaced(S, s, first, t)
<1>1. /\ DOMAIN s = 1 .. Cardinality(S)
      /\ \E i \in 1 .. Cardinality(S) : s[i] = t
  BY PermutedFacts
<1> DEFINE k == CHOOSE i \in DOMAIN s : s[i] = t
<1>2. k \in 1 .. Cardinality(S) /\ s[k] = t
  BY <1>1
<1>3. t \in {s[i] : i \in DOMAIN s}
  BY <1>1
<1>4. PairsOf(s, first)[t] = PairAt(first + k - 1)
  BY <1>3 DEF PairsOf, PairAt
<1> HIDE DEF k
<1> QED
  BY <1>2, <1>4 DEF PairPlaced

(* The vector at the place a pair names holds the type of the pair.        *)
LEMMA PairsLead ==
  ASSUME NEW b \in Batches
  PROVE  /\ PathPairs(b) \in [Types -> [cur : Nat, adj : Nat]]
         /\ b = batch => \A t \in Types : VectorType(PathPairs(b)[t].cur) = t
<1> DEFINE N == Cardinality(NodeTypes)
           M == Cardinality(EdgeTypes)
<1>1. /\ b.nodes \in Permuted(NodeTypes) /\ b.edges \in Permuted(EdgeTypes)
      /\ IsFiniteSet(NodeTypes) /\ IsFiniteSet(EdgeTypes)
  BY BatchFields, TypesAssumption
<1>2. N \in Nat /\ M \in Nat /\ Len(b.nodes) = N
  BY <1>1, PermutedFacts
<1>3. ASSUME NEW t \in NodeTypes
      PROVE  /\ PathPairs(b)[t] \in [cur : Nat, adj : Nat]
             /\ b = batch => VectorType(PathPairs(b)[t].cur) = t
  <2>1. PathPairs(b)[t] = PairsOf(b.nodes, 0)[t]
    BY <1>3 DEF PathPairs, Types
  <2>2. PICK k \in 1 .. N :
          b.nodes[k] = t /\ PairsOf(b.nodes, 0)[t] = PairAt(0 + k - 1)
    <3>1. PairPlaced(NodeTypes, b.nodes, 0, t)
      BY <1>1, <1>3, PairOf
    <3> QED
      BY <3>1 DEF PairPlaced
  <2>3. PICK j \in Nat : k = j + 1 /\ j < N /\ 0 + k - 1 = j
    BY <1>2, Predecessor
  <2>4. PathPairs(b)[t] = PairAt(j)
    BY <2>1, <2>2, <2>3
  <2>5. (2 * j) \div 2 = j /\ 2 * j \in Nat /\ 2 * j + 1 \in Nat
    BY Halves
  <2>6. PairAt(j) \in [cur : Nat, adj : Nat] /\ PairAt(j).cur \div 2 = j
    BY <2>5 DEF PairAt
  <2>7. b = batch => VectorType(PairAt(j).cur) = t
    BY <1>2, <2>2, <2>3, <2>6 DEF VectorType
  <2> QED
    BY <2>4, <2>6, <2>7
<1>4. ASSUME NEW t \in EdgeTypes
      PROVE  /\ PathPairs(b)[t] \in [cur : Nat, adj : Nat]
             /\ b = batch => VectorType(PathPairs(b)[t].cur) = t
  <2>1. PathPairs(b)[t] = PairsOf(b.edges, N)[t]
    BY <1>2, <1>4, TypesAssumption DEF PathPairs, Types
  <2>2. PICK k \in 1 .. M :
          b.edges[k] = t /\ PairsOf(b.edges, N)[t] = PairAt(N + k - 1)
    <3>1. PairPlaced(EdgeTypes, b.edges, N, t)
      BY <1>1, <1>2, <1>4, PairOf
    <3> QED
      BY <3>1 DEF PairPlaced
  <2>3. PICK j \in Nat : j = N + k - 1 /\ ~(j < N) /\ j - N + 1 = k
    <3>1. N + k - 1 \in Nat /\ ~(N + k - 1 < N) /\ (N + k - 1) - N + 1 = k
      BY <1>2
    <3> QED
      BY <3>1
  <2>4. PathPairs(b)[t] = PairAt(j)
    BY <2>1, <2>2, <2>3
  <2>5. (2 * j) \div 2 = j /\ 2 * j \in Nat /\ 2 * j + 1 \in Nat
    BY Halves
  <2>6. PairAt(j) \in [cur : Nat, adj : Nat] /\ PairAt(j).cur \div 2 = j
    BY <2>5 DEF PairAt
  <2>7. b = batch => VectorType(PairAt(j).cur) = t
    BY <1>2, <2>2, <2>3, <2>6 DEF VectorType
  <2> QED
    BY <2>4, <2>6, <2>7
<1>5. PathPairs(b) = [t \in Types |-> PathPairs(b)[t]]
  BY DEF PathPairs
<1> QED
  BY <1>3, <1>4, <1>5 DEF Types

(* Stamping reads the property lists of the batch that has just been read  *)
(* (decodePropVectorIndex).                                                *)
LEMMA StampedFacts ==
  ASSUME batch' \in Batches, stamp \in [Types -> [Props -> 1 .. Cardinality(Props)]],
         NEW types, types \subseteq Types
  PROVE  /\ Stamped(types) \in [Types -> [Props -> 1 .. Cardinality(Props)]]
         /\ \A t \in types : \A p \in Props : batch'.order[t][Stamped(types)[t][p]] = p
<1>1. ASSUME NEW t \in types, NEW p \in Props
      PROVE  /\ Stamped(types)[t][p] \in 1 .. Cardinality(Props)
             /\ batch'.order[t][Stamped(types)[t][p]] = p
  <2> DEFINE list == batch'.order[t]
  <2>1. list \in Permuted(Props)
    BY BatchFields
  <2>2. DOMAIN list = 1 .. Cardinality(Props) /\ \E i \in 1 .. Cardinality(Props) : list[i] = p
    BY <2>1, PermutedFacts, TypesAssumption
  <2> DEFINE i == CHOOSE j \in DOMAIN list : list[j] = p
  <2>3. Stamped(types)[t][p] = i
    BY DEF Stamped
  <2> HIDE DEF list
  <2>4. i \in 1 .. Cardinality(Props) /\ list[i] = p
    BY <2>2
  <2> HIDE DEF i
  <2> QED
    BY <2>3, <2>4 DEF list
<1>2. ASSUME NEW t \in Types \ types PROVE Stamped(types)[t] = stamp[t]
  BY DEF Stamped
<1>3. ASSUME NEW t \in types
      PROVE  Stamped(types)[t] = [p \in Props |-> Stamped(types)[t][p]]
  <2> DEFINE g == [p \in Props |-> CHOOSE i \in DOMAIN batch'.order[t] : batch'.order[t][i] = p]
  <2>1. Stamped(types)[t] = g
    BY DEF Stamped
  <2>2. g = [p \in Props |-> g[p]]
    OBVIOUS
  <2> QED
    BY <2>1, <2>2
<1>4. Stamped(types) = [t \in Types |-> Stamped(types)[t]]
  BY DEF Stamped
<1> DEFINE f == Stamped(types)
<1> HIDE DEF f
<1>5. \A t \in types : f[t] \in [Props -> 1 .. Cardinality(Props)]
  BY <1>1, <1>3 DEF f
<1>6. \A t \in Types : f[t] \in [Props -> 1 .. Cardinality(Props)]
  BY <1>2, <1>5 DEF f
<1>7. f \in [Types -> [Props -> 1 .. Cardinality(Props)]]
  BY <1>4, <1>6 DEF f
<1> QED
  BY <1>1, <1>7 DEF f

-----------------------------------------------------------------------------
(* The occurrences a row can have: its places.                             *)
Places == 1 .. 2 * MaxHops + 1

(* A path is a sequence of types that begins with a node.                  *)
LEMMA PathFacts ==
  ASSUME NEW p \in Paths
  PROVE  p \in Seq(Types) /\ Len(p) \in Nat \ {0} /\ DOMAIN p = 1 .. Len(p) /\ DOMAIN p \subseteq Places
         /\ p[1] \in NodeTypes
<1>1. PICK n \in 0 .. MaxHops : p \in [1 .. 2 * n + 1 -> Types]
  BY DEF Paths
<1>2. MaxHops \in Nat /\ n \in Nat /\ n <= MaxHops /\ 2 * n + 1 \in Nat \ {0} /\ 2 * n + 1 <= 2 * MaxHops + 1
      /\ 2 * MaxHops + 1 \in Nat
  BY BoundsAssumption
<1>3. p \in Seq(Types) /\ Len(p) = 2 * n + 1 /\ DOMAIN p = 1 .. 2 * n + 1
  BY <1>1, <1>2, FunctionIsSeq
<1>4. DOMAIN p \subseteq Places
  BY <1>2, <1>3 DEF Places
<1>5. 1 \in DOMAIN p /\ 1 % 2 = 1
  BY <1>2, <1>3
<1>6. p[1] \in NodeTypes
  BY <1>5 DEF Paths
<1> QED
  BY <1>2, <1>3, <1>4, <1>6

(* A row of a batch: a null, a node's type, or the types along a path.     *)
LEMMA RowFacts ==
  ASSUME kind \in {"node", "path"}, NEW b \in Batches
  PROVE  /\ b.rows \in Seq(RowsOf(kind)) /\ Len(b.rows) \in Nat /\ DOMAIN b.rows = 1 .. Len(b.rows)
         /\ \A r \in 1 .. Len(b.rows) :
              /\ b.rows[r] \in Seq(Types) /\ Len(b.rows[r]) \in Nat
              /\ DOMAIN b.rows[r] = 1 .. Len(b.rows[r]) /\ DOMAIN b.rows[r] \subseteq Places
              /\ b.rows[r] # <<>> => Len(b.rows[r]) > 0 /\ b.rows[r][1] \in NodeTypes
              /\ kind = "node" /\ b.rows[r] # <<>> => Len(b.rows[r]) = 1
<1>1. PICK n \in 0 .. MaxRows : b.rows \in [1 .. n -> RowsOf(kind)]
  BY BatchFields
<1>2. n \in Nat
  BY BoundsAssumption
<1>3. b.rows \in Seq(RowsOf(kind)) /\ Len(b.rows) = n /\ DOMAIN b.rows = 1 .. n
  BY <1>1, <1>2, FunctionIsSeq
<1>4. ASSUME NEW row \in RowsOf(kind)
      PROVE  /\ row \in Seq(Types) /\ Len(row) \in Nat
             /\ DOMAIN row = 1 .. Len(row) /\ DOMAIN row \subseteq Places
             /\ row # <<>> => Len(row) > 0 /\ row[1] \in NodeTypes
             /\ kind = "node" /\ row # <<>> => Len(row) = 1
  <2>1. CASE row = <<>>
    <3>1. row \in Seq(Types) /\ Len(row) = 0
      BY <2>1, EmptySeq
    <3>2. DOMAIN row = 1 .. Len(row)
      BY <3>1, LenProperties
    <3> QED
      BY <2>1, <3>1, <3>2
  <2>2. CASE kind = "node" /\ row # <<>>
    <3>1. PICK t \in NodeTypes : row = <<t>>
      BY <2>2 DEF RowsOf
    <3>2. row \in Seq(Types) /\ Len(row) = 1 /\ row[1] = t /\ DOMAIN row = 1 .. 1
      BY <3>1 DEF Types
    <3>3. 1 .. 1 \subseteq Places
      BY BoundsAssumption DEF Places
    <3> QED
      BY <3>2, <3>3
  <2>3. CASE kind = "path" /\ row # <<>>
    <3>1. row \in Paths
      BY <2>3 DEF RowsOf
    <3> QED
      BY <2>3, <3>1, PathFacts
  <2> QED
    BY <2>1, <2>2, <2>3
<1>5. \A r \in 1 .. Len(b.rows) : b.rows[r] \in RowsOf(kind)
  BY <1>1, <1>3
<1> QED
  BY <1>2, <1>3, <1>4, <1>5

-----------------------------------------------------------------------------
(* The cells of this type that are laid out before occurrence <<r, i>>.    *)
Before(r, i) ==
  {o \in (1 .. r) \X Places :
     /\ o[2] \in DOMAIN batch.rows[o[1]]
     /\ batch.rows[o[1]][o[2]] = batch.rows[r][i]
     /\ o[1] < r \/ o[2] < i}

(* A slot is a number.                                                     *)
LEMMA SlotType ==
  ASSUME NEW r \in Nat, NEW i
  PROVE  IsFiniteSet(Before(r, i)) /\ Slot(r, i) = Cardinality(Before(r, i)) /\ Slot(r, i) \in Nat
<1>1. IsFiniteSet(1 .. r) /\ IsFiniteSet(Places)
  BY FS_Interval, BoundsAssumption DEF Places
<1>2. IsFiniteSet((1 .. r) \X Places)
  BY <1>1, FS_Product
<1>3. Before(r, i) \in SUBSET ((1 .. r) \X Places)
  BY DEF Before
<1>4. IsFiniteSet(Before(r, i))
  BY <1>2, <1>3, FS_Subset
<1>5. Slot(r, i) = Cardinality(Before(r, i))
  BY Zenon DEF Slot, Before, Places
<1> QED
  BY <1>4, <1>5, FS_CardinalityType

(* Of two cells of one type the later has more before it.                  *)
LEMMA LaterSlot ==
  ASSUME NEW r \in Nat \ {0}, NEW s \in Nat \ {0}, NEW i \in Places, NEW j \in Places,
         i \in DOMAIN batch.rows[r], batch.rows[r][i] = batch.rows[s][j],
         r < s \/ (r = s /\ i < j)
  PROVE  Slot(r, i) # Slot(s, j)
<1>1. Before(r, i) \subseteq Before(s, j)
  <2> SUFFICES ASSUME NEW o \in Before(r, i) PROVE o \in Before(s, j)
    OBVIOUS
  <2>1. /\ o \in (1 .. r) \X Places /\ o[2] \in DOMAIN batch.rows[o[1]]
        /\ batch.rows[o[1]][o[2]] = batch.rows[s][j]
        /\ o[1] < r \/ o[2] < i
    BY DEF Before
  <2>2. o[1] \in Nat /\ o[1] <= r /\ o[1] >= 1 /\ o[2] \in Nat
    BY <2>1, BoundsAssumption DEF Places
  <2>3. o \in (1 .. s) \X Places
    BY <2>1, <2>2
  <2>4. o[1] < s \/ o[2] < j
    BY <2>1, <2>2, BoundsAssumption DEF Places
  <2> QED
    BY <2>1, <2>3, <2>4 DEF Before
<1>2. <<r, i>> \in Before(s, j)
  <2>1. <<r, i>> \in (1 .. s) \X Places
    OBVIOUS
  <2> QED
    BY <2>1 DEF Before
<1>3. <<r, i>> \notin Before(r, i)
  BY BoundsAssumption DEF Before, Places
<1>4. Before(r, i) \in SUBSET Before(s, j) /\ Before(r, i) # Before(s, j)
  BY <1>1, <1>2, <1>3
<1>5. Cardinality(Before(r, i)) # Cardinality(Before(s, j))
  BY <1>4, SlotType, FS_Subset
<1> QED
  BY <1>5, SlotType

(* So a type and a slot name one cell: what an adjacency cell or a header  *)
(* points to is the occurrence it was written for.                         *)
LEMMA AtSlot ==
  ASSUME TypeOK, NEW r \in 1 .. Len(batch.rows), NEW i \in DOMAIN batch.rows[r]
  PROVE  At(batch.rows[r][i], Slot(r, i)) = {<<r, i>>}
<1> DEFINE t == batch.rows[r][i]
           n == Slot(r, i)
<1>1. kind \in {"node", "path"} /\ batch \in Batches
  BY DEF TypeOK
<1>2. /\ Len(batch.rows) \in Nat
      /\ \A q \in 1 .. Len(batch.rows) : DOMAIN batch.rows[q] \subseteq Places
  BY <1>1, RowFacts
<1>3. At(t, n) = {o \in (1 .. Len(batch.rows)) \X Places :
                    /\ o[2] \in DOMAIN batch.rows[o[1]]
                    /\ batch.rows[o[1]][o[2]] = t /\ Slot(o[1], o[2]) = n}
  BY Zenon DEF At, Places
<1>4. <<r, i>> \in At(t, n)
  BY <1>2, <1>3
<1>5. ASSUME NEW o \in At(t, n) PROVE o = <<r, i>>
  <2> HIDE DEF n, t
  <2>1. /\ o \in (1 .. Len(batch.rows)) \X Places
        /\ o[2] \in DOMAIN batch.rows[o[1]]
        /\ batch.rows[o[1]][o[2]] = t /\ Slot(o[1], o[2]) = n
    BY <1>3, <1>5
  <2>2. PICK s \in 1 .. Len(batch.rows), j \in Places : o = <<s, j>>
    BY <2>1
  <2>3. j \in DOMAIN batch.rows[s] /\ batch.rows[s][j] = batch.rows[r][i] /\ Slot(s, j) = Slot(r, i)
    BY <2>1, <2>2 DEF n, t
  <2>4. s \in Nat \ {0} /\ r \in Nat \ {0} /\ i \in Places
    BY <1>2
  <2>5. ~(r < s \/ (r = s /\ i < j))
    BY <2>3, <2>4, LaterSlot
  <2>6. ~(s < r \/ (s = r /\ j < i))
    BY <2>3, <2>4, LaterSlot
  <2>7. i \in Nat /\ j \in Nat
    BY <2>4, BoundsAssumption DEF Places
  <2> QED
    BY <2>2, <2>4, <2>5, <2>6, <2>7
<1> QED
  BY <1>4, <1>5

-----------------------------------------------------------------------------
(* What the server encoded of a row, element by element.                   *)
LEMMA EncodedFacts ==
  ASSUME TypeOK, NEW r \in 1 .. Len(batch.rows)
  PROVE  /\ Encoded(r) \in Seq(Decoded) /\ Len(Encoded(r)) = Len(batch.rows[r])
         /\ DOMAIN Encoded(r) = 1 .. Len(batch.rows[r])
         /\ \A i \in 1 .. Len(batch.rows[r]) :
              Encoded(r)[i] = [id |-> <<r, i>>, props |-> [p \in Props |-> <<p, <<r, i>>>>]]
<1>1. /\ Len(batch.rows) \in Nat /\ Len(batch.rows[r]) \in Nat
      /\ DOMAIN batch.rows[r] = 1 .. Len(batch.rows[r])
  BY RowFacts DEF TypeOK
<1> DEFINE e(i) == [id |-> <<r, i>>, props |-> [p \in Props |-> <<p, <<r, i>>>>]]
<1>2. Encoded(r) = [i \in 1 .. Len(batch.rows[r]) |-> e(i)]
  BY <1>1 DEF Encoded
<1>3. ASSUME NEW i \in 1 .. Len(batch.rows[r]) PROVE e(i) \in Decoded
  <2>1. <<r, i>> \in Nat \X Nat
    BY <1>1
  <2> QED
    BY <2>1 DEF Decoded
<1> HIDE DEF e
<1>4. Encoded(r) \in [1 .. Len(batch.rows[r]) -> Decoded]
  BY <1>2, <1>3
<1>5. Encoded(r) \in Seq(Decoded) /\ Len(Encoded(r)) = Len(batch.rows[r])
  BY <1>1, <1>4, FunctionIsSeq
<1>6. DOMAIN Encoded(r) = 1 .. Len(batch.rows[r]) /\ \A i \in 1 .. Len(batch.rows[r]) : Encoded(r)[i] = e(i)
  BY <1>2
<1> QED
  BY <1>5, <1>6 DEF e

(* An element read with right stamps is the one that was encoded.          *)
LEMMA ElementEncoded ==
  ASSUME TypeOK, NEW r \in 1 .. Len(batch.rows), NEW i \in 1 .. Len(batch.rows[r]),
         NEW t, NEW order, NEW stamped, \A p \in Props : order[stamped[t][p]] = p
  PROVE  Element(t, order, <<r, i>>, stamped) = Encoded(r)[i]
<1>1. Encoded(r)[i] = [id |-> <<r, i>>, props |-> [p \in Props |-> <<p, <<r, i>>>>]]
  BY EncodedFacts
<1>2. [p \in Props |-> <<order[stamped[t][p]], <<r, i>>>>] = [p \in Props |-> <<p, <<r, i>>>>]
  OBVIOUS
<1> QED
  BY <1>1, <1>2 DEF Element

(* One more row in the result (decodeResultTable).                         *)
LEMMA RowDone ==
  ASSUME TypeOK, ElementRowsInv, Row <= Len(batch.rows),
         kind' = kind, batch' = batch, rows' = Append(rows, Encoded(Row))
  PROVE  ElementRowsInv' /\ Len(rows') <= Len(batch'.rows) /\ batch' \in Batches'
<1>1. rows \in Seq(Seq(Decoded)) /\ \A r \in DOMAIN rows : rows[r] = Encoded(r)
  BY DEF ElementRowsInv
<1>2. Len(rows) \in Nat /\ DOMAIN rows = 1 .. Len(rows)
  BY <1>1, LenProperties
<1>3. Len(batch.rows) \in Nat /\ Row \in 1 .. Len(batch.rows)
  BY <1>2, RowFacts DEF TypeOK, Row
<1>4. Encoded(Row) \in Seq(Decoded)
  BY <1>3, EncodedFacts
<1>5. /\ rows' \in Seq(Seq(Decoded)) /\ Len(rows') = Row
      /\ \A r \in 1 .. Len(rows) : rows'[r] = rows[r]
      /\ rows'[Row] = Encoded(Row)
  BY <1>1, <1>4, AppendProperties DEF Row
<1>6. DOMAIN rows' = 1 .. Row
  BY <1>5, LenProperties
<1>7. ASSUME NEW r \in 1 .. Row PROVE rows'[r] = Encoded(r)
  <2>1. r \in 1 .. Len(rows) \/ r = Row
    BY <1>2 DEF Row
  <2> QED
    BY <2>1, <1>1, <1>2, <1>5
<1>8. \A r : Encoded(r)' = Encoded(r)
  BY DEF Encoded
<1>9. ElementRowsInv'
  BY <1>5, <1>6, <1>7, <1>8 DEF ElementRowsInv
<1>10. batch' \in Batches'
  <2>1. Batches' = Batches
    BY DEF Batches
  <2> QED
    BY <2>1 DEF TypeOK
<1> QED
  BY <1>3, <1>5, <1>9, <1>10

(* prepareVector makes the schema right for the batch it is given.         *)
LEMMA ReadBatchKeeps ==
  ASSUME DecodeInv, ReadBatch
  PROVE  DecodeInv'
<1> PICK b \in Batches : batch' = b /\ Prepare(b)
  BY DEF ReadBatch
<1>1. /\ walk = NoWalk /\ walk' = NoWalk /\ kind' = kind /\ rows' = <<>>
  BY DEF ReadBatch
<1>2. /\ kind \in {"node", "path"} /\ stamp \in [Types -> [Props -> 1 .. Cardinality(Props)]]
      /\ pairs \in [Types -> [cur : Nat, adj : Nat]]
  BY DEF DecodeInv, TypeOK
<1>3. NodeTypes \subseteq Types
  BY DEF Types
<1>4. /\ Stamped(NodeTypes) \in [Types -> [Props -> 1 .. Cardinality(Props)]]
      /\ \A t \in NodeTypes : \A p \in Props : batch'.order[t][Stamped(NodeTypes)[t][p]] = p
  BY <1>2, <1>3, StampedFacts
<1>5. PathPairs(b) \in [Types -> [cur : Nat, adj : Nat]]
  BY PairsLead
<1>6. /\ stamp' \in [Types -> [Props -> 1 .. Cardinality(Props)]]
      /\ pairs' \in [Types -> [cur : Nat, adj : Nat]]
  BY <1>2, <1>4, <1>5 DEF Prepare
<1>7. Batches' = Batches
  BY <1>1 DEF Batches
<1>8. Len(rows') = 0 /\ rows' \in Seq(Seq(Decoded)) /\ DOMAIN rows' = {}
  BY <1>1, EmptySeq
<1>9. Len(batch'.rows) \in Nat
  BY <1>2, RowFacts
<1>10. walk' \in Walks
  BY <1>1 DEF Walks
<1>11. TypeOK'
  BY <1>1, <1>2, <1>6, <1>7, <1>8, <1>9, <1>10 DEF TypeOK, Walks, NoWalk
<1>12. kind = "node" => StampsRight(NodeTypes)'
  BY <1>4 DEF Prepare, StampsRight
<1>13. kind = "path" => pairs' = PathPairs(b)
  BY DEF Prepare
<1>14. PreparedInv'
  BY <1>1, <1>12, <1>13 DEF PreparedInv
<1>15. ElementRowsInv'
  BY <1>8 DEF ElementRowsInv
<1>16. WalkInv'
  BY <1>1 DEF WalkInv, NoWalk
<1> QED
  BY <1>11, <1>14, <1>15, <1>16 DEF DecodeInv

(* A row that waits, with what the steps that take it need to know of it.  *)
LEMMA WaitingRow ==
  ASSUME TypeOK, ElementRowsInv, Row <= Len(batch.rows)
  PROVE  /\ Row \in 1 .. Len(batch.rows) /\ Len(batch.rows) \in Nat
         /\ batch.rows[Row] \in Seq(Types) /\ Len(batch.rows[Row]) \in Nat
         /\ DOMAIN batch.rows[Row] = 1 .. Len(batch.rows[Row]) /\ DOMAIN batch.rows[Row] \subseteq Places
         /\ batch.rows[Row] # <<>> => Len(batch.rows[Row]) > 0 /\ batch.rows[Row][1] \in NodeTypes
         /\ kind = "node" /\ batch.rows[Row] # <<>> => Len(batch.rows[Row]) = 1
         /\ batch.rows # <<>>
<1>1. Row \in 1 .. Len(batch.rows) /\ Len(batch.rows) \in Nat
  <2>1. Len(rows) \in Nat
    BY LenProperties DEF ElementRowsInv
  <2> QED
    BY <2>1, RowFacts DEF TypeOK, Row
<1>2. batch.rows # <<>>
  BY <1>1, EmptySeq
<1> QED
  BY <1>1, <1>2, RowFacts DEF TypeOK

(* A null row is a null in the result (decodeValue).                       *)
LEMMA DecodeNullKeeps ==
  ASSUME DecodeInv, DecodeNull
  PROVE  DecodeInv'
<1>1. TypeOK /\ PreparedInv /\ ElementRowsInv /\ WalkInv
  BY DEF DecodeInv
<1>2. /\ walk = NoWalk /\ Row <= Len(batch.rows) /\ batch.rows[Row] = <<>>
      /\ rows' = Append(rows, <<>>)
  BY DEF DecodeNull, RowWaits
<1>3. kind' = kind /\ stamp' = stamp /\ batch' = batch /\ pairs' = pairs /\ walk' = walk
  BY DEF DecodeNull
<1>4. Encoded(Row) = <<>>
  <2>1. Row \in 1 .. Len(batch.rows)
    BY <1>1, <1>2, WaitingRow
  <2>2. Encoded(Row) \in Seq(Decoded) /\ Len(Encoded(Row)) = 0
    BY <1>1, <1>2, <2>1, EncodedFacts, EmptySeq
  <2> QED
    BY <2>2, EmptySeq
<1>5. ElementRowsInv' /\ Len(rows') <= Len(batch'.rows) /\ batch' \in Batches'
  BY <1>1, <1>2, <1>3, <1>4, RowDone
<1>6. TypeOK'
  BY <1>1, <1>3, <1>5 DEF TypeOK, Walks
<1>7. PreparedInv'
  BY <1>1, <1>3 DEF PreparedInv, StampsRight
<1>8. WalkInv'
  BY <1>2, <1>3 DEF WalkInv, NoWalk
<1> QED
  BY <1>5, <1>6, <1>7, <1>8 DEF DecodeInv

(* A node is read with the stamps of its type (decodeNode).                *)
LEMMA DecodeNodeKeeps ==
  ASSUME DecodeInv, DecodeNode
  PROVE  DecodeInv'
<1> DEFINE t == batch.rows[Row][1]
           e == Element(t, batch.order[t], <<Row, 1>>, stamp)
<1>1. TypeOK /\ PreparedInv /\ ElementRowsInv /\ WalkInv
  BY DEF DecodeInv
<1>2. /\ kind = "node" /\ walk = NoWalk /\ Row <= Len(batch.rows) /\ batch.rows[Row] # <<>>
      /\ rows' = Append(rows, <<e>>)
  BY DEF DecodeNode, RowWaits
<1>3. kind' = kind /\ stamp' = stamp /\ batch' = batch /\ pairs' = pairs /\ walk' = walk
  BY DEF DecodeNode
<1>4. Row \in 1 .. Len(batch.rows) /\ Len(batch.rows[Row]) = 1 /\ t \in NodeTypes /\ batch.rows # <<>>
  BY <1>1, <1>2, WaitingRow
<1>5. \A p \in Props : batch.order[t][stamp[t][p]] = p
  BY <1>1, <1>2, <1>4 DEF PreparedInv, StampsRight
<1>6. e = Encoded(Row)[1]
  <2>1. 1 \in 1 .. Len(batch.rows[Row])
    BY <1>4
  <2> QED
    BY <1>1, <1>4, <1>5, <2>1, ElementEncoded
<1>7. Encoded(Row) = <<e>>
  <2>1. Encoded(Row) \in Seq(Decoded) /\ Len(Encoded(Row)) = 1
    BY <1>1, <1>4, EncodedFacts
  <2> HIDE DEF e
  <2>2. e \in Decoded
    BY <1>6, <2>1, ElementOfSeq
  <2>3. <<e>> \in Seq(Decoded) /\ Len(<<e>>) = 1 /\ <<e>>[1] = e
    BY <2>2
  <2> QED
    BY <1>6, <2>1, <2>3, SeqEqual
<1> HIDE DEF e
<1>8. ElementRowsInv' /\ Len(rows') <= Len(batch'.rows) /\ batch' \in Batches'
  BY <1>1, <1>2, <1>3, <1>7, RowDone
<1>9. TypeOK'
  BY <1>1, <1>3, <1>8 DEF TypeOK, Walks
<1>10. PreparedInv'
  BY <1>1, <1>3 DEF PreparedInv, StampsRight
<1>11. WalkInv'
  BY <1>2, <1>3 DEF WalkInv, NoWalk
<1> QED
  BY <1>8, <1>9, <1>10, <1>11 DEF DecodeInv

(* A path begins at the node its header names (decodePath up to its loop). *)
LEMMA StartPathKeeps ==
  ASSUME DecodeInv, StartPath
  PROVE  DecodeInv'
<1> DEFINE path == batch.rows[Row]
<1>1. TypeOK /\ PreparedInv /\ ElementRowsInv
  BY DEF DecodeInv
<1>2. /\ kind = "path" /\ Row <= Len(batch.rows) /\ path # <<>>
      /\ walk' = [total |-> Len(path), edge |-> FALSE, at |-> Header(Row, 1).next,
                  offset |-> Header(Row, 1).offset, elements |-> <<>>]
  BY DEF StartPath, RowWaits
<1>3. kind' = kind /\ stamp' = stamp /\ batch' = batch /\ pairs' = pairs /\ rows' = rows
  BY DEF StartPath
<1>4. /\ Row \in 1 .. Len(batch.rows) /\ Len(path) \in Nat /\ Len(path) > 0
      /\ DOMAIN path = 1 .. Len(path) /\ DOMAIN path \subseteq Places
      /\ path[1] \in NodeTypes
  BY <1>1, <1>2, WaitingRow
<1>5. 1 \in DOMAIN path /\ Header(Row, 1).next = path[1] /\ Header(Row, 1).offset = Slot(Row, 1)
  BY <1>4 DEF Header
<1>6. Row \in Nat /\ Slot(Row, 1) \in Nat
  BY <1>4, SlotType
<1>7. Len(path) \in 1 .. 2 * MaxHops + 1
  BY <1>4 DEF Places
<1>8. /\ <<>> \in Seq([id : Nat \X Nat, props : [Props -> Props \X (Nat \X Nat)]])
      /\ Len(<<>>) = 0 /\ DOMAIN <<>> = {}
  BY EmptySeq
<1> HIDE DEF path
<1>9. walk' \in Walks
  BY <1>2, <1>4, <1>5, <1>6, <1>7, <1>8 DEF Walks, Types
<1>10. TypeOK'
  <2>1. Batches' = Batches
    BY <1>3 DEF Batches
  <2> QED
    BY <1>1, <1>3, <1>9, <2>1 DEF TypeOK, Walks
<1>11. PreparedInv'
  BY <1>1, <1>3 DEF PreparedInv, StampsRight
<1>12. ElementRowsInv'
  <2>1. \A r : Encoded(r)' = Encoded(r)
    BY <1>3 DEF Encoded
  <2> QED
    BY <1>1, <1>3, <2>1 DEF ElementRowsInv
<1>13. /\ walk'.elements = <<>> /\ walk'.total = Len(path) /\ walk'.at = path[1]
       /\ walk'.offset = Slot(Row, 1) /\ ~walk'.edge
  BY <1>2, <1>5
<1>14. Position' = 1 /\ Row' = Row /\ Slot(Row, 1)' = Slot(Row, 1)
  BY <1>3, <1>8, <1>13 DEF Position, Row, Slot
<1>15. path[1] \notin EdgeTypes
  BY <1>4, TypesAssumption
<1>16. WalkInv'
  <2>1. /\ kind' = "path" /\ Row' <= Len(batch'.rows) /\ walk'.total = Len(batch'.rows[Row'])
        /\ walk'.elements \in Seq(Decoded) /\ Len(walk'.elements) < walk'.total
        /\ DOMAIN walk'.elements = {}
    BY <1>2, <1>3, <1>4, <1>8, <1>13, <1>14 DEF path, Decoded
  <2>2. /\ walk'.at = batch'.rows[Row'][Position']
        /\ (walk'.edge <=> walk'.at \in EdgeTypes)
    BY <1>3, <1>13, <1>14, <1>15 DEF path
  <2>3. walk'.offset = Slot(Row, Position)'
    BY <1>3, <1>13, <1>14 DEF Slot
  <2> QED
    BY <2>1, <2>2, <2>3 DEF WalkInv
<1> QED
  BY <1>10, <1>11, <1>12, <1>16 DEF DecodeInv

-----------------------------------------------------------------------------
(* What a walk stands before: the vector its place names holds the next    *)
(* element's type, and at its offset that very element (decodePath).       *)
LEMMA WalkStands ==
  ASSUME DecodeInv, walk # NoWalk
  PROVE  /\ Row \in 1 .. Len(batch.rows) /\ Len(batch.rows[Row]) \in Nat
         /\ Position \in 1 .. Len(batch.rows[Row]) /\ Position \in Nat
         /\ DOMAIN batch.rows[Row] = 1 .. Len(batch.rows[Row]) /\ batch.rows[Row] \in Seq(Types)
         /\ TypeThere = batch.rows[Row][Position] /\ TypeThere \in Types
         /\ walk.edge <=> TypeThere \in EdgeTypes
         /\ At(TypeThere, walk.offset) = {<<Row, Position>>}
<1>1. TypeOK /\ PreparedInv /\ ElementRowsInv /\ WalkInv
  BY DEF DecodeInv
<1>2. /\ kind = "path" /\ Row <= Len(batch.rows) /\ walk.total = Len(batch.rows[Row])
      /\ walk.elements \in Seq(Decoded) /\ Len(walk.elements) < walk.total
      /\ walk.at = batch.rows[Row][Position]
      /\ walk.offset = Slot(Row, Position)
  BY <1>1 DEF WalkInv
<1>3. walk.edge <=> walk.at \in EdgeTypes
  BY <1>1 DEF WalkInv
<1>4. /\ Row \in 1 .. Len(batch.rows) /\ Len(batch.rows[Row]) \in Nat
      /\ DOMAIN batch.rows[Row] = 1 .. Len(batch.rows[Row]) /\ batch.rows[Row] \in Seq(Types)
      /\ batch.rows # <<>>
  BY <1>1, <1>2, WaitingRow
<1>5. Position \in 1 .. Len(batch.rows[Row]) /\ Position \in Nat
  <2>1. Len(walk.elements) \in Nat
    BY <1>2, LenProperties
  <2> QED
    BY <1>2, <1>4, <2>1 DEF Position
<1>6. walk.at \in Types
  BY <1>2, <1>4, <1>5, ElementOfSeq
<1>7. pairs = PathPairs(batch)
  BY <1>1, <1>2, <1>4 DEF PreparedInv
<1>8. TypeThere = walk.at
  BY <1>1, <1>6, <1>7, PairsLead DEF TypeThere, Place, TypeOK
<1>9. At(TypeThere, walk.offset) = {<<Row, Position>>}
  BY <1>1, <1>2, <1>4, <1>5, <1>8, AtSlot
<1> QED
  BY <1>2, <1>3, <1>4, <1>5, <1>6, <1>8, <1>9

(* One turn of the loop: the element is the one that comes next, and the   *)
(* adjacency cell leads to the one after it (decodePath).                  *)
LEMMA WalkElementKeeps ==
  ASSUME DecodeInv, WalkElement
  PROVE  DecodeInv'
<1> DEFINE path == batch.rows[Row]
           i == Position
           t == TypeThere
           o == CHOOSE x \in At(TypeThere, walk.offset) : TRUE
           e == Element(t, batch.order[t], o, stamp')
           elements == Append(walk.elements, e)
           next == Header(o[1], o[2] + 1)
<1>1. TypeOK /\ PreparedInv /\ ElementRowsInv /\ WalkInv
  BY DEF DecodeInv
<1>2. /\ walk # NoWalk
      /\ kind' = kind /\ batch' = batch /\ pairs' = pairs /\ stamp' = Stamped({t})
  BY DEF WalkElement
<1>3. Advance(elements, next)
  BY DEF WalkElement
<1>4. /\ Row \in 1 .. Len(batch.rows) /\ Len(path) \in Nat /\ i \in 1 .. Len(path) /\ i \in Nat
      /\ DOMAIN path = 1 .. Len(path) /\ path \in Seq(Types) /\ t = path[i] /\ t \in Types
      /\ At(TypeThere, walk.offset) = {<<Row, i>>}
  BY <1>2, WalkStands
<1>5. /\ kind = "path" /\ Row <= Len(batch.rows) /\ walk.total = Len(path)
      /\ walk.elements \in Seq(Decoded) /\ Len(walk.elements) \in Nat /\ i = Len(walk.elements) + 1
      /\ \A j \in DOMAIN walk.elements : walk.elements[j] = Encoded(Row)[j]
  BY <1>1, <1>2, LenProperties DEF WalkInv, Position
<1>6. o = <<Row, i>>
  BY <1>4
<1>7. /\ stamp' \in [Types -> [Props -> 1 .. Cardinality(Props)]]
      /\ \A p \in Props : batch.order[t][stamp'[t][p]] = p
  <2>1. batch' \in Batches /\ stamp \in [Types -> [Props -> 1 .. Cardinality(Props)]]
    BY <1>1, <1>2 DEF TypeOK
  <2>2. {t} \subseteq Types
    BY <1>4
  <2> HIDE DEF t
  <2> QED
    BY <1>2, <2>1, <2>2, StampedFacts
<1>8. e = Encoded(Row)[i]
  BY <1>1, <1>4, <1>6, <1>7, ElementEncoded
<1>9. /\ Encoded(Row) \in Seq(Decoded) /\ Len(Encoded(Row)) = Len(path)
      /\ DOMAIN Encoded(Row) = 1 .. Len(path)
  BY <1>1, <1>4, EncodedFacts
<1>10. e \in Decoded
  BY <1>4, <1>8, <1>9, ElementOfSeq
<1> HIDE DEF e, o, t
<1>11. next = Header(Row, i + 1)
  <2>1. o[1] = Row /\ o[2] = i
    BY <1>6
  <2> QED
    BY <2>1
<1> HIDE DEF next
<1>12. /\ elements \in Seq(Decoded) /\ Len(elements) = i /\ DOMAIN elements = 1 .. i
       /\ \A j \in 1 .. i : elements[j] = Encoded(Row)[j]
  <2>1. /\ elements \in Seq(Decoded) /\ Len(elements) = i
        /\ \A j \in 1 .. Len(walk.elements) : elements[j] = walk.elements[j]
        /\ elements[i] = e
    BY <1>5, <1>10, AppendProperties
  <2>2. DOMAIN elements = 1 .. i /\ DOMAIN walk.elements = 1 .. Len(walk.elements)
    BY <1>5, <2>1, LenProperties
  <2>3. ASSUME NEW j \in 1 .. i PROVE elements[j] = Encoded(Row)[j]
    <3>1. j \in 1 .. Len(walk.elements) \/ j = i
      BY <1>5
    <3> QED
      BY <3>1, <2>1, <2>2, <1>5, <1>8
  <2> QED
    BY <2>1, <2>2, <2>3
<1> HIDE DEF elements
<1>13. PreparedInv'
  BY <1>1, <1>2, <1>5 DEF PreparedInv
<1>14. \A r : Encoded(r)' = Encoded(r)
  BY <1>2 DEF Encoded
<1>15. Batches' = Batches
  BY <1>2 DEF Batches
<1>16. CASE i = Len(path)
  <2>1. rows' = Append(rows, elements) /\ walk' = NoWalk
    BY <1>3, <1>5, <1>12, <1>16 DEF Advance
  <2>2. elements = Encoded(Row)
    BY <1>9, <1>12, <1>16, SeqEqual
  <2>3. ElementRowsInv' /\ Len(rows') <= Len(batch'.rows) /\ batch' \in Batches'
    BY <1>1, <1>2, <1>5, <2>1, <2>2, RowDone
  <2>4. TypeOK'
    BY <1>1, <1>2, <1>7, <2>1, <2>3 DEF TypeOK, Walks, NoWalk
  <2>5. WalkInv'
    BY <2>1 DEF WalkInv, NoWalk
  <2> QED
    BY <1>13, <2>3, <2>4, <2>5 DEF DecodeInv
<1>17. CASE i # Len(path)
  <2> DEFINE edge == next.edge
  <2>1. /\ rows' = rows
        /\ walk' = [total |-> walk.total, edge |-> edge, at |-> next.next,
                    offset |-> next.offset, elements |-> elements]
    BY <1>3, <1>5, <1>12, <1>17 DEF Advance
  <2>2. i + 1 \in 1 .. Len(path) /\ Row \in Nat
    BY <1>4, <1>17
  <2>3. next = [edge |-> path[i + 1] \in EdgeTypes, next |-> path[i + 1], offset |-> Slot(Row, i + 1)]
    <3>1. i + 1 \in DOMAIN path
      BY <1>4, <2>2
    <3> QED
      BY Zenon, <1>11, <3>1 DEF Header
  <2>4. /\ next.next = path[i + 1] /\ next.offset = Slot(Row, i + 1)
        /\ edge \in BOOLEAN /\ (edge <=> path[i + 1] \in EdgeTypes)
    <3> DEFINE isEdge == path[i + 1] \in EdgeTypes
    <3>1. isEdge \in BOOLEAN /\ (isEdge <=> path[i + 1] \in EdgeTypes)
      OBVIOUS
    <3>2. next = [edge |-> isEdge, next |-> path[i + 1], offset |-> Slot(Row, i + 1)]
      BY Zenon, <2>3
    <3> HIDE DEF isEdge
    <3>3. edge = isEdge
      BY <3>2
    <3> QED
      BY <3>1, <3>2, <3>3
  <2> HIDE DEF edge
  <2>5. /\ walk'.total = Len(path) /\ walk'.at = path[i + 1] /\ walk'.offset = Slot(Row, i + 1)
        /\ walk'.elements = elements /\ (walk'.edge <=> path[i + 1] \in EdgeTypes)
    BY <1>5, <2>1, <2>4
  <2>6. Position' = i + 1 /\ Row' = Row
    BY <1>2, <1>12, <2>1, <2>5 DEF Position, Row
  <2>7. walk' \in Walks
    <3>1. Len(path) \in 1 .. 2 * MaxHops + 1
      <4>1. Len(path) \in DOMAIN path
        BY <1>4
      <4>2. DOMAIN path \subseteq Places
        BY <1>1, <1>5, WaitingRow
      <4> QED
        BY <4>1, <4>2 DEF Places
    <3>2. path[i + 1] \in Types /\ Slot(Row, i + 1) \in Nat
      BY <1>4, <2>2, SlotType, ElementOfSeq
    <3> QED
      BY <1>5, <1>12, <2>1, <2>4, <3>1, <3>2 DEF Walks, Decoded
  <2>8. TypeOK'
    BY <1>1, <1>2, <1>7, <1>15, <2>1, <2>7 DEF TypeOK, Walks
  <2>9. ElementRowsInv'
    BY <1>1, <1>14, <2>1 DEF ElementRowsInv
  <2>10. WalkInv'
    <3>1. /\ kind' = "path" /\ Row' <= Len(batch'.rows) /\ walk'.total = Len(batch'.rows[Row'])
          /\ walk'.elements \in Seq(Decoded) /\ Len(walk'.elements) < walk'.total
      BY <1>2, <1>4, <1>5, <1>12, <1>17, <2>5, <2>6
    <3>2. \A j \in DOMAIN walk'.elements : walk'.elements[j] = Encoded(Row)'[j]
      <4>1. Encoded(Row)' = Encoded(Row)
        BY <1>2, <2>6 DEF Encoded
      <4> QED
        BY <4>1, <1>12, <2>5
    <3>3. /\ walk'.at = batch'.rows[Row'][Position']
          /\ (walk'.edge <=> walk'.at \in EdgeTypes)
      BY <1>2, <2>5, <2>6
    <3>4. walk'.offset = Slot(Row, Position)'
      BY <1>2, <2>5, <2>6 DEF Slot
    <3> QED
      BY <3>1, <3>2, <3>3, <3>4 DEF WalkInv
  <2> QED
    BY <1>13, <2>8, <2>9, <2>10 DEF DecodeInv
<1> QED
  BY <1>16, <1>17, <1>4

-----------------------------------------------------------------------------
LEMMA ElementsStart ==
  ASSUME Init
  PROVE  DecodeInv
<1>1. /\ kind \in {"node", "path"} /\ batch \in Batches /\ batch.rows = <<>>
      /\ walk = NoWalk /\ rows = <<>> /\ pairs = NoPairs
  BY DEF Init
<1>2. stamp \in [Types -> [Props -> 1 .. Cardinality(Props)]]
  <2>1. ASSUME NEW p \in Props PROVE 1 \in 1 .. Cardinality(Props)
    <3>1. Cardinality(Props) \in Nat /\ Cardinality(Props) # 0
      BY TypesAssumption, FS_CardinalityType, FS_EmptySet
    <3> QED
      BY <3>1
  <2>2. stamp = [t \in Types |-> [p \in Props |-> 1]]
    BY DEF Init
  <2> QED
    BY <2>1, <2>2
<1>3. pairs \in [Types -> [cur : Nat, adj : Nat]]
  BY <1>1 DEF NoPairs
<1>4. Len(rows) <= Len(batch.rows)
  BY <1>1, EmptySeq
<1>5. TypeOK
  BY <1>1, <1>2, <1>3, <1>4 DEF TypeOK, Walks
<1>6. ElementRowsInv
  BY <1>1, EmptySeq DEF ElementRowsInv
<1> QED
  BY <1>1, <1>5, <1>6 DEF DecodeInv, PreparedInv, WalkInv

LEMMA ElementsKept ==
  ASSUME DecodeInv, [Next]_vars
  PROVE  DecodeInv'
<1>1. CASE Next
  BY <1>1, ReadBatchKeeps, DecodeNullKeeps, DecodeNodeKeeps, StartPathKeeps, WalkElementKeeps DEF Next
<1>2. CASE UNCHANGED vars
  <2>1. UNCHANGED <<kind, stamp, batch>> /\ UNCHANGED <<pairs, walk, rows>>
    BY <1>2 DEF vars
  <2>2. TypeOK /\ PreparedInv /\ ElementRowsInv /\ WalkInv
    BY DEF DecodeInv
  <2>3. TypeOK'
    <3>1. Batches' = Batches
      BY <2>1 DEF Batches
    <3> QED
      BY <2>1, <2>2, <3>1 DEF TypeOK, Walks
  <2>4. PreparedInv' /\ (\A r : Encoded(r)' = Encoded(r)) /\ Row' = Row /\ Position' = Position
        /\ Slot(Row, Position)' = Slot(Row, Position)
    BY <2>1, <2>2 DEF PreparedInv, StampsRight, Encoded, Row, Position, Slot
  <2>5. ElementRowsInv'
    BY <2>1, <2>2, <2>4 DEF ElementRowsInv
  <2>6. WalkInv'
    BY <2>1, <2>2, <2>4 DEF WalkInv
  <2> QED
    BY <2>3, <2>4, <2>5, <2>6 DEF DecodeInv
<1> QED
  BY <1>1, <1>2

LEMMA ElementsFaithful ==
  ASSUME DecodeInv
  PROVE  DecodedFaithfully
<1>1. TypeOK /\ ElementRowsInv /\ WalkInv
  BY DEF DecodeInv
<1>2. ASSUME walk # NoWalk PROVE walk.elements = SubSeq(Encoded(Row), 1, Len(walk.elements))
  <2> DEFINE n == Len(walk.elements)
  <2>1. /\ walk.elements \in Seq(Decoded) /\ n \in Nat /\ n < Len(batch.rows[Row])
        /\ \A i \in 1 .. n : walk.elements[i] = Encoded(Row)[i]
    BY <1>1, <1>2, LenProperties DEF WalkInv
  <2>2. /\ Encoded(Row) \in Seq(Decoded) /\ Len(Encoded(Row)) = Len(batch.rows[Row])
        /\ DOMAIN Encoded(Row) = 1 .. Len(batch.rows[Row]) /\ Len(batch.rows[Row]) \in Nat
    BY <1>1, <1>2, WalkStands, EncodedFacts
  <2> DEFINE head == SubSeq(Encoded(Row), 1, n)
  <2>3. \A i \in 1 .. n : Encoded(Row)[i] \in Decoded
    BY <2>1, <2>2, ElementOfSeq
  <2> HIDE DEF n
  <2>4. /\ head \in Seq(Decoded)
        /\ Len(head) = IF 1 <= n THEN n - 1 + 1 ELSE 0
        /\ \A i \in 1 .. n - 1 + 1 : head[i] = Encoded(Row)[1 + i - 1]
    BY <2>1, <2>2, <2>3, SubSeqProperties
  <2> HIDE DEF head
  <2>5. Len(head) = n
    BY <2>1, <2>4
  <2>6. ASSUME NEW i \in 1 .. n PROVE walk.elements[i] = head[i]
    <3>1. i \in 1 .. n - 1 + 1 /\ 1 + i - 1 = i
      BY <2>1
    <3> QED
      BY <3>1, <2>1, <2>4
  <2>7. walk.elements = head
    BY <2>1, <2>4, <2>5, <2>6, SeqEqual DEF n
  <2> QED
    BY <2>7 DEF head, n
<1> QED
  BY <1>1, <1>2 DEF DecodedFaithfully, ElementRowsInv

LEMMA WalkReads ==
  ASSUME DecodeInv
  PROVE  NeverThrows
<1> SUFFICES ASSUME walk # NoWalk PROVE Readable
  BY DEF NeverThrows
<1>1. /\ walk.edge <=> TypeThere \in EdgeTypes
      /\ At(TypeThere, walk.offset) # {}
  BY WalkStands
<1>2. walk.edge \in BOOLEAN
  BY DEF DecodeInv, TypeOK, Walks
<1> QED
  BY <1>1, <1>2 DEF Readable

(* Whatever batches the server sends, with whatever property lists and     *)
(* type orders, the stamps, pairs, rows and walk are what the batch being  *)
(* decoded calls for (decodeResultTable, decodeNode, decodePath).          *)
THEOREM DecodeCorrect == Spec => []DecodeInv
<1>1. Init => DecodeInv
  BY ElementsStart
<1>2. DecodeInv /\ [Next]_vars => DecodeInv'
  BY ElementsKept
<1> QED
  BY <1>1, <1>2, PTL DEF Spec

(* The rows decoded and the part of a path walked are what was encoded,    *)
(* although the column's schema is overwritten by every batch and element. *)
THEOREM DecodesFaithfully == Spec => []DecodedFaithfully
<1>1. DecodeInv => DecodedFaithfully
  BY ElementsFaithful
<1> QED
  BY <1>1, DecodeCorrect, PTL

(* A well-formed batch is decoded to its end: every vector a walk is led   *)
(* to is of the kind it expects and has a cell there (decodePath's throw). *)
THEOREM DecodingNeverThrows == Spec => []NeverThrows
<1>1. DecodeInv => NeverThrows
  BY WalkReads
<1> QED
  BY <1>1, DecodeCorrect, PTL

(* The schema of a type without parts.                                     *)
PlainSchemaOf(t) == IF t.code = "Vector" THEN [code |-> t.code, dim |-> t.dim] ELSE Of(t.code)

IP == INSTANCE CompositesProofs WITH
        PartType <- PlainType, PartValues <- PlainValues, PartTypeStream <- PlainTypeStream,
        PartStream <- PlainStream, PartFlat <- PlainFlat, PartSchema <- PlainSchema,
        DecodePart <- DecodePlain, DecodeFlatPart <- DecodePlainFlat, PartShows <- PlainShows,
        PartSchemaOf <- PlainSchemaOf

OP == INSTANCE CompositesProofs WITH
        PartType <- Inner!Type, PartValues <- Inner!Values, PartTypeStream <- Inner!TypeStream,
        PartStream <- Inner!Stream, PartFlat <- Inner!Flat, PartSchema <- InnerDecode!NewTypeSchema,
        DecodePart <- InnerDecode!DecodeAnyCompositeValue, DecodeFlatPart <- InnerDecode!DecodeFlatValue,
        PartShows <- InnerDecode!Shows, PartSchemaOf <- IP!SchemaOf


LEMMA IPType ==
  ASSUME NEW t PROVE IP!Type(t) <=> Inner!Type(t)
BY Zenon DEF IP!Cardinality, Inner!Cardinality, IP!DirectionBits, Inner!DirectionBits, IP!EdgeHeader, Inner!EdgeHeader, IP!Elements, Inner!Elements, IP!EntriesOf, Inner!EntriesOf, IP!FlattenSeq, Inner!FlattenSeq, IP!IsFiniteSet, Inner!IsFiniteSet, IP!IsInjective, Inner!IsInjective, IP!KeyTexts, Inner!KeyTexts, IP!KeysOf, Inner!KeysOf, IP!Listed, Inner!Listed, IP!Lists, Inner!Lists, IP!NamedStream, Inner!NamedStream, IP!NamedTypes, Inner!NamedTypes, IP!Null, Inner!Null, IP!NullBits, Inner!NullBits, IP!Of, Inner!Of, IP!Parts, Inner!Parts, IP!PropVectors, Inner!PropVectors, IP!Reverse, Inner!Reverse, IP!SetStream, Inner!SetStream, IP!SetToSeq, Inner!SetToSeq, IP!Spans, Inner!Spans, IP!Tagged, Inner!Tagged, IP!Type, Inner!Type

LEMMA IPValues ==
  ASSUME NEW t PROVE IP!Values(t) = Inner!Values(t)
BY DEF IP!Cardinality, Inner!Cardinality, IP!DirectionBits, Inner!DirectionBits, IP!EdgeHeader, Inner!EdgeHeader, IP!Elements, Inner!Elements, IP!EntriesOf, Inner!EntriesOf, IP!FlattenSeq, Inner!FlattenSeq, IP!IsFiniteSet, Inner!IsFiniteSet, IP!IsInjective, Inner!IsInjective, IP!KeyTexts, Inner!KeyTexts, IP!KeysOf, Inner!KeysOf, IP!Listed, Inner!Listed, IP!Lists, Inner!Lists, IP!NamedStream, Inner!NamedStream, IP!NamedTypes, Inner!NamedTypes, IP!Null, Inner!Null, IP!NullBits, Inner!NullBits, IP!Of, Inner!Of, IP!Parts, Inner!Parts, IP!PropVectors, Inner!PropVectors, IP!Reverse, Inner!Reverse, IP!SetStream, Inner!SetStream, IP!SetToSeq, Inner!SetToSeq, IP!Spans, Inner!Spans, IP!Tagged, Inner!Tagged, IP!Values, Inner!Values

LEMMA IPTypeStream ==
  ASSUME NEW t PROVE IP!TypeStream(t) = Inner!TypeStream(t)
BY Zenon DEF IP!Cardinality, Inner!Cardinality, IP!DirectionBits, Inner!DirectionBits, IP!EdgeHeader, Inner!EdgeHeader, IP!Elements, Inner!Elements, IP!EntriesOf, Inner!EntriesOf, IP!FlattenSeq, Inner!FlattenSeq, IP!IsFiniteSet, Inner!IsFiniteSet, IP!IsInjective, Inner!IsInjective, IP!KeyTexts, Inner!KeyTexts, IP!KeysOf, Inner!KeysOf, IP!Listed, Inner!Listed, IP!Lists, Inner!Lists, IP!NamedStream, Inner!NamedStream, IP!NamedTypes, Inner!NamedTypes, IP!Null, Inner!Null, IP!NullBits, Inner!NullBits, IP!Of, Inner!Of, IP!Parts, Inner!Parts, IP!PropVectors, Inner!PropVectors, IP!Reverse, Inner!Reverse, IP!SetStream, Inner!SetStream, IP!SetToSeq, Inner!SetToSeq, IP!Spans, Inner!Spans, IP!Tagged, Inner!Tagged, IP!TypeStream, Inner!TypeStream

LEMMA IPStream ==
  ASSUME NEW t, NEW v PROVE IP!Stream(t, v) = Inner!Stream(t, v)
BY Zenon DEF IP!Cardinality, Inner!Cardinality, IP!DirectionBits, Inner!DirectionBits, IP!EdgeHeader, Inner!EdgeHeader, IP!Elements, Inner!Elements, IP!EntriesOf, Inner!EntriesOf, IP!FlattenSeq, Inner!FlattenSeq, IP!IsFiniteSet, Inner!IsFiniteSet, IP!IsInjective, Inner!IsInjective, IP!KeyTexts, Inner!KeyTexts, IP!KeysOf, Inner!KeysOf, IP!Listed, Inner!Listed, IP!Lists, Inner!Lists, IP!NamedStream, Inner!NamedStream, IP!NamedTypes, Inner!NamedTypes, IP!Null, Inner!Null, IP!NullBits, Inner!NullBits, IP!Of, Inner!Of, IP!Parts, Inner!Parts, IP!PropVectors, Inner!PropVectors, IP!Reverse, Inner!Reverse, IP!SetStream, Inner!SetStream, IP!SetToSeq, Inner!SetToSeq, IP!Spans, Inner!Spans, IP!Stream, Inner!Stream, IP!Tagged, Inner!Tagged

LEMMA IPTagged ==
  ASSUME NEW t, NEW x PROVE IP!Tagged(t, x) = Inner!Tagged(t, x)
BY Zenon DEF IP!Cardinality, Inner!Cardinality, IP!DirectionBits, Inner!DirectionBits, IP!EdgeHeader, Inner!EdgeHeader, IP!Elements, Inner!Elements, IP!EntriesOf, Inner!EntriesOf, IP!FlattenSeq, Inner!FlattenSeq, IP!IsFiniteSet, Inner!IsFiniteSet, IP!IsInjective, Inner!IsInjective, IP!KeyTexts, Inner!KeyTexts, IP!KeysOf, Inner!KeysOf, IP!Listed, Inner!Listed, IP!Lists, Inner!Lists, IP!NamedStream, Inner!NamedStream, IP!NamedTypes, Inner!NamedTypes, IP!Null, Inner!Null, IP!NullBits, Inner!NullBits, IP!Of, Inner!Of, IP!Parts, Inner!Parts, IP!PropVectors, Inner!PropVectors, IP!Reverse, Inner!Reverse, IP!SetStream, Inner!SetStream, IP!SetToSeq, Inner!SetToSeq, IP!Spans, Inner!Spans, IP!Tagged, Inner!Tagged

LEMMA IPFlat ==
  ASSUME NEW t, NEW vs, NEW order PROVE IP!Flat(t, vs, order) = Inner!Flat(t, vs, order)
BY Zenon DEF IP!Cardinality, Inner!Cardinality, IP!DirectionBits, Inner!DirectionBits, IP!EdgeHeader, Inner!EdgeHeader, IP!Elements, Inner!Elements, IP!EntriesOf, Inner!EntriesOf, IP!Flat, Inner!Flat, IP!FlattenSeq, Inner!FlattenSeq, IP!IsFiniteSet, Inner!IsFiniteSet, IP!IsInjective, Inner!IsInjective, IP!KeyTexts, Inner!KeyTexts, IP!KeysOf, Inner!KeysOf, IP!Listed, Inner!Listed, IP!Lists, Inner!Lists, IP!NamedStream, Inner!NamedStream, IP!NamedTypes, Inner!NamedTypes, IP!Null, Inner!Null, IP!NullBits, Inner!NullBits, IP!Of, Inner!Of, IP!Parts, Inner!Parts, IP!PropVectors, Inner!PropVectors, IP!Reverse, Inner!Reverse, IP!SetStream, Inner!SetStream, IP!SetToSeq, Inner!SetToSeq, IP!Spans, Inner!Spans, IP!Tagged, Inner!Tagged

LEMMA IPListed ==
  ASSUME NEW t, NEW order PROVE IP!Listed(t, order) = Inner!Listed(t, order)
BY Zenon DEF IP!Cardinality, Inner!Cardinality, IP!DirectionBits, Inner!DirectionBits, IP!EdgeHeader, Inner!EdgeHeader, IP!Elements, Inner!Elements, IP!EntriesOf, Inner!EntriesOf, IP!FlattenSeq, Inner!FlattenSeq, IP!IsFiniteSet, Inner!IsFiniteSet, IP!IsInjective, Inner!IsInjective, IP!KeyTexts, Inner!KeyTexts, IP!KeysOf, Inner!KeysOf, IP!Listed, Inner!Listed, IP!Lists, Inner!Lists, IP!NamedStream, Inner!NamedStream, IP!NamedTypes, Inner!NamedTypes, IP!Null, Inner!Null, IP!NullBits, Inner!NullBits, IP!Of, Inner!Of, IP!Parts, Inner!Parts, IP!PropVectors, Inner!PropVectors, IP!Reverse, Inner!Reverse, IP!SetStream, Inner!SetStream, IP!SetToSeq, Inner!SetToSeq, IP!Spans, Inner!Spans, IP!Tagged, Inner!Tagged

LEMMA IPNewTypeSchema ==
  ASSUME NEW s, NEW at PROVE IP!NewTypeSchema(s, at) = InnerDecode!NewTypeSchema(s, at)
BY Zenon DEF IP!DecodeFields, InnerDecode!DecodeFields, IP!DecodeItems, InnerDecode!DecodeItems, IP!DecodeNamed, InnerDecode!DecodeNamed, IP!DecodeNested, InnerDecode!DecodeNested, IP!EdgeOf, InnerDecode!EdgeOf, IP!Elements, InnerDecode!Elements, IP!HeadOf, InnerDecode!HeadOf, IP!IsNull, InnerDecode!IsNull, IP!ItemAt, InnerDecode!ItemAt, IP!ItemEnds, InnerDecode!ItemEnds, IP!Lists, InnerDecode!Lists, IP!NamedAt, InnerDecode!NamedAt, IP!NamedEnds, InnerDecode!NamedEnds, IP!NamedSchemas, InnerDecode!NamedSchemas, IP!NewTypeSchema, InnerDecode!NewTypeSchema, IP!Null, InnerDecode!Null, IP!ObjectOf, InnerDecode!ObjectOf, IP!Of, InnerDecode!Of, IP!Properties, InnerDecode!Properties, IP!SchemaEnds, InnerDecode!SchemaEnds, IP!SpanAt, InnerDecode!SpanAt, IP!Spanned, InnerDecode!Spanned, IP!ToSet, InnerDecode!ToSet

LEMMA IPDecodeAnyCompositeValue ==
  ASSUME NEW ctx, NEW s, NEW at, NEW code PROVE IP!DecodeAnyCompositeValue(ctx, s, at, code) = InnerDecode!DecodeAnyCompositeValue(ctx, s, at, code)
BY Zenon DEF IP!DecodeAnyCompositeValue, InnerDecode!DecodeAnyCompositeValue, IP!DecodeFields, InnerDecode!DecodeFields, IP!DecodeItems, InnerDecode!DecodeItems, IP!DecodeNamed, InnerDecode!DecodeNamed, IP!DecodeNested, InnerDecode!DecodeNested, IP!EdgeOf, InnerDecode!EdgeOf, IP!Elements, InnerDecode!Elements, IP!HeadOf, InnerDecode!HeadOf, IP!IsNull, InnerDecode!IsNull, IP!ItemAt, InnerDecode!ItemAt, IP!ItemEnds, InnerDecode!ItemEnds, IP!Lists, InnerDecode!Lists, IP!NamedAt, InnerDecode!NamedAt, IP!NamedEnds, InnerDecode!NamedEnds, IP!NamedSchemas, InnerDecode!NamedSchemas, IP!Null, InnerDecode!Null, IP!ObjectOf, InnerDecode!ObjectOf, IP!Of, InnerDecode!Of, IP!Properties, InnerDecode!Properties, IP!SchemaEnds, InnerDecode!SchemaEnds, IP!SpanAt, InnerDecode!SpanAt, IP!Spanned, InnerDecode!Spanned, IP!ToSet, InnerDecode!ToSet

LEMMA IPDecodeFlatValue ==
  ASSUME NEW ctx, NEW v, NEW index, NEW t PROVE IP!DecodeFlatValue(ctx, v, index, t) = InnerDecode!DecodeFlatValue(ctx, v, index, t)
BY Zenon DEF IP!DecodeFields, InnerDecode!DecodeFields, IP!DecodeFlatValue, InnerDecode!DecodeFlatValue, IP!DecodeItems, InnerDecode!DecodeItems, IP!DecodeNamed, InnerDecode!DecodeNamed, IP!DecodeNested, InnerDecode!DecodeNested, IP!EdgeOf, InnerDecode!EdgeOf, IP!Elements, InnerDecode!Elements, IP!HeadOf, InnerDecode!HeadOf, IP!IsNull, InnerDecode!IsNull, IP!ItemAt, InnerDecode!ItemAt, IP!ItemEnds, InnerDecode!ItemEnds, IP!Lists, InnerDecode!Lists, IP!NamedAt, InnerDecode!NamedAt, IP!NamedEnds, InnerDecode!NamedEnds, IP!NamedSchemas, InnerDecode!NamedSchemas, IP!Null, InnerDecode!Null, IP!ObjectOf, InnerDecode!ObjectOf, IP!Of, InnerDecode!Of, IP!Properties, InnerDecode!Properties, IP!SchemaEnds, InnerDecode!SchemaEnds, IP!SpanAt, InnerDecode!SpanAt, IP!Spanned, InnerDecode!Spanned, IP!ToSet, InnerDecode!ToSet

LEMMA IPShows ==
  ASSUME NEW d, NEW v, NEW t PROVE IP!Shows(d, v, t) <=> InnerDecode!Shows(d, v, t)
BY Zenon DEF IP!DecodeFields, InnerDecode!DecodeFields, IP!DecodeItems, InnerDecode!DecodeItems, IP!DecodeNamed, InnerDecode!DecodeNamed, IP!DecodeNested, InnerDecode!DecodeNested, IP!EdgeOf, InnerDecode!EdgeOf, IP!Elements, InnerDecode!Elements, IP!HeadOf, InnerDecode!HeadOf, IP!IsNull, InnerDecode!IsNull, IP!ItemAt, InnerDecode!ItemAt, IP!ItemEnds, InnerDecode!ItemEnds, IP!Lists, InnerDecode!Lists, IP!NamedAt, InnerDecode!NamedAt, IP!NamedEnds, InnerDecode!NamedEnds, IP!NamedSchemas, InnerDecode!NamedSchemas, IP!Null, InnerDecode!Null, IP!ObjectOf, InnerDecode!ObjectOf, IP!Of, InnerDecode!Of, IP!Properties, InnerDecode!Properties, IP!SchemaEnds, InnerDecode!SchemaEnds, IP!Shows, InnerDecode!Shows, IP!SpanAt, InnerDecode!SpanAt, IP!Spanned, InnerDecode!Spanned, IP!ToSet, InnerDecode!ToSet

LEMMA OPType ==
  ASSUME NEW t PROVE OP!Type(t) <=> Outer!Type(t)
BY Zenon DEF OP!Cardinality, Outer!Cardinality, OP!DirectionBits, Outer!DirectionBits, OP!EdgeHeader, Outer!EdgeHeader, OP!Elements, Outer!Elements, OP!EntriesOf, Outer!EntriesOf, OP!FlattenSeq, Outer!FlattenSeq, OP!IsFiniteSet, Outer!IsFiniteSet, OP!IsInjective, Outer!IsInjective, OP!KeyTexts, Outer!KeyTexts, OP!KeysOf, Outer!KeysOf, OP!Listed, Outer!Listed, OP!Lists, Outer!Lists, OP!NamedStream, Outer!NamedStream, OP!NamedTypes, Outer!NamedTypes, OP!Null, Outer!Null, OP!NullBits, Outer!NullBits, OP!Of, Outer!Of, OP!Parts, Outer!Parts, OP!PropVectors, Outer!PropVectors, OP!Reverse, Outer!Reverse, OP!SetStream, Outer!SetStream, OP!SetToSeq, Outer!SetToSeq, OP!Spans, Outer!Spans, OP!Tagged, Outer!Tagged, OP!Type, Outer!Type

LEMMA OPValues ==
  ASSUME NEW t PROVE OP!Values(t) = Outer!Values(t)
BY DEF OP!Cardinality, Outer!Cardinality, OP!DirectionBits, Outer!DirectionBits, OP!EdgeHeader, Outer!EdgeHeader, OP!Elements, Outer!Elements, OP!EntriesOf, Outer!EntriesOf, OP!FlattenSeq, Outer!FlattenSeq, OP!IsFiniteSet, Outer!IsFiniteSet, OP!IsInjective, Outer!IsInjective, OP!KeyTexts, Outer!KeyTexts, OP!KeysOf, Outer!KeysOf, OP!Listed, Outer!Listed, OP!Lists, Outer!Lists, OP!NamedStream, Outer!NamedStream, OP!NamedTypes, Outer!NamedTypes, OP!Null, Outer!Null, OP!NullBits, Outer!NullBits, OP!Of, Outer!Of, OP!Parts, Outer!Parts, OP!PropVectors, Outer!PropVectors, OP!Reverse, Outer!Reverse, OP!SetStream, Outer!SetStream, OP!SetToSeq, Outer!SetToSeq, OP!Spans, Outer!Spans, OP!Tagged, Outer!Tagged, OP!Values, Outer!Values

LEMMA OPTypeStream ==
  ASSUME NEW t PROVE OP!TypeStream(t) = Outer!TypeStream(t)
BY Zenon DEF OP!Cardinality, Outer!Cardinality, OP!DirectionBits, Outer!DirectionBits, OP!EdgeHeader, Outer!EdgeHeader, OP!Elements, Outer!Elements, OP!EntriesOf, Outer!EntriesOf, OP!FlattenSeq, Outer!FlattenSeq, OP!IsFiniteSet, Outer!IsFiniteSet, OP!IsInjective, Outer!IsInjective, OP!KeyTexts, Outer!KeyTexts, OP!KeysOf, Outer!KeysOf, OP!Listed, Outer!Listed, OP!Lists, Outer!Lists, OP!NamedStream, Outer!NamedStream, OP!NamedTypes, Outer!NamedTypes, OP!Null, Outer!Null, OP!NullBits, Outer!NullBits, OP!Of, Outer!Of, OP!Parts, Outer!Parts, OP!PropVectors, Outer!PropVectors, OP!Reverse, Outer!Reverse, OP!SetStream, Outer!SetStream, OP!SetToSeq, Outer!SetToSeq, OP!Spans, Outer!Spans, OP!Tagged, Outer!Tagged, OP!TypeStream, Outer!TypeStream

LEMMA OPStream ==
  ASSUME NEW t, NEW v PROVE OP!Stream(t, v) = Outer!Stream(t, v)
BY Zenon DEF OP!Cardinality, Outer!Cardinality, OP!DirectionBits, Outer!DirectionBits, OP!EdgeHeader, Outer!EdgeHeader, OP!Elements, Outer!Elements, OP!EntriesOf, Outer!EntriesOf, OP!FlattenSeq, Outer!FlattenSeq, OP!IsFiniteSet, Outer!IsFiniteSet, OP!IsInjective, Outer!IsInjective, OP!KeyTexts, Outer!KeyTexts, OP!KeysOf, Outer!KeysOf, OP!Listed, Outer!Listed, OP!Lists, Outer!Lists, OP!NamedStream, Outer!NamedStream, OP!NamedTypes, Outer!NamedTypes, OP!Null, Outer!Null, OP!NullBits, Outer!NullBits, OP!Of, Outer!Of, OP!Parts, Outer!Parts, OP!PropVectors, Outer!PropVectors, OP!Reverse, Outer!Reverse, OP!SetStream, Outer!SetStream, OP!SetToSeq, Outer!SetToSeq, OP!Spans, Outer!Spans, OP!Stream, Outer!Stream, OP!Tagged, Outer!Tagged

LEMMA OPTagged ==
  ASSUME NEW t, NEW x PROVE OP!Tagged(t, x) = Outer!Tagged(t, x)
BY Zenon DEF OP!Cardinality, Outer!Cardinality, OP!DirectionBits, Outer!DirectionBits, OP!EdgeHeader, Outer!EdgeHeader, OP!Elements, Outer!Elements, OP!EntriesOf, Outer!EntriesOf, OP!FlattenSeq, Outer!FlattenSeq, OP!IsFiniteSet, Outer!IsFiniteSet, OP!IsInjective, Outer!IsInjective, OP!KeyTexts, Outer!KeyTexts, OP!KeysOf, Outer!KeysOf, OP!Listed, Outer!Listed, OP!Lists, Outer!Lists, OP!NamedStream, Outer!NamedStream, OP!NamedTypes, Outer!NamedTypes, OP!Null, Outer!Null, OP!NullBits, Outer!NullBits, OP!Of, Outer!Of, OP!Parts, Outer!Parts, OP!PropVectors, Outer!PropVectors, OP!Reverse, Outer!Reverse, OP!SetStream, Outer!SetStream, OP!SetToSeq, Outer!SetToSeq, OP!Spans, Outer!Spans, OP!Tagged, Outer!Tagged

LEMMA OPFlat ==
  ASSUME NEW t, NEW vs, NEW order PROVE OP!Flat(t, vs, order) = Outer!Flat(t, vs, order)
BY Zenon DEF OP!Cardinality, Outer!Cardinality, OP!DirectionBits, Outer!DirectionBits, OP!EdgeHeader, Outer!EdgeHeader, OP!Elements, Outer!Elements, OP!EntriesOf, Outer!EntriesOf, OP!Flat, Outer!Flat, OP!FlattenSeq, Outer!FlattenSeq, OP!IsFiniteSet, Outer!IsFiniteSet, OP!IsInjective, Outer!IsInjective, OP!KeyTexts, Outer!KeyTexts, OP!KeysOf, Outer!KeysOf, OP!Listed, Outer!Listed, OP!Lists, Outer!Lists, OP!NamedStream, Outer!NamedStream, OP!NamedTypes, Outer!NamedTypes, OP!Null, Outer!Null, OP!NullBits, Outer!NullBits, OP!Of, Outer!Of, OP!Parts, Outer!Parts, OP!PropVectors, Outer!PropVectors, OP!Reverse, Outer!Reverse, OP!SetStream, Outer!SetStream, OP!SetToSeq, Outer!SetToSeq, OP!Spans, Outer!Spans, OP!Tagged, Outer!Tagged

LEMMA OPListed ==
  ASSUME NEW t, NEW order PROVE OP!Listed(t, order) = Outer!Listed(t, order)
BY Zenon DEF OP!Cardinality, Outer!Cardinality, OP!DirectionBits, Outer!DirectionBits, OP!EdgeHeader, Outer!EdgeHeader, OP!Elements, Outer!Elements, OP!EntriesOf, Outer!EntriesOf, OP!FlattenSeq, Outer!FlattenSeq, OP!IsFiniteSet, Outer!IsFiniteSet, OP!IsInjective, Outer!IsInjective, OP!KeyTexts, Outer!KeyTexts, OP!KeysOf, Outer!KeysOf, OP!Listed, Outer!Listed, OP!Lists, Outer!Lists, OP!NamedStream, Outer!NamedStream, OP!NamedTypes, Outer!NamedTypes, OP!Null, Outer!Null, OP!NullBits, Outer!NullBits, OP!Of, Outer!Of, OP!Parts, Outer!Parts, OP!PropVectors, Outer!PropVectors, OP!Reverse, Outer!Reverse, OP!SetStream, Outer!SetStream, OP!SetToSeq, Outer!SetToSeq, OP!Spans, Outer!Spans, OP!Tagged, Outer!Tagged

LEMMA OPNewTypeSchema ==
  ASSUME NEW s, NEW at PROVE OP!NewTypeSchema(s, at) = OuterDecode!NewTypeSchema(s, at)
BY Zenon DEF OP!DecodeFields, OuterDecode!DecodeFields, OP!DecodeItems, OuterDecode!DecodeItems, OP!DecodeNamed, OuterDecode!DecodeNamed, OP!DecodeNested, OuterDecode!DecodeNested, OP!EdgeOf, OuterDecode!EdgeOf, OP!Elements, OuterDecode!Elements, OP!HeadOf, OuterDecode!HeadOf, OP!IsNull, OuterDecode!IsNull, OP!ItemAt, OuterDecode!ItemAt, OP!ItemEnds, OuterDecode!ItemEnds, OP!Lists, OuterDecode!Lists, OP!NamedAt, OuterDecode!NamedAt, OP!NamedEnds, OuterDecode!NamedEnds, OP!NamedSchemas, OuterDecode!NamedSchemas, OP!NewTypeSchema, OuterDecode!NewTypeSchema, OP!Null, OuterDecode!Null, OP!ObjectOf, OuterDecode!ObjectOf, OP!Of, OuterDecode!Of, OP!Properties, OuterDecode!Properties, OP!SchemaEnds, OuterDecode!SchemaEnds, OP!SpanAt, OuterDecode!SpanAt, OP!Spanned, OuterDecode!Spanned, OP!ToSet, OuterDecode!ToSet

LEMMA OPDecodeAnyCompositeValue ==
  ASSUME NEW ctx, NEW s, NEW at, NEW code PROVE OP!DecodeAnyCompositeValue(ctx, s, at, code) = OuterDecode!DecodeAnyCompositeValue(ctx, s, at, code)
BY Zenon DEF OP!DecodeAnyCompositeValue, OuterDecode!DecodeAnyCompositeValue, OP!DecodeFields, OuterDecode!DecodeFields, OP!DecodeItems, OuterDecode!DecodeItems, OP!DecodeNamed, OuterDecode!DecodeNamed, OP!DecodeNested, OuterDecode!DecodeNested, OP!EdgeOf, OuterDecode!EdgeOf, OP!Elements, OuterDecode!Elements, OP!HeadOf, OuterDecode!HeadOf, OP!IsNull, OuterDecode!IsNull, OP!ItemAt, OuterDecode!ItemAt, OP!ItemEnds, OuterDecode!ItemEnds, OP!Lists, OuterDecode!Lists, OP!NamedAt, OuterDecode!NamedAt, OP!NamedEnds, OuterDecode!NamedEnds, OP!NamedSchemas, OuterDecode!NamedSchemas, OP!Null, OuterDecode!Null, OP!ObjectOf, OuterDecode!ObjectOf, OP!Of, OuterDecode!Of, OP!Properties, OuterDecode!Properties, OP!SchemaEnds, OuterDecode!SchemaEnds, OP!SpanAt, OuterDecode!SpanAt, OP!Spanned, OuterDecode!Spanned, OP!ToSet, OuterDecode!ToSet

LEMMA OPDecodeFlatValue ==
  ASSUME NEW ctx, NEW v, NEW index, NEW t PROVE OP!DecodeFlatValue(ctx, v, index, t) = OuterDecode!DecodeFlatValue(ctx, v, index, t)
BY Zenon DEF OP!DecodeFields, OuterDecode!DecodeFields, OP!DecodeFlatValue, OuterDecode!DecodeFlatValue, OP!DecodeItems, OuterDecode!DecodeItems, OP!DecodeNamed, OuterDecode!DecodeNamed, OP!DecodeNested, OuterDecode!DecodeNested, OP!EdgeOf, OuterDecode!EdgeOf, OP!Elements, OuterDecode!Elements, OP!HeadOf, OuterDecode!HeadOf, OP!IsNull, OuterDecode!IsNull, OP!ItemAt, OuterDecode!ItemAt, OP!ItemEnds, OuterDecode!ItemEnds, OP!Lists, OuterDecode!Lists, OP!NamedAt, OuterDecode!NamedAt, OP!NamedEnds, OuterDecode!NamedEnds, OP!NamedSchemas, OuterDecode!NamedSchemas, OP!Null, OuterDecode!Null, OP!ObjectOf, OuterDecode!ObjectOf, OP!Of, OuterDecode!Of, OP!Properties, OuterDecode!Properties, OP!SchemaEnds, OuterDecode!SchemaEnds, OP!SpanAt, OuterDecode!SpanAt, OP!Spanned, OuterDecode!Spanned, OP!ToSet, OuterDecode!ToSet

LEMMA OPShows ==
  ASSUME NEW d, NEW v, NEW t PROVE OP!Shows(d, v, t) <=> OuterDecode!Shows(d, v, t)
BY Zenon DEF OP!DecodeFields, OuterDecode!DecodeFields, OP!DecodeItems, OuterDecode!DecodeItems, OP!DecodeNamed, OuterDecode!DecodeNamed, OP!DecodeNested, OuterDecode!DecodeNested, OP!EdgeOf, OuterDecode!EdgeOf, OP!Elements, OuterDecode!Elements, OP!HeadOf, OuterDecode!HeadOf, OP!IsNull, OuterDecode!IsNull, OP!ItemAt, OuterDecode!ItemAt, OP!ItemEnds, OuterDecode!ItemEnds, OP!Lists, OuterDecode!Lists, OP!NamedAt, OuterDecode!NamedAt, OP!NamedEnds, OuterDecode!NamedEnds, OP!NamedSchemas, OuterDecode!NamedSchemas, OP!Null, OuterDecode!Null, OP!ObjectOf, OuterDecode!ObjectOf, OP!Of, OuterDecode!Of, OP!Properties, OuterDecode!Properties, OP!SchemaEnds, OuterDecode!SchemaEnds, OP!Shows, OuterDecode!Shows, OP!SpanAt, OuterDecode!SpanAt, OP!Spanned, OuterDecode!Spanned, OP!ToSet, OuterDecode!ToSet

-----------------------------------------------------------------------------
(* The toolkit of CompositesProofs, about this module's own operators.     *)
LEMMA SameToolkit ==
  /\ \A ss : IP!FlattenSeq(ss) = FlattenSeq(ss)
  /\ \A vs : IP!NullBits(vs) = NullBits(vs)
  /\ IP!Null = Null /\ \A code : IP!Of(code) = Of(code)
  /\ IP!Lists = Lists /\ IP!Elements = Elements
BY Zenon DEF IP!FlattenSeq, FlattenSeq, IP!NullBits, NullBits, IP!Null, Null, IP!Of, Of, IP!Lists, Lists,
  IP!Elements, Elements

(* The kinds of types there are.                                           *)
LEMMA PlainKinds ==
  ASSUME NEW u, PlainType(u)
  PROVE  /\ u.code \in ExactTypes \cup Strings \cup {"Geography", "Vector"}
         /\ u.code = "Vector" => u.dim \in Nat
BY DEF PlainType, ExactTypes, BasicTypes, SizeMap, Strings

(* A type without parts is read to its end.                                *)
LEMMA PlainTypesParsed == IP!TypesAssumed
<1>1. PlainType(IP!Of("String"))
  BY DEF PlainType, IP!Of, Strings
<1>2. ASSUME NEW u, PlainType(u) PROVE IP!PartParsed(u)
  <2>1. CASE u.code = "Vector"
    <3> DEFINE w == <<u.code, u.dim, "Float32">>
    <3>1. PlainTypeStream(u) = w /\ PlainSchemaOf(u) = [code |-> u.code, dim |-> u.dim]
      BY <2>1 DEF PlainTypeStream, PlainSchemaOf
    <3>2. IP!IsSeq(w) /\ Len(w) = 3 /\ w[1] = u.code /\ w[2] = u.dim
      BY DEF IP!IsSeq
    <3>3. IP!Starts(w, u.code)
      BY <3>2 DEF IP!Starts
    <3> HIDE DEF w
    <3>4. ASSUME NEW s, NEW at \in Nat, IP!Holds(s, at, w)
          PROVE  PlainSchema(s, at) = [got |-> [code |-> u.code, dim |-> u.dim], at |-> at + Len(w)]
      <4>1. s[at + 1] = u.code /\ s[at + 2] = u.dim
        BY <3>2, <3>4 DEF IP!Holds
      <4> QED
        BY <2>1, <3>2, <4>1 DEF PlainSchema
    <3> QED
      BY <3>1, <3>3, <3>4 DEF IP!PartParsed
  <2>2. CASE u.code = "Decimal"
    <3> DEFINE w == <<u.code, "precision", "scale">>
    <3>1. PlainTypeStream(u) = w /\ PlainSchemaOf(u) = Of(u.code)
      BY <2>2 DEF PlainTypeStream, PlainSchemaOf
    <3>2. IP!IsSeq(w) /\ Len(w) = 3 /\ w[1] = u.code
      BY DEF IP!IsSeq
    <3>3. IP!Starts(w, u.code)
      BY <3>2 DEF IP!Starts
    <3> HIDE DEF w
    <3>4. ASSUME NEW s, NEW at \in Nat, IP!Holds(s, at, w)
          PROVE  PlainSchema(s, at) = [got |-> Of(u.code), at |-> at + Len(w)]
      <4>1. s[at + 1] = u.code
        BY <3>2, <3>4 DEF IP!Holds
      <4> QED
        BY <2>2, <3>2, <4>1 DEF PlainSchema
    <3> QED
      BY <3>1, <3>3, <3>4 DEF IP!PartParsed
  <2>3. CASE u.code \notin {"Vector", "Decimal"}
    <3> DEFINE w == <<u.code>>
    <3>1. PlainTypeStream(u) = w /\ PlainSchemaOf(u) = Of(u.code)
      BY <2>3 DEF PlainTypeStream, PlainSchemaOf
    <3>2. IP!IsSeq(w) /\ Len(w) = 1 /\ w[1] = u.code
      BY DEF IP!IsSeq
    <3>3. IP!Starts(w, u.code)
      BY <3>2 DEF IP!Starts
    <3> HIDE DEF w
    <3>4. ASSUME NEW s, NEW at \in Nat, IP!Holds(s, at, w)
          PROVE  PlainSchema(s, at) = [got |-> Of(u.code), at |-> at + Len(w)]
      <4>1. s[at + 1] = u.code
        BY <3>2, <3>4 DEF IP!Holds
      <4> QED
        BY <2>3, <3>2, <4>1 DEF PlainSchema
    <3> QED
      BY <3>1, <3>3, <3>4 DEF IP!PartParsed
  <2> QED
    BY <2>1, <2>2, <2>3
<1> QED
  BY <1>1, <1>2 DEF IP!TypesAssumed

-----------------------------------------------------------------------------
(* Streams of values without parts.                                        *)
LEMMA BasicRead ==
  ASSUME NEW u, u.code \in ExactTypes, NEW v \in ExactSamples(u.code), NEW ctx
  PROVE  DecodeBasicValue(EncodeBasic(u.code, v), u.code, ctx) = v
<1>1. v \in BasicValue(u.code) /\ JsonExact(u.code, v)
  BY SamplesAssumption DEF ExactTypes, ExactSamples
<1>2. u.code \in {"Int8", "Int16", "Int32", "Uint8", "Uint16", "Uint32",
                  "Bool", "Float32", "Float64", "Date", "LocalTime", "LocalDatetime"}
  BY DEF ExactTypes, BasicTypes, SizeMap
<1> QED
  BY <1>1, <1>2, ExactRead

LEMMA BasicStreamRead ==
  ASSUME NEW u, u.code \in ExactTypes, NEW v \in ExactSamples(u.code), NEW ctx
  PROVE  IP!PartReadBack(ctx, u, v)
<1> DEFINE w == <<EncodeBasic(u.code, v)>>
<1>1. /\ u.code \in BasicTypes /\ u.code \notin Strings
      /\ u.code # "Vector" /\ u.code # "Geography" /\ u.code # "Unknown"
  BY DEF ExactTypes, BasicTypes, SizeMap, Strings
<1>2. PlainStream(u, v) = w
  BY <1>1 DEF PlainStream
<1>3. IP!IsSeq(w) /\ Len(w) = 1 /\ w[1] = EncodeBasic(u.code, v)
  BY DEF IP!IsSeq
<1> HIDE DEF w
<1>4. ASSUME NEW s, NEW at \in Nat, IP!Holds(s, at, w)
      PROVE  DecodePlain(ctx, s, at, u.code) = [got |-> v, at |-> at + Len(w)]
  <2>1. s[at + 1] = EncodeBasic(u.code, v)
    BY <1>3, <1>4 DEF IP!Holds
  <2>2. DecodePlain(ctx, s, at, u.code) = [got |-> DecodeBasicValue(s[at + 1], u.code, ctx), at |-> at + 1]
    BY <1>1 DEF DecodePlain
  <2>3. DecodeBasicValue(s[at + 1], u.code, ctx) = v
    BY <2>1, BasicRead
  <2> QED
    BY <1>3, <2>2, <2>3
<1> QED
  BY <1>2, <1>3, <1>4 DEF IP!PartReadBack

(* A count and as many items.                                              *)
Counted(xs) == <<Len(xs)>> \o xs

LEMMA CountedRead ==
  ASSUME NEW xs, IP!IsSeq(xs)
  PROVE  /\ IP!IsSeq(Counted(xs)) /\ Len(Counted(xs)) = 1 + Len(xs)
         /\ \A s : \A at \in Nat : IP!Holds(s, at, Counted(xs)) =>
              s[at + 1] = Len(xs) /\ [i \in 1 .. Len(xs) |-> s[(at + 1) + i]] = xs
<1>1. IP!Starts(Counted(xs), Len(xs)) /\ Len(Counted(xs)) = 1 + Len(xs)
  BY IP!ItemFirst DEF Counted
<1>2. ASSUME NEW s, NEW at \in Nat, IP!Holds(s, at, Counted(xs))
      PROVE  s[at + 1] = Len(xs) /\ [i \in 1 .. Len(xs) |-> s[(at + 1) + i]] = xs
  <2>1. s[at + 1] = Len(xs) /\ IP!Holds(s, at + 1, xs)
    BY <1>2, IP!HoldsItem DEF Counted
  <2>2. \A i \in 1 .. Len(xs) : s[(at + 1) + i] = xs[i]
    BY <2>1 DEF IP!Holds
  <2> QED
    BY <2>1, <2>2 DEF IP!IsSeq
<1> QED
  BY <1>1, <1>2 DEF IP!Starts

LEMMA TextStreamRead ==
  ASSUME NEW u, u.code \in Strings, NEW v \in PlainValues(u), NEW ctx
  PROVE  IP!PartReadBack(ctx, u, v)
<1>1. u.code \notin BasicTypes
  BY DEF Strings, BasicTypes, SizeMap
<1>2. PICK x \in Texts : v = [string |-> x]
  BY <1>1 DEF PlainValues, Strings
<1>3. IP!IsSeq(x)
  BY TextsAssumption, IP!IsSequence
<1> DEFINE w == Counted(x)
<1>4. PlainStream(u, v) = w
  BY <1>1, <1>2 DEF PlainStream, Counted, Strings
<1> HIDE DEF w
<1>5. /\ IP!IsSeq(w) /\ Len(w) = 1 + Len(x)
      /\ \A s : \A at \in Nat : IP!Holds(s, at, w) =>
           s[at + 1] = Len(x) /\ [i \in 1 .. Len(x) |-> s[(at + 1) + i]] = x
  BY <1>3, CountedRead DEF w
<1>6. ASSUME NEW s, NEW at \in Nat, IP!Holds(s, at, w)
      PROVE  DecodePlain(ctx, s, at, u.code) = [got |-> v, at |-> at + Len(w)]
  <2>1. s[at + 1] = Len(x) /\ [i \in 1 .. Len(x) |-> s[(at + 1) + i]] = x
    BY <1>5, <1>6
  <2>2. DecodePlain(ctx, s, at, u.code)
          = [got |-> [string |-> [i \in 1 .. s[at + 1] |-> s[at + 1 + i]]], at |-> at + 1 + s[at + 1]]
    BY <1>1 DEF DecodePlain, Strings
  <2>3. at + 1 + s[at + 1] = at + Len(w)
    BY <1>3, <1>5, <2>1 DEF IP!IsSeq
  <2> QED
    BY <1>2, <2>1, <2>2, <2>3
<1> QED
  BY <1>4, <1>5, <1>6 DEF IP!PartReadBack

LEMMA VectorStreamRead ==
  ASSUME NEW u, u.code = "Vector", u.dim \in Nat, NEW v \in PlainValues(u), NEW ctx
  PROVE  IP!PartReadBack(ctx, u, v)
<1>1. u.code \notin BasicTypes /\ u.code \notin Strings
  BY DEF Strings, BasicTypes, SizeMap
<1>2. PICK x \in [1 .. u.dim -> {"f", "g"}] : v = [floats |-> x]
  <2>1. PlainValues(u) = {[floats |-> x] : x \in [1 .. u.dim -> {"f", "g"}]}
    BY <1>1 DEF PlainValues
  <2> QED
    BY <2>1
<1>3. IP!IsSeq(x)
  <2>1. x = [i \in 1 .. u.dim |-> x[i]]
    OBVIOUS
  <2> QED
    BY <2>1, IP!SequenceOf
<1> DEFINE w == Counted(x)
<1>4. PlainStream(u, v) = w
  BY <1>1, <1>2 DEF PlainStream, Counted, Strings
<1> HIDE DEF w
<1>5. /\ IP!IsSeq(w) /\ Len(w) = 1 + Len(x)
      /\ \A s : \A at \in Nat : IP!Holds(s, at, w) =>
           s[at + 1] = Len(x) /\ [i \in 1 .. Len(x) |-> s[(at + 1) + i]] = x
  BY <1>3, CountedRead DEF w
<1>6. ASSUME NEW s, NEW at \in Nat, IP!Holds(s, at, w)
      PROVE  DecodePlain(ctx, s, at, u.code) = [got |-> v, at |-> at + Len(w)]
  <2>1. s[at + 1] = Len(x) /\ [i \in 1 .. Len(x) |-> s[(at + 1) + i]] = x
    BY <1>5, <1>6
  <2>2. DecodePlain(ctx, s, at, u.code)
          = [got |-> [floats |-> [i \in 1 .. s[at + 1] |-> s[at + 1 + i]]], at |-> at + 1 + s[at + 1]]
    BY <1>1 DEF DecodePlain, Strings
  <2>3. at + 1 + s[at + 1] = at + Len(w)
    BY <1>3, <1>5, <2>1 DEF IP!IsSeq
  <2> QED
    BY <1>2, <2>1, <2>2, <2>3
<1> QED
  BY <1>4, <1>5, <1>6 DEF IP!PartReadBack

-----------------------------------------------------------------------------
(* Shapes.  Points, two coordinates each, are found again.                 *)
Points == STRING \X STRING

LEMMA CoordinatesRead ==
  ASSUME NEW pts \in Seq(Points)
  PROVE  /\ IP!IsSeq(Coordinates(pts)) /\ Len(Coordinates(pts)) = 2 * Len(pts)
         /\ \A s : \A from \in Nat : IP!Holds(s, from, Coordinates(pts)) =>
              \A k \in 1 .. Len(pts) : PointAt(s, from + 2 * (k - 1)) = pts[k]
<1> DEFINE n == Len(pts)
           w == Coordinates(pts)
<1>1. n \in Nat /\ 2 * n \in Nat /\ \A k \in 1 .. n : pts[k] \in Points
  OBVIOUS
<1>2. w = [j \in 1 .. 2 * n |-> pts[(j + 1) \div 2][((j - 1) % 2) + 1]]
  BY DEF Coordinates
<1>3. ASSUME NEW k \in 1 .. n PROVE w[2 * k - 1] = pts[k][1] /\ w[2 * k] = pts[k][2]
  <2>1. 2 * k - 1 \in 1 .. 2 * n /\ 2 * k \in 1 .. 2 * n
    BY <1>1
  <2>2. ((2 * k - 1) + 1) \div 2 = k /\ ((2 * k - 1) - 1) % 2 = 0 /\ (2 * k + 1) \div 2 = k /\ (2 * k - 1) % 2 = 1
    OBVIOUS
  <2> QED
    BY <1>2, <2>1, <2>2
<1>4. IP!IsSeq(w) /\ Len(w) = 2 * n
  <2>1. w = [j \in 1 .. 2 * n |-> w[j]]
    BY <1>2
  <2> QED
    BY <1>1, <2>1, IP!SequenceOf, Zenon
<1> HIDE DEF w
<1>5. ASSUME NEW s, NEW from \in Nat, IP!Holds(s, from, w), NEW k \in 1 .. n
      PROVE  PointAt(s, from + 2 * (k - 1)) = pts[k]
  <2>1. 2 * k - 1 \in 1 .. Len(w) /\ 2 * k \in 1 .. Len(w)
    BY <1>1, <1>4
  <2>2. s[from + (2 * k - 1)] = pts[k][1] /\ s[from + 2 * k] = pts[k][2]
    BY <1>3, <1>5, <2>1 DEF IP!Holds
  <2>3. (from + 2 * (k - 1)) + 1 = from + (2 * k - 1) /\ (from + 2 * (k - 1)) + 2 = from + 2 * k
    OBVIOUS
  <2>4. PointAt(s, from + 2 * (k - 1)) = <<pts[k][1], pts[k][2]>>
    BY <2>2, <2>3, Zenon DEF PointAt
  <2>5. pts[k] = <<pts[k][1], pts[k][2]>>
    BY <1>1 DEF Points
  <2> QED
    BY <2>4, <2>5
<1> QED
  BY <1>4, <1>5 DEF w

Slice(xs, a, n) == [k \in 1 .. n |-> xs[a + k]]

LEMMA PointsRead ==
  ASSUME NEW pts \in Seq(Points), NEW s, NEW from \in Nat, IP!Holds(s, from, Coordinates(pts)),
         NEW a \in Nat, NEW n \in Nat, a + n <= Len(pts)
  PROVE  PointsAt(s, from + 2 * a, n) = Slice(pts, a, n)
<1>1. \A k \in 1 .. Len(pts) : PointAt(s, from + 2 * (k - 1)) = pts[k]
  BY CoordinatesRead
<1>2. ASSUME NEW k \in 1 .. n PROVE PointAt(s, (from + 2 * a) + 2 * (k - 1)) = pts[a + k]
  <2>1. a + k \in 1 .. Len(pts) /\ (from + 2 * a) + 2 * (k - 1) = from + 2 * ((a + k) - 1)
    OBVIOUS
  <2> QED
    BY <1>1, <2>1
<1> QED
  BY <1>2 DEF PointsAt, Slice

(* What a shape is made of.                                                *)
Loops == Seq(Points) \ {<<>>}

LEMMA ShapeFacts ==
  ASSUME NEW v \in Shapes
  PROVE  /\ v = [shape |-> v.shape, loops |-> v.loops] /\ v.loops \in Seq(Loops)
         /\ IP!Pieces(v.loops) /\ FlattenSeq(v.loops) \in Seq(Points)
         /\ v.shape \in {"Point", "LineString", "Polygon"}
         /\ v.shape \in {"Point", "LineString"} => Len(v.loops) = 1
         /\ v.shape = "Point" => Len(v.loops[1]) = 1
<1>1. /\ v = [shape |-> v.shape, loops |-> v.loops] /\ v.loops \in Seq(Loops)
      /\ v.shape \in {"Point", "LineString", "Polygon"}
      /\ v.shape \in {"Point", "LineString"} => Len(v.loops) = 1
      /\ v.shape = "Point" => Len(v.loops[1]) = 1
  BY ShapesAssumption DEF Loops, Points
<1>2. IP!IsSeq(v.loops) /\ \A i \in 1 .. Len(v.loops) : v.loops[i] \in Seq(Points)
  BY <1>1, IP!IsSequence DEF Loops
<1>3. IP!Pieces(v.loops) /\ IP!FlattenSeq(v.loops) \in Seq(Points)
  BY <1>2, IP!FlattenedOver
<1> QED
  BY <1>1, <1>3, SameToolkit

(* A loop is where the one before it ends.                                 *)
LoopsLaid(ls) ==
  /\ IP!IsSeq(ls) /\ LoopStart(ls, 0) = 0
  /\ LoopStart(ls, Len(ls)) = Len(FlattenSeq(ls))
  /\ \A i \in 0 .. Len(ls) : LoopStart(ls, i) \in Nat
  /\ \A i \in 1 .. Len(ls) :
       /\ LoopStart(ls, i) = LoopStart(ls, i - 1) + Len(ls[i])
       /\ \A j \in 1 .. Len(ls[i]) :
            /\ LoopStart(ls, i - 1) + j \in 1 .. Len(FlattenSeq(ls))
            /\ FlattenSeq(ls)[LoopStart(ls, i - 1) + j] = ls[i][j]

LEMMA LoopsFollow ==
  ASSUME NEW ls, IP!Pieces(ls)
  PROVE  LoopsLaid(ls)
<1>1. \A i : LoopStart(ls, i) = IP!Upto(ls, i)
  BY SameToolkit, Zenon DEF LoopStart, IP!Upto
<1>2. FlattenSeq(ls) = IP!FlattenSeq(ls)
  BY SameToolkit
<1>3. IP!IsSeq(ls)
  BY DEF IP!Pieces
<1>4. /\ Len(IP!FlattenSeq(ls)) = IP!Upto(ls, Len(ls))
      /\ IP!Upto(ls, 0) = 0
      /\ \A k \in 0 .. Len(ls) : IP!Upto(ls, k) \in Nat
      /\ \A k \in 1 .. Len(ls) : IP!Upto(ls, k) = IP!Upto(ls, k - 1) + Len(ls[k])
      /\ \A k \in 1 .. Len(ls) : \A j \in 1 .. Len(ls[k]) :
           /\ IP!Upto(ls, k - 1) + j \in 1 .. Len(IP!FlattenSeq(ls))
           /\ IP!FlattenSeq(ls)[IP!Upto(ls, k - 1) + j] = ls[k][j]
  BY IP!Flattened, Zenon
<1> QED
  BY <1>1, <1>2, <1>3, <1>4, Zenon DEF LoopsLaid

LEMMA LoopRead ==
  ASSUME NEW ls, IP!Pieces(ls), FlattenSeq(ls) \in Seq(Points), NEW s, NEW from \in Nat,
         IP!Holds(s, from, Coordinates(FlattenSeq(ls))), NEW i \in 1 .. Len(ls), Len(ls[i]) # 0
  PROVE  PointsAt(s, from + 2 * LoopStart(ls, i - 1), Len(ls[i])) = ls[i]
<1> DEFINE pts == FlattenSeq(ls)
           a == LoopStart(ls, i - 1)
           n == Len(ls[i])
<1>1. LoopsLaid(ls)
  BY LoopsFollow
<1>2. IP!IsSeq(ls[i]) /\ n \in Nat /\ Len(ls) \in Nat
  BY DEF IP!Pieces, IP!IsSeq
<1>3. i - 1 \in 0 .. Len(ls)
  BY <1>2
<1>4. a \in Nat /\ \A j \in 1 .. n : a + j \in 1 .. Len(pts) /\ pts[a + j] = ls[i][j]
  BY <1>1, <1>3 DEF LoopsLaid
<1>5. a + n <= Len(pts)
  BY <1>2, <1>4
<1> HIDE DEF pts, a, n
<1>6. PointsAt(s, from + 2 * a, n) = Slice(pts, a, n)
  <2>1. pts \in Seq(Points) /\ IP!Holds(s, from, Coordinates(pts))
    BY DEF pts
  <2>2. \A x \in Nat : \A y \in Nat : x + y <= Len(pts) => PointsAt(s, from + 2 * x, y) = Slice(pts, x, y)
    BY <2>1, PointsRead
  <2> QED
    BY <1>2, <1>4, <1>5, <2>2
<1>7. Slice(pts, a, n) = [k \in 1 .. n |-> ls[i][k]]
  BY <1>4 DEF Slice
<1> QED
  BY <1>2, <1>6, <1>7 DEF pts, a, n, IP!IsSeq

(* A sequence of one sequence is that one, a sequence each in one of its   *)
(* own is the sequence.                                                    *)
LEMMA FlattenOne ==
  ASSUME NEW ls, IP!Pieces(ls), Len(ls) = 1
  PROVE  FlattenSeq(ls) = ls[1] /\ ls = <<ls[1]>>
<1>1. 1 \in 1 .. Len(ls) /\ IP!IsSeq(ls[1])
  BY DEF IP!Pieces
<1>2. FlattenSeq(ls) = <<>> \o ls[1]
  <2>1. /\ IP!FlattenSeq(SubSeq(ls, 1, 0)) = <<>>
        /\ IP!FlattenSeq(SubSeq(ls, 1, Len(ls))) = IP!FlattenSeq(ls)
        /\ \A k \in 1 .. Len(ls) :
             IP!FlattenSeq(SubSeq(ls, 1, k)) = IP!FlattenSeq(SubSeq(ls, 1, k - 1)) \o ls[k]
    BY IP!FlattenStep, Zenon
  <2>2. 1 - 1 = 0
    OBVIOUS
  <2>3. IP!FlattenSeq(SubSeq(ls, 1, 1)) = IP!FlattenSeq(SubSeq(ls, 1, 1 - 1)) \o ls[1]
    BY <1>1, <2>1
  <2> QED
    BY <2>1, <2>2, <2>3, SameToolkit
<1>3. ls = <<ls[1]>>
  BY DEF IP!Pieces, IP!IsSeq
<1> QED
  BY <1>1, <1>2, <1>3, IP!NothingBefore

LEMMA FlattenSingletons ==
  ASSUME NEW ls, IP!IsSeq(ls)
  PROVE  FlattenSeq([i \in 1 .. Len(ls) |-> <<ls[i]>>]) = ls
<1> DEFINE n == Len(ls)
           ss == [i \in 1 .. n |-> <<ls[i]>>]
<1>1. n \in Nat
  BY DEF IP!IsSeq
<1>2. IP!IsSeq(ss) /\ Len(ss) = n
  <2>1. ss = [i \in 1 .. n |-> ss[i]]
    OBVIOUS
  <2> HIDE DEF ss
  <2> QED
    BY <1>1, <2>1, IP!SequenceOf, Zenon
<1>3. \A i \in 1 .. n : ss[i] = <<ls[i]>> /\ IP!IsSeq(ss[i]) /\ Len(ss[i]) = 1 /\ ss[i][1] = ls[i]
  BY IP!OneItem
<1> HIDE DEF ss
<1>4. IP!Pieces(ss)
  BY <1>2, <1>3 DEF IP!Pieces
<1>5. LoopsLaid(ss)
  BY <1>4, LoopsFollow
<1>6. \A k \in 0 .. n : LoopStart(ss, k) = k
  <2> DEFINE bad == {k \in 0 .. n : LoopStart(ss, k) # k}
  <2> SUFFICES ASSUME bad # {} PROVE FALSE
    OBVIOUS
  <2>1. PICK k \in bad : \A j \in bad : k <= j
    <3>1. bad \in SUBSET Nat
      BY <1>1
    <3> HIDE DEF bad
    <3> QED
      BY <3>1, LeastNumber
  <2>2. k # 0
    BY <1>5, <2>1 DEF LoopsLaid
  <2>3. k \in 1 .. n /\ k - 1 \in 0 .. n /\ k - 1 < k
    BY <1>1, <2>1, <2>2
  <2>4. LoopStart(ss, k - 1) = k - 1
    BY <2>1, <2>3
  <2>5. LoopStart(ss, k) = (k - 1) + 1
    BY <1>2, <1>3, <1>5, <2>3, <2>4 DEF LoopsLaid
  <2> QED
    BY <1>1, <2>1, <2>5
<1>7. Len(FlattenSeq(ss)) = n
  <2>1. n \in 0 .. n
    BY <1>1
  <2> QED
    BY <1>2, <1>5, <1>6, <2>1 DEF LoopsLaid
<1>8. ASSUME NEW i \in 1 .. n PROVE FlattenSeq(ss)[i] = ls[i]
  <2>1. i - 1 \in 0 .. n /\ (i - 1) + 1 = i
    BY <1>1
  <2>2. LoopStart(ss, i - 1) = i - 1 /\ 1 \in 1 .. Len(ss[i])
    BY <1>3, <1>6, <2>1
  <2>3. FlattenSeq(ss)[LoopStart(ss, i - 1) + 1] = ss[i][1]
    BY <1>2, <1>5, <2>2 DEF LoopsLaid
  <2> QED
    BY <1>3, <2>1, <2>2, <2>3
<1>9. IP!IsSeq(FlattenSeq(ss))
  BY <1>4, IP!Flattened, SameToolkit
<1> HIDE DEF n
<1>10. FlattenSeq(ss) = ls
  BY <1>7, <1>8, <1>9, IP!SameSequence DEF n
<1> QED
  BY <1>10 DEF ss, n

(* A shape is read from its stream.                                        *)
ShapeRead(v) ==
  /\ IP!IsSeq(ShapeStream(v))
  /\ \A s : \A at \in Nat : IP!Holds(s, at, ShapeStream(v)) =>
       DecodeGeographyData(s, at) = [got |-> v, at |-> at + Len(ShapeStream(v))]

(* What precedes the points, and the points.                               *)
HeadAndPoints(w, head, pts) ==
  /\ IP!IsSeq(w) /\ Len(w) = Len(head) + 2 * Len(pts)
  /\ \A s : \A at \in Nat : IP!Holds(s, at, w) =>
       /\ IP!Holds(s, at, head) /\ IP!Holds(s, at + Len(head), Coordinates(pts))
       /\ at + Len(head) \in Nat

LEMMA HeadRead ==
  ASSUME NEW head, IP!IsSeq(head), NEW pts \in Seq(Points), NEW w, w = head \o Coordinates(pts)
  PROVE  HeadAndPoints(w, head, pts)
<1> DEFINE c == Coordinates(pts)
<1>1. IP!IsSeq(c) /\ Len(c) = 2 * Len(pts)
  BY CoordinatesRead
<1> HIDE DEF c
<1>2. IP!IsSeq(head \o c) /\ Len(head \o c) = Len(head) + Len(c)
  BY <1>1, IP!Concatenated, Zenon
<1>3. ASSUME NEW s, NEW at \in Nat, IP!Holds(s, at, head \o c)
      PROVE  IP!Holds(s, at, head) /\ IP!Holds(s, at + Len(head), c) /\ at + Len(head) \in Nat
  <2>1. IP!HoldsBehind(s, at, head, c)
    BY <1>1, <1>3, IP!HoldsBoth, Zenon
  <2> QED
    BY <2>1 DEF IP!HoldsBehind
<1> QED
  BY <1>1, <1>2, <1>3 DEF HeadAndPoints, c

LEMMA PointShapeRead ==
  ASSUME NEW v \in Shapes, v.shape = "Point"
  PROVE  ShapeRead(v)
<1> DEFINE ls == v.loops
           pts == FlattenSeq(ls)
           head == <<0, "srid">>
           w == ShapeStream(v)
<1>1. /\ v = [shape |-> "Point", loops |-> ls] /\ IP!Pieces(ls) /\ pts \in Seq(Points)
      /\ Len(ls) = 1 /\ Len(ls[1]) = 1
  BY ShapeFacts
<1>2. pts = ls[1] /\ ls = <<ls[1]>>
  BY <1>1, FlattenOne
<1>3. w = head \o Coordinates(pts)
  BY <1>1 DEF ShapeStream
<1>4. IP!IsSeq(head) /\ Len(head) = 2 /\ head[1] = 0
  BY DEF IP!IsSeq
<1> HIDE DEF head, w, ls, pts
<1>5. HeadAndPoints(w, head, pts)
  BY <1>1, <1>3, <1>4, HeadRead
<1>6. Len(pts) = 1
  BY <1>1, <1>2
<1>7. IP!IsSeq(w) /\ Len(w) = 4
  BY <1>4, <1>5, <1>6 DEF HeadAndPoints
<1>8. ASSUME NEW s, NEW at \in Nat, IP!Holds(s, at, w)
      PROVE  DecodeGeographyData(s, at) = [got |-> v, at |-> at + Len(w)]
  <2>1. IP!Holds(s, at, head) /\ IP!Holds(s, at + 2, Coordinates(pts))
    BY <1>4, <1>5, <1>8 DEF HeadAndPoints
  <2>2. s[at + 1] = 0
    BY <1>4, <2>1 DEF IP!Holds
  <2>3. PointsAt(s, at + 2, 1) = pts
    <3>1. \A x \in Nat : \A y \in Nat : x + y <= Len(pts) => PointsAt(s, (at + 2) + 2 * x, y) = Slice(pts, x, y)
      BY <1>1, <2>1, PointsRead
    <3>2. PointsAt(s, (at + 2) + 2 * 0, 1) = Slice(pts, 0, 1)
      BY <1>6, <3>1
    <3>3. Slice(pts, 0, 1) = pts
      BY <1>1, <1>6 DEF Slice
    <3>4. (at + 2) + 2 * 0 = at + 2
      OBVIOUS
    <3> QED
      BY <3>2, <3>3, <3>4
  <2>4. DecodeGeographyData(s, at) = [got |-> [shape |-> "Point", loops |-> <<PointsAt(s, at + 2, 1)>>], at |-> at + 4]
    BY <2>2 DEF DecodeGeographyData
  <2>5. [shape |-> "Point", loops |-> <<PointsAt(s, at + 2, 1)>>] = v
    BY <1>1, <1>2, <2>3
  <2> QED
    BY <1>7, <2>4, <2>5
<1> QED
  BY <1>7, <1>8 DEF ShapeRead, w

LEMMA LineShapeRead ==
  ASSUME NEW v \in Shapes, v.shape = "LineString"
  PROVE  ShapeRead(v)
<1> DEFINE ls == v.loops
           pts == FlattenSeq(ls)
           n == Len(ls[1])
           head == <<4, "srid", n>>
           w == ShapeStream(v)
<1>1. v = [shape |-> "LineString", loops |-> ls] /\ IP!Pieces(ls) /\ pts \in Seq(Points) /\ Len(ls) = 1
  BY ShapeFacts
<1>2. pts = ls[1] /\ ls = <<ls[1]>>
  BY <1>1, FlattenOne
<1>3. w = head \o Coordinates(pts)
  BY <1>1 DEF ShapeStream
<1>4. IP!IsSeq(head) /\ Len(head) = 3 /\ head[1] = 4 /\ head[3] = n
  BY DEF IP!IsSeq
<1> HIDE DEF head, w, ls, pts
<1>5. HeadAndPoints(w, head, pts)
  BY <1>1, <1>3, <1>4, HeadRead
<1>6. Len(pts) = n /\ n \in Nat
  BY <1>1, <1>2
<1>7. IP!IsSeq(w) /\ Len(w) = 3 + 2 * n
  BY <1>4, <1>5, <1>6 DEF HeadAndPoints
<1> HIDE DEF n
<1>8. ASSUME NEW s, NEW at \in Nat, IP!Holds(s, at, w)
      PROVE  DecodeGeographyData(s, at) = [got |-> v, at |-> at + Len(w)]
  <2>1. IP!Holds(s, at, head) /\ IP!Holds(s, at + 3, Coordinates(pts))
    BY <1>4, <1>5, <1>8 DEF HeadAndPoints
  <2>2. s[at + 1] = 4 /\ s[at + 3] = n
    BY <1>4, <2>1 DEF IP!Holds
  <2>3. PointsAt(s, at + 3, n) = pts
    <3>1. \A x \in Nat : \A y \in Nat : x + y <= Len(pts) => PointsAt(s, (at + 3) + 2 * x, y) = Slice(pts, x, y)
      BY <1>1, <2>1, PointsRead
    <3>2. PointsAt(s, (at + 3) + 2 * 0, n) = Slice(pts, 0, n)
      BY <1>6, <3>1
    <3>3. Slice(pts, 0, n) = pts
      BY <1>1, <1>6 DEF Slice
    <3>4. (at + 3) + 2 * 0 = at + 3
      OBVIOUS
    <3> QED
      BY <3>2, <3>3, <3>4
  <2>4. DecodeGeographyData(s, at)
          = [got |-> [shape |-> "LineString", loops |-> <<PointsAt(s, at + 3, s[at + 3])>>],
             at |-> at + 3 + 2 * s[at + 3]]
    BY <2>2 DEF DecodeGeographyData
  <2>5. [shape |-> "LineString", loops |-> <<PointsAt(s, at + 3, s[at + 3])>>] = v
    BY <1>1, <1>2, <2>2, <2>3
  <2>6. at + 3 + 2 * s[at + 3] = at + Len(w)
    BY <1>6, <1>7, <2>2
  <2> QED
    BY <2>4, <2>5, <2>6
<1> QED
  BY <1>7, <1>8 DEF ShapeRead, w

LEMMA PolygonShapeRead ==
  ASSUME NEW v \in Shapes, v.shape = "Polygon"
  PROVE  ShapeRead(v)
<1> DEFINE ls == v.loops
           n == Len(ls)
           pts == FlattenSeq(ls)
           count == <<8, "srid", n>>
           starts == [i \in 1 .. n + 1 |-> LoopStart(ls, i - 1)]
           head == count \o starts
           w == ShapeStream(v)
<1>1. /\ v = [shape |-> "Polygon", loops |-> ls] /\ IP!Pieces(ls) /\ pts \in Seq(Points) /\ ls \in Seq(Loops)
  BY ShapeFacts
<1>2. n \in Nat /\ \A i \in 1 .. n : Len(ls[i]) \in Nat \ {0}
  BY <1>1 DEF Loops
<1>3. w = (count \o starts) \o Coordinates(pts)
  BY <1>1 DEF ShapeStream
<1>4. LoopsLaid(ls)
  BY <1>1, LoopsFollow
<1>5. IP!IsSeq(count) /\ Len(count) = 3 /\ count[1] = 8 /\ count[3] = n
  BY DEF IP!IsSeq
<1>6. IP!IsSeq(starts) /\ Len(starts) = n + 1
  <2>1. starts = [i \in 1 .. n + 1 |-> starts[i]] /\ n + 1 \in Nat
    BY <1>2
  <2> HIDE DEF starts
  <2> QED
    BY <2>1, IP!SequenceOf, Zenon
<1>7. \A i \in 0 .. n : starts[i + 1] = LoopStart(ls, i)
  <2>1. \A i \in 0 .. n : i + 1 \in 1 .. n + 1 /\ (i + 1) - 1 = i
    BY <1>2
  <2> QED
    BY <2>1
<1> HIDE DEF count, starts, w, ls, pts
<1>8. IP!IsSeq(head) /\ Len(head) = 4 + n
  <2>1. IP!IsSeq(head) /\ Len(head) = Len(count) + Len(starts)
    BY <1>5, <1>6, IP!Concatenated
  <2> QED
    BY <1>2, <1>5, <1>6, <2>1
<1>9. HeadAndPoints(w, head, pts)
  <2>1. w = head \o Coordinates(pts)
    BY <1>3
  <2> HIDE DEF head
  <2> QED
    BY <1>1, <1>8, <2>1, HeadRead
<1>10. IP!IsSeq(w) /\ Len(w) = (4 + n) + 2 * Len(pts)
  BY <1>8, <1>9 DEF HeadAndPoints
<1>11. Len(pts) = LoopStart(ls, n)
  BY <1>4 DEF LoopsLaid, pts
<1>12. ASSUME NEW s, NEW at \in Nat, IP!Holds(s, at, w)
       PROVE  DecodeGeographyData(s, at) = [got |-> v, at |-> at + Len(w)]
  <2> DEFINE coords == at + 4 + n
             loop(i) == PointsAt(s, coords + 2 * s[at + 4 + (i - 1)], s[at + 4 + i] - s[at + 4 + (i - 1)])
             kept(i) == IF s[at + 4 + (i - 1)] < s[at + 4 + i] THEN <<loop(i)>> ELSE <<>>
  <2>1. IP!Holds(s, at, head) /\ IP!Holds(s, coords, Coordinates(pts)) /\ coords \in Nat
    <3>1. IP!Holds(s, at, head) /\ IP!Holds(s, at + Len(head), Coordinates(pts)) /\ at + Len(head) \in Nat
      BY <1>9, <1>12 DEF HeadAndPoints
    <3>2. at + Len(head) = coords
      BY <1>2, <1>8
    <3> QED
      BY <3>1, <3>2
  <2>2. IP!Holds(s, at, count) /\ IP!Holds(s, at + 3, starts)
    <3>1. IP!HoldsBehind(s, at, count, starts)
      BY <1>5, <1>6, <2>1, IP!HoldsBoth, Zenon
    <3> QED
      BY <1>5, <3>1 DEF IP!HoldsBehind
  <2>3. s[at + 1] = 8 /\ s[at + 3] = n
    BY <1>5, <2>2 DEF IP!Holds
  <2>4. ASSUME NEW i \in 0 .. n PROVE s[at + 4 + i] = LoopStart(ls, i)
    <3>1. i + 1 \in 1 .. Len(starts) /\ (at + 3) + (i + 1) = at + 4 + i
      BY <1>2, <1>6
    <3>2. s[(at + 3) + (i + 1)] = starts[i + 1]
      BY <2>2, <3>1 DEF IP!Holds
    <3> QED
      BY <1>7, <3>1, <3>2
  <2>5. ASSUME NEW i \in 1 .. n PROVE kept(i) = <<ls[i]>>
    <3>1. i - 1 \in 0 .. n /\ i \in 0 .. n
      BY <1>2
    <3>2. s[at + 4 + (i - 1)] = LoopStart(ls, i - 1) /\ s[at + 4 + i] = LoopStart(ls, i)
      BY <2>4, <3>1
    <3>3. /\ LoopStart(ls, i - 1) \in Nat /\ Len(ls[i]) \in Nat \ {0}
          /\ LoopStart(ls, i) = LoopStart(ls, i - 1) + Len(ls[i])
      BY <1>2, <1>4, <3>1 DEF LoopsLaid
    <3>4. PointsAt(s, coords + 2 * LoopStart(ls, i - 1), Len(ls[i])) = ls[i]
      <4> HIDE DEF coords
      <4>1. Len(ls[i]) # 0 /\ pts = FlattenSeq(ls)
        BY <3>3 DEF pts
      <4> QED
        BY <1>1, <2>1, <4>1, LoopRead
    <3>5. LoopStart(ls, i) - LoopStart(ls, i - 1) = Len(ls[i]) /\ LoopStart(ls, i - 1) < LoopStart(ls, i)
      BY <3>3
    <3> QED
      BY <3>2, <3>4, <3>5
  <2>6. DecodeGeographyData(s, at)
          = [got |-> [shape |-> "Polygon", loops |-> FlattenSeq([i \in 1 .. n |-> kept(i)])],
             at |-> coords + 2 * s[at + 4 + n]]
    BY <2>3 DEF DecodeGeographyData
  <2>7. FlattenSeq([i \in 1 .. n |-> kept(i)]) = ls
    <3>1. [i \in 1 .. n |-> kept(i)] = [i \in 1 .. n |-> <<ls[i]>>]
      BY <2>5
    <3>2. IP!IsSeq(ls)
      BY <1>1 DEF IP!Pieces
    <3> HIDE DEF kept
    <3> QED
      BY <3>1, <3>2, FlattenSingletons
  <2>8. coords + 2 * s[at + 4 + n] = at + Len(w)
    <3>1. n \in 0 .. n /\ LoopStart(ls, n) \in Nat
      BY <1>2, <1>4 DEF LoopsLaid
    <3>2. s[at + 4 + n] = Len(pts) /\ Len(pts) \in Nat
      BY <1>11, <2>4, <3>1
    <3> QED
      BY <1>2, <1>10, <3>2
  <2> HIDE DEF kept, coords
  <2> QED
    BY <1>1, <2>6, <2>7, <2>8
<1> QED
  BY <1>10, <1>12 DEF ShapeRead, w

LEMMA ShapesRead ==
  ASSUME NEW v \in Shapes
  PROVE  ShapeRead(v)
BY ShapeFacts, PointShapeRead, LineShapeRead, PolygonShapeRead

LEMMA ShapeStreamRead ==
  ASSUME NEW u, u.code = "Geography", NEW v \in PlainValues(u), NEW ctx
  PROVE  IP!PartReadBack(ctx, u, v)
<1>1. u.code \notin BasicTypes /\ u.code \notin Strings
  BY DEF Strings, BasicTypes, SizeMap
<1>2. v \in Shapes
  BY <1>1 DEF PlainValues
<1>3. PlainStream(u, v) = ShapeStream(v)
  BY <1>1 DEF PlainStream
<1>4. \A s : \A at \in Nat : DecodePlain(ctx, s, at, u.code) = DecodeGeographyData(s, at)
  BY <1>1 DEF DecodePlain
<1> QED
  BY <1>2, <1>3, <1>4, ShapesRead DEF ShapeRead, IP!PartReadBack

LEMMA PlainTexts == IP!TextParts
<1>1. IP!Of("String").code = "String" /\ "String" \in Strings /\ "String" \notin BasicTypes
  BY DEF IP!Of, Strings, BasicTypes, SizeMap
<1>2. PlainType(IP!Of("String"))
  BY <1>1 DEF PlainType
<1>3. PlainValues(IP!Of("String")) = {[string |-> x] : x \in Texts}
  BY <1>1 DEF PlainValues, Strings
<1> QED
  BY <1>2, <1>3 DEF IP!TextParts

LEMMA PlainStreamsRead ==
  ASSUME NEW ctx
  PROVE  IP!StreamsAssumed(ctx)
<1>1. IP!NullReadBack(ctx)
  <2>1. "Unknown" \notin BasicTypes /\ "Unknown" \notin Strings
    BY DEF Strings, BasicTypes, SizeMap
  <2> QED
    BY <2>1, SameToolkit DEF IP!NullReadBack, DecodePlain
<1>2. ASSUME NEW u, PlainType(u), NEW v \in PlainValues(u) PROVE IP!PartReadBack(ctx, u, v)
  <2>1. CASE u.code \in ExactTypes
    <3>1. v \in ExactSamples(u.code)
      BY <2>1 DEF PlainValues, ExactTypes, Strings, BasicTypes, SizeMap
    <3> QED
      BY <2>1, <3>1, BasicStreamRead
  <2>2. CASE u.code \in Strings
    BY <2>2, TextStreamRead
  <2>3. CASE u.code = "Vector"
    BY <1>2, <2>3, VectorStreamRead, PlainKinds
  <2>4. CASE u.code = "Geography"
    BY <2>4, ShapeStreamRead
  <2> QED
    BY <1>2, <2>1, <2>2, <2>3, <2>4, PlainKinds
<1> QED
  BY <1>1, <1>2, PlainTexts DEF IP!StreamsAssumed

-----------------------------------------------------------------------------
(* Long data in two chunks: each piece is found where its cell says.       *)
LEMMA ChunkRead ==
  ASSUME NEW pieces, IP!Pieces(pieces), NEW i \in 1 .. Len(pieces), NEW chunks, chunks = Chunks(pieces)
  PROVE  LET cell == ChunkAt(pieces, i)
             data == chunks[cell.chunk + 1].data
         IN /\ cell.chunk \in {0, 1} /\ cell.at \in Nat
            /\ IP!Holds(data, cell.at, pieces[i])
<1> DEFINE k == i % 2
           turn == Turn(pieces, k)
           n == Len(pieces)
<1>1. n \in Nat /\ DOMAIN pieces = 1 .. n /\ k \in {0, 1} /\ i - 1 \in 0 .. n
  BY DEF IP!Pieces, IP!IsSeq
<1>2. turn = [j \in 1 .. n |-> IF j % 2 = k THEN pieces[j] ELSE <<>>]
  BY <1>1 DEF Turn
<1>3. IP!IsSeq(turn) /\ Len(turn) = n
  <2>1. turn = [j \in 1 .. n |-> turn[j]]
    BY <1>2
  <2> HIDE DEF turn
  <2> QED
    BY <1>1, <2>1, IP!SequenceOf, Zenon
<1>4. turn[i] = pieces[i]
  BY <1>2
<1>5. IP!Pieces(turn)
  <2>1. \A j \in 1 .. n : turn[j] = pieces[j] \/ turn[j] = <<>>
    BY <1>2
  <2>2. \A j \in 1 .. n : IP!IsSeq(pieces[j])
    BY DEF IP!Pieces
  <2> HIDE DEF turn
  <2> QED
    BY <1>3, <2>1, <2>2, IP!EmptySequence DEF IP!Pieces
<1>6. ChunkAt(pieces, i) = [chunk |-> k, at |-> Len(FlattenSeq(SubSeq(turn, 1, i - 1)))]
  BY DEF ChunkAt
<1>7. chunks[k + 1].data = FlattenSeq(turn)
  <2>1. CASE k = 0
    BY <2>1 DEF Chunks, Data
  <2>2. CASE k = 1
    BY <2>2 DEF Chunks, Data
  <2> QED
    BY <1>1, <2>1, <2>2
<1> HIDE DEF turn, k
<1>8. IP!Upto(turn, i - 1) = Len(FlattenSeq(SubSeq(turn, 1, i - 1)))
  BY SameToolkit, Zenon DEF IP!Upto
<1>9. FlattenSeq(turn) = IP!FlattenSeq(turn)
  BY SameToolkit
<1>10. IP!Upto(turn, i - 1) \in Nat
  BY <1>1, <1>3, <1>5, IP!Flattened
<1>11. \A j \in 1 .. Len(turn[i]) : IP!FlattenSeq(turn)[IP!Upto(turn, i - 1) + j] = turn[i][j]
  BY <1>3, <1>5, IP!Flattened
<1>12. IP!Holds(IP!FlattenSeq(turn), IP!Upto(turn, i - 1), turn[i])
  BY <1>11 DEF IP!Holds
<1> QED
  BY <1>1, <1>4, <1>6, <1>7, <1>8, <1>9, <1>10, <1>12

(* Columns of values without parts.                                        *)
PlainBack(ctx, u, vs, order) ==
  \A i \in 1 .. Len(vs) : vs[i] # Null =>
    DecodePlainFlat(ctx, PlainFlat(u, vs, order), i - 1, PlainSchemaOf(u)) = vs[i]

LEMMA ItemsAre ==
  ASSUME NEW u, NEW vs, IP!ItemsIn(u, vs)
  PROVE  /\ IP!IsSeq(vs) /\ Len(vs) \in Nat /\ DOMAIN vs = 1 .. Len(vs)
         /\ \A i \in 1 .. Len(vs) : vs[i] # Null => vs[i] \in PlainValues(u)
         /\ \A i \in 1 .. Len(vs) : (i - 1) + 1 = i
<1>1. IP!IsSeq(vs) /\ \A i \in 1 .. Len(vs) : vs[i] \in PlainValues(u) \cup {Null}
  BY SameToolkit DEF IP!ItemsIn, IP!PartOrNull
<1> QED
  BY <1>1 DEF IP!IsSeq

LEMMA BasicFlatBack ==
  ASSUME NEW ctx, NEW u, u.code \in ExactTypes, NEW vs, IP!ItemsIn(u, vs), NEW order
  PROVE  PlainBack(ctx, u, vs, order)
<1>1. /\ u.code \in BasicTypes /\ u.code \notin Strings /\ u.code # "Vector" /\ u.code # "Geography"
  BY DEF ExactTypes, BasicTypes, SizeMap, Strings
<1>2. PlainFlat(u, vs, order).data = [i \in DOMAIN vs |-> EncodeBasic(u.code, vs[i])]
  BY <1>1 DEF PlainFlat
<1>3. PlainSchemaOf(u).code = u.code
  BY <1>1 DEF PlainSchemaOf, Of
<1>4. ASSUME NEW i \in 1 .. Len(vs), vs[i] # Null
      PROVE  DecodePlainFlat(ctx, PlainFlat(u, vs, order), i - 1, PlainSchemaOf(u)) = vs[i]
  <2>1. vs[i] \in ExactSamples(u.code)
    <3>1. PlainValues(u) = ExactSamples(u.code)
      BY <1>1 DEF PlainValues
    <3> QED
      BY <1>4, <3>1, ItemsAre
  <2>2. PlainFlat(u, vs, order).data[(i - 1) + 1] = EncodeBasic(u.code, vs[i])
    BY <1>2, ItemsAre
  <2>3. DecodePlainFlat(ctx, PlainFlat(u, vs, order), i - 1, PlainSchemaOf(u))
          = DecodeBasicValue(PlainFlat(u, vs, order).data[(i - 1) + 1], u.code, ctx)
    BY <1>1, <1>3 DEF DecodePlainFlat
  <2>4. DecodeBasicValue(EncodeBasic(u.code, vs[i]), u.code, ctx) = vs[i]
    BY <2>1, BasicRead
  <2> QED
    BY <2>2, <2>3, <2>4, Zenon
<1> QED
  BY <1>4 DEF PlainBack

(* A slice is the text that is there.                                      *)
LEMMA SliceHeld ==
  ASSUME NEW x, x \in Seq(STRING), NEW s, NEW at \in Nat, IP!Holds(s, at, x)
  PROVE  SubSeq(s, at + 1, at + Len(x)) = x
<1> DEFINE n == Len(x)
<1>1. n \in Nat /\ \A k \in 1 .. n : s[at + k] = x[k] /\ x[k] \in STRING
  BY DEF IP!Holds
<1>2. ASSUME NEW k \in at + 1 .. at + n PROVE s[k] \in STRING
  <2>1. k - at \in 1 .. n /\ at + (k - at) = k
    BY <1>1
  <2> QED
    BY <1>1, <2>1
<1> DEFINE y == SubSeq(s, at + 1, at + n)
<1>3. /\ y \in Seq(STRING) /\ Len(y) = (IF at + 1 <= at + n THEN (at + n) - (at + 1) + 1 ELSE 0)
      /\ \A k \in 1 .. (at + n) - (at + 1) + 1 : y[k] = s[(at + 1) + k - 1]
  BY <1>1, <1>2, SubSeqProperties
<1>4. (at + n) - (at + 1) + 1 = n /\ Len(y) = n /\ \A k \in 1 .. n : (at + 1) + k - 1 = at + k
  BY <1>1, <1>3
<1> HIDE DEF y
<1>5. \A k \in 1 .. Len(y) : y[k] = x[k]
  BY <1>1, <1>3, <1>4
<1>6. y = x
  BY <1>3, <1>4, <1>5, SeqEqual
<1> QED
  BY <1>6 DEF y

LEMMA TextFlatBack ==
  ASSUME NEW ctx, NEW u, u.code \in Strings, NEW vs, IP!ItemsIn(u, vs), NEW order
  PROVE  PlainBack(ctx, u, vs, order)
<1> DEFINE n == Len(vs)
           text == [i \in DOMAIN vs |-> IF vs[i] = Null THEN <<>> ELSE vs[i].string]
           long == [i \in DOMAIN vs |-> IF Len(text[i]) > InlineMax THEN text[i] ELSE <<>>]
           vector == PlainFlat(u, vs, order)
<1>1. /\ u.code \notin BasicTypes /\ u.code # "Vector" /\ u.code # "Geography"
  BY DEF BasicTypes, SizeMap, Strings
<1>2. /\ vector.data = [i \in DOMAIN vs |-> [len |-> Len(text[i]), inline |-> text[i], long |-> ChunkAt(long, i)]]
      /\ vector.nested = Chunks(long)
  BY <1>1 DEF PlainFlat
<1>3. PlainSchemaOf(u).code = u.code
  BY <1>1 DEF PlainSchemaOf, Of
<1>4. n \in Nat /\ DOMAIN vs = 1 .. n
  BY ItemsAre
<1>5. ASSUME NEW i \in 1 .. n
      PROVE  text[i] \in Seq(STRING) /\ (vs[i] # Null => vs[i] = [string |-> text[i]])
  <2>1. CASE vs[i] = Null
    BY <1>4, <2>1
  <2>2. CASE vs[i] # Null
    <3>1. vs[i] \in PlainValues(u)
      BY <2>2, ItemsAre
    <3>2. PlainValues(u) = {[string |-> x] : x \in Texts}
      BY <1>1 DEF PlainValues
    <3>3. PICK x \in Texts : vs[i] = [string |-> x]
      BY <3>1, <3>2
    <3>4. text[i] = x
      BY <1>4, <2>2, <3>3
    <3> QED
      BY <3>3, <3>4, TextsAssumption
  <2> QED
    BY <2>1, <2>2
<1> HIDE DEF vector, text
<1>6. \A i \in 1 .. n : long[i] = IF Len(text[i]) > InlineMax THEN text[i] ELSE <<>>
  BY <1>4
<1>7. IP!Pieces(long)
  <2>1. IP!IsSeq(long) /\ Len(long) = n
    <3>1. long = [i \in 1 .. n |-> long[i]]
      BY <1>4
    <3> HIDE DEF long
    <3> QED
      BY <1>4, <3>1, IP!SequenceOf, Zenon
  <2>2. \A i \in 1 .. n : IP!IsSeq(text[i])
    BY <1>5, IP!IsSequence
  <2> HIDE DEF long
  <2> QED
    BY <1>6, <2>1, <2>2, IP!EmptySequence DEF IP!Pieces
<1>8. Len(long) = n
  <2>1. long = [i \in 1 .. n |-> long[i]]
    BY <1>4
  <2> HIDE DEF long
  <2> QED
    BY <1>4, <2>1, IP!SequenceOf, Zenon
<1> HIDE DEF long
<1>9. ASSUME NEW i \in 1 .. n, vs[i] # Null
      PROVE  DecodeChunkedString(vector, i - 1) = vs[i]
  <2> DEFINE x == text[i]
             cell == vector.data[(i - 1) + 1]
             chunk == vector.nested[cell.long.chunk + 1].data
  <2>1. cell = [len |-> Len(x), inline |-> x, long |-> ChunkAt(long, i)]
    BY <1>2, <1>4
  <2>2. x \in Seq(STRING) /\ vs[i] = [string |-> x]
    BY <1>5, <1>9
  <2>3. CASE Len(x) <= InlineMax
    <3>1. SubSeq(x, 1, Len(x)) = x
      <4>1. IP!Holds(x, 0, x)
        BY <2>2 DEF IP!Holds
      <4>2. SubSeq(x, 0 + 1, 0 + Len(x)) = x
        BY <2>2, <4>1, SliceHeld
      <4> QED
        BY <2>2, <4>2
    <3>2. cell.len = Len(x) /\ cell.inline = x
      BY <2>1
    <3> HIDE DEF x, cell
    <3>3. DecodeChunkedString(vector, i - 1) = [string |-> SubSeq(cell.inline, 1, cell.len)]
      BY <2>3, <3>2 DEF DecodeChunkedString, cell
    <3> QED
      BY <2>2, <3>1, <3>2, <3>3
  <2>4. CASE ~(Len(x) <= InlineMax)
    <3> DEFINE at == cell.long.at
    <3>1. cell.len = Len(x) /\ cell.long = ChunkAt(long, i)
      BY <2>1
    <3>2. long[i] = x
      <4>1. Len(x) > InlineMax
        BY <2>2, <2>4, ItemsAssumption
      <4> QED
        BY <1>6, <4>1
    <3>3. at \in Nat /\ IP!Holds(chunk, at, x)
      BY <1>2, <1>7, <1>8, <3>1, <3>2, ChunkRead
    <3> HIDE DEF x, cell, chunk, at
    <3>4. SubSeq(chunk, at + 1, at + Len(x)) = x
      BY <2>2, <3>3, SliceHeld
    <3>5. DecodeChunkedString(vector, i - 1) = [string |-> SubSeq(chunk, at + 1, at + cell.len)]
      BY <2>4, <3>1 DEF DecodeChunkedString, cell, chunk, at
    <3> QED
      BY <2>2, <3>1, <3>4, <3>5
  <2> QED
    BY <2>3, <2>4
<1>10. \A i : DecodePlainFlat(ctx, vector, i, PlainSchemaOf(u)) = DecodeChunkedString(vector, i)
  BY <1>1, <1>3 DEF DecodePlainFlat, Strings
<1> QED
  BY <1>9, <1>10 DEF PlainBack, vector

LEMMA ShapeFlatBack ==
  ASSUME NEW ctx, NEW u, u.code = "Geography", NEW vs, IP!ItemsIn(u, vs), NEW order
  PROVE  PlainBack(ctx, u, vs, order)
<1> DEFINE n == Len(vs)
           shapes == [i \in DOMAIN vs |-> IF vs[i] = Null THEN <<>> ELSE ShapeStream(vs[i])]
           vector == PlainFlat(u, vs, order)
<1>1. u.code \notin BasicTypes /\ u.code \notin Strings
  BY DEF BasicTypes, SizeMap, Strings
<1>2. vector.data = [i \in DOMAIN vs |-> ChunkAt(shapes, i)] /\ vector.nested = Chunks(shapes)
  BY <1>1 DEF PlainFlat
<1>3. PlainSchemaOf(u).code = u.code
  BY DEF PlainSchemaOf, Of
<1>4. n \in Nat /\ DOMAIN vs = 1 .. n
  BY ItemsAre
<1>5. \A i \in 1 .. n : vs[i] # Null => vs[i] \in Shapes
  <2>1. PlainValues(u) = Shapes
    BY <1>1 DEF PlainValues
  <2> QED
    BY <2>1, ItemsAre
<1>6. \A i \in 1 .. n : shapes[i] = IF vs[i] = Null THEN <<>> ELSE ShapeStream(vs[i])
  BY <1>4
<1>7. IP!IsSeq(shapes) /\ Len(shapes) = n
  <2>1. shapes = [i \in 1 .. n |-> shapes[i]]
    BY <1>4
  <2> HIDE DEF shapes
  <2> QED
    BY <1>4, <2>1, IP!SequenceOf, Zenon
<1> HIDE DEF vector, shapes
<1>8. IP!Pieces(shapes)
  <2>1. \A i \in 1 .. n : vs[i] # Null => IP!IsSeq(ShapeStream(vs[i]))
    BY <1>5, ShapesRead DEF ShapeRead
  <2> QED
    BY <1>6, <1>7, <2>1, IP!EmptySequence DEF IP!Pieces
<1>9. ASSUME NEW i \in 1 .. n, vs[i] # Null
      PROVE  DecodePlainFlat(ctx, vector, i - 1, PlainSchemaOf(u)) = vs[i]
  <2> DEFINE cell == vector.data[(i - 1) + 1]
             chunk == vector.nested[cell.chunk + 1].data
  <2>1. cell = ChunkAt(shapes, i)
    BY <1>2, <1>4
  <2>2. cell.at \in Nat /\ IP!Holds(chunk, cell.at, shapes[i])
    BY <1>2, <1>7, <1>8, <2>1, ChunkRead
  <2>3. shapes[i] = ShapeStream(vs[i]) /\ ShapeRead(vs[i])
    BY <1>5, <1>6, <1>9, ShapesRead
  <2>4. DecodePlainFlat(ctx, vector, i - 1, PlainSchemaOf(u)) = DecodeGeographyData(chunk, cell.at).got
    BY <1>1, <1>3 DEF DecodePlainFlat
  <2> HIDE DEF chunk, cell
  <2>5. DecodeGeographyData(chunk, cell.at).got = vs[i]
    BY <2>2, <2>3 DEF ShapeRead
  <2> QED
    BY <2>4, <2>5
<1> QED
  BY <1>9 DEF PlainBack, vector
(* Row and column of a cell of a matrix laid out row by row.               *)
LEMMA CellNumber ==
  ASSUME NEW d \in Nat \ {0}, NEW i \in Int, NEW k \in 1 .. d
  PROVE  /\ ((((i - 1) * d + k) - 1) \div d) + 1 = i
         /\ ((((i - 1) * d + k) - 1) % d) + 1 = k
<1>1. PICK q \in Int : q = i - 1 /\ q + 1 = i
  OBVIOUS
<1>2. PICK r \in 0 .. d - 1 : r = k - 1 /\ r + 1 = k
  OBVIOUS
<1>3. PICK a \in Int : a = q * d
  OBVIOUS
<1>4. (a + k) - 1 = a + r
  BY <1>2, <1>3
<1>5. (a + r) \div d = q /\ (a + r) % d = r
  BY <1>3, DivisionUnique
<1> QED
  BY <1>1, <1>2, <1>3, <1>4, <1>5

LEMMA VectorFlatBack ==
  ASSUME NEW ctx, NEW u, u.code = "Vector", u.dim \in Nat, NEW vs, IP!ItemsIn(u, vs), NEW order
  PROVE  PlainBack(ctx, u, vs, order)
<1> DEFINE n == Len(vs)
           d == u.dim
           vector == PlainFlat(u, vs, order)
           float(v, j) == IF v = Null THEN 0 ELSE v.floats[j]
<1>1. u.code \notin BasicTypes /\ u.code \notin Strings
  BY DEF BasicTypes, SizeMap, Strings
<1>2. vector.data = [j \in 1 .. n * d |-> float(vs[((j - 1) \div d) + 1], ((j - 1) % d) + 1)]
  BY <1>1 DEF PlainFlat
<1>3. PlainSchemaOf(u) = [code |-> "Vector", dim |-> d]
  BY DEF PlainSchemaOf
<1>4. n \in Nat /\ DOMAIN vs = 1 .. n
  BY ItemsAre
<1> HIDE DEF vector
<1>5. ASSUME NEW i \in 1 .. n, vs[i] # Null
      PROVE  DecodePlainFlat(ctx, vector, i - 1, PlainSchemaOf(u)) = vs[i]
  <2>1. PICK x \in [1 .. d -> {"f", "g"}] : vs[i] = [floats |-> x]
    <3>1. PlainValues(u) = {[floats |-> x] : x \in [1 .. d -> {"f", "g"}]}
      BY <1>1 DEF PlainValues
    <3>2. vs[i] \in PlainValues(u)
      BY <1>5, ItemsAre
    <3> QED
      BY <3>1, <3>2
  <2>2. ASSUME NEW k \in 1 .. d PROVE vector.data[(i - 1) * d + k] = x[k]
    <3> DEFINE j == (i - 1) * d + k
    <3>1. d \in Nat \ {0} /\ i - 1 \in 0 .. n - 1 /\ k - 1 \in 0 .. d - 1
      BY <1>4
    <3>2. (i - 1) * d \in Nat /\ (i - 1) * d + d <= n * d
      <4>1. (i - 1) * d + d = i * d
        BY <3>1
      <4>2. i * d <= n * d
        BY <1>4, <3>1
      <4> QED
        BY <3>1, <4>1, <4>2
    <3>3. j \in 1 .. n * d /\ j - 1 = (i - 1) * d + (k - 1)
      <4> DEFINE a == (i - 1) * d
                 b == n * d
      <4>1. a \in Nat /\ a + d <= b /\ b \in Int
        BY <1>4, <3>2
      <4> HIDE DEF a, b
      <4>2. a + k \in 1 .. b /\ (a + k) - 1 = a + (k - 1)
        BY <3>1, <4>1
      <4> QED
        BY <4>2 DEF a, b
    <3>4. ((j - 1) \div d) + 1 = i /\ ((j - 1) % d) + 1 = k
      <4>1. i \in Int /\ k \in 1 .. d
        BY <1>4
      <4> HIDE DEF d
      <4>2. /\ ((((i - 1) * d + k) - 1) \div d) + 1 = i
            /\ ((((i - 1) * d + k) - 1) % d) + 1 = k
        BY <3>1, <4>1, CellNumber
      <4> QED
        BY <4>2
    <3> HIDE DEF j
    <3>5. vector.data[j] = float(vs[i], k)
      BY <1>2, <3>3, <3>4
    <3> QED
      BY <1>5, <2>1, <3>5 DEF j
  <2>3. DecodePlainFlat(ctx, vector, i - 1, PlainSchemaOf(u))
          = [floats |-> [k \in 1 .. d |-> vector.data[(i - 1) * d + k]]]
    BY <1>1, <1>3 DEF DecodePlainFlat, Strings
  <2>4. [k \in 1 .. d |-> vector.data[(i - 1) * d + k]] = x
    BY <2>2
  <2> QED
    BY <2>1, <2>3, <2>4
<1> QED
  BY <1>5 DEF PlainBack, vector

LEMMA PlainFlatsShown ==
  ASSUME NEW ctx
  PROVE  IP!FlatsAssumed(ctx)
<1>1. \A v \in PlainValues(IP!Of("String")) : \A d : PlainShows(d, v, IP!Of("String")) => d = v
  BY DEF PlainShows
<1>2. \A u : PlainShows(IP!Null, IP!Null, u)
  BY DEF PlainShows
<1>3. \A u : PlainType(u) => PlainSchemaOf(u).code = u.code
  BY DEF PlainSchemaOf, Of
<1>4. ASSUME NEW u, PlainType(u), NEW vs, IP!ItemsIn(u, vs), NEW order
      PROVE  IP!PartFlatBack(ctx, u, vs, order)
  <2>1. PlainBack(ctx, u, vs, order)
    <3>1. CASE u.code \in ExactTypes
      BY <1>4, <3>1, BasicFlatBack
    <3>2. CASE u.code \in Strings
      BY <1>4, <3>2, TextFlatBack
    <3>3. CASE u.code = "Vector"
      BY <1>4, <3>3, VectorFlatBack, PlainKinds
    <3>4. CASE u.code = "Geography"
      BY <1>4, <3>4, ShapeFlatBack
    <3> QED
      BY <1>4, <3>1, <3>2, <3>3, <3>4, PlainKinds
  <2>2. PlainFlat(u, vs, order).nulls = NullBits(vs)
    <3>1. u.code \in BasicTypes \/ u.code \in Strings \/ u.code = "Vector" \/ u.code = "Geography"
      BY <1>4, PlainKinds DEF ExactTypes
    <3>2. /\ u.code \in BasicTypes => u.code \notin Strings /\ u.code # "Vector" /\ u.code # "Geography"
          /\ "Vector" \notin Strings /\ "Geography" \notin Strings
      BY DEF BasicTypes, SizeMap, Strings
    <3> QED
      BY <3>1, <3>2 DEF PlainFlat
  <2> QED
    BY <2>1, <2>2, SameToolkit DEF IP!PartFlatBack, PlainBack, PlainShows
<1> QED
  BY <1>1, <1>2, <1>3, <1>4, PlainTexts DEF IP!FlatsAssumed

-----------------------------------------------------------------------------
(* One level up: the parts of a column's type are Inner types.             *)
LEMMA SameLevels ==
  /\ \A s : OP!IsSeq(s) <=> IP!IsSeq(s)
  /\ \A s, at, w : OP!Holds(s, at, w) <=> IP!Holds(s, at, w)
  /\ \A w, x : OP!Starts(w, x) <=> IP!Starts(w, x)
  /\ \A vs : OP!NullBits(vs) = NullBits(vs)
  /\ OP!Null = Null /\ \A code : OP!Of(code) = Of(code)
  /\ OP!Lists = Lists /\ OP!Elements = Elements
<1>1. \A s : OP!IsSeq(s) <=> IP!IsSeq(s)
  BY DEF OP!IsSeq, IP!IsSeq
<1>2. \A s, at, w : OP!Holds(s, at, w) <=> IP!Holds(s, at, w)
  BY DEF OP!Holds, IP!Holds
<1>3. \A w, x : OP!Starts(w, x) <=> IP!Starts(w, x)
  BY <1>1 DEF OP!Starts, IP!Starts
<1>4. OP!Null = Null /\ \A code : OP!Of(code) = Of(code)
  BY DEF OP!Null, Null, OP!Of, Of
<1>5. \A vs : OP!NullBits(vs) = NullBits(vs)
  BY <1>4 DEF OP!NullBits, NullBits
<1> QED
  BY <1>1, <1>2, <1>3, <1>4, <1>5 DEF OP!Lists, Lists, OP!Elements, Elements

LEMMA InnerBounds == IP!BoundsAssumed /\ OP!BoundsAssumed
<1>1. IsFiniteSet(Texts) => IP!IsFiniteSet(Texts) /\ OP!IsFiniteSet(Texts)
  BY DEF IsFiniteSet, IP!IsFiniteSet, OP!IsFiniteSet
<1> QED
  BY <1>1, TextsAssumption, ItemsAssumption DEF IP!BoundsAssumed, OP!BoundsAssumed

LEMMA TextIsInner ==
  /\ Inner!Type(Of("String")) /\ Inner!Values(Of("String")) = {[string |-> x] : x \in Texts}
<1> DEFINE u == Of("String")
<1>1. u.code = "String" /\ u.code \notin Lists /\ u.code \notin Elements /\ u.code \notin BasicTypes
  BY DEF Of, Lists, Elements, BasicTypes, SizeMap
<1>2. PlainType(u)
  BY <1>1 DEF PlainType, Strings
<1>3. PlainValues(u) = {[string |-> x] : x \in Texts}
  BY <1>1 DEF PlainValues, Strings
<1>4. Inner!Lists = Lists /\ Inner!Elements = Elements
  BY DEF Inner!Lists, Lists, Inner!Elements, Elements
<1> HIDE DEF u
<1>5. Inner!Type(u)
  BY <1>1, <1>2, <1>4 DEF Inner!Type
<1>6. Inner!Values(u) = PlainValues(u)
  BY <1>1, <1>4 DEF Inner!Values
<1> QED
  BY <1>3, <1>5, <1>6 DEF u

LEMMA InnerTypesParsed == OP!TypesAssumed
<1>1. Inner!Type(OP!Of("String"))
  BY TextIsInner, SameLevels
<1>2. ASSUME NEW u, Inner!Type(u) PROVE OP!PartParsed(u)
  <2>1. IP!Type(u)
    BY <1>2, IPType
  <2>2. IP!Parsed(u)
    BY <2>1, PlainTypesParsed, IP!TypesParsed, Zenon
  <2>3. IP!TypeStream(u) = Inner!TypeStream(u)
    BY IPTypeStream
  <2>4. \A s, at : IP!NewTypeSchema(s, at) = InnerDecode!NewTypeSchema(s, at)
    BY IPNewTypeSchema
  <2> QED
    BY <2>2, <2>3, <2>4, SameLevels DEF IP!Parsed, OP!PartParsed
<1> QED
  BY <1>1, <1>2 DEF OP!TypesAssumed

LEMMA InnerStreamsRead ==
  ASSUME NEW ctx
  PROVE  OP!StreamsAssumed(ctx)
<1>1. IP!StreamsAssumed(ctx)
  BY PlainStreamsRead
<1>2. \A s, at, code : IP!DecodeAnyCompositeValue(ctx, s, at, code) = InnerDecode!DecodeAnyCompositeValue(ctx, s, at, code)
  BY IPDecodeAnyCompositeValue
<1>3. OP!NullReadBack(ctx)
  <2>1. IP!NullReadBack(ctx)
    BY <1>1 DEF IP!StreamsAssumed
  <2>2. \A s : \A at \in Nat : IP!DecodeAnyCompositeValue(ctx, s, at, "Unknown") = [got |-> IP!Null, at |-> at]
    BY <2>1, IP!NullRead
  <2>3. IP!Null = OP!Null
    BY DEF IP!Null, OP!Null
  <2> QED
    BY <1>2, <2>2, <2>3 DEF OP!NullReadBack
<1>4. OP!TextParts
  BY TextIsInner, SameLevels DEF OP!TextParts
<1>5. ASSUME NEW u, Inner!Type(u), NEW v \in Inner!Values(u) PROVE OP!PartReadBack(ctx, u, v)
  <2>1. IP!Type(u) /\ v \in IP!Values(u)
    BY <1>5, IPType, IPValues
  <2>2. IP!ReadBack(ctx, u, v)
    BY <1>1, <2>1, InnerBounds, IP!ValuesRead, Zenon
  <2>3. IP!Stream(u, v) = Inner!Stream(u, v)
    BY IPStream
  <2> QED
    BY <1>2, <2>2, <2>3, SameLevels DEF IP!ReadBack, OP!PartReadBack
<1> QED
  BY <1>3, <1>4, <1>5 DEF OP!StreamsAssumed

LEMMA InnerFlatsShown ==
  ASSUME NEW ctx
  PROVE  OP!FlatsAssumed(ctx)
<1>1. IP!FlatsAssumed(ctx)
  BY PlainFlatsShown
<1>2. OP!TextParts
  BY TextIsInner, SameLevels DEF OP!TextParts
<1>3. ASSUME NEW v \in Inner!Values(OP!Of("String")), NEW d, InnerDecode!Shows(d, v, OP!Of("String"))
      PROVE  d = v
  <2>1. OP!Of("String").code = "String" /\ "String" \notin {"List", "Set"} /\ "String" \notin {"Node", "Edge"}
    BY DEF OP!Of
  <2>2. v # InnerDecode!Null
    <3>1. PICK x \in Texts : v = [string |-> x]
      BY <1>3, TextIsInner, SameLevels
    <3> QED
      BY <3>1 DEF InnerDecode!Null
  <2> QED
    BY <1>3, <2>1, <2>2 DEF InnerDecode!Shows, InnerDecode!Lists, InnerDecode!Elements, PlainShows
<1>4. \A u : InnerDecode!Shows(OP!Null, OP!Null, u)
  BY DEF InnerDecode!Shows, OP!Null, InnerDecode!Null
<1>5. \A u : Inner!Type(u) => IP!SchemaOf(u).code = u.code
  BY <1>1, IPType, IP!SchemaCode
<1>6. ASSUME NEW u, Inner!Type(u), NEW vs, OP!ItemsIn(u, vs), NEW order
      PROVE  OP!PartFlatBack(ctx, u, vs, order)
  <2>1. IP!Type(u)
    BY <1>6, IPType
  <2>2. IP!ColumnOf(u, vs)
    <3>1. OP!IsSeq(vs) /\ \A i \in 1 .. Len(vs) : vs[i] \in Inner!Values(u) \cup {OP!Null}
      BY <1>6 DEF OP!ItemsIn, OP!PartOrNull
    <3>2. IP!Values(u) = Inner!Values(u)
      BY IPValues
    <3> QED
      BY <3>1, <3>2, SameLevels, SameToolkit DEF IP!ColumnOf
  <2>3. IP!FlatBack(ctx, u, vs, order)
    BY <1>1, <2>1, <2>2, InnerBounds, IP!FlatsShown, Zenon
  <2>4. IP!Flat(u, vs, order) = Inner!Flat(u, vs, order)
    BY IPFlat
  <2>5. \A v, i : IP!DecodeFlatValue(ctx, v, i, IP!SchemaOf(u)) = InnerDecode!DecodeFlatValue(ctx, v, i, IP!SchemaOf(u))
    BY IPDecodeFlatValue
  <2>6. \A d, v : IP!Shows(d, v, u) <=> InnerDecode!Shows(d, v, u)
    BY IPShows
  <2> QED
    BY <2>3, <2>4, <2>5, <2>6, SameLevels, SameToolkit DEF IP!FlatBack, OP!PartFlatBack
<1> QED
  BY <1>2, <1>3, <1>4, <1>5, <1>6 DEF OP!FlatsAssumed

-----------------------------------------------------------------------------
(* Columns' types and values.                                              *)
LEMMA OuterTypesParsed ==
  ASSUME NEW t, Outer!Type(t)
  PROVE  OuterDecode!NewTypeSchema(Outer!TypeStream(t), 0).got = OP!SchemaOf(t)
<1>1. OP!Type(t)
  BY OPType
<1>2. OP!Parsed(t)
  BY <1>1, InnerTypesParsed, OP!TypesParsed, Zenon
<1> DEFINE w == OP!TypeStream(t)
<1>3. OP!Holds(w, 0, w)
  <2>1. Len(w) \in Nat
    BY <1>2 DEF OP!Parsed, OP!Starts, OP!IsSeq
  <2> HIDE DEF w
  <2> QED
    BY <2>1 DEF OP!Holds
<1>4. OP!NewTypeSchema(w, 0) = [got |-> OP!SchemaOf(t), at |-> 0 + Len(w)]
  BY <1>2, <1>3 DEF OP!Parsed
<1>5. OP!NewTypeSchema(w, 0).got = OP!SchemaOf(t)
  BY <1>4
<1> QED
  BY <1>5, OPTypeStream, OPNewTypeSchema

LEMMA OuterValuesRead ==
  ASSUME NEW ctx, NEW t, Outer!Type(t), NEW v \in Outer!Values(t)
  PROVE  OuterDecode!DecodeAnyCompositeValue(ctx, Outer!Stream(t, v), 0, t.code).got = v
<1>1. OP!Type(t) /\ v \in OP!Values(t)
  BY OPType, OPValues
<1>2. OP!StreamsAssumed(ctx)
  BY InnerStreamsRead
<1>3. OP!ReadBack(ctx, t, v)
  BY <1>1, <1>2, InnerBounds, OP!ValuesRead, Zenon
<1> DEFINE w == OP!Stream(t, v)
<1>4. OP!Holds(w, 0, w)
  <2>1. Len(w) \in Nat
    BY <1>3 DEF OP!ReadBack, OP!IsSeq
  <2> HIDE DEF w
  <2> QED
    BY <2>1 DEF OP!Holds
<1>5. OP!DecodeAnyCompositeValue(ctx, w, 0, t.code) = [got |-> v, at |-> 0 + Len(w)]
  BY <1>3, <1>4 DEF OP!ReadBack
<1>6. OP!DecodeAnyCompositeValue(ctx, w, 0, t.code).got = v
  BY <1>5
<1> QED
  BY <1>6, OPStream, OPDecodeAnyCompositeValue

ValueColumn(t, vs) == IP!IsSeq(vs) /\ \A i \in 1 .. Len(vs) : vs[i] \in Outer!Values(t) \cup {Null}

LEMMA OuterColumn ==
  ASSUME NEW t, NEW vs, ValueColumn(t, vs)
  PROVE  OP!ColumnOf(t, vs)
<1>1. OP!Values(t) = Outer!Values(t)
  BY OPValues
<1> QED
  BY <1>1, SameLevels DEF ValueColumn, OP!ColumnOf

LEMMA OuterFlatsShown ==
  ASSUME NEW ctx, NEW t, Outer!Type(t), NEW vs, ValueColumn(t, vs), NEW order
  PROVE  /\ Outer!Flat(t, vs, order).nulls = NullBits(vs)
         /\ \A i \in 1 .. Len(vs) : vs[i] # Null =>
              OuterDecode!Shows(OuterDecode!DecodeFlatValue(ctx, Outer!Flat(t, vs, order), i - 1, OP!SchemaOf(t)), vs[i], t)
<1>1. OP!Type(t) /\ OP!ColumnOf(t, vs)
  BY OPType, OuterColumn
<1>2. OP!FlatsAssumed(ctx)
  BY InnerFlatsShown
<1>3. OP!FlatBack(ctx, t, vs, order)
  BY <1>1, <1>2, InnerBounds, OP!FlatsShown, Zenon
<1>4. OP!Flat(t, vs, order) = Outer!Flat(t, vs, order)
  BY OPFlat
<1>5. \A v, i : OP!DecodeFlatValue(ctx, v, i, OP!SchemaOf(t)) = OuterDecode!DecodeFlatValue(ctx, v, i, OP!SchemaOf(t))
  BY OPDecodeFlatValue
<1>6. \A d, v : OP!Shows(d, v, t) <=> OuterDecode!Shows(d, v, t)
  BY OPShows
<1> QED
  BY <1>3, <1>4, <1>5, <1>6, SameLevels DEF OP!FlatBack

-----------------------------------------------------------------------------
(* Columns of elements, whose schema is stamped for each batch.            *)
StampAt(t, p, position) == [schema |-> IP!SchemaOf(t.props[p]), vectorIndex |-> position]

ElementSchema(t, s) ==
  s = [code |-> t.code, props |-> [p \in DOMAIN t.props |-> StampAt(t, p, s.props[p].vectorIndex)]]

LEMMA ElementProps ==
  ASSUME NEW t, Outer!Type(t), t.code \in Elements
  PROVE  OP!PartTypes(t.props) /\ OP!IsFiniteSet(DOMAIN t.props) /\ t.code \in OP!Elements
<1>1. t.code \in OP!Elements /\ t.code \notin {"List", "Set", "Map", "Record"}
  BY DEF Elements, OP!Elements
<1>2. OP!Type(t)
  BY OPType
<1> QED
  BY <1>1, <1>2 DEF OP!Type, OP!PartTypes, OP!Lists, OP!Elements

LEMMA ElementForms ==
  ASSUME NEW t, NEW vs, ValueColumn(t, vs)
  PROVE  OP!Forms(t, vs)
<1>1. OP!ColumnOf(t, vs)
  BY OuterColumn
<1>2. \A v \in OP!Values(t) : OP!ValueForm(t, v)
  BY InnerBounds, OP!ValueForms
<1> QED
  BY <1>1, <1>2 DEF OP!ColumnOf, OP!Forms

(* Whatever its positions, the head and the names are shown.               *)
LEMMA ElementsHeads ==
  ASSUME NEW ctx, NEW t, Outer!Type(t), t.code \in Elements, NEW vs, ValueColumn(t, vs), NEW order,
         NEW s, ElementSchema(t, s), NEW i \in 1 .. Len(vs), vs[i] # Null
  PROVE  OuterDecode!Shows(OuterDecode!DecodeFlatValue(ctx, Outer!Flat(t, vs, order), i - 1, s), vs[i], t)
<1>1. OP!PartTypes(t.props) /\ t.code \in OP!Elements
  BY ElementProps
<1>2. OP!Forms(t, vs)
  BY ElementForms
<1>3. OP!SchemaFits(t, s)
  BY DEF ElementSchema, OP!SchemaFits
<1>4. vs[i] # OP!Null
  BY SameLevels
<1>5. OP!Shows(OP!DecodeFlatValue(ctx, OP!Flat(t, vs, order), i - 1, s), vs[i], t)
  BY <1>1, <1>2, <1>3, <1>4, OP!ElementsShown, Zenon
<1>6. OP!Flat(t, vs, order) = Outer!Flat(t, vs, order)
  BY OPFlat
<1>7. \A v, j : OP!DecodeFlatValue(ctx, v, j, s) = OuterDecode!DecodeFlatValue(ctx, v, j, s)
  BY OPDecodeFlatValue
<1>8. \A d, v : OP!Shows(d, v, t) <=> OuterDecode!Shows(d, v, t)
  BY OPShows
<1> QED
  BY <1>5, <1>6, <1>7, <1>8

(* A schema stamped for a batch has each property's position there.        *)
StampedSo(t, s, order) ==
  \A p \in DOMAIN t.props :
    /\ s.props[p].vectorIndex + 1 \in DOMAIN Outer!Listed(t, order)
    /\ Outer!Listed(t, order)[s.props[p].vectorIndex + 1] = p

PropertyShown(d, v, t) ==
  \A p \in DOMAIN v.properties :
    v.properties[p] # Null => InnerDecode!Shows(d.properties[p], v.properties[p], t.props[p])

LEMMA ElementsProperties ==
  ASSUME NEW ctx, NEW t, Outer!Type(t), t.code \in Elements, NEW vs, ValueColumn(t, vs), NEW order,
         NEW s, ElementSchema(t, s), StampedSo(t, s, order), NEW i \in 1 .. Len(vs), vs[i] # Null
  PROVE  PropertyShown(OuterDecode!DecodeFlatValue(ctx, Outer!Flat(t, vs, order), i - 1, s), vs[i], t)
<1>1. OP!PartTypes(t.props) /\ t.code \in OP!Elements
  BY ElementProps
<1>2. OP!Forms(t, vs)
  BY ElementForms
<1>3. OP!SchemaFits(t, s)
  BY DEF ElementSchema, OP!SchemaFits
<1>4. vs[i] # OP!Null
  BY SameLevels
<1>5. OP!StampFits(t, s, order)
  <2>1. OP!Listed(t, order) = Outer!Listed(t, order)
    BY OPListed
  <2>2. ASSUME NEW p \in DOMAIN t.props PROVE s.props[p].schema = IP!SchemaOf(t.props[p])
    <3>1. s.props[p] = StampAt(t, p, s.props[p].vectorIndex)
      BY <2>2 DEF ElementSchema
    <3>2. StampAt(t, p, s.props[p].vectorIndex).schema = IP!SchemaOf(t.props[p])
      BY DEF StampAt
    <3> QED
      BY <3>1, <3>2, Zenon
  <2> QED
    BY <2>1, <2>2 DEF StampedSo, OP!StampFits
<1>6. OP!FlatsAssumed(ctx)
  BY InnerFlatsShown
<1>7. \A p \in DOMAIN vs[i].properties :
        vs[i].properties[p] # OP!Null =>
          InnerDecode!Shows(OP!DecodeFlatValue(ctx, OP!Flat(t, vs, order), i - 1, s).properties[p],
                            vs[i].properties[p], t.props[p])
  BY <1>1, <1>2, <1>3, <1>4, <1>5, <1>6, OP!PropertiesShown, Zenon
<1>8. OP!Flat(t, vs, order) = Outer!Flat(t, vs, order)
  BY OPFlat
<1>9. \A v, j : OP!DecodeFlatValue(ctx, v, j, s) = OuterDecode!DecodeFlatValue(ctx, v, j, s)
  BY OPDecodeFlatValue
<1> QED
  BY <1>7, <1>8, <1>9, SameLevels DEF PropertyShown

(* prepareVector's stamp.                                                  *)
StampedFor(t, s, l) ==
  [s EXCEPT !.props =
     [p \in DOMAIN @ |-> [@[p] EXCEPT !.vectorIndex =
        (CHOOSE i \in DOMAIN Outer!Listed(t, l) : Outer!Listed(t, l)[i] = p) - 1]]]

LEMMA StampsFit ==
  ASSUME NEW t, Outer!Type(t), t.code \in Elements, NEW s, ElementSchema(t, s), NEW l
  PROVE  ElementSchema(t, StampedFor(t, s, l)) /\ StampedSo(t, StampedFor(t, s, l), l)
<1> DEFINE list == Outer!Listed(t, l)
           position(p) == (CHOOSE i \in DOMAIN list : list[i] = p) - 1
           r == StampedFor(t, s, l)
<1>1. /\ DOMAIN list = 1 .. Len(list) /\ Len(list) \in Nat
      /\ \A p \in DOMAIN t.props : \E i \in 1 .. Len(list) : list[i] = p
  <2>1. OP!IsFiniteSet(DOMAIN t.props)
    BY ElementProps
  <2>2. OP!Enumerates(OP!Listed(t, l), DOMAIN t.props)
    BY <2>1, OP!ListedEach, Zenon
  <2>3. OP!Listed(t, l) = list
    BY OPListed
  <2> HIDE DEF list
  <2> QED
    BY <2>2, <2>3 DEF OP!Enumerates, OP!Distinct, OP!IsSeq
<1>2. PICK g : s = [code |-> t.code, props |-> g] /\ g = [p \in DOMAIN t.props |-> StampAt(t, p, s.props[p].vectorIndex)]
  BY Zenon DEF ElementSchema
<1>3. s.props = g
  <2> DEFINE c == t.code
  <2> HIDE DEF c
  <2>1. s = [code |-> c, props |-> g]
    BY <1>2 DEF c
  <2> QED
    BY <2>1
<1>11. s = [code |-> t.code, props |-> s.props] /\ DOMAIN s.props = DOMAIN t.props
  <2>1. DOMAIN g = DOMAIN t.props
    BY <1>2
  <2> QED
    BY <1>2, <1>3, <2>1, Zenon
<1>12. \A p \in DOMAIN t.props : s.props[p] = StampAt(t, p, s.props[p].vectorIndex)
  BY <1>2, <1>3, Zenon
<1>4. r = [code |-> t.code, props |-> [p \in DOMAIN t.props |-> [s.props[p] EXCEPT !.vectorIndex = position(p)]]]
  <2>1. r = [s EXCEPT !.props = [p \in DOMAIN s.props |-> [s.props[p] EXCEPT !.vectorIndex = position(p)]]]
    BY DEF StampedFor
  <2> HIDE DEF position, r
  <2> QED
    BY <1>11, <2>1
<1> HIDE DEF r
<1>5. \A p \in DOMAIN t.props : [s.props[p] EXCEPT !.vectorIndex = position(p)] = StampAt(t, p, position(p))
  <2> TAKE p \in DOMAIN t.props
  <2> HIDE DEF position
  <2>1. s.props[p] = StampAt(t, p, s.props[p].vectorIndex)
    BY <1>12
  <2> QED
    BY <2>1 DEF StampAt
<1> HIDE DEF position
<1>6. r = [code |-> t.code, props |-> [p \in DOMAIN t.props |-> StampAt(t, p, position(p))]]
  BY <1>4, <1>5
<1>7. \A p \in DOMAIN t.props : r.props[p].vectorIndex = position(p)
  <2> TAKE p \in DOMAIN t.props
  <2>1. r.props[p] = StampAt(t, p, position(p))
    BY <1>6
  <2> QED
    BY <2>1 DEF StampAt
<1>8. ElementSchema(t, r)
  BY <1>6, <1>7 DEF ElementSchema
<1>9. StampedSo(t, r, l)
  <2> SUFFICES ASSUME NEW p \in DOMAIN t.props
               PROVE  r.props[p].vectorIndex + 1 \in DOMAIN list /\ list[r.props[p].vectorIndex + 1] = p
    BY DEF StampedSo
  <2> DEFINE i == CHOOSE j \in DOMAIN list : list[j] = p
  <2>1. i \in DOMAIN list /\ list[i] = p
    <3> HIDE DEF list
    <3>1. \E j \in DOMAIN list : list[j] = p
      BY <1>1
    <3> QED
      BY <3>1
  <2>2. r.props[p].vectorIndex = i - 1
    BY <1>7 DEF position
  <2> HIDE DEF i, list
  <2>3. i \in Nat /\ (i - 1) + 1 = i
    BY <1>1, <2>1
  <2> QED
    BY <2>1, <2>2, <2>3
<1> QED
  BY <1>8, <1>9 DEF r

-----------------------------------------------------------------------------
(* Paths: an element behind its type, then the next.                       *)
PathEnds(ctx, s, at) ==
  LET ends[i \in 0 .. s[at + 1]] == IF i = 0 THEN at + 1 ELSE ElementAt(ctx, s, ends[i - 1]).at
  IN ends

PathEndsAt(ctx, s, at, e) ==
  e = [i \in 0 .. s[at + 1] |-> IF i = 0 THEN at + 1 ELSE ElementAt(ctx, s, e[i - 1]).at]

LEMMA PathEndsAre ==
  ASSUME NEW ctx, NEW s, NEW at, s[at + 1] \in Nat, NEW e, PathEndsAt(ctx, s, at, e)
  PROVE  IP!Agree(PathEnds(ctx, s, at), e, s[at + 1])
<1> DEFINE n == s[at + 1]
           ends == PathEnds(ctx, s, at)
           off == {k \in 0 .. n : ends[k] # e[k]}
<1>1. ends = [k \in 0 .. n |-> IF k = 0 THEN at + 1 ELSE ElementAt(ctx, s, ends[k - 1]).at]
  BY Zenon DEF PathEnds, PathEndsAt
<1> HIDE DEF ends
<1>2. SUFFICES ASSUME off # {} PROVE FALSE
  BY DEF ends, IP!Agree
<1>3. off \in SUBSET Nat
  OBVIOUS
<1> HIDE DEF off
<1>4. PICK k \in off : \A i \in off : k <= i
  BY <1>2, <1>3, IP!LeastNumber
<1>5. k \in 0 .. n /\ ends[k] # e[k]
  BY <1>4 DEF off
<1>6. k # 0
  BY <1>1, <1>5 DEF PathEndsAt
<1>7. k - 1 \in 0 .. n /\ ~(k <= k - 1)
  BY <1>5, <1>6
<1>8. ends[k - 1] = e[k - 1]
  BY <1>4, <1>7 DEF off
<1>9. ends[k] = ElementAt(ctx, s, ends[k - 1]).at /\ e[k] = ElementAt(ctx, s, e[k - 1]).at
  BY <1>1, <1>5, <1>6 DEF PathEndsAt
<1> QED
  BY <1>5, <1>8, <1>9

PathType(t) == t.code = "Path" /\ Inner!Type(t.node) /\ t.node.code = "Node" /\ Inner!Type(t.edge) /\ t.edge.code = "Edge"

TaggedAt(ctx, u, x) ==
  /\ IP!IsSeq(Outer!Tagged(u, x))
  /\ \A s : \A at \in Nat : IP!Holds(s, at, Outer!Tagged(u, x)) =>
       ElementAt(ctx, s, at) = [got |-> x, at |-> at + Len(Outer!Tagged(u, x))]

LEMMA InnerTagged ==
  ASSUME NEW ctx, NEW u, Inner!Type(u), NEW x \in Inner!Values(u)
  PROVE  TaggedAt(ctx, u, x)
<1>1. OP!StreamsAssumed(ctx)
  BY InnerStreamsRead
<1>2. OP!NullReadBack(ctx) /\ OP!PartReadBack(ctx, u, x)
  BY <1>1 DEF OP!StreamsAssumed
<1>3. OP!TaggedReadBack(ctx, u, x)
  BY <1>2, OP!TaggedRead, Zenon
<1>4. OP!Tagged(u, x) = Outer!Tagged(u, x)
  BY OPTagged
<1> QED
  BY <1>3, <1>4, SameLevels DEF OP!TaggedReadBack, TaggedAt, ElementAt

(* A path's elements, each of its type.                                    *)
ElementsOf(t, xs) ==
  IP!IsSeq(xs) /\ \A i \in 1 .. Len(xs) :
    Inner!Type(ElementType(t, xs[i])) /\ xs[i] \in Inner!Values(ElementType(t, xs[i]))

LEMMA PathValues ==
  ASSUME NEW t, PathType(t), NEW v \in ValuesOf(t)
  PROVE  v = [elements |-> v.elements] /\ ElementsOf(t, v.elements)
<1> DEFINE path(x, y) == [elements |-> <<x>> \o y]
           rest == {<<>>} \cup {<<e>> : e \in Inner!Values(t.edge)}
<1>1. ValuesOf(t) = {path(x, y) : x \in Inner!Values(t.node), y \in rest}
  BY DEF ValuesOf, PathType
<1>2. PICK x \in Inner!Values(t.node), y \in rest : v = path(x, y)
  BY <1>1
<1>3. v.elements = <<x>> \o y /\ v = [elements |-> v.elements]
  BY <1>2
<1>4. "id" \in DOMAIN x
  <2>1. IP!ValueForm(t.node, x)
    <3>1. x \in IP!Values(t.node)
      BY IPValues
    <3> QED
      BY <3>1, InnerBounds, IP!ValueForms, Zenon
  <2>2. x = [id |-> x.id, properties |-> x.properties]
    BY <2>1 DEF IP!ValueForm, PathType
  <2> QED
    BY <2>2
<1>5. \A e \in Inner!Values(t.edge) : "id" \notin DOMAIN e
  <2> TAKE e \in Inner!Values(t.edge)
  <2>1. IP!ValueForm(t.edge, e)
    <3>1. e \in IP!Values(t.edge)
      BY IPValues
    <3> QED
      BY <3>1, InnerBounds, IP!ValueForms, Zenon
  <2>2. e = [src |-> e.src, dst |-> e.dst, direction |-> e.direction, properties |-> e.properties]
    BY <2>1 DEF IP!ValueForm, PathType
  <2> QED
    BY <2>2
<1>6. ElementsOf(t, <<x>> \o y)
  <2>1. Inner!Type(ElementType(t, x)) /\ x \in Inner!Values(ElementType(t, x))
    BY <1>4 DEF ElementType, PathType
  <2>2. CASE y = <<>>
    <3>1. <<x>> \o y = <<x>>
      BY <2>2
    <3> QED
      BY <2>1, <3>1 DEF ElementsOf, IP!IsSeq
  <2>3. CASE y # <<>>
    <3>1. PICK e \in Inner!Values(t.edge) : y = <<e>>
      BY <2>3
    <3>2. Inner!Type(ElementType(t, e)) /\ e \in Inner!Values(ElementType(t, e))
      BY <1>5 DEF ElementType, PathType
    <3> DEFINE a == <<x>>
               w == a \o y
    <3>3. IP!IsSeq(a) /\ Len(a) = 1 /\ a[1] = x /\ IP!IsSeq(y) /\ Len(y) = 1 /\ y[1] = e
      BY <3>1, IP!OneItem
    <3> HIDE DEF a
    <3>4. IP!IsSeq(w) /\ Len(w) = Len(a) + Len(y) /\ (\A i \in 1 .. Len(a) : w[i] = a[i])
          /\ \A i \in 1 .. Len(y) : w[Len(a) + i] = y[i]
      BY <3>3, IP!Concatenated
    <3> HIDE DEF w
    <3>5. Len(w) = 2 /\ w[1] = x /\ w[1 + 1] = e
      BY <3>3, <3>4
    <3>6. \A i \in 1 .. Len(w) : w[i] = x \/ w[i] = e
      BY <3>5
    <3>7. ElementsOf(t, w)
      BY <2>1, <3>2, <3>4, <3>6 DEF ElementsOf
    <3> QED
      BY <3>7 DEF w, a
  <2> QED
    BY <2>2, <2>3
<1> QED
  BY <1>3, <1>6

LEMMA PathsRead ==
  ASSUME NEW ctx, NEW t, PathType(t), NEW v \in ValuesOf(t)
  PROVE  DecodePathStream(ctx, Stream(t, v), 0).got = v
<1> DEFINE xs == v.elements
           n == Len(xs)
           ss == [i \in DOMAIN xs |-> Outer!Tagged(ElementType(t, xs[i]), xs[i])]
           s == <<n>> \o FlattenSeq(ss)
           e == [k \in 0 .. n |-> 1 + IP!Upto(ss, k)]
<1>1. v = [elements |-> xs] /\ ElementsOf(t, xs)
  BY PathValues
<1>2. Stream(t, v) = s
  BY DEF Stream, PathType
<1> HIDE DEF xs
<1>3. n \in Nat /\ DOMAIN xs = 1 .. n
  BY <1>1 DEF ElementsOf, IP!IsSeq
<1>4. \A i \in 1 .. n : ss[i] = Outer!Tagged(ElementType(t, xs[i]), xs[i])
  BY <1>3
<1>5. \A i \in 1 .. n : TaggedAt(ctx, ElementType(t, xs[i]), xs[i])
  BY <1>1, InnerTagged DEF ElementsOf
<1>6. IP!IsSeq(ss) /\ Len(ss) = n
  <2>1. ss = [i \in 1 .. n |-> ss[i]]
    BY <1>3
  <2> HIDE DEF ss
  <2> QED
    BY <1>3, <2>1, IP!SequenceOf, Zenon
<1> HIDE DEF ss
<1>7. \A i \in 1 .. n : /\ IP!IsSeq(ss[i]) /\ Len(ss[i]) \in Nat
                        /\ \A r : \A at \in Nat : IP!Holds(r, at, ss[i]) =>
                             ElementAt(ctx, r, at) = [got |-> xs[i], at |-> at + Len(ss[i])]
  BY <1>4, <1>5 DEF TaggedAt, IP!IsSeq
<1>8. IP!Pieces(ss)
  BY <1>6, <1>7 DEF IP!Pieces
<1>9. /\ IP!IsSeq(FlattenSeq(ss)) /\ Len(FlattenSeq(ss)) = IP!Upto(ss, n) /\ IP!Upto(ss, 0) = 0
      /\ \A k \in 0 .. n : IP!Upto(ss, k) \in Nat
      /\ \A k \in 1 .. n : IP!Upto(ss, k) = IP!Upto(ss, k - 1) + Len(ss[k])
  BY <1>6, <1>8, IP!Flattened, SameToolkit
<1>10. IP!Holds(s, 0, s)
  <2>1. Len(s) \in Nat
    <3>1. IP!Starts(s, n)
      <4> DEFINE w == FlattenSeq(ss)
      <4>1. IP!IsSeq(w)
        BY <1>9
      <4> HIDE DEF w
      <4>2. IP!Starts(<<n>> \o w, n)
        BY <4>1, IP!ItemFirst
      <4> QED
        BY <4>2 DEF w
    <3> HIDE DEF s
    <3> QED
      BY <3>1 DEF IP!Starts, IP!IsSeq
  <2> HIDE DEF s
  <2> QED
    BY <2>1 DEF IP!Holds
<1>11. s[0 + 1] = n /\ IP!Holds(s, 1, FlattenSeq(ss))
  <2> DEFINE w == FlattenSeq(ss)
             r == s
  <2>1. IP!IsSeq(w) /\ IP!Holds(r, 0, <<n>> \o w) /\ 0 \in Nat
    BY <1>9, <1>10
  <2> HIDE DEF w, r
  <2>2. r[0 + 1] = n /\ IP!Holds(r, 0 + 1, w)
    BY <2>1, IP!HoldsItem
  <2> QED
    BY <2>2 DEF w, r
<1> HIDE DEF s
<1>12. ASSUME NEW k \in 1 .. n PROVE ElementAt(ctx, s, e[k - 1]) = [got |-> xs[k], at |-> e[k]]
  <2>1. k - 1 \in 0 .. n /\ k \in 0 .. n
    BY <1>3
  <2>2. IP!Holds(s, 1 + IP!Upto(ss, k - 1), ss[k]) /\ 1 + IP!Upto(ss, k - 1) \in Nat
    <3>1. IP!FlattenSeq(ss) = FlattenSeq(ss)
      BY SameToolkit
    <3>2. IP!Holds(s, 1, IP!FlattenSeq(ss)) /\ 1 \in Nat /\ k \in 1 .. Len(ss)
      BY <1>6, <1>11, <3>1
    <3> QED
      BY <1>8, <3>2, IP!HoldsEach, Zenon
  <2>3. e[k - 1] = 1 + IP!Upto(ss, k - 1) /\ e[k] = 1 + IP!Upto(ss, k)
    BY <2>1
  <2> HIDE DEF e
  <2>4. ElementAt(ctx, s, e[k - 1]) = [got |-> xs[k], at |-> e[k - 1] + Len(ss[k])]
    BY <1>7, <2>2, <2>3
  <2>5. e[k - 1] + Len(ss[k]) = e[k]
    <3>1. /\ IP!Upto(ss, k) = IP!Upto(ss, k - 1) + Len(ss[k])
          /\ IP!Upto(ss, k - 1) \in Nat /\ Len(ss[k]) \in Nat
      BY <1>7, <1>9, <2>1
    <3> QED
      BY <2>3, <3>1
  <2> QED
    BY <2>4, <2>5
<1>13. e[0] = 1 /\ e = [k \in 0 .. n |-> e[k]]
  BY <1>3, <1>9
<1> HIDE DEF e
<1>14. PathEndsAt(ctx, s, 0, e)
  <2>1. ASSUME NEW k \in 0 .. n, k # 0 PROVE e[k] = ElementAt(ctx, s, e[k - 1]).at
    <3>1. k \in 1 .. n
      BY <1>3, <2>1
    <3>2. ElementAt(ctx, s, e[k - 1]) = [got |-> xs[k], at |-> e[k]]
      BY <1>12, <3>1, Zenon
    <3> QED
      BY <3>2
  <2> QED
    BY <1>11, <1>13, <2>1 DEF PathEndsAt
<1> DEFINE ends == PathEnds(ctx, s, 0)
           got == [i \in 1 .. n |-> ElementAt(ctx, s, ends[i - 1]).got]
<1>15. \A k \in 0 .. n : ends[k] = e[k]
  <2>1. s[0 + 1] \in Nat
    BY <1>3, <1>11
  <2>2. IP!Agree(ends, e, s[0 + 1])
    BY <1>14, <2>1, PathEndsAre, Zenon
  <2> HIDE DEF ends
  <2> QED
    BY <1>11, <2>2 DEF IP!Agree
<1>16. DecodePathStream(ctx, s, 0) = [got |-> [elements |-> got], at |-> ends[n]]
  <2>1. DecodePathStream(ctx, s, 0)
          = [got |-> [elements |-> [i \in 1 .. s[0 + 1] |-> ElementAt(ctx, s, ends[i - 1]).got]],
             at |-> ends[s[0 + 1]]]
    BY Zenon DEF DecodePathStream, PathEnds
  <2> HIDE DEF ends
  <2> QED
    BY <1>11, <2>1
<1> HIDE DEF ends
<1>17. \A k \in 1 .. n : got[k] = xs[k]
  <2> TAKE k \in 1 .. n
  <2>1. k - 1 \in 0 .. n
    BY <1>3
  <2>2. ElementAt(ctx, s, ends[k - 1]) = [got |-> xs[k], at |-> e[k]]
    BY <1>12, <1>15, <2>1
  <2> QED
    BY <2>2
<1>18. got = xs
  <2>1. xs = [k \in 1 .. n |-> xs[k]]
    BY <1>1 DEF ElementsOf, IP!IsSeq
  <2>2. got = [k \in 1 .. n |-> got[k]]
    OBVIOUS
  <2> HIDE DEF got
  <2> QED
    BY <1>17, <2>1, <2>2
<1> QED
  BY <1>1, <1>2, <1>16, <1>18

-----------------------------------------------------------------------------
(* Mixed columns: the form of a value tells which of the types it has.     *)
AllForms == {"string", "items", "entries", "fields", "properties", "floats", "loops", "bool", "date",
             "float", "time", "moment", "number"}

Identified(u, v) == FormOf(u.code) \in DOMAIN v /\ \A form \in AllForms : form \in DOMAIN v => form = FormOf(u.code)

LEMMA FormsAre ==
  ASSUME NEW code
  PROVE  FormOf(code) \in AllForms
BY DEF FormOf, AllForms

LEMMA BasicForms ==
  ASSUME NEW u, u.code \in ExactTypes, NEW v \in ExactSamples(u.code)
  PROVE  Identified(u, v)
<1>1. v \in BasicValue(u.code)
  BY SamplesAssumption DEF ExactTypes, ExactSamples
<1>2. u.code \in {"Bool", "Int8", "Uint8", "Int16", "Uint16", "Int32", "Uint32", "Float32", "Float64",
                  "Date", "LocalTime", "LocalDatetime"}
  BY DEF ExactTypes, BasicTypes, SizeMap
<1>3. CASE u.code = "Bool"
  <2>1. DOMAIN v = {"bool"} /\ FormOf(u.code) = "bool"
    BY <1>1, <1>3 DEF BasicValue, FormOf, Strings, Lists, Elements
  <2> QED
    BY <2>1 DEF Identified
<1>4. CASE u.code \in {"Int8", "Uint8", "Int16", "Uint16", "Int32", "Uint32"}
  <2>1. DOMAIN v = {"number"}
    <3>1. BasicValue(u.code) = [number : SignedRange(SizeMap[u.code])] \/ BasicValue(u.code) = [number : UnsignedRange(SizeMap[u.code])]
      BY <1>4 DEF BasicValue
    <3>2. PICK S : BasicValue(u.code) = [number : S]
      BY <3>1
    <3> QED
      BY <1>1, <3>2
  <2>2. FormOf(u.code) = "number"
    BY <1>4 DEF FormOf, Strings, Lists, Elements
  <2> QED
    BY <2>1, <2>2 DEF Identified
<1>5. CASE u.code \in {"Float32", "Float64"}
  <2>1. DOMAIN v = {"float"} /\ FormOf(u.code) = "float"
    BY <1>1, <1>5 DEF BasicValue, FormOf, Strings, Lists, Elements
  <2> QED
    BY <2>1 DEF Identified
<1>6. CASE u.code = "Date"
  <2>1. DOMAIN v = {"date"} /\ FormOf(u.code) = "date"
    BY <1>1, <1>6 DEF BasicValue, FormOf, Strings, Lists, Elements
  <2> QED
    BY <2>1 DEF Identified
<1>7. CASE u.code = "LocalTime"
  <2>1. DOMAIN v = {"time"} /\ FormOf(u.code) = "time"
    BY <1>1, <1>7 DEF BasicValue, FormOf, Strings, Lists, Elements
  <2> QED
    BY <2>1 DEF Identified
<1>8. CASE u.code = "LocalDatetime"
  <2>1. DOMAIN v = {"moment"} /\ FormOf(u.code) = "moment"
    BY <1>1, <1>8 DEF BasicValue, FormOf, Strings, Lists, Elements
  <2> QED
    BY <2>1 DEF Identified
<1> QED
  BY <1>2, <1>3, <1>4, <1>5, <1>6, <1>7, <1>8

LEMMA PlainForms ==
  ASSUME NEW u, PlainType(u), NEW v \in PlainValues(u)
  PROVE  Identified(u, v)
<1>1. u.code \in ExactTypes \cup Strings \cup {"Geography", "Vector"}
  BY PlainKinds
<1>2. CASE u.code \in ExactTypes
  <2>1. v \in ExactSamples(u.code)
    <3>1. u.code \in BasicTypes /\ u.code \notin Strings \cup {"Geography", "Vector"}
      BY <1>2 DEF ExactTypes, BasicTypes, SizeMap, Strings
    <3>2. PlainValues(u) = ExactSamples(u.code)
      BY <3>1 DEF PlainValues
    <3> QED
      BY <3>2
  <2> QED
    BY <1>2, <2>1, BasicForms
<1>3. CASE u.code \in Strings
  <2>1. PlainValues(u) = {[string |-> x] : x \in Texts}
    BY <1>3 DEF PlainValues, Strings, BasicTypes, SizeMap
  <2>2. PICK x \in Texts : v = [string |-> x]
    BY <2>1
  <2>3. DOMAIN v = {"string"} /\ FormOf(u.code) = "string"
    BY <1>3, <2>2 DEF FormOf, Strings, Lists, Elements
  <2> QED
    BY <2>3 DEF Identified
<1>4. CASE u.code = "Geography"
  <2>1. v \in Shapes
    BY <1>4 DEF PlainValues, Strings, BasicTypes, SizeMap
  <2>2. v = [shape |-> v.shape, loops |-> v.loops]
    BY <2>1, ShapesAssumption
  <2>3. DOMAIN v = {"shape", "loops"} /\ FormOf(u.code) = "loops"
    <3>1. DOMAIN v = {"shape", "loops"}
      <4>1. PICK a, b : v = [shape |-> a, loops |-> b]
        BY <2>2
      <4> QED
        BY <4>1
    <3> QED
      BY <1>4, <3>1 DEF FormOf, Strings, Lists, Elements
  <2> QED
    BY <2>3 DEF Identified, AllForms
<1>5. CASE u.code = "Vector"
  <2>1. PlainValues(u) = {[floats |-> x] : x \in [1 .. u.dim -> {"f", "g"}]}
    BY <1>5 DEF PlainValues, Strings, BasicTypes, SizeMap
  <2>2. PICK x : v = [floats |-> x]
    BY <2>1
  <2>3. DOMAIN v = {"floats"} /\ FormOf(u.code) = "floats"
    BY <1>5, <2>2 DEF FormOf, Strings, Lists, Elements
  <2> QED
    BY <2>3 DEF Identified
<1> QED
  BY <1>1, <1>2, <1>3, <1>4, <1>5

LEMMA InnerForms ==
  ASSUME NEW u, Inner!Type(u), NEW v \in Inner!Values(u)
  PROVE  Identified(u, v) /\ v # Null
<1>1. IP!ValueForm(u, v)
  <2>1. v \in IP!Values(u)
    BY IPValues
  <2> QED
    BY <2>1, InnerBounds, IP!ValueForms, Zenon
<1>2. IP!Lists = Lists /\ IP!Elements = Elements
  BY SameToolkit
<1>3. CASE u.code \in Lists
  <2>1. PICK x : v = [items |-> x]
    BY <1>1, <1>2, <1>3 DEF IP!ValueForm
  <2>2. DOMAIN v = {"items"} /\ FormOf(u.code) = "items"
    BY <1>3, <2>1 DEF FormOf, Lists, Strings, Elements
  <2>3. v # Null
    BY <2>2 DEF Null
  <2> QED
    BY <2>2, <2>3 DEF Identified
<1>4. CASE u.code = "Map"
  <2>1. PICK x : v = [entries |-> x]
    BY <1>1, <1>4 DEF IP!ValueForm
  <2>2. DOMAIN v = {"entries"} /\ FormOf(u.code) = "entries"
    BY <1>4, <2>1 DEF FormOf, Lists, Strings, Elements
  <2>3. v # Null
    BY <2>2 DEF Null
  <2> QED
    BY <2>2, <2>3 DEF Identified
<1>5. CASE u.code = "Record"
  <2>1. PICK x : v = [fields |-> x]
    BY <1>1, <1>5 DEF IP!ValueForm
  <2>2. DOMAIN v = {"fields"} /\ FormOf(u.code) = "fields"
    BY <1>5, <2>1 DEF FormOf, Lists, Strings, Elements
  <2>3. v # Null
    BY <2>2 DEF Null
  <2> QED
    BY <2>2, <2>3 DEF Identified
<1>6. CASE u.code = "Node"
  <2>1. PICK x, y : v = [id |-> x, properties |-> y]
    BY <1>1, <1>6 DEF IP!ValueForm
  <2>2. DOMAIN v = {"id", "properties"} /\ FormOf(u.code) = "properties"
    BY <1>6, <2>1 DEF FormOf, Lists, Strings, Elements
  <2>3. v # Null
    BY <2>2 DEF Null
  <2> QED
    BY <2>2, <2>3 DEF Identified, AllForms
<1>7. CASE u.code = "Edge"
  <2>1. PICK a, b, c, d : v = [src |-> a, dst |-> b, direction |-> c, properties |-> d]
    BY <1>1, <1>7 DEF IP!ValueForm
  <2>2. DOMAIN v = {"src", "dst", "direction", "properties"} /\ FormOf(u.code) = "properties"
    BY <1>7, <2>1 DEF FormOf, Lists, Strings, Elements
  <2>3. v # Null
    BY <2>2 DEF Null
  <2> QED
    BY <2>2, <2>3 DEF Identified, AllForms
<1>8. CASE u.code \notin Lists \cup Elements \cup {"Map", "Record"}
  <2>1. v \in PlainValues(u)
    BY <1>1, <1>2, <1>8 DEF IP!ValueForm
  <2>2. PlainType(u)
    <3>1. Inner!Lists = Lists /\ Inner!Elements = Elements
      BY DEF Inner!Lists, Lists, Inner!Elements, Elements
    <3>2. u.code \notin Inner!Lists /\ u.code # "Map" /\ u.code \notin Inner!Elements \cup {"Record"}
      BY <1>8, <3>1
    <3> QED
      BY <3>2, Zenon DEF Inner!Type
  <2>3. Identified(u, v)
    BY <2>1, <2>2, PlainForms
  <2>4. FormOf(u.code) # "null" /\ FormOf(u.code) \in DOMAIN v
    BY <2>3 DEF Identified, FormOf
  <2> QED
    BY <2>3, <2>4 DEF Null
<1> QED
  BY <1>3, <1>4, <1>5, <1>6, <1>7, <1>8 DEF Elements

MixedType(t) ==
  \A u \in t.held : Inner!Type(u) /\ \A w \in t.held : FormOf(w.code) = FormOf(u.code) => w = u

LEMMA HeldTypes ==
  ASSUME NEW t, MixedType(t), NEW v, v \in UNION {Inner!Values(u) : u \in t.held}
  PROVE  /\ Inner!Type(HeldType(t, v)) /\ v \in Inner!Values(HeldType(t, v)) /\ v # Null
<1>1. PICK u \in t.held : v \in Inner!Values(u)
  OBVIOUS
<1>2. Identified(u, v) /\ v # Null
  BY <1>1, InnerForms DEF MixedType
<1>3. \A w \in t.held : FormOf(w.code) \in DOMAIN v => w = u
  BY <1>2, FormsAre DEF Identified, MixedType
<1>4. HeldType(t, v) = u
  <2>1. \E w \in t.held : FormOf(w.code) \in DOMAIN v
    BY <1>2 DEF Identified
  <2> QED
    BY <1>3, <2>1 DEF HeldType
<1> QED
  BY <1>1, <1>2, <1>4 DEF MixedType

(* A mixed column's cells: a row's type, and its bytes or its stream.      *)
MixedColumn(t, vs) ==
  /\ IP!IsSeq(vs)
  /\ \A i \in 1 .. Len(vs) : vs[i] = Null \/ vs[i] \in UNION {Inner!Values(u) : u \in t.held}

RowType(t, x) == IF x = Null THEN Of("Unknown") ELSE HeldType(t, x)
RowStream(t, x) == IF RowType(t, x).code \in BasicTypes \/ x = Null THEN <<>> ELSE Inner!Stream(RowType(t, x), x)

LEMMA InnerStreamRead ==
  ASSUME NEW ctx, NEW u, Inner!Type(u), NEW v \in Inner!Values(u)
  PROVE  /\ IP!IsSeq(Inner!Stream(u, v))
         /\ \A s : \A at \in Nat : IP!Holds(s, at, Inner!Stream(u, v)) =>
              InnerDecode!DecodeAnyCompositeValue(ctx, s, at, u.code) = [got |-> v, at |-> at + Len(Inner!Stream(u, v))]
<1>1. OP!StreamsAssumed(ctx)
  BY InnerStreamsRead
<1>2. OP!PartReadBack(ctx, u, v)
  BY <1>1 DEF OP!StreamsAssumed
<1> QED
  BY <1>2, SameLevels DEF OP!PartReadBack

LEMMA InnerBasic ==
  ASSUME NEW u, Inner!Type(u), u.code \in BasicTypes, NEW v \in Inner!Values(u), NEW ctx
  PROVE  DecodeBasicValue(EncodeBasic(u.code, v), u.code, ctx) = v
<1>1. u.code \notin Lists \cup Elements \cup {"Map", "Record", "Vector", "Geography"} \cup Strings
  BY DEF BasicTypes, SizeMap, Lists, Elements, Strings
<1>2. Inner!Lists = Lists /\ Inner!Elements = Elements
  BY DEF Inner!Lists, Lists, Inner!Elements, Elements
<1>3. u.code \notin Inner!Lists /\ u.code # "Map" /\ u.code \notin Inner!Elements \cup {"Record"}
      /\ u.code # "Node" /\ u.code # "Edge" /\ u.code # "Record"
  BY <1>1, <1>2 DEF Elements
<1>4. PlainType(u)
  BY <1>3, Zenon DEF Inner!Type
<1>5. Inner!Values(u) = PlainValues(u)
  BY <1>3 DEF Inner!Values
<1>6. u.code \in ExactTypes
  BY <1>1, <1>4, PlainKinds
<1>7. PlainValues(u) = ExactSamples(u.code)
  BY <1>1 DEF PlainValues
<1> QED
  BY <1>5, <1>6, <1>7, BasicRead

LEMMA ThreeVectors ==
  ASSUME NEW a, NEW b, NEW c, NEW w, w = <<a>> \o <<b, c>>
  PROVE  w[1] = a /\ w[2] = b /\ w[3] = c
<1> DEFINE p == <<a>>
           q == <<b, c>>
<1>1. IP!IsSeq(p) /\ Len(p) = 1 /\ p[1] = a
  BY IP!OneItem
<1>2. IP!IsSeq(q) /\ Len(q) = 2 /\ q[1] = b /\ q[2] = c
  BY DEF IP!IsSeq
<1>3. w = p \o q
  OBVIOUS
<1> HIDE DEF p, q
<1>4. (\A i \in 1 .. Len(p) : w[i] = p[i]) /\ \A i \in 1 .. Len(q) : w[Len(p) + i] = q[i]
  BY <1>1, <1>2, <1>3, IP!Concatenated
<1>5. w[1] = p[1] /\ w[1 + 1] = q[1] /\ w[1 + 2] = q[2]
  BY <1>1, <1>2, <1>4
<1> QED
  BY <1>1, <1>2, <1>5

(* A row's cell, its type and its chunk.                                   *)
MixedLaid(t, vs, order, i, long) ==
  LET v == AnyFlat(t, vs, order)
      cell == ChunkAt(long, i)
  IN /\ v.nulls = (IF order = "reversed" THEN NullBits(vs) ELSE <<>>)
     /\ v.nested[1].data[i] = RowType(t, vs[i]).code
     /\ v.data[i] = IF RowType(t, vs[i]).code \in BasicTypes THEN EncodeBasic(RowType(t, vs[i]).code, vs[i]) ELSE cell
     /\ cell.chunk \in {0, 1} => v.nested[cell.chunk + 2].data = Chunks(long)[cell.chunk + 1].data

LEMMA MixedVector ==
  ASSUME NEW t, NEW vs, IP!IsSeq(vs), NEW order, NEW i \in 1 .. Len(vs), NEW long,
         long = [j \in DOMAIN vs |-> RowStream(t, vs[j])]
  PROVE  MixedLaid(t, vs, order, i, long)
<1> DEFINE v == AnyFlat(t, vs, order)
           type == [j \in DOMAIN vs |-> RowType(t, vs[j])]
           codes == Data([j \in DOMAIN vs |-> type[j].code])
           chunks == Chunks(long)
<1>1. i \in DOMAIN vs
  BY DEF IP!IsSeq
<1>2. type = [j \in DOMAIN vs |-> IF vs[j] = Null THEN Of("Unknown") ELSE HeldType(t, vs[j])]
  BY DEF RowType
<1>3. long = [j \in DOMAIN vs |-> IF type[j].code \in BasicTypes \/ vs[j] = Null THEN <<>> ELSE Inner!Stream(type[j], vs[j])]
  BY DEF RowStream
<1> HIDE DEF type
<1>4. v = [ nulls   |-> IF order = "reversed" THEN NullBits(vs) ELSE <<>>,
            data    |-> [j \in DOMAIN vs |-> IF type[j].code \in BasicTypes THEN EncodeBasic(type[j].code, vs[j])
                                             ELSE ChunkAt(long, j)],
            special |-> <<>>,
            nested  |-> <<codes>> \o chunks ]
  BY <1>2, <1>3, Zenon DEF AnyFlat
<1>5. type[i] = RowType(t, vs[i])
  BY <1>1 DEF type
<1>6. codes.data[i] = type[i].code
  <2>1. codes.data = [j \in DOMAIN vs |-> type[j].code]
    BY DEF Data
  <2> QED
    BY <1>1, <2>1
<1>7. chunks = <<chunks[1], chunks[2]>>
  BY DEF Chunks
<1> HIDE DEF codes, chunks, v
<1>8. v.nested = <<codes>> \o chunks
  BY <1>4
<1>9. v.nested[1] = codes /\ v.nested[2] = chunks[1] /\ v.nested[3] = chunks[2]
  <2> DEFINE w == v.nested
  <2>1. w = <<codes>> \o <<chunks[1], chunks[2]>>
    BY <1>7, <1>8
  <2> HIDE DEF w
  <2>2. w[1] = codes /\ w[2] = chunks[1] /\ w[3] = chunks[2]
    BY <2>1, ThreeVectors
  <2> QED
    BY <2>2 DEF w
<1>10. v.nulls = IF order = "reversed" THEN NullBits(vs) ELSE <<>>
  BY <1>4
<1>11. v.data[i] = IF type[i].code \in BasicTypes THEN EncodeBasic(type[i].code, vs[i]) ELSE ChunkAt(long, i)
  BY <1>1, <1>4
<1>12. v.nested[1].data[i] = type[i].code
  BY <1>6, <1>9
<1>13. \A k \in {0, 1} : v.nested[k + 2] = chunks[k + 1]
  BY <1>9
<1> QED
  BY <1>5, <1>10, <1>11, <1>12, <1>13 DEF v, chunks, MixedLaid

LEMMA MixedCell ==
  ASSUME NEW ctx, NEW t, MixedType(t), NEW vs, MixedColumn(t, vs), NEW order, NEW i \in 1 .. Len(vs)
  PROVE  DecodeAnyValue(ctx, AnyFlat(t, vs, order), i - 1) = vs[i]
<1> DEFINE v == AnyFlat(t, vs, order)
           long == [j \in DOMAIN vs |-> RowStream(t, vs[j])]
           cell == ChunkAt(long, i)
           u == RowType(t, vs[i])
<1>1. IP!IsSeq(vs) /\ Len(vs) \in Nat /\ DOMAIN vs = 1 .. Len(vs) /\ (i - 1) + 1 = i
  BY DEF MixedColumn, IP!IsSeq
<1>2. ASSUME NEW j \in 1 .. Len(vs), vs[j] # Null
      PROVE  Inner!Type(RowType(t, vs[j])) /\ vs[j] \in Inner!Values(RowType(t, vs[j]))
  BY <1>2, HeldTypes DEF MixedColumn, RowType
<1>3. \A j \in 1 .. Len(vs) : IP!IsSeq(RowStream(t, vs[j]))
  <2> TAKE j \in 1 .. Len(vs)
  <2>1. CASE RowStream(t, vs[j]) = <<>>
    BY <2>1, IP!EmptySequence
  <2>2. CASE vs[j] # Null /\ RowStream(t, vs[j]) = Inner!Stream(RowType(t, vs[j]), vs[j])
    BY <1>2, <2>2, InnerStreamRead
  <2> QED
    BY <2>1, <2>2 DEF RowStream
<1>4. IP!Pieces(long) /\ Len(long) = Len(vs) /\ long[i] = RowStream(t, vs[i])
  <2>1. long = [j \in 1 .. Len(vs) |-> long[j]] /\ \A j \in 1 .. Len(vs) : long[j] = RowStream(t, vs[j])
    BY <1>1
  <2> HIDE DEF long
  <2>2. IP!IsSeq(long) /\ Len(long) = Len(vs)
    BY <1>1, <2>1, IP!SequenceOf, Zenon
  <2> QED
    BY <1>3, <2>1, <2>2 DEF IP!Pieces
<1>5. /\ v.nested[1].data[i] = u.code
      /\ v.data[i] = IF u.code \in BasicTypes THEN EncodeBasic(u.code, vs[i]) ELSE cell
      /\ cell.chunk \in {0, 1} => v.nested[cell.chunk + 2].data = Chunks(long)[cell.chunk + 1].data
  <2>1. long = [j \in DOMAIN vs |-> RowStream(t, vs[j])]
    OBVIOUS
  <2> HIDE DEF long
  <2>2. MixedLaid(t, vs, order, i, long)
    BY <1>1, <2>1, MixedVector
  <2> QED
    BY <2>2 DEF MixedLaid, v, cell, u
<1>6. /\ cell.chunk \in {0, 1} /\ cell.at \in Nat
      /\ IP!Holds(Chunks(long)[cell.chunk + 1].data, cell.at, long[i])
  <2> HIDE DEF long
  <2> QED
    BY <1>4, ChunkRead
<1> HIDE DEF v, long, cell, u
<1>7. CASE u.code \in BasicTypes
  <2>1. vs[i] # Null
    BY <1>7 DEF u, RowType, Of, BasicTypes, SizeMap
  <2>2. Inner!Type(u) /\ vs[i] \in Inner!Values(u)
    BY <1>2, <2>1 DEF u
  <2>3. DecodeBasicValue(EncodeBasic(u.code, vs[i]), u.code, ctx) = vs[i]
    BY <1>7, <2>2, InnerBasic
  <2>4. DecodeAnyValue(ctx, v, i - 1) = DecodeBasicValue(EncodeBasic(u.code, vs[i]), u.code, ctx)
    BY <1>1, <1>5, <1>7 DEF DecodeAnyValue
  <2> QED
    BY <2>3, <2>4 DEF v
<1>8. CASE u.code \notin BasicTypes
  <2> DEFINE data == Chunks(long)[cell.chunk + 1].data
  <2>1. ChunkOfAny(v, cell) = data
    BY <1>5, <1>6 DEF ChunkOfAny
  <2>2. DecodeAnyValue(ctx, v, i - 1) = InnerDecode!DecodeAnyCompositeValue(ctx, data, cell.at, u.code).got
    BY <1>1, <1>5, <1>8, <2>1 DEF DecodeAnyValue
  <2> HIDE DEF data
  <2>3. CASE vs[i] = Null
    <3>1. u.code = "Unknown"
      BY <2>3 DEF u, RowType, Of
    <3>2. InnerDecode!DecodeAnyCompositeValue(ctx, data, cell.at, "Unknown") = [got |-> Null, at |-> cell.at]
      <4>1. OP!StreamsAssumed(ctx) /\ OP!Null = Null
        BY InnerStreamsRead, SameLevels
      <4>2. \A s : \A at \in Nat :
              InnerDecode!DecodeAnyCompositeValue(ctx, s, at, "Unknown") = [got |-> Null, at |-> at]
        BY <4>1, Zenon DEF OP!StreamsAssumed, OP!NullReadBack
      <4> QED
        BY <1>6, <4>2, Zenon
    <3> QED
      BY <2>2, <2>3, <3>1, <3>2 DEF v
  <2>4. CASE vs[i] # Null
    <3>1. Inner!Type(u) /\ vs[i] \in Inner!Values(u)
      BY <1>2, <2>4 DEF u
    <3>2. long[i] = Inner!Stream(u, vs[i])
      BY <1>4, <1>8, <2>4 DEF RowStream, u
    <3>3. IP!Holds(data, cell.at, Inner!Stream(u, vs[i]))
      BY <1>6, <3>2 DEF data
    <3>4. InnerDecode!DecodeAnyCompositeValue(ctx, data, cell.at, u.code)
            = [got |-> vs[i], at |-> cell.at + Len(Inner!Stream(u, vs[i]))]
      <4>1. \A r : \A at \in Nat : IP!Holds(r, at, Inner!Stream(u, vs[i])) =>
              InnerDecode!DecodeAnyCompositeValue(ctx, r, at, u.code)
                = [got |-> vs[i], at |-> at + Len(Inner!Stream(u, vs[i]))]
        BY <3>1, InnerStreamRead, Zenon
      <4>2. cell.at \in Nat
        BY <1>6
      <4> QED
        BY <3>3, <4>1, <4>2, Zenon
    <3> QED
      BY <2>2, <3>4 DEF v
  <2> QED
    BY <2>3, <2>4
<1> QED
  BY <1>7, <1>8

-----------------------------------------------------------------------------
(* A column's cells, whatever its type.                                    *)
SchemaKept(t, s) ==
  /\ t.code \in Elements => ElementSchema(t, s)
  /\ t.code \in {"Path", "Any"} => s = Of(t.code)
  /\ t.code \notin Elements \cup {"Path", "Any"} => s = OP!SchemaOf(t)

ColumnKind(t) ==
  /\ t.code = "Path" => PathType(t)
  /\ t.code = "Any" => MixedType(t)
  /\ t.code \notin {"Path", "Any"} => Outer!Type(t)

LEMMA ColumnKinds ==
  ASSUME NEW t \in Columns, t.code \notin BasicTypes
  PROVE  ColumnKind(t)
<1>1. ColumnType(t)
  BY ColumnsAssumption
<1>2. CASE t.code = "Path"
  BY <1>1, <1>2 DEF ColumnType, ColumnKind, PathType
<1>3. CASE t.code = "Any"
  BY <1>1, <1>3, Zenon DEF ColumnType, ColumnKind, MixedType
<1>4. CASE t.code \notin {"Path", "Any"}
  <2>1. t.code # "Path" /\ t.code # "Any"
    BY <1>4
  <2>2. Outer!Type(t)
    BY <1>1, <2>1, Zenon DEF ColumnType
  <2> QED
    BY <1>4, <2>1, <2>2 DEF ColumnKind
<1> QED
  BY <1>2, <1>3, <1>4

LEMMA FirstSchema ==
  ASSUME NEW t, ColumnKind(t)
  PROVE  SchemaKept(t, NewTypeSchema(TypeStream(t), 0).got)
<1> DEFINE s == NewTypeSchema(TypeStream(t), 0).got
<1>1. CASE t.code \in {"Path", "Any"}
  <2> DEFINE w == <<t.code>>
  <2>1. TypeStream(t) = w
    BY <1>1 DEF TypeStream
  <2>2. w[0 + 1] = t.code
    OBVIOUS
  <2>3. t.code \notin {"List", "Set", "Map", "Record", "Node", "Edge", "Vector", "Decimal"}
    BY <1>1
  <2> HIDE DEF w
  <2>4. PlainSchema(w, 0).got = Of(t.code)
    BY <2>2, <2>3 DEF PlainSchema
  <2>5. InnerDecode!NewTypeSchema(w, 0) = PlainSchema(w, 0)
    BY <2>2, <2>3 DEF InnerDecode!NewTypeSchema, InnerDecode!Lists, InnerDecode!Elements
  <2>6. OuterDecode!NewTypeSchema(w, 0) = InnerDecode!NewTypeSchema(w, 0)
    BY <2>2, <2>3 DEF OuterDecode!NewTypeSchema, OuterDecode!Lists, OuterDecode!Elements
  <2>7. NewTypeSchema(TypeStream(t), 0).got = Of(t.code)
    BY <2>1, <2>4, <2>5, <2>6 DEF NewTypeSchema
  <2> QED
    BY <1>1, <2>7 DEF SchemaKept, Elements
<1>2. CASE t.code \notin {"Path", "Any"}
  <2>1. Outer!Type(t)
    BY <1>2 DEF ColumnKind
  <2>2. TypeStream(t) = Outer!TypeStream(t)
    BY <1>2 DEF TypeStream
  <2>3. s = OP!SchemaOf(t)
    BY <2>1, <2>2, OuterTypesParsed DEF NewTypeSchema
  <2>4. ASSUME t.code \in Elements PROVE ElementSchema(t, OP!SchemaOf(t))
    <3> DEFINE r == OP!SchemaOf(t)
               g == [p \in DOMAIN t.props |-> StampAt(t, p, 0)]
    <3>1. t.code \notin {"List", "Set", "Map", "Record"} /\ OP!Lists = Lists /\ OP!Elements = Elements
      BY <2>4, SameLevels DEF Elements
    <3>2. r = [code |-> t.code, props |-> g]
      BY <2>4, <3>1 DEF OP!SchemaOf, StampAt, Lists
    <3> HIDE DEF r
    <3>3. r.props = g
      <4> DEFINE c == t.code
      <4> HIDE DEF c, g
      <4>1. r = [code |-> c, props |-> g]
        BY <3>2 DEF c
      <4> QED
        BY <4>1
    <3>4. \A p \in DOMAIN t.props : r.props[p].vectorIndex = 0
      <4> TAKE p \in DOMAIN t.props
      <4>1. r.props[p] = StampAt(t, p, 0)
        BY <3>3
      <4> QED
        BY <4>1 DEF StampAt
    <3>5. g = [p \in DOMAIN t.props |-> StampAt(t, p, r.props[p].vectorIndex)]
      BY <3>4
    <3> HIDE DEF g
    <3>6. r = [code |-> t.code, props |-> [p \in DOMAIN t.props |-> StampAt(t, p, r.props[p].vectorIndex)]]
      BY <3>2, <3>5, Zenon
    <3>7. ElementSchema(t, r)
      BY <3>6, Zenon DEF ElementSchema
    <3> QED
      BY <3>7 DEF r
  <2> QED
    BY <1>2, <2>3, <2>4 DEF SchemaKept
<1> QED
  BY <1>1, <1>2

LEMMA KeptCode ==
  ASSUME NEW t, ColumnKind(t), NEW s, SchemaKept(t, s)
  PROVE  s.code = t.code
<1>1. CASE t.code \in Elements
  <2>1. PICK c, g : c = t.code /\ s = [code |-> c, props |-> g]
    BY <1>1 DEF SchemaKept, ElementSchema
  <2> QED
    BY <2>1
<1>2. CASE t.code \in {"Path", "Any"}
  BY <1>2 DEF SchemaKept, Of
<1>3. CASE t.code \notin Elements \cup {"Path", "Any"}
  <2>1. OP!Type(t) /\ OP!FlatsAssumed(0)
    BY <1>3, OPType, InnerFlatsShown DEF ColumnKind
  <2>2. OP!SchemaOf(t).code = t.code
    BY <2>1, OP!SchemaCode, Zenon
  <2> QED
    BY <1>3, <2>2 DEF SchemaKept
<1> QED
  BY <1>1, <1>2, <1>3

Sendable(t, vs) == IP!IsSeq(vs) /\ \A i \in 1 .. Len(vs) : vs[i] \in ValuesOf(t) \cup {Null}

LEMMA NullShown ==
  ASSUME NEW t
  PROVE  Shows(Null, Null, t)
<1>1. OuterDecode!Null = Null
  BY DEF OuterDecode!Null, Null
<1>2. OuterDecode!Shows(Null, Null, t)
  BY <1>1 DEF OuterDecode!Shows
<1> QED
  BY <1>2 DEF Shows

LEMMA MixedShown ==
  ASSUME NEW t, t.code = "Any", NEW v
  PROVE  Shows(v, v, t)
<1>1. t.code \notin {"List", "Set", "Map", "Record", "Node", "Edge"} /\ t.code \notin Elements
  BY DEF Elements
<1>2. OuterDecode!Null = Null /\ InnerDecode!Null = Null
  BY DEF OuterDecode!Null, InnerDecode!Null, Null
<1>3. CASE v = Null
  BY <1>3, NullShown
<1>4. CASE v # Null
  <2>1. InnerDecode!Shows(v, v, t)
    BY <1>1, <1>2, <1>4 DEF InnerDecode!Shows, InnerDecode!Lists, InnerDecode!Elements, PlainShows
  <2>2. OuterDecode!Shows(v, v, t)
    BY <1>1, <1>2, <1>4, <2>1 DEF OuterDecode!Shows, OuterDecode!Lists, OuterDecode!Elements
  <2> QED
    BY <1>1, <2>2 DEF Shows
<1> QED
  BY <1>3, <1>4

(* The bits tell where the nulls are.                                      *)
LEMMA NullsTold ==
  ASSUME NEW vs, IP!IsSeq(vs), NEW v, v.nulls = NullBits(vs), NEW i \in 1 .. Len(vs)
  PROVE  IsNull(v, i - 1) <=> vs[i] = Null
<1>1. v.nulls = IP!NullBits(vs) /\ IP!Null = Null
  BY SameToolkit
<1>2. IP!IsNull(v, i - 1) <=> vs[i] = IP!Null
  BY <1>1, IP!NullBitsRead
<1>3. IP!IsNull(v, i - 1) <=> IsNull(v, i - 1)
  BY DEF IP!IsNull, IsNull
<1> QED
  BY <1>1, <1>2, <1>3

CellAt(ctx, v, index, s) == IF IsNull(v, index) THEN Null ELSE DecodeFlatValue(ctx, v, index, s)

LEMMA FlatCells ==
  ASSUME NEW ctx, NEW t, ColumnKind(t), t.code # "Path", NEW s, SchemaKept(t, s), NEW order,
         t.code \in Elements => StampedSo(t, s, order),
         NEW vs, Sendable(t, vs), NEW i \in 1 .. Len(vs)
  PROVE  Shows(CellAt(ctx, Flat(t, vs, order), i - 1, s), vs[i], t)
<1> DEFINE v == Flat(t, vs, order)
<1>1. s.code = t.code /\ IP!IsSeq(vs)
  BY KeptCode DEF Sendable
<1>2. CASE t.code = "Any"
  <2>1. v = AnyFlat(t, vs, order)
    BY <1>2 DEF Flat
  <2>2. MixedType(t) /\ MixedColumn(t, vs)
    <3>1. ValuesOf(t) = UNION {Inner!Values(u) : u \in t.held}
      BY <1>2 DEF ValuesOf
    <3> QED
      BY <1>2, <3>1 DEF Sendable, MixedColumn, ColumnKind
  <2>3. DecodeFlatValue(ctx, v, i - 1, s) = vs[i]
    BY <1>1, <1>2, <2>1, <2>2, MixedCell DEF DecodeFlatValue
  <2>4. v.nulls = IF order = "reversed" THEN NullBits(vs) ELSE <<>>
    <3> DEFINE long == [j \in DOMAIN vs |-> RowStream(t, vs[j])]
    <3>1. long = [j \in DOMAIN vs |-> RowStream(t, vs[j])]
      OBVIOUS
    <3> HIDE DEF long
    <3>2. MixedLaid(t, vs, order, i, long)
      BY <1>1, <3>1, MixedVector
    <3> QED
      BY <2>1, <3>2 DEF MixedLaid
  <2> HIDE DEF v
  <2>5. IsNull(v, i - 1) => vs[i] = Null
    <3>1. CASE order = "reversed"
      <4>1. v.nulls = NullBits(vs)
        BY <2>4, <3>1
      <4> QED
        BY <1>1, <4>1, NullsTold
    <3>2. CASE order # "reversed"
      BY <2>4, <3>2 DEF IsNull
    <3> QED
      BY <3>1, <3>2
  <2>6. CellAt(ctx, v, i - 1, s) = vs[i]
    BY <2>3, <2>5 DEF CellAt
  <2>7. Shows(vs[i], vs[i], t)
    BY <1>2, MixedShown
  <2> QED
    BY <2>6, <2>7 DEF v
<1>3. CASE t.code # "Any"
  <2>1. v = Outer!Flat(t, vs, order) /\ Outer!Type(t)
    BY <1>3 DEF Flat, ColumnKind
  <2>2. ValueColumn(t, vs)
    <3>1. ValuesOf(t) = Outer!Values(t)
      BY <1>3 DEF ValuesOf
    <3> QED
      BY <3>1 DEF Sendable, ValueColumn
  <2>3. v.nulls = NullBits(vs)
    BY <2>1, <2>2, OuterFlatsShown
  <2> DEFINE d == OuterDecode!DecodeFlatValue(ctx, v, i - 1, s)
  <2>4. DecodeFlatValue(ctx, v, i - 1, s) = d
    BY <1>1, <1>3 DEF DecodeFlatValue
  <2>5. CASE vs[i] = Null
    <3>1. CellAt(ctx, v, i - 1, s) = Null
      <4> HIDE DEF v
      <4> QED
        BY <1>1, <2>3, <2>5, NullsTold DEF CellAt
    <3> QED
      BY <2>5, <3>1, NullShown
  <2>6. CASE vs[i] # Null
    <3>1. CellAt(ctx, v, i - 1, s) = d
      <4> HIDE DEF v, d
      <4> QED
        BY <1>1, <2>3, <2>4, <2>6, NullsTold DEF CellAt
    <3>2. CASE t.code \in Elements
      <4>1. ElementSchema(t, s)
        BY <3>2 DEF SchemaKept
      <4>2. OuterDecode!Shows(d, vs[i], t)
        BY <2>1, <2>2, <2>6, <3>2, <4>1, ElementsHeads
      <4>3. PropertyShown(d, vs[i], t)
        BY <2>1, <2>2, <2>6, <3>2, <4>1, ElementsProperties
      <4> HIDE DEF v, d
      <4> QED
        BY <3>1, <4>2, <4>3 DEF Shows, PropertyShown, v
    <3>3. CASE t.code \notin Elements
      <4>1. s = OP!SchemaOf(t)
        BY <1>3, <3>3 DEF SchemaKept
      <4>2. OuterDecode!Shows(d, vs[i], t)
        BY <2>1, <2>2, <2>6, <4>1, OuterFlatsShown
      <4> HIDE DEF v, d
      <4> QED
        BY <3>1, <3>3, <4>2 DEF Shows, v
    <3> QED
      BY <3>2, <3>3
  <2> QED
    BY <2>5, <2>6
<1> QED
  BY <1>2, <1>3

LEMMA ConstCells ==
  ASSUME NEW ctx, NEW t, ColumnKind(t), t.code # "Any", NEW v \in ValuesOf(t)
  PROVE  DecodeStream(ctx, Stream(t, v), 0, t.code).got = v
<1>1. CASE t.code = "Path"
  <2>1. PathType(t)
    BY <1>1 DEF ColumnKind
  <2> QED
    BY <1>1, <2>1, PathsRead DEF DecodeStream
<1>2. CASE t.code # "Path"
  <2>1. Outer!Type(t) /\ v \in Outer!Values(t)
    BY <1>2 DEF ColumnKind, ValuesOf
  <2>2. Stream(t, v) = Outer!Stream(t, v)
    BY <1>2 DEF Stream
  <2>3. OuterDecode!DecodeAnyCompositeValue(ctx, Outer!Stream(t, v), 0, t.code).got = v
    BY <2>1, OuterValuesRead
  <2> QED
    BY <1>2, <2>2, <2>3 DEF DecodeStream
<1> QED
  BY <1>1, <1>2

-----------------------------------------------------------------------------
(* Batch by batch.  Every decoded row is shown, whatever came before: the  *)
(* schema is the column's, stamped for the batch, and the kept value of a  *)
(* const vector is the batch's own.                                        *)
RowShown(l, d, v, t) == IF l = "const" THEN d = v ELSE Shows(d, v, t)

ValueRows(t, s, l, vs, ds, kept) ==
  /\ SchemaKept(t, s)
  /\ l \in {"flat", "reversed"} /\ t.code \in Elements => StampedSo(t, s, l)
  /\ l = "const" => t.code # "Any"
  /\ l \in {"flat", "reversed"} => t.code # "Path"
  /\ l \in Layouts
  /\ Sendable(t, vs) /\ Len(vs) <= MaxRecords
  /\ IP!IsSeq(ds) /\ Len(ds) <= Len(vs)
  /\ \A r \in 1 .. Len(ds) : RowShown(l, ds[r], vs[r], t)
  /\ l = "const" => \A r \in 1 .. Len(vs) : vs[r] = vs[1]
  /\ l # "const" => kept = NoValue
  /\ l = "none" => vs = <<>> /\ ds = <<>>
  /\ kept # NoValue => kept = vs[1]

ValuesInv ==
  /\ column \in Columns /\ column.code \notin BasicTypes /\ zone = 0
  /\ ValueRows(column, schema, layout, sent, decoded, cachedConst)

LEMMA AppendedTo ==
  ASSUME NEW s, IP!IsSeq(s), NEW x
  PROVE  /\ IP!IsSeq(Append(s, x)) /\ Len(Append(s, x)) = Len(s) + 1
         /\ \A i \in 1 .. Len(s) : Append(s, x)[i] = s[i]
         /\ Append(s, x)[Len(s) + 1] = x
<1> DEFINE S == {s[i] : i \in 1 .. Len(s)} \cup {x}
<1>1. s \in Seq(S)
  <2>1. \A i \in 1 .. Len(s) : s[i] \in S
    OBVIOUS
  <2> HIDE DEF S
  <2> QED
    BY <2>1, IP!SequenceOver
<1>2. x \in S
  OBVIOUS
<1> HIDE DEF S
<1> DEFINE r == Append(s, x)
<1>3. /\ r \in Seq(S) /\ Len(r) = Len(s) + 1 /\ r[Len(s) + 1] = x
      /\ \A i \in 1 .. Len(s) : r[i] = s[i]
  BY <1>1, <1>2
<1> HIDE DEF r
<1>4. IP!IsSeq(r)
  BY <1>3, IP!IsSequence
<1> QED
  BY <1>3, <1>4 DEF r

LEMMA LayoutsSent ==
  /\ BatchLayouts \subseteq {"flat", "reversed", "const"}
  /\ "const" \in BatchLayouts => column.code # "Any"
  /\ {"flat", "reversed"} \cap BatchLayouts # {} => column.code # "Path"
<1>1. CASE column.code = "Path"
  <2>1. BatchLayouts = {"const"}
    BY <1>1 DEF BatchLayouts, Elements
  <2> QED
    BY <1>1, <2>1
<1>2. CASE column.code = "Any"
  <2>1. BatchLayouts = {"flat", "reversed"}
    BY <1>2 DEF BatchLayouts, Elements
  <2> QED
    BY <1>2, <2>1
<1>3. CASE column.code \notin {"Path", "Any"}
  BY <1>3 DEF BatchLayouts, Elements
<1> QED
  BY <1>1, <1>2, <1>3

(* A batch arrives.                                                        *)
LEMMA BatchesSent ==
  ASSUME NEW l, NEW vs \in ValueBatches(l)
  PROVE  /\ Sendable(column, vs) /\ Len(vs) <= MaxRecords
         /\ l = "const" => \A r \in 1 .. Len(vs) : vs[r] = vs[1]
<1> DEFINE each == ValuesOf(column) \cup {Null}
<1>1. CASE l = "const"
  <2>1. PICK n \in 1 .. MaxRecords, x \in each : vs = [i \in 1 .. n |-> x]
    BY <1>1 DEF ValueBatches
  <2>2. n \in Nat /\ n >= 1 /\ n <= MaxRecords
    BY MaxRecordsAssumption
  <2> HIDE DEF each
  <2>3. vs = [i \in 1 .. n |-> vs[i]] /\ \A i \in 1 .. n : vs[i] = x
    BY <2>1
  <2>4. IP!IsSeq(vs) /\ Len(vs) = n
    BY <2>2, <2>3, IP!SequenceOf, Zenon
  <2> QED
    BY <2>2, <2>3, <2>4 DEF Sendable, each
<1>2. CASE l # "const"
  <2>1. PICK n \in 1 .. MaxRecords : vs \in [1 .. n -> each]
    BY <1>2 DEF ValueBatches
  <2>2. n \in Nat /\ n <= MaxRecords
    BY MaxRecordsAssumption
  <2> HIDE DEF each
  <2>3. vs = [i \in 1 .. n |-> vs[i]] /\ \A i \in 1 .. n : vs[i] \in each
    BY <2>1
  <2>4. IP!IsSeq(vs) /\ Len(vs) = n
    BY <2>2, <2>3, IP!SequenceOf, Zenon
  <2> QED
    BY <1>2, <2>2, <2>3, <2>4 DEF Sendable, each
<1> QED
  BY <1>1, <1>2

LEMMA SchemaPrepared ==
  ASSUME ValuesInv, NEW l \in {"flat", "reversed", "const"}
  PROVE  /\ SchemaKept(column, Prepared(l))
         /\ l \in {"flat", "reversed"} /\ column.code \in Elements => StampedSo(column, Prepared(l), l)
<1>1. SchemaKept(column, schema)
  BY DEF ValuesInv, ValueRows
<1>2. CASE column.code \notin Elements \/ l = "const"
  <2>1. Prepared(l) = schema
    BY <1>2 DEF Prepared
  <2> QED
    BY <1>1, <1>2, <2>1
<1>3. CASE column.code \in Elements /\ l # "const"
  <2>1. Prepared(l) = StampedFor(column, schema, l)
    BY <1>3, Zenon DEF Prepared, StampedFor, Listed
  <2>2. ElementSchema(column, schema) /\ column.code \notin {"Path", "Any"}
    BY <1>1, <1>3 DEF SchemaKept, Elements
  <2>3. Outer!Type(column)
    BY <2>2, ColumnKinds DEF ValuesInv, ColumnKind
  <2>4. ElementSchema(column, Prepared(l)) /\ StampedSo(column, Prepared(l), l)
    BY <1>3, <2>1, <2>2, <2>3, StampsFit
  <2> QED
    BY <1>3, <2>2, <2>4 DEF SchemaKept
<1> QED
  BY <1>2, <1>3

LEMMA BatchRead ==
  ASSUME ValuesInv, ReadValues
  PROVE  ValuesInv'
<1>1. PICK l \in BatchLayouts :
        /\ layout = "none" /\ layout' = l /\ sent' \in ValueBatches(l) /\ schema' = Prepared(l)
        /\ UNCHANGED <<column, zone, cachedConst, decoded>>
  BY DEF ReadValues, ReadRows
<1>2. l \in {"flat", "reversed", "const"} /\ (l = "const" => column.code # "Any")
      /\ (l \in {"flat", "reversed"} => column.code # "Path")
  BY LayoutsSent
<1>3. /\ Sendable(column, sent') /\ Len(sent') <= MaxRecords
      /\ l = "const" => \A r \in 1 .. Len(sent') : sent'[r] = sent'[1]
  BY <1>1, BatchesSent
<1>4. /\ SchemaKept(column, schema')
      /\ l \in {"flat", "reversed"} /\ column.code \in Elements => StampedSo(column, schema', l)
  BY <1>1, <1>2, SchemaPrepared
<1>5. decoded = <<>> /\ cachedConst = NoValue
  BY <1>1 DEF ValuesInv, ValueRows
<1>6. IP!IsSeq(decoded') /\ Len(decoded') = 0 /\ Len(sent') \in Nat
  BY <1>1, <1>3, <1>5, IP!EmptySequence DEF Sendable, IP!IsSeq
<1>7. ValueRows(column, schema', l, sent', decoded', cachedConst')
  BY <1>1, <1>2, <1>3, <1>4, <1>5, <1>6 DEF ValueRows, Layouts
<1> QED
  BY <1>1, <1>7 DEF ValuesInv

(* The next row is decoded.                                                *)
LEMMA RowAdded ==
  ASSUME NEW t, NEW s, NEW l, NEW vs, NEW ds, NEW kept, ValueRows(t, s, l, vs, ds, kept),
         l # "none", Len(ds) < Len(vs),
         NEW d, RowShown(l, d, vs[Len(ds) + 1], t), NEW now, l # "const" => now = NoValue,
         now # NoValue => now = vs[1]
  PROVE  ValueRows(t, s, l, vs, Append(ds, d), now)
<1> DEFINE es == Append(ds, d)
           n == Len(ds)
<1>1. IP!IsSeq(ds) /\ n \in Nat /\ Len(vs) \in Nat
  BY DEF ValueRows, Sendable, IP!IsSeq
<1>2. IP!IsSeq(es) /\ Len(es) = n + 1 /\ (\A i \in 1 .. n : es[i] = ds[i]) /\ es[n + 1] = d
  BY <1>1, AppendedTo
<1>3. Len(es) <= Len(vs)
  BY <1>1, <1>2
<1> HIDE DEF es, n
<1>4. \A r \in 1 .. Len(es) : RowShown(l, es[r], vs[r], t)
  <2> TAKE r \in 1 .. Len(es)
  <2>1. CASE r = n + 1
    BY <1>2, <2>1 DEF n
  <2>2. CASE r # n + 1
    <3>1. r \in 1 .. n
      BY <1>1, <1>2, <2>2 DEF n
    <3>2. RowShown(l, ds[r], vs[r], t)
      BY <3>1 DEF ValueRows, n
    <3> QED
      BY <1>2, <3>1, <3>2
  <2> QED
    BY <2>1, <2>2
<1>5. ValueRows(t, s, l, vs, es, now)
  BY <1>2, <1>3, <1>4 DEF ValueRows
<1> QED
  BY <1>5 DEF es

LEMMA FlatRowAdded ==
  ASSUME ValuesInv, DecodeFlatRow
  PROVE  ValuesInv'
<1> DEFINE i == Len(decoded) + 1
           d == DecodeCell(Flat(column, sent, layout), Len(decoded), schema)
<1>1. /\ layout \in {"flat", "reversed"} /\ Len(decoded) < Len(sent) /\ decoded' = Append(decoded, d)
      /\ UNCHANGED <<column, zone, schema, layout, sent, cachedConst>>
  BY DEF DecodeFlatRow, DecodeFlat
<1>2. ValueRows(column, schema, layout, sent, decoded, cachedConst)
  BY DEF ValuesInv
<1>3. i \in 1 .. Len(sent) /\ i - 1 = Len(decoded)
  BY <1>1, <1>2 DEF ValueRows, Sendable, IP!IsSeq
<1>4. d = CellAt(TimezoneOffset, Flat(column, sent, layout), i - 1, schema)
  <2> HIDE DEF i
  <2> QED
    BY <1>3 DEF DecodeCell, CellAt
<1>5. Shows(d, sent[i], column)
  <2>1. ColumnKind(column)
    BY ColumnKinds DEF ValuesInv
  <2>2. /\ column.code # "Path" /\ SchemaKept(column, schema) /\ Sendable(column, sent)
        /\ column.code \in Elements => StampedSo(column, schema, layout)
    BY <1>1, <1>2 DEF ValueRows
  <2> HIDE DEF d, i
  <2>3. Shows(CellAt(TimezoneOffset, Flat(column, sent, layout), i - 1, schema), sent[i], column)
    BY <1>3, <2>1, <2>2, FlatCells
  <2> QED
    BY <1>4, <2>3
<1>6. RowShown(layout, d, sent[Len(decoded) + 1], column)
  BY <1>1, <1>5 DEF RowShown
<1>7. cachedConst = NoValue
  BY <1>1, <1>2 DEF ValueRows
<1> HIDE DEF d
<1>8. ValueRows(column, schema, layout, sent, Append(decoded, d), cachedConst)
  BY <1>1, <1>2, <1>6, <1>7, RowAdded
<1> QED
  BY <1>1, <1>8 DEF ValuesInv

LEMMA ConstRowAdded ==
  ASSUME ValuesInv, DecodeConstRow
  PROVE  ValuesInv'
<1> DEFINE first == DecodeConstValue(sent[1] # Null, IF sent[1] = Null THEN <<>> ELSE Stream(column, sent[1]), schema)
           value == IF cachedConst # NoValue THEN cachedConst ELSE first
<1>1. /\ layout = "const" /\ Len(decoded) < Len(sent) /\ decoded' = Append(decoded, value) /\ cachedConst' = value
      /\ UNCHANGED <<column, zone, schema, layout, sent>>
  BY DEF DecodeConstRow, DecodeConst
<1>2. ValueRows(column, schema, layout, sent, decoded, cachedConst)
  BY DEF ValuesInv
<1>3. Len(decoded) + 1 \in 1 .. Len(sent) /\ 1 \in 1 .. Len(sent)
  BY <1>1, <1>2 DEF ValueRows, Sendable, IP!IsSeq
<1>4. sent[Len(decoded) + 1] = sent[1] /\ sent[1] \in ValuesOf(column) \cup {Null}
  BY <1>1, <1>2, <1>3 DEF ValueRows, Sendable
<1>5. first = sent[1]
  <2>1. ColumnKind(column) /\ column.code # "Any"
    BY <1>1, <1>2, ColumnKinds DEF ValuesInv, ValueRows
  <2>2. schema.code = column.code
    BY <1>2, <2>1, KeptCode DEF ValueRows
  <2>3. CASE sent[1] = Null
    BY <2>3 DEF DecodeConstValue
  <2>4. CASE sent[1] # Null
    <3>1. first = DecodeStream(TimezoneOffset, Stream(column, sent[1]), 0, column.code).got
      BY <2>2, <2>4 DEF DecodeConstValue
    <3>2. DecodeStream(TimezoneOffset, Stream(column, sent[1]), 0, column.code).got = sent[1]
      BY <1>4, <2>1, <2>4, ConstCells
    <3> HIDE DEF first
    <3> QED
      BY <3>1, <3>2
  <2> QED
    BY <2>3, <2>4
<1> HIDE DEF first
<1>6. value = sent[1]
  BY <1>2, <1>5 DEF ValueRows
<1> HIDE DEF value
<1>7. RowShown(layout, value, sent[Len(decoded) + 1], column)
  BY <1>1, <1>4, <1>6 DEF RowShown
<1>8. ValueRows(column, schema, layout, sent, Append(decoded, value), value)
  BY <1>1, <1>2, <1>6, <1>7, RowAdded
<1> QED
  BY <1>1, <1>8 DEF ValuesInv

LEMMA BatchEnds ==
  ASSUME ValuesInv, EndValues
  PROVE  ValuesInv'
<1>1. /\ layout' = "none" /\ sent' = <<>> /\ decoded' = <<>> /\ cachedConst' = NoValue
      /\ UNCHANGED <<column, zone, schema>>
  BY DEF EndValues, EndRows
<1>2. SchemaKept(column, schema)
  BY DEF ValuesInv, ValueRows
<1>3. IP!IsSeq(<<>>) /\ Len(<<>>) = 0 /\ 0 <= MaxRecords
  BY IP!EmptySequence, MaxRecordsAssumption
<1>4. Sendable(column, <<>>)
  BY <1>3 DEF Sendable
<1>5. ValueRows(column, schema', "none", <<>>, <<>>, NoValue)
  BY <1>1, <1>2, <1>3, <1>4 DEF ValueRows, Layouts
<1> QED
  BY <1>1, <1>5 DEF ValuesInv

LEMMA ValuesStart ==
  ASSUME ValuesInit
  PROVE  ValuesInv
<1>1. column \in Columns /\ column.code \notin BasicTypes /\ zone = 0
      /\ layout = "none" /\ sent = <<>> /\ decoded = <<>> /\ cachedConst = NoValue
  BY DEF ValuesInit
<1>2. SchemaKept(column, schema)
  BY <1>1, ColumnKinds, FirstSchema DEF ValuesInit
<1>3. IP!IsSeq(<<>>) /\ Len(<<>>) = 0 /\ 0 <= MaxRecords
  BY IP!EmptySequence, MaxRecordsAssumption
<1>4. Sendable(column, <<>>)
  BY <1>3 DEF Sendable
<1>5. ValueRows(column, schema, "none", <<>>, <<>>, NoValue)
  BY <1>2, <1>3, <1>4 DEF ValueRows, Layouts
<1> QED
  BY <1>1, <1>5 DEF ValuesInv

LEMMA ValuesKept ==
  ASSUME ValuesInv, [ValuesNext]_rowVars
  PROVE  ValuesInv'
<1>1. CASE ReadValues
  BY <1>1, BatchRead
<1>2. CASE DecodeFlatRow
  BY <1>2, FlatRowAdded
<1>3. CASE DecodeConstRow
  BY <1>3, ConstRowAdded
<1>4. CASE EndValues
  BY <1>4, BatchEnds
<1>5. CASE UNCHANGED rowVars
  BY <1>5 DEF ValuesInv, rowVars
<1> QED
  BY <1>1, <1>2, <1>3, <1>4, <1>5 DEF ValuesNext

LEMMA ValuesShown ==
  ASSUME ValuesInv
  PROVE  ValuesFaithful
<1>1. ValueRows(column, schema, layout, sent, decoded, cachedConst)
  BY DEF ValuesInv
<1>2. DOMAIN decoded = 1 .. Len(decoded)
  BY <1>1 DEF ValueRows, IP!IsSeq
<1> QED
  BY <1>1, <1>2 DEF ValueRows, RowShown, ValuesFaithful

(* Values with parts and without: every row decoded of a column is the row *)
(* the server sent, but for what Shows says.                               *)
THEOREM ValuesComeBack == ValuesSpec => []ValuesFaithful
<1>1. ValuesInit => ValuesInv
  BY ValuesStart
<1>2. ValuesInv /\ [ValuesNext]_rowVars => ValuesInv'
  BY ValuesKept
<1>3. ValuesInv => ValuesFaithful
  BY ValuesShown
<1> QED
  BY <1>1, <1>2, <1>3, PTL DEF ValuesSpec

-----------------------------------------------------------------------------
(* Columns.  A column is of one part, and the state of the others rests.   *)
ColumnInv ==
  /\ part \in {"elements", "basics", "values"}
  /\ part = "elements" => DecodeInv /\ NoRows
  /\ part = "basics" => NoElements /\ RowsInv
  /\ part = "values" => NoElements /\ ValuesInv

(* A finite set in some order.                                             *)
LEMMA OrderOf ==
  ASSUME NEW S, IsFiniteSet(S)
  PROVE  SetToSeq(S) \in Permuted(S)
<1> DEFINE n == Cardinality(S)
           s == SetToSeq(S)
<1>1. n \in Nat /\ ExistsBijection(1 .. n, S)
  BY FS_CardinalityType
<1>2. \E f \in [1 .. n -> S] : IsInjective(f)
  BY <1>1 DEF ExistsBijection, Bijection, Injection, IsInjective
<1>3. s \in [1 .. n -> S] /\ IsInjective(s)
  BY <1>2 DEF SetToSeq
<1> HIDE DEF s
<1>4. s \in Injection(1 .. n, S)
  BY <1>3 DEF Injection, IsInjective
<1>5. IsFiniteSet(1 .. n) /\ Cardinality(1 .. n) = n
  BY <1>1, FS_Interval
<1>6. s \in Surjection(1 .. n, S)
  BY <1>4, <1>5, FS_Injection
<1>7. \A x \in S : \E i \in DOMAIN s : s[i] = x
  BY <1>3, <1>6 DEF Surjection
<1> QED
  BY <1>3, <1>7 DEF Permuted, s

LEMMA RestingElements ==
  ASSUME NoElements
  PROVE  TypeOK /\ DecodedFaithfully /\ NeverThrows
<1> DEFINE n == SetToSeq(NodeTypes)
           e == SetToSeq(EdgeTypes)
           order == [t \in Types |-> SetToSeq(Props)]
<1>1. n \in Permuted(NodeTypes) /\ e \in Permuted(EdgeTypes) /\ order \in [Types -> Permuted(Props)]
  BY OrderOf, TypesAssumption
<1>2. n[1] \in NodeTypes
  <2>1. Cardinality(NodeTypes) \in Nat /\ Cardinality(NodeTypes) # 0
    BY TypesAssumption, FS_CardinalityType, FS_EmptySet
  <2>2. 1 \in 1 .. Cardinality(NodeTypes)
    BY <2>1
  <2>3. \A i \in 1 .. Cardinality(NodeTypes) : n[i] \in NodeTypes
    BY <1>1, PermutedFacts, TypesAssumption
  <2> QED
    BY <2>2, <2>3
<1>3. batch = [rows |-> <<>>, order |-> order, nodes |-> n, edges |-> e, end |-> n[1]]
  BY DEF NoElements
<1>4. /\ kind = "node" /\ pairs = NoPairs /\ walk = NoWalk /\ rows = <<>>
      /\ stamp = [t \in Types |-> [p \in Props |-> 1]]
  BY DEF NoElements
<1> HIDE DEF n, e, order
<1>5. <<>> \in UNION {[1 .. m -> RowsOf(kind)] : m \in 0 .. MaxRows}
  <2>1. 0 \in 0 .. MaxRows
    BY BoundsAssumption
  <2>2. <<>> \in [1 .. 0 -> RowsOf(kind)]
    OBVIOUS
  <2> QED
    BY <2>1, <2>2
<1>6. batch \in Batches /\ batch.rows = <<>>
  BY <1>1, <1>2, <1>3, <1>5 DEF Batches
<1>7. Init
  BY <1>4, <1>6 DEF Init
<1> QED
  BY <1>7, ElementsStart, ElementsFaithful, WalkReads DEF DecodeInv

LEMMA RestingRows ==
  ASSUME NoRows
  PROVE  LiteralsReadBack /\ ValuesFaithful
<1>1. DOMAIN decoded = {}
  <2>1. decoded = <<>>
    BY DEF NoRows
  <2> QED
    BY <2>1, EmptySeq
<1> QED
  BY <1>1 DEF LiteralsReadBack, ValuesFaithful

LEMMA RowsTyped ==
  ASSUME RowsInv \/ ValuesInv
  PROVE  RowsTypeOK
<1>1. CASE RowsInv
  BY <1>1 DEF RowsInv, RowsTypeOK, Layouts
<1>2. CASE ValuesInv
  <2>1. column \in Columns /\ zone = 0 /\ ValueRows(column, schema, layout, sent, decoded, cachedConst)
    BY <1>2 DEF ValuesInv
  <2>2. /\ layout \in Layouts /\ Len(decoded) <= Len(sent) /\ Len(sent) <= MaxRecords
        /\ layout = "none" => sent = <<>>
    BY <2>1 DEF ValueRows
  <2> QED
    BY <2>1, <2>2, ZonesAssumption DEF RowsTypeOK
<1> QED
  BY <1>1, <1>2

LEMMA ColumnStarts ==
  ASSUME ColumnInit
  PROVE  ColumnInv
<1>1. CASE part = "elements" /\ Init /\ NoRows
  BY <1>1, ElementsStart DEF ColumnInv
<1>2. CASE part = "basics" /\ NoElements /\ BasicInit
  BY <1>2, BasicStart DEF ColumnInv
<1>3. CASE part = "values" /\ NoElements /\ ValuesInit
  BY <1>3, ValuesStart DEF ColumnInv
<1> QED
  BY <1>1, <1>2, <1>3 DEF ColumnInit

(* The state that rests is not touched.                                    *)
LEMMA ElementsRest ==
  ASSUME NoElements, UNCHANGED vars
  PROVE  NoElements'
BY DEF NoElements, vars, NoPairs

LEMMA RowsRest ==
  ASSUME NoRows, UNCHANGED rowVars
  PROVE  NoRows'
BY DEF NoRows, rowVars

LEMMA ColumnKept ==
  ASSUME ColumnInv, [ColumnNext]_columnVars
  PROVE  ColumnInv'
<1>1. /\ part \in {"elements", "basics", "values"}
      /\ part = "elements" => DecodeInv /\ NoRows
      /\ part = "basics" => NoElements /\ RowsInv
      /\ part = "values" => NoElements /\ ValuesInv
  BY DEF ColumnInv
<1>2. /\ part' = part
      /\ part = "elements" => [Next]_vars /\ UNCHANGED rowVars
      /\ part = "basics" => UNCHANGED vars /\ [BasicNext]_rowVars
      /\ part = "values" => UNCHANGED vars /\ [ValuesNext]_rowVars
  BY DEF ColumnNext, columnVars
<1>3. CASE part = "elements"
  BY <1>1, <1>2, <1>3, ElementsKept, RowsRest DEF ColumnInv
<1>4. CASE part = "basics"
  BY <1>1, <1>2, <1>4, BasicKept, ElementsRest DEF ColumnInv
<1>5. CASE part = "values"
  BY <1>1, <1>2, <1>5, ValuesKept, ElementsRest DEF ColumnInv
<1> QED
  BY <1>1, <1>3, <1>4, <1>5

LEMMA ColumnShown ==
  ASSUME ColumnInv
  PROVE  ColumnTypeOK /\ DecodedFaithfully /\ NeverThrows /\ LiteralsReadBack /\ ValuesFaithful
<1>1. CASE part = "elements"
  <2>1. DecodeInv /\ NoRows
    BY <1>1 DEF ColumnInv
  <2> QED
    BY <1>1, <2>1, ElementsFaithful, WalkReads, RestingRows DEF ColumnTypeOK, DecodeInv
<1>2. CASE part = "basics"
  <2>1. NoElements /\ RowsInv
    BY <1>2 DEF ColumnInv
  <2>2. ValuesFaithful
    BY <2>1 DEF RowsInv, ValuesFaithful
  <2> QED
    BY <2>1, <2>2, RestingElements, RowsTyped, BasicsReadBack DEF ColumnTypeOK
<1>3. CASE part = "values"
  <2>1. NoElements /\ ValuesInv
    BY <1>3 DEF ColumnInv
  <2>2. LiteralsReadBack
    BY <2>1 DEF ValuesInv, LiteralsReadBack
  <2> QED
    BY <2>1, <2>2, RestingElements, RowsTyped, ValuesShown DEF ColumnTypeOK
<1> QED
  BY <1>1, <1>2, <1>3 DEF ColumnInv

(* A column of whatever part stays what decodeResultTable makes of it:     *)
(* each part keeps its own invariant and does not touch the others.        *)
THEOREM ColumnCorrect == ColumnSpec => []ColumnInv
<1>1. ColumnInit => ColumnInv
  BY ColumnStarts
<1>2. ColumnInv /\ [ColumnNext]_columnVars => ColumnInv'
  BY ColumnKept
<1> QED
  BY <1>1, <1>2, PTL DEF ColumnSpec

(* Every state of a column has the type the model states.                  *)
THEOREM ColumnTypes == ColumnSpec => []ColumnTypeOK
<1>1. ColumnInv => ColumnTypeOK
  BY ColumnShown
<1> QED
  BY <1>1, ColumnCorrect, PTL

(* What the decoder hands to the tool is what the server sent, in columns  *)
(* of every kind, and no well-formed batch makes it throw.                 *)
THEOREM ColumnsComeBack ==
  ColumnSpec => [](DecodedFaithfully /\ NeverThrows /\ LiteralsReadBack /\ ValuesFaithful)
<1>1. ColumnInv => DecodedFaithfully /\ NeverThrows /\ LiteralsReadBack /\ ValuesFaithful
  BY ColumnShown
<1> QED
  BY <1>1, ColumnCorrect, PTL
=============================================================================
