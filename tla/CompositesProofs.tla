-------------------------- MODULE CompositesProofs --------------------------
(***************************************************************************)
(* Proofs about CompositeFormat and CompositeDecode: whatever the parts    *)
(* are, if what the server writes of a part is read back, then so is what  *)
(* it writes of a value made of such parts.  DecoderProofs takes this      *)
(* module once for each level of types.                                    *)
(***************************************************************************)
EXTENDS CompositeFormat, CompositeDecode, NaturalsInduction, WellFoundedInduction, FiniteSetTheorems, TLAPS

CONSTANT PartSchemaOf(_)   \* the schema newTypeSchema makes of a part's type

-----------------------------------------------------------------------------
(* A set of naturals that is not empty has a least one.                    *)
LEMMA LeastNumber ==
  ASSUME NEW S \in SUBSET Nat, S # {}
  PROVE  \E n \in S : \A m \in S : n <= m
<1>1. PICK n \in S : \A m \in S : ~(<<m, n>> \in OpToRel(<, Nat))
  BY NatLessThanWellFounded, WFMin
<1>2. \A m \in S : ~(m < n)
  BY <1>1 DEF OpToRel
<1>3. QED
  BY <1>2

(* Sequences.                                                              *)
IsSeq(s) == Len(s) \in Nat /\ s = [i \in 1 .. Len(s) |-> s[i]]

LEMMA SequenceOver ==
  ASSUME NEW s, IsSeq(s), NEW S, \A i \in 1 .. Len(s) : s[i] \in S
  PROVE  s \in Seq(S)
BY DEF IsSeq

LEMMA IsSequence ==
  ASSUME NEW S, NEW s \in Seq(S)
  PROVE  IsSeq(s) /\ DOMAIN s = 1 .. Len(s)
BY DEF IsSeq

LEMMA SequenceOf ==
  ASSUME NEW n \in Nat, NEW f, f = [i \in 1 .. n |-> f[i]]
  PROVE  IsSeq(f) /\ Len(f) = n
<1> DEFINE S == {f[i] : i \in 1 .. n}
<1>1. f \in [1 .. n -> S]
  OBVIOUS
<1> HIDE DEF S
<1>2. f \in Seq(S) /\ Len(f) = n
  BY <1>1
<1> QED
  BY <1>2 DEF IsSeq

LEMMA SequenceDomain ==
  ASSUME NEW s, IsSeq(s)
  PROVE  DOMAIN s = 1 .. Len(s) /\ Len(s) \in Nat
BY DEF IsSeq

LEMMA SameSequence ==
  ASSUME NEW s, NEW r, IsSeq(s), IsSeq(r), Len(s) = Len(r), \A i \in 1 .. Len(s) : s[i] = r[i]
  PROVE  s = r
BY DEF IsSeq

LEMMA Concatenated ==
  ASSUME NEW s, NEW r, IsSeq(s), IsSeq(r)
  PROVE  /\ IsSeq(s \o r) /\ Len(s \o r) = Len(s) + Len(r)
         /\ \A i \in 1 .. Len(s) : (s \o r)[i] = s[i]
         /\ \A i \in 1 .. Len(r) : (s \o r)[Len(s) + i] = r[i]
<1> DEFINE S == {s[i] : i \in 1 .. Len(s)} \cup {r[i] : i \in 1 .. Len(r)}
<1>1. s \in Seq(S) /\ r \in Seq(S)
  <2>1. (\A i \in 1 .. Len(s) : s[i] \in S) /\ \A i \in 1 .. Len(r) : r[i] \in S
    OBVIOUS
  <2> HIDE DEF S
  <2> QED
    BY <2>1, SequenceOver
<1> HIDE DEF S
<1>2. s \o r \in Seq(S) /\ Len(s \o r) = Len(s) + Len(r)
  BY <1>1
<1>3. \A i \in 1 .. Len(s) + Len(r) : (s \o r)[i] = IF i <= Len(s) THEN s[i] ELSE r[i - Len(s)]
  BY <1>1
<1>4. Len(s) \in Nat /\ Len(r) \in Nat
  BY DEF IsSeq
<1>5. \A i \in 1 .. Len(s) : (s \o r)[i] = s[i]
  BY <1>3, <1>4
<1>6. ASSUME NEW i \in 1 .. Len(r) PROVE (s \o r)[Len(s) + i] = r[i]
  <2>1. Len(s) + i \in 1 .. Len(s) + Len(r) /\ ~(Len(s) + i <= Len(s)) /\ (Len(s) + i) - Len(s) = i
    BY <1>4
  <2> QED
    BY <1>3, <2>1
<1> QED
  BY <1>2, <1>5, <1>6, IsSequence

LEMMA EmptySequence == IsSeq(<<>>) /\ Len(<<>>) = 0
BY DEF IsSeq

LEMMA NothingBefore ==
  ASSUME NEW s, IsSeq(s)
  PROVE  <<>> \o s = s
<1>1. IsSeq(<<>> \o s) /\ Len(<<>> \o s) = Len(s) /\ \A i \in 1 .. Len(s) : (<<>> \o s)[i] = s[i]
  <2>1. Len(s) \in Nat
    BY DEF IsSeq
  <2>2. /\ IsSeq(<<>> \o s) /\ Len(<<>> \o s) = 0 + Len(s)
        /\ \A i \in 1 .. Len(s) : (<<>> \o s)[0 + i] = s[i]
    BY EmptySequence, Concatenated
  <2> QED
    BY <2>1, <2>2
<1> QED
  BY <1>1, SameSequence

LEMMA Prefix ==
  ASSUME NEW s, IsSeq(s), NEW k \in 0 .. Len(s)
  PROVE  /\ IsSeq(SubSeq(s, 1, k)) /\ Len(SubSeq(s, 1, k)) = k
         /\ \A i \in 1 .. k : SubSeq(s, 1, k)[i] = s[i]
<1> DEFINE S == {s[i] : i \in 1 .. Len(s)}
<1>1. s \in Seq(S)
  <2>1. \A i \in 1 .. Len(s) : s[i] \in S
    OBVIOUS
  <2> HIDE DEF S
  <2> QED
    BY <2>1, SequenceOver
<1> HIDE DEF S
<1>2. Len(s) \in Nat /\ k \in Nat /\ k <= Len(s)
  BY DEF IsSeq
<1>3. SubSeq(s, 1, k) \in Seq(S) /\ Len(SubSeq(s, 1, k)) = k /\ \A i \in 1 .. k : SubSeq(s, 1, k)[i] = s[i]
  BY <1>1, <1>2
<1> QED
  BY <1>3, IsSequence

-----------------------------------------------------------------------------
(* Sequences after each other.                                             *)
Pieces(ss) == IsSeq(ss) /\ \A i \in 1 .. Len(ss) : IsSeq(ss[i])

Upto(ss, k) == Len(FlattenSeq(SubSeq(ss, 1, k)))
(* FlattenSeq puts sequence after sequence: its recursion is what it says  *)
(* for any number of them.                                                 *)
LEMMA FlattenComputed ==
  ASSUME NEW parts, Len(parts) \in Nat \ {0}
  PROVE  \E g : /\ FlattenSeq(parts) = g[Len(parts)]
                /\ g[1] = parts[1]
                /\ \A i \in 2 .. Len(parts) : g[i] = g[i - 1] \o parts[i]
<1> DEFINE N == Len(parts)
           Step(g, m) == [i \in 1 .. m |-> IF i = 1 THEN parts[i] ELSE g[i - 1] \o parts[i]]
           chosen == CHOOSE g : g = Step(g, N)
           wrong == {m \in 0 .. N : ~\E g : g = Step(g, m)}
<1>1. FlattenSeq(parts) = chosen[N]
  BY DEF FlattenSeq
<1>2. wrong = {}
  <2> SUFFICES ASSUME wrong # {} PROVE FALSE
    OBVIOUS
  <2>1. wrong \in SUBSET Nat
    <3> HIDE DEF N, Step
    <3> QED
      OBVIOUS
  <2> HIDE DEF wrong
  <2>2. PICK m \in wrong : \A k \in wrong : m <= k
    BY <2>1, LeastNumber
  <2> USE DEF wrong
  <2>3. m \in 0 .. N /\ ~\E g : g = Step(g, m)
    BY <2>2
  <2>4. CASE m = 0
    <3> DEFINE none == [i \in 1 .. 0 |-> parts[i]]
    <3>1. none = Step(none, 0)
      <4>1. \A i \in 1 .. 0 : FALSE
        OBVIOUS
      <4> QED
        BY <4>1
    <3> QED
      BY <2>3, <2>4, <3>1
  <2>5. CASE m # 0
    <3>1. m - 1 \in 0 .. N /\ m - 1 \notin wrong
      <4> HIDE DEF wrong, N, Step
      <4>1. N \in Nat /\ m \in 0 .. N /\ m # 0 /\ \A k \in wrong : m <= k
        BY <2>2, <2>3, <2>5 DEF N
      <4> QED
        BY <4>1
    <3>2. PICK h : h = Step(h, m - 1)
      BY <3>1
    <3> DEFINE g == [i \in 1 .. m |-> IF i = m THEN IF m = 1 THEN parts[m] ELSE h[m - 1] \o parts[m] ELSE h[i]]
    <3>3. ASSUME NEW i \in 1 .. m PROVE g[i] = IF i = 1 THEN parts[i] ELSE g[i - 1] \o parts[i]
      <4>1. CASE i = m
        <5>1. i # 1 => i - 1 \in 1 .. m /\ i - 1 # m
          BY <2>3
        <5>2. i # 1 => g[i - 1] = h[m - 1]
          BY <4>1, <5>1
        <5> QED
          BY <4>1, <5>2
      <4>2. CASE i # m
        <5>1. i \in 1 .. (m - 1)
          BY <2>3, <4>2
        <5>2. h[i] = IF i = 1 THEN parts[i] ELSE h[i - 1] \o parts[i]
          BY <3>2, <5>1
        <5>3. i # 1 => i - 1 \in 1 .. m /\ i - 1 # m
          BY <2>3
        <5> QED
          BY <4>2, <5>2, <5>3
      <4> QED
        BY <4>1, <4>2
    <3>4. g = Step(g, m)
      BY <3>3
    <3> QED
      BY <2>3, <3>4
  <2> QED
    BY <2>4, <2>5
<1>3. N \in 0 .. N
  OBVIOUS
<1>4. \E g : g = Step(g, N)
  BY <1>2, <1>3
<1>5. chosen = Step(chosen, N)
  BY <1>4
<1> HIDE DEF chosen
<1>6. \A i \in 1 .. N : chosen[i] = IF i = 1 THEN parts[i] ELSE chosen[i - 1] \o parts[i]
  BY <1>5
<1>7. chosen[1] = parts[1]
  BY <1>6
<1>8. ASSUME NEW i \in 2 .. N PROVE chosen[i] = chosen[i - 1] \o parts[i]
  <2>1. i \in 1 .. N /\ i # 1
    OBVIOUS
  <2> QED
    BY <1>6, <2>1
<1> QED
  BY <1>1, <1>7, <1>8

(* One sequence at a time.                                                 *)
LEMMA FlattenStep ==
  ASSUME NEW ss, Pieces(ss)
  PROVE  /\ FlattenSeq(SubSeq(ss, 1, 0)) = <<>>
         /\ FlattenSeq(SubSeq(ss, 1, Len(ss))) = FlattenSeq(ss)
         /\ \A k \in 1 .. Len(ss) :
              FlattenSeq(SubSeq(ss, 1, k)) = FlattenSeq(SubSeq(ss, 1, k - 1)) \o ss[k]
<1> DEFINE N == Len(ss)
           first(k) == SubSeq(ss, 1, k)
<1>1. N \in Nat /\ IsSeq(ss) /\ \A i \in 1 .. N : IsSeq(ss[i])
  BY DEF Pieces, IsSeq
<1>2. \A k \in 0 .. N : IsSeq(first(k)) /\ Len(first(k)) = k /\ \A i \in 1 .. k : first(k)[i] = ss[i]
  BY <1>1, Prefix
<1> HIDE DEF first, N
<1>3. first(N) = ss
  <2>1. N \in 0 .. N
    BY <1>1
  <2>2. IsSeq(first(N)) /\ Len(first(N)) = N /\ \A i \in 1 .. N : first(N)[i] = ss[i]
    BY <1>2, <2>1
  <2> QED
    BY <1>1, <2>2, SameSequence DEF N
<1>4. FlattenSeq(first(0)) = <<>>
  <2>1. IsSeq(first(0)) /\ Len(first(0)) = 0
    BY <1>1, <1>2
  <2>2. first(0) = <<>>
    BY <2>1, EmptySequence, SameSequence
  <2> QED
    BY <2>1, <2>2 DEF FlattenSeq
<1>5. ASSUME NEW k \in 1 .. N
      PROVE  FlattenSeq(first(k)) = FlattenSeq(first(k - 1)) \o ss[k]
  <2>1. k \in 0 .. N /\ k - 1 \in 0 .. N /\ k \in Nat \ {0} /\ k \in 1 .. k
    BY <1>1
  <2>2. Len(first(k)) = k /\ (\A i \in 1 .. k : first(k)[i] = ss[i])
        /\ Len(first(k - 1)) = k - 1 /\ \A i \in 1 .. (k - 1) : first(k - 1)[i] = ss[i]
    BY <1>2, <2>1
  <2>3. PICK g : /\ FlattenSeq(first(k)) = g[k]
                 /\ g[1] = first(k)[1]
                 /\ \A i \in 2 .. k : g[i] = g[i - 1] \o first(k)[i]
    <3>1. Len(first(k)) \in Nat \ {0}
      BY <2>1, <2>2
    <3>2. \E g : /\ FlattenSeq(first(k)) = g[Len(first(k))]
                /\ g[1] = first(k)[1]
                /\ \A i \in 2 .. Len(first(k)) : g[i] = g[i - 1] \o first(k)[i]
      BY <3>1, FlattenComputed, Zenon
    <3> QED
      BY <2>2, <3>2, Zenon
  <2>4. CASE k = 1
    <3>1. FlattenSeq(first(k - 1)) = <<>>
      BY <1>4, <2>4
    <3>2. FlattenSeq(first(k)) = ss[k]
      BY <2>1, <2>2, <2>3, <2>4
    <3>3. <<>> \o ss[k] = ss[k]
      BY <1>1, NothingBefore
    <3> QED
      BY <3>1, <3>2, <3>3
  <2>5. CASE k # 1
    <3>1. k - 1 \in Nat \ {0} /\ k \in 2 .. k
      BY <2>1, <2>5
    <3>2. PICK h : /\ FlattenSeq(first(k - 1)) = h[k - 1]
                   /\ h[1] = first(k - 1)[1]
                   /\ \A i \in 2 .. (k - 1) : h[i] = h[i - 1] \o first(k - 1)[i]
      <4>1. Len(first(k - 1)) \in Nat \ {0}
        BY <2>2, <3>1
      <4>2. \E h : /\ FlattenSeq(first(k - 1)) = h[Len(first(k - 1))]
                  /\ h[1] = first(k - 1)[1]
                  /\ \A i \in 2 .. Len(first(k - 1)) : h[i] = h[i - 1] \o first(k - 1)[i]
        BY <4>1, FlattenComputed, Zenon
      <4> QED
        BY <2>2, <4>2, Zenon
    <3> DEFINE off == {i \in 1 .. (k - 1) : h[i] # g[i]}
    <3>3. off = {}
      <4> SUFFICES ASSUME off # {} PROVE FALSE
        OBVIOUS
      <4>1. off \in SUBSET Nat
        BY <2>1
      <4> HIDE DEF off
      <4>2. PICK m \in off : \A i \in off : m <= i
        BY <4>1, LeastNumber
      <4> USE DEF off
      <4>3. m \in 1 .. (k - 1) /\ h[m] # g[m]
        BY <4>2
      <4>4. m # 1
        <5>1. 1 \in 1 .. (k - 1) /\ 1 \in 1 .. k
          BY <2>1, <3>1
        <5> QED
          BY <2>2, <2>3, <3>2, <4>3, <5>1
      <4>5. m \in 2 .. k /\ m \in 2 .. (k - 1) /\ m - 1 \in 1 .. (k - 1) /\ m \in 1 .. k /\ ~(m <= m - 1)
        BY <2>1, <4>3, <4>4
      <4>6. m - 1 \notin off
        BY <4>2, <4>5
      <4>7. h[m - 1] = g[m - 1]
        BY <4>5, <4>6
      <4>8. g[m] = g[m - 1] \o ss[m] /\ h[m] = h[m - 1] \o ss[m]
        BY <2>2, <2>3, <3>2, <4>5
      <4> QED
        BY <4>3, <4>7, <4>8
    <3>4. h[k - 1] = g[k - 1]
      BY <2>1, <3>1, <3>3
    <3>5. g[k] = g[k - 1] \o ss[k]
      BY <2>1, <2>2, <2>3, <3>1
    <3> QED
      BY <2>3, <3>2, <3>4, <3>5
  <2> QED
    BY <2>4, <2>5
<1> QED
  BY <1>3, <1>4, <1>5 DEF first, N

(* Where each one starts, and what is there.                               *)
LEMMA Flattened ==
  ASSUME NEW ss, Pieces(ss)
  PROVE  /\ IsSeq(FlattenSeq(ss)) /\ Len(FlattenSeq(ss)) = Upto(ss, Len(ss))
         /\ Upto(ss, 0) = 0
         /\ \A k \in 0 .. Len(ss) : Upto(ss, k) \in Nat
         /\ \A k \in 1 .. Len(ss) : Upto(ss, k) = Upto(ss, k - 1) + Len(ss[k])
         /\ \A k \in 1 .. Len(ss) : \A j \in 1 .. Len(ss[k]) :
              /\ Upto(ss, k - 1) + j \in 1 .. Len(FlattenSeq(ss))
              /\ FlattenSeq(ss)[Upto(ss, k - 1) + j] = ss[k][j]
<1> DEFINE N == Len(ss)
           whole(k) == FlattenSeq(SubSeq(ss, 1, k))
           Good(k) == /\ IsSeq(whole(k))
                      /\ \A m \in 1 .. k : \A j \in 1 .. Len(ss[m]) :
                           /\ Len(whole(m - 1)) + j \in 1 .. Len(whole(k))
                           /\ whole(k)[Len(whole(m - 1)) + j] = ss[m][j]
           wrong == {k \in 0 .. N : ~Good(k)}
<1>1. N \in Nat /\ \A i \in 1 .. N : IsSeq(ss[i])
  BY DEF Pieces, IsSeq
<1>2. whole(0) = <<>> /\ whole(N) = FlattenSeq(ss) /\ \A k \in 1 .. N : whole(k) = whole(k - 1) \o ss[k]
  BY FlattenStep
<1> HIDE DEF N, whole
<1>3. wrong = {}
  <2> SUFFICES ASSUME wrong # {} PROVE FALSE
    OBVIOUS
  <2>1. wrong \in SUBSET Nat
    <3> HIDE DEF Good
    <3> QED
      BY <1>1
  <2> HIDE DEF wrong
  <2>2. PICK k \in wrong : \A i \in wrong : k <= i
    BY <2>1, LeastNumber
  <2>3. k \in 0 .. N /\ ~Good(k)
    BY <2>2 DEF wrong
  <2>4. k # 0
    <3>1. \A m \in 1 .. 0 : FALSE
      OBVIOUS
    <3>2. Good(0)
      BY <1>2, <3>1, EmptySequence
    <3> QED
      BY <2>3, <3>2
  <2>5. k \in 1 .. N /\ k - 1 \in 0 .. N /\ ~(k <= k - 1) /\ k \in Nat
    BY <1>1, <2>3, <2>4
  <2>6. Good(k - 1)
    <3> HIDE DEF Good
    <3> QED
      BY <2>2, <2>5 DEF wrong
  <2>7. whole(k) = whole(k - 1) \o ss[k] /\ IsSeq(ss[k]) /\ IsSeq(whole(k - 1))
    BY <1>1, <1>2, <2>5, <2>6
  <2>8. /\ IsSeq(whole(k)) /\ Len(whole(k)) = Len(whole(k - 1)) + Len(ss[k])
        /\ \A i \in 1 .. Len(whole(k - 1)) : whole(k)[i] = whole(k - 1)[i]
        /\ \A i \in 1 .. Len(ss[k]) : whole(k)[Len(whole(k - 1)) + i] = ss[k][i]
    BY <2>7, Concatenated
  <2>9. Len(whole(k - 1)) \in Nat /\ Len(ss[k]) \in Nat
    BY <2>7 DEF IsSeq
  <2>10. ASSUME NEW m \in 1 .. k, NEW j \in 1 .. Len(ss[m])
         PROVE  /\ Len(whole(m - 1)) + j \in 1 .. Len(whole(k))
                /\ whole(k)[Len(whole(m - 1)) + j] = ss[m][j]
    <3>1. CASE m = k
      <4>1. j \in 1 .. Len(ss[k])
        BY <3>1
      <4>2. Len(whole(k - 1)) + j \in 1 .. Len(whole(k))
        BY <2>8, <2>9, <4>1
      <4> QED
        BY <2>8, <3>1, <4>1, <4>2
    <3>2. CASE m # k
      <4>1. m \in 1 .. (k - 1)
        BY <2>5, <3>2
      <4>2. /\ Len(whole(m - 1)) + j \in 1 .. Len(whole(k - 1))
            /\ whole(k - 1)[Len(whole(m - 1)) + j] = ss[m][j]
        BY <2>6, <4>1
      <4>3. Len(whole(m - 1)) + j \in 1 .. Len(whole(k))
        <5> DEFINE a == Len(whole(m - 1)) + j
                   b == Len(whole(k - 1))
                   c == Len(whole(k))
                   e == Len(ss[k])
        <5>1. a \in 1 .. b /\ c = b + e /\ b \in Nat /\ e \in Nat
          BY <2>8, <2>9, <4>2
        <5> HIDE DEF a, b, c, e
        <5>2. a \in 1 .. c
          BY <5>1
        <5> QED
          BY <5>2 DEF a, c
      <4> QED
        BY <2>8, <4>2, <4>3
    <3> QED
      BY <3>1, <3>2
  <2>11. Good(k)
    BY <2>8, <2>10
  <2> QED
    BY <2>3, <2>11
<1>4. \A k \in 0 .. N : Good(k)
  <2> HIDE DEF Good
  <2> QED
    BY <1>3
<1>5. \A k \in 0 .. N : IsSeq(whole(k)) /\ Len(whole(k)) \in Nat
  BY <1>4 DEF IsSeq
<1>6. ASSUME NEW k \in 1 .. N PROVE Len(whole(k)) = Len(whole(k - 1)) + Len(ss[k])
  <2>1. k - 1 \in 0 .. N
    BY <1>1
  <2>2. IsSeq(whole(k - 1)) /\ IsSeq(ss[k]) /\ whole(k) = whole(k - 1) \o ss[k]
    BY <1>1, <1>2, <1>5, <2>1
  <2>3. Len(whole(k - 1) \o ss[k]) = Len(whole(k - 1)) + Len(ss[k])
    BY <2>2, Concatenated
  <2> QED
    BY <2>2, <2>3
<1>7. N \in 0 .. N
  BY <1>1
<1>8. IsSeq(FlattenSeq(ss)) /\ Len(FlattenSeq(ss)) = Len(whole(N))
  BY <1>2, <1>5, <1>7
<1>9. \A k \in 1 .. N : \A j \in 1 .. Len(ss[k]) :
        /\ Len(whole(k - 1)) + j \in 1 .. Len(FlattenSeq(ss))
        /\ FlattenSeq(ss)[Len(whole(k - 1)) + j] = ss[k][j]
  <2>1. Good(N)
    <3> HIDE DEF Good
    <3> QED
      BY <1>4, <1>7
  <2> QED
    BY <1>2, <2>1
<1>10. Len(whole(0)) = 0
  BY <1>2, EmptySequence
<1>11. \A k : Upto(ss, k) = Len(whole(k))
  BY DEF Upto, whole
<1>12. Len(FlattenSeq(ss)) = Upto(ss, N) /\ Upto(ss, 0) = 0 /\ \A k \in 0 .. N : Upto(ss, k) \in Nat
  BY <1>5, <1>8, <1>10, <1>11
<1>13. \A k \in 1 .. N : Upto(ss, k) = Upto(ss, k - 1) + Len(ss[k])
  BY <1>6, <1>11
<1>14. \A k \in 1 .. N : \A j \in 1 .. Len(ss[k]) :
         /\ Upto(ss, k - 1) + j \in 1 .. Len(FlattenSeq(ss))
         /\ FlattenSeq(ss)[Upto(ss, k - 1) + j] = ss[k][j]
  BY <1>9, <1>11
<1> QED
  BY <1>8, <1>12, <1>13, <1>14 DEF N

(* Sequences of elements of a set, after each other, are one of them.      *)
LEMMA FlattenedOver ==
  ASSUME NEW S, NEW ss, IsSeq(ss), \A i \in 1 .. Len(ss) : ss[i] \in Seq(S)
  PROVE  Pieces(ss) /\ FlattenSeq(ss) \in Seq(S)
<1> DEFINE N == Len(ss)
           whole(k) == FlattenSeq(SubSeq(ss, 1, k))
           wrong == {k \in 0 .. N : whole(k) \notin Seq(S)}
<1>1. N \in Nat /\ Pieces(ss)
  BY IsSequence DEF Pieces, IsSeq
<1>2. whole(0) = <<>> /\ whole(N) = FlattenSeq(ss) /\ \A k \in 1 .. N : whole(k) = whole(k - 1) \o ss[k]
  BY <1>1, FlattenStep
<1> HIDE DEF whole
<1>3. wrong = {}
  <2> SUFFICES ASSUME wrong # {} PROVE FALSE
    OBVIOUS
  <2>1. wrong \in SUBSET Nat
    <3> HIDE DEF N
    <3> QED
      BY <1>1
  <2> HIDE DEF wrong
  <2>2. PICK k \in wrong : \A i \in wrong : k <= i
    BY <2>1, LeastNumber
  <2>3. k \in 0 .. N /\ whole(k) \notin Seq(S)
    BY <2>2 DEF wrong
  <2>4. k # 0
    <3>1. <<>> \in Seq(S)
      OBVIOUS
    <3> QED
      BY <1>2, <2>3, <3>1, Zenon
  <2>5. k \in 1 .. N /\ k - 1 \in 0 .. N /\ ~(k <= k - 1)
    <3> HIDE DEF N
    <3> QED
      BY <1>1, <2>3, <2>4
  <2>6. whole(k - 1) \in Seq(S) /\ whole(k) = whole(k - 1) \o ss[k] /\ ss[k] \in Seq(S)
    BY <1>2, <2>2, <2>5 DEF wrong
  <2> QED
    BY <2>3, <2>6
<1>4. N \in 0 .. N
  BY <1>1
<1> QED
  BY <1>1, <1>2, <1>3, <1>4

-----------------------------------------------------------------------------
(* What stands in a stream behind a position.                              *)
Holds(s, at, w) == \A i \in 1 .. Len(w) : s[at + i] = w[i]

HoldsBehind(s, at, a, b) ==
  /\ Holds(s, at, a) /\ Holds(s, at + Len(a), b)
  /\ at + Len(a) \in Nat /\ Len(a \o b) = Len(a) + Len(b)

LEMMA HoldsBoth ==
  ASSUME NEW s, NEW at \in Nat, NEW a, NEW b, IsSeq(a), IsSeq(b), Holds(s, at, a \o b)
  PROVE  HoldsBehind(s, at, a, b)
<1>1. /\ Len(a \o b) = Len(a) + Len(b)
      /\ \A i \in 1 .. Len(a) : (a \o b)[i] = a[i]
      /\ \A i \in 1 .. Len(b) : (a \o b)[Len(a) + i] = b[i]
  BY Concatenated
<1>2. Len(a) \in Nat /\ Len(b) \in Nat
  BY DEF IsSeq
<1>3. ASSUME NEW i \in 1 .. Len(a) PROVE s[at + i] = a[i]
  <2>1. i \in 1 .. Len(a \o b)
    BY <1>1, <1>2
  <2> QED
    BY <1>1, <2>1 DEF Holds
<1>4. ASSUME NEW i \in 1 .. Len(b) PROVE s[(at + Len(a)) + i] = b[i]
  <2>1. Len(a) + i \in 1 .. Len(a \o b) /\ at + (Len(a) + i) = (at + Len(a)) + i
    BY <1>1, <1>2
  <2>2. s[at + (Len(a) + i)] = (a \o b)[Len(a) + i]
    BY <2>1 DEF Holds
  <2> QED
    BY <1>1, <2>1, <2>2
<1> QED
  BY <1>1, <1>2, <1>3, <1>4 DEF Holds, HoldsBehind

LEMMA HoldsEach ==
  ASSUME NEW s, NEW at \in Nat, NEW ss, Pieces(ss), Holds(s, at, FlattenSeq(ss)),
         NEW k \in 1 .. Len(ss)
  PROVE  Holds(s, at + Upto(ss, k - 1), ss[k]) /\ at + Upto(ss, k - 1) \in Nat
<1>1. k - 1 \in 0 .. Len(ss)
  BY DEF Pieces, IsSeq
<1>2. Upto(ss, k - 1) \in Nat
  BY <1>1, Flattened
<1>3. ASSUME NEW j \in 1 .. Len(ss[k]) PROVE s[(at + Upto(ss, k - 1)) + j] = ss[k][j]
  <2>1. /\ Upto(ss, k - 1) + j \in 1 .. Len(FlattenSeq(ss))
        /\ FlattenSeq(ss)[Upto(ss, k - 1) + j] = ss[k][j]
    BY Flattened
  <2>2. s[at + (Upto(ss, k - 1) + j)] = FlattenSeq(ss)[Upto(ss, k - 1) + j]
    BY <2>1 DEF Holds
  <2>3. j \in Int
    OBVIOUS
  <2>4. at + (Upto(ss, k - 1) + j) = (at + Upto(ss, k - 1)) + j
    BY <1>2, <2>3
  <2> QED
    BY <2>1, <2>2, <2>4
<1> QED
  BY <1>2, <1>3 DEF Holds

-----------------------------------------------------------------------------
(* SetToSeq lists each element of a finite set once.                       *)
LEMMA Names ==
  ASSUME NEW S, IsFiniteSet(S)
  PROVE  /\ IsSeq(SetToSeq(S)) /\ DOMAIN SetToSeq(S) = 1 .. Len(SetToSeq(S))
         /\ Len(SetToSeq(S)) = Cardinality(S) /\ Cardinality(S) \in Nat
         /\ \A i \in 1 .. Len(SetToSeq(S)) : SetToSeq(S)[i] \in S
         /\ \A i, j \in 1 .. Len(SetToSeq(S)) : SetToSeq(S)[i] = SetToSeq(S)[j] => i = j
         /\ \A x \in S : \E i \in 1 .. Len(SetToSeq(S)) : SetToSeq(S)[i] = x
<1> DEFINE n == Cardinality(S)
           s == SetToSeq(S)
<1>1. n \in Nat /\ ExistsBijection(1 .. n, S)
  BY FS_CardinalityType
<1>2. \E f \in [1 .. n -> S] : IsInjective(f)
  BY <1>1 DEF ExistsBijection, Bijection, Injection, IsInjective
<1>3. s \in [1 .. n -> S] /\ IsInjective(s)
  BY <1>2 DEF SetToSeq
<1> HIDE DEF s
<1>4. IsSeq(s) /\ Len(s) = n
  <2>1. s = [i \in 1 .. n |-> s[i]]
    BY <1>3
  <2> QED
    BY <1>1, <2>1, SequenceOf
<1>5. \A i, j \in 1 .. n : s[i] = s[j] => i = j
  BY <1>3 DEF IsInjective
<1>6. \A i \in 1 .. n : s[i] \in S
  BY <1>3
<1>7. \A x \in S : \E i \in 1 .. n : s[i] = x
  <2>1. s \in Injection(1 .. n, S)
    BY <1>3, <1>5 DEF Injection, IsInjective
  <2>2. IsFiniteSet(1 .. n) /\ Cardinality(1 .. n) = n
    BY <1>1, FS_Interval
  <2>3. s \in Surjection(1 .. n, S)
    BY <2>1, <2>2, FS_Injection
  <2> QED
    BY <2>3 DEF Surjection
<1>8. DOMAIN s = 1 .. n
  BY <1>3
<1> QED
  BY <1>1, <1>4, <1>5, <1>6, <1>7, <1>8 DEF s

-----------------------------------------------------------------------------
(* An object filled under names all different has each value under its     *)
(* name.                                                                   *)
Distinct(names) == IsSeq(names) /\ \A i, j \in 1 .. Len(names) : names[i] = names[j] => i = j

Filled(object, names, values) ==
  /\ DOMAIN object = {names[i] : i \in 1 .. Len(names)}
  /\ object = [p \in DOMAIN object |-> object[p]]
  /\ \A i \in 1 .. Len(names) : object[names[i]] = values[i]

LEMMA ObjectFilled ==
  ASSUME NEW names, NEW values, Distinct(names)
  PROVE  Filled(ObjectOf(names, values), names, values)
<1>1. DOMAIN names = 1 .. Len(names)
  BY SequenceDomain DEF Distinct
<1> DEFINE Latest(p) == CHOOSE i \in DOMAIN names : names[i] = p /\ \A j \in DOMAIN names : j > i => names[j] # p
<1>2. ObjectOf(names, values) = [p \in {names[i] : i \in 1 .. Len(names)} |-> values[Latest(p)]]
  BY <1>1 DEF ObjectOf, ToSet
<1>3. ASSUME NEW i \in 1 .. Len(names) PROVE Latest(names[i]) = i
  <2>1. \A j \in 1 .. Len(names) : j > i => names[j] # names[i]
    BY DEF Distinct
  <2>2. \E k \in DOMAIN names : names[k] = names[i] /\ \A j \in DOMAIN names : j > k => names[j] # names[i]
    BY <1>1, <2>1
  <2>3. Latest(names[i]) \in DOMAIN names /\ names[Latest(names[i])] = names[i]
    BY <2>2
  <2> QED
    BY <1>1, <2>3 DEF Distinct
<1> HIDE DEF Latest
<1> QED
  BY <1>2, <1>3 DEF Filled

-----------------------------------------------------------------------------
(* The reader's positions, one after the other, when each is known: the    *)
(* recursion has one solution.                                             *)
Agree(f, g, n) == \A k \in 0 .. n : f[k] = g[k]

SchemaEndsAt(s, at, e) ==
  e = [k \in 0 .. s[at + 1] |-> IF k = 0 THEN at + 1 ELSE PartSchema(s, e[k - 1] + 1).at]

LEMMA SchemaEndsAre ==
  ASSUME NEW s, NEW at, s[at + 1] \in Nat, NEW e, SchemaEndsAt(s, at, e)
  PROVE  Agree(SchemaEnds(s, at), e, s[at + 1])
<1> DEFINE n == s[at + 1]
           ends == SchemaEnds(s, at)
           off == {k \in 0 .. n : ends[k] # e[k]}
<1>1. ends = [k \in 0 .. n |-> IF k = 0 THEN at + 1 ELSE PartSchema(s, ends[k - 1] + 1).at]
  BY Zenon DEF SchemaEnds, SchemaEndsAt
<1> HIDE DEF ends
<1>2. SUFFICES ASSUME off # {} PROVE FALSE
  BY DEF ends, Agree
<1>3. off \in SUBSET Nat
  OBVIOUS
<1> HIDE DEF off
<1>4. PICK k \in off : \A i \in off : k <= i
  BY <1>2, <1>3, LeastNumber
<1>5. k \in 0 .. n /\ ends[k] # e[k]
  BY <1>4 DEF off
<1>6. k # 0
  BY <1>1, <1>5 DEF SchemaEndsAt
<1>7. k - 1 \in 0 .. n /\ ~(k <= k - 1)
  BY <1>5, <1>6
<1>8. ends[k - 1] = e[k - 1]
  BY <1>4, <1>7 DEF off
<1>9. ends[k] = PartSchema(s, ends[k - 1] + 1).at /\ e[k] = PartSchema(s, e[k - 1] + 1).at
  BY <1>1, <1>5, <1>6 DEF SchemaEndsAt
<1> QED
  BY <1>5, <1>8, <1>9

ItemEndsAt(ctx, s, at, e) ==
  e = [i \in 0 .. s[at + 2] |-> IF i = 0 THEN at + 3 ELSE ItemAt(ctx, s, at, i, e[i - 1]).at]

LEMMA ItemEndsAre ==
  ASSUME NEW ctx, NEW s, NEW at, s[at + 2] \in Nat, NEW e, ItemEndsAt(ctx, s, at, e)
  PROVE  Agree(ItemEnds(ctx, s, at), e, s[at + 2])
<1> DEFINE n == s[at + 2]
           ends == ItemEnds(ctx, s, at)
           off == {i \in 0 .. n : ends[i] # e[i]}
<1>1. ends = [i \in 0 .. n |-> IF i = 0 THEN at + 3 ELSE ItemAt(ctx, s, at, i, ends[i - 1]).at]
  BY Zenon DEF ItemEnds, ItemEndsAt
<1> HIDE DEF ends
<1>2. SUFFICES ASSUME off # {} PROVE FALSE
  BY DEF ends, Agree
<1>3. off \in SUBSET Nat
  OBVIOUS
<1> HIDE DEF off
<1>4. PICK k \in off : \A i \in off : k <= i
  BY <1>2, <1>3, LeastNumber
<1>5. k \in 0 .. n /\ ends[k] # e[k]
  BY <1>4 DEF off
<1>6. k # 0
  BY <1>1, <1>5 DEF ItemEndsAt
<1>7. k - 1 \in 0 .. n /\ ~(k <= k - 1)
  BY <1>5, <1>6
<1>8. ends[k - 1] = e[k - 1]
  BY <1>4, <1>7 DEF off
<1>9. ends[k] = ItemAt(ctx, s, at, k, ends[k - 1]).at /\ e[k] = ItemAt(ctx, s, at, k, e[k - 1]).at
  BY <1>1, <1>5, <1>6 DEF ItemEndsAt
<1> QED
  BY <1>5, <1>8, <1>9

NamedEndsAt(ctx, s, at, e) ==
  e = [k \in 0 .. s[at + 1] |-> IF k = 0 THEN at + 1 ELSE NamedAt(ctx, s, e[k - 1]).at]

LEMMA NamedEndsAre ==
  ASSUME NEW ctx, NEW s, NEW at, s[at + 1] \in Nat, NEW e, NamedEndsAt(ctx, s, at, e)
  PROVE  Agree(NamedEnds(ctx, s, at), e, s[at + 1])
<1> DEFINE n == s[at + 1]
           ends == NamedEnds(ctx, s, at)
           off == {k \in 0 .. n : ends[k] # e[k]}
<1>1. ends = [k \in 0 .. n |-> IF k = 0 THEN at + 1 ELSE NamedAt(ctx, s, ends[k - 1]).at]
  BY Zenon DEF NamedEnds, NamedEndsAt
<1> HIDE DEF ends
<1>2. SUFFICES ASSUME off # {} PROVE FALSE
  BY DEF ends, Agree
<1>3. off \in SUBSET Nat
  OBVIOUS
<1> HIDE DEF off
<1>4. PICK k \in off : \A i \in off : k <= i
  BY <1>2, <1>3, LeastNumber
<1>5. k \in 0 .. n /\ ends[k] # e[k]
  BY <1>4 DEF off
<1>6. k # 0
  BY <1>1, <1>5 DEF NamedEndsAt
<1>7. k - 1 \in 0 .. n /\ ~(k <= k - 1)
  BY <1>5, <1>6
<1>8. ends[k - 1] = e[k - 1]
  BY <1>4, <1>7 DEF off
<1>9. ends[k] = NamedAt(ctx, s, ends[k - 1]).at /\ e[k] = NamedAt(ctx, s, e[k - 1]).at
  BY <1>1, <1>5, <1>6 DEF NamedEndsAt
<1> QED
  BY <1>5, <1>8, <1>9

-----------------------------------------------------------------------------
(* Types.  What newTypeSchema makes of one, once the parts' schemas are    *)
(* known, and that it reads all of the type's bytes.                       *)
SchemaOf(t) ==
  CASE t.code \in Lists -> [code |-> t.code, sub |-> PartSchemaOf(t.sub)]
    [] t.code = "Map" -> [code |-> t.code, key |-> PartSchemaOf(Of("String")), value |-> PartSchemaOf(t.value)]
    [] t.code = "Record" -> [code |-> t.code, props |-> [p \in DOMAIN t.props |-> PartSchemaOf(t.props[p])]]
    [] t.code \in Elements ->
         [code |-> t.code,
          props |-> [p \in DOMAIN t.props |-> [schema |-> PartSchemaOf(t.props[p]), vectorIndex |-> 0]]]
    [] OTHER -> PartSchemaOf(t)

Starts(w, x) == IsSeq(w) /\ Len(w) >= 1 /\ w[1] = x

PartParsed(t) ==
  /\ Starts(PartTypeStream(t), t.code)
  /\ \A s : \A at \in Nat :
       Holds(s, at, PartTypeStream(t)) =>
         PartSchema(s, at) = [got |-> PartSchemaOf(t), at |-> at + Len(PartTypeStream(t))]

Parsed(t) ==
  /\ Starts(TypeStream(t), t.code)
  /\ \A s : \A at \in Nat :
       Holds(s, at, TypeStream(t)) =>
         NewTypeSchema(s, at) = [got |-> SchemaOf(t), at |-> at + Len(TypeStream(t))]

LEMMA OneItem ==
  ASSUME NEW x
  PROVE  IsSeq(<<x>>) /\ Len(<<x>>) = 1 /\ <<x>>[1] = x
BY DEF IsSeq

(* An item and what follows it.                                            *)
LEMMA HoldsItem ==
  ASSUME NEW s, NEW at \in Nat, NEW x, NEW w, IsSeq(w), Holds(s, at, <<x>> \o w)
  PROVE  /\ s[at + 1] = x /\ Holds(s, at + 1, w) /\ at + 1 \in Nat
         /\ Len(<<x>> \o w) = 1 + Len(w)
<1> DEFINE q == <<x>>
<1>0. Len(q) = 1 /\ q[1] = x
  BY OneItem
<1>1. IsSeq(q)
  BY OneItem
<1>2. Holds(s, at, q \o w)
  OBVIOUS
<1> HIDE DEF q
<1>3. Holds(s, at, q) /\ Holds(s, at + Len(q), w) /\ Len(q \o w) = Len(q) + Len(w)
  <2>1. HoldsBehind(s, at, q, w)
    BY <1>1, <1>2, HoldsBoth, Zenon
  <2> QED
    BY <2>1 DEF HoldsBehind
<1>4. s[at + 1] = x
  <2>1. 1 \in 1 .. Len(q)
    BY <1>0
  <2> QED
    BY <1>0, <1>3, <2>1 DEF Holds
<1>5. Holds(s, at + 1, w) /\ at + 1 \in Nat /\ Len(q \o w) = 1 + Len(w)
  BY <1>0, <1>3
<1> QED
  BY <1>4, <1>5 DEF q

LEMMA ItemFirst ==
  ASSUME NEW x, NEW w, IsSeq(w)
  PROVE  Starts(<<x>> \o w, x) /\ Len(<<x>> \o w) = 1 + Len(w)
<1>1. IsSeq(<<x>>) /\ Len(<<x>>) = 1 /\ <<x>>[1] = x /\ Len(w) \in Nat
  BY OneItem DEF IsSeq
<1>2. /\ IsSeq(<<x>> \o w) /\ Len(<<x>> \o w) = Len(<<x>>) + Len(w)
      /\ \A i \in 1 .. Len(<<x>>) : (<<x>> \o w)[i] = <<x>>[i]
  BY <1>1, Concatenated
<1>3. 1 \in 1 .. Len(<<x>>)
  BY <1>1
<1>4. (<<x>> \o w)[1] = x
  BY <1>1, <1>2, <1>3
<1>5. Len(<<x>> \o w) = 1 + Len(w) /\ Len(<<x>> \o w) >= 1
  BY <1>1, <1>2
<1> QED
  BY <1>2, <1>4, <1>5 DEF Starts

(* Names and types, for any number of them.                                *)
LEMMA NamedParsed ==
  ASSUME NEW props, IsFiniteSet(DOMAIN props), \A p \in DOMAIN props : PartParsed(props[p])
  PROVE  /\ IsSeq(NamedTypes(props))
         /\ \A s : \A at \in Nat :
              Holds(s, at, NamedTypes(props)) =>
                NamedSchemas(s, at) = [got |-> [p \in DOMAIN props |-> PartSchemaOf(props[p])],
                                       at  |-> at + Len(NamedTypes(props))]
<1> DEFINE names == SetToSeq(DOMAIN props)
           n == Len(names)
           type(k) == PartTypeStream(props[names[k]])
           ss == [k \in DOMAIN names |-> <<names[k]>> \o type(k)]
<1>1. /\ IsSeq(names) /\ DOMAIN names = 1 .. n /\ n \in Nat
      /\ \A k \in 1 .. n : names[k] \in DOMAIN props
      /\ \A i, j \in 1 .. n : names[i] = names[j] => i = j
      /\ \A p \in DOMAIN props : \E k \in 1 .. n : names[k] = p
  BY Names
<1>2. NamedTypes(props) = <<n>> \o FlattenSeq(ss)
  BY DEF NamedTypes
<1> HIDE DEF names, n
<1>3. \A k \in 1 .. n : PartParsed(props[names[k]])
  BY <1>1
<1>4. IsSeq(ss) /\ Len(ss) = n /\ \A k \in 1 .. n : ss[k] = <<names[k]>> \o type(k)
  <2>1. ss = [k \in 1 .. n |-> ss[k]]
    BY <1>1
  <2>2. IsSeq(ss) /\ Len(ss) = n
    <3> HIDE DEF ss
    <3> QED
      BY <1>1, <2>1, SequenceOf
  <2> QED
    BY <1>1, <2>2
<1>5. \A k \in 1 .. n : IsSeq(type(k)) /\ IsSeq(ss[k]) /\ Len(ss[k]) = 1 + Len(type(k)) /\ Len(type(k)) \in Nat
  <2> HIDE DEF ss
  <2> TAKE k \in 1 .. n
  <2>1. IsSeq(type(k))
    BY <1>3 DEF PartParsed, Starts
  <2>2. ss[k] = <<names[k]>> \o type(k)
    BY <1>4
  <2> HIDE DEF type
  <2>3. Starts(ss[k], names[k]) /\ Len(ss[k]) = 1 + Len(type(k))
    BY <2>1, <2>2, ItemFirst, Zenon
  <2> QED
    BY <2>1, <2>3 DEF Starts, IsSeq
<1> HIDE DEF ss, type
<1>6. Pieces(ss)
  BY <1>4, <1>5 DEF Pieces
<1>7. /\ IsSeq(FlattenSeq(ss)) /\ Len(FlattenSeq(ss)) = Upto(ss, n) /\ Upto(ss, 0) = 0
      /\ \A k \in 0 .. n : Upto(ss, k) \in Nat
      /\ \A k \in 1 .. n : Upto(ss, k) = Upto(ss, k - 1) + Len(ss[k])
  BY <1>4, <1>6, Flattened
<1>8. IsSeq(NamedTypes(props)) /\ Len(NamedTypes(props)) = 1 + Upto(ss, n)
  BY <1>2, <1>7, ItemFirst DEF Starts
<1>9. ASSUME NEW s, NEW at \in Nat, Holds(s, at, NamedTypes(props))
      PROVE  NamedSchemas(s, at) = [got |-> [p \in DOMAIN props |-> PartSchemaOf(props[p])],
                                    at  |-> at + Len(NamedTypes(props))]
  <2> DEFINE e == [k \in 0 .. n |-> (at + 1) + Upto(ss, k)]
  <2>1. s[at + 1] = n /\ Holds(s, at + 1, FlattenSeq(ss)) /\ at + 1 \in Nat
    BY <1>2, <1>7, <1>9, HoldsItem
  <2>2. ASSUME NEW k \in 1 .. n
        PROVE  /\ e[k - 1] \in Nat /\ s[e[k - 1] + 1] = names[k]
               /\ PartSchema(s, e[k - 1] + 1) = [got |-> PartSchemaOf(props[names[k]]), at |-> e[k]]
    <3>1. k - 1 \in 0 .. n /\ k \in 0 .. n
      BY <1>1
    <3>2. Holds(s, (at + 1) + Upto(ss, k - 1), ss[k]) /\ (at + 1) + Upto(ss, k - 1) \in Nat
      BY <1>4, <1>6, <2>1, HoldsEach
    <3>3. e[k - 1] = (at + 1) + Upto(ss, k - 1) /\ e[k] = (at + 1) + Upto(ss, k)
      BY <3>1
    <3> HIDE DEF e
    <3>4. Holds(s, e[k - 1], <<names[k]>> \o type(k)) /\ e[k - 1] \in Nat /\ IsSeq(type(k))
      BY <1>4, <1>5, <3>2, <3>3
    <3>5. s[e[k - 1] + 1] = names[k] /\ Holds(s, e[k - 1] + 1, type(k)) /\ e[k - 1] + 1 \in Nat
      BY <3>4, HoldsItem
    <3>6. PartSchema(s, e[k - 1] + 1) = [got |-> PartSchemaOf(props[names[k]]), at |-> (e[k - 1] + 1) + Len(type(k))]
      BY <1>3, <3>5, Zenon DEF PartParsed, type
    <3>7. (e[k - 1] + 1) + Len(type(k)) = e[k]
      <4>1. Upto(ss, k) = Upto(ss, k - 1) + (1 + Len(type(k))) /\ Upto(ss, k - 1) \in Nat /\ Len(type(k)) \in Nat
        BY <1>5, <1>7, <3>1
      <4> QED
        BY <3>3, <4>1
    <3> QED
      BY <3>4, <3>5, <3>6, <3>7
  <2>3. SchemaEndsAt(s, at, e)
    <3>1. e[0] = at + 1
      BY <1>1, <1>7
    <3>2. ASSUME NEW k \in 0 .. n, k # 0 PROVE e[k] = PartSchema(s, e[k - 1] + 1).at
      <4>1. k \in 1 .. n
        BY <3>2
      <4> HIDE DEF e
      <4>2. PartSchema(s, e[k - 1] + 1) = [got |-> PartSchemaOf(props[names[k]]), at |-> e[k]]
        BY <2>2, <4>1, Zenon
      <4> QED
        BY <4>2
    <3>3. e = [k \in 0 .. n |-> e[k]]
      OBVIOUS
    <3> HIDE DEF e
    <3> QED
      BY <2>1, <3>1, <3>2, <3>3 DEF SchemaEndsAt
  <2>4. e[n] = at + Len(NamedTypes(props)) /\ n \in 0 .. n
    BY <1>1, <1>7, <1>8
  <2> HIDE DEF e
  <2> DEFINE ends == SchemaEnds(s, at)
             keys == [k \in 1 .. n |-> s[ends[k - 1] + 1]]
             got == [k \in 1 .. n |-> PartSchema(s, ends[k - 1] + 1).got]
  <2>5. \A k \in 0 .. n : ends[k] = e[k]
    <3>1. s[at + 1] \in Nat
      BY <1>1, <2>1
    <3>2. Agree(SchemaEnds(s, at), e, s[at + 1])
      BY <2>3, <3>1, SchemaEndsAre, Zenon
    <3> QED
      BY <2>1, <3>2 DEF Agree
  <2>6. NamedSchemas(s, at) = [got |-> ObjectOf(keys, got), at |-> ends[n]]
    BY <2>1 DEF NamedSchemas
  <2> HIDE DEF ends
  <2>7. \A k \in 1 .. n : keys[k] = names[k] /\ got[k] = PartSchemaOf(props[names[k]])
    <3> TAKE k \in 1 .. n
    <3>1. k - 1 \in 0 .. n
      BY <1>1
    <3>2. ends[k - 1] = e[k - 1]
      BY <2>5, <3>1
    <3>3. /\ s[e[k - 1] + 1] = names[k]
          /\ PartSchema(s, e[k - 1] + 1) = [got |-> PartSchemaOf(props[names[k]]), at |-> e[k]]
      BY <2>2, Zenon
    <3>4. s[ends[k - 1] + 1] = names[k] /\ PartSchema(s, ends[k - 1] + 1).got = PartSchemaOf(props[names[k]])
      BY <3>2, <3>3
    <3> QED
      BY <3>4, Zenon
  <2>8. keys = names
    <3>1. keys = [k \in 1 .. n |-> keys[k]]
      OBVIOUS
    <3>2. IsSeq(keys) /\ Len(keys) = n
      <4> HIDE DEF keys
      <4> QED
        BY <1>1, <3>1, SequenceOf
    <3> HIDE DEF keys, got
    <3>3. Len(names) = n
      BY DEF n
    <3> QED
      BY <1>1, <2>7, <3>2, <3>3, SameSequence
  <2> HIDE DEF keys, got
  <2>9. Filled(ObjectOf(names, got), names, got)
    BY <1>1, ObjectFilled DEF Distinct, n
  <2>10. ObjectOf(names, got) = [p \in DOMAIN props |-> PartSchemaOf(props[p])]
    <3>1. DOMAIN ObjectOf(names, got) = {names[k] : k \in 1 .. n}
      BY <2>9 DEF Filled, n
    <3>2. {names[k] : k \in 1 .. n} = DOMAIN props
      BY <1>1
    <3>3. ASSUME NEW p \in DOMAIN props PROVE ObjectOf(names, got)[p] = PartSchemaOf(props[p])
      <4>1. PICK k \in 1 .. n : names[k] = p
        BY <1>1
      <4>2. ObjectOf(names, got)[names[k]] = got[k]
        BY <2>9 DEF Filled, n
      <4> QED
        BY <2>7, <4>1, <4>2
    <3>4. ObjectOf(names, got) = [p \in DOMAIN ObjectOf(names, got) |-> ObjectOf(names, got)[p]]
      BY <2>9, Zenon DEF Filled
    <3> QED
      BY <3>1, <3>2, <3>3, <3>4
  <2> QED
    BY <2>4, <2>5, <2>6, <2>8, <2>10
<1> QED
  BY <1>8, <1>9

TypesAssumed == PartType(Of("String")) /\ \A u : PartType(u) => PartParsed(u)

(* Every type is read as it was written, to its end.                       *)
LEMMA ListTypeParsed ==
  ASSUME NEW t, t.code \in Lists, PartParsed(t.sub)
  PROVE  Parsed(t)
<1> DEFINE w == PartTypeStream(t.sub)
<1>1. TypeStream(t) = <<t.code>> \o w
  BY DEF TypeStream, Lists, Elements
<1>2. SchemaOf(t) = [code |-> t.code, sub |-> PartSchemaOf(t.sub)]
  BY DEF SchemaOf, Lists, Elements
<1>3. IsSeq(w) /\ Len(w) \in Nat
  BY DEF PartParsed, Starts, IsSeq
<1>4. \A s : \A at \in Nat : Holds(s, at, w) => PartSchema(s, at) = [got |-> PartSchemaOf(t.sub), at |-> at + Len(w)]
  BY DEF PartParsed
<1> HIDE DEF w
<1>5. Starts(TypeStream(t), t.code) /\ Len(TypeStream(t)) = 1 + Len(w)
  BY <1>1, <1>3, ItemFirst
<1>6. ASSUME NEW s, NEW at \in Nat, Holds(s, at, TypeStream(t))
      PROVE  NewTypeSchema(s, at) = [got |-> SchemaOf(t), at |-> at + Len(TypeStream(t))]
  <2>1. s[at + 1] = t.code /\ Holds(s, at + 1, w) /\ at + 1 \in Nat
    BY <1>1, <1>3, <1>6, HoldsItem
  <2>2. PartSchema(s, at + 1) = [got |-> PartSchemaOf(t.sub), at |-> (at + 1) + Len(w)]
    BY <1>4, <2>1, Zenon
  <2>3. NewTypeSchema(s, at) = [got |-> [code |-> t.code, sub |-> PartSchema(s, at + 1).got],
                                at |-> PartSchema(s, at + 1).at]
    BY <2>1 DEF NewTypeSchema, Lists, Elements
  <2>4. (at + 1) + Len(w) = at + Len(TypeStream(t))
    BY <1>3, <1>5
  <2> QED
    BY <1>2, <2>2, <2>3, <2>4
<1> QED
  BY <1>5, <1>6 DEF Parsed

LEMMA MapTypeParsed ==
  ASSUME NEW t, t.code = "Map", PartParsed(Of("String")), PartParsed(t.value)
  PROVE  Parsed(t)
<1> DEFINE k == PartTypeStream(Of("String"))
           w == PartTypeStream(t.value)
           h == <<t.code>> \o k
<1>1. TypeStream(t) = h \o w
  BY DEF TypeStream, Lists, Elements
<1>2. SchemaOf(t) = [code |-> t.code, key |-> PartSchemaOf(Of("String")), value |-> PartSchemaOf(t.value)]
  BY DEF SchemaOf, Lists, Elements
<1>3. IsSeq(w) /\ Len(w) \in Nat /\ IsSeq(k) /\ Len(k) \in Nat
  BY DEF PartParsed, Starts, IsSeq
<1>4. /\ \A s : \A at \in Nat :
           Holds(s, at, k) => PartSchema(s, at) = [got |-> PartSchemaOf(Of("String")), at |-> at + Len(k)]
      /\ \A s : \A at \in Nat :
           Holds(s, at, w) => PartSchema(s, at) = [got |-> PartSchemaOf(t.value), at |-> at + Len(w)]
  BY Zenon DEF PartParsed
<1> HIDE DEF w, k
<1>5. Starts(h, t.code) /\ Len(h) = 1 + Len(k)
  BY <1>3, ItemFirst
<1>6. IsSeq(h) /\ Len(h) >= 1 /\ h[1] = t.code
  BY <1>5 DEF Starts
<1>7. Starts(h \o w, t.code) /\ Len(h \o w) = Len(h) + Len(w)
  <2> HIDE DEF h
  <2>1. /\ IsSeq(h \o w) /\ Len(h \o w) = Len(h) + Len(w)
        /\ \A i \in 1 .. Len(h) : (h \o w)[i] = h[i]
    BY <1>3, <1>6, Concatenated
  <2>2. 1 \in 1 .. Len(h) /\ Len(h) \in Nat
    BY <1>6 DEF IsSeq
  <2> QED
    BY <1>3, <1>6, <2>1, <2>2 DEF Starts
<1>8. ASSUME NEW s, NEW at \in Nat, Holds(s, at, h \o w)
      PROVE  NewTypeSchema(s, at) = [got |-> SchemaOf(t), at |-> at + Len(h \o w)]
  <2>1. HoldsBehind(s, at, h, w)
    <3> HIDE DEF h
    <3> QED
      BY <1>3, <1>6, <1>8, HoldsBoth, Zenon
  <2>2. s[at + 1] = t.code /\ Holds(s, at + 1, k) /\ at + 1 \in Nat
    <3>1. Holds(s, at, <<t.code>> \o k)
      BY <2>1 DEF HoldsBehind
    <3> QED
      BY <1>3, <3>1, HoldsItem
  <2>3. Holds(s, (at + 1) + Len(k), w) /\ (at + 1) + Len(k) \in Nat
    <3>1. at + Len(h) = (at + 1) + Len(k)
      BY <1>3, <1>5
    <3> QED
      BY <2>1, <3>1 DEF HoldsBehind
  <2>4. PartSchema(s, at + 1) = [got |-> PartSchemaOf(Of("String")), at |-> (at + 1) + Len(k)]
    BY <1>4, <2>2, Zenon
  <2>5. PartSchema(s, (at + 1) + Len(k)) = [got |-> PartSchemaOf(t.value), at |-> ((at + 1) + Len(k)) + Len(w)]
    BY <1>4, <2>3, Zenon
  <2>6. NewTypeSchema(s, at) =
          [got |-> [code |-> t.code, key |-> PartSchema(s, at + 1).got,
                    value |-> PartSchema(s, PartSchema(s, at + 1).at).got],
           at |-> PartSchema(s, PartSchema(s, at + 1).at).at]
    BY <2>2 DEF NewTypeSchema, Lists, Elements
  <2>7. ((at + 1) + Len(k)) + Len(w) = at + Len(h \o w)
    BY <1>3, <1>5, <1>7
  <2>8. PartSchema(s, PartSchema(s, at + 1).at) = [got |-> PartSchemaOf(t.value), at |-> at + Len(h \o w)]
    BY <2>4, <2>5, <2>7
  <2> QED
    BY <1>2, <2>4, <2>6, <2>8
<1> QED
  BY <1>1, <1>7, <1>8 DEF Parsed

PropTypes(t) == IsFiniteSet(DOMAIN t.props) /\ \A p \in DOMAIN t.props : PartParsed(t.props[p])

LEMMA RecordTypeParsed ==
  ASSUME NEW t, t.code = "Record", PropTypes(t)
  PROVE  Parsed(t)
<1> DEFINE w == NamedTypes(t.props)
           schemas == [p \in DOMAIN t.props |-> PartSchemaOf(t.props[p])]
<1>1. TypeStream(t) = <<t.code>> \o w
  BY DEF TypeStream, Lists, Elements
<1>2. SchemaOf(t) = [code |-> t.code, props |-> schemas]
  BY DEF SchemaOf, Lists, Elements
<1>3. IsSeq(w) /\ Len(w) \in Nat
  BY NamedParsed DEF PropTypes, IsSeq
<1>4. \A s : \A at \in Nat : Holds(s, at, w) => NamedSchemas(s, at) = [got |-> schemas, at |-> at + Len(w)]
  BY NamedParsed DEF PropTypes
<1> HIDE DEF w, schemas
<1>5. Starts(TypeStream(t), t.code) /\ Len(TypeStream(t)) = 1 + Len(w)
  BY <1>1, <1>3, ItemFirst
<1>6. ASSUME NEW s, NEW at \in Nat, Holds(s, at, TypeStream(t))
      PROVE  NewTypeSchema(s, at) = [got |-> SchemaOf(t), at |-> at + Len(TypeStream(t))]
  <2>1. s[at + 1] = t.code /\ Holds(s, at + 1, w) /\ at + 1 \in Nat
    BY <1>1, <1>3, <1>6, HoldsItem
  <2>2. NamedSchemas(s, at + 1) = [got |-> schemas, at |-> (at + 1) + Len(w)]
    BY <1>4, <2>1, Zenon
  <2>3. NewTypeSchema(s, at) = [got |-> [code |-> t.code, props |-> NamedSchemas(s, at + 1).got],
                                at |-> NamedSchemas(s, at + 1).at]
    BY <2>1 DEF NewTypeSchema, Lists, Elements
  <2>4. (at + 1) + Len(w) = at + Len(TypeStream(t))
    BY <1>3, <1>5
  <2> QED
    BY <1>2, <2>2, <2>3, <2>4
<1> QED
  BY <1>5, <1>6 DEF Parsed

(* An element's type has a graph and a type id before its properties.      *)
LEMMA ElementTypeParsed ==
  ASSUME NEW t, t.code \in Elements, PropTypes(t)
  PROVE  Parsed(t)
<1> DEFINE w == NamedTypes(t.props)
           h == <<t.code, 1, "graph", "type">>
           schemas == [p \in DOMAIN t.props |-> PartSchemaOf(t.props[p])]
<1>1. TypeStream(t) = h \o w
  BY DEF TypeStream, Lists, Elements
<1>2. SchemaOf(t) = [code |-> t.code, props |-> [p \in DOMAIN schemas |-> [schema |-> schemas[p], vectorIndex |-> 0]]]
  BY DEF SchemaOf, Lists, Elements
<1>3. IsSeq(w) /\ Len(w) \in Nat
  BY NamedParsed DEF PropTypes, IsSeq
<1>4. \A s : \A at \in Nat : Holds(s, at, w) => NamedSchemas(s, at) = [got |-> schemas, at |-> at + Len(w)]
  BY NamedParsed DEF PropTypes
<1>5. IsSeq(h) /\ Len(h) = 4 /\ h[1] = t.code
  BY DEF IsSeq
<1> HIDE DEF w, schemas, h
<1>6. Starts(h \o w, t.code) /\ Len(h \o w) = 4 + Len(w)
  <2>1. /\ IsSeq(h \o w) /\ Len(h \o w) = Len(h) + Len(w)
        /\ \A i \in 1 .. Len(h) : (h \o w)[i] = h[i]
    BY <1>3, <1>5, Concatenated
  <2>2. 1 \in 1 .. Len(h)
    BY <1>5
  <2> QED
    BY <1>3, <1>5, <2>1, <2>2 DEF Starts
<1>7. ASSUME NEW s, NEW at \in Nat, Holds(s, at, h \o w)
      PROVE  NewTypeSchema(s, at) = [got |-> SchemaOf(t), at |-> at + Len(h \o w)]
  <2>1. HoldsBehind(s, at, h, w)
    BY <1>3, <1>5, <1>7, HoldsBoth, Zenon
  <2>2. s[at + 1] = t.code /\ Holds(s, at + 4, w) /\ at + 4 \in Nat
    <3>1. Holds(s, at, h) /\ Holds(s, at + Len(h), w) /\ 1 \in 1 .. Len(h)
      BY <1>5, <2>1 DEF HoldsBehind
    <3>2. s[at + 1] = h[1]
      BY <3>1 DEF Holds
    <3> QED
      BY <1>5, <3>1, <3>2
  <2>3. NamedSchemas(s, at + 4) = [got |-> schemas, at |-> (at + 4) + Len(w)]
    BY <1>4, <2>2, Zenon
  <2>4. NewTypeSchema(s, at) =
          [got |-> [code |-> t.code,
                    props |-> [p \in DOMAIN NamedSchemas(s, at + 4).got |->
                                 [schema |-> NamedSchemas(s, at + 4).got[p], vectorIndex |-> 0]]],
           at |-> NamedSchemas(s, at + 4).at]
    BY <2>2 DEF NewTypeSchema, Lists, Elements
  <2>5. (at + 4) + Len(w) = at + Len(h \o w)
    BY <1>3, <1>6
  <2>6. NamedSchemas(s, at + 4).got = schemas /\ NamedSchemas(s, at + 4).at = at + Len(h \o w)
    BY <2>3, <2>5
  <2> QED
    BY <1>2, <2>4, <2>6, Zenon
<1> QED
  BY <1>1, <1>6, <1>7 DEF Parsed

LEMMA PlainTypeParsed ==
  ASSUME NEW t, t.code \notin Lists \cup Elements \cup {"Map", "Record"}, PartParsed(t)
  PROVE  Parsed(t)
<1>1. TypeStream(t) = PartTypeStream(t) /\ SchemaOf(t) = PartSchemaOf(t)
  BY DEF TypeStream, SchemaOf, Lists, Elements
<1>2. ASSUME NEW s, NEW at \in Nat, Holds(s, at, PartTypeStream(t))
      PROVE  NewTypeSchema(s, at) = PartSchema(s, at)
  <2>1. 1 \in 1 .. Len(PartTypeStream(t))
    BY DEF PartParsed, Starts, IsSeq
  <2>2. s[at + 1] = t.code
    BY <1>2, <2>1 DEF Holds, PartParsed, Starts
  <2> QED
    BY <2>2 DEF NewTypeSchema, Lists, Elements
<1> QED
  BY <1>1, <1>2 DEF Parsed, PartParsed

(* Types: newTypeSchema reads the schema of every type with parts from the *)
(* bytes the server writes of it, and no byte more, if it does of parts.   *)
THEOREM TypesParsed ==
  ASSUME NEW t, Type(t), TypesAssumed
  PROVE  Parsed(t)
<1>1. CASE t.code \in Lists
  BY <1>1, ListTypeParsed DEF Type, TypesAssumed, Lists, Elements
<1>2. CASE t.code = "Map"
  BY <1>2, MapTypeParsed DEF Type, TypesAssumed, Lists, Elements
<1>3. CASE t.code = "Record"
  BY <1>3, RecordTypeParsed DEF Type, TypesAssumed, Lists, PropTypes, Elements
<1>4. CASE t.code \in Elements
  BY <1>4, ElementTypeParsed DEF Type, TypesAssumed, Lists, PropTypes, Elements
<1>5. CASE t.code \notin Lists \cup Elements \cup {"Map", "Record"}
  BY <1>5, PlainTypeParsed DEF Type, TypesAssumed, Lists, Elements
<1> QED
  BY <1>1, <1>2, <1>3, <1>4, <1>5

-----------------------------------------------------------------------------
(* Streams.  A value is read as it was written, to its end.                *)
PartReadBack(ctx, u, v) ==
  /\ IsSeq(PartStream(u, v))
  /\ \A s : \A at \in Nat :
       Holds(s, at, PartStream(u, v)) =>
         DecodePart(ctx, s, at, u.code) = [got |-> v, at |-> at + Len(PartStream(u, v))]

NullReadBack(ctx) == \A s : \A at \in Nat : DecodePart(ctx, s, at, "Unknown") = [got |-> Null, at |-> at]

ReadBack(ctx, t, v) ==
  /\ IsSeq(Stream(t, v))
  /\ \A s : \A at \in Nat :
       Holds(s, at, Stream(t, v)) =>
         DecodeAnyCompositeValue(ctx, s, at, t.code) = [got |-> v, at |-> at + Len(Stream(t, v))]

(* A list of values of one type, with nulls between them.                  *)
ItemsOf(ctx, u, xs) == IsSeq(xs) /\ \A i \in 1 .. Len(xs) : xs[i] = Null \/ PartReadBack(ctx, u, xs[i])

ItemsReadBack(ctx, u, xs) ==
  /\ IsSeq(SetStream(u, xs))
  /\ \A s : \A at \in Nat :
       Holds(s, at, SetStream(u, xs)) =>
         DecodeItems(ctx, s, at) = [got |-> xs, at |-> at + Len(SetStream(u, xs))]

LEMMA ItemsRead ==
  ASSUME NEW ctx, NEW u, NEW xs, ItemsOf(ctx, u, xs)
  PROVE  ItemsReadBack(ctx, u, xs)
<1> DEFINE n == Len(xs)
           bits == [i \in DOMAIN xs |-> xs[i] # Null]
           h == <<u.code, n, bits>>
           ss == [i \in DOMAIN xs |-> IF xs[i] = Null THEN <<>> ELSE PartStream(u, xs[i])]
<1>1. IsSeq(xs) /\ DOMAIN xs = 1 .. n /\ n \in Nat
  BY SequenceDomain DEF ItemsOf
<1>2. SetStream(u, xs) = h \o FlattenSeq(ss)
  BY DEF SetStream
<1>3. \A i \in 1 .. n : IsSeq(ss[i])
  BY <1>1, EmptySequence DEF ItemsOf, PartReadBack
<1>4. \A i \in 1 .. n : xs[i] = Null => ss[i] = <<>> /\ bits[i] = FALSE
  BY <1>1
<1>5. \A i \in 1 .. n : xs[i] # Null => ss[i] = PartStream(u, xs[i]) /\ bits[i] = TRUE
  BY <1>1
<1>6. IsSeq(ss) /\ Len(ss) = n
  <2>1. ss = [i \in 1 .. n |-> ss[i]]
    BY <1>1
  <2> HIDE DEF ss
  <2> QED
    BY <1>1, <2>1, SequenceOf
<1>7. IsSeq(h) /\ Len(h) = 3 /\ h[1] = u.code /\ h[2] = n /\ h[3] = bits
  <2> HIDE DEF n, bits
  <2> QED
    BY DEF IsSeq
<1> HIDE DEF n, bits, h, ss
<1>8. Pieces(ss)
  BY <1>3, <1>6 DEF Pieces
<1>9. /\ IsSeq(FlattenSeq(ss)) /\ Len(FlattenSeq(ss)) = Upto(ss, n) /\ Upto(ss, 0) = 0
      /\ \A k \in 0 .. n : Upto(ss, k) \in Nat
      /\ \A k \in 1 .. n : Upto(ss, k) = Upto(ss, k - 1) + Len(ss[k])
  BY <1>6, <1>8, Flattened
<1>10. IsSeq(h \o FlattenSeq(ss)) /\ Len(h \o FlattenSeq(ss)) = 3 + Upto(ss, n)
  <2>1. IsSeq(h \o FlattenSeq(ss)) /\ Len(h \o FlattenSeq(ss)) = Len(h) + Len(FlattenSeq(ss))
    <3> DEFINE w == FlattenSeq(ss)
    <3>1. IsSeq(w) /\ IsSeq(h)
      BY <1>7, <1>9
    <3> HIDE DEF w
    <3>2. IsSeq(h \o w) /\ Len(h \o w) = Len(h) + Len(w)
      BY <3>1, Concatenated
    <3> QED
      BY <3>2 DEF w
  <2> QED
    BY <1>7, <1>9, <2>1
<1>11. ASSUME NEW s, NEW at \in Nat, Holds(s, at, h \o FlattenSeq(ss))
       PROVE  DecodeItems(ctx, s, at) = [got |-> xs, at |-> at + Len(h \o FlattenSeq(ss))]
  <2> DEFINE e == [i \in 0 .. n |-> (at + 3) + Upto(ss, i)]
  <2>1. HoldsBehind(s, at, h, FlattenSeq(ss))
    BY <1>7, <1>9, <1>11, HoldsBoth, Zenon
  <2>2. s[at + 1] = u.code /\ s[at + 2] = n /\ s[at + 3] = bits
    <3>1. Holds(s, at, h) /\ 1 \in 1 .. Len(h) /\ 2 \in 1 .. Len(h) /\ 3 \in 1 .. Len(h)
      BY <1>7, <2>1 DEF HoldsBehind
    <3>2. s[at + 1] = h[1] /\ s[at + 2] = h[2] /\ s[at + 3] = h[3]
      BY <3>1 DEF Holds
    <3> QED
      BY <1>7, <3>2
  <2>3. Holds(s, at + 3, FlattenSeq(ss)) /\ at + 3 \in Nat
    BY <1>7, <2>1 DEF HoldsBehind
  <2>4. ASSUME NEW i \in 1 .. n
        PROVE  ItemAt(ctx, s, at, i, e[i - 1]) = [got |-> xs[i], at |-> e[i]]
    <3>1. i - 1 \in 0 .. n /\ i \in 0 .. n /\ i \in 1 .. Len(ss)
      BY <1>1, <1>6
    <3>2. Holds(s, (at + 3) + Upto(ss, i - 1), ss[i]) /\ (at + 3) + Upto(ss, i - 1) \in Nat
      BY <1>8, <2>3, <3>1, HoldsEach
    <3>3. e[i - 1] = (at + 3) + Upto(ss, i - 1) /\ e[i] = (at + 3) + Upto(ss, i)
      BY <3>1
    <3> HIDE DEF e
    <3>4. e[i] = e[i - 1] + Len(ss[i]) /\ e[i - 1] \in Nat
      <4>1. Upto(ss, i) = Upto(ss, i - 1) + Len(ss[i]) /\ Upto(ss, i - 1) \in Nat /\ Len(ss[i]) \in Nat
        BY <1>3, <1>9, <3>1 DEF IsSeq
      <4> QED
        BY <3>3, <4>1
    <3>5. CASE xs[i] = Null
      <4>1. ItemAt(ctx, s, at, i, e[i - 1]) = [got |-> Null, at |-> e[i - 1]]
        BY <1>4, <2>2, <3>5 DEF ItemAt
      <4>2. Len(ss[i]) = 0
        BY <1>4, <3>5, EmptySequence
      <4> QED
        BY <3>4, <3>5, <4>1, <4>2
    <3>6. CASE xs[i] # Null
      <4>1. ItemAt(ctx, s, at, i, e[i - 1]) = DecodePart(ctx, s, e[i - 1], u.code)
        BY <1>5, <2>2, <3>6 DEF ItemAt
      <4>2. Holds(s, e[i - 1], PartStream(u, xs[i])) /\ ss[i] = PartStream(u, xs[i])
        BY <1>5, <3>2, <3>3, <3>6
      <4>3. PartReadBack(ctx, u, xs[i])
        BY <3>6 DEF ItemsOf, n
      <4>4. DecodePart(ctx, s, e[i - 1], u.code) = [got |-> xs[i], at |-> e[i - 1] + Len(PartStream(u, xs[i]))]
        BY <3>4, <4>2, <4>3, Zenon DEF PartReadBack
      <4> QED
        BY <3>4, <4>1, <4>2, <4>4
    <3> QED
      BY <3>5, <3>6
  <2>5. e[0] = at + 3 /\ e[n] = at + Len(h \o FlattenSeq(ss)) /\ n \in 0 .. n
    <3>1. 0 \in 0 .. n /\ n \in 0 .. n
      BY <1>1
    <3>2. e[0] = (at + 3) + Upto(ss, 0) /\ e[n] = (at + 3) + Upto(ss, n)
      BY <3>1
    <3>3. Upto(ss, 0) = 0 /\ Upto(ss, n) \in Nat
      BY <1>9, <3>1
    <3> HIDE DEF e
    <3> QED
      BY <1>10, <3>1, <3>2, <3>3
  <2>6. e = [i \in 0 .. n |-> e[i]]
    OBVIOUS
  <2> HIDE DEF e
  <2>7. ItemEndsAt(ctx, s, at, e)
    <3>1. ASSUME NEW i \in 0 .. n, i # 0 PROVE e[i] = ItemAt(ctx, s, at, i, e[i - 1]).at
      <4>1. i \in 1 .. n
        BY <3>1
      <4>2. ItemAt(ctx, s, at, i, e[i - 1]) = [got |-> xs[i], at |-> e[i]]
        BY <2>4, <4>1, Zenon
      <4> QED
        BY <4>2
    <3> QED
      BY <2>2, <2>5, <2>6, <3>1 DEF ItemEndsAt
  <2> DEFINE ends == ItemEnds(ctx, s, at)
             got == [i \in 1 .. n |-> ItemAt(ctx, s, at, i, ends[i - 1]).got]
  <2>8. \A i \in 0 .. n : ends[i] = e[i]
    <3>1. s[at + 2] \in Nat
      BY <1>1, <2>2
    <3>2. Agree(ItemEnds(ctx, s, at), e, s[at + 2])
      BY <2>7, <3>1, ItemEndsAre, Zenon
    <3> QED
      BY <2>2, <3>2 DEF Agree
  <2>9. DecodeItems(ctx, s, at) = [got |-> got, at |-> ends[n]]
    BY <2>2 DEF DecodeItems
  <2> HIDE DEF ends
  <2>10. got = xs
    <3>1. ASSUME NEW i \in 1 .. n PROVE ItemAt(ctx, s, at, i, ends[i - 1]).got = xs[i]
      <4>1. i - 1 \in 0 .. n
        BY <1>1
      <4>2. ends[i - 1] = e[i - 1]
        BY <2>8, <4>1
      <4>3. ItemAt(ctx, s, at, i, e[i - 1]) = [got |-> xs[i], at |-> e[i]]
        BY <2>4, Zenon
      <4> QED
        BY <4>2, <4>3
    <3>2. got = [i \in 1 .. n |-> xs[i]]
      BY <3>1
    <3> QED
      BY <1>1, <3>2 DEF IsSeq, n
  <2> HIDE DEF got
  <2> QED
    BY <2>5, <2>8, <2>9, <2>10
<1> QED
  BY <1>2, <1>10, <1>11 DEF ItemsReadBack

(* A value behind its type, or a null.                                     *)
TaggedReadBack(ctx, u, x) ==
  /\ IsSeq(Tagged(u, x)) /\ Len(Tagged(u, x)) >= 1
  /\ \A s : \A at \in Nat :
       Holds(s, at, Tagged(u, x)) =>
         DecodePart(ctx, s, at + 1, s[at + 1]) = [got |-> x, at |-> at + Len(Tagged(u, x))]

LEMMA TaggedRead ==
  ASSUME NEW ctx, NEW u, NEW x, NullReadBack(ctx), x = Null \/ PartReadBack(ctx, u, x)
  PROVE  TaggedReadBack(ctx, u, x)
<1>1. CASE x = Null
  <2> DEFINE w == <<"Unknown">>
  <2>1. Tagged(u, x) = w
    BY <1>1 DEF Tagged
  <2>2. IsSeq(w) /\ Len(w) = 1 /\ w[1] = "Unknown" /\ 1 \in 1 .. Len(w)
    BY OneItem
  <2> HIDE DEF w
  <2>3. ASSUME NEW s, NEW at \in Nat, Holds(s, at, w)
        PROVE  DecodePart(ctx, s, at + 1, s[at + 1]) = [got |-> x, at |-> at + Len(w)]
    <3>1. s[at + 1] = "Unknown"
      BY <2>2, <2>3 DEF Holds
    <3>2. at + 1 \in Nat
      OBVIOUS
    <3>3. DecodePart(ctx, s, at + 1, "Unknown") = [got |-> Null, at |-> at + 1]
      BY <3>2, Zenon DEF NullReadBack
    <3> QED
      BY <1>1, <2>2, <3>1, <3>3
  <2> QED
    BY <2>1, <2>2, <2>3 DEF TaggedReadBack
<1>2. CASE x # Null
  <2> DEFINE w == PartStream(u, x)
  <2>1. Tagged(u, x) = <<u.code>> \o w /\ PartReadBack(ctx, u, x)
    BY <1>2 DEF Tagged
  <2>2. IsSeq(w) /\ Len(w) \in Nat
    BY <2>1 DEF PartReadBack, IsSeq
  <2>3. \A s : \A at \in Nat : Holds(s, at, w) => DecodePart(ctx, s, at, u.code) = [got |-> x, at |-> at + Len(w)]
    BY <2>1, Zenon DEF PartReadBack
  <2> HIDE DEF w
  <2>4. Starts(<<u.code>> \o w, u.code) /\ Len(<<u.code>> \o w) = 1 + Len(w)
    BY <2>2, ItemFirst
  <2>5. ASSUME NEW s, NEW at \in Nat, Holds(s, at, <<u.code>> \o w)
        PROVE  DecodePart(ctx, s, at + 1, s[at + 1]) = [got |-> x, at |-> at + Len(<<u.code>> \o w)]
    <3>1. s[at + 1] = u.code /\ Holds(s, at + 1, w) /\ at + 1 \in Nat
      BY <2>2, <2>5, HoldsItem
    <3>2. DecodePart(ctx, s, at + 1, u.code) = [got |-> x, at |-> (at + 1) + Len(w)]
      BY <2>3, <3>1, Zenon
    <3>3. (at + 1) + Len(w) = at + Len(<<u.code>> \o w)
      BY <2>2, <2>4
    <3> QED
      BY <3>1, <3>2, <3>3
  <2> QED
    BY <2>1, <2>4, <2>5 DEF TaggedReadBack, Starts
<1> QED
  BY <1>1, <1>2

(* Fields or properties, each under its name.                              *)
NamedOf(ctx, props, f) ==
  /\ IsFiniteSet(DOMAIN f) /\ f = [p \in DOMAIN f |-> f[p]]
  /\ \A p \in DOMAIN f : f[p] = Null \/ PartReadBack(ctx, props[p], f[p])

NamedReadBack(ctx, props, f) ==
  /\ IsSeq(NamedStream(props, f))
  /\ \A s : \A at \in Nat :
       Holds(s, at, NamedStream(props, f)) =>
         DecodeNamed(ctx, s, at) = [got |-> f, at |-> at + Len(NamedStream(props, f))]

LEMMA NamedRead ==
  ASSUME NEW ctx, NEW props, NEW f, NullReadBack(ctx), NamedOf(ctx, props, f)
  PROVE  NamedReadBack(ctx, props, f)
<1> DEFINE names == SetToSeq(DOMAIN f)
           n == Len(names)
           value(k) == Tagged(props[names[k]], f[names[k]])
           ss == [k \in DOMAIN names |-> <<names[k]>> \o value(k)]
<1>1. /\ IsSeq(names) /\ DOMAIN names = 1 .. n /\ n \in Nat
      /\ \A k \in 1 .. n : names[k] \in DOMAIN f
      /\ \A i, j \in 1 .. n : names[i] = names[j] => i = j
      /\ \A p \in DOMAIN f : \E k \in 1 .. n : names[k] = p
  BY Names DEF NamedOf
<1>2. NamedStream(props, f) = <<n>> \o FlattenSeq(ss)
  BY DEF NamedStream
<1> HIDE DEF names, n
<1>3. \A k \in 1 .. n : TaggedReadBack(ctx, props[names[k]], f[names[k]])
  BY <1>1, TaggedRead DEF NamedOf
<1>4. IsSeq(ss) /\ Len(ss) = n /\ \A k \in 1 .. n : ss[k] = <<names[k]>> \o value(k)
  <2>1. ss = [k \in 1 .. n |-> ss[k]]
    BY <1>1
  <2>2. IsSeq(ss) /\ Len(ss) = n
    <3> HIDE DEF ss
    <3> QED
      BY <1>1, <2>1, SequenceOf
  <2> QED
    BY <1>1, <2>2
<1>5. \A k \in 1 .. n : IsSeq(value(k)) /\ IsSeq(ss[k]) /\ Len(ss[k]) = 1 + Len(value(k)) /\ Len(value(k)) \in Nat
  <2> HIDE DEF ss
  <2> TAKE k \in 1 .. n
  <2>1. IsSeq(value(k))
    BY <1>3 DEF TaggedReadBack
  <2>2. ss[k] = <<names[k]>> \o value(k)
    BY <1>4
  <2> HIDE DEF value
  <2>3. Starts(ss[k], names[k]) /\ Len(ss[k]) = 1 + Len(value(k))
    BY <2>1, <2>2, ItemFirst, Zenon
  <2> QED
    BY <2>1, <2>3 DEF Starts, IsSeq
<1>6. \A k \in 1 .. n : \A s : \A at \in Nat :
        Holds(s, at, value(k)) =>
          DecodePart(ctx, s, at + 1, s[at + 1]) = [got |-> f[names[k]], at |-> at + Len(value(k))]
  BY <1>3, Zenon DEF TaggedReadBack
<1> HIDE DEF ss, value
<1>7. Pieces(ss)
  BY <1>4, <1>5 DEF Pieces
<1>8. /\ IsSeq(FlattenSeq(ss)) /\ Len(FlattenSeq(ss)) = Upto(ss, n) /\ Upto(ss, 0) = 0
      /\ \A k \in 0 .. n : Upto(ss, k) \in Nat
      /\ \A k \in 1 .. n : Upto(ss, k) = Upto(ss, k - 1) + Len(ss[k])
  BY <1>4, <1>7, Flattened
<1>9. IsSeq(<<n>> \o FlattenSeq(ss)) /\ Len(<<n>> \o FlattenSeq(ss)) = 1 + Upto(ss, n)
  BY <1>8, ItemFirst DEF Starts
<1>10. ASSUME NEW s, NEW at \in Nat, Holds(s, at, <<n>> \o FlattenSeq(ss))
       PROVE  DecodeNamed(ctx, s, at) = [got |-> f, at |-> at + Len(<<n>> \o FlattenSeq(ss))]
  <2> DEFINE e == [k \in 0 .. n |-> (at + 1) + Upto(ss, k)]
  <2>1. s[at + 1] = n /\ Holds(s, at + 1, FlattenSeq(ss)) /\ at + 1 \in Nat
    BY <1>8, <1>10, HoldsItem
  <2>2. ASSUME NEW k \in 1 .. n
        PROVE  /\ s[e[k - 1] + 1] = names[k]
               /\ NamedAt(ctx, s, e[k - 1]) = [got |-> f[names[k]], at |-> e[k]]
    <3>1. k - 1 \in 0 .. n /\ k \in 0 .. n
      BY <1>1
    <3>2. Holds(s, (at + 1) + Upto(ss, k - 1), ss[k]) /\ (at + 1) + Upto(ss, k - 1) \in Nat
      BY <1>4, <1>7, <2>1, HoldsEach
    <3>3. e[k - 1] = (at + 1) + Upto(ss, k - 1) /\ e[k] = (at + 1) + Upto(ss, k)
      BY <3>1
    <3> HIDE DEF e
    <3>4. Holds(s, e[k - 1], <<names[k]>> \o value(k)) /\ e[k - 1] \in Nat /\ IsSeq(value(k))
      BY <1>4, <1>5, <3>2, <3>3
    <3>5. s[e[k - 1] + 1] = names[k] /\ Holds(s, e[k - 1] + 1, value(k)) /\ e[k - 1] + 1 \in Nat
      BY <3>4, HoldsItem
    <3>6. DecodePart(ctx, s, (e[k - 1] + 1) + 1, s[(e[k - 1] + 1) + 1])
            = [got |-> f[names[k]], at |-> (e[k - 1] + 1) + Len(value(k))]
      BY <1>6, <3>5, Zenon
    <3>7. (e[k - 1] + 1) + Len(value(k)) = e[k] /\ (e[k - 1] + 1) + 1 = e[k - 1] + 2
      <4>1. Upto(ss, k) = Upto(ss, k - 1) + (1 + Len(value(k))) /\ Upto(ss, k - 1) \in Nat /\ Len(value(k)) \in Nat
        BY <1>5, <1>8, <3>1
      <4> QED
        BY <3>3, <4>1
    <3> QED
      BY <3>5, <3>6, <3>7 DEF NamedAt
  <2>3. e[0] = at + 1 /\ e[n] = at + Len(<<n>> \o FlattenSeq(ss)) /\ n \in 0 .. n
    <3>1. 0 \in 0 .. n /\ n \in 0 .. n
      BY <1>1
    <3>2. e[0] = (at + 1) + Upto(ss, 0) /\ e[n] = (at + 1) + Upto(ss, n)
      BY <3>1
    <3>3. Upto(ss, 0) = 0 /\ Upto(ss, n) \in Nat
      BY <1>8, <3>1
    <3> HIDE DEF e
    <3> QED
      BY <1>9, <3>1, <3>2, <3>3
  <2>4. e = [k \in 0 .. n |-> e[k]]
    OBVIOUS
  <2> HIDE DEF e
  <2>5. NamedEndsAt(ctx, s, at, e)
    <3>1. ASSUME NEW k \in 0 .. n, k # 0 PROVE e[k] = NamedAt(ctx, s, e[k - 1]).at
      <4>1. k \in 1 .. n
        BY <3>1
      <4>2. NamedAt(ctx, s, e[k - 1]) = [got |-> f[names[k]], at |-> e[k]]
        BY <2>2, <4>1, Zenon
      <4> QED
        BY <4>2
    <3> QED
      BY <2>1, <2>3, <2>4, <3>1 DEF NamedEndsAt
  <2> DEFINE ends == NamedEnds(ctx, s, at)
             keys == [k \in 1 .. n |-> s[ends[k - 1] + 1]]
             got == [k \in 1 .. n |-> NamedAt(ctx, s, ends[k - 1]).got]
  <2>6. \A k \in 0 .. n : ends[k] = e[k]
    <3>1. s[at + 1] \in Nat
      BY <1>1, <2>1
    <3>2. Agree(NamedEnds(ctx, s, at), e, s[at + 1])
      BY <2>5, <3>1, NamedEndsAre, Zenon
    <3> QED
      BY <2>1, <3>2 DEF Agree
  <2>7. DecodeNamed(ctx, s, at) = [got |-> ObjectOf(keys, got), at |-> ends[n]]
    BY <2>1 DEF DecodeNamed
  <2> HIDE DEF ends
  <2>8. \A k \in 1 .. n : keys[k] = names[k] /\ got[k] = f[names[k]]
    <3> TAKE k \in 1 .. n
    <3>1. k - 1 \in 0 .. n
      BY <1>1
    <3>2. ends[k - 1] = e[k - 1]
      BY <2>6, <3>1
    <3>3. s[e[k - 1] + 1] = names[k] /\ NamedAt(ctx, s, e[k - 1]) = [got |-> f[names[k]], at |-> e[k]]
      BY <2>2, Zenon
    <3>4. s[ends[k - 1] + 1] = names[k] /\ NamedAt(ctx, s, ends[k - 1]).got = f[names[k]]
      BY <3>2, <3>3
    <3> QED
      BY <3>4, Zenon
  <2>9. keys = names
    <3>1. keys = [k \in 1 .. n |-> keys[k]]
      OBVIOUS
    <3>2. IsSeq(keys) /\ Len(keys) = n
      <4> HIDE DEF keys
      <4> QED
        BY <1>1, <3>1, SequenceOf
    <3> HIDE DEF keys, got
    <3>3. Len(names) = n
      BY DEF n
    <3> QED
      BY <1>1, <2>8, <3>2, <3>3, SameSequence
  <2> HIDE DEF keys, got
  <2>10. Filled(ObjectOf(names, got), names, got)
    BY <1>1, ObjectFilled DEF Distinct, n
  <2>11. ObjectOf(names, got) = f
    <3>1. DOMAIN ObjectOf(names, got) = {names[k] : k \in 1 .. n}
      BY <2>10 DEF Filled, n
    <3>2. {names[k] : k \in 1 .. n} = DOMAIN f
      <4>1. \A k \in 1 .. n : names[k] \in DOMAIN f
        BY <1>1
      <4>2. \A p \in DOMAIN f : \E k \in 1 .. n : names[k] = p
        BY <1>1
      <4> QED
        BY <4>1, <4>2
    <3>3. ASSUME NEW p \in DOMAIN f PROVE ObjectOf(names, got)[p] = f[p]
      <4>1. PICK k \in 1 .. n : names[k] = p
        BY <1>1
      <4>2. ObjectOf(names, got)[names[k]] = got[k]
        BY <2>10 DEF Filled, n
      <4> QED
        BY <2>8, <4>1, <4>2
    <3>4. ObjectOf(names, got) = [p \in DOMAIN ObjectOf(names, got) |-> ObjectOf(names, got)[p]]
      BY <2>10, Zenon DEF Filled
    <3>5. f = [p \in DOMAIN f |-> f[p]]
      BY DEF NamedOf
    <3> QED
      BY <3>1, <3>2, <3>3, <3>4, <3>5
  <2> QED
    BY <2>3, <2>6, <2>7, <2>9, <2>11
<1> QED
  BY <1>2, <1>9, <1>10 DEF NamedReadBack

-----------------------------------------------------------------------------
(* What the values of a type are made of.                                  *)
PartOrNull(u) == PartValues(u) \cup {Null}

ItemsIn(u, xs) == IsSeq(xs) /\ \A i \in 1 .. Len(xs) : xs[i] \in PartOrNull(u)

EntriesIn(u, f) ==
  /\ IsFiniteSet(DOMAIN f) /\ DOMAIN f \subseteq Texts /\ f = [k \in DOMAIN f |-> f[k]]
  /\ \A k \in DOMAIN f : f[k] \in PartOrNull(u)

FieldsIn(props, f) ==
  /\ DOMAIN f = DOMAIN props /\ f = [p \in DOMAIN f |-> f[p]]
  /\ \A p \in DOMAIN props : f[p] \in PartOrNull(props[p])

ValueForm(t, v) ==
  /\ t.code \in Lists => v = [items |-> v.items] /\ ItemsIn(t.sub, v.items)
  /\ t.code = "Map" => v = [entries |-> v.entries] /\ EntriesIn(t.value, v.entries)
  /\ t.code = "Record" => v = [fields |-> v.fields] /\ FieldsIn(t.props, v.fields)
  /\ t.code = "Node" => v = [id |-> v.id, properties |-> v.properties] /\ FieldsIn(t.props, v.properties)
  /\ t.code = "Edge" =>
       /\ v = [src |-> v.src, dst |-> v.dst, direction |-> v.direction, properties |-> v.properties]
       /\ v.direction \in {"outgoing", "incoming", "none"} /\ FieldsIn(t.props, v.properties)
  /\ t.code \notin Lists \cup Elements \cup {"Map", "Record"} => v \in PartValues(t)

BoundsAssumed == IsFiniteSet(Texts) /\ MaxItems \in Nat

LEMMA ValueForms ==
  ASSUME NEW t, NEW v \in Values(t), BoundsAssumed
  PROVE  ValueForm(t, v)
<1> DEFINE orNull(u) == PartValues(u) \cup {Null}
           each == {f \in [DOMAIN t.props -> UNION {orNull(t.props[p]) : p \in DOMAIN t.props}] :
                      \A p \in DOMAIN t.props : f[p] \in orNull(t.props[p])}
<1>1. \A f \in each : FieldsIn(t.props, f)
  BY DEF FieldsIn, PartOrNull
<1>2. CASE t.code \in Lists
  <2>1. Values(t) = {[items |-> s] : s \in UNION {[1 .. n -> orNull(t.sub)] : n \in 0 .. MaxItems}}
    BY <1>2 DEF Values, Lists, Elements
  <2>2. PICK n \in 0 .. MaxItems : \E s \in [1 .. n -> orNull(t.sub)] : v = [items |-> s]
    BY <2>1
  <2>2a. PICK s \in [1 .. n -> orNull(t.sub)] : v = [items |-> s]
    BY <2>2
  <2>3. n \in Nat /\ s = [i \in 1 .. n |-> s[i]]
    BY <2>2 DEF BoundsAssumed
  <2>4. IsSeq(s) /\ Len(s) = n
    BY <2>3, SequenceOf
  <2>5. ItemsIn(t.sub, s)
    BY <2>4 DEF ItemsIn, PartOrNull
  <2> QED
    BY <1>2, <2>2a, <2>5 DEF ValueForm, Lists, Elements
<1>3. CASE t.code = "Map"
  <2>1. Values(t) = {[entries |-> f] : f \in UNION {[K -> orNull(t.value)] :
                                         K \in {S \in SUBSET Texts : Cardinality(S) <= MaxItems}}}
    BY <1>3 DEF Values, Lists, Elements
  <2>2. PICK K \in SUBSET Texts : \E f \in [K -> orNull(t.value)] : v = [entries |-> f]
    BY <2>1
  <2>2a. PICK f \in [K -> orNull(t.value)] : v = [entries |-> f]
    BY <2>2
  <2>3. IsFiniteSet(K)
    BY FS_Subset DEF BoundsAssumed
  <2>4. EntriesIn(t.value, f)
    BY <2>3 DEF EntriesIn, PartOrNull
  <2> QED
    BY <1>3, <2>2a, <2>4 DEF ValueForm, Lists, Elements
<1>4. CASE t.code = "Record"
  <2>1. Values(t) = {[fields |-> f] : f \in each}
    BY <1>4 DEF Values, Lists, Elements
  <2> HIDE DEF each
  <2>2. PICK f \in each : v = [fields |-> f]
    BY <2>1
  <2> QED
    BY <1>1, <1>4, <2>2 DEF ValueForm, Lists, Elements
<1>5. CASE t.code = "Node"
  <2>1. Values(t) = {[id |-> "n", properties |-> f] : f \in each}
    BY <1>5 DEF Values, Lists, Elements
  <2> HIDE DEF each
  <2>2. PICK f \in each : v = [id |-> "n", properties |-> f]
    BY <2>1
  <2> QED
    BY <1>1, <1>5, <2>2 DEF ValueForm, Lists, Elements
<1>6. CASE t.code = "Edge"
  <2>1. Values(t) = {[src |-> e[1], dst |-> e[2], direction |-> d, properties |-> f] :
                       e \in {<<"n", "n">>, <<"n", "m">>}, d \in {"outgoing", "incoming", "none"}, f \in each}
    BY <1>6 DEF Values, Lists, Elements
  <2> HIDE DEF each
  <2>2. PICK e \in {<<"n", "n">>, <<"n", "m">>}, d \in {"outgoing", "incoming", "none"}, f \in each :
          v = [src |-> e[1], dst |-> e[2], direction |-> d, properties |-> f]
    BY <2>1
  <2>3. FieldsIn(t.props, f)
    BY <1>1
  <2> QED
    BY <1>6, <2>2, <2>3 DEF ValueForm, Lists, Elements
<1>7. CASE t.code \notin Lists \cup Elements \cup {"Map", "Record"}
  BY <1>7 DEF ValueForm, Values, Lists, Elements
<1> QED
  BY <1>2, <1>3, <1>4, <1>5, <1>6, <1>7 DEF Elements

-----------------------------------------------------------------------------
(* An object filled with the values of a function is that function, in any *)
(* order of the names.                                                     *)
Enumerates(names, S) ==
  /\ Distinct(names) /\ DOMAIN names = 1 .. Len(names)
  /\ \A i \in 1 .. Len(names) : names[i] \in S
  /\ \A x \in S : \E i \in 1 .. Len(names) : names[i] = x

ValuesUnder(names, values, f) == \A i \in 1 .. Len(names) : values[i] = f[names[i]]

LEMMA ObjectRebuilt ==
  ASSUME NEW f, NEW names, NEW values,
         f = [p \in DOMAIN f |-> f[p]], Enumerates(names, DOMAIN f), ValuesUnder(names, values, f)
  PROVE  ObjectOf(names, values) = f
<1> DEFINE object == ObjectOf(names, values)
<1>1. Filled(object, names, values)
  BY ObjectFilled DEF Enumerates
<1> HIDE DEF object
<1>2. DOMAIN object = {names[i] : i \in 1 .. Len(names)} /\ object = [p \in DOMAIN object |-> object[p]]
  BY <1>1, Zenon DEF Filled
<1>3. {names[i] : i \in 1 .. Len(names)} = DOMAIN f
  <2>1. \A i \in 1 .. Len(names) : names[i] \in DOMAIN f
    BY DEF Enumerates
  <2>2. \A p \in DOMAIN f : \E i \in 1 .. Len(names) : names[i] = p
    BY DEF Enumerates
  <2> QED
    BY <2>1, <2>2
<1>4. ASSUME NEW p \in DOMAIN f PROVE object[p] = f[p]
  <2>1. PICK i \in 1 .. Len(names) : names[i] = p
    BY DEF Enumerates
  <2>2. object[names[i]] = values[i]
    BY <1>1 DEF Filled
  <2>3. values[i] = f[names[i]]
    BY DEF ValuesUnder
  <2> QED
    BY <2>1, <2>2, <2>3
<1>5. object = f
  BY <1>2, <1>3, <1>4
<1> QED
  BY <1>5 DEF object

LEMMA NamesEnumerate ==
  ASSUME NEW S, IsFiniteSet(S)
  PROVE  Enumerates(SetToSeq(S), S)
BY Names DEF Enumerates, Distinct

(* A map's keys and values.                                                *)
KeysApart(v) ==
  /\ Enumerates(KeysOf(v), DOMAIN v.entries)
  /\ IsSeq(KeyTexts(v)) /\ Len(KeyTexts(v)) = Len(KeysOf(v))
  /\ \A i \in 1 .. Len(KeysOf(v)) : KeyTexts(v)[i] = [string |-> KeysOf(v)[i]]
  /\ IsSeq(EntriesOf(v)) /\ Len(EntriesOf(v)) = Len(KeysOf(v))
  /\ \A i \in 1 .. Len(KeysOf(v)) : EntriesOf(v)[i] = v.entries[KeysOf(v)[i]]

LEMMA KeysAndValues ==
  ASSUME NEW v, IsFiniteSet(DOMAIN v.entries)
  PROVE  KeysApart(v)
<1> DEFINE keys == KeysOf(v)
           n == Len(keys)
           texts == KeyTexts(v)
           values == EntriesOf(v)
<1>1. Enumerates(keys, DOMAIN v.entries)
  BY NamesEnumerate DEF KeysOf
<1>2. DOMAIN keys = 1 .. n /\ n \in Nat
  BY <1>1 DEF Enumerates, Distinct, IsSeq
<1>3. texts = [i \in 1 .. n |-> [string |-> keys[i]]] /\ values = [i \in 1 .. n |-> v.entries[keys[i]]]
  BY <1>2 DEF KeyTexts, EntriesOf
<1> HIDE DEF keys, n, texts, values
<1>4. \A i \in 1 .. n : texts[i] = [string |-> keys[i]] /\ values[i] = v.entries[keys[i]]
  BY <1>3
<1>5. texts = [i \in 1 .. n |-> texts[i]] /\ values = [i \in 1 .. n |-> values[i]]
  BY <1>3
<1>6. IsSeq(texts) /\ Len(texts) = n
  BY <1>2, <1>5, SequenceOf
<1>7. IsSeq(values) /\ Len(values) = n
  BY <1>2, <1>5, SequenceOf
<1> QED
  BY <1>1, <1>4, <1>6, <1>7, Zenon DEF KeysApart, keys, n, texts, values

LEMMA KeyNames ==
  ASSUME NEW v, KeysApart(v)
  PROVE  [i \in DOMAIN KeyTexts(v) |-> KeyTexts(v)[i].string] = KeysOf(v)
<1> DEFINE n == Len(KeysOf(v))
           names == [i \in DOMAIN KeyTexts(v) |-> KeyTexts(v)[i].string]
<1>1. IsSeq(KeysOf(v)) /\ n \in Nat /\ DOMAIN KeyTexts(v) = 1 .. n
  <2>1. IsSeq(KeysOf(v)) /\ IsSeq(KeyTexts(v)) /\ Len(KeyTexts(v)) = n
    BY DEF KeysApart, Enumerates, Distinct
  <2> QED
    BY <2>1, SequenceDomain
<1>2. names = [i \in 1 .. n |-> names[i]] /\ \A i \in 1 .. n : names[i] = KeysOf(v)[i]
  BY <1>1 DEF KeysApart
<1> HIDE DEF names
<1>3. IsSeq(names) /\ Len(names) = n
  BY <1>1, <1>2, SequenceOf
<1>4. names = KeysOf(v)
  BY <1>1, <1>2, <1>3, SameSequence
<1> QED
  BY <1>4 DEF names

-----------------------------------------------------------------------------
(* Every value in a stream is read as it was written, to its end.          *)
TextParts == PartType(Of("String")) /\ PartValues(Of("String")) = {[string |-> x] : x \in Texts}

StreamsAssumed(ctx) ==
  /\ NullReadBack(ctx) /\ TextParts
  /\ \A u : PartType(u) => \A v \in PartValues(u) : PartReadBack(ctx, u, v)

LEMMA ItemsInRead ==
  ASSUME NEW ctx, NEW u, PartType(u), NEW xs, ItemsIn(u, xs), StreamsAssumed(ctx)
  PROVE  ItemsReadBack(ctx, u, xs)
<1>1. ItemsOf(ctx, u, xs)
  BY DEF ItemsOf, ItemsIn, StreamsAssumed, PartOrNull
<1> QED
  BY <1>1, ItemsRead

PartTypes(props) == IsFiniteSet(DOMAIN props) /\ \A p \in DOMAIN props : PartType(props[p])

LEMMA FieldsInRead ==
  ASSUME NEW ctx, NEW props, PartTypes(props), NEW f, FieldsIn(props, f), StreamsAssumed(ctx)
  PROVE  NamedReadBack(ctx, props, f)
<1>1. NamedOf(ctx, props, f)
  BY DEF NamedOf, PartTypes, FieldsIn, StreamsAssumed, PartOrNull
<1> QED
  BY <1>1, NamedRead DEF StreamsAssumed

LEMMA ListRead ==
  ASSUME NEW ctx, NEW t, t.code \in Lists, PartType(t.sub), NEW v,
         v = [items |-> v.items], ItemsIn(t.sub, v.items), StreamsAssumed(ctx)
  PROVE  ReadBack(ctx, t, v)
<1> DEFINE w == SetStream(t.sub, v.items)
<1>1. Stream(t, v) = w
  BY DEF Stream, Lists, Elements
<1>2. ItemsReadBack(ctx, t.sub, v.items)
  BY ItemsInRead
<1>3. IsSeq(w) /\ \A s : \A at \in Nat : Holds(s, at, w) => DecodeItems(ctx, s, at) = [got |-> v.items, at |-> at + Len(w)]
  BY <1>2, Zenon DEF ItemsReadBack
<1> HIDE DEF w
<1>4. ASSUME NEW s, NEW at \in Nat, Holds(s, at, w)
      PROVE  DecodeAnyCompositeValue(ctx, s, at, t.code) = [got |-> v, at |-> at + Len(w)]
  <2>1. DecodeItems(ctx, s, at) = [got |-> v.items, at |-> at + Len(w)]
    BY <1>3, <1>4, Zenon
  <2>2. DecodeAnyCompositeValue(ctx, s, at, t.code)
          = [got |-> [items |-> DecodeItems(ctx, s, at).got], at |-> DecodeItems(ctx, s, at).at]
    BY DEF DecodeAnyCompositeValue, Lists, Elements
  <2> QED
    BY <2>1, <2>2
<1> QED
  BY <1>1, <1>3, <1>4 DEF ReadBack

LEMMA MapRead ==
  ASSUME NEW ctx, NEW t, t.code = "Map", PartType(t.value), NEW v,
         v = [entries |-> v.entries], EntriesIn(t.value, v.entries), StreamsAssumed(ctx)
  PROVE  ReadBack(ctx, t, v)
<1> DEFINE keys == KeyTexts(v)
           values == EntriesOf(v)
           k == SetStream(Of("String"), keys)
           w == SetStream(t.value, values)
           n == Len(KeysOf(v))
<1>1. Stream(t, v) = k \o w
  BY DEF Stream, Lists, Elements
<1>2. KeysApart(v)
  BY KeysAndValues DEF EntriesIn
<1>3. /\ Enumerates(KeysOf(v), DOMAIN v.entries)
      /\ IsSeq(keys) /\ Len(keys) = n /\ IsSeq(values) /\ Len(values) = n
      /\ \A i \in 1 .. n : keys[i] = [string |-> KeysOf(v)[i]]
      /\ \A i \in 1 .. n : values[i] = v.entries[KeysOf(v)[i]]
  BY <1>2 DEF KeysApart
<1>4. \A i \in 1 .. n : KeysOf(v)[i] \in DOMAIN v.entries
  BY <1>3 DEF Enumerates
<1>5. ItemsIn(Of("String"), keys)
  <2>1. \A i \in 1 .. n : keys[i] \in PartOrNull(Of("String"))
    BY <1>3, <1>4 DEF EntriesIn, StreamsAssumed, TextParts, PartOrNull
  <2> QED
    BY <1>3, <2>1 DEF ItemsIn
<1>6. ItemsIn(t.value, values)
  BY <1>3, <1>4 DEF ItemsIn, EntriesIn
<1>7. ItemsReadBack(ctx, Of("String"), keys) /\ ItemsReadBack(ctx, t.value, values)
  BY <1>5, <1>6, ItemsInRead DEF StreamsAssumed, TextParts
<1> HIDE DEF n
<1>8. [i \in DOMAIN keys |-> keys[i].string] = KeysOf(v)
  BY <1>2, KeyNames
<1>9. ObjectOf(KeysOf(v), values) = v.entries
  <2>1. ValuesUnder(KeysOf(v), values, v.entries)
    BY <1>3 DEF ValuesUnder, n
  <2>2. v.entries = [p \in DOMAIN v.entries |-> v.entries[p]]
    BY DEF EntriesIn
  <2> QED
    BY <1>3, <2>1, <2>2, ObjectRebuilt
<1>10. /\ IsSeq(k)
       /\ \A s : \A at \in Nat : Holds(s, at, k) => DecodeItems(ctx, s, at) = [got |-> keys, at |-> at + Len(k)]
  BY <1>7, Zenon DEF ItemsReadBack
<1>11. /\ IsSeq(w)
       /\ \A s : \A at \in Nat : Holds(s, at, w) => DecodeItems(ctx, s, at) = [got |-> values, at |-> at + Len(w)]
  BY <1>7, Zenon DEF ItemsReadBack
<1> HIDE DEF keys, values, k, w
<1>12. IsSeq(k \o w) /\ Len(k) \in Nat /\ Len(w) \in Nat
  BY <1>10, <1>11, Concatenated DEF IsSeq
<1>13. ASSUME NEW s, NEW at \in Nat, Holds(s, at, k \o w)
       PROVE  DecodeAnyCompositeValue(ctx, s, at, t.code) = [got |-> v, at |-> at + Len(k \o w)]
  <2>1. HoldsBehind(s, at, k, w)
    BY <1>10, <1>11, <1>13, HoldsBoth, Zenon
  <2>2. Holds(s, at, k) /\ Holds(s, at + Len(k), w) /\ at + Len(k) \in Nat /\ Len(k \o w) = Len(k) + Len(w)
    BY <2>1 DEF HoldsBehind
  <2>3. DecodeItems(ctx, s, at) = [got |-> keys, at |-> at + Len(k)]
    BY <1>10, <2>2, Zenon
  <2>4. DecodeItems(ctx, s, at + Len(k)) = [got |-> values, at |-> (at + Len(k)) + Len(w)]
    BY <1>11, <2>2, Zenon
  <2> DEFINE one == DecodeItems(ctx, s, at)
             two == DecodeItems(ctx, s, one.at)
  <2>5. DecodeAnyCompositeValue(ctx, s, at, t.code)
          = [got |-> [entries |-> ObjectOf([i \in DOMAIN one.got |-> one.got[i].string], two.got)], at |-> two.at]
    BY DEF DecodeAnyCompositeValue, Lists, Elements
  <2>6. one.got = keys /\ one.at = at + Len(k)
    BY <2>3
  <2>7. two.got = values /\ two.at = at + Len(k \o w)
    BY <1>12, <2>2, <2>4, <2>6
  <2> HIDE DEF one, two
  <2>8. [i \in DOMAIN one.got |-> one.got[i].string] = KeysOf(v)
    BY <1>8, <2>6
  <2> QED
    BY <1>9, <2>5, <2>7, <2>8
<1> QED
  BY <1>1, <1>12, <1>13 DEF ReadBack

LEMMA RecordRead ==
  ASSUME NEW ctx, NEW t, t.code = "Record", PartTypes(t.props), NEW v,
         v = [fields |-> v.fields], FieldsIn(t.props, v.fields), StreamsAssumed(ctx)
  PROVE  ReadBack(ctx, t, v)
<1> DEFINE w == NamedStream(t.props, v.fields)
<1>1. Stream(t, v) = w
  BY DEF Stream, Lists, Elements
<1>2. NamedReadBack(ctx, t.props, v.fields)
  BY FieldsInRead
<1>3. IsSeq(w) /\ \A s : \A at \in Nat : Holds(s, at, w) => DecodeNamed(ctx, s, at) = [got |-> v.fields, at |-> at + Len(w)]
  BY <1>2, Zenon DEF NamedReadBack
<1> HIDE DEF w
<1>4. ASSUME NEW s, NEW at \in Nat, Holds(s, at, w)
      PROVE  DecodeAnyCompositeValue(ctx, s, at, t.code) = [got |-> v, at |-> at + Len(w)]
  <2>1. DecodeNamed(ctx, s, at) = [got |-> v.fields, at |-> at + Len(w)]
    BY <1>3, <1>4, Zenon
  <2>2. DecodeAnyCompositeValue(ctx, s, at, t.code)
          = [got |-> [fields |-> DecodeNamed(ctx, s, at).got], at |-> DecodeNamed(ctx, s, at).at]
    BY DEF DecodeAnyCompositeValue, Lists, Elements
  <2> QED
    BY <2>1, <2>2
<1> QED
  BY <1>1, <1>3, <1>4 DEF ReadBack

LEMMA NodeRead ==
  ASSUME NEW ctx, NEW t, t.code = "Node", PartTypes(t.props), NEW v,
         v = [id |-> v.id, properties |-> v.properties], FieldsIn(t.props, v.properties), StreamsAssumed(ctx)
  PROVE  ReadBack(ctx, t, v)
<1> DEFINE w == NamedStream(t.props, v.properties)
<1>1. Stream(t, v) = <<v.id>> \o w
  BY DEF Stream, Lists, Elements
<1>2. NamedReadBack(ctx, t.props, v.properties)
  BY FieldsInRead
<1>3. IsSeq(w) /\ \A s : \A at \in Nat : Holds(s, at, w) => DecodeNamed(ctx, s, at) = [got |-> v.properties, at |-> at + Len(w)]
  BY <1>2, Zenon DEF NamedReadBack
<1> HIDE DEF w
<1>4. Starts(<<v.id>> \o w, v.id) /\ Len(<<v.id>> \o w) = 1 + Len(w) /\ Len(w) \in Nat
  BY <1>3, ItemFirst DEF IsSeq
<1>5. ASSUME NEW s, NEW at \in Nat, Holds(s, at, <<v.id>> \o w)
      PROVE  DecodeAnyCompositeValue(ctx, s, at, t.code) = [got |-> v, at |-> at + Len(<<v.id>> \o w)]
  <2>1. s[at + 1] = v.id /\ Holds(s, at + 1, w) /\ at + 1 \in Nat
    BY <1>3, <1>5, HoldsItem
  <2>2. DecodeNamed(ctx, s, at + 1) = [got |-> v.properties, at |-> (at + 1) + Len(w)]
    BY <1>3, <2>1, Zenon
  <2>3. DecodeAnyCompositeValue(ctx, s, at, t.code)
          = [got |-> [id |-> s[at + 1], properties |-> DecodeNamed(ctx, s, at + 1).got],
             at |-> DecodeNamed(ctx, s, at + 1).at]
    BY DEF DecodeAnyCompositeValue, Lists, Elements
  <2>4. (at + 1) + Len(w) = at + Len(<<v.id>> \o w)
    BY <1>4
  <2> QED
    BY <2>1, <2>2, <2>3, <2>4
<1> QED
  BY <1>1, <1>4, <1>5 DEF ReadBack, Starts

(* The ends of an incoming edge are turned around twice.                   *)
LEMMA EdgeHeaderRead ==
  ASSUME NEW v, v.direction \in {"outgoing", "incoming", "none"}, NEW properties
  PROVE  EdgeOf(EdgeHeader(v), properties)
           = [src |-> v.src, dst |-> v.dst, direction |-> v.direction, properties |-> properties]
<1>1. CASE v.direction = "outgoing"
  BY <1>1 DEF EdgeHeader, EdgeOf, DirectionBits
<1>2. CASE v.direction = "incoming"
  BY <1>2 DEF EdgeHeader, EdgeOf, DirectionBits
<1>3. CASE v.direction = "none"
  BY <1>3 DEF EdgeHeader, EdgeOf, DirectionBits
<1> QED
  BY <1>1, <1>2, <1>3

LEMMA EdgeRead ==
  ASSUME NEW ctx, NEW t, t.code = "Edge", PartTypes(t.props), NEW v,
         v = [src |-> v.src, dst |-> v.dst, direction |-> v.direction, properties |-> v.properties],
         v.direction \in {"outgoing", "incoming", "none"},
         FieldsIn(t.props, v.properties), StreamsAssumed(ctx)
  PROVE  ReadBack(ctx, t, v)
<1> DEFINE h == EdgeHeader(v)
           w == NamedStream(t.props, v.properties)
<1>1. Stream(t, v) = h \o w
  BY DEF Stream, Lists, Elements
<1>2. NamedReadBack(ctx, t.props, v.properties)
  BY FieldsInRead
<1>3. IsSeq(w) /\ \A s : \A at \in Nat : Holds(s, at, w) => DecodeNamed(ctx, s, at) = [got |-> v.properties, at |-> at + Len(w)]
  BY <1>2, Zenon DEF NamedReadBack
<1>4. IsSeq(h) /\ Len(h) = 3 /\ h = [i \in 1 .. 3 |-> h[i]]
  BY DEF EdgeHeader, IsSeq
<1>5. EdgeOf(h, v.properties) = v
  BY EdgeHeaderRead
<1> HIDE DEF h, w
<1>6. IsSeq(h \o w) /\ Len(h \o w) = 3 + Len(w) /\ Len(w) \in Nat
  BY <1>3, <1>4, Concatenated DEF IsSeq
<1>7. ASSUME NEW s, NEW at \in Nat, Holds(s, at, h \o w)
      PROVE  DecodeAnyCompositeValue(ctx, s, at, t.code) = [got |-> v, at |-> at + Len(h \o w)]
  <2>1. HoldsBehind(s, at, h, w)
    BY <1>3, <1>4, <1>7, HoldsBoth, Zenon
  <2>2. Holds(s, at, h) /\ Holds(s, at + 3, w) /\ at + 3 \in Nat
    BY <1>4, <2>1 DEF HoldsBehind
  <2>3. [i \in 1 .. 3 |-> s[at + i]] = h
    <3>1. \A i \in 1 .. 3 : s[at + i] = h[i]
      BY <1>4, <2>2 DEF Holds
    <3> QED
      BY <1>4, <3>1
  <2>4. DecodeNamed(ctx, s, at + 3) = [got |-> v.properties, at |-> (at + 3) + Len(w)]
    BY <1>3, <2>2, Zenon
  <2>5. DecodeAnyCompositeValue(ctx, s, at, t.code)
          = [got |-> EdgeOf([i \in 1 .. 3 |-> s[at + i]], DecodeNamed(ctx, s, at + 3).got),
             at |-> DecodeNamed(ctx, s, at + 3).at]
    BY DEF DecodeAnyCompositeValue, Lists, Elements
  <2>6. (at + 3) + Len(w) = at + Len(h \o w)
    BY <1>6
  <2>7. DecodeNamed(ctx, s, at + 3).got = v.properties /\ DecodeNamed(ctx, s, at + 3).at = at + Len(h \o w)
    BY <2>4, <2>6
  <2> QED
    BY <1>5, <2>3, <2>5, <2>7
<1> QED
  BY <1>1, <1>6, <1>7 DEF ReadBack

(* Streams: decodeAnyCompositeValue reads every value with parts exactly,  *)
(* nulls included, and to its end, if it does so of parts.                 *)
THEOREM ValuesRead ==
  ASSUME NEW ctx, NEW t, Type(t), NEW v \in Values(t), BoundsAssumed, StreamsAssumed(ctx)
  PROVE  ReadBack(ctx, t, v)
<1>0. ValueForm(t, v)
  BY ValueForms
<1>1. CASE t.code \in Lists
  BY <1>0, <1>1, ListRead DEF Type, Lists, Elements, ValueForm
<1>2. CASE t.code = "Map"
  BY <1>0, <1>2, MapRead DEF Type, Lists, Elements, ValueForm
<1>3. CASE t.code = "Record"
  BY <1>0, <1>3, RecordRead DEF Type, Lists, Elements, ValueForm, PartTypes
<1>4. CASE t.code = "Node"
  BY <1>0, <1>4, NodeRead DEF Type, Lists, Elements, ValueForm, PartTypes
<1>5. CASE t.code = "Edge"
  BY <1>0, <1>5, EdgeRead DEF Type, Lists, Elements, ValueForm, PartTypes
<1>6. CASE t.code \notin Lists \cup Elements \cup {"Map", "Record"}
  <2>1. v \in PartValues(t) /\ PartType(t) /\ PartReadBack(ctx, t, v)
    BY <1>0, <1>6 DEF Type, Lists, Elements, ValueForm, StreamsAssumed
  <2>2. Stream(t, v) = PartStream(t, v)
    BY <1>6 DEF Stream, Lists, Elements
  <2>3. \A s : \A at : DecodeAnyCompositeValue(ctx, s, at, t.code) = DecodePart(ctx, s, at, t.code)
    BY <1>6 DEF DecodeAnyCompositeValue, Lists, Elements
  <2> QED
    BY <2>1, <2>2, <2>3 DEF ReadBack, PartReadBack
<1> QED
  BY <1>1, <1>2, <1>3, <1>4, <1>5, <1>6 DEF Elements

LEMMA NullRead ==
  ASSUME NEW ctx, NullReadBack(ctx)
  PROVE  \A s : \A at \in Nat : DecodeAnyCompositeValue(ctx, s, at, "Unknown") = [got |-> Null, at |-> at]
BY DEF NullReadBack, DecodeAnyCompositeValue, Lists, Elements

-----------------------------------------------------------------------------
(* Columns.  Each value in a flat vector shows what was written.           *)
PartFlatBack(ctx, u, vs, order) ==
  /\ PartFlat(u, vs, order).nulls = NullBits(vs)
  /\ \A i \in 1 .. Len(vs) :
       vs[i] # Null => PartShows(DecodeFlatPart(ctx, PartFlat(u, vs, order), i - 1, PartSchemaOf(u)), vs[i], u)

FlatsAssumed(ctx) ==
  /\ TextParts /\ \A v \in PartValues(Of("String")) : \A d : PartShows(d, v, Of("String")) => d = v
  /\ \A u : PartShows(Null, Null, u)
  /\ \A u : PartType(u) => PartSchemaOf(u).code = u.code
  /\ \A u : PartType(u) => \A vs : ItemsIn(u, vs) => \A order : PartFlatBack(ctx, u, vs, order)

FlatBack(ctx, t, vs, order) ==
  /\ Flat(t, vs, order).nulls = NullBits(vs)
  /\ \A i \in 1 .. Len(vs) :
       vs[i] # Null => Shows(DecodeFlatValue(ctx, Flat(t, vs, order), i - 1, SchemaOf(t)), vs[i], t)

(* A null is where the bits say.                                           *)
LEMMA NullBitsRead ==
  ASSUME NEW vs, IsSeq(vs), NEW v, v.nulls = NullBits(vs), NEW i \in 1 .. Len(vs)
  PROVE  IsNull(v, i - 1) <=> vs[i] = Null
<1>1. DOMAIN vs = 1 .. Len(vs) /\ Len(vs) \in Nat /\ (i - 1) + 1 = i
  BY SequenceDomain
<1>2. CASE \A k \in DOMAIN vs : vs[k] # Null
  BY <1>1, <1>2 DEF IsNull, NullBits
<1>3. CASE \E k \in DOMAIN vs : vs[k] = Null
  <2> DEFINE bits == [k \in DOMAIN vs |-> vs[k] # Null]
  <2>1. v.nulls = bits
    BY <1>3 DEF NullBits
  <2>2. bits # <<>>
    <3>1. i \in DOMAIN bits
      BY <1>1
    <3>2. ~(i \in DOMAIN <<>>)
      OBVIOUS
    <3> HIDE DEF bits
    <3> QED
      BY <3>1, <3>2
  <2>3. bits[i] = (vs[i] # Null)
    BY <1>1
  <2> HIDE DEF bits
  <2> QED
    BY <1>1, <2>1, <2>2, <2>3 DEF IsNull
<1> QED
  BY <1>2, <1>3

PartShown(ctx, u, vs, order) ==
  \A i \in 1 .. Len(vs) :
    PartShows(DecodeNested(ctx, PartFlat(u, vs, order), i - 1, PartSchemaOf(u)), vs[i], u)

LEMMA NestedShown ==
  ASSUME NEW ctx, NEW u, PartType(u), NEW vs, ItemsIn(u, vs), NEW order, FlatsAssumed(ctx)
  PROVE  PartShown(ctx, u, vs, order)
<1> DEFINE vector == PartFlat(u, vs, order)
<1>1. PartFlatBack(ctx, u, vs, order)
  BY DEF FlatsAssumed
<1>2. vector.nulls = NullBits(vs)
  BY <1>1 DEF PartFlatBack
<1>3. \A i \in 1 .. Len(vs) : vs[i] # Null => PartShows(DecodeFlatPart(ctx, vector, i - 1, PartSchemaOf(u)), vs[i], u)
  BY <1>1 DEF PartFlatBack
<1> HIDE DEF vector
<1>4. ASSUME NEW i \in 1 .. Len(vs)
      PROVE  PartShows(DecodeNested(ctx, vector, i - 1, PartSchemaOf(u)), vs[i], u)
  <2>1. IsNull(vector, i - 1) <=> vs[i] = Null
    BY <1>2, NullBitsRead DEF ItemsIn
  <2>2. CASE vs[i] = Null
    BY <2>1, <2>2 DEF DecodeNested, FlatsAssumed
  <2>3. CASE vs[i] # Null
    BY <1>3, <2>1, <2>3 DEF DecodeNested
  <2> QED
    BY <2>2, <2>3
<1> QED
  BY <1>4 DEF PartShown, vector

(* The values of a row's list, set or map, from where its span says.       *)
SpanShown(ctx, v, index, nested, u, xs) ==
  LET ds == Spanned(ctx, v, index, nested, PartSchemaOf(u))
  IN IsSeq(ds) /\ Len(ds) = Len(xs) /\ \A i \in 1 .. Len(xs) : PartShows(ds[i], xs[i], u)

AllItemsIn(u, parts) == IsSeq(parts) /\ \A i \in 1 .. Len(parts) : ItemsIn(u, parts[i])

LEMMA SpanRead ==
  ASSUME NEW ctx, NEW u, PartType(u), NEW parts, AllItemsIn(u, parts), NEW order, FlatsAssumed(ctx),
         NEW v, v.data = Spans(parts), NEW nested, v.nested[nested] = PartFlat(u, FlattenSeq(parts), order),
         NEW row \in 1 .. Len(parts)
  PROVE  SpanShown(ctx, v, row - 1, nested, u, parts[row])
<1> DEFINE xs == FlattenSeq(parts)
           part == parts[row]
           ds == Spanned(ctx, v, row - 1, nested, PartSchemaOf(u))
           start == Upto(parts, row - 1)
<1>1. Pieces(parts) /\ IsSeq(part) /\ DOMAIN parts = 1 .. Len(parts) /\ Len(parts) \in Nat
  BY SequenceDomain DEF AllItemsIn, ItemsIn, Pieces
<1>2. /\ IsSeq(xs)
      /\ \A j \in 1 .. Len(part) : start + j \in 1 .. Len(xs) /\ xs[start + j] = part[j]
  BY <1>1, Flattened
<1>3. ItemsIn(u, xs)
  <2>1. \A i \in 1 .. Len(parts) : parts[i] \in Seq(PartOrNull(u))
    BY SequenceOver DEF AllItemsIn, ItemsIn
  <2>2. xs \in Seq(PartOrNull(u))
    BY <1>1, <2>1, FlattenedOver DEF AllItemsIn
  <2> HIDE DEF xs
  <2> QED
    BY <2>2, IsSequence DEF ItemsIn
<1>4. v.data[row] = <<start, Len(part)>>
  <2>1. Spans(parts)[row] = <<Len(FlattenSeq(SubSeq(parts, 1, row - 1))), Len(parts[row])>>
    BY <1>1 DEF Spans
  <2> QED
    BY <2>1 DEF Upto
<1>5. start \in Nat
  <2>1. row - 1 \in 0 .. Len(parts)
    BY <1>1
  <2> QED
    BY <1>1, <2>1, Flattened
<1>6. PartShown(ctx, u, xs, order)
  BY <1>3, NestedShown
<1>7. v.nested[nested] = PartFlat(u, xs, order)
  OBVIOUS
<1> HIDE DEF xs, part, start
<1>8. (row - 1) + 1 = row /\ Len(part) \in Nat
  BY <1>1 DEF IsSeq
<1>9. ds = [i \in 1 .. Len(part) |-> DecodeNested(ctx, PartFlat(u, xs, order), start + i - 1, PartSchemaOf(u))]
  BY <1>4, <1>7, <1>8 DEF Spanned, SpanAt
<1>10. IsSeq(ds) /\ Len(ds) = Len(part)
  <2>1. ds = [i \in 1 .. Len(part) |-> ds[i]]
    BY <1>9
  <2> HIDE DEF ds
  <2> QED
    BY <1>8, <2>1, SequenceOf
<1>11. ASSUME NEW i \in 1 .. Len(part) PROVE PartShows(ds[i], part[i], u)
  <2>1. start + i \in 1 .. Len(xs) /\ xs[start + i] = part[i]
    BY <1>2
  <2>2. PartShows(DecodeNested(ctx, PartFlat(u, xs, order), (start + i) - 1, PartSchemaOf(u)), xs[start + i], u)
    BY <1>6, <2>1, Zenon DEF PartShown
  <2>3. ds[i] = DecodeNested(ctx, PartFlat(u, xs, order), (start + i) - 1, PartSchemaOf(u))
    BY <1>5, <1>9
  <2> QED
    BY <2>1, <2>2, <2>3
<1> QED
  BY <1>10, <1>11 DEF SpanShown, part

Forms(t, vs) == IsSeq(vs) /\ \A i \in 1 .. Len(vs) : vs[i] # Null => ValueForm(t, vs[i])

(* What the rows hold, one after the other.                                *)
LEMMA PartsOf ==
  ASSUME NEW vs, IsSeq(vs), NEW u, NEW parts, parts = [i \in DOMAIN vs |-> parts[i]],
         \A i \in 1 .. Len(vs) : parts[i] = <<>> \/ ItemsIn(u, parts[i])
  PROVE  AllItemsIn(u, parts) /\ Len(parts) = Len(vs)
<1>1. DOMAIN vs = 1 .. Len(vs) /\ Len(vs) \in Nat
  BY SequenceDomain
<1>2. IsSeq(parts) /\ Len(parts) = Len(vs)
  BY <1>1, SequenceOf
<1>3. ItemsIn(u, <<>>)
  <2>1. \A i \in 1 .. 0 : FALSE
    OBVIOUS
  <2> QED
    BY <2>1, EmptySequence DEF ItemsIn
<1> QED
  BY <1>2, <1>3 DEF AllItemsIn

LEMMA ListsShown ==
  ASSUME NEW ctx, NEW t, t.code \in Lists, PartType(t.sub), NEW vs, Forms(t, vs), NEW order, FlatsAssumed(ctx)
  PROVE  FlatBack(ctx, t, vs, order)
<1> DEFINE parts == [i \in DOMAIN vs |-> IF vs[i] = Null THEN <<>> ELSE vs[i].items]
           vector == Flat(t, vs, order)
<1>1. vector = [nulls |-> NullBits(vs), data |-> Spans(parts), special |-> <<>>,
                nested |-> <<PartFlat(t.sub, FlattenSeq(parts), order)>>]
  BY DEF Flat, Lists, Elements, Parts
<1>2. DOMAIN vs = 1 .. Len(vs) /\ Len(vs) \in Nat /\ IsSeq(vs)
  BY SequenceDomain DEF Forms
<1>3. \A i \in 1 .. Len(vs) :
        vs[i] # Null => vs[i] = [items |-> vs[i].items] /\ ItemsIn(t.sub, vs[i].items) /\ parts[i] = vs[i].items
  BY <1>2 DEF Forms, ValueForm
<1>4. AllItemsIn(t.sub, parts) /\ Len(parts) = Len(vs)
  <2>1. parts = [i \in DOMAIN vs |-> parts[i]]
    OBVIOUS
  <2>2. \A i \in 1 .. Len(vs) : vs[i] = Null => parts[i] = <<>>
    BY <1>2
  <2> HIDE DEF parts
  <2>3. \A i \in 1 .. Len(vs) : parts[i] = <<>> \/ ItemsIn(t.sub, parts[i])
    BY <1>3, <2>2
  <2> QED
    BY <1>2, <2>1, <2>3, PartsOf
<1> HIDE DEF parts, vector
<1>5. /\ vector.data = Spans(parts) /\ vector.nested[1] = PartFlat(t.sub, FlattenSeq(parts), order)
      /\ vector.nulls = NullBits(vs)
  BY <1>1
<1>6. ASSUME NEW i \in 1 .. Len(vs), vs[i] # Null
      PROVE  Shows(DecodeFlatValue(ctx, vector, i - 1, SchemaOf(t)), vs[i], t)
  <2> DEFINE ds == Spanned(ctx, vector, i - 1, 1, PartSchemaOf(t.sub))
             d == DecodeFlatValue(ctx, vector, i - 1, SchemaOf(t))
  <2>1. SpanShown(ctx, vector, i - 1, 1, t.sub, parts[i])
    <3>1. i \in 1 .. Len(parts)
      BY <1>4
    <3> QED
      BY <1>4, <1>5, <3>1, SpanRead
  <2>2. IsSeq(ds) /\ Len(ds) = Len(parts[i]) /\ \A k \in 1 .. Len(parts[i]) : PartShows(ds[k], parts[i][k], t.sub)
    BY <2>1 DEF SpanShown
  <2>3. d = [items |-> ds]
    <3>1. SchemaOf(t) = [code |-> t.code, sub |-> PartSchemaOf(t.sub)]
      BY DEF SchemaOf, Lists, Elements
    <3> QED
      BY <3>1 DEF DecodeFlatValue, Lists, Elements
  <2>4. parts[i] = vs[i].items /\ DOMAIN vs[i].items = 1 .. Len(vs[i].items)
    BY <1>3, <1>6, SequenceDomain DEF ItemsIn
  <2> HIDE DEF ds, d
  <2>5. d.items = ds
    BY <2>3
  <2>6. Len(d.items) = Len(vs[i].items) /\ \A k \in DOMAIN vs[i].items : PartShows(d.items[k], vs[i].items[k], t.sub)
    BY <2>2, <2>4, <2>5
  <2>7. Shows(d, vs[i], t)
    BY <1>6, <2>6 DEF Shows, Lists, Elements
  <2> QED
    BY <2>7 DEF d
<1> QED
  BY <1>5, <1>6 DEF FlatBack, vector

(* Parts of the same lengths are at the same places.                       *)
LEMMA SameSpans ==
  ASSUME NEW a, NEW b, Pieces(a), Pieces(b), Len(a) = Len(b), \A i \in 1 .. Len(a) : Len(a[i]) = Len(b[i])
  PROVE  Spans(a) = Spans(b)
<1> DEFINE n == Len(a)
           off == {k \in 0 .. n : Upto(a, k) # Upto(b, k)}
<1>1. n \in Nat /\ DOMAIN a = 1 .. n /\ DOMAIN b = 1 .. n
  BY SequenceDomain DEF Pieces
<1>2. Upto(a, 0) = 0 /\ \A k \in 1 .. n : Upto(a, k) = Upto(a, k - 1) + Len(a[k])
  BY Flattened
<1>3. Upto(b, 0) = 0 /\ \A k \in 1 .. n : Upto(b, k) = Upto(b, k - 1) + Len(b[k])
  BY Flattened
<1> HIDE DEF n
<1>4. off = {}
  <2> SUFFICES ASSUME off # {} PROVE FALSE
    OBVIOUS
  <2>1. off \in SUBSET Nat
    BY <1>1
  <2> HIDE DEF off
  <2>2. PICK k \in off : \A i \in off : k <= i
    BY <2>1, LeastNumber
  <2>3. k \in 0 .. n /\ Upto(a, k) # Upto(b, k)
    BY <2>2 DEF off
  <2>4. k \in 1 .. n /\ k - 1 \in 0 .. n /\ ~(k <= k - 1)
    BY <1>1, <1>2, <1>3, <2>3
  <2>5. Upto(a, k - 1) = Upto(b, k - 1)
    BY <2>2, <2>4 DEF off
  <2> QED
    BY <1>2, <1>3, <2>3, <2>4, <2>5 DEF n
<1>5. \A i \in 1 .. n : Upto(a, i - 1) = Upto(b, i - 1) /\ Len(a[i]) = Len(b[i])
  <2>1. \A i \in 1 .. n : i - 1 \in 0 .. n
    BY <1>1
  <2> QED
    BY <1>4, <2>1 DEF n
<1>6. /\ Spans(a) = [i \in 1 .. n |-> <<Upto(a, i - 1), Len(a[i])>>]
      /\ Spans(b) = [i \in 1 .. n |-> <<Upto(b, i - 1), Len(b[i])>>]
  BY <1>1 DEF Spans, Upto
<1> QED
  BY <1>5, <1>6

LEMMA MapsShown ==
  ASSUME NEW ctx, NEW t, t.code = "Map", PartType(t.value), NEW vs, Forms(t, vs), NEW order, FlatsAssumed(ctx)
  PROVE  FlatBack(ctx, t, vs, order)
<1> DEFINE keys == [i \in DOMAIN vs |-> IF vs[i] = Null THEN <<>> ELSE KeyTexts(vs[i])]
           values == [i \in DOMAIN vs |-> IF vs[i] = Null THEN <<>> ELSE EntriesOf(vs[i])]
           vector == Flat(t, vs, order)
           text == Of("String")
<1>1. vector = [nulls |-> NullBits(vs), data |-> Spans(keys), special |-> <<>>,
                nested |-> <<PartFlat(text, FlattenSeq(keys), order), PartFlat(t.value, FlattenSeq(values), order)>>]
  BY DEF Flat, Lists, Elements, Parts
<1>2. DOMAIN vs = 1 .. Len(vs) /\ Len(vs) \in Nat /\ IsSeq(vs)
  BY SequenceDomain DEF Forms
<1>3. \A i \in 1 .. Len(vs) :
        vs[i] # Null => keys[i] = KeyTexts(vs[i]) /\ values[i] = EntriesOf(vs[i])
  BY <1>2
<1>4. ASSUME NEW i \in 1 .. Len(vs), vs[i] # Null
      PROVE  /\ EntriesIn(t.value, vs[i].entries) /\ KeysApart(vs[i])
             /\ ItemsIn(text, KeyTexts(vs[i])) /\ ItemsIn(t.value, EntriesOf(vs[i]))
  <2>1. vs[i] = [entries |-> vs[i].entries] /\ EntriesIn(t.value, vs[i].entries)
    BY <1>4 DEF Forms, ValueForm
  <2>2. KeysApart(vs[i])
    BY <2>1, KeysAndValues DEF EntriesIn
  <2> DEFINE v == vs[i]
  <2> HIDE DEF v, text
  <2>3. EntriesIn(t.value, v.entries) /\ KeysApart(v)
    BY <2>1, <2>2 DEF v
  <2>4. \A k \in 1 .. Len(KeysOf(v)) : KeysOf(v)[k] \in DOMAIN v.entries
    BY <2>3 DEF KeysApart, Enumerates
  <2>5. ItemsIn(text, KeyTexts(v))
    <3>1. \A k \in 1 .. Len(KeysOf(v)) : [string |-> KeysOf(v)[k]] \in PartOrNull(text)
      BY <2>3, <2>4 DEF EntriesIn, FlatsAssumed, TextParts, PartOrNull, text
    <3> QED
      BY <2>3, <3>1 DEF ItemsIn, KeysApart
  <2>6. ItemsIn(t.value, EntriesOf(v))
    BY <2>3, <2>4 DEF ItemsIn, KeysApart, EntriesIn
  <2> QED
    BY <2>3, <2>5, <2>6 DEF v
<1>5. AllItemsIn(text, keys) /\ Len(keys) = Len(vs)
  <2>1. keys = [i \in DOMAIN vs |-> keys[i]]
    OBVIOUS
  <2>2. \A i \in 1 .. Len(vs) : vs[i] = Null => keys[i] = <<>>
    BY <1>2
  <2> HIDE DEF keys, values, text
  <2>3. \A i \in 1 .. Len(vs) : keys[i] = <<>> \/ ItemsIn(text, keys[i])
    BY <1>3, <1>4, <2>2
  <2> QED
    BY <1>2, <2>1, <2>3, PartsOf
<1>6. AllItemsIn(t.value, values) /\ Len(values) = Len(vs)
  <2>1. values = [i \in DOMAIN vs |-> values[i]]
    OBVIOUS
  <2>2. \A i \in 1 .. Len(vs) : vs[i] = Null => values[i] = <<>>
    BY <1>2
  <2> HIDE DEF keys, values, text
  <2>3. \A i \in 1 .. Len(vs) : values[i] = <<>> \/ ItemsIn(t.value, values[i])
    BY <1>3, <1>4, <2>2
  <2> QED
    BY <1>2, <2>1, <2>3, PartsOf
<1>7. Spans(keys) = Spans(values)
  <2>1. \A i \in 1 .. Len(vs) : Len(keys[i]) = Len(values[i])
    <3>1. ASSUME NEW i \in 1 .. Len(vs), vs[i] = Null PROVE keys[i] = values[i]
      BY <1>2, <3>1
    <3>2. ASSUME NEW i \in 1 .. Len(vs), vs[i] # Null PROVE Len(keys[i]) = Len(values[i])
      <4>1. KeysApart(vs[i])
        BY <1>4, <3>2
      <4>2. keys[i] = KeyTexts(vs[i]) /\ values[i] = EntriesOf(vs[i])
        BY <1>3, <3>2
      <4> HIDE DEF keys, values
      <4> QED
        BY <4>1, <4>2 DEF KeysApart
    <3> HIDE DEF keys, values
    <3> QED
      BY <3>1, <3>2
  <2> HIDE DEF keys, values
  <2>2. Pieces(keys) /\ Pieces(values)
    BY <1>5, <1>6 DEF AllItemsIn, Pieces, ItemsIn
  <2> QED
    BY <1>5, <1>6, <2>1, <2>2, SameSpans
<1> HIDE DEF keys, values, vector
<1>8. /\ vector.data = Spans(keys) /\ vector.data = Spans(values) /\ vector.nulls = NullBits(vs)
      /\ vector.nested[1] = PartFlat(text, FlattenSeq(keys), order)
      /\ vector.nested[2] = PartFlat(t.value, FlattenSeq(values), order)
  BY <1>1, <1>7
<1>9. PartType(text)
  BY DEF FlatsAssumed, TextParts
<1>10. SchemaOf(t) = [code |-> t.code, key |-> PartSchemaOf(text), value |-> PartSchemaOf(t.value)]
  BY DEF SchemaOf, Lists, Elements
<1> HIDE DEF text
<1>11. ASSUME NEW i \in 1 .. Len(vs), vs[i] # Null
       PROVE  Shows(DecodeFlatValue(ctx, vector, i - 1, SchemaOf(t)), vs[i], t)
  <2> DEFINE v == vs[i]
             n == Len(KeysOf(v))
             ks == Spanned(ctx, vector, i - 1, 1, PartSchemaOf(text))
             ds == Spanned(ctx, vector, i - 1, 2, PartSchemaOf(t.value))
             d == DecodeFlatValue(ctx, vector, i - 1, SchemaOf(t))
  <2>1. SpanShown(ctx, vector, i - 1, 1, text, keys[i])
    <3>1. i \in 1 .. Len(keys)
      BY <1>5
    <3> QED
      BY <1>5, <1>8, <1>9, <3>1, SpanRead
  <2>2. SpanShown(ctx, vector, i - 1, 2, t.value, values[i])
    <3>1. i \in 1 .. Len(values)
      BY <1>6
    <3> QED
      BY <1>6, <1>8, <3>1, SpanRead
  <2>3. EntriesIn(t.value, v.entries) /\ KeysApart(v) /\ ItemsIn(text, KeyTexts(v))
    BY <1>4, <1>11
  <2>4. keys[i] = KeyTexts(v) /\ values[i] = EntriesOf(v)
    BY <1>3, <1>11
  <2>5. d = [entries |-> ObjectOf([k \in DOMAIN ks |-> ks[k].string], ds)]
    BY <1>10 DEF DecodeFlatValue, Lists, Elements
  <2>6. /\ IsSeq(ks) /\ Len(ks) = Len(KeyTexts(v))
        /\ \A k \in 1 .. Len(KeyTexts(v)) : PartShows(ks[k], KeyTexts(v)[k], text)
    BY <2>1, <2>4 DEF SpanShown
  <2>7. /\ IsSeq(ds) /\ Len(ds) = Len(EntriesOf(v))
        /\ \A k \in 1 .. Len(EntriesOf(v)) : PartShows(ds[k], EntriesOf(v)[k], t.value)
    BY <2>2, <2>4 DEF SpanShown
  <2> HIDE DEF v, ks, ds, d, n
  <2>8. /\ Enumerates(KeysOf(v), DOMAIN v.entries) /\ IsSeq(KeyTexts(v)) /\ Len(KeyTexts(v)) = n /\ Len(EntriesOf(v)) = n
        /\ \A k \in 1 .. n : KeyTexts(v)[k] = [string |-> KeysOf(v)[k]]
        /\ \A k \in 1 .. n : EntriesOf(v)[k] = v.entries[KeysOf(v)[k]]
    BY <2>3 DEF KeysApart, n
  <2>9. ks = KeyTexts(v)
    <3>1. ASSUME NEW k \in 1 .. n PROVE ks[k] = KeyTexts(v)[k]
      <4>1. KeyTexts(v)[k] \in PartValues(text)
        <5>1. KeysOf(v)[k] \in DOMAIN v.entries
          BY <2>8 DEF Enumerates, n
        <5> QED
          BY <2>3, <2>8, <5>1 DEF EntriesIn, FlatsAssumed, TextParts, text
      <4>2. PartShows(ks[k], KeyTexts(v)[k], text)
        BY <2>6, <2>8
      <4> QED
        BY <4>1, <4>2 DEF FlatsAssumed, text
    <3> QED
      BY <2>6, <2>8, <3>1, SameSequence
  <2>10. d = [entries |-> ObjectOf(KeysOf(v), ds)]
    <3>1. [k \in DOMAIN ks |-> ks[k].string] = KeysOf(v)
      BY <2>3, <2>9, KeyNames
    <3> QED
      BY <2>5, <3>1
  <2> DEFINE object == ObjectOf(KeysOf(v), ds)
  <2>11. Filled(object, KeysOf(v), ds)
    BY <2>8, ObjectFilled DEF Enumerates
  <2> HIDE DEF object
  <2>12. DOMAIN object = DOMAIN v.entries
    <3>1. DOMAIN object = {KeysOf(v)[k] : k \in 1 .. n}
      BY <2>11 DEF Filled, n
    <3>2. \A k \in 1 .. n : KeysOf(v)[k] \in DOMAIN v.entries
      BY <2>8 DEF Enumerates, n
    <3>3. \A q \in DOMAIN v.entries : \E k \in 1 .. n : KeysOf(v)[k] = q
      BY <2>8 DEF Enumerates, n
    <3> QED
      BY <3>1, <3>2, <3>3
  <2>13. ASSUME NEW q \in DOMAIN v.entries PROVE PartShows(object[q], v.entries[q], t.value)
    <3>1. PICK k \in 1 .. n : KeysOf(v)[k] = q
      BY <2>8 DEF Enumerates, n
    <3>2. object[KeysOf(v)[k]] = ds[k]
      BY <2>11 DEF Filled, n
    <3>3. PartShows(ds[k], EntriesOf(v)[k], t.value) /\ EntriesOf(v)[k] = v.entries[q]
      BY <2>7, <2>8, <3>1
    <3> QED
      BY <3>1, <3>2, <3>3
  <2>14. d.entries = object
    BY <2>10 DEF object
  <2>15. Shows(d, v, t)
    <3>1. v # Null
      BY <1>11 DEF v
    <3> QED
      BY <2>12, <2>13, <2>14, <3>1 DEF Shows, Lists, Elements
  <2> QED
    BY <2>15 DEF d, v
<1> QED
  BY <1>8, <1>11 DEF FlatBack, vector

(* Either order lists every property once.                                 *)
LEMMA ListedEach ==
  ASSUME NEW t, IsFiniteSet(DOMAIN t.props), NEW order
  PROVE  Enumerates(Listed(t, order), DOMAIN t.props)
<1> DEFINE names == SetToSeq(DOMAIN t.props)
           n == Len(names)
           back == [i \in 1 .. n |-> names[(n - i) + 1]]
<1>1. Enumerates(names, DOMAIN t.props)
  BY NamesEnumerate
<1>2. Listed(t, order) = names \/ Listed(t, order) = back
  BY DEF Listed, Reverse
<1> HIDE DEF names, n
<1>3. n \in Nat /\ Len(names) = n
  BY <1>1 DEF Enumerates, Distinct, IsSeq, n
<1>4. /\ \A i, j \in 1 .. n : names[i] = names[j] => i = j
      /\ \A i \in 1 .. n : names[i] \in DOMAIN t.props
      /\ \A p \in DOMAIN t.props : \E i \in 1 .. n : names[i] = p
  BY <1>1 DEF Enumerates, Distinct, n
<1>5. \A i \in 1 .. n : (n - i) + 1 \in 1 .. n /\ (n - ((n - i) + 1)) + 1 = i
  BY <1>3
<1>6. \A i \in 1 .. n : back[i] = names[(n - i) + 1]
  OBVIOUS
<1>7. back = [i \in 1 .. n |-> back[i]]
  OBVIOUS
<1> HIDE DEF back
<1>8. IsSeq(back) /\ Len(back) = n
  BY <1>3, <1>7, SequenceOf
<1>9. ASSUME NEW i \in 1 .. n, NEW j \in 1 .. n, back[i] = back[j] PROVE i = j
  <2>1. (n - i) + 1 = (n - j) + 1
    BY <1>4, <1>5, <1>6, <1>9
  <2> QED
    BY <1>3, <2>1
<1>10. \A p \in DOMAIN t.props : \E i \in 1 .. n : back[i] = p
  <2> TAKE p \in DOMAIN t.props
  <2>1. PICK j \in 1 .. n : names[j] = p
    BY <1>4
  <2>2. (n - j) + 1 \in 1 .. n /\ back[(n - j) + 1] = names[j]
    BY <1>5, <1>6
  <2> QED
    BY <2>1, <2>2
<1>11. \A i \in 1 .. n : back[i] \in DOMAIN t.props
  BY <1>4, <1>5, <1>6
<1>12. Enumerates(back, DOMAIN t.props)
  <2>1. DOMAIN back = 1 .. Len(back)
    BY <1>8, SequenceDomain
  <2> QED
    BY <1>8, <1>9, <1>10, <1>11, <2>1 DEF Enumerates, Distinct
<1> QED
  BY <1>1, <1>2, <1>12

(* The values of one field or property in every row.                       *)
FieldColumn(vs, p) == [i \in DOMAIN vs |-> IF vs[i] = Null THEN Null ELSE vs[i].fields[p]]
PropColumn(vs, p) == [i \in DOMAIN vs |-> IF vs[i] = Null THEN Null ELSE vs[i].properties[p]]

LEMMA FieldColumnIn ==
  ASSUME NEW t, t.code = "Record", NEW vs, Forms(t, vs), NEW p \in DOMAIN t.props
  PROVE  /\ ItemsIn(t.props[p], FieldColumn(vs, p)) /\ Len(FieldColumn(vs, p)) = Len(vs)
         /\ \A i \in 1 .. Len(vs) : vs[i] # Null => FieldColumn(vs, p)[i] = vs[i].fields[p]
<1> DEFINE xs == FieldColumn(vs, p)
<1>1. DOMAIN vs = 1 .. Len(vs) /\ Len(vs) \in Nat
  BY SequenceDomain DEF Forms
<1>2. \A i \in 1 .. Len(vs) : vs[i] # Null => FieldsIn(t.props, vs[i].fields)
  BY DEF Forms, ValueForm
<1>3. xs = [i \in 1 .. Len(vs) |-> IF vs[i] = Null THEN Null ELSE vs[i].fields[p]]
  BY <1>1 DEF FieldColumn
<1> HIDE DEF xs
<1>4. xs = [i \in 1 .. Len(vs) |-> xs[i]]
  BY <1>3
<1>5. IsSeq(xs) /\ Len(xs) = Len(vs)
  BY <1>1, <1>4, SequenceOf
<1>6. \A i \in 1 .. Len(vs) : xs[i] = IF vs[i] = Null THEN Null ELSE vs[i].fields[p]
  BY <1>3
<1>7. \A i \in 1 .. Len(vs) : xs[i] \in PartOrNull(t.props[p])
  BY <1>2, <1>6 DEF FieldsIn, PartOrNull
<1> QED
  BY <1>5, <1>6, <1>7 DEF ItemsIn, xs

LEMMA PropColumnIn ==
  ASSUME NEW t, t.code \in Elements, NEW vs, Forms(t, vs), NEW p \in DOMAIN t.props
  PROVE  /\ ItemsIn(t.props[p], PropColumn(vs, p)) /\ Len(PropColumn(vs, p)) = Len(vs)
         /\ \A i \in 1 .. Len(vs) : vs[i] # Null => PropColumn(vs, p)[i] = vs[i].properties[p]
<1> DEFINE xs == PropColumn(vs, p)
<1>1. DOMAIN vs = 1 .. Len(vs) /\ Len(vs) \in Nat
  BY SequenceDomain DEF Forms
<1>2. \A i \in 1 .. Len(vs) : vs[i] # Null => FieldsIn(t.props, vs[i].properties)
  BY DEF Forms, ValueForm, Elements
<1>3. xs = [i \in 1 .. Len(vs) |-> IF vs[i] = Null THEN Null ELSE vs[i].properties[p]]
  BY <1>1 DEF PropColumn
<1> HIDE DEF xs
<1>4. xs = [i \in 1 .. Len(vs) |-> xs[i]]
  BY <1>3
<1>5. IsSeq(xs) /\ Len(xs) = Len(vs)
  BY <1>1, <1>4, SequenceOf
<1>6. \A i \in 1 .. Len(vs) : xs[i] = IF vs[i] = Null THEN Null ELSE vs[i].properties[p]
  BY <1>3
<1>7. \A i \in 1 .. Len(vs) : xs[i] \in PartOrNull(t.props[p])
  BY <1>2, <1>6 DEF FieldsIn, PartOrNull
<1> QED
  BY <1>5, <1>6, <1>7 DEF ItemsIn, xs

LEMMA RecordsShown ==
  ASSUME NEW ctx, NEW t, t.code = "Record", PartTypes(t.props), NEW vs, Forms(t, vs), NEW order, FlatsAssumed(ctx)
  PROVE  FlatBack(ctx, t, vs, order)
<1> DEFINE names == Listed(t, order)
           column(p) == FieldColumn(vs, p)
           nested == [k \in DOMAIN names |-> PartFlat(t.props[names[k]], column(names[k]), order)]
           vector == Flat(t, vs, order)
           n == Len(names)
<1>1. vector = [nulls |-> NullBits(vs), data |-> vs, special |-> names, nested |-> nested]
  BY DEF Flat, Lists, Elements, PropVectors, FieldColumn
<1>2. Enumerates(names, DOMAIN t.props)
  BY ListedEach DEF PartTypes
<1> HIDE DEF names, vector, column
<1>3. /\ DOMAIN names = 1 .. n /\ Distinct(names)
      /\ \A k \in 1 .. n : names[k] \in DOMAIN t.props
      /\ \A p \in DOMAIN t.props : \E k \in 1 .. n : names[k] = p
  BY <1>2 DEF Enumerates
<1>4. vector.special = names /\ vector.nulls = NullBits(vs)
      /\ \A k \in 1 .. n : vector.nested[k] = PartFlat(t.props[names[k]], column(names[k]), order)
  BY <1>1, <1>3
<1> HIDE DEF n
<1>5. SchemaOf(t) = [code |-> t.code, props |-> [p \in DOMAIN t.props |-> PartSchemaOf(t.props[p])]]
  BY DEF SchemaOf, Lists, Elements
<1>6. ASSUME NEW i \in 1 .. Len(vs), vs[i] # Null
      PROVE  Shows(DecodeFlatValue(ctx, vector, i - 1, SchemaOf(t)), vs[i], t)
  <2> DEFINE v == vs[i]
             values == [k \in DOMAIN names |-> DecodeNested(ctx, vector.nested[k], i - 1, SchemaOf(t).props[names[k]])]
             object == ObjectOf(names, values)
             d == DecodeFlatValue(ctx, vector, i - 1, SchemaOf(t))
  <2>1. d = [fields |-> object]
    BY <1>4, <1>5 DEF DecodeFlatValue, DecodeFields, Lists, Elements
  <2>2. ASSUME NEW k \in 1 .. n
        PROVE  PartShows(values[k], v.fields[names[k]], t.props[names[k]])
    <3> DEFINE p == names[k]
    <3>1. p \in DOMAIN t.props
      BY <1>3
    <3>2. values[k] = DecodeNested(ctx, vector.nested[k], i - 1, PartSchemaOf(t.props[p]))
      BY <1>3, <1>5, <3>1
    <3>3. vector.nested[k] = PartFlat(t.props[p], column(p), order)
      BY <1>4
    <3> HIDE DEF p, values
    <3>4. ItemsIn(t.props[p], column(p)) /\ Len(column(p)) = Len(vs) /\ column(p)[i] = v.fields[p]
      BY <1>6, <3>1, FieldColumnIn DEF column
    <3>5. PartShown(ctx, t.props[p], column(p), order)
      BY <3>1, <3>4, NestedShown DEF PartTypes
    <3>6. PartShows(DecodeNested(ctx, PartFlat(t.props[p], column(p), order), i - 1, PartSchemaOf(t.props[p])),
                    column(p)[i], t.props[p])
      BY <3>4, <3>5 DEF PartShown
    <3>7. PartShows(values[k], v.fields[p], t.props[p])
      BY <3>2, <3>3, <3>4, <3>6
    <3> QED
      BY <3>7 DEF p
  <2>3. FieldsIn(t.props, v.fields)
    BY <1>6 DEF Forms, ValueForm
  <2> HIDE DEF values, d, v
  <2>4. Filled(object, names, values)
    BY <1>3, ObjectFilled
  <2> HIDE DEF object
  <2>5. DOMAIN object = DOMAIN t.props
    <3>1. DOMAIN object = {names[k] : k \in 1 .. n}
      BY <2>4 DEF Filled, n
    <3>2. \A k \in 1 .. n : names[k] \in DOMAIN t.props
      BY <1>3
    <3>3. \A p \in DOMAIN t.props : \E k \in 1 .. n : names[k] = p
      BY <1>3
    <3> QED
      BY <3>1, <3>2, <3>3
  <2>6. ASSUME NEW p \in DOMAIN t.props PROVE PartShows(object[p], v.fields[p], t.props[p])
    <3>1. PICK k \in 1 .. n : names[k] = p
      BY <1>3
    <3>2. object[names[k]] = values[k]
      BY <2>4 DEF Filled, n
    <3>3. PartShows(values[k], v.fields[names[k]], t.props[names[k]])
      BY <2>2
    <3> QED
      BY <3>1, <3>2, <3>3
  <2>7. d.fields = object /\ DOMAIN v.fields = DOMAIN t.props /\ v # Null
    BY <1>6, <2>1, <2>3 DEF FieldsIn, v
  <2>8. Shows(d, v, t)
    BY <2>5, <2>6, <2>7 DEF Shows, Lists, Elements
  <2> QED
    BY <2>8 DEF d, v
<1> QED
  BY <1>4, <1>6 DEF FlatBack, vector

-----------------------------------------------------------------------------
(* Of an element whatever the schema's positions the head and the names    *)
(* show, and with the positions of the batch the properties.               *)
SchemaFits(t, schema) == schema.code = t.code /\ DOMAIN schema.props = DOMAIN t.props

StampFits(t, schema, order) ==
  \A p \in DOMAIN t.props :
    /\ schema.props[p].schema = PartSchemaOf(t.props[p])
    /\ schema.props[p].vectorIndex + 1 \in DOMAIN Listed(t, order)
    /\ Listed(t, order)[schema.props[p].vectorIndex + 1] = p

LEMMA ElementVector ==
  ASSUME NEW t, t.code \in Elements, PartTypes(t.props), NEW vs, Forms(t, vs), NEW order
  PROVE  /\ Flat(t, vs, order).nulls = NullBits(vs)
         /\ \A i \in 1 .. Len(vs) :
              vs[i] # Null => Flat(t, vs, order).data[i] = IF t.code = "Node" THEN vs[i].id ELSE EdgeHeader(vs[i])
         /\ \A k \in DOMAIN Listed(t, order) :
              Flat(t, vs, order).nested[k] = PartFlat(t.props[Listed(t, order)[k]], PropColumn(vs, Listed(t, order)[k]), order)
<1> DEFINE names == Listed(t, order)
           nested == [k \in DOMAIN names |-> PartFlat(t.props[names[k]], PropColumn(vs, names[k]), order)]
           data == [i \in DOMAIN vs |-> IF vs[i] = Null THEN <<>> ELSE
                                          IF t.code = "Node" THEN vs[i].id ELSE EdgeHeader(vs[i])]
<1>1. DOMAIN vs = 1 .. Len(vs)
  BY SequenceDomain DEF Forms
<1>2. CASE t.code = "Node"
  <2>1. Flat(t, vs, order) = [nulls |-> NullBits(vs), data |-> data, special |-> names, nested |-> nested]
    BY <1>2 DEF Flat, Lists, Elements, PropVectors, PropColumn, Parts
  <2> HIDE DEF names
  <2>2. Flat(t, vs, order).nulls = NullBits(vs) /\ Flat(t, vs, order).data = data /\ Flat(t, vs, order).nested = nested
    BY <2>1
  <2>3. \A i \in 1 .. Len(vs) : vs[i] # Null => data[i] = IF t.code = "Node" THEN vs[i].id ELSE EdgeHeader(vs[i])
    BY <1>1
  <2>4. \A k \in DOMAIN names : nested[k] = PartFlat(t.props[names[k]], PropColumn(vs, names[k]), order)
    OBVIOUS
  <2> HIDE DEF data, nested
  <2> QED
    BY <2>2, <2>3, <2>4 DEF names
<1>3. CASE t.code = "Edge"
  <2>1. Flat(t, vs, order) = [nulls |-> NullBits(vs), data |-> data, special |-> names, nested |-> nested]
    BY <1>3 DEF Flat, Lists, Elements, PropVectors, PropColumn, Parts
  <2> HIDE DEF names
  <2>2. Flat(t, vs, order).nulls = NullBits(vs) /\ Flat(t, vs, order).data = data /\ Flat(t, vs, order).nested = nested
    BY <2>1
  <2>3. \A i \in 1 .. Len(vs) : vs[i] # Null => data[i] = IF t.code = "Node" THEN vs[i].id ELSE EdgeHeader(vs[i])
    BY <1>1
  <2>4. \A k \in DOMAIN names : nested[k] = PartFlat(t.props[names[k]], PropColumn(vs, names[k]), order)
    OBVIOUS
  <2> HIDE DEF data, nested
  <2> QED
    BY <2>2, <2>3, <2>4 DEF names
<1> QED
  BY <1>2, <1>3 DEF Elements

(* What decodeFlatValue makes of an element.                               *)
LEMMA ElementDecoded ==
  ASSUME NEW ctx, NEW t, t.code \in Elements, PartTypes(t.props), NEW vs, Forms(t, vs), NEW order,
         NEW schema, SchemaFits(t, schema), NEW i \in 1 .. Len(vs), vs[i] # Null
  PROVE  DecodeFlatValue(ctx, Flat(t, vs, order), i - 1, schema)
           = [vs[i] EXCEPT !.properties = Properties(ctx, Flat(t, vs, order), i - 1, schema)]
<1> DEFINE vector == Flat(t, vs, order)
           v == vs[i]
           props == Properties(ctx, vector, i - 1, schema)
<1>1. (i - 1) + 1 = i
  <2>1. Len(vs) \in Nat
    BY DEF Forms, IsSeq
  <2> QED
    BY <2>1
<1>2. vector.data[i] = IF t.code = "Node" THEN v.id ELSE EdgeHeader(v)
  BY ElementVector
<1>3. schema.code = t.code /\ ValueForm(t, v)
  BY DEF SchemaFits, Forms
<1> HIDE DEF vector, v, props
<1>4. CASE t.code = "Node"
  <2>1. DecodeFlatValue(ctx, vector, i - 1, schema) = [id |-> v.id, properties |-> props]
    BY <1>1, <1>2, <1>3, <1>4 DEF DecodeFlatValue, Lists, Elements, props
  <2>2. v = [id |-> v.id, properties |-> v.properties]
    BY <1>3, <1>4 DEF ValueForm
  <2>3. [v EXCEPT !.properties = props] = [id |-> v.id, properties |-> props]
    BY <2>2
  <2> QED
    BY <2>1, <2>3 DEF vector, v, props
<1>5. CASE t.code = "Edge"
  <2>1. DecodeFlatValue(ctx, vector, i - 1, schema) = EdgeOf(EdgeHeader(v), props)
    BY <1>1, <1>2, <1>3, <1>5 DEF DecodeFlatValue, Lists, Elements, props
  <2>2. /\ v = [src |-> v.src, dst |-> v.dst, direction |-> v.direction, properties |-> v.properties]
        /\ v.direction \in {"outgoing", "incoming", "none"}
    BY <1>3, <1>5 DEF ValueForm
  <2>3. EdgeOf(EdgeHeader(v), props) = [src |-> v.src, dst |-> v.dst, direction |-> v.direction, properties |-> props]
    BY <2>2, EdgeHeaderRead
  <2>4. [v EXCEPT !.properties = props] = [src |-> v.src, dst |-> v.dst, direction |-> v.direction, properties |-> props]
    BY <2>2
  <2> QED
    BY <2>1, <2>3, <2>4 DEF vector, v, props
<1> QED
  BY <1>4, <1>5 DEF Elements

LEMMA ElementsShown ==
  ASSUME NEW ctx, NEW t, t.code \in Elements, PartTypes(t.props), NEW vs, Forms(t, vs), NEW order,
         NEW schema, SchemaFits(t, schema), NEW i \in 1 .. Len(vs), vs[i] # Null
  PROVE  Shows(DecodeFlatValue(ctx, Flat(t, vs, order), i - 1, schema), vs[i], t)
<1> DEFINE v == vs[i]
           props == Properties(ctx, Flat(t, vs, order), i - 1, schema)
           d == DecodeFlatValue(ctx, Flat(t, vs, order), i - 1, schema)
<1>1. d = [v EXCEPT !.properties = props]
  BY ElementDecoded
<1>2. ValueForm(t, v) /\ v # Null
  BY DEF Forms
<1>3. DOMAIN props = DOMAIN t.props
  BY DEF Properties, SchemaFits
<1> HIDE DEF v, props, d
<1>4. FieldsIn(t.props, v.properties) /\ "properties" \in DOMAIN v /\ v = [f \in DOMAIN v |-> v[f]]
  <2>1. CASE t.code = "Node"
    BY <1>2, <2>1 DEF ValueForm
  <2>2. CASE t.code = "Edge"
    BY <1>2, <2>2 DEF ValueForm
  <2> QED
    BY <2>1, <2>2 DEF Elements
<1>5. DOMAIN d = DOMAIN v /\ d.properties = props /\ \A f \in DOMAIN v \ {"properties"} : d[f] = v[f]
  BY <1>1, <1>4
<1>6. HeadOf(d) = HeadOf(v)
  BY <1>5 DEF HeadOf
<1>7. DOMAIN d.properties = DOMAIN v.properties
  BY <1>3, <1>4, <1>5 DEF FieldsIn
<1> QED
  BY <1>2, <1>6, <1>7 DEF Shows, Lists, Elements, d, v

LEMMA PropertiesShown ==
  ASSUME NEW ctx, NEW t, t.code \in Elements, PartTypes(t.props), NEW vs, Forms(t, vs), NEW order,
         NEW schema, SchemaFits(t, schema), StampFits(t, schema, order), FlatsAssumed(ctx),
         NEW i \in 1 .. Len(vs), vs[i] # Null
  PROVE  \A p \in DOMAIN vs[i].properties :
           vs[i].properties[p] # Null =>
             PartShows(DecodeFlatValue(ctx, Flat(t, vs, order), i - 1, schema).properties[p],
                       vs[i].properties[p], t.props[p])
<1> DEFINE v == vs[i]
           vector == Flat(t, vs, order)
           d == DecodeFlatValue(ctx, vector, i - 1, schema)
<1>1. d = [v EXCEPT !.properties = Properties(ctx, vector, i - 1, schema)]
  BY ElementDecoded
<1>2. ValueForm(t, v)
  BY DEF Forms
<1>3. FieldsIn(t.props, v.properties) /\ "properties" \in DOMAIN v
  <2>1. CASE t.code = "Node"
    BY <1>2, <2>1 DEF ValueForm
  <2>2. CASE t.code = "Edge"
    BY <1>2, <2>2 DEF ValueForm
  <2> QED
    BY <2>1, <2>2 DEF Elements
<1>4. ASSUME NEW p \in DOMAIN v.properties, v.properties[p] # Null
      PROVE  PartShows(d.properties[p], v.properties[p], t.props[p])
  <2> DEFINE k == schema.props[p].vectorIndex + 1
             xs == PropColumn(vs, p)
  <2>1. p \in DOMAIN t.props
    BY <1>3, <1>4 DEF FieldsIn
  <2>2. schema.props[p].schema = PartSchemaOf(t.props[p]) /\ k \in DOMAIN Listed(t, order) /\ Listed(t, order)[k] = p
    BY <2>1 DEF StampFits
  <2>3. vector.nested[k] = PartFlat(t.props[p], xs, order)
    BY <2>2, ElementVector
  <2>4. ItemsIn(t.props[p], xs) /\ Len(xs) = Len(vs) /\ xs[i] = v.properties[p]
    BY <2>1, PropColumnIn
  <2>5. d.properties[p] = DecodeFlatPart(ctx, vector.nested[k], i - 1, schema.props[p].schema)
    <3> HIDE DEF d, v, vector
    <3>1. d.properties = Properties(ctx, vector, i - 1, schema)
      BY <1>1, <1>3
    <3> QED
      BY <2>1, <3>1 DEF Properties, SchemaFits
  <2> HIDE DEF k, xs, d, v, vector
  <2>6. PartFlatBack(ctx, t.props[p], xs, order)
    BY <2>1, <2>4 DEF FlatsAssumed, PartTypes
  <2>7. PartShows(DecodeFlatPart(ctx, PartFlat(t.props[p], xs, order), i - 1, PartSchemaOf(t.props[p])), xs[i], t.props[p])
    BY <1>4, <2>4, <2>6 DEF PartFlatBack
  <2> QED
    BY <2>2, <2>3, <2>4, <2>5, <2>7
<1> QED
  BY <1>4 DEF d, v, vector

-----------------------------------------------------------------------------
(* What a column of a type holds.                                          *)
ColumnOf(t, vs) == IsSeq(vs) /\ \A i \in 1 .. Len(vs) : vs[i] \in Values(t) \cup {Null}

(* Vectors: every row of a flat vector of values with parts is shown by    *)
(* decodeFlatValue as it was sent, if rows of parts are.                   *)
THEOREM FlatsShown ==
  ASSUME NEW ctx, NEW t, Type(t), NEW vs, ColumnOf(t, vs), NEW order, BoundsAssumed, FlatsAssumed(ctx)
  PROVE  FlatBack(ctx, t, vs, order)
<1>0. Forms(t, vs)
  BY ValueForms DEF ColumnOf, Forms
<1>1. CASE t.code \in Lists
  BY <1>0, <1>1, ListsShown DEF Type, Lists, Elements
<1>2. CASE t.code = "Map"
  BY <1>0, <1>2, MapsShown DEF Type, Lists, Elements
<1>3. CASE t.code = "Record"
  BY <1>0, <1>3, RecordsShown DEF Type, Lists, Elements, PartTypes
<1>4. CASE t.code \in Elements
  <2>1. PartTypes(t.props)
    BY <1>4 DEF Type, Lists, Elements, PartTypes
  <2>2. SchemaFits(t, SchemaOf(t))
    BY <1>4 DEF SchemaOf, SchemaFits, Lists, Elements
  <2>3. Flat(t, vs, order).nulls = NullBits(vs)
    BY <1>0, <1>4, <2>1, ElementVector
  <2>4. \A i \in 1 .. Len(vs) : vs[i] # Null => Shows(DecodeFlatValue(ctx, Flat(t, vs, order), i - 1, SchemaOf(t)), vs[i], t)
    BY <1>0, <1>4, <2>1, <2>2, ElementsShown
  <2> QED
    BY <2>3, <2>4 DEF FlatBack
<1>5. CASE t.code \notin Lists \cup Elements \cup {"Map", "Record"}
  <2>1. Flat(t, vs, order) = PartFlat(t, vs, order)
    BY <1>5 DEF Flat, Lists, Elements
  <2>2. SchemaOf(t) = PartSchemaOf(t) /\ PartType(t)
    BY <1>5 DEF SchemaOf, Type, Lists, Elements
  <2>3. ItemsIn(t, vs)
    BY <1>0, <1>5 DEF Forms, ValueForm, ItemsIn, PartOrNull
  <2>4. PartFlatBack(ctx, t, vs, order) /\ PartSchemaOf(t).code = t.code
    BY <2>2, <2>3 DEF FlatsAssumed
  <2>5. \A v, index : DecodeFlatValue(ctx, v, index, PartSchemaOf(t)) = DecodeFlatPart(ctx, v, index, PartSchemaOf(t))
    BY <1>5, <2>4 DEF DecodeFlatValue, Lists, Elements
  <2>6. \A d, v : v # Null => (Shows(d, v, t) <=> PartShows(d, v, t))
    BY <1>5 DEF Shows, Lists, Elements
  <2> QED
    BY <2>1, <2>2, <2>4, <2>5, <2>6 DEF FlatBack, PartFlatBack
<1> QED
  BY <1>1, <1>2, <1>3, <1>4, <1>5
LEMMA SchemaCode ==
  ASSUME NEW t, Type(t), NEW ctx, FlatsAssumed(ctx)
  PROVE  SchemaOf(t).code = t.code
<1>1. CASE t.code \in Lists \cup Elements \cup {"Map", "Record"}
  BY <1>1 DEF SchemaOf, Lists, Elements
<1>2. CASE t.code \notin Lists \cup Elements \cup {"Map", "Record"}
  BY <1>2 DEF SchemaOf, Type, FlatsAssumed, Lists, Elements
<1> QED
  BY <1>1, <1>2
=============================================================================
