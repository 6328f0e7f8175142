------------------------------ MODULE Vectors ------------------------------
(***************************************************************************)
(* What the vectors of every column type share.  A vector has cells of     *)
(* data, presence bits (none when nothing is null), a list of names as its *)
(* special meta data, and nested vectors.                                  *)
(***************************************************************************)
EXTENDS Integers, Sequences

Null == [null |-> TRUE]

(* A type without parts is its code.                                       *)
Of(code) == [code |-> code]

Lists == {"List", "Set"}
Elements == {"Node", "Edge"}

(* The presence bits of a vector: none when nothing is null.               *)
NullBits(vs) == IF \A i \in DOMAIN vs : vs[i] # Null THEN <<>> ELSE [i \in DOMAIN vs |-> vs[i] # Null]

(* nullBitSet: the bit of a row that is there is set, and a vector without *)
(* nulls has no bits.                                                      *)
IsNull(v, index) == v.nulls # <<>> /\ ~v.nulls[index + 1]
=============================================================================
