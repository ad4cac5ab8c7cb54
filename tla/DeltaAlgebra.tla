----------------------------- MODULE DeltaAlgebra -----------------------------
(***************************************************************************)
(* The fold of typeddelta.go against its reference definition, over every  *)
(* value of a key and every short sequence of deltas: a transaction grows  *)
(* by one delta at a time.                                                 *)
(***************************************************************************)
EXTENDS TypedDelta

CONSTANT MaxDeltas   \* bound: deltas of a transaction on one key

ASSUME DeltasAssumption == MaxDeltas \in Nat

VARIABLES cur,      \* the value of the key
          deltas    \* the deltas, in the order of the write set

Init == cur \in Int64 /\ deltas = <<>>

AddDelta(d) == /\ Len(deltas) < MaxDeltas
               /\ deltas' = Append(deltas, d)
               /\ UNCHANGED cur

Next == \E d \in Delta : AddDelta(d)

Spec == Init /\ [][Next]_<<cur, deltas>>

-----------------------------------------------------------------------------
Legal(d)      == d.op \in {OpAdd, OpSub} /\ d.arg >= 0
Amount(d)     == IF d.op = OpAdd THEN d.arg ELSE -d.arg
Sum(ds)       == FoldLeft(LAMBDA n, d : n + Amount(d), 0, ds)

\* The net effect and each partial sum on the way to it are int64.
Representable(ds) == \A i \in DOMAIN ds : Sum(SubSeq(ds, 1, i)) \in Int64

(***************************************************************************)
(* Apply gives the sum over the integers, and fails exactly when there is  *)
(* no delta, one is illegal, or a partial sum or the result is not an      *)
(* int64: the wrap-around test of addChecked misses no overflow and        *)
(* reports none that is not there.                                         *)
(***************************************************************************)
ApplyIsSum ==
    Apply(cur, deltas) =
        IF /\ deltas # <<>>
           /\ \A i \in DOMAIN deltas : Legal(deltas[i])
           /\ Representable(deltas)
           /\ cur + Sum(deltas) \in Int64
        THEN cur + Sum(deltas) ELSE Err

(***************************************************************************)
(* The order of the deltas of a transaction does not change their net      *)
(* effect, as TestFoldNetCommutative has it for FoldNet.                   *)
(***************************************************************************)
FoldNetCommutes == FoldNet(Reverse(deltas)) = FoldNet(deltas)
=============================================================================
