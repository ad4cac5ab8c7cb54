--------------------------- MODULE TypedDeltaProofs ---------------------------
(***************************************************************************)
(* Facts about the delta algebra, for every width of int64.                *)
(***************************************************************************)
EXTENDS TypedDelta, TLAPS

(***************************************************************************)
(* addChecked is exact: it returns the integer sum when the sum is an      *)
(* int64 and reports an overflow otherwise, so the sign test on the        *)
(* wrapped sum never misses an overflow and never invents one.             *)
(***************************************************************************)
THEOREM AddCheckedExact ==
  ASSUME NEW x \in Int64, NEW y \in Int64
  PROVE  addChecked(x, y) = IF x + y \in Int64 THEN x + y ELSE Err
BY Int64Assumption DEF addChecked, Wrap, MinInt, Int64, Modulus

(***************************************************************************)
(* MarshalInt64 and UnmarshalInt64 are inverse on int64, and what is       *)
(* marshalled is never empty.                                              *)
(***************************************************************************)
THEOREM RoundTrip ==
  ASSUME NEW v \in Int64
  PROVE  /\ UnmarshalInt64(MarshalInt64(v)) = v
         /\ MarshalInt64(v).len = Int64Width
         /\ MarshalInt64(v).word \in 0..(Modulus - 1)
         /\ MarshalInt64(v).json = Err
BY Int64Assumption DEF UnmarshalInt64, MarshalInt64, MinInt, Int64, Modulus, Int64Width

(***************************************************************************)
(* A string of Int64Width bytes decodes to an int64, any other to an error.*)
(***************************************************************************)
LEMMA UnmarshalType ==
  ASSUME NEW x, x.len \in Nat, x.word \in 0..(Modulus - 1)
  PROVE  UnmarshalInt64(x) \in Int64 \cup {Err}
BY Int64Assumption DEF UnmarshalInt64, MinInt, Int64, Modulus, Int64Width

LEMMA ErrNotInt64 == Err \notin Int64
BY ErrAssumption, Int64Assumption DEF Int64, MinInt

(***************************************************************************)
(* Apply returns an int64 or an error, whatever the deltas.                *)
(***************************************************************************)
LEMMA ApplyType ==
  ASSUME NEW x \in Int64, NEW ds
  PROVE  Apply(x, ds) \in Int64 \cup {Err}
BY AddCheckedExact DEF Apply, ApplyNet

(***************************************************************************)
(* A successful Apply is exact: the result is the current value plus the   *)
(* folded net amount, with no wrap-around.                                 *)
(***************************************************************************)
THEOREM ApplyExact ==
  ASSUME NEW x \in Int64, NEW ds, Apply(x, ds) # Err
  PROVE  /\ FoldNet(ds) \in Int64
         /\ Apply(x, ds) = x + FoldNet(ds)
BY AddCheckedExact DEF Apply, ApplyNet

(***************************************************************************)
(* One step of FoldNet keeps the net amount an int64 or an error, and adds *)
(* exactly the signed amount when it succeeds.                             *)
(***************************************************************************)
THEOREM FoldStepExact ==
  ASSUME NEW net \in Int64, NEW d \in Delta
  PROVE  /\ FoldStep(net, d) \in Int64 \cup {Err}
         /\ FoldStep(net, d) # Err => FoldStep(net, d) = net + signedAmount(d)
<1>1. signedAmount(d) \in Int64 \cup {Err}
  BY Int64Assumption DEF signedAmount, Delta, Op, OpAdd, OpSub, OpUnspecified, Int64, MinInt
<1>2. net # Err
  BY ErrNotInt64
<1>3. QED
  BY <1>1, <1>2, AddCheckedExact DEF FoldStep
=============================================================================
