------------------------------ MODULE TypedDelta ------------------------------
(***************************************************************************)
(* The delta algebra of fabric-core/typeddelta.go: signed deltas on an     *)
(* int64, their fold, overflow-checked addition, the invariants a schema   *)
(* may declare, and the canonical encoding of an int64.                    *)
(*                                                                         *)
(* A Go result (int64, error) is an int64 or the value Err; err != nil is  *)
(* r = Err.  The width of int64 is a parameter: MinInt..MaxInt is the      *)
(* two's-complement range, so wrap-around happens in small instances.      *)
(***************************************************************************)
EXTENDS Integers, Sequences, SequencesExt

CONSTANTS MaxInt,   \* math.MaxInt64
          Err       \* the error of a failed operation

ASSUME Int64Assumption == MaxInt \in Nat \ {0}
ASSUME ErrAssumption   == Err \notin Int

MinInt  == -MaxInt - 1
Int64   == MinInt..MaxInt
Modulus == MaxInt - MinInt + 1

OpUnspecified == "UNSPECIFIED"
OpAdd         == "ADD"
OpSub         == "SUB"
Op            == {OpUnspecified, OpAdd, OpSub}
Delta         == [op : Op, arg : Int64]

(***************************************************************************)
(* int64 addition.  The sum of two int64 leaves the range by less than one *)
(* Modulus, so one correction gives the two's-complement result.           *)
(***************************************************************************)
Wrap(n) == IF n > MaxInt THEN n - Modulus
           ELSE IF n < MinInt THEN n + Modulus
           ELSE n

\* Mutant: the test has no case for a negative operand.
addCheckedAbove(a, b) ==
    LET s == Wrap(a + b)
    IN  IF b > 0 /\ s < a THEN Err ELSE s

addChecked(a, b) ==
    LET s == Wrap(a + b)
    IN  IF (b > 0 /\ s < a) \/ (b < 0 /\ s > a) THEN Err ELSE s

signedAmount(d) ==
    IF d.arg < 0 THEN Err
    ELSE CASE d.op = OpAdd -> d.arg
           [] d.op = OpSub -> -d.arg
           [] OTHER        -> Err

\* One iteration of the loop of FoldNet; an error ends the loop.
FoldStep(net, d) ==
    IF net = Err \/ signedAmount(d) = Err THEN Err
    ELSE addChecked(net, signedAmount(d))

FoldNet(deltas) == IF deltas = <<>> THEN Err ELSE FoldLeft(FoldStep, 0, deltas)

ApplyNet(cur, net) == addChecked(cur, net)

Apply(cur, deltas) ==
    LET net == FoldNet(deltas)
    IN  IF net \notin Int64 THEN Err ELSE ApplyNet(cur, net)

-----------------------------------------------------------------------------
(***************************************************************************)
(* An invariant is the set of int64 on which Holds returns true.           *)
(***************************************************************************)
NonNeg         == 0..MaxInt
RangeOf(lo, hi) == lo..hi
Holds(inv, v)  == v \in inv

-----------------------------------------------------------------------------
(***************************************************************************)
(* A byte string, by what the code observes of it: its length, the 64-bit  *)
(* word it holds when it is Int64Width long, and the schema it decodes to  *)
(* as JSON (Err if it is not the JSON of one).                             *)
(***************************************************************************)
Int64Width == 8

Empty        == [json |-> Err, len |-> 0, word |-> 0]
NotCanonical == [json |-> Err, len |-> Int64Width - 1, word |-> 0]

MarshalInt64(v) ==
    [json |-> Err, len |-> Int64Width, word |-> IF v < 0 THEN v + Modulus ELSE v]

UnmarshalInt64(b) ==
    IF b.len # Int64Width THEN Err
    ELSE IF b.word > MaxInt THEN b.word - Modulus ELSE b.word
=============================================================================
