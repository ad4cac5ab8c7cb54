------------------------ MODULE TypedDeltaHooksProofs -------------------------
(***************************************************************************)
(* Facts about the hooks, for one transaction on one view of the state.    *)
(***************************************************************************)
EXTENDS TypedDeltaHooks, TypedDeltaProofs, WellFoundedInduction

-----------------------------------------------------------------------------
(***************************************************************************)
(* A nonempty set of naturals has a least element.                         *)
(***************************************************************************)
LEMMA LeastExists ==
  ASSUME NEW T \in SUBSET Nat, T # {}
  PROVE  \E x \in T : \A y \in T : x <= y
<1>1. \A x, y \in Nat : x < y => <<x, y>> \in OpToRel(<, Nat)
  BY Zenon DEF OpToRel
<1>2. PICK x \in T : \A y \in T : ~(<<y, x>> \in OpToRel(<, Nat))
  BY NatLessThanWellFounded, WFMin
<1>3. \A y \in T : ~(y < x)
  BY <1>1, <1>2, Zenon
<1>4. QED
  BY <1>3

(***************************************************************************)
(* Every key of a write set has a last write, the one plainValue takes.    *)
(***************************************************************************)
LEMMA LastWrite ==
  ASSUME NEW ws \in Seq(Write), NEW k \in WrittenKeys(ws)
  PROVE  \E i \in DOMAIN ws : ws[i].key = k /\ \A j \in DOMAIN ws : ws[j].key = k => j <= i
<1> DEFINE T == {Len(ws) - i : i \in {j \in DOMAIN ws : ws[j].key = k}}
<1>1. T \in SUBSET Nat /\ T # {}
  BY DEF WrittenKeys
<1>2. PICK m \in T : \A y \in T : m <= y
  <2> HIDE DEF T
  <2> QED BY <1>1, LeastExists
<1>3. PICK i \in DOMAIN ws : ws[i].key = k /\ m = Len(ws) - i
  OBVIOUS
<1>4. ASSUME NEW j \in DOMAIN ws, ws[j].key = k
      PROVE  j <= i
  <2>1. Len(ws) - j \in T
    BY <1>4
  <2>2. Len(ws) - i <= Len(ws) - j
    BY <1>2, <1>3, <2>1
  <2>3. QED
    BY <2>2
<1>5. QED
  BY <1>3, <1>4

LEMMA PlainValueType ==
  ASSUME NEW ws \in Seq(Write), NEW k \in WrittenKeys(ws)
  PROVE  \E i \in DOMAIN ws : /\ ws[i].key = k
                              /\ plainValue(ws, k) = IF IsKVWriteDelete(ws[i]) THEN Empty ELSE ws[i].value
<1> DEFINE i == CHOOSE i \in DOMAIN ws : /\ ws[i].key = k
                                         /\ \A j \in DOMAIN ws : ws[j].key = k => j <= i
<1>1. i \in DOMAIN ws /\ ws[i].key = k
  BY LastWrite
<1>2. QED
  BY <1>1 DEF plainValue

-----------------------------------------------------------------------------
(***************************************************************************)
(* Types of the values the hooks compute.                                  *)
(***************************************************************************)
LEMMA BytesTypes ==
  /\ Empty \in Bytes
  /\ NoEntry \in Entry
  /\ \A v \in Int64 : MarshalInt64(v) \in Bytes
<1>1. Empty \in Bytes
  BY Int64Assumption DEF Empty, Bytes, Modulus, MinInt
<1>2. \A v \in Int64 : MarshalInt64(v) \in Bytes
  BY Int64Assumption DEF MarshalInt64, Bytes, Modulus, MinInt, Int64, Int64Width
<1>3. QED
  BY <1>1, <1>2 DEF NoEntry, Entry, NoVersion, Version

LEMMA ViewType ==
  ASSUME NEW d \in [AllKeys -> Entry],
         NEW u, u \in [DOMAIN u -> Entry], DOMAIN u \subseteq AllKeys
  PROVE  View(u, d) \in [AllKeys -> Entry]
BY DEF View

LEMMA CurrentType ==
  ASSUME NEW view \in [AllKeys -> Entry], NEW k \in AllKeys
  PROVE  currentInt64(view, k) \in Int64 \cup {Err}
<1>1. view[k].value.len \in Nat /\ view[k].value.word \in 0..(Modulus - 1)
  BY Int64Assumption DEF Entry, Bytes, Empty, Modulus, MinInt
<1>2. 0 \in Int64
  BY Int64Assumption DEF Int64, MinInt
<1>3. UnmarshalInt64(view[k].value) \in Int64 \cup {Err}
  BY <1>1, UnmarshalType
<1>4. QED
  BY <1>2, <1>3 DEF currentInt64, IntOf

LEMMA WriteType ==
  ASSUME NEW ws \in Seq(Write), NEW i \in DOMAIN ws
  PROVE  /\ ws[i] \in Write
         /\ ws[i].key \in AllKeys
         /\ ws[i].value \in Bytes
         /\ ws[i].isDelta \in BOOLEAN
         /\ ws[i].isDelete \in BOOLEAN
<1>1. ws[i] \in Write
  OBVIOUS
<1>2. QED
  BY <1>1 DEF Write

LEMMA WrittenInAllKeys ==
  ASSUME NEW ws \in Seq(Write)
  PROVE  /\ WrittenKeys(ws) \subseteq AllKeys
         /\ DeltaKeys(ws) \subseteq WrittenKeys(ws)
         /\ WrittenKeys(ws) = DeltaKeys(ws) \cup PlainKeys(ws)
BY WriteType DEF WrittenKeys, DeltaKeys, PlainKeys

(***************************************************************************)
(* A transaction that applies materialises an int64 for each delta key.    *)
(***************************************************************************)
LEMMA DeltaApplies ==
  ASSUME NEW view \in [AllKeys -> Entry], NEW ws \in Seq(Write),
         ~ApplyFails(view, ws), NEW k \in DeltaKeys(ws)
  PROVE  /\ currentInt64(view, k) \in Int64
         /\ applyTypedDeltas(view, ws, k) \in Int64
<1>1. k \in AllKeys
  BY WrittenInAllKeys
<1>2. currentInt64(view, k) \in Int64
  BY <1>1, CurrentType DEF ApplyFails
<1>3. QED
  BY <1>2, ApplyType DEF ApplyFails, applyTypedDeltas

LEMMA TxUpdatesType ==
  ASSUME NEW view \in [AllKeys -> Entry], NEW ws \in Seq(Write),
         ~ApplyFails(view, ws), NEW h \in Version
  PROVE  /\ TxUpdates(view, ws, h) \in [WrittenKeys(ws) -> Entry]
         /\ DOMAIN TxUpdates(view, ws, h) = WrittenKeys(ws)
<1>1. ASSUME NEW k \in WrittenKeys(ws)
      PROVE  (IF k \in DeltaKeys(ws) THEN MarshalInt64(applyTypedDeltas(view, ws, k))
              ELSE plainValue(ws, k)) \in Bytes
  <2>1. CASE k \in DeltaKeys(ws)
    BY <2>1, DeltaApplies, BytesTypes
  <2>2. CASE k \notin DeltaKeys(ws)
    <3>1. PICK i \in DOMAIN ws :
             plainValue(ws, k) = IF IsKVWriteDelete(ws[i]) THEN Empty ELSE ws[i].value
      BY PlainValueType
    <3>2. ws[i].value \in Bytes
      BY WriteType
    <3>3. QED
      BY <2>2, <3>1, <3>2, BytesTypes
  <2>3. QED
    BY <2>1, <2>2
<1>2. QED
  BY <1>1 DEF TxUpdates, Entry

LEMMA MergeType ==
  ASSUME NEW f, f \in [DOMAIN f -> Entry], DOMAIN f \subseteq AllKeys,
         NEW g, g \in [DOMAIN g -> Entry], DOMAIN g \subseteq AllKeys
  PROVE  /\ Merge(f, g) \in [DOMAIN Merge(f, g) -> Entry]
         /\ DOMAIN Merge(f, g) \subseteq AllKeys
BY DEF Merge

LEMMA ApplyUpdatesType ==
  ASSUME NEW d \in [AllKeys -> Entry],
         NEW u, u \in [DOMAIN u -> Entry], DOMAIN u \subseteq AllKeys
  PROVE  ApplyUpdates(d, u) \in [AllKeys -> Entry]
BY BytesTypes DEF ApplyUpdates

-----------------------------------------------------------------------------
(***************************************************************************)
(* What a VALID answer of validateTypedDeltaTx has checked.                *)
(***************************************************************************)
LEMMA ValidChecks ==
  ASSUME NEW view, NEW ws, NEW on \in BOOLEAN, "VALID" \in validateTypedDeltaTx(view, ws, on)
  PROVE  /\ on = TRUE
         /\ ~malformedTypedWrites(ws)
         /\ \A i \in DOMAIN ws : deltaWriteCode(view, ws[i]) = "VALID"
         /\ \A k \in DeltaKeys(ws) : foldCode(view, ws, k) = "VALID"
         /\ \A i \in DOMAIN ws : plainWriteCode(view, ws[i]) = "VALID"
<1>1. \A c : InOrder(c) = "VALID" => \A i \in DOMAIN c : c[i] = "VALID"
  BY DEF InOrder
<1>2. /\ on = TRUE
      /\ ~malformedTypedWrites(ws)
      /\ InOrder([i \in DOMAIN ws |-> deltaWriteCode(view, ws[i])]) = "VALID"
      /\ \A k \in DeltaKeys(ws) : foldCode(view, ws, k) = "VALID"
      /\ plainTypedWritesValid(view, ws) = "VALID"
  BY DEF validateTypedDeltaTx
<1>3. QED
  BY <1>1, <1>2 DEF plainTypedWritesValid

(***************************************************************************)
(* A transaction that does not touch typed state writes no delta and no    *)
(* key that has a schema record.                                           *)
(***************************************************************************)
LEMMA UntouchedChecks ==
  ASSUME NEW view, NEW ws, txTouchesTypedState(view, ws) = "NO", NEW i \in DOMAIN ws
  PROVE  /\ ~ws[i].isDelta
         /\ ~Found(lookup(view, ws[i].key))
         /\ ~LookupErr(lookup(view, ws[i].key))
BY DEF txTouchesTypedState

\* The transaction passes the typed-delta hooks.
Passes(view, ws, on) ==
  \/ txTouchesTypedState(view, ws) = "NO"
  \/ "VALID" \in validateTypedDeltaTx(view, ws, on)

(***************************************************************************)
(* The new value of a delta key is admitted by the schema in force.        *)
(***************************************************************************)
LEMMA DeltaAdmitted ==
  ASSUME NEW view \in [AllKeys -> Entry], NEW ws \in Seq(Write), NEW on \in BOOLEAN, NEW h,
         "VALID" \in validateTypedDeltaTx(view, ws, on),
         ~ApplyFails(view, ws), NEW k \in DeltaKeys(ws)
  PROVE  LET b == lookup(view, k)
             v == IntOf(TxUpdates(view, ws, h)[k].value)
         IN  ~LookupErr(b) /\ invariant(b.json) # Err /\ Holds(invariant(b.json), v)
<1>1. PICK i \in DOMAIN ws : ws[i].isDelta /\ ws[i].key = k
  BY DEF DeltaKeys
<1>2. ~LookupErr(lookup(view, k))
  BY <1>1, ValidChecks DEF deltaWriteCode
<1>3. foldCode(view, ws, k) = "VALID"
  BY ValidChecks
<1>4. /\ invariant(lookup(view, k).json) # Err
      /\ Holds(invariant(lookup(view, k).json), applyTypedDeltas(view, ws, k))
  BY <1>3 DEF foldCode, applyTypedDeltas
<1>5. applyTypedDeltas(view, ws, k) \in Int64
  BY DeltaApplies
<1>6. TxUpdates(view, ws, h)[k].value = MarshalInt64(applyTypedDeltas(view, ws, k))
  BY WrittenInAllKeys DEF TxUpdates
<1>7. IntOf(MarshalInt64(applyTypedDeltas(view, ws, k))) = applyTypedDeltas(view, ws, k)
  BY <1>5, RoundTrip DEF IntOf, Int64Width
<1>8. QED
  BY <1>2, <1>4, <1>6, <1>7

(***************************************************************************)
(* So is the new value of a key written without a delta.                   *)
(***************************************************************************)
LEMMA PlainAdmitted ==
  ASSUME NEW view \in [AllKeys -> Entry], NEW ws \in Seq(Write), NEW on \in BOOLEAN, NEW h,
         "VALID" \in validateTypedDeltaTx(view, ws, on),
         NEW k \in WrittenKeys(ws), k \notin DeltaKeys(ws)
  PROVE  LET b == lookup(view, k)
             v == IntOf(TxUpdates(view, ws, h)[k].value)
         IN  /\ ~LookupErr(b)
             /\ Found(b) => invariant(b.json) # Err /\ Holds(invariant(b.json), v)
<1>1. PICK i \in DOMAIN ws :
         /\ ws[i].key = k
         /\ plainValue(ws, k) = IF IsKVWriteDelete(ws[i]) THEN Empty ELSE ws[i].value
  BY PlainValueType
<1>2. ~ws[i].isDelta
  BY <1>1 DEF DeltaKeys
<1> DEFINE val == IF ws[i].isDelete THEN 0 ELSE UnmarshalInt64(ws[i].value)
<1>3. plainWriteCode(view, ws[i]) = "VALID"
  BY ValidChecks
<1>4. /\ ~LookupErr(lookup(view, k))
      /\ Found(lookup(view, k)) => /\ invariant(lookup(view, k).json) # Err
                                   /\ val # Err
                                   /\ Holds(invariant(lookup(view, k).json), val)
  BY <1>1, <1>2, <1>3 DEF plainWriteCode
<1>5. TxUpdates(view, ws, h)[k].value = plainValue(ws, k)
  BY DEF TxUpdates
<1>6. val # Err => IntOf(plainValue(ws, k)) = val
  <2>1. ws[i].isDelete \in BOOLEAN
    BY WriteType
  <2>2. CASE ws[i].isDelete
    BY <1>1, <2>2 DEF IsKVWriteDelete, IntOf, Empty
  <2>3. CASE ~ws[i].isDelete
    BY <1>1, <2>3 DEF IsKVWriteDelete, IntOf, Empty, UnmarshalInt64, Int64Width
  <2>4. QED
    BY <2>1, <2>2, <2>3
<1>7. QED
  BY <1>4, <1>5, <1>6

(***************************************************************************)
(* A transaction that passes the hooks and applies moves every key it      *)
(* writes to a value that the schema in force before it admits.            *)
(***************************************************************************)
THEOREM Admitted ==
  ASSUME NEW view \in [AllKeys -> Entry], NEW ws \in Seq(Write), NEW on \in BOOLEAN, NEW h,
         Passes(view, ws, on), ~ApplyFails(view, ws), NEW k \in WrittenKeys(ws)
  PROVE  LET b == lookup(view, k)
             v == IntOf(TxUpdates(view, ws, h)[k].value)
         IN  /\ ~LookupErr(b)
             /\ Found(b) => on /\ invariant(b.json) # Err /\ Holds(invariant(b.json), v)
<1>1. CASE txTouchesTypedState(view, ws) = "NO"
  <2>1. PICK i \in DOMAIN ws : ws[i].key = k
    BY DEF WrittenKeys
  <2>2. QED
    BY <1>1, <2>1, UntouchedChecks
<1>2. CASE "VALID" \in validateTypedDeltaTx(view, ws, on)
  <2>1. on = TRUE
    BY <1>2, ValidChecks
  <2>2. CASE k \in DeltaKeys(ws)
    BY <1>2, <2>1, <2>2, DeltaAdmitted, Zenon
  <2>3. CASE k \notin DeltaKeys(ws)
    BY <1>2, <2>1, <2>3, PlainAdmitted, Zenon
  <2>4. QED
    BY <2>2, <2>3
<1>3. QED
  BY <1>1, <1>2 DEF Passes

-----------------------------------------------------------------------------
(***************************************************************************)
(* How the view moves: a transaction overwrites the keys it writes, and    *)
(* committing the batch only forgets the versions of deleted keys.         *)
(***************************************************************************)
LEMMA ViewMerge ==
  ASSUME NEW u, NEW d, NEW g, DOMAIN g \subseteq AllKeys, NEW k \in AllKeys
  PROVE  View(Merge(u, g), d)[k] = IF k \in DOMAIN g THEN g[k] ELSE View(u, d)[k]
BY DEF View, Merge

LEMMA ViewCommit ==
  ASSUME NEW d \in [AllKeys -> Entry], NEW u, NEW k \in AllKeys
  PROVE  \/ View(<<>>, ApplyUpdates(d, u))[k] = View(u, d)[k]
         \/ /\ View(<<>>, ApplyUpdates(d, u))[k] = NoEntry
            /\ View(u, d)[k].value.len = 0
<1>1. DOMAIN <<>> = {}
  OBVIOUS
<1>2. View(<<>>, ApplyUpdates(d, u))[k] = ApplyUpdates(d, u)[k]
  BY <1>1 DEF View
<1>3. QED
  BY <1>2 DEF View, ApplyUpdates

LEMMA SchemaKeyInAllKeys ==
  \A k \in Keys : k \in AllKeys /\ schemaStorageKey(k) \in AllKeys
BY DEF AllKeys

\* The lookup of k depends only on the entry of its schema record.
LEMMA LookupSame ==
  ASSUME NEW v1, NEW v2, NEW k \in Keys,
         v1[schemaStorageKey(k)] = v2[schemaStorageKey(k)]
  PROVE  lookup(v1, k) = lookup(v2, k)
BY DEF lookup

-----------------------------------------------------------------------------
\* The hooks can decode what the write set touches.
Decodable(view, ws) ==
  \A k \in WrittenKeys(ws) : /\ ~LookupErr(lookup(view, k))
                             /\ Found(lookup(view, k)) => currentInt64(view, k) # Err

\* A loop over the writes ends in one of three codes, and in a fatal one
\* only if some write is fatal.
LEMMA InOrderCodes ==
  ASSUME NEW c
  PROVE  /\ InOrder(c) \in {"VALID", "INVALID", "FATAL"}
         /\ InOrder(c) = "FATAL" => \E i \in DOMAIN c : c[i] = "FATAL"
         /\ InOrder(c) = "VALID" => \A i \in DOMAIN c : c[i] = "VALID"
BY DEF InOrder

(***************************************************************************)
(* On decodable state the hooks give one code, never a fatal one, whatever *)
(* the order in which Go visits the folded keys, and a VALID transaction   *)
(* applies.                                                                *)
(***************************************************************************)
THEOREM OneCodeOfHooks ==
  ASSUME NEW view, NEW ws, NEW on \in BOOLEAN, Decodable(view, ws)
  PROVE  \E code \in {"VALID", "INVALID"} :
            /\ validateTypedDeltaTx(view, ws, on) = {code}
            /\ code = "VALID" => ~ApplyFails(view, ws)
<1> DEFINE dw  == InOrder([i \in DOMAIN ws |-> deltaWriteCode(view, ws[i])])
           bad == {k \in DeltaKeys(ws) : foldCode(view, ws, k) # "VALID"}
           pw  == plainTypedWritesValid(view, ws)
<1>1. validateTypedDeltaTx(view, ws, on) =
        IF malformedTypedWrites(ws) \/ ~on THEN {"INVALID"}
        ELSE IF dw # "VALID" THEN {dw}
        ELSE IF bad # {} THEN {foldCode(view, ws, k) : k \in bad}
        ELSE {pw}
  BY DEF validateTypedDeltaTx
<1>2. \A i \in DOMAIN ws : ~LookupErr(lookup(view, ws[i].key))
  BY DEF Decodable, WrittenKeys
<1>3. dw \in {"VALID", "INVALID"}
  <2>1. \A i \in DOMAIN ws : deltaWriteCode(view, ws[i]) # "FATAL"
    BY <1>2 DEF deltaWriteCode
  <2>2. QED
    BY <2>1, InOrderCodes
<1>4. pw \in {"VALID", "INVALID"}
  <2>1. \A i \in DOMAIN ws : plainWriteCode(view, ws[i]) # "FATAL"
    BY <1>2 DEF plainWriteCode
  <2>2. QED
    BY <2>1, InOrderCodes DEF plainTypedWritesValid
<1>5. ASSUME dw = "VALID", NEW k \in DeltaKeys(ws)
      PROVE  currentInt64(view, k) # Err
  <2>1. PICK i \in DOMAIN ws : ws[i].isDelta /\ ws[i].key = k
    BY DEF DeltaKeys
  <2>2. deltaWriteCode(view, ws[i]) = "VALID"
    BY <1>5, InOrderCodes
  <2>3. Found(lookup(view, k)) /\ k \in WrittenKeys(ws)
    BY <2>1, <2>2 DEF deltaWriteCode, WrittenKeys
  <2>4. QED
    BY <2>3 DEF Decodable
<1>6. dw = "VALID" => \A k \in bad : foldCode(view, ws, k) = "INVALID"
  BY <1>5 DEF foldCode
<1>7. dw = "VALID" /\ bad = {} => ~ApplyFails(view, ws)
  <2> SUFFICES ASSUME dw = "VALID", bad = {}, NEW k \in DeltaKeys(ws)
               PROVE  currentInt64(view, k) # Err /\ applyTypedDeltas(view, ws, k) # Err
    BY DEF ApplyFails
  <2>1. foldCode(view, ws, k) = "VALID"
    OBVIOUS
  <2>2. QED
    BY <2>1, <1>5 DEF foldCode, applyTypedDeltas
<1> HIDE DEF dw, pw, bad
<1>8. CASE malformedTypedWrites(ws) \/ ~on
  BY <1>1, <1>8
<1>9. CASE ~(malformedTypedWrites(ws) \/ ~on) /\ dw # "VALID"
  BY <1>1, <1>3, <1>9
<1>10. CASE ~(malformedTypedWrites(ws) \/ ~on) /\ dw = "VALID" /\ bad # {}
  <2>1. {foldCode(view, ws, k) : k \in bad} = {"INVALID"}
    BY <1>6, <1>10
  <2>2. QED
    BY <1>1, <1>10, <2>1
<1>11. CASE ~(malformedTypedWrites(ws) \/ ~on) /\ dw = "VALID" /\ bad = {}
  BY <1>1, <1>4, <1>7, <1>11
<1>12. QED
  BY <1>8, <1>9, <1>10, <1>11
=============================================================================
