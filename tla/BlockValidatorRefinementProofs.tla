-------------------- MODULE BlockValidatorRefinementProofs --------------------
(***************************************************************************)
(* The block validator implements TypedStore, for every channel.           *)
(***************************************************************************)
EXTENDS BlockValidatorRefinement, BlockValidatorProofs

\* The operators of the instance are those of this module.
LEMMA SameOperators ==
  /\ Store!AllKeys = AllKeys
  /\ Store!Empty = Empty
  /\ \A k : Store!schemaStorageKey(k) = schemaStorageKey(k)
  /\ \A k : Store!shouldSkipTypedDeltaSchemaLookup(k) <=> shouldSkipTypedDeltaSchemaLookup(k)
  /\ \A x : Store!Found(x) <=> Found(x)
  /\ \A x : Store!LookupErr(x) <=> LookupErr(x)
  /\ \A s : Store!invariant(s) = invariant(s)
  /\ \A i, v : Store!Holds(i, v) <=> Holds(i, v)
  /\ \A x : Store!IntOf(x) = IntOf(x)
<1>1. /\ Store!AllKeys = AllKeys
      /\ Store!Empty = Empty
      /\ \A k : Store!schemaStorageKey(k) = schemaStorageKey(k)
      /\ \A k : Store!shouldSkipTypedDeltaSchemaLookup(k) <=> shouldSkipTypedDeltaSchemaLookup(k)
  BY DEF Store!AllKeys, AllKeys, Store!schemaStorageKey, schemaStorageKey, Store!Empty, Empty,
         Store!shouldSkipTypedDeltaSchemaLookup, shouldSkipTypedDeltaSchemaLookup
<1>2. /\ \A x : Store!Found(x) <=> Found(x)
      /\ \A x : Store!LookupErr(x) <=> LookupErr(x)
      /\ \A i, v : Store!Holds(i, v) <=> Holds(i, v)
  BY DEF Store!Found, Found, Store!LookupErr, LookupErr, Store!Holds, Holds
<1>3. \A s : Store!invariant(s) = invariant(s)
  BY DEF Store!invariant, invariant, Store!NonNeg, NonNeg, Store!RangeOf, RangeOf
<1>4. \A x : Store!IntOf(x) = IntOf(x)
  BY DEF Store!IntOf, IntOf, Store!UnmarshalInt64, UnmarshalInt64,
         Store!Int64Width, Int64Width, Store!Modulus, Modulus, Store!MinInt, MinInt
<1>5. QED
  BY <1>1, <1>2, <1>3, <1>4

\* The value of every key in view.
Values == [k \in AllKeys |-> View(upd, db)[k].value]

LEMMA InitRefines == Init => Store!Init
<1> SUFFICES ASSUME Init PROVE Store!Init
  OBVIOUS
<1>1. Values = [k \in AllKeys |-> Empty]
  BY DEF Values, Init, View, NoEntry
<1>2. enabled \in BOOLEAN
  BY DEF Init
<1>3. QED
  BY <1>1, <1>2, SameOperators, SMTT(30) DEF Store!Init, Values

\* Admits of the instance, in terms of this module.
LEMMA AdmitsIs ==
  ASSUME NEW x, NEW v
  PROVE  Store!Admits(x, v) <=> /\ ~LookupErr(x)
                                /\ Found(x) => /\ enabled
                                               /\ invariant(x.json) # Err
                                               /\ Holds(invariant(x.json), IntOf(v))
BY SameOperators DEF Store!Admits

LEMMA SchemaAtIs ==
  ASSUME NEW k \in Keys
  PROVE  Store!SchemaAt(k) = lookup(View(upd, db), k)
<1>1. schemaStorageKey(k) \in AllKeys
  BY SchemaKeyInAllKeys
<1>2. QED
  BY <1>1, SameOperators, SMTT(30) DEF Store!SchemaAt, lookup

(***************************************************************************)
(* Validating a transaction is a step of the store.                        *)
(***************************************************************************)
LEMMA ValidateTxRefines ==
  ASSUME TypeOK, NEW code \in Codes, ValidateTx(code)
  PROVE  \/ Values' = Values /\ enabled' = enabled
         \/ Store!Advance
<1> DEFINE i    == Len(flags) + 1
           view == View(upd, db)
           ws   == block[i].writes
           tu   == TxUpdates(view, ws, Now)
<1>1. /\ ws \in Seq(Write)
      /\ view \in [AllKeys -> Entry]
      /\ code # "VALID" => upd' = upd
      /\ code = "VALID" => /\ upd' = Merge(upd, tu)
                           /\ ~ApplyFails(view, ws)
                           /\ Passes(view, ws, enabled)
                           /\ DOMAIN tu = WrittenKeys(ws)
      /\ enabled' = enabled /\ db' = db
  BY ValidateTxFacts
<1>2. CASE code # "VALID"
  BY <1>1, <1>2 DEF Values
<1>3. CASE code = "VALID"
  <2>1. \A k \in AllKeys : View(upd', db')[k] = IF k \in WrittenKeys(ws) THEN tu[k] ELSE view[k]
    BY <1>1, <1>3, ViewMerge, WrittenInAllKeys
  <2>2. ASSUME NEW k \in Keys, Values'[k] # Values[k]
        PROVE  Store!Admits(Store!SchemaAt(k), Values'[k])
    <3>1. k \in AllKeys
      BY SchemaKeyInAllKeys, SMTT(30)
    <3>2. k \in WrittenKeys(ws) /\ Values'[k] = tu[k].value
      BY <2>1, <2>2, <3>1 DEF Values
    <3>3. enabled \in BOOLEAN
      BY DEF TypeOK
    <3>4. /\ ~LookupErr(lookup(view, k))
          /\ Found(lookup(view, k)) => /\ enabled
                                       /\ invariant(lookup(view, k).json) # Err
                                       /\ Holds(invariant(lookup(view, k).json), IntOf(tu[k].value))
      <4> HIDE DEF view, ws
      <4> QED BY <1>1, <1>3, <3>2, <3>3, Admitted, SMTT(30)
    <3>5. QED
      BY <3>2, <3>4, AdmitsIs, SchemaAtIs
  <2>3. DOMAIN Values' = Store!AllKeys
    BY SameOperators, SMTT(30) DEF Values
  <2>4. QED
    BY <1>1, <2>2, <2>3 DEF Store!Advance, Values
<1>4. QED
  BY <1>2, <1>3

LEMMA CommitRefines ==
  ASSUME TypeOK, CommitBlock
  PROVE  Values' = Values /\ enabled' = enabled
<1>1. upd' = <<>> /\ db' = ApplyUpdates(db, upd) /\ enabled' = enabled
  BY DEF CommitBlock
<1>2. View(upd, db) \in [AllKeys -> Entry]
  BY ViewType, SMTT(30) DEF TypeOK
<1>3. ASSUME NEW k \in AllKeys
      PROVE  View(upd', db')[k].value = View(upd, db)[k].value
  <2>1. View(upd, db)[k].value \in Bytes
    BY <1>2, SMTT(30) DEF Entry
  <2>2. View(upd, db)[k].value.len = 0 => View(upd, db)[k].value = Empty
    BY <2>1, SMTT(30) DEF Bytes
  <2>3. db \in [AllKeys -> Entry]
    BY DEF TypeOK
  <2>4. QED
    BY <1>1, <2>2, <2>3, ViewCommit DEF NoEntry
<1>4. QED
  BY <1>1, <1>3 DEF Values

LEMMA NextRefines == TypeOK /\ [Next]_vars => [Store!Advance]_<<Values, enabled>>
<1> SUFFICES ASSUME TypeOK, [Next]_vars
             PROVE  Store!Advance \/ (Values' = Values /\ enabled' = enabled)
  OBVIOUS
<1>1. CASE UNCHANGED <<upd, db, enabled>>
  BY <1>1, SMTT(30) DEF Values
<1>2. ASSUME NEW code \in Codes, ValidateTx(code)
      PROVE  Store!Advance \/ (Values' = Values /\ enabled' = enabled)
  BY <1>2, ValidateTxRefines, SMTT(30)
<1>3. CASE CommitBlock
  BY <1>3, CommitRefines
<1>4. ASSUME NEW t \in Templates, Endorse(t) PROVE UNCHANGED <<upd, db, enabled>>
  BY <1>4, SMTT(30) DEF Endorse
<1>5. ASSUME NEW bl, Deliver(bl) PROVE UNCHANGED <<upd, db, enabled>>
  BY <1>5, SMTT(30) DEF Deliver
<1>6. CASE FailBlock
  BY <1>1, <1>6, SMTT(30) DEF FailBlock
<1>7. CASE UNCHANGED vars
  BY <1>1, <1>7, SMTT(30) DEF vars
<1>8. QED
  BY <1>1, <1>2, <1>3, <1>4, <1>5, <1>6, <1>7 DEF Next

(***************************************************************************)
(* The block validator implements the typed store: what is visible moves   *)
(* only by transactions, each change is admitted by the schema in force    *)
(* before it, none happens to a typed key while the capability is off, and *)
(* committing a block changes nothing that was visible.                    *)
(***************************************************************************)
THEOREM Refinement == Spec => RefinesTypedStore
<1>1. Init => Store!Init
  BY InitRefines
<1>2. TypeOK /\ [Next]_vars => [Store!Advance]_<<Values, enabled>>
  BY NextRefines
<1>3. QED
  BY <1>1, <1>2, TypeCorrect, PTL DEF Spec, RefinesTypedStore, Store!Spec, Values
=============================================================================
