------------------------- MODULE BlockValidatorProofs -------------------------
(***************************************************************************)
(* Proofs about BlockValidator, for every set of keys, every set of        *)
(* transaction templates, every width of int64 and every bound.            *)
(***************************************************************************)
EXTENDS BlockValidator, TypedDeltaHooksProofs

LEMMA InitTypeOK == Init => TypeOK
BY BytesTypes DEF Init, TypeOK

LEMMA HeightType ==
  ASSUME TypeOK, NEW i \in Nat \ {0}
  PROVE  Height(i) \in Version
BY DEF TypeOK, Height, Version

LEMMA NextTypeOK == TypeOK /\ [Next]_vars => TypeOK'
<1> SUFFICES ASSUME TypeOK, [Next]_vars PROVE TypeOK'
  OBVIOUS
<1>1. ASSUME NEW t \in Templates, Endorse(t)
      PROVE  TypeOK'
  <2>1. t \in [reads : SUBSET AllKeys, writes : Seq(Write)]
    BY TemplatesAssumption
  <2>2. \A k \in AllKeys : db[k].ver \in Version
    BY DEF TypeOK, Entry
  <2>3. {<<k, db[k].ver>> : k \in t.reads} \in SUBSET (AllKeys \X Version)
    BY <2>1, <2>2
  <2> DEFINE tx == [id     |-> lastId + 1,
                    reads  |-> {<<k, db[k].ver>> : k \in t.reads},
                    writes |-> t.writes]
  <2>4. tx \in Tx
    BY <2>1, <2>3 DEF Tx, TypeOK
  <2>5. /\ pool' = pool \cup {tx} /\ lastId' = lastId + 1
        /\ UNCHANGED <<enabled, db, height, block, flags, upd, phase>>
    BY <1>1 DEF Endorse
  <2> HIDE DEF tx
  <2>6. pool' \subseteq Tx /\ lastId' \in Nat
    BY <2>4, <2>5 DEF TypeOK
  <2>7. QED
    BY <2>5, <2>6 DEF TypeOK
<1>2. ASSUME NEW n \in 1..MaxBlockLen, NEW bl \in Injection(1..n, pool), Deliver(bl)
      PROVE  TypeOK'
  <2>1. bl \in Seq(Tx)
    <3>1. bl \in [1..n -> Tx]
      BY DEF Injection, TypeOK
    <3>2. n \in Nat
      BY BoundsAssumption
    <3>3. QED
      BY <3>1, <3>2
  <2>2. QED
    BY <1>2, <2>1 DEF TypeOK, Deliver
<1>3. ASSUME NEW code \in Codes, ValidateTx(code)
      PROVE  TypeOK'
  <2> DEFINE i    == Len(flags) + 1
             view == View(upd, db)
             ws   == block[i].writes
  <2>1. /\ i \in Nat \ {0} /\ i \in DOMAIN block
        /\ flags' = Append(flags, code)
        /\ upd' = IF code = "VALID" THEN Merge(upd, TxUpdates(view, ws, Height(i))) ELSE upd
        /\ code = "VALID" => ~ApplyFails(view, ws)
        /\ UNCHANGED <<enabled, db, height, pool, lastId, block, phase>>
    BY <1>3 DEF ValidateTx, TypeOK
  <2>2. ws \in Seq(Write)
    <3>1. block[i] \in Tx
      BY <2>1 DEF TypeOK
    <3>2. QED
      BY <3>1 DEF Tx
  <2>3. view \in [AllKeys -> Entry]
    BY ViewType DEF TypeOK
  <2>4. Height(i) \in Version
    BY <2>1, HeightType
  <2>5. upd' \in [DOMAIN upd' -> Entry] /\ DOMAIN upd' \subseteq AllKeys
    <3> HIDE DEF i, view, ws
    <3>1. CASE code = "VALID"
      <4> DEFINE tu == TxUpdates(view, ws, Height(i))
      <4>1. tu \in [DOMAIN tu -> Entry] /\ DOMAIN tu \subseteq AllKeys
        BY <3>1, <2>1, <2>2, <2>3, <2>4, TxUpdatesType, WrittenInAllKeys
      <4>2. upd \in [DOMAIN upd -> Entry] /\ DOMAIN upd \subseteq AllKeys
        BY DEF TypeOK
      <4> HIDE DEF tu
      <4>3. /\ Merge(upd, tu) \in [DOMAIN Merge(upd, tu) -> Entry]
            /\ DOMAIN Merge(upd, tu) \subseteq AllKeys
        BY <4>1, <4>2, MergeType
      <4>4. upd' = Merge(upd, tu)
        BY <3>1, <2>1 DEF tu
      <4>5. QED
        BY <4>3, <4>4
    <3>2. CASE code # "VALID"
      BY <3>2, <2>1 DEF TypeOK
    <3>3. QED
      BY <3>1, <3>2
  <2>6. flags' \in Seq(Codes)
    BY <2>1 DEF TypeOK
  <2>7. QED
    BY <2>1, <2>5, <2>6 DEF TypeOK
<1>4. CASE FailBlock
  BY <1>4 DEF TypeOK, FailBlock
<1>5. CASE CommitBlock
  <2>1. db' \in [AllKeys -> Entry]
    BY <1>5, ApplyUpdatesType DEF TypeOK, CommitBlock
  <2>2. QED
    BY <1>5, <2>1 DEF TypeOK, CommitBlock
<1>6. CASE UNCHANGED vars
  BY <1>6 DEF TypeOK, vars
<1>7. QED
  BY <1>1, <1>2, <1>3, <1>4, <1>5, <1>6 DEF Next

(***************************************************************************)
(* Type correctness of the block validator.                                *)
(***************************************************************************)
THEOREM TypeCorrect == Spec => []TypeOK
BY InitTypeOK, NextTypeOK, PTL DEF Spec

-----------------------------------------------------------------------------
(***************************************************************************)
(* The ordered-prefix invariant is inductive together with a bound on the  *)
(* versions in view: each was written before the transaction being         *)
(* validated.  Without it a schema record could carry a version that a     *)
(* later write of its key does not exceed.                                 *)
(***************************************************************************)
Now == <<height + 1, Len(flags)>>

OrderedPrefixInv == TypeOK /\ VersionsBounded /\ OrderedPrefix

\* OrderedPrefix for one key of a given view.
PrefixAt(view, k) ==
    /\ Found(lookup(view, k))
    /\ Before(view[schemaStorageKey(k)].ver, view[k].ver)
    => /\ invariant(lookup(view, k).json) # Err
       /\ Holds(invariant(lookup(view, k).json), currentInt64(view, k))

LEMMA OrderedPrefixAt == OrderedPrefix <=> \A k \in Keys : PrefixAt(View(upd, db), k)
BY DEF OrderedPrefix, PrefixAt

\* A code of TxCodes other than MVCC comes from the hooks.
LEMMA ValidPasses ==
  ASSUME NEW u, NEW d, NEW tx, NEW on, "VALID" \in TxCodes(u, d, tx, on)
  PROVE  Passes(View(u, d), tx.writes, on)
BY DEF TxCodes, Passes

LEMMA ValidateTxFacts ==
  ASSUME TypeOK, NEW code \in Codes, ValidateTx(code)
  PROVE  LET i    == Len(flags) + 1
             view == View(upd, db)
             ws   == block[i].writes
             tu   == TxUpdates(view, ws, Height(i))
         IN  /\ Len(flags) \in Nat /\ Len(flags') = Len(flags) + 1
             /\ Height(i) = Now /\ Now \in Version
             /\ ws \in Seq(Write)
             /\ view \in [AllKeys -> Entry]
             /\ code # "VALID" => upd' = upd
             /\ code = "VALID" => /\ upd' = Merge(upd, tu)
                                  /\ ~ApplyFails(view, ws)
                                  /\ Passes(view, ws, enabled)
                                  /\ DOMAIN tu = WrittenKeys(ws)
             /\ UNCHANGED <<enabled, db, height>>
<1> DEFINE i == Len(flags) + 1
           view == View(upd, db)
           ws == block[i].writes
<1>1. Len(flags) \in Nat /\ height \in Nat
  BY DEF TypeOK
<1>2. i \in DOMAIN block /\ block[i] \in Tx /\ ws \in Seq(Write)
  <2>1. i \in DOMAIN block /\ block \in Seq(Tx)
    BY DEF ValidateTx, TypeOK
  <2>2. block[i] \in Tx
    BY <2>1
  <2>3. QED
    BY <2>1, <2>2 DEF Tx
<1>3. view \in [AllKeys -> Entry]
  BY ViewType DEF TypeOK
<1>4. Height(i) = Now /\ Now \in Version
  BY <1>1 DEF Height, Now, Version
<1>5. Len(flags') = Len(flags) + 1
  BY DEF ValidateTx, TypeOK
<1>6. code = "VALID" => Passes(view, ws, enabled)
  BY ValidPasses DEF ValidateTx
<1>7. /\ code # "VALID" => upd' = upd
      /\ code = "VALID" => /\ upd' = Merge(upd, TxUpdates(view, ws, Height(i)))
                           /\ ~ApplyFails(view, ws)
      /\ UNCHANGED <<enabled, db, height>>
  BY DEF ValidateTx
<1>8. DOMAIN TxUpdates(view, ws, Height(i)) = WrittenKeys(ws)
  BY DEF TxUpdates
<1>9. QED
  BY <1>1, <1>2, <1>3, <1>4, <1>5, <1>6, <1>7, <1>8

(***************************************************************************)
(* Giving a transaction its code keeps the invariant.                      *)
(***************************************************************************)
LEMMA ValidateTxKeepsPrefix ==
  ASSUME OrderedPrefixInv, NEW code \in Codes, ValidateTx(code)
  PROVE  VersionsBounded' /\ OrderedPrefix'
<1> DEFINE i     == Len(flags) + 1
           view  == View(upd, db)
           view1 == View(upd', db')
           ws    == block[i].writes
           tu    == TxUpdates(view, ws, Now)
<1>1. TypeOK
  BY DEF OrderedPrefixInv
<1>2. /\ Len(flags) \in Nat /\ Len(flags') = Len(flags) + 1 /\ height \in Nat
      /\ Now \in Version
      /\ ws \in Seq(Write)
      /\ view \in [AllKeys -> Entry]
      /\ code # "VALID" => view1 = view
      /\ code = "VALID" => /\ upd' = Merge(upd, tu)
                           /\ ~ApplyFails(view, ws)
                           /\ Passes(view, ws, enabled)
                           /\ DOMAIN tu = WrittenKeys(ws)
      /\ UNCHANGED <<enabled, db, height>>
  BY <1>1, ValidateTxFacts DEF TypeOK
<1>3. \A k \in AllKeys : view[k].ver \in Version /\ Before(view[k].ver, Now)
  BY <1>2 DEF OrderedPrefixInv, VersionsBounded, Now, Entry
<1>4. \A k \in Keys : PrefixAt(view, k)
  BY OrderedPrefixAt DEF OrderedPrefixInv
<1>5. \A v \in Version : Before(v, Now) \/ v = Now => Before(v, <<height' + 1, Len(flags')>>)
  BY <1>2 DEF Before, Version, Now
<1>6. \A v \in Version : Before(v, Now) => ~Before(Now, v)
  BY <1>2 DEF Before, Version
<1>7. ~Before(Now, Now)
  BY <1>2 DEF Before, Version
<1>8. CASE code # "VALID"
  <2>1. VersionsBounded'
    BY <1>8, <1>2, <1>3, <1>5, SMTT(30) DEF VersionsBounded
  <2>2. OrderedPrefix'
    BY <1>8, <1>2, <1>4, SMTT(30) DEF OrderedPrefix, PrefixAt
  <2>3. QED
    BY <2>1, <2>2
<1>9. CASE code = "VALID"
  <2>1. \A k \in AllKeys : view1[k] = IF k \in WrittenKeys(ws) THEN tu[k] ELSE view[k]
    BY <1>9, <1>2, ViewMerge, WrittenInAllKeys
  <2>2. \A k \in WrittenKeys(ws) : tu[k].ver = Now
    BY DEF TxUpdates
  <2> HIDE DEF view, view1, ws, tu
  <2>3. VersionsBounded'
    <3>1. \A k \in AllKeys : Before(view1[k].ver, <<height' + 1, Len(flags')>>)
      BY <1>2, <1>3, <1>5, <2>1, <2>2
    <3>2. QED
      BY <3>1 DEF VersionsBounded, view1
  <2>4. ASSUME NEW k \in Keys, Found(lookup(view1, k)),
               Before(view1[schemaStorageKey(k)].ver, view1[k].ver)
        PROVE  /\ invariant(lookup(view1, k).json) # Err
               /\ Holds(invariant(lookup(view1, k).json), currentInt64(view1, k))
    <3>1. k \in AllKeys /\ schemaStorageKey(k) \in AllKeys
      BY SchemaKeyInAllKeys
    <3>2. schemaStorageKey(k) \notin WrittenKeys(ws)
      BY <1>3, <1>6, <1>7, <2>1, <2>2, <2>4, <3>1
    <3>3. view1[schemaStorageKey(k)] = view[schemaStorageKey(k)]
      BY <2>1, <3>1, <3>2
    <3>4. lookup(view1, k) = lookup(view, k)
      BY <3>3, LookupSame
    <3>5. CASE k \in WrittenKeys(ws)
      <4>1. view1[k] = tu[k]
        BY <2>1, <3>1, <3>5
      <4>2. currentInt64(view1, k) = IntOf(tu[k].value)
        BY <4>1 DEF currentInt64
      <4>3. enabled \in BOOLEAN
        BY <1>1 DEF TypeOK
      <4>4. Found(lookup(view, k)) => /\ invariant(lookup(view, k).json) # Err
                                      /\ Holds(invariant(lookup(view, k).json), IntOf(tu[k].value))
        BY <1>9, <1>2, <3>5, <4>3, Admitted DEF tu
      <4>5. QED
        BY <2>4, <3>4, <4>2, <4>4
    <3>6. CASE k \notin WrittenKeys(ws)
      <4>1. view1[k] = view[k]
        BY <2>1, <3>1, <3>6
      <4>2. PrefixAt(view, k)
        BY <1>4
      <4>3. QED
        BY <2>4, <3>3, <3>4, <4>1, <4>2 DEF PrefixAt, currentInt64
    <3>7. QED
      BY <3>5, <3>6
  <2>5. OrderedPrefix'
    BY <2>4 DEF OrderedPrefix, view1
  <2>6. QED
    BY <2>3, <2>5
<1>10. QED
  BY <1>8, <1>9

(***************************************************************************)
(* Committing the batch keeps the invariant.                               *)
(***************************************************************************)
LEMMA CommitKeepsPrefix ==
  ASSUME OrderedPrefixInv, CommitBlock
  PROVE  VersionsBounded' /\ OrderedPrefix'
<1> DEFINE view  == View(upd, db)
           view1 == View(upd', db')
<1>1. TypeOK /\ height \in Nat /\ Len(flags) \in Nat
  BY DEF OrderedPrefixInv, TypeOK
<1>2. height' = height + 1 /\ Len(flags') = 0 /\ upd' = <<>> /\ db' = ApplyUpdates(db, upd)
  BY DEF CommitBlock
<1>3. \A k \in AllKeys : view[k].ver \in Version /\ Before(view[k].ver, Now)
  <2>1. view \in [AllKeys -> Entry]
    BY <1>1, ViewType DEF TypeOK
  <2>2. QED
    BY <2>1 DEF OrderedPrefixInv, VersionsBounded, Now, Entry
<1>4. \A k \in AllKeys : view1[k] = view[k] \/ (view1[k] = NoEntry /\ view[k].value.len = 0)
  BY <1>1, <1>2, ViewCommit DEF TypeOK
<1>5. \A k \in Keys : PrefixAt(view, k)
  BY OrderedPrefixAt DEF OrderedPrefixInv
<1>6. /\ NoEntry.ver \in Version /\ NoEntry.value = Empty
      /\ Before(NoEntry.ver, <<height + 2, 0>>)
      /\ \A v \in Version : Before(v, Now) => Before(v, <<height + 2, 0>>)
      /\ \A v \in Version : ~Before(v, NoEntry.ver)
  BY <1>1 DEF NoEntry, NoVersion, Version, Before, Now
<1> HIDE DEF view, view1
<1>7. VersionsBounded'
  <2>1. \A k \in AllKeys : Before(view1[k].ver, <<height + 2, 0>>)
    BY <1>3, <1>4, <1>6
  <2>2. <<height' + 1, Len(flags')>> = <<height + 2, 0>>
    BY <1>1, <1>2
  <2>3. QED
    BY <2>1, <2>2 DEF VersionsBounded, view1
<1>8. ASSUME NEW k \in Keys, Found(lookup(view1, k)),
             Before(view1[schemaStorageKey(k)].ver, view1[k].ver)
      PROVE  /\ invariant(lookup(view1, k).json) # Err
             /\ Holds(invariant(lookup(view1, k).json), currentInt64(view1, k))
  <2>1. k \in AllKeys /\ schemaStorageKey(k) \in AllKeys
    BY SchemaKeyInAllKeys
  <2>2. view1[schemaStorageKey(k)] # NoEntry
    BY <1>6, <1>8 DEF lookup, Found, Empty
  <2>3. view1[schemaStorageKey(k)] = view[schemaStorageKey(k)]
    BY <1>4, <2>1, <2>2
  <2>4. view1[k] = view[k]
    BY <1>3, <1>4, <1>6, <1>8, <2>1, <2>3
  <2>5. lookup(view1, k) = lookup(view, k)
    BY <2>3, LookupSame
  <2>6. QED
    BY <1>5, <1>8, <2>3, <2>4, <2>5 DEF PrefixAt, currentInt64
<1>9. OrderedPrefix'
  BY <1>8 DEF OrderedPrefix, view1
<1>10. QED
  BY <1>7, <1>9

LEMMA OrderedPrefixInductive ==
  /\ Init => OrderedPrefixInv
  /\ OrderedPrefixInv /\ [Next]_vars => OrderedPrefixInv'
<1>1. Init => OrderedPrefixInv
  <2> SUFFICES ASSUME Init PROVE OrderedPrefixInv
    OBVIOUS
  <2>1. \A k \in AllKeys : View(upd, db)[k] = NoEntry
    BY DEF Init, View
  <2>2. VersionsBounded
    <3>1. height + 1 = 1
      BY DEF Init
    <3>2. Before(NoVersion, <<height + 1, Len(flags)>>)
      BY <3>1 DEF Before, NoVersion
    <3>3. NoEntry.ver = NoVersion
      BY DEF NoEntry
    <3>4. QED
      BY <2>1, <3>2, <3>3, Zenon DEF VersionsBounded
  <2>3. OrderedPrefix
    BY <2>1, SchemaKeyInAllKeys DEF OrderedPrefix, lookup, Found, NoEntry, Empty
  <2>4. QED
    BY <2>2, <2>3, InitTypeOK DEF OrderedPrefixInv
<1>2. OrderedPrefixInv /\ [Next]_vars => OrderedPrefixInv'
  <2> SUFFICES ASSUME OrderedPrefixInv, [Next]_vars PROVE OrderedPrefixInv'
    OBVIOUS
  <2>1. TypeOK'
    BY NextTypeOK DEF OrderedPrefixInv
  <2>2. CASE UNCHANGED <<upd, db, height, flags>>
    BY <2>1, <2>2 DEF OrderedPrefixInv, VersionsBounded, OrderedPrefix
  <2>3. ASSUME NEW code \in Codes, ValidateTx(code)
        PROVE  VersionsBounded' /\ OrderedPrefix'
    BY <2>3, ValidateTxKeepsPrefix
  <2>4. CASE CommitBlock
    BY <2>1, <2>4, CommitKeepsPrefix DEF OrderedPrefixInv
  <2>5. ASSUME NEW t \in Templates, Endorse(t)
        PROVE  UNCHANGED <<upd, db, height, flags>>
    BY <2>5 DEF Endorse
  <2>6. ASSUME NEW bl, Deliver(bl)
        PROVE  UNCHANGED <<upd, db, height, flags>>
    BY <2>6 DEF Deliver
  <2>7. CASE FailBlock
    BY <2>7, <2>2 DEF FailBlock
  <2>8. CASE UNCHANGED vars
    BY <2>8, <2>2 DEF vars
  <2>9. QED
    BY <2>1, <2>2, <2>3, <2>4, <2>5, <2>6, <2>7, <2>8 DEF Next, OrderedPrefixInv
<1>3. QED
  BY <1>1, <1>2

(***************************************************************************)
(* The ordered-prefix invariant, for every channel: whatever transactions  *)
(* are endorsed, and however they are cut into blocks, a key written after *)
(* its schema holds a value that the schema admits, at every prefix.       *)
(***************************************************************************)
THEOREM PrefixInvariant == Spec => [](OrderedPrefix /\ VersionsBounded)
<1>1. OrderedPrefixInv => OrderedPrefix /\ VersionsBounded
  BY DEF OrderedPrefixInv
<1>2. QED
  BY <1>1, OrderedPrefixInductive, PTL DEF Spec

-----------------------------------------------------------------------------
(***************************************************************************)
(* On decodable state every transaction of a block gets one code, which is *)
(* not fatal, and a VALID one is materialised.                             *)
(***************************************************************************)
LEMMA OneCodeHolds == TypeOK => OneCode
<1> SUFFICES ASSUME TypeOK, phase = "validating", Len(flags) + 1 \in DOMAIN block,
                    \A k \in WrittenKeys(block[Len(flags) + 1].writes) \cap Keys :
                       ~Undecodable(View(upd, db), k)
             PROVE  \E code \in TxCodes(upd, db, block[Len(flags) + 1], enabled) \ {"FATAL"} :
                       /\ TxCodes(upd, db, block[Len(flags) + 1], enabled) = {code}
                       /\ code = "VALID" => ~ApplyFails(View(upd, db), block[Len(flags) + 1].writes)
  BY DEF OneCode
<1> DEFINE tx   == block[Len(flags) + 1]
           view == View(upd, db)
           ws   == tx.writes
<1>1. Decodable(view, ws)
  <2> SUFFICES ASSUME NEW k \in WrittenKeys(ws)
               PROVE  /\ ~LookupErr(lookup(view, k))
                      /\ Found(lookup(view, k)) => currentInt64(view, k) # Err
    BY DEF Decodable
  <2>1. CASE k \in Keys
    BY <2>1 DEF Undecodable
  <2>2. CASE k \notin Keys
    BY <2>2 DEF lookup, LookupErr, Found, Empty
  <2>3. QED
    BY <2>1, <2>2
<1>2. enabled \in BOOLEAN
  BY DEF TypeOK
<1> HIDE DEF view, ws
<1>3. PICK c \in {"VALID", "INVALID"} : /\ validateTypedDeltaTx(view, ws, enabled) = {c}
                                        /\ c = "VALID" => ~ApplyFails(view, ws)
  BY <1>1, <1>2, OneCodeOfHooks
<1>4. txTouchesTypedState(view, ws) # "FATAL"
  BY <1>1 DEF txTouchesTypedState, Decodable, WrittenKeys
<1>5. txTouchesTypedState(view, ws) = "NO" => ~ApplyFails(view, ws)
  BY UntouchedChecks DEF ApplyFails, DeltaKeys
<1>6. TxCodes(upd, db, tx, enabled) =
        IF mvccConflict(upd, db, tx.reads) THEN {"MVCC"}
        ELSE IF txTouchesTypedState(view, ws) = "NO" THEN {"VALID"}
        ELSE validateTypedDeltaTx(view, ws, enabled)
  BY <1>4 DEF TxCodes, view, ws, txTouchesTypedState
<1> HIDE DEF tx
<1>7. \E code \in TxCodes(upd, db, tx, enabled) \ {"FATAL"} :
         /\ TxCodes(upd, db, tx, enabled) = {code}
         /\ code = "VALID" => ~ApplyFails(view, ws)
  <2>1. CASE mvccConflict(upd, db, tx.reads)
    BY <1>6, <2>1
  <2>2. CASE ~mvccConflict(upd, db, tx.reads) /\ txTouchesTypedState(view, ws) = "NO"
    BY <1>5, <1>6, <2>2
  <2>3. CASE ~mvccConflict(upd, db, tx.reads) /\ txTouchesTypedState(view, ws) # "NO"
    BY <1>3, <1>6, <2>3
  <2>4. QED
    BY <2>1, <2>2, <2>3
<1>8. QED
  BY <1>7 DEF tx, view, ws

(***************************************************************************)
(* Validation is total and deterministic, for every channel: peers that    *)
(* agree on decodable state agree on the code of the next transaction.     *)
(***************************************************************************)
THEOREM Deterministic == Spec => []OneCode
BY TypeCorrect, OneCodeHolds, PTL
=============================================================================
