---------------------------- MODULE BlockValidator ----------------------------
(***************************************************************************)
(* One peer's block validation: transactions are endorsed against the      *)
(* committed state, ordered into blocks, validated one by one against the  *)
(* pending updates of the block (MVCC reads first, then the typed-delta    *)
(* hooks), and the batch is committed.                                     *)
(*                                                                         *)
(* Endorsement, ordering, the MVCC check and the batch are Fabric's own    *)
(* code, modelled from how the hooks and their tests drive them.           *)
(***************************************************************************)
EXTENDS ValidatorBatch

CONSTANTS Templates,    \* what transactions read and write
          MaxTxs,       \* bound: transactions endorsed
          MaxPool,      \* bound: transactions endorsed and not yet ordered
          MaxBlockLen   \* bound: transactions in a block

ASSUME BoundsAssumption    == MaxTxs \in Nat /\ MaxPool \in Nat /\ MaxBlockLen \in Nat
ASSUME TemplatesAssumption == Templates \subseteq [reads : SUBSET AllKeys, writes : Seq(Write)]

VARIABLES enabled,   \* v.typedDeltaEnabled, fixed when the ledger is opened
          db,        \* the committed state
          height,    \* blocks committed
          pool,      \* transactions endorsed, waiting to be ordered
          lastId,    \* transactions endorsed so far
          block,     \* the transactions of the block being validated
          flags,     \* the validation codes given so far
          upd,       \* publicUpdates of the block
          phase      \* "idle", "validating", or "failed" after a fatal error

vars == <<enabled, db, height, pool, lastId, block, flags, upd, phase>>

-----------------------------------------------------------------------------
Init == /\ enabled \in BOOLEAN
        /\ db = [k \in AllKeys |-> NoEntry]
        /\ height = 0
        /\ pool = {}
        /\ lastId = 0
        /\ block = <<>>
        /\ flags = <<>>
        /\ upd = <<>>
        /\ phase = "idle"

\* A client has a transaction simulated on the committed state.
Endorse(t) ==
    /\ phase # "failed"
    /\ lastId < MaxTxs
    /\ pool' = pool \cup {[id     |-> lastId + 1,
                           reads  |-> {<<k, db[k].ver>> : k \in t.reads},
                           writes |-> t.writes]}
    /\ lastId' = lastId + 1
    /\ UNCHANGED <<enabled, db, height, block, flags, upd, phase>>

\* The orderer cuts a block from what was submitted, in any order.
Deliver(b) ==
    /\ phase = "idle"
    /\ block' = b
    /\ pool' = pool \ {b[i] : i \in DOMAIN b}
    /\ phase' = "validating"
    /\ UNCHANGED <<enabled, db, height, lastId, flags, upd>>

\* Mutant: the version has no transaction number.
HeightOfBlock(i) == <<height + 1>>

\* Mutant: transactions counted from one.
HeightFromOne(i) == <<height + 1, i>>

Height(i) == <<height + 1, i - 1>>

\* One transaction of the block gets its code; a VALID one joins the batch.
ValidateTx(code) ==
    LET i    == Len(flags) + 1
        view == View(upd, db)
    IN  /\ phase = "validating"
        /\ i \in DOMAIN block
        /\ code \in TxCodes(upd, db, block[i], enabled)
        /\ code # "FATAL"
        /\ code = "VALID" => ~ApplyFails(view, block[i].writes)
        /\ flags' = Append(flags, code)
        /\ upd' = IF code = "VALID"
                  THEN Merge(upd, TxUpdates(view, block[i].writes, Height(i)))
                  ELSE upd
        /\ UNCHANGED <<enabled, db, height, pool, lastId, block, phase>>

\* validateAndPrepareBatch returns an error: the block cannot be committed.
FailBlock ==
    LET i == Len(flags) + 1
    IN  /\ phase = "validating"
        /\ i \in DOMAIN block
        /\ \E code \in TxCodes(upd, db, block[i], enabled) :
             \/ code = "FATAL"
             \/ code = "VALID" /\ ApplyFails(View(upd, db), block[i].writes)
        /\ phase' = "failed"
        /\ UNCHANGED <<enabled, db, height, pool, lastId, block, flags, upd>>

CommitBlock ==
    /\ phase = "validating"
    /\ Len(flags) = Len(block)
    /\ db' = ApplyUpdates(db, upd)
    /\ height' = height + 1
    /\ block' = <<>>
    /\ flags' = <<>>
    /\ upd' = <<>>
    /\ phase' = "idle"
    /\ UNCHANGED <<enabled, pool, lastId>>

Next == \/ \E t \in Templates : Cardinality(pool) < MaxPool /\ Endorse(t)
        \/ \E n \in 1..MaxBlockLen : \E b \in Injection(1..n, pool) : Deliver(b)
        \/ \E code \in Codes : ValidateTx(code)
        \/ FailBlock
        \/ CommitBlock

Spec == Init /\ [][Next]_vars

-----------------------------------------------------------------------------
(***************************************************************************)
(* Types of the variables.                                                 *)
(***************************************************************************)
TypeOK == /\ enabled \in BOOLEAN
          /\ db \in [AllKeys -> Entry]
          /\ height \in Nat
          /\ pool \subseteq Tx
          /\ lastId \in Nat
          /\ block \in Seq(Tx)
          /\ flags \in Seq(Codes)
          /\ upd \in [DOMAIN upd -> Entry] /\ DOMAIN upd \subseteq AllKeys
          /\ phase \in {"idle", "validating", "failed"}

(***************************************************************************)
(* The ordered-prefix invariant.  At every prefix of every block, a key    *)
(* written after its schema holds a canonical int64 that the schema        *)
(* admits: no interleaving of deltas, plain writes, deletes and schema     *)
(* changes, in one block or across blocks, commits a violating value       *)
(* (validateTypedDeltaTx and applyTypedDeltas).  Only a value older than   *)
(* the schema record may violate it.                                       *)
(***************************************************************************)
OrderedPrefix ==
    LET view == View(upd, db)
    IN  \A k \in Keys : LET b == lookup(view, k)
                        IN  /\ Found(b)
                            /\ Before(view[schemaStorageKey(k)].ver, view[k].ver)
                            => /\ invariant(b.json) # Err
                               /\ Holds(invariant(b.json), currentInt64(view, k))

(***************************************************************************)
(* Every version in view was written before the transaction now being      *)
(* validated: versions grow in block order.                                *)
(***************************************************************************)
VersionsBounded ==
    \A k \in AllKeys : Before(View(upd, db)[k].ver, <<height + 1, Len(flags)>>)

\* A typed key, or its schema record, holds what the hooks cannot decode.
Undecodable(view, k) ==
    \/ LookupErr(lookup(view, k))
    \/ Found(lookup(view, k)) /\ currentInt64(view, k) = Err

(***************************************************************************)
(* Validation is total and deterministic on decodable state: whatever the  *)
(* order in which Go visits the map of folded keys, the transaction gets   *)
(* one code, that code is not fatal, and a VALID one always materialises   *)
(* (applyTypedDeltas repeats the fold of validateTypedDeltaTx without its  *)
(* checks).  So peers that agree on the state agree on the flags.          *)
(***************************************************************************)
OneCode ==
    LET i     == Len(flags) + 1
        view  == View(upd, db)
        codes == TxCodes(upd, db, block[i], enabled)
    IN  phase = "validating" /\ i \in DOMAIN block =>
            \/ \E k \in WrittenKeys(block[i].writes) \cap Keys : Undecodable(view, k)
            \/ \E code \in codes \ {"FATAL"} :
                  /\ codes = {code}
                  /\ code = "VALID" => ~ApplyFails(view, block[i].writes)
=============================================================================
