---------------------------- MODULE ValidatorBatch ----------------------------
(***************************************************************************)
(* How Fabric's block validator drives the hooks: the code of one          *)
(* transaction, and the update batch of a block.  This is Fabric's own     *)
(* validateAndPrepareBatch, modelled from how the hooks and their tests    *)
(* use it: the reads are checked first, then typed state, and a VALID      *)
(* transaction joins the batch with version (block, position).             *)
(***************************************************************************)
EXTENDS TypedDeltaHooks

Tx == [id : Nat, reads : SUBSET (AllKeys \X Version), writes : Seq(Write)]

Codes == {"VALID", "INVALID", "MVCC"}

\* A read conflicts if the block already updated the key, or its committed
\* version is not the one read.
mvccConflict(upd, db, reads) ==
    \E r \in reads : r[1] \in DOMAIN upd \/ db[r[1]].ver # r[2]

\* The codes the validator may give to one transaction.
TxCodes(upd, db, tx, on) ==
    LET view    == View(upd, db)
        touches == txTouchesTypedState(view, tx.writes)
    IN  IF mvccConflict(upd, db, tx.reads) THEN {"MVCC"}
        ELSE CASE touches = "FATAL" -> {"FATAL"}
               [] touches = "NO"    -> {"VALID"}
               [] OTHER             -> validateTypedDeltaTx(view, tx.writes, on)

AddTx(upd, db, tx, h) == Merge(upd, TxUpdates(View(upd, db), tx.writes, h))

(***************************************************************************)
(* The batch of block n whose transactions have these flags.  Validation   *)
(* builds it as it gives the flags; recovery, which takes the flags from   *)
(* the block store and checks nothing, builds it again.                    *)
(***************************************************************************)
Batch(db, txs, flags, n) ==
    FoldLeftDomain(LAMBDA upd, i : IF flags[i] = "VALID" THEN AddTx(upd, db, txs[i], <<n, i - 1>>)
                                   ELSE upd,
                   <<>>, flags)

\* The flags validation may give to the transactions of block n.
Flags(db, txs, n, on) ==
    {flags \in [DOMAIN txs -> Codes] :
        \A i \in DOMAIN txs :
            LET upd == Batch(db, txs, SubSeq(flags, 1, i - 1), n)
            IN  /\ flags[i] \in TxCodes(upd, db, txs[i], on)
                /\ flags[i] = "VALID" => ~ApplyFails(View(upd, db), txs[i].writes)}
=============================================================================
