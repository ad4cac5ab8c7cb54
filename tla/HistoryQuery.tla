----------------------------- MODULE HistoryQuery -----------------------------
(***************************************************************************)
(* history/query_executer.go: GetHistoryForKey folds the deltas that the   *)
(* blocks record into values, on a ledger that validates and commits       *)
(* blocks.  The history index and the block store hold the transactions of *)
(* committed blocks only; the query sees the VALID ones.                   *)
(***************************************************************************)
EXTENDS ValidatorBatch

CONSTANTS Templates,    \* what transactions write
          Origins,      \* the states a ledger may be created with
          MaxTxs,       \* bound: transactions committed
          MaxBlockLen   \* bound: transactions in a block

VARIABLES db,       \* the committed state
          height,   \* blocks committed
          block,    \* the VALID transactions of the block in commit
          upd,      \* its batch
          ledger    \* the VALID transactions of the committed blocks, in order

vars == <<db, height, block, upd, ledger>>

Init == /\ db \in Origins
        /\ height = 0
        /\ block = <<>> /\ upd = <<>>
        /\ ledger = <<>>

\* A transaction of the block is VALID; `after' is the state it leaves.
Validate(t) ==
    LET view == View(upd, db)
        next == AddTx(upd, db, t, <<height + 1, Len(block)>>)
    IN  /\ Len(ledger) + Len(block) < MaxTxs /\ Len(block) < MaxBlockLen
        /\ "VALID" \in TxCodes(upd, db, t, TRUE)
        /\ ~ApplyFails(view, t.writes)
        /\ upd' = next
        /\ block' = Append(block, [writes |-> t.writes, after |-> View(next, db)])
        /\ UNCHANGED <<db, height, ledger>>

\* Mutant: the batch replaces the state.
CommitBatchOnly == /\ block # <<>>
                   /\ db' = upd
                   /\ ledger' = ledger \o block
                   /\ height' = height + 1
                   /\ block' = <<>> /\ upd' = <<>>

CommitBlock == /\ block # <<>>
               /\ db' = ApplyUpdates(db, upd)
               /\ ledger' = ledger \o block
               /\ height' = height + 1
               /\ block' = <<>> /\ upd' = <<>>

Next == (\E t \in Templates : Validate(t)) \/ CommitBlock

Spec == Init /\ [][Next]_vars

-----------------------------------------------------------------------------
deltaFromDescriptor(d) ==
    LET arg == UnmarshalInt64(d.arg)
    IN  IF arg = Err THEN Err
        ELSE IF arg < 0 \/ d.op \notin {OpAdd, OpSub} THEN Err
        ELSE [op |-> d.op, arg |-> arg]

\* The writes of one transaction to k, in order.
getKeyWritesFromTran(ws, k) == SelectSeq(ws, LAMBDA w : w.key = k)

Mod(value, deleted) == [value |-> value, deleted |-> deleted]

\* Mutant: only the first delta of the transaction is folded.
foldFirstDelta(ws, running) ==
    LET plain == SelectSeq(ws, LAMBDA w : ~w.isDelta)
        next  == Apply(running, <<deltaFromDescriptor(ws[1].delta)>>)
    IN  IF plain # <<>> THEN
            LET v == UnmarshalInt64(plain[1].value)
            IN  IF IsKVWriteDelete(plain[1]) THEN <<Mod(Empty, TRUE), 0>>
                ELSE <<Mod(plain[1].value, FALSE), IF v = Err THEN running ELSE v>>
        ELSE <<Mod(MarshalInt64(next), FALSE), next>>

(***************************************************************************)
(* foldKeyModificationFromTran: the modification a transaction made to a   *)
(* key and the running value after it.  The first plain write decides; if  *)
(* there is none, the deltas are applied to the running value.             *)
(***************************************************************************)
foldKeyModificationFromTran(ws, running) ==
    LET plain  == SelectSeq(ws, LAMBDA w : ~w.isDelta)
        deltas == [i \in DOMAIN ws |-> deltaFromDescriptor(ws[i].delta)]
    IN  IF plain # <<>> THEN
            LET v == UnmarshalInt64(plain[1].value)
            IN  IF IsKVWriteDelete(plain[1]) THEN <<Mod(Empty, TRUE), 0>>
                ELSE <<Mod(plain[1].value, FALSE), IF v = Err THEN running ELSE v>>
        ELSE IF \E i \in DOMAIN deltas : deltas[i] = Err THEN
            <<Mod(ws[1].value, IsKVWriteDelete(ws[1])), running>>
        ELSE LET next == IF Apply(running, deltas) = Err THEN running ELSE Apply(running, deltas)
             IN  <<Mod(MarshalInt64(next), FALSE), next>>

\* The transactions the history index has for k.
Indexed(k) == SelectSeq(ledger, LAMBDA t : k \in WrittenKeys(t.writes))

\* The modifications of k, the newest first.
GetHistoryForKey(k) ==
    LET Visit(acc, t) == LET r == foldKeyModificationFromTran(getKeyWritesFromTran(t.writes, k), acc[2])
                         IN  <<Append(acc[1], r[1]), r[2]>>
    IN  Reverse(FoldLeft(Visit, <<<<>>, 0>>, Indexed(k))[1])

-----------------------------------------------------------------------------
(***************************************************************************)
(* Types of the variables.                                                 *)
(***************************************************************************)
TypeOK == /\ db \in [AllKeys -> Entry]
          /\ height \in Nat
          /\ upd \in [DOMAIN upd -> Entry] /\ DOMAIN upd \subseteq AllKeys
          /\ \A i \in DOMAIN ledger : ledger[i].after \in [AllKeys -> Entry]
          /\ \A i \in DOMAIN block : block[i].after \in [AllKeys -> Entry]

\* What the state held for k after each of the transactions that wrote it.
Materialised(k) ==
    Reverse([i \in DOMAIN Indexed(k) |->
                LET v == Indexed(k)[i].after[k].value IN Mod(v, v = Empty)])

(***************************************************************************)
(* History is what happened: the values GetHistoryForKey folds from the    *)
(* write sets alone are those the validator materialised, whatever mix of  *)
(* deltas, plain writes, deletes and schema changes wrote the key, in one  *)
(* block or in several.                                                    *)
(***************************************************************************)
HistoryIsMaterialised == \A k \in Keys : GetHistoryForKey(k) = Materialised(k)
=============================================================================
