----------------------------- MODULE MCKVLedger -----------------------------
(* Blocks for model checking KVLedger: one typed key, int64 is -4..3.      *)
EXTENDS KVLedger

CONSTANT a

MCKeys == {a}

D(o, n) == PutDelta(a, [typeId |-> "int", version |-> "v1", op |-> o, arg |-> MarshalInt64(n)])

Seed == Put(schemaStorageKey(a),
            SchemaBytes([typeId |-> "int", version |-> "v1", ops |-> {OpAdd, OpSub},
                         inv |-> "NONNEG", lo |-> 0, hi |-> 0]))

T(reads, ws) == [id |-> 0, reads |-> reads, writes |-> ws]

Txs(txs) == [config |-> "none", txs |-> txs]

MCBlocks ==
    { [config |-> "on", txs |-> <<>>],
      [config |-> "off", txs |-> <<>>],
      Txs(<<T({}, <<Seed>>), T({}, <<D(OpAdd, 2)>>)>>),
      Txs(<<T({}, <<D(OpAdd, 1)>>), T({}, <<D(OpSub, 3)>>)>>),
      Txs(<<T({<<a, <<1, 1>>>>}, <<Del(a)>>), T({}, <<D(OpAdd, 1)>>)>>) }

\* One transaction per block, for the liveness run.
MCShortBlocks ==
    { [config |-> "on", txs |-> <<>>],
      Txs(<<T({}, <<Seed>>)>>),
      Txs(<<T({}, <<D(OpAdd, 2)>>)>>) }
=============================================================================
