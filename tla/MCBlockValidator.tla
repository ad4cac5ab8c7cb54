--------------------------- MODULE MCBlockValidator ---------------------------
(* Transactions for model checking BlockValidator: int64 is -4..3, the typed *)
(* keys are acct1 and acct2, and conf lies in the empty namespace.           *)
EXTENDS BlockValidatorRefinement

CONSTANTS acct1, acct2, conf

MCKeys       == {acct1, acct2, conf}
MCConfigKeys == {conf}

SchemaV(v, i, l, h) ==
    SchemaBytes([typeId |-> "int", version |-> v, ops |-> {OpAdd, OpSub},
                 inv |-> i, lo |-> l, hi |-> h])

D(k, o, n, v) == PutDelta(k, [typeId |-> "int", version |-> v, op |-> o, arg |-> MarshalInt64(n)])

NonNegV1 == SchemaV("v1", "NONNEG", 0, 0)
Seed(k)  == Put(schemaStorageKey(k), NonNegV1)

T(reads, writes) == [reads |-> reads, writes |-> writes]

MCTemplates ==
    { T({}, <<Seed(acct1), Seed(acct2)>>),
      T({}, <<Put(schemaStorageKey(acct1), SchemaV("v2", "RANGE", 1, 2))>>),
      T({}, <<Put(schemaStorageKey(acct1), SchemaV("v1", "RANGE", 2, 1))>>),
      T({}, <<Put(schemaStorageKey(acct1), NotCanonical)>>),
      T({}, <<Seed(acct1), D(acct1, OpAdd, 1, "v1")>>),
      T({}, <<D(acct1, OpAdd, 2, "v1")>>),
      T({}, <<D(acct1, OpAdd, 1, "v2")>>),
      T({}, <<D(acct1, OpSub, 2, "v1"), D(acct2, OpAdd, 2, "v1")>>),
      T({}, <<D(acct1, OpSub, 3, "v1"), D(acct1, OpAdd, 2, "v1")>>),
      T({}, <<Put(acct1, MarshalInt64(-1)), Put(conf, NotCanonical)>>),
      T({acct1}, <<Put(acct1, MarshalInt64(3))>>),
      T({acct1}, <<Del(acct1)>>),
      T({}, <<Put(acct1, NotCanonical), D(acct2, OpAdd, 3, "v1")>>),
      T({}, <<Put(acct1, MarshalInt64(1)), D(acct1, OpAdd, 1, "v1")>>) }
=============================================================================
