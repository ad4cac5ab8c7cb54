---------------------------- MODULE MCHistoryQuery ----------------------------
(* Transactions for model checking HistoryQuery: one typed key, int64 is    *)
(* -4..3.                                                                   *)
EXTENDS HistoryQuery

CONSTANT a

MCKeys == {a}

D(o, n) == PutDelta(a, [typeId |-> "int", version |-> "v1", op |-> o, arg |-> MarshalInt64(n)])

Schema1 == SchemaBytes([typeId |-> "int", version |-> "v1", ops |-> {OpAdd, OpSub},
                        inv |-> "RANGE", lo |-> -3, hi |-> 3])

T(ws) == [id |-> 0, reads |-> {}, writes |-> ws]

MCTemplates == { T(<<Put(schemaStorageKey(a), Schema1)>>),
                 T(<<Del(schemaStorageKey(a))>>),
                 T(<<D(OpAdd, 2)>>),
                 T(<<D(OpSub, 3), D(OpAdd, 1)>>),
                 T(<<D(OpAdd, -1)>>),
                 T(<<Put(a, MarshalInt64(-2))>>),
                 T(<<Put(a, NotCanonical)>>),
                 T(<<Put(a, Empty)>>),
                 T(<<Del(a)>>) }

Genesis == [k \in AllKeys |-> NoEntry]

\* A snapshot in which a is typed and holds 1.
Snapshot == [k \in AllKeys |-> [value |-> IF k = a THEN MarshalInt64(1) ELSE Schema1,
                                ver   |-> <<0, 0>>]]

FromGenesis  == {Genesis}
FromSnapshot == {Genesis, Snapshot}
=============================================================================
