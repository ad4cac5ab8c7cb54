---------------------------- MODULE TypedDeltaHooks ----------------------------
(***************************************************************************)
(* The validation hooks of fabric-core/typeddelta_hooks.go: what the block *)
(* validator asks of one transaction that touches typed state, and what it *)
(* then adds to the block's pending updates.                               *)
(*                                                                         *)
(* db is the committed state, a function from AllKeys to entries; upd is   *)
(* the publicUpdates of the block so far, a function on the keys updated.  *)
(* An entry is a value with the version (block, tx) that wrote it; a key   *)
(* that does not exist has the empty value and NoVersion, and a pending    *)
(* delete is an entry with the empty value.                                *)
(***************************************************************************)
EXTENDS TypedDelta

CONSTANTS Keys,         \* the data keys
          ConfigKeys    \* those in the empty namespace, never looked up

ASSUME KeysAssumption == /\ ConfigKeys \subseteq Keys
                         /\ \A k \in Keys : <<"schema", k>> \notin Keys

schemaStorageKey(k) == <<"schema", k>>

AllKeys == Keys \cup {schemaStorageKey(k) : k \in Keys}

Version   == Nat \X Nat
NoVersion == <<0, 0>>
NoEntry   == [value |-> Empty, ver |-> NoVersion]

\* u was written before v in block order.
Before(u, v) == u[1] < v[1] \/ (u[1] = v[1] /\ u[2] < v[2])

\* publicUpdates.Get, and db.GetState where the block has not written the key.
View(upd, db) == [k \in AllKeys |-> IF k \in DOMAIN upd THEN upd[k] ELSE db[k]]

-----------------------------------------------------------------------------
(***************************************************************************)
(* A stored schema and its JSON.                                           *)
(***************************************************************************)
SchemaBytes(s) == [json |-> s, len |-> 2 * Int64Width, word |-> 0]

invariant(s) ==
    CASE s.inv = "NONNEG" -> NonNeg
      [] s.inv = "RANGE"  -> IF s.lo > s.hi THEN Err ELSE RangeOf(s.lo, s.hi)
      [] OTHER            -> Err

allowsOp(s, op) == op \in s.ops

shouldSkipTypedDeltaSchemaLookup(k) == k \in ConfigKeys

(***************************************************************************)
(* stateSchemaLookup: the bytes it decodes.  It reports no schema if they  *)
(* are empty, an error if they are not JSON.  No schema governs the keys   *)
(* that hold schemas.                                                      *)
(***************************************************************************)
lookup(view, k) ==
    IF k \notin Keys \/ shouldSkipTypedDeltaSchemaLookup(k) THEN Empty
    ELSE view[schemaStorageKey(k)].value

LookupErr(b) == b.len # 0 /\ b.json = Err
Found(b)     == b.len # 0 /\ b.json # Err

\* The number a stored value stands for; a key that does not exist is zero.
IntOf(b) == IF b.len = 0 THEN 0 ELSE UnmarshalInt64(b)

currentInt64(view, k) == IntOf(view[k].value)

-----------------------------------------------------------------------------
(***************************************************************************)
(* Read/write sets.  A write carries a delta descriptor, a value or a      *)
(* delete; `isDelta' is Delta != nil.                                      *)
(***************************************************************************)
NoDelta == [typeId |-> "", version |-> "", op |-> OpUnspecified, arg |-> Empty]

Put(k, v)      == [value |-> v,     key |-> k, isDelta |-> FALSE, delta |-> NoDelta, isDelete |-> FALSE]
Del(k)         == [value |-> Empty, key |-> k, isDelta |-> FALSE, delta |-> NoDelta, isDelete |-> TRUE]
PutDelta(k, d) == [value |-> Empty, key |-> k, isDelta |-> TRUE,  delta |-> d,       isDelete |-> FALSE]

toDelta(d) ==
    IF d.op \notin {OpAdd, OpSub} \/ UnmarshalInt64(d.arg) = Err THEN Err
    ELSE [op |-> d.op, arg |-> UnmarshalInt64(d.arg)]

IsKVWriteDelete(w) == w.isDelete \/ w.value.len = 0

WrittenKeys(ws) == {ws[i].key : i \in DOMAIN ws}
DeltaKeys(ws)   == {ws[i].key : i \in {j \in DOMAIN ws : ws[j].isDelta}}
PlainKeys(ws)   == {ws[i].key : i \in {j \in DOMAIN ws : ~ws[j].isDelta}}

\* foldPublicDeltas: the deltas of key k in the order of the write set.
foldPublicDeltas(ws, k) ==
    LET OfKey(w) == w.isDelta /\ w.key = k
        mine     == SelectSeq(ws, OfKey)
    IN  [i \in DOMAIN mine |-> toDelta(mine[i].delta)]

malformedTypedWrites(ws) ==
    \/ \E i \in DOMAIN ws : ws[i].isDelta /\ (ws[i].value.len # 0 \/ ws[i].isDelete)
    \/ DeltaKeys(ws) \cap PlainKeys(ws) # {}

-----------------------------------------------------------------------------
(***************************************************************************)
(* The checks on one write, and on one key, give a code: "VALID" to go on, *)
(* "INVALID" to reject the transaction, "FATAL" to fail the block.  A loop *)
(* over the writes returns the code of the first write that is not VALID;  *)
(* a loop over a Go map returns that of any one, for its order is random.  *)
(***************************************************************************)
InOrder(codes) ==
    IF \A i \in DOMAIN codes : codes[i] = "VALID" THEN "VALID"
    ELSE IF \E i \in DOMAIN codes : /\ codes[i] = "FATAL"
                                    /\ \A j \in DOMAIN codes : j < i => codes[j] = "VALID"
    THEN "FATAL" ELSE "INVALID"

\* The first loop of validateTypedDeltaTx: schema, type, version, operation.
deltaWriteCode(view, w) ==
    LET b == lookup(view, w.key)
    IN  IF ~w.isDelta THEN "VALID"
        ELSE IF LookupErr(b) THEN "FATAL"
        ELSE IF /\ Found(b)
                /\ w.delta.typeId = b.json.typeId
                /\ w.delta.version = b.json.version
                /\ toDelta(w.delta) # Err
                /\ allowsOp(b.json, toDelta(w.delta).op)
        THEN "VALID" ELSE "INVALID"

\* Mutant: an overflow is reported as an error of the block.
foldCodeFatal(view, ws, k) ==
    LET cur  == currentInt64(view, k)
        next == IF cur = Err THEN Err ELSE Apply(cur, foldPublicDeltas(ws, k))
        inv  == invariant(lookup(view, k).json)
    IN  IF next = Err THEN "FATAL"
        ELSE IF inv # Err /\ Holds(inv, next) THEN "VALID"
        ELSE "INVALID"

\* The second loop: the folded deltas of one key against its invariant.
foldCode(view, ws, k) ==
    LET cur  == currentInt64(view, k)
        next == Apply(cur, foldPublicDeltas(ws, k))
        inv  == invariant(lookup(view, k).json)
    IN  IF cur = Err THEN "FATAL"
        ELSE IF next # Err /\ inv # Err /\ Holds(inv, next) THEN "VALID"
        ELSE "INVALID"

\* Mutant: a delete is not checked against the invariant.
plainWriteCodeNoDelete(view, w) ==
    LET b   == lookup(view, w.key)
        inv == invariant(b.json)
        val == UnmarshalInt64(w.value)
    IN  IF w.isDelta \/ w.isDelete THEN "VALID"
        ELSE IF LookupErr(b) THEN "FATAL"
        ELSE IF ~Found(b) THEN "VALID"
        ELSE IF inv # Err /\ val # Err /\ Holds(inv, val) THEN "VALID"
        ELSE "INVALID"

plainWriteCode(view, w) ==
    LET b   == lookup(view, w.key)
        inv == invariant(b.json)
        val == IF w.isDelete THEN 0 ELSE UnmarshalInt64(w.value)
    IN  IF w.isDelta THEN "VALID"
        ELSE IF LookupErr(b) THEN "FATAL"
        ELSE IF ~Found(b) THEN "VALID"
        ELSE IF inv # Err /\ val # Err /\ Holds(inv, val) THEN "VALID"
        ELSE "INVALID"

plainTypedWritesValid(view, ws) == InOrder([i \in DOMAIN ws |-> plainWriteCode(view, ws[i])])

(***************************************************************************)
(* txTouchesTypedState looks no further than the first write that is a     *)
(* delta or has a schema; a lookup error before it is fatal.               *)
(***************************************************************************)
txTouchesTypedState(view, ws) ==
    LET Touches(i) == ws[i].isDelta \/ Found(lookup(view, ws[i].key))
        Fails(i)   == ~ws[i].isDelta /\ LookupErr(lookup(view, ws[i].key))
    IN  IF \E i \in DOMAIN ws : Fails(i) /\ \A j \in DOMAIN ws : j < i => ~Touches(j)
        THEN "FATAL"
        ELSE IF \E i \in DOMAIN ws : Touches(i) THEN "YES" ELSE "NO"

\* Mutant: the capability is not consulted.
validateAlways(view, ws, enabled) ==
    LET writes == InOrder([i \in DOMAIN ws |-> deltaWriteCode(view, ws[i])])
        bad    == {k \in DeltaKeys(ws) : foldCode(view, ws, k) # "VALID"}
    IN  IF malformedTypedWrites(ws) THEN {"INVALID"}
        ELSE IF writes # "VALID" THEN {writes}
        ELSE IF bad # {} THEN {foldCode(view, ws, k) : k \in bad}
        ELSE {plainTypedWritesValid(view, ws)}

\* The set of codes validateTypedDeltaTx may return.
validateTypedDeltaTx(view, ws, enabled) ==
    LET writes == InOrder([i \in DOMAIN ws |-> deltaWriteCode(view, ws[i])])
        bad    == {k \in DeltaKeys(ws) : foldCode(view, ws, k) # "VALID"}
    IN  IF malformedTypedWrites(ws) \/ ~enabled THEN {"INVALID"}
        ELSE IF writes # "VALID" THEN {writes}
        ELSE IF bad # {} THEN {foldCode(view, ws, k) : k \in bad}
        ELSE {plainTypedWritesValid(view, ws)}

-----------------------------------------------------------------------------
(***************************************************************************)
(* What a VALID transaction adds to the pending updates: the last plain    *)
(* write of a key, and the int64 applyTypedDeltas materialises.  Err if a  *)
(* delta does not apply.                                                   *)
(***************************************************************************)
plainValue(ws, k) ==
    LET w == ws[CHOOSE i \in DOMAIN ws : /\ ws[i].key = k
                                         /\ \A j \in DOMAIN ws : ws[j].key = k => j <= i]
    IN  IF IsKVWriteDelete(w) THEN Empty ELSE w.value

applyTypedDeltas(view, ws, k) == Apply(currentInt64(view, k), foldPublicDeltas(ws, k))

\* currentInt64 and Apply report an error before anything is upserted.
ApplyFails(view, ws) ==
    \E k \in DeltaKeys(ws) : currentInt64(view, k) = Err \/ applyTypedDeltas(view, ws, k) = Err

TxUpdates(view, ws, h) ==
    [k \in WrittenKeys(ws) |->
        [value |-> IF k \in DeltaKeys(ws) THEN MarshalInt64(applyTypedDeltas(view, ws, k))
                   ELSE plainValue(ws, k),
         ver   |-> h]]

\* f with the entries of g added or replaced.
Merge(f, g) == [k \in DOMAIN f \cup DOMAIN g |-> IF k \in DOMAIN g THEN g[k] ELSE f[k]]

(***************************************************************************)
(* ApplyUpdates of the state database: a delete removes the key.           *)
(***************************************************************************)
ApplyUpdates(db, upd) ==
    [k \in DOMAIN db |-> IF k \notin DOMAIN upd THEN db[k]
                         ELSE IF upd[k].value.len = 0 THEN NoEntry
                         ELSE upd[k]]

-----------------------------------------------------------------------------
(***************************************************************************)
(* Types.                                                                  *)
(***************************************************************************)
Schema == [typeId : STRING, version : STRING, ops : SUBSET Op, inv : STRING,
           lo : Int64, hi : Int64]
Bytes  == {Empty} \cup [len : Nat \ {0}, word : 0..(Modulus - 1), json : Schema \cup {Err}]
Entry  == [value : Bytes, ver : Version]
Desc   == [typeId : STRING, version : STRING, op : STRING, arg : Bytes]
Write  == [value : Bytes, key : AllKeys, isDelta : BOOLEAN, delta : Desc, isDelete : BOOLEAN]

ASSUME SchemaAssumption == Err \notin Schema
=============================================================================
