------------------------------ MODULE TypedStore ------------------------------
(***************************************************************************)
(* What typed-delta validation promises, without blocks, versions, batches *)
(* or deltas: a store of byte strings that moves from one transaction      *)
(* prefix to the next, and in which a key that has a schema only ever      *)
(* changes to a value that the schema admits, and not at all while the     *)
(* channel capability is off.                                              *)
(***************************************************************************)
EXTENDS TypedDeltaHooks

VARIABLES store,     \* the value of every key at the current prefix
          enabled    \* the typed-delta capability

\* The schema record that governs k at this prefix, Empty if there is none.
SchemaAt(k) ==
    IF shouldSkipTypedDeltaSchemaLookup(k) THEN Empty ELSE store[schemaStorageKey(k)]

Admits(b, v) == /\ ~LookupErr(b)
                /\ Found(b) => /\ enabled
                               /\ invariant(b.json) # Err
                               /\ Holds(invariant(b.json), IntOf(v))

Init == /\ store = [k \in AllKeys |-> Empty]
        /\ enabled \in BOOLEAN

\* One transaction prefix to the next: every change is admitted by the
\* schema in force before it.
Advance == /\ \A k \in Keys : store'[k] # store[k] => Admits(SchemaAt(k), store'[k])
           /\ DOMAIN store' = AllKeys
           /\ UNCHANGED enabled

Spec == Init /\ [][Advance]_<<store, enabled>>
=============================================================================
