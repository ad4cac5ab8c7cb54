------------------------------- MODULE KVLedger -------------------------------
(***************************************************************************)
(* The commit pipeline and recovery of fabric-core/kv_ledger.go, for one   *)
(* peer and one channel.  A block goes, in this order, through validation  *)
(* against the state, the private data store, the block store, the state   *)
(* database and the history database.  The peer may crash between any two  *)
(* of these; when the ledger is opened again it brings the databases up to *)
(* the block store from the flags the blocks were stored with.             *)
(*                                                                         *)
(* While the peer is down an operator may roll the block store back.  The  *)
(* private data store keeps its blocks, and the databases are dropped      *)
(* then, or when the ledger refuses to open.                               *)
(*                                                                         *)
(* The stores themselves are Fabric's; each writes one block atomically.   *)
(* Private data is modelled by the height of its store.  Blocks are        *)
(* numbered from zero.                                                     *)
(***************************************************************************)
EXTENDS ValidatorBatch

CONSTANTS Blocks,        \* what the orderer may put in a block
          MaxBlocks,     \* bound: length of the chain
          MaxCrashes,    \* bound: crashes
          MaxRollbacks   \* bound: rollbacks

\* A configuration block sets the capability and carries no transaction.
Config == {"on", "off"}
Block  == [config : Config \cup {"none"}, txs : Seq(Tx)]

ASSUME LedgerBounds == MaxBlocks \in Nat \ {0} /\ MaxCrashes \in Nat /\ MaxRollbacks \in Nat
ASSUME BlocksAssumption == Blocks \subseteq Block

VARIABLES chain,       \* the channel: the blocks of the orderer
          pvtHt,       \* blocks in the private data store
          height,      \* blocks in the block store
          blkStore,    \* the flags and the commit hash stored with each block
          db, dbHt,    \* the state database and its savepoint
          hist, histHt,\* the history database and its savepoint
          phase,       \* where the ledger is
          enabled,     \* TypedDeltaValidation, read when the ledger is opened
          ahead,       \* isPvtstoreAheadOfBlkstore
          commitHash,  \* l.commitHash
          flags,       \* the flags and the batch of the block in commit
          batch,
          pvtRead,     \* the height of the private data store read by this commit
          first,       \* the database that recovers a block first
          after,       \* history variable: the state after each stored block
          crashes, rollbacks

durable == <<pvtHt, height, blkStore, db, dbHt, hist, histHt, after>>
memory  == <<enabled, ahead, commitHash, flags, batch, pvtRead, first>>
vars    == <<chain, durable, memory, phase, crashes, rollbacks>>

NewDB == [k \in AllKeys |-> NoEntry]

\* The state that block n is validated against, as the commit of the blocks
\* before it computed it.
StateBefore(n) == IF n = 0 THEN NewDB ELSE after[n - 1]

\* Mutant: one block too many is kept.
FirstOfInclusive(f, n) == [i \in 0..n |-> f[i]]

\* f on the first n blocks, and with v for block n.
FirstOf(f, n)   == [i \in 0..(n - 1) |-> f[i]]
Extend(f, n, v) == [i \in 0..n |-> IF i = n THEN v ELSE f[i]]

-----------------------------------------------------------------------------
(***************************************************************************)
(* What is read when the ledger is opened.                                 *)
(***************************************************************************)
\* The capability in the last configuration block among the first n.
CapabilityAt(n) ==
    \E i \in 0..(n - 1) : /\ chain[i].config = "on"
                          /\ \A j \in (i + 1)..(n - 1) : chain[j].config = "none"

\* Mutant: the genesis block is not consulted when the ledger is created.
capabilityFromStore == height > 0 /\ CapabilityAt(height)

typedDeltaCapabilityEnabled ==
    IF height = 0 THEN chain[0].config = "on" ELSE CapabilityAt(height)

NoHash == <<>>

\* Mutant: the hash chain restarts with the process.
commitHashOfNewProcess == NoHash

lastPersistedCommitHash == IF height = 0 THEN NoHash ELSE blkStore[height - 1].hash

isPvtDataStoreAheadOfBlockStore == pvtHt > height

\* Block n has a commit hash from block 1 on.
addBlockCommitHash(n, fs, upd) ==
    IF n = 1 \/ commitHash # NoHash THEN <<fs, upd, commitHash>> ELSE NoHash

\* historyDB.Commit: an index entry for each key a valid transaction wrote.
HistoryOf(n, txs, fs) ==
    UNION {{<<k, n, i>> : k \in WrittenKeys(txs[i].writes)} : i \in {j \in DOMAIN txs : fs[j] = "VALID"}}

-----------------------------------------------------------------------------
Init == /\ chain \in {c \in [0..(MaxBlocks - 1) -> Blocks] : c[0].config \in Config}
        /\ pvtHt = 0 /\ height = 0 /\ blkStore = <<>>
        /\ db = NewDB /\ dbHt = 0
        /\ hist = {} /\ histHt = 0
        /\ phase = "down"
        /\ enabled = FALSE /\ ahead = FALSE /\ commitHash = NoHash
        /\ flags = <<>> /\ batch = <<>> /\ pvtRead = 0 /\ first = "state"
        /\ after = <<>>
        /\ crashes = 0 /\ rollbacks = 0

\* Mutant: a database level with the block store is taken to be ahead.
OpenRefusesLevel ==
    /\ phase = "down"
    /\ phase' = IF height > 0 /\ (dbHt >= height \/ histHt >= height) THEN "refused" ELSE "recovering"
    /\ enabled' = typedDeltaCapabilityEnabled
    /\ commitHash' = lastPersistedCommitHash
    /\ ahead' = isPvtDataStoreAheadOfBlockStore
    /\ first' = IF dbHt > histHt THEN "history" ELSE "state"
    /\ UNCHANGED <<chain, durable, flags, batch, pvtRead, crashes, rollbacks>>

\* newKVLedger up to recoverDBs.
Open ==
    /\ phase = "down"
    /\ phase' = IF height > 0 /\ (dbHt > height \/ histHt > height) THEN "refused" ELSE "recovering"
    /\ enabled' = typedDeltaCapabilityEnabled
    /\ commitHash' = lastPersistedCommitHash
    /\ ahead' = isPvtDataStoreAheadOfBlockStore
    /\ first' = IF dbHt > histHt THEN "history" ELSE "state"
    /\ UNCHANGED <<chain, durable, flags, batch, pvtRead, crashes, rollbacks>>

(***************************************************************************)
(* recommitLostBlocks.  The database that lags is brought level with the   *)
(* other; from there each block goes to it first.                          *)
(***************************************************************************)
\* Mutant: one block is recovered and the savepoint set to the last one.
RecoverStateSkips ==
    /\ phase = "recovering"
    /\ dbHt < height
    /\ dbHt < histHt \/ (dbHt = histHt /\ first = "state")
    /\ db' = ApplyUpdates(db, Batch(db, chain[dbHt].txs, blkStore[dbHt].flags, dbHt))
    /\ dbHt' = height
    /\ UNCHANGED <<chain, pvtHt, height, blkStore, hist, histHt, after, memory, phase, crashes, rollbacks>>

RecoverState ==
    /\ phase = "recovering"
    /\ dbHt < height
    /\ dbHt < histHt \/ (dbHt = histHt /\ first = "state")
    /\ db' = ApplyUpdates(db, Batch(db, chain[dbHt].txs, blkStore[dbHt].flags, dbHt))
    /\ dbHt' = dbHt + 1
    /\ UNCHANGED <<chain, pvtHt, height, blkStore, hist, histHt, after, memory, phase, crashes, rollbacks>>

\* Mutant: one block is indexed and the savepoint set to the last one.
RecoverHistorySkips ==
    /\ phase = "recovering"
    /\ histHt < height
    /\ histHt < dbHt \/ (dbHt = histHt /\ first = "history")
    /\ hist' = hist \cup HistoryOf(histHt, chain[histHt].txs, blkStore[histHt].flags)
    /\ histHt' = height
    /\ UNCHANGED <<chain, pvtHt, height, blkStore, db, dbHt, after, memory, phase, crashes, rollbacks>>

RecoverHistory ==
    /\ phase = "recovering"
    /\ histHt < height
    /\ histHt < dbHt \/ (dbHt = histHt /\ first = "history")
    /\ hist' = hist \cup HistoryOf(histHt, chain[histHt].txs, blkStore[histHt].flags)
    /\ histHt' = histHt + 1
    /\ UNCHANGED <<chain, pvtHt, height, blkStore, db, dbHt, after, memory, phase, crashes, rollbacks>>

Recovered ==
    /\ phase = "recovering"
    /\ dbHt = height /\ histHt = height
    /\ phase' = "ready"
    /\ UNCHANGED <<chain, durable, memory, crashes, rollbacks>>

-----------------------------------------------------------------------------
(***************************************************************************)
(* commit: validation and the commit hash, then the four stores in turn.   *)
(***************************************************************************)
ValidateAndPrepare ==
    /\ phase = "ready"
    /\ height < MaxBlocks
    /\ \E fs \in Flags(db, chain[height].txs, height, enabled) :
          LET upd == Batch(db, chain[height].txs, fs, height)
          IN  /\ flags' = fs
              /\ batch' = upd
              /\ commitHash' = addBlockCommitHash(height, fs, upd)
    /\ phase' = "prepared"
    /\ UNCHANGED <<chain, durable, enabled, ahead, pvtRead, first, crashes, rollbacks>>

CommitPvt ==
    /\ phase = "prepared"
    /\ pvtRead' = pvtHt
    /\ pvtHt' = IF ahead THEN pvtHt ELSE height + 1
    /\ phase' = "pvt"
    /\ UNCHANGED <<chain, height, blkStore, db, dbHt, hist, histHt, after, enabled, ahead, commitHash,
                   flags, batch, first, crashes, rollbacks>>

\* Mutant: the flag is reset one block late.
AddBlockLateReset ==
    /\ phase = "pvt"
    /\ height' = height + 1
    /\ blkStore' = Extend(blkStore, height, [flags |-> flags, hash |-> commitHash])
    /\ after' = Extend(after, height, ApplyUpdates(db, batch))
    /\ ahead' = (ahead /\ pvtRead # height)
    /\ phase' = "stored"
    /\ UNCHANGED <<chain, pvtHt, db, dbHt, hist, histHt, enabled, commitHash, flags, batch,
                   pvtRead, first, crashes, rollbacks>>

AddBlock ==
    /\ phase = "pvt"
    /\ height' = height + 1
    /\ blkStore' = Extend(blkStore, height, [flags |-> flags, hash |-> commitHash])
    /\ after' = Extend(after, height, ApplyUpdates(db, batch))
    /\ ahead' = (ahead /\ pvtRead # height + 1)
    /\ phase' = "stored"
    /\ UNCHANGED <<chain, pvtHt, db, dbHt, hist, histHt, enabled, commitHash, flags, batch,
                   pvtRead, first, crashes, rollbacks>>

CommitState ==
    /\ phase = "stored"
    /\ db' = ApplyUpdates(db, batch)
    /\ dbHt' = height
    /\ phase' = "stated"
    /\ UNCHANGED <<chain, pvtHt, height, blkStore, hist, histHt, after, memory, crashes, rollbacks>>

CommitHistory ==
    /\ phase = "stated"
    /\ hist' = hist \cup HistoryOf(height - 1, chain[height - 1].txs, flags)
    /\ histHt' = height
    /\ phase' = "ready"
    /\ UNCHANGED <<chain, pvtHt, height, blkStore, db, dbHt, after, memory, crashes, rollbacks>>

-----------------------------------------------------------------------------
\* The process dies: its memory is lost.
Crash ==
    /\ phase \notin {"down", "refused"}
    /\ crashes < MaxCrashes
    /\ crashes' = crashes + 1
    /\ phase' = "down"
    /\ enabled' = FALSE /\ ahead' = FALSE /\ commitHash' = NoHash
    /\ flags' = <<>> /\ batch' = <<>> /\ pvtRead' = 0 /\ first' = "state"
    /\ UNCHANGED <<chain, durable, rollbacks>>

\* The databases in ds are dropped, to be rebuilt from the block store.
Drop(ds) ==
    /\ db'     = IF "state" \in ds THEN NewDB ELSE db
    /\ dbHt'   = IF "state" \in ds THEN 0 ELSE dbHt
    /\ hist'   = IF "history" \in ds THEN {} ELSE hist
    /\ histHt' = IF "history" \in ds THEN 0 ELSE histHt

\* The operator rolls the block store back to its first h blocks.
Rollback(h, ds) ==
    /\ phase = "down"
    /\ rollbacks < MaxRollbacks
    /\ rollbacks' = rollbacks + 1
    /\ height' = h
    /\ blkStore' = FirstOf(blkStore, h)
    /\ after' = FirstOf(after, h)
    /\ Drop(ds)
    /\ UNCHANGED <<chain, pvtHt, memory, phase, crashes>>

\* The operator drops the databases that keep the ledger from opening.
DropRefused ==
    /\ phase = "refused"
    /\ Drop({d \in {"state", "history"} : height < IF d = "state" THEN dbHt ELSE histHt})
    /\ phase' = "down"
    /\ UNCHANGED <<chain, pvtHt, height, blkStore, after, memory, crashes, rollbacks>>

Step == \/ Open \/ RecoverState \/ RecoverHistory \/ Recovered
        \/ ValidateAndPrepare \/ CommitPvt \/ AddBlock \/ CommitState \/ CommitHistory
        \/ DropRefused

Next == \/ Step
        \/ Crash
        \/ \E h \in 1..(height - 1), ds \in SUBSET {"state", "history"} : Rollback(h, ds)

Spec     == Init /\ [][Next]_vars
FairSpec == Spec /\ WF_vars(Step)

-----------------------------------------------------------------------------
(***************************************************************************)
(* Types of the variables.                                                 *)
(***************************************************************************)
TypeOK == /\ chain \in [0..(MaxBlocks - 1) -> Blocks]
          /\ pvtHt \in Nat /\ dbHt \in Nat /\ histHt \in Nat /\ pvtRead \in Nat
          /\ height \in 0..MaxBlocks
          /\ DOMAIN blkStore = 0..(height - 1) /\ DOMAIN after = 0..(height - 1)
          /\ DOMAIN db = AllKeys
          /\ enabled \in BOOLEAN /\ ahead \in BOOLEAN
          /\ phase \in {"down", "refused", "recovering", "ready", "prepared", "pvt", "stored", "stated"}
          /\ first \in {"state", "history"}

\* The batch and the history of stored block n, from the flags it is stored
\* with.
BatchOf(n)   == Batch(StateBefore(n), chain[n].txs, blkStore[n].flags, n)
HistoryIn(n) == HistoryOf(n, chain[n].txs, blkStore[n].flags)

(***************************************************************************)
(* Exactly once.  Whatever crashes and rollbacks happened, the state       *)
(* database at its savepoint holds the effect of each block up to there    *)
(* once, in order, with the flags the block is stored with: the batch that *)
(* recovery rebuilds from the flags (recommitLostBlocks) is the one that   *)
(* commit computed, deltas included.                                       *)
(***************************************************************************)
ExactlyOnce ==
    /\ dbHt <= height => db = StateBefore(dbHt)
    /\ \A n \in 0..(height - 1) :
          after[n] = ApplyUpdates(StateBefore(n), BatchOf(n))

(***************************************************************************)
(* The history index holds exactly the writes of the valid transactions up *)
(* to its savepoint.                                                       *)
(***************************************************************************)
HistoryComplete ==
    histHt <= height => hist = UNION {HistoryIn(n) : n \in 0..(histHt - 1)}

(***************************************************************************)
(* A ledger that is ready has both databases at the height of the block    *)
(* store, and knows whether the private data store is ahead: it writes     *)
(* private data exactly when the next block is missing there, so the store *)
(* never skips or repeats a block (commitToPvtAndBlockStore).              *)
(***************************************************************************)
InStep ==
    phase \in {"ready", "prepared"} =>
        /\ dbHt = height /\ histHt = height
        /\ pvtHt >= height
        /\ ahead <=> pvtHt > height

(***************************************************************************)
(* The commit hash of a stored block covers its flags, its batch and the   *)
(* hash stored with the block before it: a hash computed for a block that  *)
(* was never stored is not part of the chain (addBlockCommitHash,          *)
(* lastPersistedCommitHash).                                               *)
(***************************************************************************)
HashChain ==
    \A n \in 0..(height - 1) :
        blkStore[n].hash = IF n = 0 THEN NoHash
                           ELSE <<blkStore[n].flags, BatchOf(n), blkStore[n - 1].hash>>

\* No configuration block before block n changes the capability.
SameCapability(n) == \A m \in 0..(n - 1) : chain[m].config \in {"none", chain[0].config}

(***************************************************************************)
(* As long as no configuration block changes the capability, a block is    *)
(* stored with the flags that the capability of the genesis block gives,   *)
(* whenever the ledger was opened: peers that opened at different heights  *)
(* agree (typedDeltaCapabilityEnabled is read only when opening).          *)
(***************************************************************************)
FlagsFollowCapability ==
    \A n \in 0..(height - 1) :
        SameCapability(n) =>
            blkStore[n].flags \in Flags(StateBefore(n), chain[n].txs, n, chain[0].config = "on")

(***************************************************************************)
(* Once crashes and rollbacks stop, the ledger opens, recovers and commits *)
(* the whole chain: no order of crashes leaves it stuck.                   *)
(***************************************************************************)
CatchesUp == <>[](phase = "ready" /\ height = MaxBlocks)
=============================================================================
