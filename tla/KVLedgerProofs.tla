---------------------------- MODULE KVLedgerProofs ----------------------------
(***************************************************************************)
(* The commit pipeline and recovery, for every chain, every number of      *)
(* crashes and rollbacks.  Batch and Flags stay opaque: the argument is    *)
(* about which block is applied to which state, not about what is in it.   *)
(***************************************************************************)
EXTENDS KVLedger, TypedDeltaHooksProofs

\* Where the savepoints are in each phase.
Heights ==
    /\ height = 0 => dbHt = 0 /\ histHt = 0
    /\ phase = "refused" => height > 0
    /\ phase = "recovering" => dbHt <= height /\ histHt <= height
    /\ phase \in {"ready", "prepared", "pvt"} => dbHt = height /\ histHt = height
    /\ phase = "stored" => height > 0 /\ dbHt = height - 1 /\ histHt = height - 1
    /\ phase = "stated" => height > 0 /\ dbHt = height /\ histHt = height - 1

\* What the ledger knows of the private data store.
PvtKnown ==
    /\ pvtHt >= height
    /\ phase \in {"recovering", "ready", "prepared", "stored", "stated"} => (ahead <=> pvtHt > height)
    /\ phase = "pvt" => /\ ahead <=> pvtRead > height
                        /\ pvtHt = IF ahead THEN pvtRead ELSE height + 1

\* The block in commit.
InCommit ==
    /\ phase \in {"prepared", "pvt"} =>
          /\ height < MaxBlocks
          /\ batch = Batch(StateBefore(height), chain[height].txs, flags, height)
          /\ flags \in Flags(StateBefore(height), chain[height].txs, height, enabled)
          /\ commitHash = IF height = 0 THEN NoHash ELSE <<flags, batch, lastPersistedCommitHash>>
    /\ phase \in {"stored", "stated"} => flags = blkStore[height - 1].flags
    /\ phase = "stored" => batch = BatchOf(height - 1)
    /\ phase \in {"recovering", "ready", "stored", "stated"} => commitHash = lastPersistedCommitHash

\* What the ledger read of the capability when it was opened.
CapabilityRead ==
    /\ chain[0].config \in Config
    /\ phase \notin {"down", "refused"} /\ SameCapability(height) =>
          enabled = (chain[0].config = "on")

(***************************************************************************)
(* The inductive invariant.  ExactlyOnce needs Heights and InCommit (which *)
(* batch the commit in progress applies to which state), InStep needs      *)
(* PvtKnown, HashChain and FlagsFollowCapability need InCommit and         *)
(* CapabilityRead.                                                         *)
(***************************************************************************)
LedgerInv == /\ TypeOK /\ Heights /\ PvtKnown /\ InCommit /\ CapabilityRead
             /\ ExactlyOnce /\ HistoryComplete /\ HashChain /\ FlagsFollowCapability

-----------------------------------------------------------------------------
\* Storing a block leaves the blocks before it alone (AddBlock).
LEMMA ExtendFacts ==
    ASSUME NEW f, NEW n \in Nat, NEW v
    PROVE  /\ DOMAIN Extend(f, n, v) = 0..n
           /\ Extend(f, n, v)[n] = v
           /\ \A i \in 0..(n - 1) : Extend(f, n, v)[i] = f[i]
BY DEF Extend

\* A rollback leaves the blocks that stay alone.
LEMMA FirstOfFacts ==
    ASSUME NEW f, NEW n \in Nat
    PROVE  /\ DOMAIN FirstOf(f, n) = 0..(n - 1)
           /\ \A i \in 0..(n - 1) : FirstOf(f, n)[i] = f[i]
BY DEF FirstOf

\* The ledger starts on empty stores.
LEMMA InitInv == Init => LedgerInv
<1> SUFFICES ASSUME Init PROVE LedgerInv
    OBVIOUS
<1> USE LedgerBounds
<1>1. TypeOK
  <2>1. DOMAIN blkStore = 0..(height - 1) /\ DOMAIN after = 0..(height - 1)
    <3>1. blkStore = <<>> /\ after = <<>> /\ height = 0
        BY DEF Init
    <3>2. DOMAIN <<>> = {} /\ 0..(0 - 1) = {}
        OBVIOUS
    <3>3. QED
        BY <3>1, <3>2
  <2>2. chain \in [0..(MaxBlocks - 1) -> Blocks] /\ DOMAIN db = AllKeys
    BY DEF Init, NewDB
  <2>3. /\ pvtHt = 0 /\ dbHt = 0 /\ histHt = 0 /\ pvtRead = 0 /\ height = 0
        /\ enabled = FALSE /\ ahead = FALSE /\ phase = "down" /\ first = "state"
    BY DEF Init
  <2>4. height \in 0..MaxBlocks
    BY <2>3
  <2>5. enabled \in BOOLEAN /\ ahead \in BOOLEAN
    BY <2>3, ZenonT(30)
  <2>6. QED
    BY <2>1, <2>2, <2>3, <2>4, <2>5 DEF TypeOK
<1>2. Heights /\ PvtKnown /\ InCommit /\ CapabilityRead
    BY DEF Init, Heights, PvtKnown, InCommit, CapabilityRead
<1>3. ExactlyOnce /\ HashChain /\ FlagsFollowCapability
    BY DEF Init, ExactlyOnce, HashChain, FlagsFollowCapability, StateBefore
<1>4. HistoryComplete
    BY DEF Init, HistoryComplete
<1>5. QED
    BY <1>1, <1>2, <1>3, <1>4 DEF LedgerInv

\* Every step keeps the types (all actions).
LEMMA NextTypes == TypeOK /\ Heights /\ InCommit /\ [Next]_vars => TypeOK'
<1> SUFFICES ASSUME TypeOK, Heights, InCommit, [Next]_vars PROVE TypeOK'
    OBVIOUS
<1> USE LedgerBounds
<1>1. CASE Open
  <2>1. (chain[0].config = "on") \in BOOLEAN /\ CapabilityAt(height) \in BOOLEAN
    BY Zenon DEF CapabilityAt
  <2>2. typedDeltaCapabilityEnabled \in BOOLEAN
    BY <2>1, Zenon DEF typedDeltaCapabilityEnabled
  <2>3. isPvtDataStoreAheadOfBlockStore \in BOOLEAN
    BY DEF isPvtDataStoreAheadOfBlockStore, TypeOK
  <2>4. QED
    BY <1>1, <2>2, <2>3 DEF Open, TypeOK, durable
<1>2. CASE RecoverState
    BY <1>2 DEF RecoverState, TypeOK, memory, ApplyUpdates
<1>3. CASE RecoverHistory
    BY <1>3 DEF RecoverHistory, TypeOK, memory
<1>4. CASE Recovered
    BY <1>4 DEF Recovered, TypeOK, durable, memory
<1>5. CASE ValidateAndPrepare
    BY <1>5 DEF ValidateAndPrepare, TypeOK, durable
<1>6. CASE CommitPvt
    BY <1>6 DEF CommitPvt, TypeOK
<1>7. CASE AddBlock
    BY <1>7, ExtendFacts DEF AddBlock, TypeOK, InCommit
<1>8. CASE CommitState
    BY <1>8 DEF CommitState, TypeOK, memory, ApplyUpdates
<1>9. CASE CommitHistory
    BY <1>9 DEF CommitHistory, TypeOK, memory
<1>10. CASE DropRefused
    BY <1>10 DEF DropRefused, Drop, TypeOK, memory, NewDB
<1>11. CASE Crash
    BY <1>11, ZenonT(30) DEF Crash, TypeOK, durable
<1>12. CASE \E h \in 1..(height - 1), ds \in SUBSET {"state", "history"} : Rollback(h, ds)
    BY <1>12, FirstOfFacts DEF Rollback, Drop, TypeOK, memory, NewDB
<1>13. CASE UNCHANGED vars
    BY <1>13 DEF vars, durable, memory, TypeOK
<1>14. QED
    BY <1>1, <1>2, <1>3, <1>4, <1>5, <1>6, <1>7, <1>8, <1>9, <1>10, <1>11, <1>12, <1>13 DEF Next, Step

(***************************************************************************)
(* Only AddBlock and Rollback change the block store, and neither changes  *)
(* a block that is there before and after.                                 *)
(***************************************************************************)
LEMMA BlocksKept ==
    ASSUME TypeOK, [Next]_vars
    PROVE  /\ chain' = chain
           /\ \/ AddBlock
              \/ \E h \in 1..(height - 1), ds \in SUBSET {"state", "history"} : Rollback(h, ds)
              \/ UNCHANGED <<height, blkStore, after>>
           /\ \A n \in 0..(height - 1) : n < height' =>
                 /\ blkStore'[n] = blkStore[n]
                 /\ after'[n] = after[n]
<1>1. CASE AddBlock
    BY <1>1, ExtendFacts DEF AddBlock, TypeOK
<1>2. CASE \E h \in 1..(height - 1), ds \in SUBSET {"state", "history"} : Rollback(h, ds)
    BY <1>2, FirstOfFacts DEF Rollback, TypeOK
<1>3. CASE ~AddBlock /\ ~\E h \in 1..(height - 1), ds \in SUBSET {"state", "history"} : Rollback(h, ds)
  <2>1. UNCHANGED <<chain, height, blkStore, after>>
    BY <1>3 DEF Next, Step, vars, durable, memory, Open, RecoverState, RecoverHistory, Recovered,
       ValidateAndPrepare, CommitPvt, CommitState, CommitHistory, DropRefused, Crash
  <2>2. QED
    BY <2>1, SMTT(30)
<1>4. QED
    BY <1>1, <1>2, <1>3

\* The state a block that stays was validated against, and its batch, stay.
LEMMA BatchKept ==
    ASSUME TypeOK, [Next]_vars
    PROVE  /\ \A n \in 0..height : n <= height' => StateBefore(n)' = StateBefore(n)
           /\ \A n \in 0..(height - 1) : n < height' => BatchOf(n)' = BatchOf(n)
<1>1. \A n \in 0..(height - 1) : n < height' => /\ blkStore'[n] = blkStore[n]
                                              /\ after'[n] = after[n]
    BY BlocksKept
<1>2. chain' = chain
    BY BlocksKept
<1>3. height \in Nat /\ height' \in Nat
    BY BlocksKept DEF TypeOK, AddBlock, Rollback
<1>4. ASSUME NEW n \in 0..height, n <= height'
      PROVE  StateBefore(n)' = StateBefore(n)
    BY <1>1, <1>3, <1>4 DEF StateBefore
<1>5. ASSUME NEW n \in 0..(height - 1), n < height'
      PROVE  BatchOf(n)' = BatchOf(n)
  <2>1. StateBefore(n)' = StateBefore(n)
    BY <1>3, <1>4, <1>5
  <2>2. blkStore'[n] = blkStore[n]
    BY <1>1, <1>5, SMTT(30)
  <2>3. QED
    BY <1>2, <2>1, <2>2 DEF BatchOf
<1>6. QED
    BY <1>4, <1>5

\* The savepoints move with the pipeline (Open, the recoverers, the commits).
LEMMA NextHeights == TypeOK /\ Heights /\ [Next]_vars => Heights'
<1> SUFFICES ASSUME TypeOK, Heights, [Next]_vars PROVE Heights'
    OBVIOUS
<1> USE DEF TypeOK, Heights
<1>1. CASE Open
    BY <1>1 DEF Open, durable
<1>2. CASE RecoverState
    BY <1>2 DEF RecoverState
<1>3. CASE RecoverHistory
    BY <1>3 DEF RecoverHistory
<1>4. CASE Recovered \/ ValidateAndPrepare \/ CommitPvt
    BY <1>4 DEF Recovered, ValidateAndPrepare, CommitPvt, durable
<1>5. CASE AddBlock
    BY <1>5 DEF AddBlock
<1>6. CASE CommitState \/ CommitHistory
    BY <1>6 DEF CommitState, CommitHistory
<1>7. CASE DropRefused
    BY <1>7 DEF DropRefused, Drop
<1>8. CASE Crash
    BY <1>8 DEF Crash, durable
<1>9. CASE \E h \in 1..(height - 1), ds \in SUBSET {"state", "history"} : Rollback(h, ds)
    BY <1>9 DEF Rollback, Drop
<1>10. CASE UNCHANGED vars
    BY <1>10 DEF vars, durable
<1>11. QED
    BY <1>1, <1>2, <1>3, <1>4, <1>5, <1>6, <1>7, <1>8, <1>9, <1>10, ZenonT(30) DEF Next, Step

\* The flag is right whenever it is used (newKVLedger sets it,
\* commitToPvtAndBlockStore resets it).
LEMMA NextPvt == TypeOK /\ PvtKnown /\ [Next]_vars => PvtKnown'
<1> SUFFICES ASSUME TypeOK, PvtKnown, [Next]_vars PROVE PvtKnown'
    OBVIOUS
<1> USE DEF TypeOK, PvtKnown
<1>1. CASE Open
  <2>1. pvtHt' = pvtHt /\ height' = height /\ phase' \in {"refused", "recovering"}
    BY <1>1 DEF Open, durable
  <2>2. ahead' <=> pvtHt > height
    BY <1>1 DEF Open, isPvtDataStoreAheadOfBlockStore
  <2>3. QED
    BY <2>1, <2>2
<1>2. CASE RecoverState \/ RecoverHistory \/ Recovered \/ ValidateAndPrepare
    BY <1>2 DEF RecoverState, RecoverHistory, Recovered, ValidateAndPrepare, durable, memory
<1>3. CASE CommitPvt
    BY <1>3 DEF CommitPvt
<1>4. CASE AddBlock
  <2>1. height' = height + 1 /\ pvtHt' = pvtHt /\ phase' = "stored"
    BY <1>4 DEF AddBlock
  <2>2. ahead' <=> pvtHt > height + 1
    <3>1. ahead' = (ahead /\ pvtRead # height + 1) /\ phase = "pvt"
        BY <1>4 DEF AddBlock
    <3>2. CASE ahead = TRUE
      <4>1. pvtHt = pvtRead /\ pvtRead > height
        BY <3>1, <3>2
      <4>2. ahead' <=> pvtRead # height + 1
        BY <3>1, <3>2, Zenon
      <4>3. pvtRead # height + 1 <=> pvtHt > height + 1
        BY <4>1
      <4>4. QED
        BY <4>2, <4>3, Zenon
    <3>3. CASE ahead = FALSE
      <4>1. pvtHt = height + 1
        BY <3>1, <3>3
      <4>2. QED
        BY <3>1, <3>3, <4>1
    <3>4. QED
        BY <3>2, <3>3
  <2>3. pvtHt >= height + 1
    BY <1>4 DEF AddBlock
  <2>4. QED
    BY <2>1, <2>2, <2>3, SMTT(30)
<1>5. CASE CommitState \/ CommitHistory \/ DropRefused \/ Crash
    BY <1>5 DEF CommitState, CommitHistory, DropRefused, Crash, durable, memory
<1>6. CASE \E h \in 1..(height - 1), ds \in SUBSET {"state", "history"} : Rollback(h, ds)
    BY <1>6 DEF Rollback, memory
<1>7. CASE UNCHANGED vars
    BY <1>7, SMTT(30) DEF vars, durable, memory
<1>8. QED
    BY <1>1, <1>2, <1>3, <1>4, <1>5, <1>6, <1>7 DEF Next, Step

\* What commit carries from one store to the next stays that of the block in
\* commit (ValidateAndPrepare computes it, the stores use it).
LEMMA NextInCommit ==
    TypeOK /\ Heights /\ ExactlyOnce /\ InCommit /\ HashChain /\ [Next]_vars => InCommit'
<1> SUFFICES ASSUME TypeOK, Heights, ExactlyOnce, InCommit, HashChain, [Next]_vars PROVE InCommit'
    OBVIOUS
<1> USE DEF InCommit, lastPersistedCommitHash
<1>1. CASE Open
    BY <1>1 DEF Open, durable
<1>2. CASE RecoverState \/ RecoverHistory \/ Recovered
    BY <1>2 DEF RecoverState, RecoverHistory, Recovered, durable, memory
<1>3. CASE ValidateAndPrepare
  <2>1. phase = "ready" /\ phase' = "prepared" /\ height < MaxBlocks /\ UNCHANGED <<chain, durable, enabled>>
    BY <1>3 DEF ValidateAndPrepare
  <2>2. UNCHANGED <<height, blkStore, after>>
    BY <2>1 DEF durable
  <2>3. db = StateBefore(height)
    BY <2>1 DEF TypeOK, Heights, ExactlyOnce
  <2>4. /\ flags' \in Flags(db, chain[height].txs, height, enabled)
        /\ batch' = Batch(db, chain[height].txs, flags', height)
        /\ commitHash' = addBlockCommitHash(height, flags', batch')
    BY <1>3 DEF ValidateAndPrepare
  <2>5. commitHash' = IF height = 0 THEN NoHash ELSE <<flags', batch', commitHash>>
    <3>1. CASE height = 0
        BY <2>1, <2>4, <3>1 DEF addBlockCommitHash
    <3>2. CASE height = 1
        BY <2>4, <3>2 DEF addBlockCommitHash
    <3>3. CASE height > 1
      <4>1. PICK n \in 0..(height - 1) : n = height - 1 /\ n # 0
        BY <3>3 DEF TypeOK
      <4>2. commitHash # NoHash
        <5>1. commitHash = blkStore[n].hash
            BY <2>1, <3>3, <4>1
        <5>2. blkStore[n].hash = <<blkStore[n].flags, BatchOf(n), blkStore[n - 1].hash>>
            BY <4>1, ZenonT(30) DEF HashChain
        <5>3. QED
            BY <5>1, <5>2 DEF NoHash
      <4>3. QED
        BY <2>4, <3>3, <4>2 DEF addBlockCommitHash, TypeOK
    <3>4. QED
        BY <3>1, <3>2, <3>3 DEF TypeOK
  <2>6. (StateBefore(height))' = StateBefore(height)
    BY <2>2 DEF StateBefore
  <2>7. commitHash = lastPersistedCommitHash
    BY <2>1
  <2>8. QED
    BY <2>1, <2>2, <2>3, <2>4, <2>5, <2>6, <2>7
<1>4. CASE CommitPvt
    BY <1>4 DEF CommitPvt, StateBefore
<1>5. CASE AddBlock
  <2>1. /\ phase = "pvt" /\ phase' = "stored" /\ height' = height + 1
        /\ UNCHANGED <<chain, flags, batch, commitHash>>
    BY <1>5, SMTT(30) DEF AddBlock
  <2>2. PICK h \in Nat : h = height /\ height' - 1 = h /\ height' # 0
    BY <2>1 DEF TypeOK
  <2>3. blkStore'[h] = [flags |-> flags, hash |-> commitHash]
    BY <1>5, <2>2, ExtendFacts, SMTT(30) DEF AddBlock, TypeOK
  <2>4. StateBefore(h)' = StateBefore(h)
    BY <2>1, <2>2, BatchKept, SMTT(30) DEF TypeOK
  <2>5. batch = BatchOf(h)'
    BY <2>1, <2>2, <2>3, <2>4, SMTT(30) DEF BatchOf
  <2>6. (BatchOf(height - 1))' = BatchOf(h)'
    BY <2>2, ZenonT(30) DEF BatchOf, StateBefore
  <2>7. QED
    BY <2>1, <2>2, <2>3, <2>5, <2>6, SMTT(30)
<1>6. CASE CommitState \/ CommitHistory
    BY <1>6 DEF CommitState, CommitHistory, memory
<1>7. CASE DropRefused \/ Crash
    BY <1>7 DEF DropRefused, Crash
<1>8. CASE \E h \in 1..(height - 1), ds \in SUBSET {"state", "history"} : Rollback(h, ds)
    BY <1>8, SMTT(30) DEF Rollback
<1>9. CASE UNCHANGED vars
    BY <1>9 DEF vars, durable, memory, StateBefore, BatchOf
<1>10. QED
    BY <1>1, <1>2, <1>3, <1>4, <1>5, <1>6, <1>7, <1>8, <1>9, ZenonT(30) DEF Next, Step

\* Recovery and commit apply each block once (recommitLostBlocks, commit).
LEMMA NextExactlyOnce == TypeOK /\ Heights /\ InCommit /\ ExactlyOnce /\ [Next]_vars => ExactlyOnce'
<1> SUFFICES ASSUME TypeOK, Heights, InCommit, ExactlyOnce, [Next]_vars PROVE ExactlyOnce'
    OBVIOUS
<1>0. height \in Nat /\ height' \in Nat
    BY BlocksKept DEF TypeOK, AddBlock, Rollback
<1> DEFINE Applied(n) == after[n] = ApplyUpdates(StateBefore(n), BatchOf(n))
<1>1. \A n \in 0..(height' - 1) : Applied(n)'
  <2>1. ASSUME NEW n \in 0..(height - 1), n < height'
        PROVE  Applied(n)'
    <3>1. after'[n] = after[n]
        BY <2>1, BlocksKept
    <3>2. StateBefore(n)' = StateBefore(n) /\ BatchOf(n)' = BatchOf(n)
        BY <1>0, <2>1, BatchKept, SMTT(30)
    <3>3. QED
        BY <3>1, <3>2 DEF ExactlyOnce
  <2>2. CASE AddBlock
    <3>1. PICK h \in Nat : h = height /\ height' = h + 1
        BY <2>2 DEF AddBlock, TypeOK
    <3>2. after'[h] = ApplyUpdates(db, batch)
        BY <2>2, <3>1, ExtendFacts, SMTT(30) DEF AddBlock, TypeOK
    <3>3. db = StateBefore(h)
        BY <2>2, <3>1 DEF AddBlock, Heights, ExactlyOnce, TypeOK
    <3>4. StateBefore(h)' = StateBefore(h)
        BY <3>1, BatchKept, SMTT(30) DEF TypeOK
    <3>5. batch = BatchOf(h)'
      <4>1. blkStore'[h].flags = flags
        BY <2>2, <3>1, ExtendFacts DEF AddBlock, TypeOK
      <4>2. QED
        BY <2>2, <3>1, <3>4, <4>1, SMTT(30) DEF AddBlock, InCommit, BatchOf
    <3>6. Applied(h)'
        BY <3>2, <3>3, <3>4, <3>5
    <3> HIDE DEF Applied
    <3>7. \A n \in 0..(height' - 1) : n \in 0..(height - 1) \/ n = h
        BY <3>1 DEF TypeOK
    <3>8. QED
        BY <2>1, <3>1, <3>6, <3>7
  <2>3. CASE ~AddBlock
    <3>1. height' <= height
        BY <1>0, <2>3, BlocksKept DEF Rollback
    <3>2. \A g, h \in Nat : g <= h => \A n \in 0..(g - 1) : n \in 0..(h - 1) /\ n < g
        OBVIOUS
    <3>3. \A n \in 0..(height' - 1) : n \in 0..(height - 1) /\ n < height'
        BY <1>0, <3>1, <3>2, Zenon
    <3> HIDE DEF Applied
    <3>4. QED
        BY <2>1, <3>3
  <2>4. QED
    BY <2>2, <2>3
<1>2. (dbHt <= height => db = StateBefore(dbHt))'
  <2>1. ASSUME UNCHANGED <<db, dbHt>>
        PROVE  (dbHt <= height => db = StateBefore(dbHt))'
    <3>1. CASE dbHt <= height
      <4>1. PICK h \in 0..height : h = dbHt
        BY <3>1 DEF TypeOK
      <4>2. db = StateBefore(h)
        BY <3>1, <4>1 DEF ExactlyOnce
      <4>3. dbHt' <= height' => StateBefore(h)' = StateBefore(h)
        BY <2>1, <4>1, BatchKept
      <4>4. (StateBefore(dbHt))' = StateBefore(h)'
        BY <2>1, <4>1 DEF StateBefore
      <4>5. QED
        BY <2>1, <4>2, <4>3, <4>4
    <3>2. CASE dbHt > height
      <4>1. ~(dbHt <= height')
        BY <3>2, BlocksKept, SMTT(30) DEF AddBlock, Rollback, Heights, TypeOK
      <4>2. QED
        BY <2>1, <4>1, SMTT(30)
    <3>3. QED
        BY <3>1, <3>2 DEF TypeOK
  <2>2. ASSUME db' = NewDB, dbHt' = 0
        PROVE  (db = StateBefore(dbHt))'
    BY <2>2 DEF StateBefore, NewDB
  <2>3. CASE RecoverState
    <3>1. dbHt \in 0..(height - 1) /\ dbHt <= height /\ dbHt' = dbHt + 1 /\ UNCHANGED <<height, after>>
        BY <2>3 DEF RecoverState, TypeOK
    <3>2. db = StateBefore(dbHt)
        BY <3>1 DEF ExactlyOnce
    <3>3. db' = ApplyUpdates(StateBefore(dbHt), BatchOf(dbHt))
        BY <2>3, <3>2 DEF RecoverState, BatchOf
    <3>4. db' = after[dbHt]
        BY <3>1, <3>3 DEF ExactlyOnce
    <3>5. dbHt' # 0 /\ dbHt' - 1 = dbHt
        BY <3>1
    <3>6. QED
        BY <3>1, <3>4, <3>5 DEF StateBefore
  <2>4. CASE CommitState
    <3>1. height > 0 /\ dbHt = height - 1 /\ dbHt' = height /\ UNCHANGED <<height, after>>
        BY <2>4 DEF CommitState, Heights, TypeOK
    <3>2. db = StateBefore(height - 1)
        BY <3>1 DEF ExactlyOnce, TypeOK
    <3>3. db' = ApplyUpdates(StateBefore(height - 1), BatchOf(height - 1))
        BY <2>4, <3>2 DEF CommitState, InCommit
    <3>4. db' = after[height - 1]
        BY <3>1, <3>3 DEF ExactlyOnce, TypeOK
    <3>5. QED
        BY <3>1, <3>4, SMTT(30) DEF StateBefore
  <2>5. CASE DropRefused \/ \E h \in 1..(height - 1), ds \in SUBSET {"state", "history"} : Rollback(h, ds)
    <3>1. UNCHANGED <<db, dbHt>> \/ (db' = NewDB /\ dbHt' = 0)
        BY <2>5 DEF DropRefused, Rollback, Drop
    <3>2. QED
        BY <2>1, <2>2, <3>1, SMTT(30)
  <2>6. CASE \/ Open \/ RecoverHistory \/ Recovered \/ ValidateAndPrepare \/ CommitPvt \/ AddBlock
             \/ CommitHistory \/ Crash \/ UNCHANGED vars
    <3>1. UNCHANGED <<db, dbHt>>
        BY <2>6 DEF Open, RecoverHistory, Recovered, ValidateAndPrepare, CommitPvt, AddBlock,
           CommitHistory, Crash, vars, durable
    <3>2. QED
        BY <2>1, <3>1, SMTT(30)
  <2>7. QED
    BY <2>3, <2>4, <2>5, <2>6 DEF Next, Step
<1>3. QED
    BY <1>1, <1>2 DEF ExactlyOnce

\* The history index gets each block once (historyDB.Commit, CommitLostBlock).
LEMMA NextHistory ==
    TypeOK /\ Heights /\ InCommit /\ HistoryComplete /\ [Next]_vars => HistoryComplete'
<1> SUFFICES ASSUME TypeOK, Heights, InCommit, HistoryComplete, [Next]_vars PROVE HistoryComplete'
    OBVIOUS
<1>1. height \in Nat /\ height' \in Nat /\ histHt \in Nat
    BY BlocksKept DEF TypeOK, AddBlock, Rollback
<1>2. \A n \in 0..(height - 1) : n < height' => HistoryIn(n)' = HistoryIn(n)
    BY BlocksKept DEF HistoryIn
<1>3. ASSUME UNCHANGED <<hist, histHt>>
      PROVE  HistoryComplete'
  <2>1. CASE histHt <= height /\ histHt <= height'
    <3>1. \A n \in 0..(histHt - 1) : n \in 0..(height - 1) /\ n < height'
      <4>1. \A g, h, i \in Nat : i <= h /\ i <= g => \A n \in 0..(i - 1) : n \in 0..(h - 1) /\ n < g
        OBVIOUS
      <4>2. QED
        BY <1>1, <2>1, <4>1, Zenon
    <3>2. \A n \in 0..(histHt - 1) : HistoryIn(n)' = HistoryIn(n)
        BY <1>2, <3>1
    <3>3. hist = UNION {HistoryIn(n) : n \in 0..(histHt - 1)}
        BY <2>1 DEF HistoryComplete
    <3>4. UNION {HistoryIn(n)' : n \in 0..(histHt - 1)} = UNION {HistoryIn(n) : n \in 0..(histHt - 1)}
        BY <3>2
    <3>5. QED
        BY <1>3, <3>3, <3>4, SMTT(30) DEF HistoryComplete
  <2>2. CASE histHt > height
    <3>1. ~(histHt <= height')
        BY <1>1, <2>2, BlocksKept DEF AddBlock, Rollback, Heights
    <3>2. QED
        BY <1>3, <3>1, SMTT(30) DEF HistoryComplete
  <2>3. CASE ~(histHt <= height')
    BY <1>3, <2>3 DEF HistoryComplete
  <2>4. QED
    BY <1>1, <2>1, <2>2, <2>3, SMTT(30)
<1>4. ASSUME hist' = {}, histHt' = 0
      PROVE  HistoryComplete'
  <2>1. 0..(0 - 1) = {}
    OBVIOUS
  <2>2. QED
    BY <1>4, <2>1 DEF HistoryComplete
<1>5. ASSUME NEW h \in Nat, h < height, histHt = h, histHt' = h + 1,
             hist' = hist \cup HistoryIn(h), UNCHANGED <<chain, blkStore>>
      PROVE  HistoryComplete'
  <2>1. hist = UNION {HistoryIn(n) : n \in 0..(h - 1)}
    BY <1>1, <1>5 DEF HistoryComplete
  <2>2. 0..((h + 1) - 1) = 0..(h - 1) \cup {h}
    BY <1>5
  <2>3. UNION {HistoryIn(n) : n \in 0..(h - 1) \cup {h}} = hist \cup HistoryIn(h)
    BY <2>1, Zenon
  <2>4. \A n \in 0..(h - 1) \cup {h} : HistoryIn(n)' = HistoryIn(n)
    BY <1>5 DEF HistoryIn
  <2>5. UNION {HistoryIn(n)' : n \in 0..(h - 1) \cup {h}} = hist'
    BY <1>5, <2>3, <2>4, SMTT(30)
  <2>6. QED
    BY <1>5, <2>2, <2>5 DEF HistoryComplete
<1>6. CASE RecoverHistory
    BY <1>1, <1>5, <1>6, SMTT(30) DEF RecoverHistory, HistoryIn
<1>7. CASE CommitHistory
  <2>1. PICK h \in Nat : h = height - 1 /\ h < height /\ height = h + 1
    BY <1>1, <1>7, SMTT(30) DEF CommitHistory, Heights
  <2>2. hist' = hist \cup HistoryIn(h) /\ histHt = h /\ histHt' = h + 1 /\ UNCHANGED <<chain, blkStore>>
    BY <1>7, <2>1 DEF CommitHistory, Heights, InCommit, HistoryIn
  <2>3. QED
    BY <1>5, <2>1, <2>2
<1>8. CASE DropRefused \/ \E h \in 1..(height - 1), ds \in SUBSET {"state", "history"} : Rollback(h, ds)
  <2>1. UNCHANGED <<hist, histHt>> \/ (hist' = {} /\ histHt' = 0)
    BY <1>8 DEF DropRefused, Rollback, Drop
  <2>2. QED
    BY <1>3, <1>4, <2>1
<1>9. CASE \/ Open \/ RecoverState \/ Recovered \/ ValidateAndPrepare \/ CommitPvt \/ AddBlock
           \/ CommitState \/ Crash \/ UNCHANGED vars
  <2>1. UNCHANGED <<hist, histHt>>
    BY <1>9, ZenonT(30) DEF Open, RecoverState, Recovered, ValidateAndPrepare, CommitPvt, AddBlock, CommitState,
       Crash, vars, durable
  <2>2. QED
    BY <1>3, <2>1, SMTT(30)
<1>10. QED
    BY <1>6, <1>7, <1>8, <1>9, SMTT(30) DEF Next, Step

\* A stored block carries the hash and the flags computed for it, and those
\* of the blocks before it stay (AddBlock).
LEMMA StoredBlock ==
    ASSUME TypeOK, Heights, InCommit, AddBlock, NEW h \in Nat, h = height
    PROVE  /\ height' = h + 1
           /\ blkStore'[h] = [flags |-> flags, hash |-> commitHash]
           /\ StateBefore(h)' = StateBefore(h)
           /\ BatchOf(h)' = batch
           /\ h > 0 => blkStore'[h - 1] = blkStore[h - 1]
<1>1. height' = h + 1 /\ chain' = chain
    BY DEF AddBlock
<1>2. blkStore'[h] = [flags |-> flags, hash |-> commitHash]
    BY ExtendFacts, SMTT(30) DEF AddBlock, TypeOK
<1>3. \A i \in 0..(h - 1) : blkStore'[i] = blkStore[i] /\ after'[i] = after[i]
    BY ExtendFacts DEF AddBlock, TypeOK
<1>4. StateBefore(h)' = StateBefore(h)
    BY <1>3, SMTT(30) DEF StateBefore
<1>5. BatchOf(h)' = batch
    BY <1>1, <1>2, <1>4 DEF BatchOf, InCommit, AddBlock
<1>6. QED
    BY <1>1, <1>2, <1>3, <1>4, <1>5, SMTT(30)

\* The blocks after a step are those before it, or one more after AddBlock.
LEMMA BlocksAfter ==
    ASSUME TypeOK, [Next]_vars, NEW n \in 0..(height' - 1)
    PROVE  (n \in 0..(height - 1) /\ n < height') \/ (AddBlock /\ n = height)
<1>1. height \in Nat /\ height' \in Nat
    BY BlocksKept DEF TypeOK, AddBlock, Rollback
<1>2. CASE AddBlock
  <2>1. \A h \in Nat : \A i \in 0..((h + 1) - 1) : (i \in 0..(h - 1) /\ i < h + 1) \/ i = h
    OBVIOUS
  <2>2. height' = height + 1
    BY <1>2 DEF AddBlock
  <2>3. QED
    BY <1>1, <1>2, <2>1, <2>2, Zenon
<1>3. CASE ~AddBlock
  <2>1. height' <= height
    BY <1>1, <1>3, BlocksKept DEF Rollback
  <2>2. \A g, h \in Nat : g <= h => \A i \in 0..(g - 1) : i \in 0..(h - 1) /\ i < g
    OBVIOUS
  <2>3. QED
    BY <1>1, <2>1, <2>2, Zenon
<1>4. QED
    BY <1>2, <1>3, SMTT(30)

\* The hashes form a chain through every crash (addBlockCommitHash).
LEMMA NextHashChain == TypeOK /\ Heights /\ InCommit /\ HashChain /\ [Next]_vars => HashChain'
<1> DEFINE Linked(n) == blkStore[n].hash = IF n = 0 THEN NoHash
                           ELSE <<blkStore[n].flags, BatchOf(n), blkStore[n - 1].hash>>
<1> SUFFICES ASSUME TypeOK, Heights, InCommit, HashChain, [Next]_vars,
                    NEW n \in 0..(height' - 1)
             PROVE  Linked(n)'
    BY DEF HashChain
<1>1. CASE n \in 0..(height - 1) /\ n < height'
  <2>1. blkStore'[n] = blkStore[n] /\ BatchOf(n)' = BatchOf(n)
    BY <1>1, BlocksKept, BatchKept, SMTT(30)
  <2>2. n # 0 => blkStore'[n - 1] = blkStore[n - 1]
    <3>1. height \in Nat /\ height' \in Nat
        BY BlocksKept DEF TypeOK, AddBlock, Rollback
    <3>2. n # 0 => n - 1 \in 0..(height - 1) /\ n - 1 < height'
        BY <1>1, <3>1
    <3>3. QED
        BY <3>2, BlocksKept, SMTT(30)
  <2>3. Linked(n)
    BY <1>1 DEF HashChain
  <2>4. QED
    BY <2>1, <2>2, <2>3, SMTT(30)
<1>2. CASE AddBlock /\ n = height
  <2>1. n \in Nat /\ n = height
    BY <1>2 DEF TypeOK
  <2>2. /\ blkStore'[n] = [flags |-> flags, hash |-> commitHash]
        /\ BatchOf(n)' = batch
        /\ n > 0 => blkStore'[n - 1] = blkStore[n - 1]
    BY <1>2, <2>1, StoredBlock, SMTT(30)
  <2>3. commitHash = IF n = 0 THEN NoHash ELSE <<flags, batch, blkStore[n - 1].hash>>
    BY <1>2, <2>1 DEF AddBlock, InCommit, lastPersistedCommitHash
  <2>4. QED
    BY <2>1, <2>2, <2>3
<1>3. QED
    BY <1>1, <1>2, BlocksAfter, SMTT(30)

\* Without a change of the capability, what the last configuration block says
\* is what the genesis block says (typedDeltaCapabilityEnabled).
LEMMA LastConfig ==
    ASSUME NEW h \in Nat \ {0}, chain[0].config \in Config, SameCapability(h)
    PROVE  CapabilityAt(h) <=> chain[0].config = "on"
<1> DEFINE T == {(h - 1) - i : i \in {j \in 0..(h - 1) : chain[j].config # "none"}}
<1>1. 0 \in {j \in 0..(h - 1) : chain[j].config # "none"}
    BY DEF Config
<1>2. T \in SUBSET Nat /\ T # {}
    BY <1>1
<1>3. PICK m \in T : \A y \in T : m <= y
  <2> HIDE DEF T
  <2> QED BY <1>2, LeastExists
<1>4. PICK i \in 0..(h - 1) : chain[i].config # "none" /\ m = (h - 1) - i
    OBVIOUS
<1>5. ASSUME NEW j \in (i + 1)..(h - 1)
      PROVE  chain[j].config = "none"
  <2>1. SUFFICES ASSUME chain[j].config # "none" PROVE FALSE
    OBVIOUS
  <2>2. j \in 0..(h - 1)
    BY <1>4
  <2>3. (h - 1) - j \in T
    BY <2>1, <2>2
  <2>4. (h - 1) - i <= (h - 1) - j
    BY <1>3, <1>4, <2>3, SMTT(30)
  <2>5. QED
    BY <2>4
<1>6. chain[i].config = chain[0].config
    BY <1>4 DEF SameCapability
<1>7. CASE chain[0].config = "on"
    BY <1>4, <1>5, <1>6, <1>7, SMTT(30) DEF CapabilityAt
<1>8. CASE chain[0].config # "on"
    BY <1>8 DEF CapabilityAt, SameCapability
<1>9. QED
    BY <1>7, <1>8

\* The capability the ledger holds stays that of the genesis block.
LEMMA NextCapability == TypeOK /\ CapabilityRead /\ [Next]_vars => CapabilityRead'
<1> SUFFICES ASSUME TypeOK, CapabilityRead, [Next]_vars PROVE CapabilityRead'
    OBVIOUS
<1>1. chain' = chain /\ chain'[0].config \in Config
    BY BlocksKept DEF CapabilityRead
<1>2. CASE Open
  <2>1. height' = height
    BY <1>2 DEF Open, durable
  <2>2. CASE height = 0
    BY <1>1, <1>2, <2>2, SMTT(30) DEF Open, typedDeltaCapabilityEnabled, CapabilityRead
  <2>3. CASE height # 0
    <3>1. PICK h \in Nat \ {0} : h = height
        BY <2>3 DEF TypeOK
    <3>2. SameCapability(h) => (CapabilityAt(h) <=> chain[0].config = "on")
        BY <1>1, <3>1, LastConfig
    <3>3. enabled' = CapabilityAt(h)
        BY <1>2, <2>3, <3>1 DEF Open, typedDeltaCapabilityEnabled
    <3>4. (SameCapability(height))' <=> SameCapability(h)
        BY <1>1, <2>1, <3>1 DEF SameCapability
    <3>5. CapabilityAt(h) \in BOOLEAN
        BY Zenon DEF CapabilityAt
    <3>6. SameCapability(h) => enabled' = (chain[0].config = "on")
        BY <3>2, <3>3, <3>5, SMTT(30)
    <3>7. QED
        BY <1>1, <3>4, <3>6 DEF CapabilityRead
  <2>4. QED
    BY <2>2, <2>3
<1>3. CASE AddBlock
  <2>1. enabled' = enabled /\ height' = height + 1 /\ phase = "pvt"
    BY <1>3 DEF AddBlock
  <2>2. (SameCapability(height))' => SameCapability(height)
    BY <1>1, <2>1, SMTT(30) DEF SameCapability, TypeOK
  <2>3. QED
    BY <1>1, <2>1, <2>2 DEF CapabilityRead
<1>4. CASE Crash \/ DropRefused \/ \E h \in 1..(height - 1), ds \in SUBSET {"state", "history"} : Rollback(h, ds)
    BY <1>1, <1>4 DEF Crash, DropRefused, Rollback, CapabilityRead
<1>5. CASE \/ RecoverState \/ RecoverHistory \/ Recovered \/ ValidateAndPrepare \/ CommitPvt
           \/ CommitState \/ CommitHistory \/ UNCHANGED vars
  <2>1. /\ enabled' = enabled /\ height' = height
        /\ phase' \notin {"down", "refused"} => phase \notin {"down", "refused"}
    BY <1>5, ZenonT(30) DEF RecoverState, RecoverHistory, Recovered, ValidateAndPrepare, CommitPvt,
       CommitState, CommitHistory, vars, durable, memory
  <2>2. (SameCapability(height))' => SameCapability(height)
    BY <1>1, <2>1, SMTT(30) DEF SameCapability
  <2>3. QED
    BY <1>1, <2>1, <2>2, SMTT(30) DEF CapabilityRead
<1>6. QED
    BY <1>2, <1>3, <1>4, <1>5, SMTT(30) DEF Next, Step

\* A block is stored with the flags of the genesis capability (AddBlock).
LEMMA NextFlags ==
    TypeOK /\ Heights /\ InCommit /\ CapabilityRead /\ FlagsFollowCapability /\ [Next]_vars
        => FlagsFollowCapability'
<1> DEFINE Follows(n) == SameCapability(n) =>
              blkStore[n].flags \in Flags(StateBefore(n), chain[n].txs, n, chain[0].config = "on")
<1> SUFFICES ASSUME TypeOK, Heights, InCommit, CapabilityRead, FlagsFollowCapability, [Next]_vars,
                    NEW n \in 0..(height' - 1)
             PROVE  Follows(n)'
    BY DEF FlagsFollowCapability
<1>1. chain' = chain
    BY BlocksKept
<1>2. SameCapability(n)' <=> SameCapability(n)
    BY <1>1, SMTT(30) DEF SameCapability
<1>3. CASE n \in 0..(height - 1) /\ n < height'
  <2>1. height' \in Nat
    BY BlocksKept DEF TypeOK, AddBlock, Rollback
  <2>2. n \in 0..height /\ n <= height'
    BY <1>3, <2>1 DEF TypeOK
  <2>3. blkStore'[n] = blkStore[n] /\ StateBefore(n)' = StateBefore(n)
    BY <1>3, <2>2, BlocksKept, BatchKept, SMTT(30)
  <2>4. Follows(n)
    BY <1>3 DEF FlagsFollowCapability
  <2>5. QED
    BY <1>1, <1>2, <2>3, <2>4, SMTT(30)
<1>4. CASE AddBlock /\ n = height
  <2>1. n \in Nat /\ n = height
    BY <1>4 DEF TypeOK
  <2>2. blkStore'[n] = [flags |-> flags, hash |-> commitHash] /\ StateBefore(n)' = StateBefore(n)
    BY <1>4, <2>1, StoredBlock, SMTT(30)
  <2>3. flags \in Flags(StateBefore(n), chain[n].txs, n, enabled)
    BY <1>4, SMTT(30) DEF AddBlock, InCommit
  <2>4. SameCapability(n) => enabled = (chain[0].config = "on")
    BY <1>4, ZenonT(30) DEF AddBlock, CapabilityRead
  <2>5. SameCapability(n) => flags \in Flags(StateBefore(n), chain[n].txs, n, chain[0].config = "on")
    BY <2>3, <2>4
  <2>6. QED
    BY <1>1, <1>2, <2>2, <2>5, SMTT(30)
<1>5. QED
    BY <1>3, <1>4, BlocksAfter, ZenonT(30)

-----------------------------------------------------------------------------
(***************************************************************************)
(* The invariant holds of every reachable state: the conjuncts of the      *)
(* commit pipeline and of recovery hold together.                          *)
(***************************************************************************)
THEOREM LedgerInvariant == Spec => []LedgerInv
<1>1. LedgerInv /\ [Next]_vars => LedgerInv'
    BY NextTypes, NextHeights, NextPvt, NextInCommit, NextCapability, NextExactlyOnce, NextHistory,
       NextHashChain, NextFlags DEF LedgerInv
<1>2. QED
    BY InitInv, <1>1, PTL DEF Spec

(***************************************************************************)
(* For every chain, and any crashes and rollbacks, the state database and  *)
(* the history index hold the effect of each stored block up to their      *)
(* savepoints exactly once (commit, recommitLostBlocks).                   *)
(***************************************************************************)
THEOREM Recovery == Spec => [](ExactlyOnce /\ HistoryComplete)
<1>1. LedgerInv => ExactlyOnce /\ HistoryComplete
    BY DEF LedgerInv
<1>2. QED
    BY <1>1, LedgerInvariant, PTL

(***************************************************************************)
(* A ledger that is ready has its databases at the height of the block     *)
(* store and knows whether the private data store is ahead                 *)
(* (commitToPvtAndBlockStore).                                             *)
(***************************************************************************)
THEOREM StoresInStep == Spec => []InStep
<1>1. LedgerInv => InStep
    BY DEF LedgerInv, Heights, PvtKnown, InStep, TypeOK
<1>2. QED
    BY <1>1, LedgerInvariant, PTL

(***************************************************************************)
(* The commit hashes of the stored blocks form one chain, whatever was     *)
(* computed for blocks that a crash kept from being stored                 *)
(* (addBlockCommitHash, lastPersistedCommitHash).                          *)
(***************************************************************************)
THEOREM HashesChain == Spec => []HashChain
<1>1. LedgerInv => HashChain
    BY DEF LedgerInv
<1>2. QED
    BY <1>1, LedgerInvariant, PTL

(***************************************************************************)
(* While no configuration block changes the capability, every block is     *)
(* stored with flags that the genesis capability gives, whenever the       *)
(* ledger was opened (typedDeltaCapabilityEnabled).                        *)
(***************************************************************************)
THEOREM CapabilityStable == Spec => []FlagsFollowCapability
<1>1. LedgerInv => FlagsFollowCapability
    BY DEF LedgerInv
<1>2. QED
    BY <1>1, LedgerInvariant, PTL
=============================================================================
