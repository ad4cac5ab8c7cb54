# Typed-delta validation in TLA+

This directory specifies the typed-delta extension of Hyperledger Fabric that
the repository implements: a transaction may carry *deltas* (ADD or SUB of an
int64) on a key instead of a value, and every peer folds them into the key's
value in block order, rejecting a transaction that would violate the invariant
of the key's schema at that point. The modules are translated from `src/`, are
checked with TLC on small instances, and the main results are proved with TLAPS
for every instance.

## 1. The system

| Part | Source | State | Operations |
|---|---|---|---|
| delta algebra | `fabric-core/typeddelta.go` | none | `addChecked`, `FoldNet`, `Apply`, invariants, canonical encoding |
| validation hooks | `fabric-core/typeddelta_hooks.go` | committed state, pending updates of the block, capability | `txTouchesTypedState`, `validateTypedDeltaTx`, `applyTypedDeltas` |
| ledger | `fabric-core/kv_ledger.go` | private data store, block store, state and history databases, commit hash, capability, `isPvtstoreAheadOfBlkstore` | open, recover, commit |
| commit notifications | `fabric-core/kv_ledger.go` | `commitNotifier`, its channel, `blockAPIsRWLock` | `sendCommitNotification`, `CommitNotificationsChannel`, block queries |
| history query | `history/query_executer.go` | history index, block store | `GetHistoryForKey` |
| shim handler | `shim/handler.go` | `state`, `responseChannels`, goroutines, stream | `handleMessage`, `callPeerWithChaincodeMsg` |
| chaincode stub | `shim/stub.go` | `didRead`, `plainKeys`, `deltaKeys` per invocation | read APIs, `PutState`, `DelState`, `PutDelta`, `InvokeChaincode` |
| endorsement rules | `fabric-core/endorse.go` | the same three fields | `GetState`, `PutState`, `PutDelta` |
| chaincodes | `chaincode/*.go` | ledger keys | `Add`, `Sub`, `Transfer`, ... |
| measurement | `analyzer/`, `driver/`, `scripts/`, `data/` | files | replay, load, plots |

They interact as follows. A chaincode calls its stub; the handler carries each
call to the peer over one stream; the peer collects a read/write set, which may
contain delta descriptors. Ordered blocks reach the ledger. Its transaction
manager validates each transaction against the committed state and the pending
updates of the block (MVCC reads first, then the hooks), the ledger stores the
block with its flags and commits the batch to the databases, and notifies a
consumer. History queries later fold the stored descriptors again.

What is hard to test, and what the properties aim at: the mix of deltas, plain
writes, deletes and schema changes inside one block; the random order in which
Go visits a map during validation; overflow at either end of int64; crashes
between the four stores and again during recovery; a private data store that is
ahead after a rollback; a capability that is read once; a commit that blocks on
a consumer under a lock; two goroutines of one transaction on one response
channel; rules that hold per invocation and are meant per transaction.
`PROJECT.json` lists these as hazards with the line where each bites.

## 2. The modules

| Module | Models | Uses |
|---|---|---|
| `TypedDelta` | delta algebra | |
| `DeltaAlgebra` | reference definition of the fold, over all short inputs | `TypedDelta` |
| `TypedDeltaHooks` | the hooks, as operators on a view of the state | `TypedDelta` |
| `ValidatorBatch` | Fabric's validator around the hooks (external) | `TypedDeltaHooks` |
| `BlockValidator` | one peer: endorse, order, validate, commit | `ValidatorBatch` |
| `TypedStore` | abstract specification: what validation promises | `TypedDeltaHooks` |
| `BlockValidatorRefinement` | the refinement mapping | `BlockValidator`, `TypedStore` |
| `KVLedger` | commit pipeline, crashes, rollback, recovery | `ValidatorBatch` |
| `CommitNotifier` | notifications and block queries | |
| `HistoryQuery` | history query over committed blocks | `ValidatorBatch` |
| `ShimHandler` | the chaincode's end of the stream | |
| `ChaincodeStub` | stub of `stub.go` beside the one of `endorse.go` | `TypedDeltaHooks` |
| `*Proofs` | theorems | the module they name |
| `MC*` | instances for TLC | the module they name |

Definitions keep the names of the code; `PROJECT.json` maps each to its lines.
A definition whose comment begins with "Mutant:" is a plausible bug in the
definition that follows it; it is used to see that a property can fail.

### Delta algebra and hooks

The width of int64 is the constant `MaxInt`; addition wraps at
`-MaxInt - 1 .. MaxInt`, so overflow happens in small instances. A Go pair
`(int64, error)` is a number or `Err`. A byte string is known by what the code
observes of it: its length, its 64-bit word when it has eight bytes, and the
schema it decodes to as JSON. `allowsOp` converts `int32` to `Op`; the set `ops`
of a schema holds the converted values. Namespaces are folded into keys:
`ConfigKeys` are those in the empty namespace, which are never looked up. A
schema key has no schema of its own, which is how the chaincodes use them.

A loop over writes gives the code of the first write that fails (`InOrder`). The
loop over the Go map `folded` gives the code of *any* key that fails, so
`validateTypedDeltaTx` is the set of codes it may return. "FATAL" stands for a
returned error, which fails the block.

### Block validator

`Endorse` records the versions a transaction reads; `Deliver` cuts a block out
of the endorsed transactions in any order; `ValidateTx` gives the next
transaction its code and, if VALID, merges its updates; `FailBlock` is a fatal
error; `CommitBlock` applies the batch. Endorsement, ordering, the MVCC check
and the batch are Fabric's own, in code outside this repository; they are
modelled from how the hooks and `typeddelta_integration_test.go` use them.

`TypedStore` forgets blocks, versions, batches and deltas: a store moves from
one transaction prefix to the next, and a key that has a schema changes only to
a value the schema admits, and not at all while the capability is off. The
mapping takes the value of each key in the view (pending updates over committed
state). Committing a batch is a stuttering step.

### Ledger

One action per durable step of `commit`: `ValidateAndPrepare` (with the commit
hash), `CommitPvt`, `AddBlock`, `CommitState`, `CommitHistory`. `Crash` may come
between any two and loses the memory of the process. `Open` is `newKVLedger` up
to recovery, `RecoverState` and `RecoverHistory` are one block of
`recommitLostBlocks` each, with the order of
`syncStateAndHistoryDBWithBlockstore`. `Rollback` and `DropRefused` are the
operator's: the first shortens the block store, leaves private data, and drops
any subset of the databases; the second follows the advice of the error message
that a database is ahead of the block store. Each store writes a block
atomically. `commit` returning an error ends in a crash, as the callers of
Fabric's committer do. Recovery takes the stored flags and checks nothing. The
commit hash is the tuple of what is hashed. A ledger of height 0 is opened on
the creation path, with its genesis block. Blocks are those whose validation is
not fatal (`BlockValidator` covers the fatal ones).

### Commit notifier

`Lock` to `Unlock` is the part of `commit` under `blockAPIsRWLock`.
`NotifyBlock` is the `default` branch of the select, after which `Send` needs
room in the channel. A reader stands for the block queries, which differ only in
what they fetch. Block numbers count modulo `Numbers`.

### History query

`Validate` and `CommitBlock` drive the validator on VALID transactions;
`GetHistoryForKey` is then evaluated in every state and compared with what the
state held after each of the transactions. `Origins` are the states a ledger may
start with: empty, or that of a snapshot.

### Shim handler

`inbox` is the stream from the peer. `handleMessage` is split by `h.state`; a
RESPONSE or ERROR takes `handleResponse`, which finds the channel under the
mutex, and `Handover`, when both ends of the unbuffered channel meet; `loop` is
the answer in between, and `loop = None` is the condition of every action that
needs the mutex. A call is `createResponseChannel`, `sendReceive`,
`deleteResponseChannel`, for all request types. Each transaction has the
goroutine that runs the handler and one the chaincode may start. External: the
peer answers each request once, in any order, and starts a transaction once; the
stream is FIFO until it breaks; `transactionContextID` is injective, transaction
identifiers having a fixed length. The loop that receives from the stream is in
a file outside this repository.

### Chaincode stub

`stack` holds the stub of each invocation under way. Every call goes to the stub
of `stub.go` and to the one of `endorse.go` (`ref`), and `verdict` holds what
each made of it. The source of a delta's argument is tracked: proposal inputs,
arguments computed by the caller from state, or state this invocation read. The
peer may refuse any write. Private writes, validation parameters and events
leave the three fields alone and are not actions. Empty keys, and proposals that
`newChaincodeStub` refuses, end the call or the transaction at once and are left
out.

## 3. What TLC checks

| Run | Bounds | States | Result |
|---|---|---|---|
| `block_validator` | 3 keys (one in the empty namespace), int64 = -4..3, 14 shapes of transaction, 3 transactions, blocks of 1 or 2 | 133,934 | holds |
| `kv_ledger` | 1 key, 5 kinds of block, 4 blocks, 2 crashes, 1 rollback | 204,366 | holds |
| `kv_ledger_live` | blocks of one transaction, 3 blocks, 2 crashes, 1 rollback | 3,978 | holds |
| `delta_algebra` | int64 = -4..3, up to 3 deltas, every operation | all inputs | holds |
| `delta_order` | the same | | violated (finding) |
| `commit_notifier` | channel of 2, 5 block numbers | 735 | holds |
| `notifier_done` | the same, a consumer that need not read | | violated (finding) |
| `history_query` | 1 key, 9 shapes of transaction, 4 transactions, blocks of 1 or 2 | 13,577 | holds |
| `history_snapshot` | the same, from a snapshot | | violated (finding) |
| `shim_handler` | 2 transactions of 2 goroutines, 1 call each, 1 message under way | 43,258 | holds |
| `chaincode_stub` | 1 key, 3 arguments, 3 invocations | 26,492 | holds |
| `stub_inputs` | the same | | violated (finding) |

Why the bounds suffice. Three transactions in blocks of two let a schema, a
value and a change of either meet in one block and across blocks, and the shapes
contain every error path of the hooks: unknown type or version, `lo > hi`, bytes
that are not JSON, bytes that are not an int64, overflow, a plain write and a
delta on one key. Four blocks with two crashes let the second crash fall into
the recovery from the first, and the rollback lets private data be ahead by more
than one. A channel of two is full, partly full and empty. With two goroutines
per transaction a second call meets a channel in use, and a second transaction
interleaves with it. Three invocations are a caller with two callees of the same
namespace, one after the other.

`OrderedPrefix` says that a key written after its schema record satisfies the
schema at every prefix. The exception is real: a schema may be seeded over a
value that already violates it. `OneCode` excludes states in which a typed key
or its schema record cannot be decoded: there the code fails the block, which
`FailBlock` models. `FlagsFollowCapability` is about channels whose capability
is not changed by a later configuration block: after such a change the flags
depend on when each peer was last opened.

### Fairness

- `KVLedger!FairSpec`: a ledger that can step does. Crashes and rollbacks are
  not fair and are bounded, so they end.
- `CommitNotifier!PeerSpec`: `commit` runs, a query returns, and
  `sync.RWMutex` starves neither readers nor writers, hence strong fairness of
  `Lock` and `RLock`. `FairSpec` adds that the consumer reads until the channel
  is closed, the usage the channel is made for; without it `DoneCloses` fails
  (finding).
- `ShimHandler!FairSpec`: the receive loop and the goroutines run, the peer
  answers in the end, and `sync.Mutex` does not starve a waiter, hence strong
  fairness of `deleteResponseChannel`. The chaincode is never obliged to call or
  to return.

Deadlock is checked in the notifier and stub runs; the others end when their
bounds are used up.

### Findings

1. `FoldNet` checks partial sums, so the order of the deltas of a transaction
   decides whether it overflows (`delta_order`), while the test of the fold calls
   order-dependence an error.
2. Closing `done` does not close the channel when the consumer stops reading
   while `commit` waits for room (`notifier_done`); `commit` then holds
   `blockAPIsRWLock` for good.
3. On a ledger created from a snapshot, history starts from zero and reports
   values the key never had (`history_snapshot`).
4. `didRead` belongs to an invocation. Through `InvokeChaincode` the argument of
   a delta can derive from state the transaction read (`stub_inputs`), against
   the text of the error that guards it. For the same reason `plainKeys` and
   `deltaKeys` do not span two invocations of one chaincode in a transaction; the
   hooks reject a write set that holds both kinds (`malformedTypedWrites`).

## 4. What is proved

All theorems hold for every value of the constants that satisfies the named
assumptions: `Int64Assumption`, `ErrAssumption` (`Err` is not a number),
`KeysAssumption` (schema keys are not data keys), `SchemaAssumption`, bounds that
are naturals, and templates and blocks of the right type. TLC evaluates the
assumptions in the runs.

- `TypedDeltaProofs`: `addChecked` is exact, the encoding round-trips, a
  successful `Apply` does not wrap.
- `TypedDeltaHooksProofs`: `Admitted`, whatever passes the hooks and applies
  leaves each written key with a value that the schema in force admits; and
  `OneCodeOfHooks`, one code whatever the map order.
- `BlockValidatorProofs`: `TypeCorrect`, `PrefixInvariant`, `Deterministic`. The
  inductive invariant is `TypeOK /\ VersionsBounded /\ OrderedPrefix`.
  `VersionsBounded` is needed because `OrderedPrefix` compares versions: when a
  transaction writes a schema, its version is later than every version in view,
  so the key now counts as older than its schema.
- `BlockValidatorRefinementProofs`: `Refinement`, the validator implements
  `TypedStore`. `ValidateTx` is a step of the store by `Admitted`; all other
  actions stutter.
- `KVLedgerProofs`: `Recovery`, `StoresInStep`, `HashesChain`,
  `CapabilityStable`, from one inductive invariant `LedgerInv`. Beyond the
  properties it says how the heights relate in each phase (`Heights`), what the
  memory of a running commit knows about the block (`InCommit`: the flags and the
  batch in memory are those of the next block on the current state), that the
  flag for private data is right (`PvtKnown`), and that the capability in memory
  is that of the chain (`CapabilityRead`). The argument for `ExactlyOnce`:
  `after[n]` is defined by the commit of block n; recovery applies
  `Batch(db, ...)` to a `db` that equals the state before that block, with the
  same flags, hence the same batch.

Only model-checked: liveness (`CatchesUp`, `DoneCloses`, `QueryServed`,
`CallReturns`), since the prover handles neither fairness nor ENABLED; what
`Apply` computes for a whole sequence (`ApplyIsSum`) and `HistoryIsMaterialised`,
which need induction over a fold; and so far the safety of `CommitNotifier`,
`ShimHandler` and `ChaincodeStub`.

## 5. Not modelled, and the plan

Modelled so far are the hooks, the ledger, notifications, history, handler and
stub. To come, in this order:

1. Proofs of `ShimHandler` (`ChannelPerCall` with `OneRequest` is close to
   inductive; `Routed` and `LoopSurvives` follow) and of `CommitNotifier`
   (`EveryBlockOnce`, `NoSendOnClosed`).
2. The chaincodes as transactions of the block validator: no lost update and no
   overdraft with `typed-delta-cc.go`, against `vanilla-rmw-cc.go` (MVCC
   conflicts) and `high-throughput-cc.go` (append and aggregate).
3. Query iterators of the stub (`nextResult`, prefetch and its failure).
4. A ledger created from a snapshot in `KVLedger`: recovery limits, the
   capability that cannot be read, the commit hash.
5. Two peers that were opened at different heights around a configuration
   change.
6. The replay of `analyzer/main.go` against the state of the validator.

Left out for good: `driver/`, `scripts/` and `data/` (measurement and plots),
identity checks of the chaincodes, block-file parsing, statistics and logging,
and the contents of private data.
