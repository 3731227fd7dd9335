# Formal models of the Privacy Layer SDK

TLA+ modules, TLC configurations and TLAPS proofs for the TypeScript monorepo
`packages/` (core, relay, state adapters, Stellar binding).  The modules are
translations of the code; documentation and tests are used to find out what the
code is meant to do, and are compared with it in the section *Findings*.

To check one run: `tlc -workers 2 -config RelayOverlap.cfg MCRelayRuntime`.
To check the proofs of one module: `tlapm RelaySafety_proof.tla`.

## 1. Inventory

| Component | State it keeps | Operations | Hard behaviour | What makes it correct |
|---|---|---|---|---|
| **Relay runtime** (`relay/src/*.ts`) | the pending-operation store (a port of the host), `inFlightCompletions` and the wallet submitters in memory | submit by relay or wallet, submit and await, poll, await settlement, complete a success, retry, fall back to the wallet, resume after a reload | every function is a chain of awaits; overlapping calls, failing ports, reloads, lost answers, timeouts | one landing per operation; side effects after it, in order, none lost; escrow sends never by wallet |
| **Relay transport** (`relay/src/relay-api.ts`) | none | create request, read status, retry attempt | lost answers, refusal reasons | outcome classes |
| **Core prepared operations** (`core/src/operations.ts`, `prepare-privacy-operation.ts`) | the one-shot flag of a prepared operation | prepare (intent, dependencies, policy, network), execute | the flag is set before anything that can fail; two executes of one object | at most one submission per prepared operation |
| **Core state operations** (`core/src/state`) | a JSON tree | read and write by path, array filters, record handlers | paths that do not exist; a write that fails half way | a write is all or nothing |
| **State adapters** (`state/memory`, `state/redux`) | the tree, the bound store | register, bind, read, write, reset or hydrate | a write before the store is bound; a tree replaced under suspended calls | what is read is what was written last |
| **Prepare and execute** (`stellar/src/transact/engine`) | none of its own | pick notes, build outputs, sign, submit, commit to storage | a landed transaction whose commit fails, a failed one that is committed; abort signals; two executes sharing a note | the storage says what the pool has |
| **Private records** (`stellar/src/state/service/records`, `adapters/record-selection.ts`) | the list of notes of the wallet | save, upsert, mark, prune, list, balance, select for an amount | read-modify-write over two awaits | no note lost or resurrected; a selection covers amount and fee |
| **Merkle cache and sessions** (`stellar/src/transact/merkle`, `state/service/pool`) | commitments, root and nodes per pool; handles of native trees | sync, append, set, bind, extend, witness | count and root read at two ledgers; appends from two callers; handles dropped or replaced; a proving SDK that fails to load | the cache is a prefix of the chain; no use of a dropped handle; a witness of the synced list |
| **Registry lookups** (`state/service/registry`, `contracts/registry`, `client/network.ts`) | three containers per address, of two versions | check, register, resolve a recipient, invalidate | a cached address the recipient has replaced; reads that a write overtakes; registrations under way | a send goes to an address that was registered; an escrow only to who was not |
| **Wallet assets, deliveries and addresses** (`state/service/{assets,deliveries,registry/wallet-*}`, `client/hydrate-state.ts`) | catalog, deliveries, address records, scalars, default nonce | upsert, replace, mark, save, delete, hydrate | read-modify-write; hydration in many writes; restarts between them | nothing written is lost; a default nonce has its record |
| **KYT passages and confirmation** (`transact/kyt`, `transact/submit`, `rpc`) | none | inspect, register and wait; extend the circuit's entry and wait; send; wait for the result | bounded polling against a late transaction; sequence numbers of one account | the call comes after what it needs; an error is not taken for "did not happen" |
| **Submission routing and fees** (`transact/relay`, `transact/pool`, `transact/fees`) | none | choose wallet or relay; choose the circuit; quote a fee; package for the relayer | files that decide the same thing at different times | one nonce, one route, no value lost |
| **Escrow** (`transact/escrow`) | none | escrow sends, sweeps, their authorization; find escrowed notes | a recipient who registers meanwhile | the sweep's amounts and nonce agree |
| **Proofs and encodings** (`transact/proofs`, `zk`, `encoding`, `private-address`, `audit`) | none | inputs of a circuit: notes, legs, outputs, hints; encodings | change and fee slots next to each other | amounts, slots, hints agree |
| **Schemas and normalization** (`state/schemas`, `state/read`) | none | the operations of each call on the tree; readers of a snapshot | stores of older versions | - |
| **Relay serialization, generated bindings** | none | copies of fields; generated code | - | - |

Interactions.  The host application calls `relay` with a prepared operation of
`stellar` and with ports: the store, the relay API, `submitDirect` (which
executes the prepared operation with the wallet) and the three success effects
(`finalizeLocalState`, which updates private records and the Merkle cache;
`drainDeliveries`; `persistUserTransaction`).  `stellar` implements the network,
policy and storage adapters of `core`; its storage is the state service, which
reads and writes one tree through a state adapter.  Nothing runs in parallel:
all interleaving comes from awaits, and all loss from rejecting ports, from the
network and from reloads.

`PROJECT.json` lists the components with their files, and the hazards of the
code with the line where each bites and the properties that cover it.

## 2. Modules

| Module | Content |
|---|---|
| `PendingOperation` | the stored record of an operation, and the pure rules of `fallback-policy.ts`, `is-unfinalized-relay-operation.ts`, `applyStatus`, `withSucceededPhase` and the other rewrites |
| `Relayer` | external: the relayer (eight statuses, retryable failures, a success whose hash follows later) and the pool, which takes the nullifiers of an operation once |
| `RelayRuntime` | the runtime: one action per piece of code between two awaits, `Init`, `Next`, `Spec`, `FairSpec` |
| `OperationSettlement` | abstract: what the runtime promises about one operation |
| `RelayRequirements` | the properties |
| `MCRelayRuntime` | constants for TLC |
| `RelayRuntime_proof` | type correctness |
| `RelaySafety_proof` | truthful flags and escrow sends; the runtime implements `OperationSettlement`; for a host that makes one call at a time, repeated effects and reverted flags, the wallet against the relay, rejections |
| `RelayOwnership_proof` | ownership of completions |
| `PrivateRecords` | the private records of one wallet and one asset: what a save, an upsert, a mark and a prune make of the list, and the selection for an amount |
| `PrivateSpending` | preparing and executing deposits, transfers and withdrawals over these records; the pool; the host's upserts, prunes and reloads |
| `SpendingRequirements` | the properties |
| `MCPrivateSpending` | constants for TLC |
| `PrivateSpending_proof` | type correctness |
| `SpendingSafety_proof` | operations execute once; storage runs ahead of the pool only by calls that failed in their ledgers; coordinated commits; what a selection covers |
| `StateTree` | the tree of the adapters as containers by path; record and primitive operations; writes on a draft; reads that throw |
| `MerkleCache` | syncs, appends and writes of the cached commitments; native trees, sessions and witnesses |
| `RegistryCache` | lookups of private addresses: chain, cache, resolution of a recipient |
| `WalletStore` | assets, deliveries, addresses; both adapters, hydration, restart |
| `WalletState` | the three modules above in one state |
| `MCWalletState` | constants for TLC |
| `WalletState_proof` | no session leads to a dropped tree; the cached list is a prefix of its pool; an assessment finds its note; a witness is one of the synced list |
| `WalletBranches_proof` | the registry cache and the wallet's own branches: lookups that tell one story, resolved recipients, default nonces, writes that are kept |
| `ProofPlan` | one deposit, transfer, withdrawal or sweep: fee, nonce, legs, outputs, slots, hints, route, package |
| `ChainSubmission` | the transactions of a pool call: passage, extension, call, and every wait; the ledger |
| `TransactionPath` | the two modules above in one state |
| `MCTransactionPath` | constants for TLC |
| `TransactionPath_proof` | value, nonces, outputs, routes; order and sequence numbers of the transactions, and what the host is told of them |

### How `RelayRuntime` corresponds to the code

A *caller* is one chain of awaits the host has started: one call of
`submitPreparedPrivateOperation`, `submitAndAwaitPrivateOperation`,
`pollPendingOperation`, `awaitRelaySettlement`, `retryFailedRelayAttempt`,
`submitDirectFallback` or `resumePendingOperations`, with all it calls.  Its `pc`
names the await it is suspended on and its other fields are the local variables
that live across it (the record it read, the report it was given, the
transaction it completes, the attempt, the rest of the list).  `flow` tells where a
poll returns to: nowhere, to the settlement wait, or to the resume loop.

| pc | suspended on | action |
|---|---|---|
| `create`, `created` | `createRequest`; the save of the accepted record | `CreateRequest`, `SaveAccepted`, `RelayRefuses`, `LoseAcceptance` |
| `direct` | `submitDirect` | `DirectLands`, `DirectRefused` |
| `complete_read`, `complete`, `effects`, `effect_save`, `joined` | `completeSucceededOperation`: the read, the save of a record already complete, a side effect, the save of its flag, another caller's completion | `CompleteRead`, `Complete`, `RunEffect`, `SaveEffect`, `FinishCompletion` |
| `poll_read`, `poll_status`, `poll_save` | `pollPendingOperation`: `store.get`, `readStatus`, `store.put` | `PollRead`, `PollStatus`, `PollSave` |
| `timeout_save` | the save of `settlement_timed_out` | `SaveTimedOut` |
| `retry_read`, `retry_call`, `retry_save` | `retryFailedRelayAttempt` | `RetryRead`, `RetryAttempt`, `SaveRetried` |
| `fallback_read`, `fallback` | `submitDirectFallback`: the read; the user's consent | `FallbackRead`, `Fallback` |
| `resume_next` | between two operations of the resume loop | `ResumeNext` |

`inFlight` is `inFlightCompletions` with its key (operation, transaction).
`FinishCompletion` and `Throw` settle the shared promise for the runner and for
everyone who joined.  `PortFails` rejects whatever port call a caller is
suspended on; `Reload` loses callers, `inFlight` and submitters and keeps the
store, the relayer and the chain.

Abstractions: the wallet, display, snapshot and outbox fields of a record are
left out (no rule reads them); `relayRequestId` is a Boolean, since an operation has
one relay request; the three completion flags are the set `done`; a transaction is
the wallet's or the relayer's.  Waiting between two polls takes no state.  The
relayer's reason for a refusal is reduced to the phase it leads to.
`runs`, `submitted` and `walletAsked` record what happened; the code does not
read them (`submitted` makes operation identifiers unique, as the host does).

### How `PrivateSpending` corresponds to the code

A *caller* is again one chain of awaits: a call of `client.transfer` or its
siblings, of `execute`, or of `upsertPrivateRecords`.  `op` is the operation it
works on, `todo` and `list` are the records in its local variables.

| pc | suspended on | action |
|---|---|---|
| `list` | `storage.listPrivateRecords` in `selectPrivateRecords` | `ListRecords` |
| `check` | `checkNullifierSpent` of the next record | `CheckNullifier` |
| `select` | nothing more: the pick; a withdrawal is prepared, a transfer goes on | `Select` |
| `assert` | `assertPrivateRecordsNullifiersAvailable` of a transfer | `AssertAvailable` |
| `submit` | the wallet's signature, the policy service and the proof, up to sending | `Submit` (with `Prove`) |
| `await` | `signAndSend`, until the transaction is in a ledger, whatever became of it there | `Confirmed` |
| `save` | `savePrivateRecords` of the outputs | `SaveOutputs` |
| `mark_read`, `mark_write` | the read and the write of `markPrivateRecordsUsed` | `MarkRead`, `MarkWrite` |
| `upsert` | the write of `upsertPrivateRecords` | `Upsert` |

`Throw` rejects any of these awaits: a prepare leaves nothing, an executed
operation stays executed (`executionStarted` is set before anything else).  A
deposit has its note when it is prepared; the outputs of a spend get their coins
when the proof is made, at execution (`ProvenOutputs`).  A coin that is not a leaf of
the pool's tree cannot be proved (`FoundInTree`), so that a stored output of a call
that failed is selected but never spent.

What becomes of a transaction.  `sent` holds the transactions that are in no ledger,
yet or ever; `Land` and `Fail` move one to `landed` or `failed`.  `submitPoolTransact`
looks at the hash in the answer of `signAndSend` and at nothing else, and
`submitPreparedOperation` commits whatever was answered, so `Confirmed` asks for no
more than an answer.  When there is one is up to the contract client library, which is
external: it sends, polls, throws when the transaction was not taken or stays in no
ledger, and otherwise answers, for a transaction that failed too (only reading `.result`
would throw, and the code never reads it).  `Confirmed` therefore follows `landed` and
`failed`.  `ReturnHash` of `ChainSubmission` models the same lines and assumes even less
of the library, that it answers at any time after sending; its properties need no more.

Abstractions.  The stored array is modelled as `normalizePrivateRecords` reads it,
one record per commitment; the order of records with equal values, which depends
on hashes, is arbitrary.  A record has a key, an amount, the value of its coin and
`consumed`; other fields are left out.  Checking several nullifiers of a transfer
at execution, between which nothing is written, is one step.  The
wallet has a nullifier check configured, as the client always does; a withdrawal
names its recipient publicly, so that no record is made for the recipient;
nobody transfers to himself.  Escrow sends and operations handed to the relay are
not in this module.

`coordinated` is chosen at the start and never changes: a coordinated host makes
one call at a time and upserts only notes it has seen unspent, as
`docs/integration/backend.mdx:148` asks ("Keep operations for the same account
coordinated").

### How `MerkleCache` corresponds to the code

A tree is the sequence of its leaves, and so is its root: two lists have one root
only when they are equal.  `leafCount` is the pool on the chain, which grows by
pairs.  `cache` is the stored state of each pool; `sessions` and `handleOf` are the
two maps of `tree-session.ts`, `trees` what the native library holds.

| at | suspended on | action |
|---|---|---|
| `idle` | the caller: `syncPoolMerkleTree`; `appendPoolCommitments`; `setPoolMerkleState` | `SyncReadCount`; `AppendRead`; `SetWrite` |
| after the count, the root, the cached list | `fetch-contract.ts`, `fetch-leaves.ts`, `reuse-cached-commitments.ts` | `SyncReadRoot`, `SyncLoad`, `SyncLeafMissing` |
| after the list | `write-snapshot.ts`: nothing to write; the nodes; the write | `SyncUnchanged`, `SyncResolve`, `SyncWrite` |
| `returned` | the file handed to a spend, or the read of an assessed note | `BuildWitness`, `RereadForNote`, `AssessIncomingNote` |
| appending | the second read, the write, the read that binds a session | `AppendResolve`, `AppendReread`, `AppendWrite`, `ReadWritten`, `BindWritten` |

Every step that needs the proving SDK has two outcomes until the SDK is loaded.
`overlaps` records per pool whether calls ran side by side; the code does not read it.
A host hands over appended commitments without nodes, as the payload type in use
does; the ephemerals of leaves are left out (one key, written once).

### How `StateTree`, `RegistryCache` and `WalletStore` correspond to the code

`StateTree` keeps, for every path that has been written, the entries at it.  A write
applies its operations one after another to a draft, which then replaces the tree, so
it is one step; a write creates the containers on its way, a read does not and
throws where one is missing, which the services catch or not
(`CaughtRead`, `ReadThrows`).  An optional value is a set of at most one element.

`RegistryCache`: `CheckRegistrationStatus`, `ReadChain`, `SaveLookup` are
`checkRegistrationStatusWithEnvironment`; `ReadRegistryLookup`, `ReadLookup`,
`ReadFlag`, `ReadAddress`, `RereadAddress` are the reads of `lookup-read.ts`, one per
await, for its three callers; the resolution of a recipient goes on from them to
`ReadChain`.  `HostWrites` are the writes of `lookup-write.ts` a host makes by
itself.  `RegistryInit` includes trees of the version that had no lookups, whose
flag is `true` with an address or `false` without one.  `everOnChain`,
`registeredAtStart` and `overtaken` are history.

`WalletStore`: `UpsertAssets` and `WriteAssets` are the read and the write of
`upsertAssets`, `MarkDeliveryProcessed` and `WriteProcessed` those of
`markDeliveryProcessed`; `Hydrate` and `HydrateNext` make the writes of
`hydrateStellarPrivacyState` one by one; `BindStore`, `Persist`, `Restart` and
`HydrateBranch` are the adapters and the host around them.  The Redux adapter reads an
empty tree and refuses writes until it has its store.  A restart empties the tree
whatever adapter there is.  `ideal` is what the
calls made so far mean, `lapped` the containers a write may have reached that was
computed from an older read; the code has neither.

### How `ProofPlan` corresponds to the code

One operation from the request to the nonce it is sent under.  An operation of the
module is a function of the code (`DualTransferPlan` is `proofs/confidential/dual.ts`,
`WithdrawFeeFields` is `fees/withdraw-fee.ts`, and so on; the file is named in the
map), a slot of the proof is named by what it is for, and the refusal of the prover
or of a check is the field `refusal`.

| stage | action |
|---|---|
| `asked` | `PrepareDeposit` (with its proof), `SorobanDeposit` (proof and submission in one call), `QuoteFails`, `PrepareSpend`, `PrepareSweep` |
| `prepared` | `FinalizeTransfer`, `FinalizeWithdraw`: the proof at execution; `AskRoute` at any time after |
| `finalized` | `SubmitDirect`, `SubmitConfidentialTransfer`, `PackageForRelay` |

`RecipientRegisters` may happen between any two of them.  The shapes of the public
signals (`ProfileFromShape`) are compared with the number of signals that the
circuits' conformance vectors record.

### How `ChainSubmission` corresponds to the code

`at` names the await a submission is suspended on; each action makes the code up to
the next one, and each may throw.  `FetchLedger`, `PostKytInspect`,
`RegisterKytPassage` are `kyt/passage`; `BuildTransaction`, `SendTransaction` and
`PollTransaction` are the passage's and the extension's own transactions
(`submit.ts`, `poll.ts`, `zk-config-ttl.ts`); `CheckTtl`, `AssembleTransact`,
`RunTtlPreflight`, `SignAndSend`, `ReturnHash` are `pool-transact.ts`;
`PollConfirmation`, `FetchStatus`, `GetDetails` are what a host may ask later
(`rpc`); `SimulateSweep` is the authorization of a sweep.  `CloseLedger`,
`OtherTransaction`, `Include` and `Discard` are the ledger, external: it takes
transactions in the order of the account's sequence numbers, any of them may fail or
never be included, and a pool call needs an approval and a circuit entry that have not
expired.  A poll may answer that it does not know a transaction, or fail, at any time.
Left out are the content of the inspection request, the transaction by which
the preflight restores an archived entry (`ttl-preflight.ts:49-54`, made by the client
library) and a node whose `getAccount` lags behind the ledger: `OneSequenceEach` speaks
of the passage's, the extension's and the call's own transactions only, each built
from the account as the ledger has it.  The metadata of a successful call is one of three fixed
lists of events (`Metas`: the pool's own transfer after another one, after a fee and a
transfer without an amount, and in a version that is not read), so that what is proved
of the amounts a host is told is about these three.

### Why the compositions take their parts one at a time

`WalletState` has one state with the Merkle caches, the registry cache and the
store of the wallet, `TransactionPath` one with the plan and the submission of a
transaction.  The parts of `WalletState` write different containers of the tree
and call none of each other's operations; `ChainSubmission` passes the proof and
the nonce of `ProofPlan` on without reading them.  A property of one part cannot be
changed by a step of another, so a behaviour of the composition is one of any part,
chosen by `concern` or `phase`, the others at rest in one of their initial states.
The theorems are stated for the compositions and rest on the same fact: the steps
of the other part leave the variables of this one unchanged.

## 3. Properties and runs

Bounds are constants named in the configurations: `MaxCalls` polls, waits,
retries and fallbacks, `MaxFaults` rejecting port calls, `MaxReloads` reloads;
`EffectCap` stops the counting of effect runs.  Submissions and resumes are not
bounded (an operation is submitted once; a resume starts whenever something is
unfinalized).  `CHECK_DEADLOCK FALSE` in every run: when all operations are
settled and the bounds are used up the system has nothing left to do.

| Run | Instance | Checks |
|---|---|---|
| `RelayOverlap` | 2 callers on one operation, 2 calls, 1 fault, 1 reload | `TypeOK`; `InFlightOwned`: one caller runs a completion, nobody awaits a completion without a runner; `FlagsTruthful`: a stored flag is not ahead of its effect; `ImplementsSettlement`: refinement of `OperationSettlement` |
| `RelaySequential` | 1 caller, an escrow send and a plain operation, relay configured or not, 1 call, 1 fault, 1 reload | `EscrowNeverDirect`; `EffectsRepeatOnlyAfterLoss`: an effect runs again only after a reload or a fault; `FlagsNeverRevert` |
| `RelayLossless` | 1 caller, all statuses, 3 calls, 2 attempts per wait, 1 reload, no fault; `FairSpec` | `DirectExcludesRelay`: the wallet never submits what the relayer admitted; `RejectedNeverLands`; `RelaySuccessFinalized`: what the relayer carried out is finalized, whatever timed out or was reloaded before |
| `RelayProgress` | 2 callers on one operation, 1 call, 2 attempts, nothing lost; `FairSpec` | `CallsReturn`; `RelaySuccessFinalized`; `EffectsCompleted`: an operation that landed gets all its effects, however calls overlap |
| `RelayOverlapDrain`, `RelayReloadDelivery`, `RelayLostAnswer` | see *Findings* | expected violations |
| `SpendingOverlap` | 2 callers, 2 operations of any kind, notes of 3 and 2, amounts 2 and 4, required fees 0, 1 and 2, 1 received record, 1 reload; coordinated or not | `TypeOK`, with every amount and value a natural number; `AheadOnlyByFailedCalls`: a record is marked only when the pool has its nullifier or a call that failed in its ledger consumed it, and a record with a coin is a note of that value in the pool or an output of such a call; `ExecutedOnce`; `SelectionCovers`: a selection covers amount and estimated fee, and is refused only when no pair of records would do; `CoordinatedCommit`: with one call at a time an operation that landed and returned has its coins stored, nothing of what it consumed can be selected, and no initial note is forgotten, but for what was spent or a failed call consumed |
| `SpendingFailedCall`, `SpendingLostUpdate` | 1 caller and 1 operation; 2 of each; see *Findings* | expected violations |
| `WalletState` | 2 pools of 4 and 2 leaves, 2 overlapping calls, 3 calls in all (2 of them at most on the small pool); 1 recipient, 2 private addresses, 1 registration, 3 calls or writes, stores of both versions; 2 assets, 1 delivery, 2 nonces, both adapters, 3 calls, writes, hydrations or restarts | `HandlesLive`, `CachedListIsAPrefix`, `WitnessOfTheFile`, `AssessmentKeepsUp`; `RegistryContainersAgree`, `ResolvedWasRegistered`, `EscrowOnlyIfUnregistered`; `DefaultNonceHasRecord`, `WritesKept` |
| `TransactionPath` | all kinds of operations, one or two notes of 1, 2 or 4, amounts 0 to 5, fees 0 to 2, configured nonce none, 0, 3, 6 or 7; 1 submission, 3 ledgers, 1 other transaction of the account, 2 polls per wait | `ValueConserved`, `OutputsAgree`, `NonceAgrees`, `RouteMatchesLegs`; `CallComesLast`, `OneSequenceEach`, `ToldTheTruth`, `EveryWaitEnds` |

Why the bounds suffice.  Calls interact through the record of one operation and
through `inFlight`, both per operation, so overlap is explored with one operation
and two callers (a runner and one that joins, overtakes or overwrites it).  One
fault or reload can strike at every await; a second one after it meets a record
some prefix of a run could have left.  Two attempts per wait are the least for which a
wait loops.  `CoreStatuses` leaves out statuses no rule distinguishes from
`accepted` or `submitted`; the run in which the order of statuses matters has all of them.

In `SpendingOverlap`, of the estimated needs 3 and 5 the first is met by the larger
note alone, the second by both exactly, and neither by the smaller one alone; the
fees leave change, leave none, or (4 and 2 out of 5) cannot be paid, which
refuses the proof.  Two operations are the least that contend for a note.

`FlagsNeverRevert`, `EffectsRepeatOnlyAfterLoss`, `DirectExcludesRelay` and
`RejectedNeverLands` are stated for a host that makes one call at a time: with
overlapping calls the first two are false (first finding), and the others depend
on which record a stale writer holds.

`PrivateSpending` states no fairness: nothing in it is retried by the code, and its
properties are safety.

In `WalletState`, two pools are the least whose sessions can meet, and two calls the
least that overlap; with three calls a third one finds what the two left.  Four
leaves allow an empty cache, one that is a prefix, one that is complete and one that is
overtaken twice; the small pool has a single pair, with which the counts of the two
pools become equal.  One registration while calls are
suspended is what makes a cached address stale; `old` and `new` are the two
addresses it lies between.  Three uses of the store are the least for a call that is
overtaken by another and followed by a restart or a hydration.  Calls are
interchangeable (`Symmetry`).

In `TransactionPath` the values 1, 2 and 4 with amounts up to 5 and fees up to 2 give
every sign of the change, with and without a fee, for one note and for two (the
change is a linear function of the three, and only its sign decides); the configured nonces are
one for each layout, one without fee and public deposit, and one that has no circuit.
One submission is enough for properties of one submission, as others touch it
through the account's sequence number and the circuit's entry, which
`OtherTransaction` moves; three ledgers let an approval and an entry expire between
any two stages.

What some of the properties leave out: `ResolvedWasRegistered` leaves out a call whose
reads of the older containers were overtaken by a write, `WitnessOfTheFile` and
`AssessmentKeepsUp` calls that overlapped with another on the same pool, `WritesKept`
and `DefaultNonceHasRecord` containers that a stale write reached.  In each of these
the code promises nothing: it reads and writes in separate steps without a lock, and
TLC finds the loss as soon as the condition is dropped.

Two hazards of the relay are modelled and checked by no run.  A lost answer of
`retryAttempt` would have to show in `RelaySuccessFinalized`, whose runs lose no
answer.  That a failing poll abandons the rest of a resume takes a second
operation, and the runs about resuming have one.

Fairness (`FairSpec`): the event loop runs the continuation of every settled
await, and every port call settles (`WF` of `Continue`); the relayer processes
what it admitted (`WF` of `RelayerNext`; it may still fail or reject a request); the
host calls `resumePendingOperations` as long as something is unfinalized (`WF` of
`StartResume`), as `relay/README.md` asks it to.  Nothing is assumed of
`PortFails`, `LoseAcceptance`, `Reload`, of new calls, or of the user's consent.

`HostWaits` (TRUE in `RelayProgress`) says that the host does not call the
runtime for an operation whose submission has not returned.  Without it
`RelaySuccessFinalized` is false: an `awaitRelaySettlement` that gives up while
`createRequest` is under way saves the prepared record it read over the accepted
one, the request id is lost, and no resume finds the operation again.

Fairness of `TransactionPath`: the polls of a submission go on (`WF` of `Polls`, in the
phase of the submission), because a timer or an answer of the node wakes each of
them.  Nothing is assumed of the ledger, which may never include anything, of the
wallet's signature or of the KYT service; `EveryWaitEnds` is about the counters and
deadlines alone.  `WalletState` states no fairness: its properties are safety.

## 4. Findings

1. **Overlapping polls drain twice** (`RelayOverlapDrain`, `DrainedOnce`).
   `pollPendingOperation` saves the record it read before `readStatus`
   (`poll-pending-operation.ts:67`).  A poll that read before another completed the
   operation resets its flags, and completes it again.
   `routing-and-recovery.test.ts:81` says "does not re-drain when success polling
   overlaps"; its two polls read before either completes, and join.
2. **A reload after finalizing loses the deliveries** (`RelayReloadDelivery`,
   `FinalizedIsDelivered`).  `isUnfinalizedRelayOperation` looks at `finalized`
   only, so a resume skips an operation whose deliveries were not drained.
   `routing-and-recovery.test.ts:55` expects one drain after a reload.
3. **A lost answer offers the wallet** (`RelayLostAnswer`,
   `NoDirectWhileOnChain`).  When the answer of `createRequest` is lost, the record
   says `admission_failed`, and the fallback is taken while the relayer submits.
   `fallback-gating.test.ts:47` says "never offers direct fallback while submitted
   or reconciling".  The pool refuses the second transaction (the refinement holds).

4. **A call that fails in its ledger is committed** (`SpendingFailedCall`,
   `StorageFollowsChain`).  `pool-transact.ts:46` takes the hash and looks at nothing
   else, `browser-stellar.ts:37` makes it a receipt with `confirmed: true`, and
   `submit-prepared.ts:96-110` ends the confirmation stage without a wait and
   commits.  When a note was spent or an approval expired since the simulation, the call
   fails in its ledger, yet its outputs are stored and what it consumed is marked.
   `operation-lifecycle.mdx:89` says of the stage "`confirmation` | Wait for
   inclusion/finality", and `state-integration.mdx:24` speaks of "a successful
   **execute**".  The outputs can never be spent, but count in the balance; the
   consumed notes are unspent in the pool, and pruning forgets them until a restore.
   What does hold is `AheadOnlyByFailedCalls`: the storage is ahead of the pool by nothing else.
5. **Marking loses what was saved in between** (`SpendingLostUpdate`,
   `ReturnedOutputsStored`).  `markPrivateRecordsUsed` replaces the list by one it
   read before an await (`private-methods.ts:51`): the note of a deposit that
   returned in between is gone.  `state-integration.mdx:24` says "After a
   successful **execute**, the SDK updates the same cache (consumed records, new
   outputs, pool snapshot)".  The pool has the note, and a restore finds it.

Not a violation, but worth knowing: an upsert never looks at `consumed`, so a host
that overlaps an upsert with an execution can bring a spent record back
(`CoordinatedCommit` is stated for a coordinated host).  The nullifier check of the
next selection passes it over.

The amount of a change record leaves the required fee out (`changeAmount`,
`transfer-output-records.ts:19`), and nothing corrects it when the coin of the change,
which is worth the fee less, is added; when the fee takes all of the change, a record
without a note is stored.  `domain-model.mdx:49` says of `amount`: "Note value".
Balances are sums of `amount`, selections use the coin.  The records of the model have
both values (`ProvenOutputs`), and no run is spent on their difference.

Two more of this kind.  An append of the host (`merkle.ts:52`) that overlaps a
sync or another append writes a list that may have leaves twice or lack some;
`CachedListIsAPrefix` leaves out pools where that happened, and nothing repairs the
cache but a sync that finds a root that differs.  And a withdrawal or transfer has
no proof before it is executed, so that asking for its submission method right after
its preparation throws unless it is an escrow send; `RouteMatchesLegs` speaks
of the answers there are.

## 5. Proofs

All theorems are for arbitrary sets of operations, callers, pools, notes, owners,
assets and submissions and arbitrary bounds.  They rest on the assumptions named in
the modules (`OpsAssumption`, `RelayerAssumption`, `RuntimeAssumption`,
`SpendingAssumption`, `MerkleAssumption`, `RegistryAssumption`, `StoreAssumption`,
`PlanAssumption`, `SubmissionAssumption`), which TLC evaluates in the runs.  Most say
that a bound is a number and a set is one of numbers.  Two say more:
`SpendingAssumption` that the notes a wallet starts with are finitely many (they are an
array), and `StoreAssumption` that the name of a failed read is no nonce.

Four theorems have a hypothesis of their own:

- `WritesAreKept` (and with it `WalletBranches`) assumes `HydratedOnce`: a snapshot lists
  an asset once.  `replaceAssets` (`catalog.ts:37`) lists what it is given, so that a
  snapshot with an asset twice gives a list with it twice.
- `EffectsRepeatOnlyAfterLosses` and `FlagsAreNeverReverted` assume `OneAtATime`, one
  caller: with two the first finding is a counterexample.
- `DirectExcludesTheRelay` and `RejectedNeverLanded` assume `OneAtATime` and
  `AcceptanceKept`: no port call fails while the answer to an admitted request is under
  way or being saved; all other failures, reloads and timeouts may happen.  Without
  it the third finding is a counterexample.  The run `RelayLossless` has no failing port
  at all, which is the corollary `NoFaultNoLoss`.

| Theorem | States | Argument |
|---|---|---|
| `TypeCorrect` | `Spec => []TypeOK` | one lemma per group of actions; lemmas on the record rewrites and on the forms a caller takes |
| `FlagsAreTruthful` | `Spec => []FlagsTruthful` | `IInv` |
| `EscrowIsNeverDirect` | `Spec => []EscrowNeverDirect` | `IInv` |
| `SettlementIsImplemented` | `Spec => ImplementsSettlement` | `IInv`; each step is `Land`, `Perform` or a stutter |
| `EffectsRepeatOnlyAfterLosses` | `OneAtATime` implies `Spec => []EffectsRepeatOnlyAfterLoss` | `SeqInv` |
| `FlagsAreNeverReverted` | `OneAtATime` implies `Spec => FlagsNeverRevert` | `SeqInv`, step by step |
| `DirectExcludesTheRelay`, `RejectedNeverLanded` | `OneAtATime` implies `Spec /\ [][AcceptanceKept]_vars => []DirectExcludesRelay`, `=> []RejectedNeverLands` | `LossInv`, on top of `SeqInv` |
| `InFlightIsOwned` | `Spec => []InFlightOwned` | `Owned` of `RelayOwnership_proof` |
| `SpendingTypeCorrect` | `Spec => []TypeOK` (spending) | a lemma on selections and totals; the proof of a spend is made only when the notes pay for amount and fee |
| `OperationsExecuteOnce` | `Spec => []ExecutedOnce` | `Owned` of `SpendingSafety_proof` |
| `StorageAheadOnlyByFailures` | `Spec => []AheadOnlyByFailedCalls` | `Follows`, on top of `Owned` |
| `CoordinatedCommits` | `Spec => []CoordinatedCommit` | `Origins`, `OneOutcome` and `InTurn`, on top of `Owned` and `Follows` |
| `SelectionsCover` | `Spec => []SelectionCovers` | `FiniteLists`; lemmas on the largest record and on the totals of one and two |
| `CacheHandlesLive`, `WalletHandlesLive` | `CacheSpec => []HandlesLive`, `WalletStateSpec => []HandlesLive` | `CacheInv` |
| `CacheIsAPrefix`, `WalletCacheIsAPrefix` | `CacheSpec => []CachedListIsAPrefix`, `WalletStateSpec => []CachedListIsAPrefix` | `PrefixInv` |
| `AssessmentSeesTheNote` | `CacheSpec => []AssessmentKeepsUp` | `FreshInv`, on top of `PrefixInv` |
| `WitnessFollowsTheFile`, `WalletWitnessFollowsTheFile` | `CacheSpec => []WitnessOfTheFile`, `WalletStateSpec => []WitnessOfTheFile` | `WitnessInv`, on top of `CacheInv`, `PrefixInv` and `FreshInv` |
| `RegistryAgrees`, `TransferFindsARegisteredAddress`, `EscrowIsTheLastResort`, `WalletRegistry` | the registry's specification and `WalletStateSpec` imply `[]RegistryContainersAgree`, `[]ResolvedWasRegistered`, `[]EscrowOnlyIfUnregistered` | `RegistryInv` |
| `DefaultIsKnown`, `WritesAreKept`, `WalletBranches` | the store's specification and `WalletStateSpec` imply `[]DefaultNonceHasRecord` and, with `HydratedOnce`, `[]WritesKept` | `StoreInv` |
| `TransactionConservesValue` | `TransactionSpec => []ValueConserved` | `PlanInv`: a lemma per kind of plan says that it balances |
| `NoncesAgree` | `TransactionSpec => []NonceAgrees` | `NonceInv` |
| `RouteFollowsLegs` | `TransactionSpec => []RouteMatchesLegs` | `RouteInv`, on top of `NonceInv` |
| `OutputsAlwaysAgree` | `TransactionSpec => []OutputsAgree` | `OutputsInv`: a lemma per kind of plan |
| `HostIsToldTheTruth` | `TransactionSpec => []ToldTheTruth` | `TruthInv` |
| `PoolCallComesLast`, `SequencesAreOwn` | `TransactionSpec => []CallComesLast`, `=> []OneSequenceEach` | `SubmissionInv` |

`IInv` (`RelaySafety_proof`).  `FlagsTruthful` is not inductive: a save writes
what some caller holds, and a caller holds what it read earlier.  `IInv` says of
each suspended caller that the flags it holds are truthful, that a hash it was told
and a completion it is in belong to an operation that landed, and that it asks
the wallet for no escrow send; and of the relayer that what it reports as
succeeded landed.  The stale write of finding 1 keeps the invariant because effects
are never undone: an old truthful record is still truthful.

`SeqInv` (`RelaySafety_proof`).  How often an effect ran is compared with the losses so far,
which no step relates.  `SeqInv` adds that an effect which ran once more than there
were losses has its flag in the store or in the hands of the call that is saving it,
and that what a suspended call holds carries every flag, and the request, of the record
that is stored: with one call nobody writes in between.  A lemma (`Moves`) says of any
step what it may store and go on with.

`LossInv` (`RelaySafety_proof`).  The wallet is asked on the word of a record, and the
record may lag behind the relayer.  The invariant relates the three: as long as an
operation can be submitted, the store knows of the request the relayer has, or a call is
about to save it; what a call holds as rejected was rejected by the relayer or never
reached it, and the wallet was not asked; what landed was carried by the one whose
transaction it is.

`Owned` (`RelayOwnership_proof`).  A caller decides to join or to run by looking
at `inFlight`, which `InFlightOwned` does not mention; `Owned` adds that
`inFlight` holds exactly the keys of the running completions and that whoever
joined waits for one of them.

`Owned` (`SpendingSafety_proof`).  That two callers do not execute one operation
rests on the phase of the operation, on no second caller preparing it, and on
nothing that was sent being `prepared` again; the conjuncts say so.

`Follows`.  `AheadOnlyByFailedCalls` is not inductive either: `MarkWrite` writes a list
read long before.  `Follows` says that such a list was ahead of the pool by failed
calls only when it was read (what is spent or failed stays so), that outputs are saved
unconsumed, and that an operation that landed has put its outputs and nullifiers
into the pool, so that a call that commits has either landed or failed.

`Origins`, `OneOutcome` and `InTurn` (`SpendingSafety_proof`).  `CoordinatedCommit` says that
an operation that landed and returned has its outputs stored or spent and nothing it
consumed selectable.  That a later save, mark or upsert does not undo this needs to be
known of the keys of records: `Origins` says where each key comes from (an initial note,
an output of one operation, a received note, a record without a coin), so that outputs of
different operations never meet, and holds for any host.  `OneOutcome` says that a
transaction has one outcome and, once it has, is not sent any more.  `InTurn` says for a
coordinated host that there is one call, that the list it is about to write is the
stored one with its outputs, and that what it will upsert was consumed by no operation
that landed and returned.

`FiniteLists`.  `SelectionCovers` speaks of the largest records, which infinite sets
need not have; the invariant says that every list stored or held is finite.  That a finite set
of records has a largest is cited from the well-foundedness of strict inclusion, not
from an induction.

`CacheInv` (`WalletState_proof`).  `HandlesLive` is not inductive: binding a new tree
drops the handle of the pool's old session and deletes the old key, which
would leave a live key with a dead handle if two keys had one handle.  `CacheInv` adds that
a handle is never given twice (handles are counted by `imports`) and that the handle of
a session is found under that session's key and no other.

`PrefixInv` (`WalletState_proof`).  What is written to the cache was computed from lists
and counts read several steps earlier.  The invariant says, of each pool that no overlapping append
has written, that what is stored is a prefix with the root of a list at least as
long; that a sync holds the list of its own count, whatever the cache was when it
read; and that an append holds the leaves that follow what is stored, which nobody
changes, since it is alone on the pool.

`FreshInv` (`WalletState_proof`).  On a pool where no call overlapped there is one call at
most, so that the count of its sync is the one it began with, what it read of the cache
is what is stored, and what it left there reaches as far as that count.

`WitnessInv` (`WalletState_proof`).  A witness is found by a key made of a length and a root or
of the two ends of a list, and another pool's list may have that key's length.  `OriginInv`
says that what is stored or held of a pool is made of its own leaves, even where writes
overlapped, so that a key tells its pool; `TreesRight` that the native tree of a key is the
list the key speaks of, wherever no call on that pool overlapped; `SoundInv` that stored
nodes are those of the list they are stored with, and what the one call of a pool holds so
that its next save or binding keeps that.  The last two speak of pools where no call
overlapped, as `WitnessOfTheFile` does: only there is what a call read still what is stored.

`RegistryInv` (`WalletBranches_proof`).  The three containers of an owner are written together,
but read one after the other.  The invariant says that they tell one story of each owner
(`TellsOneStory`), that what a call will save was read of the chain, and that the flag a call
read is still the stored one unless a write overtook it.  A save is a list of operations
on a draft; lemmas say what each of the lists the services write leaves to be read.

`StoreInv` (`WalletBranches_proof`).  The properties are about the tree after any restart and
hydration, so the invariant is stated of the tree, of the branch the host saved and
of every suspended call: a call that is not behind holds what the tree has, a
hydration at step k has left the records of its first k - 1 writes, and the containers
a stale write reached are those `lapped` names.

`PlanInv`.  A plan is balanced when notes and public deposit are what outputs
and public withdrawal take; each constructor of a plan is shown to make balanced ones or
to refuse, for all amounts.  Nothing is carried from step to step but the plan itself.

`OutputsInv`.  Every plan fits its intent: values, slots and hints agree, and a refusal is
one of the amount.  The lemma that a change has a recipient, and that a circuit has a slot for
each output, is the one that needs the nonce to have been raised by the fee.

`NonceInv`.  The nonce of a submission is computed again by another function than
that of the proof.  The invariant says that the artifacts of every stage are those
their intent calls for, with the flags of the preparation or of the execution, and that the
two functions agree on such artifacts; a recipient who registers in between
changes neither.

`RouteInv`.  The route is decided from the flags when there are any, and from a signal of the
proof otherwise; the invariant says that the flags were stamped from the intent,
and a lemma that the position of the public deposit is found for every supported nonce.

`SubmissionInv` (`CallInv` of each submission).  A submission's stage says which of
its transactions succeeded (`StagesInOrder`), its transactions carry numbers that rise
and a used number is not above the account's (`SequencesRise`), and from the check
on the entry lives as long as the check asked (`EntryLives`), since others only extend it.
It is stated for an arbitrary ledger state and record of a call, so that steps of
the ledger and of other submissions are one lemma each.

`TruthInv`.  What a host is told was computed from a transaction's status at an earlier
time, and from the events of its whole metadata.  The invariant says that a final status is
that of the pool call (a status that is final does not change), that nothing has been told
before the confirmation, and that of the transfers in the three event lists only the pool's
own is counted.

Each of these invariants was checked by TLC on the instance of its run before it was proved.

Only model-checked: the liveness properties `CallsReturn`, `RelaySuccessFinalized`,
`EffectsCompleted` and `EveryWaitEnds`.  They need fairness and `ENABLED`, which are
outside the prover's reach.  What a fold over a list of arbitrary length computes would
need an induction over data, and is not proved either; the writes of the services are
lists of at most three operations, and the lemmas of `WalletBranches_proof` speak of these.

## 6. Not modelled, and what remains

Left out of modelled parts, and why:

- balances, transaction statuses and the delivery sync state, and the ephemerals of
  leaves: one write by key each, which `StateTree` covers;
- array filters, path parsing, trimming and the normalization of values: wording and
  shapes, except where a reader decides by them (legacy lookups, a missing catalog);
- a registered flag of an older store that is an object, and a Redux adapter bound a
  second time with another `reducerPath`;
- finding and opening escrowed notes in the events of the pool: the control is a loop
  over events, and what matters in it is cryptographic;
- the content of the KYT request beyond the nonce, and the bytes of a relay package.

What remains to be done:

1. The composition of `RelayRuntime` with `PrivateSpending`: `finalizeLocalState` as a
   commit, and an abstract specification of a note (unspent, spent or in doubt)
   that both implement.
2. The array operations of the core with their filters, checked against
   `PrivateRecords`.

Left out for good: proof circuits, keys, encodings, validation schemas, wording, URL and
JSON handling, relay serialization and the generated contract bindings: data without
control, and nothing a model of the control would tell apart.
