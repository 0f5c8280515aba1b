# TLA+ verification of openmina

This directory holds a formal model of openmina: of the core of the node, a Mina
node written in Rust, and of the web front end that watches and drives nodes, an
Angular application. There are TLA+ modules translated from the source,
configurations for TLC, theorems proved with TLAPS, and `PROJECT.json`, which
maps every definition to the lines it models.

## 1. The system

### The node

A node is a Redux store (`node/src/reducer.rs`). One thread takes events from
services (p2p, ledger manager, verifiers, the clock), turns each into an action
and dispatches it. An action runs only if its *enabling condition* holds
(`is_enabled`); its reducer changes the state and dispatches further actions,
which are filtered by their enabling conditions in turn. Everything an event
causes in the store therefore happens in one go; what is concurrent with it are
the services: the ledger manager has a thread of its own, verification runs in
a thread pool, peers answer when they like.

Three consequences shape the models:

* an event and its whole cascade of actions is **one step**;
* a request to a service and its answer are two steps with anything in between;
* an action that is not enabled is **silently dropped**. Most of what can go
  wrong follows from this: the dispatch that should have started something was
  refused, and nobody repeats it.

### The front end

The front end (`frontend/src/app`) is an NgRx application. A *reducer* changes
the store synchronously; an *effect* is a stream of actions that sends HTTP
requests through a service and dispatches their answers; a *component* listens
to parts of the store and keeps a copy of what it shows. There is one thread,
but requests, timers, debounces and the user interleave freely, and what happens
to a request when another one follows depends on the operator of the effect:
`switchMap` cancels it, `mergeMap` lets both run. What shapes the models:

* a handler is **one step**: the reducer, the effects that run at once, and what
  the components do with the new state;
* an answer is delivered only while its request is subscribed to: an effect is
  the **set of the requests** it is subscribed to;
* flags such as `waitingForServer` and `pendingRequest` keep a timer from asking
  twice; they live beside the store and are cleared by other handlers than those
  that set them;
* components copy the store, and compare what is new with their copy.

### Inventory

| Component | State | Operations | Talks to | What is hard | What makes it correct |
|---|---|---|---|---|---|
| Synchronization (`transition_frontier/sync`) | phase, target tip and root, chain with a state per block, attempts per block and peer, pending snarked ledger updates | `BestTipUpdate`, `LedgerStakingPending` … `LedgerRootSuccess`, `BlocksPeersQuery`, `BlocksPeerQuery*`, `BlocksFetchSuccess`, `BlocksNextApply*`, `BlocksSuccess`, `CommitInit`, `CommitSuccess` | ledger writer, peers, candidates, best chain | the target changes at any point of every phase; answers for the old target arrive late | never waits for an answer that will not come; never forgets work; ends; only moves to better applied chains |
| Best chain (`transition_frontier`) | best chain, blacklist | `GenesisInject`, `Synced`, `SyncFailed` | synchronization, producer, pools | changes in another step than the ledgers it is based on | always a K+1-suffix of a branch, atomically replaced by a better one |
| Ledger synchronization (`sync/ledger`) | ledger being fetched: snarked, staged | `Init`, `SnarkedSuccess`, `PartsFetch*`, `ReconstructInit`, `ReconstructSuccess` | peers, ledger service | retargets keep or drop what was fetched | staged ledgers are rebuilt on the snarked ledger they belong to |
| Candidates (`transition_frontier/candidate`) | received blocks ordered by fork choice, with a status; hashes known to be invalid | `BlockReceived`, `BlockPrevalidate*`, `BlockSnarkVerify*`, `BlockChainProofUpdate`, `SyncTargetUpdate`, `Prune` | p2p, block verification, synchronization | verification answers arrive after pruning or invalidation; the order is the consensus order | only verified blocks become targets |
| Block verification (`snark/block_verify`) | table of jobs | `Init`, `Pending`, `Success`, `Error`, `Finish` | candidates, verifier | table slots are reused | an answer reaches the job it is about |
| Ledger writer (`ledger/write`) | the one request being executed | `Init`, `Pending`, `Success` | four clients, ledger service | `Init` is refused while busy | answers reach their owner; no client starves |
| Ledger service (`ledger/ledger_service.rs`) | snarked and staged ledgers, main and sync copies | copy, reconstruct, apply, commit, recreate, diff create | ledger writer | a commit drops ledgers others rely on; errors are unwrapped | no panic is reachable; a committed chain has its ledgers |
| Block producer (`block_producer`) | produced block's stage, parent | `WonSlotProduceInit`, `StagedLedgerDiffCreate*`, proof, injection | VRF evaluator, ledger writer, best chain | the parent may be gone when the ledger service gets to it | builds only on existing ledgers |
| VRF evaluator | epoch data, slots won | evaluation per slot and account, epoch roll-over | ledger reader, best tip | epoch data changes under it | evaluates every slot once |
| Fork choice (`core/src/consensus.rs`) | none | `consensus_take` | all of the above | relative window density | a decision both sides agree on |
| SNARK pool, external worker | jobs, commitments, snarks, worker state | add, commit, time out, produce | p2p, best chain, worker process | timeouts race with results | work is neither lost nor done for nothing |
| Transaction pool | pooled commands, pending verifications | candidates, apply diffs, rebroadcast | verifier, ledger service, best chain | best tip changes between request and answer | pool matches the best tip's ledger |
| P2P (`p2p`) | peers, connections, channels, pubsub, kademlia, yamux | per protocol | network, everything above | messages out of order, limits, disconnections | one outstanding request per channel, bounded buffers |
| Front end: network messages | list with its mode (live, paused, page, filter, interval), side panel; `streamActive` and `waitingForServer` of the effects | go live, pause, page, filter, interval, row, tab, open, close, timer, answers | debugger of the node | the flags of the effects mirror the store; answers of other rows; ids that are missing | the timer follows what is shown; the footer knows its pages; no tab stays blank |
| Front end: other network pages | blocks, connections, DHT peers with their line, bootstrap requests, peers and links with their graph | poll, filter, sort, select, close, split and merge the network | debuggers of all nodes | pages are left with requests in flight; lists shrink and grow under drawings | requests match their flags; drawings match the lists; firewalls keep the halves apart |
| Front end: nodes | status per node, sync attempts, tips with their events | poll all nodes or one, select, sort, filter, change of the node | nodes, node picker | answers in any order, after the change of the node or of the page | one row per node; selections are rows; times and stages in order |
| Front end: block production | epochs and slots, won slots, map, countdown | page through epochs, filter, select, change of the node | node | parts of an epoch come in three answers | parts shown together belong together |
| Front end: snarks, state, mempool, benchmarks | jobs and details, scan state, actions per slot, pooled transactions, wallets and batches | poll, search, filter, sort, select, send batches | node | details of what was left; search fields that write back; nonces of batches | what is shown is the last answer under the present filters; batches on their way together do not share a nonce |
| Front end: resources, fuzzing | profiled memory tree with breadcrumbs and treemap; directories, files, details of a file | choose a resource or a granularity, poll, search, sort, select | profiler of the node, fuzzing server | trees and lists are exchanged under what was chosen in them | breadcrumbs lead through the tree that is shown; table, treemap and details are of one directory and one tree once the answers are there |
| Front end: frame | nodes, active node, status, menu, dashboard | pick, add, delete a node, menu, timers, reload | node, local storage | status of the node before; timers whose period changes | the status catches up; what is stored is what is shown |
| Ledger library, proofs, messages | accounts, scan state, circuits | sequential algorithms | ledger service | size | not about interleavings |

`PROJECT.json` lists the same parts, each with its sources, and the hazards of
the code at their lines, with the properties that would catch them.

## 2. The modules

| Module | What it is |
|---|---|
| `BlockTree` | blocks, heights, chain proofs, the fork choice as a rank |
| `Frontier` | abstract specification: what the best chain promises |
| `TransitionFrontierSync` | synchronization, ledger writer, ledger service, best chain, block requests, and the producer's use of the ledger service |
| `MCTransitionFrontierSync` | block trees for TLC |
| `TransitionFrontierSyncProofs` | theorems about `TransitionFrontierSync`: requests and types; the chain, its ledgers, its target, and the refinement of `Frontier` |
| `Consensus` | fork choice and the consensus state of a new block, as operators |
| `ForkChoice` | the block trees producers can build, and what fork choice promises about them |
| `ForkChoiceProofs` | theorems about `ForkChoice` |
| `PendingRequests` | the table of pending requests, as a value |
| `TransitionFrontierCandidate` | candidates and block verification, using `Consensus` and `PendingRequests` |
| `TransitionFrontierCandidateProofs` | theorems about `TransitionFrontierCandidate` |
| `MCTransitionFrontierCandidate` | blocks with their consensus states for TLC |
| `Rxjs`, `Layout`, `RustService` | what the pages of the front end share: requests of an effect; router outlet, loading bar and tables; the node that is asked |
| `LayoutProofs` | lemmas about `filter`, `sort` and `find` of the tables, and about recursive functions |
| `NetworkMessages`, `NetworkMessagesPage` | the page Network > Messages: table and footer; the side panel, and both |
| `NetworkMessagesProofs` | theorems about `NetworkMessagesPage` |
| `NetworkBlocks`, `NetworkConnections`, `NetworkNodeDht`, `NetworkBootstrapStats`, `NetworkSplits` | the other pages of the section Network |
| `NodeTips`, `NodesOverview`, `NodesBootstrap`, `NodesLive` | how a status becomes tips, ledgers and blocks; the pages of the section Nodes |
| `BlockProduction` | the pages of the section Block Production |
| `SnarksWorkPool`, `ScanState`, `StateActions`, `Mempool`, `BenchmarksWallets` | the pages of these names |
| `MemoryResources`, `Fuzzing` | the page Resources > Memory; the page Fuzzing |
| `Dashboard` | nodes, status, node picker and menu; the dashboard |
| `NetworkPages`, `NodePages`, `ToolPages` | compositions of the pages: one store, one outlet, one loading bar, one active node |
| `NetworkPagesProofs`, `NodePagesProofs`, `ToolPagesProofs` | theorems about these compositions |
| `MCNetworkPages`, `MCNodePages`, `MCToolPages` | small answers of the servers for TLC |

### BlockTree

A block is an opaque value; what the code reads from a header is a function of
it. `ChainOf(t)` is a chain proof: `t`, the block `K` below it (the root) and
the hashes in between. Fork choice is a strict order given by `Rank`. The
assumptions say only that parents are one lower, that ancestors form a chain
and that a block is preferred to its parent, which `ForkChoice` checks of the
real rule. That tips have a rank leaves out the cyclic case of section 5.

### TransitionFrontierSync

Three variables. `node` is the store, `ledgers` the ledger service, `rpc[p]`
the block peer `p` is working on. Actions of the code that run within an event
are operators from stores to stores with the name of the action
(`BlocksNextApplyInit(n)`, `CommitInit(n)`, ...): the enabling condition is the
`IF`, the reducer the `EXCEPT`. An event composes them in the order in which
the code dispatches them.

| Field of `node` | Code |
|---|---|
| `best_chain`, `blacklist` | `TransitionFrontierState::best_chain`, `blacklist` |
| `sync` | the variant of `TransitionFrontierSyncState`; variants left in the step that enters them (`StakingLedgerSuccess`, `CommitSuccess`, ...) do not appear, `BlocksSuccess` does |
| `tip`, `root`, `root_updates` | `best_tip`, `root_block`, `root_block_updates` of the ledger phases |
| `ledger` | `TransitionFrontierSyncLedgerState`: what is fetched and for which root |
| `chain[b]` | `TransitionFrontierSyncBlockState` of `b`, `"None"` if not in the chain |
| `attempts[b][p]` | `PeerRpcState` of `p` in the `FetchPending` state of `b` |
| `updates` | `root_snarked_ledger_updates` |
| `writer` | `LedgerWriteState`: `Idle` or the request being executed |
| `producer` | the producer's stage and `BlockProducerWonSlot` parent |

Chains are sets of blocks: a chain proof is a linear segment, so its order is
the order of heights.

| Action | Event in the code |
|---|---|
| `BestTipUpdate(t)` | a better tip was verified or produced: `Retarget` is the reducer's case distinction over phases, `Prepare` the copy of ledgers in the effects, then blocks are asked for and the next block is applied |
| `SnarkedLedgerSynced` | the merkle tree of the wanted ledger is complete: next phase |
| `StagedLedgerPartsFetched` | a peer sent the parts of the root's staged ledger |
| `BlockRpcSuccess(p)`, `BlockRpcError(p)`, `PeerReady` | the block asked for arrives; an error or a timeout; the rpc channel is free |
| `BlockRpcUnusable(p)` | a peer of `Faulty` answers with a block that cannot be hashed, or with another one: the handler returns, or `BlocksPeerQuerySuccess` is not enabled; the channel is free and the attempt stays pending |
| `PeerDisconnected(p)` | a peer is gone, and with it all attempts that are pending there, also the ones left by an unusable answer |
| `WonSlotProduceInit` | the producer's slot has come |
| `BlockApplyDone`, `CommitDone`, `ReconstructDone`, `DiffCreateDone` | `LedgerWriteAction::Success` with its owner's reaction, followed by `AfterWrite`, the four dispatches that offer the writer to each client |

The ledger service is modelled by which ledgers it holds, in the main maps and
in the sync maps: a snarked ledger is `"Absent"`, `"Partial"` (a copy of
another ledger, waiting for the difference) or `"Full"`. Every `unwrap`,
`expect` and `panic!` on the way sets `ledgers.panic`, and a panicked node does
nothing more.

Abstracted: ledger contents, transactions, the scan state (a ledger can be
recreated if the service has the staged ledger of the block), the order in
which merkle nodes are fetched, times (a timeout is an error at any moment),
slots and VRF outputs (whether the producer discards its block is a free
choice), the archive. Which peers are asked for blocks (the code takes those whose
best tip is our target, `sync_actions.rs`:288-292 and 308-312) is a free choice among
those that are not busy. Whether an answer can be unusable is a property of the
peer, `Faulty`, a set the node knows nothing of.

### Frontier

`best_chain` is always `ChainOf(t)` for some `t`; it changes in one step to a
better tip whose new blocks the ledger accepted, or which was a bootstrap root.

### Consensus and ForkChoice

`Consensus` has an operator for each function of `core/src/consensus.rs` that
decides between blocks, and `BlockUnprovenBuild`, the part of the block
producer that computes what fork choice reads: height, epoch count, lock
checkpoints, window densities. `ForkChoice` grows a tree from genesis: a step
adds a block on any known parent, in any slot not before the last one.
Hashes and VRF outputs are numbers, since only their order counts; the genesis
state has the values of `block/genesis.rs`.

The two grace periods are two constants because the code has two: `1440` in
`consensus.rs`, and `grace_period_end` of the consensus constants, which the
producer uses.

### TransitionFrontierCandidate

`node` has the candidates' store (`ordered`, `invalid`), the jobs of block
verification, what the synchronization contributes (`best_tip`, `target`,
`committing`, `blacklist`) and the current slot; `verifying` is what the
verifier's threads are working on.

| Action | Event in the code |
|---|---|
| `P2pBestTipUpdate(b)` | a peer announces `b`: `BlockReceived`, `BlockPrevalidateSuccess` or `Error`, and `SnarkBlockVerifyAction::Init` with its `on_init` callback and `Pending` |
| `VerifierAnswer(v)` | `SnarkBlockVerifyAction::Success` or `Error`, the job's callback, `TransitionFrontierSyncTargetUpdate`, `Finish` |
| `BlockChainProofUpdate(b)` | a peer answers with its best tip and the proof of its chain |
| `CheckTimeouts` | the periodic action, which repeats the update of the target |
| `CommitInit`, `Synced`, `SyncFailed` | the synchronization commits its target, is done (followed by `Prune`), or gives up |
| `Tick` | the clock |

The `BTreeSet` is modelled by how its search works (`search`, `insert`,
`remove`: from the left with `cmp` within one node of at most 11 elements),
because `cmp` is `consensus_take` and need not be an order. `cmp` uses the
consensus states of `BlockUnprovenBuild`, not a rank. A run or a behaviour with more
than 11 candidates at once, where the tree would get a second level, is outside the
model. In the job table the
counter wraps around at `CounterSize`, 2^64 in the code.

Abstracted: how blocks are serialized and verified (`ValidProof`,
`WellFormed`), the synchronization between target and commit, and the guard of
`BestTipUpdate` for a node that is producing a block.

### The pages of the front end

A page has a variable for its slice of the store (`mempool`), one for the
requests its effects are subscribed to (`mempoolReq`), and, where the code has
them, one for the flags of the effects (`...Fx`) and one for what its components
keep (`...Page`, `...View`, `...Panel`, `...Url`). Operators with the suffix
`Reduced` are cases of the reducer; operators named after a function of the
source are that function; actions are handlers:

| Kind of action | Examples | Code |
|---|---|---|
| the page opens, closes, hears of another node | `BlocksOpen`, `MempoolClose`, `BootstrapNodeChange` | `ngOnInit`, `ngOnDestroy` and the subscription to the active node, with the actions they dispatch |
| a timer | `Tick`, `MempoolTick`, `AppTick` | `timer(...)` of an effect or a component; when it fires is open |
| an answer, a failure | `GetBlocksSuccess`, `GetPeersError` | the inner observable of the effect, the case of the reducer, and what components do with the new state |
| the user | `ToggleFilter`, `selectPeer`, `SendTxs` | the method of the component |

`switchMap` and `mergeMap` act on the set of requests as in RxJS;
`catchErrorAndRepeat` ends all of an effect's requests, because the code puts
`catchError` and `repeat` around the whole stream. A request remembers what the
code's closure remembers (the height, the slot, the node, a state read when it
was sent). Marks such as `stale` or `overtaken` are history: they are written,
and only properties read them.

A reducer that throws ends the store: no later action is reduced. The model
then is on the page `"ended"`, from which only `Reload` leads back. The cases the
code has (sorting events before a tip is there, actions whose slot failed to
load, a change of the node between details and slots of an epoch) are modelled
and not claimed away.

A *session* is the set of pages visited before the application is reloaded. Pages
share nothing but the outlet, the loading bar and the active node; sessions keep
the product of independent pages out of the state space and leave every
interleaving within a page, of a page with changes of the node, and of the four
small pages of the section Network with each other. Loops of the code whose length
depends on the data (the search over links in `splitThePeers`, the grouping of
actions) are recursive functions over the number of turns, with a bound on the turns
that the proofs show to be enough.

Abstracted: wording, layout and drawing, except where an element is updated in
place (the line of the DHT, the graph of the topology, the map of slots, the tree
of a scan state); URLs, as far as nothing is read from them; derived numbers that
nothing else depends on; signatures and keys of the benchmark's transactions (whether a batch can be signed is not).

## 3. The runs

The first three runs use `MCTransitionFrontierSync`; the others a module of
their own. The node may legitimately stop (no better tip is announced and
everything is answered, or the process has panicked), so deadlock is not checked
in its runs; `NoLostWakeup` and `SyncCompletes` say what must not get stuck. In
the runs of the front end deadlock is checked: the user can always do something.

| Run | Instance | Checks |
|---|---|---|
| `Forks` | two branches of a tree of eight blocks, K = 3, the tip of the better short one does not apply, any order of announcements, two blocks fetched at a time from two peers, one of them faulty | `TypeOK`, `PendingHasRequest`, `NoLostWakeup`, `AppliedHaveLedgers`, `SyncTargetSound`, `PendingQueries`, `FrontierRefinement` |
| `Epochs` | a branch over two epoch boundaries, a snarked ledger per block, the tips a6, a7, a8 | `CopyOriginPresent`, `ReconstructSucceeds`, `CommitRecreatesRoot`, `CommitKeepsLedgers`, `NextEpochLedgerPresent` |
| `Liveness` | a smaller tree of this kind (`SmallForks`) with K = 3, an honest and a faulty peer | `SyncCompletes` |
| `ForkChoice` | trees of five blocks over three epochs of 12 slots, windows of two sub-windows of two slots, two VRF outputs | `NodesAgree`, `ExtensionsTaken` |
| `Candidates` | six blocks: two branches, one of which does not apply, an invalid proof, another network; three slots; a counter of three values | `TypeOK`, `PendingHasJob`, `AnswersReachJob`, `OnlyValidTargets`, `WorstToBest`, `NothingBetterLost`, `BestBlockReached` |
| `Messages` | three messages, pages of two, one filter, one interval, two rows, routes with and without parameters of the page | `StreamMirrored`, `TableSound`, `PanelFills` |
| `NetworkPages` | two heights, two to three answers per page, two topologies of three peers, one of them connected, opened with and without the address of a peer in the route | `RequestsSound`, `ListsSound`, `SplitsSound` |
| `NodePages` | two nodes and one added by the user, two statuses, two epochs of two slots, three lists of won slots, two granularities, two profiled trees, two directories of files | `NodeSelectionsSound`, `LedgersInOrder`, `NodeRequestsSound`, `EpochSound`, `WonSound`, `ReportsSound` |
| `ToolPages` | two nodes, two answers per page, batch fields that are left empty (0) or say three, for two wallets, payments that can and cannot be signed, four statuses for the dashboard, one custom node stored from before and one added, which may share a name | `SnarksSound`, `ActionsSound`, `WalletsSound`, `MempoolSound`, `FrameSound`, `StatusCatchesUp` |

Properties of a page with `Sound` in their name are conjunctions of named parts,
each with its comment in the module (`MempoolSound` is `MempoolFiltered`,
`MempoolAsksActive` and `MempoolSearchShown`).

Three more runs are expected to be violated: `RootOutrunsFrontier`,
`NextEpochSkipped` and `LiveStreamStalls` each show a disagreement between the
code and a comment, an assertion or a test of the repository (section 5).

**Bounds.** K = 3 is the smallest depth at which a chain proof has a root, two
blocks in between, which are fetched at the same time, and a tip, so that the
three ways `push_block` treats them differ. `Forks` has a fork point inside the
best chain and, once a6 is its tip, at its root,
announcements that retarget before, during and after the application of blocks,
and a rejected block. Two peers are needed for a retry at another peer while an
attempt is pending, and one of the two being faulty gives both orders of an unusable
answer and a good one. `Epochs` has every combination of equal and different
staking, next epoch and root ledgers between the frontier, an old and a new
target that these three tips can produce. All trees are finite and blocks are
announced only when better, so behaviours end without a counter bound.

In `ForkChoice` the slots lie on both sides of the seed update range (8) and of
the epoch boundaries (12, 24, 36), with gaps shorter and longer than a window,
one of them of a whole epoch; five blocks give two branches with two blocks of
their own. A third of an epoch is longer than a window and than the grace
period of fork choice, as on all networks. In `Candidates` blocks come one slot
too early, in time and too late (`Delta` = 0, times 1, 3, 4), can be pruned and
received again while their first job runs, and use more ids than the counter
has values, so that it wraps around.

In the front end the answers are chosen so that lists grow, shrink, change and
become empty, and so that what is selected or typed may have left the list when
the next answer comes. Two heights, slots, rows or nodes are enough for an
answer about the wrong one; a third request of one kind adds nothing, since
`switchMap` keeps one and equal requests of `mergeMap` are one. `OneBillion`
scales nanoseconds to seconds down; `FullFrontier`, `FrontierLength` and
`SLOTS_PER_EPOCH` (291 and 7140 in the code) are 2; `MaxMessages` bounds the
recorder, `MaxCustom` the nodes the user adds. Everything else is finite.

**Fairness.** In run `Liveness`: `WF(LedgerWriteSuccess)`: the ledger manager's
thread executes every request and answers it. `WF(SnarkedLedgerSynced)`,
`WF(StagedLedgerPartsFetched)`: the peers together can serve the ledgers of a
chain they follow. Here and below it is assumed that some peers keep our target as
their best tip until it is fetched: the code asks only those (`sync_actions.rs`:
288-292, 308-312), and a network that turns to a better block announces it, which
is a `BestTipUpdate`. `WF(PeerReady)`: channels become free, since the rpc timeouts
of `p2p_timeouts` end every request. `SF(BlockRpcSuccess(p))` for an honest peer: if
it is asked for blocks again and again it answers with one at last; requests may fail
any number of times before. A faulty peer answers at last too, with the block or with
something else. Nothing is assumed about disconnections. Nothing is assumed about `BestTipUpdate` or the producer.

In `Candidates` the verifier's threads finish every job, `CheckTimeouts`
fires again and again, the ledger service answers (`CommitInit`, `Synced`,
`SyncFailed`), and the chain proof of the *best* block is not missing for ever:
it is asked for on every timer tick and peers that follow the same rules have
the block as their tip. Nothing is assumed about the proofs of other blocks or
about announcements.

In `ToolPages`: `WF(StatusTick)`, the timer of the toolbar goes on, and
`WF(StatusEnds)`, the browser ends each of its requests by an answer or by a
failure. In `LiveStreamStalls` likewise for the timer, the import of the table
and the requests for messages. Nothing is assumed about the user, or about which
of answer and failure it is.

**Mutants.** Every property of a passing run has a mutant in `PROJECT.json`: a
definition and a plausible wrong version of it (named with a suffix, such as
`AfterWrite_NoReconstruct`, and placed before it) with which TLC finds the
property violated.

## 4. The proofs

`TransitionFrontierSyncProofs` proves, for every block tree that satisfies the
assumptions of `BlockTree`, any assignment of ledgers to blocks, any peers and
any K > 0:

* `TypeCorrect`: `Spec => []TypeOK`. It includes that no event ends in
  `BlocksSuccess`, which the reducer of `BestTipUpdate` does not handle.
* `RequestsMatched`: `Spec => []PendingHasRequest`. A component in a pending
  state waits for exactly the request the ledger service is executing, and a
  commit being executed is that of the chain being synchronized.
* `WakeupTheorem`: `Spec => []NoLostWakeup`. The ledger service is never idle
  while a client has work for it.

None of these is inductive. The inductive invariant `IInv` consists of

* `Wf(node)`: what each phase has: a non-empty chain exactly in the block
  phases, a ledger record and a target exactly in the ledger phases, the ledger
  record of the staking and next epoch phases in `SnarkedPending` (there is no
  staged part to wait for), a parent for a producer that is not idle. Without
  it a retarget from, say, the next epoch phase could leave a reconstruction
  pending that belongs to no request.
* `Matched(node)`: `PendingHasRequest` of a store.
* `Quiet(node)`: `NoLostWakeup` of a store, and `node.sync # "BlocksSuccess"`.
* the types of `ledgers` and `rpc`.

The argument follows the code: each operator from stores to stores has a lemma
that it keeps `Good == Wf /\ Matched`. The four lemmas `*InitGood` also say
that if the writer is free *after* the client was offered it, the client had no
work; `AfterWriteGood` chains the four, which is the reason for `Quiet`. A
retarget (`RetargetGood`) leaves the writer and the producer alone and creates
no state that waits for the writer, so the events only have to offer the writer
to the chain. `StepIInv` collects one lemma per action.

Lemmas at the start of the module establish that finite heights give every
non-empty set of blocks a lowest and a highest one, from the well-foundedness
of `<` on the naturals.

`TransitionFrontierCandidateProofs` proves, for any blocks, consensus states,
slots and counter size:

* `AnswersTheorem`: `Spec => []AnswersReachJob`. The jobs in the request table
  are exactly the requests the verifier has not answered, and their ids differ.
* `TargetsTheorem`: `Spec => []OnlyValidTargets`. Only prevalidated blocks with a
  valid proof become a target or the best tip.

The inductive invariant `IInv` is the conjunction of `Table` (vacated slots are
empty and listed once, so that an insertion never lands on a running job; no job
is left in `Init`), of `verifying = Asked(node.jobs)`, and of `Store`: candidates
past prevalidation are well-formed, the verified ones have a valid proof, and a
commit is of a target all of whose blocks apply (or `SyncFailed` could take the
target of a commit away, and `Synced` would make nothing the best tip). The two
theorems hang together: that a verified candidate is valid needs that an answer
is applied to the block it is about. The argument does not assume that fork
choice orders the candidates, which it does not in general; wherever the search
in the ordered set ends, its entries are old ones or the one inserted. That the
uniqueness of the counter is not needed is a result too: distinct slots suffice
as long as a job stays in its slot until it is answered. `without` is a recursive
function, and its lemma an induction by smallest counterexample.

* `CandidateTypes`: `Spec => []TypeOK`. Beyond `IInv` it needs `Settled`: after
  every event a candidate is either being verified or verified, and none is the
  genesis block.

Three properties depend on the order. `OrderTheorem` (`WorstToBest`) is proved of
blocks of which every two are a short range fork (`ShortRangeForks`, the condition
`is_short_range_fork` of the code): that fork choice is then a total order is a lemma,
`ShortRangeOrdered`, about the comparison by height, VRF output and hash.
`PendingTheorem` (`PendingHasJob`) and `LostTheorem` (`NothingBetterLost`) are
proved under the wider hypothesis `BlocksOrdered`: fork choice is a total order of the
blocks that are announced. These are hypotheses and no assumptions of the module,
because the code does not guarantee them: `MCTransitionFrontierCandidate` evaluates
that the blocks of the run satisfy it (`BranchesAreOrdered`) and that three blocks
around the end of an epoch do not (`EpochEndIsNotOrdered`, section 5). The
invariant `OrderInv` adds to `IInv` that the set is sorted (`Sorted`) and that
each candidate that is being verified has its job (`Backed`); with an order the
search of `insert` and `remove` ends at the place of the block, and `Prune` cuts
off exactly what is worse than the best tip.

The second half of `TransitionFrontierSyncProofs` goes on from its `IInv`:

* `LedgersTheorem`: `Spec => []AppliedHaveLedgers`. Every block of the best chain
  and every block recorded as applied has its staged ledger in the ledger service.
* `QueriesTheorem`: `Spec => []PendingQueries`. Whatever attempt is pending, the block
  is still wanted and its peer works on it, or is one of those that may have answered
  with something else: of honest peers no answer is awaited that will not come.
* `TargetTheorem`: `Spec => []SyncTargetSound`.
* `RefinementTheorem`: `Spec => AbstractFrontier!Spec`, the best chain is only ever
  replaced, in one step, by a better applied one.

Their invariant `ChainInv` is `IInv` and `Linked`, of which no part is inductive
alone: `Chained`, `Backed` and `Attempted`. `Chained` is what the chain is: it has the
whole chain proof of its target and only ancestors of it (`Linear`), what is
committed is a chain proof all of whose blocks are applied (`Complete`), the
staged ledger that is fetched is that of the lowest root since the last bootstrap
(`Rooted`), the target is better than the best tip and avoids the blacklist
(`Wanted`), and applied blocks come from the frontier, the ledger service or a
reconstruction (`AppliedFrom`). `Backed` says that applied blocks and those of the
best chain have their ledgers, which a commit keeps because of `Complete`;
`Attempted` that a pending attempt is what its peer works on, unless it is faulty.

`ForkChoiceProofs` proves, for any number of blocks, slots and sizes of epochs and
windows:

* `AgreementTheorem`: `Spec => []NodesAgree`. Of two blocks of a tree, two nodes that
  compare them in either order take the same one.
* `ExtensionTheorem`: `Spec => []ExtensionsTaken`. A node follows any extension of
  its chain.

The inductive invariant `TreeInv` describes every block by its parent (`IsTree`):
its consensus state is the one `BlockUnprovenBuild` computes. For two related blocks,
`Follows(a, b)` relates height, slot, epoch, checkpoints and densities over any
number of blocks in between; it is an induction by smallest counterexample. From
the constants it uses that an epoch is not shorter than the grace period of fork
choice (1440 of 7140 slots) and that windows and epochs are not empty.

`NetworkMessagesProofs` proves of the page Network > Messages, for any messages,
page size, filters and rows:

* `StreamTheorem`: `PageSpec => []StreamMirrored`. The copy of the mode that
  decides whether the timer fetches agrees with the store after every handler.
  Its invariant `StreamInv` adds only that both fields exist; the lemmas follow
  the handlers (answers, opening the page with a route, the user's buttons).
* `PanelTheorem`: `PageSpec => []PanelFills`. While a row is active, the tab that
  is looked at shows the detail the slice has, or a request is on its way. The
  invariant `PanelInv` adds `DetailsCopied` (what the slice has for the *other*
  tabs is shown as well, which counts when the user turns to them: `SelectTab`
  asks only for what the slice lacks) and `RowHasPanel` (no row is active while
  the page is closed, so that an answer no component copies is to nobody's row).
* `TableTheorem`: `PageSpec => []TableSound`. The footer finds an end when it reads one
  and the pages known are in order. `TableInv` adds what a page without messages
  means: no interval of time is in force, and it is the newest page known (`EndFits`).
  The lemmas say where a new page is put (`SmallerFirst`, `PageInserted`) and that the
  ends of an answer are messages of it (`PageEnds`).

`NetworkPagesProofs` proves, of the other pages of the section Network in any session,
for any answers of the debugger and any topology:

* `RequestsTheorem`: `NetworkSpec => []RequestsSound`. A poller has at most one
  request on its way and waits for it, the loading bar has its request, a page that
  was left forgets what it showed.
* `ListsTheorem`: `NetworkSpec => []ListsSound`. Blocks with their latencies, the
  line of the DHT with the peers around it, the rows of the statistics with the head
  of their table.
* `SplitsTheorem`: `NetworkSpec => []SplitsSound`. The sets of the side panel are
  the connected parts of the topology answered last, the graph and the active peer
  agree with it, and no whitelist lets a peer of one half reach the other.

One inductive invariant, `NetworkFit`, serves all three, with a part for each page
(`BlocksFit`, `ConnectionsFit`, `DhtFit`, `StatsFit`, `SplitsFit`): the shape of the
slice, what a request on its way says about the effect's flags, and what a closed page
leaves behind. The last is where the properties alone are not inductive: an answer that
arrives after its page was left meets a slice that is the initial one, or is marked
stale. The argument about `splitThePeers` is in `SearchResult` and `SplitResult`. In
every turn of the search each peer found but the first has a link to an earlier one
(`Grown`), every link of a peer found leads to one that is visited or waits in the
queue (`Followed`), and the queue shrinks by one unless the turn finds a new peer,
which adds at most one entry per link; so one plus peers times links turns empty
it. Then no link leaves the set found (`Closed`), nor the rest, from which the next
search starts. The proof uses of a topology (`TopologiesAssumption`) that its links name
peers of it. `FirewallsSeparate` follows the requests from the moment a
half is chosen to the answer of the last peer (`Halved`).

`NodePagesProofs` proves, of the pages of one application in any session, for any
nodes, statuses, epochs and slots:

* `PollersTheorem`: `NodePagesSpec => []NodeRequestsSound`. The flags of the pollers
  agree with the requests on their way, and the loading bar runs only for a node
  that was asked. The invariant `PollersInv` adds what a closed page leaves behind;
  `Apart` says that the other pages do not touch the entry of the loading bar.
* `EpochTheorem`: `NodePagesSpec => []EpochSound`. `EpochInv` adds which of the three
  requests of an epoch may be on its way together, and what each carries.
* `SelectionsTheorem`: `NodePagesSpec => []NodeSelectionsSound`. What is selected is a
  row of what is shown, with its present data. `SelectionsInv` says of each of the three
  pages what shape its slice has; the parts that carry the induction are that the
  overview has one row per node, each made by the mapping of an answer
  (`OverviewRows`), so that the answer to a request replaces the row it is about, and
  that sorting neither loses nor doubles a row (`SortDistinct`).
* `LedgersInOrderTheorem`: `NodePagesSpec => []LedgersInOrder`, from the same invariant
  and `GetLedgersOrdered`, which follows the mapping of an answer phase by phase. It
  uses of a node's report (`SyncTipsAssumption`) that the reconstruction of a ledger
  does not end before it starts, which `src/node/src/stats/stats_sync.rs` guarantees.
* `WonTheorem`: `NodePagesSpec => []WonSound`. Selection, marked row, list and
  countdown of the page Won Slots agree. `WonInv` has a part for the slice with the
  table beside it (`WonFits`, which holds the marked row at every place between the two
  halves of an answer), one for the panel (`PanelFits`) and one for answers whose second
  half is still to come (`AnswersFit`: the slot they select was found in the rows they
  bring). That filters keep the order of the rows is `FilterSorted`.
* `ReportsTheorem`: `NodePagesSpec => []ReportsSound`. What Memory and Fuzzing show is
  one report each. `MemoryInv` says that the breadcrumbs lead from the root of the
  answer frame by frame (`Lead`), and how far the treemap's own copy agrees with the
  store (`Shows`; the frame it shows is the store's except between a click in the
  chart and the reducer). Breadcrumbs are found by the id of a frame alone, so the
  proof needs that two frames of one tree never share an id: the order in which
  `build` numbers them is strict and total (`EarlierTotal`, `EarlierTransitive`,
  `IdsDiffer`). `FuzzingInv` says what is asked and shown while the page is open
  (`WorkOpen`: the table is what the search found in an answer of the directory that
  answered last, also when this answer was dropped) and that a closed page has nothing selected (`WorkClosed`), which makes
  a late answer harmless; the colour of a file follows the loop of `getLineColor` line
  by line (`LineColor`). The proof needs that a reload starts every page afresh, which
  an earlier form of `Reload` left out for some of them.

`ToolPagesProofs`, likewise for its pages:

* `MempoolTheorem`: `ToolPagesSpec => []MempoolSound`. The filtered list is the
  filter of the last answer, requests go to the active node, and the search field
  shows what the list is filtered by. `PoolInv` adds that a closed page has its
  initial slice and no request, which is why an answer never meets other filters
  than its own; `SessionInv` that sections and frame do not mix.
* `WalletsTheorem`: `ToolPagesSpec => []WalletsSound`. Batches on their way together
  share no nonce, unless the wallets were asked for meanwhile or o1js was loaded twice,
  and what blocks the send buttons is on its way. The invariant has three parts: `WalletsHeld` (each wallet is listed once), `WalletsSent`
  (an effect has one request at a time, and the transactions of a batch differ) and
  `WalletsBlocked` (the send buttons are blocked as long as a request that would
  reuse a nonce may be on its way, and no longer if the payments could be signed).
* `FrameTheorem`: `ToolPagesSpec => []FrameSound`. `FrameInv` adds the shapes of
  the slices and that the timer was last set for the status that is shown
  (`ViewTimed`), that a request which is not one of a page left since went to the
  node that is asked now (`DashboardAsked`), and that the nodes added by the user are, in order,
  those of the local storage (`AppStored`).
* `SnarksTheorem`: `ToolPagesSpec => []SnarksSound`. `WorkPoolInv` says of the work pool
  which specification and detail the slice may hold for the job that is selected, the
  detail of the job before among them while the own one is on its way, `ScanInv` of the scan
  state that the block on display is the mapping of an answer and which request its
  marker stands for, `SnarksInv` that the loading bar has its request, or the flag
  that keeps the list of jobs from being asked for. That a cell of
  the chart stands for the leaf with its number, however many leafs a tree has, is
  `DescendantsInOrder`: the chart visits a heap level by level, and after k steps it has
  reached the cells 1 to 2k + 1 in order. The proof showed an earlier form of
  `WorkPoolClosedEmpty` to be too strong: a page whose reducer throws ends the
  application with the slice as it is.

* `ActionsTheorem`: `ToolPagesSpec => []ActionsSound`. Every action of the answer is
  in one group, whose name begins its own, and the table shows the groups that match
  the search in the order of its head. `ActionsInv` has the groups (`GroupsFit`), the
  filtered ones (`FoundFit`: the same groups, marked by the word), the order, and that
  a closed page has its initial slice and at most one request is on its way. Groups
  stay apart because each prefix takes only what earlier ones left (`PrefixesGrouped`,
  `NamesGrouped`), so a group is identified by its titles whatever the search and
  the sort do to it; that the counts and times they are sorted by are numbers is
  `GroupMapped`, over sums of finite sets (`SumNatural`). The theorem uses of an
  answer (`StateActionsAssumption`) that it names finitely many actions.

All three rest on `LayoutProofs`: what `filter`, `sort` and `find` return for any rows. A
filter keeps exactly the rows that pass, in any split of the list, and filtering
twice is filtering by both; sorting permutes the rows, keeps different rows different
and is a bijection of the places; `find` returns a row that has the id, and the only one when ids differ.
The two functions are written as a recursive function and by the place each row
takes, instead of with `SelectSeq` and `SortSeq`, whose definitions the prover
cannot expand; inductions go by smallest counterexample (`LeastNatural`) or through
the set of the sequences that satisfy the claim (`SequencesInSet`). `RecursiveValues`
says that a function defined by recursion over the first n numbers has the values its
equation gives it, which every proof about a loop starts from.

**Only model-checked**, and why:

* `CopyOriginPresent`, `ReconstructSucceeds`, `CommitRecreatesRoot`,
  `CommitKeepsLedgers` and `NextEpochLedgerPresent` hold on the instance `Epochs`;
  for every tree they do not (section 5), so there is no theorem to state.
* `SyncCompletes`, `BestBlockReached`, `StatusCatchesUp`: liveness under fairness is
  out of this prover's reach.

Every other property of a passing run is stated by a theorem.

## 5. What the runs found

Three disagreements between the code and its own text are runs, with a finding
in `PROJECT.json` that quotes the comment, the assertion or the test.

* `RootOutrunsFrontier`: after two retargets the snarked ledger of the new root
  cannot be recreated by the commit, which panics.
* `NextEpochSkipped`: the node ends in sync without the final next epoch ledger.
  With `Tips = {"a7", "a9"}` the same run shows a second way: the ledger becomes
  final at a root that a retarget moves to during the root ledger phase, where
  the reducer (line 84) starts the next epoch phase only if its hash changed.
* `LiveStreamStalls`: a failed request leaves `waitingForServer` set, and the
  live table of network messages is not fetched again.

Six others are known. Five are reproduced by the run `Epochs` (or `Candidates`)
with these values and this one invariant; the sixth follows the table.

| Values | Invariant | What it shows |
|---|---|---|
| the tree `SmallForks*`, K = 2, `Tips <- SmallForksBlocks`, no ledger but `"G"` and `"L4"`, one peer | `ProducerParentPresent` | the guard that keeps production from starting during a commit does not cover a commit that starts between the choice of the parent and the diff request |
| the tree `LongRange*`, K = 2, `Tips <- LongRangeBlocks`, all blocks apply | `RootBlockApplied` | after a retarget to a better but shorter branch the root of the chain may be a block that is fetched but not applied, and the synchronization stands still |
| `Epochs*`, K = 1, `Snarked <- SlowSnarked`, all epoch ledgers genesis, `Tips = {"a3", "a4", "a5"}` | `ReconstructSucceeds` | after two retargets the snarked ledger of the new root is assumed to be there, and is not |
| `Epochs*`, K = 2, `Tips = {"a9", "a12"}` | `CopyOriginPresent` | a bootstrap two epochs after genesis copies from a ledger that commits have dropped; the error is unwrapped |
| `EpochEnd*` in `Candidates`, all blocks valid, `Delta = 1`, `Times = {11, 12}`, `CounterSize = 8` | `WorstToBest` | around the end of an epoch `consensus_take` is cyclic on three blocks of two branches that diverge before the end of the seed update range; the `BTreeSet` ordered by it is then not ordered "worst to best" |

The sixth is the stall of a synchronization by one answer. A peer that answers a
request for a block with another block, or with one that cannot be hashed, frees its
channel without an error (`p2p_callbacks_reducer.rs`:628-638, `sync_actions.rs`:328-337);
the attempt stays pending, and a block with a pending attempt is not asked for again
(`sync_state.rs`:446). The synchronization stands still until this peer is disconnected,
fails to answer a later request, or a retarget drops the block. `SyncCompletes` exempts
exactly this (`Stalled`); without the exemption the run `Liveness` is violated.

What held: two nodes always agree on two blocks and a node always follows an
extension of its chain (`ForkChoice`); a verification answer finds its job and
a waiting candidate always has one; pruning never loses a better block that is
still being verified; the update of the target, refused during commits, is made
up for by the timer. One limit of the code is not claimed away: if the best
verified candidate was rejected by the ledger service, worse valid candidates
are not tried until a better one arrives.

In the front end everything listed in section 3 holds. Behaviours met on the way
about which the repository says nothing, so that no property is stated: the work
pool closed while it is loading is not loaded again (`WorkPoolClose` leaves
`pendingRequest` set); a pool or a list of won slots that takes longer to answer
than the timer's period is cancelled each time; a transaction whose panel was
closed is opened again by the next answer; deleting the active node makes the
first node active in the store and empties the dashboard, while requests go on to the
deleted one; the reducers that throw (section 2). Others are the reason for a condition
in a property:

* Fuzzing: an answer that looks like the filtered table is dropped, and the files of the
  directory before stay in the store; another search finds them until the next poll
  (`DirectoryFilesFit` speaks of the search the answer was filtered by). A report that
  comes after its file was left opens the panel for a file without a path.
* Work pool: the selection of another job keeps the detail of the one before, which is
  shown under the new one until its own arrives (`WorkPoolDetailsFit`); after a pool
  left too early the loading bar runs without a request (`SnarksLoadingHasRequest`).
* Wallets: a fee or an amount with too many decimals makes the signing throw outside
  `catchError`, and the send button stays blocked until the page is left
  (`BlockedHasRequest`); NgRx subscribes again to an effect that ended with an error, but
  at most ten times: what happens after the tenth is outside the model. A batch of zkApps waits for
  good if the script of o1js does not load, and runs again if it is loaded twice
  (`overtaken`). Of batches sent one after the other nothing is claimed: their nonces
  start at the one the selected wallet had when it was selected
  (`benchmarks-wallets.reducer.ts`:63, 131), so the later ones are refused.
* Messages: a route with parameters but without `from` gives a request whose direction
  is `undefined`; the model assumes that the debugger refuses it. A footer that would
  read a page without a start throws, so `previousPage` has a guard for it.
* Scan state: whether an answer changes the URL depends on a substring test
  (`scan-state.effects.ts`:62), which an unrelated number in the URL may pass: either
  outcome is possible in the model.
* Bootstrap statistics: a duration that is not there yet is taken as 0 by the sort,
  which belongs to `@openmina/shared` and not to this repository.

## 6. Plan

Done: the synchronization core and its first theorems; fork choice with the
consensus states of produced blocks; candidates with the request table and block
verification; the front end's pages and frame; theorems for the safety properties of
all of these that hold for every tree and every answer. Next, in this order:

1. Composition: `TransitionFrontierCandidate` as the environment of
   `TransitionFrontierSync`, which shows the abstract steps `CommitInit`,
   `Synced` and `SyncFailed` to be those of the synchronization.
2. `SnarkPool` with the external worker; `BlockProducer` and the VRF evaluator;
   snarked ledger synchronization as a refinement of the step
   `SnarkedLedgerSynced`; `TransactionPool`, `DistributedPool`; P2P channels,
   connections, yamux windows and pubsub caches.

## 7. Not modelled

* Proof systems and hashes, message encodings, command line tools and the test
  framework: arithmetic over fields, generated code or input and output, with no
  interleavings to explore.
* Of the front end: the leaderboard (static pages and queries to Firestore), the start of the web
  node (the behaviour is that of the node), the transport of the hardware
  wallet, directives, pipes and everything that is only drawn.
* The producer dashboard, a separate service that collects statistics.
* The archive hand-over and the injection of produced blocks through
  `on_success` of `BestTipUpdate`, two hazards of the node that the models do not
  reach: a block applied for a target that was given up is still archived
  (`ledger_write_reducer.rs:147`), and the callback runs even when the reducer
  ignored the update (`transition_frontier_sync_effects.rs:66`).
