------------------------ MODULE TransitionFrontierSync ------------------------
(***************************************************************************)
(* The synchronization of a node with a better chain                       *)
(* (node/src/transition_frontier/sync) and the services it waits for: the  *)
(* ledger manager, which executes one write request at a time and which    *)
(* the block producer uses too, and the peers that serve blocks.           *)
(*                                                                         *)
(* The node is a Redux store: an event is handled together with all the    *)
(* actions its handlers dispatch, so the whole cascade is one step here.   *)
(* The store is one record, node, and each dispatched action is an         *)
(* operator from stores to stores; a handler composes them in the order in *)
(* which it dispatches them.  What is concurrent with the node is in       *)
(* variables of its own: ledgers, the ledger service, and rpc, the block   *)
(* requests the peers are working on.                                      *)
(*                                                                         *)
(* A chain is a linear segment of the tree, so a set of blocks stands for  *)
(* the code's vector of blocks ordered by height.                          *)
(***************************************************************************)
EXTENDS BlockTree, Sequences

CONSTANTS
    Ledgers,        \* snarked ledger hashes
    GenesisLedger,
    Staking,        \* Staking[b]: staking_epoch_ledger_hash of b
    NextEpoch,      \* NextEpoch[b]: next_epoch_ledger_hash of b
    Snarked,        \* Snarked[b]: snarked_ledger_hash of b
    Tips,           \* the blocks peers announce as their best tips
    Peers,
    Faulty,         \* the peers that may answer with something else than the block
    NoBlock         \* "no block"

ASSUME LedgerAssumption ==
    /\ GenesisLedger \in Ledgers
    /\ Staking \in [Blocks -> Ledgers]
    /\ NextEpoch \in [Blocks -> Ledgers]
    /\ Snarked \in [Blocks -> Ledgers]
    /\ Tips \subseteq Blocks
    /\ Faulty \subseteq Peers
    /\ NoBlock \notin Blocks

VARIABLES node, ledgers, rpc
vars == <<node, ledgers, rpc>>

(* The states of the synchronization that last between two events. *)
LedgerPhases == {"StakingLedgerPending", "NextEpochLedgerPending", "RootLedgerPending"}
SyncStates   == LedgerPhases \cup
                {"BlocksPending", "BlocksSuccess", "CommitPending", "Synced"}

BlockStates == {"None", "FetchPending", "FetchSuccess", "ApplyPending", "ApplySuccess"}
RpcStates   == {"None", "Pending", "Error"}

(* What the service holds under a snarked ledger hash: nothing, contents    *)
(* that do not (yet) hash to it, or the ledger.                              *)
Contents == {"Absent", "Partial", "Full"}

LedgerSyncStates == {"None", "SnarkedPending", "PartsFetchPending",
                     "PartsFetchSuccess", "ReconstructPending"}
NoLedgerSync == [state |-> "None", snarked |-> GenesisLedger, staged |-> NoBlock]

ProducerStates == {"Idle", "WonSlotTransactionsSuccess", "StagedLedgerDiffCreatePending"}

NoUpdates == [l \in Ledgers |-> <<>>]
NoChain   == [b \in Blocks |-> "None"]
NoQueries == [b \in Blocks |-> [p \in Peers |-> "None"]]

Idle             == [kind |-> "Idle"]
BlockApply(b)    == [kind |-> "BlockApply", block |-> b]
Reconstruct(b)   == [kind |-> "StagedLedgerReconstruct", block |-> b]
DiffCreate(b)    == [kind |-> "StagedLedgerDiffCreate", block |-> b]
Commit(blocks, updates) ==
    [kind |-> "Commit", blocks |-> blocks, updates |-> updates]

-----------------------------------------------------------------------------
(* Reading the store. *)

best_tip(n)  == Highest(n.best_chain)
best_root(n) == Lowest(n.best_chain)

is_pending(n) == n.sync # "Synced"

InChain(n) == {b \in Blocks : n.chain[b] # "None"}

(* The next block to apply: the first block not applied, if it has been      *)
(* fetched and follows an applied one.                                       *)
blocks_apply_next(n) ==
    {b \in InChain(n) :
        /\ n.chain[b] = "FetchSuccess"
        /\ \A a \in InChain(n) : Height[a] < Height[b] => n.chain[a] = "ApplySuccess"
        /\ \E a \in InChain(n) : Height[a] < Height[b]}

blocks_apply_pending(n) == {b \in Blocks : n.chain[b] = "ApplyPending"}

(* SyncLedgerTarget::next_epoch is Some *)
next_epoch_needed(tip, root) ==
    /\ NextEpoch[tip] = NextEpoch[root]
    /\ NextEpoch[tip] # GenesisLedger

-----------------------------------------------------------------------------
(* TransitionFrontierRootSnarkedLedgerUpdates: updates[l] says from which    *)
(* snarked ledger and with which block's scan state l can be recreated.      *)

extend_with_needed_Last(updates, blocks) ==
    LET b == Highest(blocks)
    IN  IF Snarked[Lowest(blocks)] = Snarked[b] THEN updates
        ELSE [updates EXCEPT ![Snarked[b]] = <<[parent |-> Snarked[Pred[b]], block |-> b]>>]

extend_with_needed(updates, blocks) ==
    LET steps == {b \in blocks : /\ Pred[b] \in blocks \ {b}
                                 /\ Snarked[b] # Snarked[Pred[b]]}
    IN  IF Snarked[Lowest(blocks)] = Snarked[Highest(blocks)] THEN updates
        ELSE [l \in Ledgers |->
                 IF \E b \in steps : Snarked[b] = l
                 THEN LET b == Lowest({c \in steps : Snarked[c] = l})
                      IN  <<[parent |-> Snarked[Pred[b]], block |-> b]>>
                 ELSE updates[l]]

-----------------------------------------------------------------------------
(* The ledger writer and its four clients.  LedgerWriteAction::Init is       *)
(* enabled only while no request is being executed; the client's own pending *)
(* state is set by the on_init callback, and only if it was.                 *)

WriterFree(n) == n.writer = Idle

BlocksNextApplyInit_Eager(n) ==
    IF blocks_apply_next(n) # {}
    THEN LET b == CHOOSE c \in blocks_apply_next(n) : TRUE
         IN  [n EXCEPT !.writer = IF WriterFree(n) THEN BlockApply(b) ELSE @,
                       !.chain[b] = "ApplyPending"]
    ELSE n

BlocksNextApplyInit(n) ==
    IF WriterFree(n) /\ blocks_apply_next(n) # {}
    THEN LET b == CHOOSE c \in blocks_apply_next(n) : TRUE
         IN  [n EXCEPT !.writer = BlockApply(b), !.chain[b] = "ApplyPending"]
    ELSE n

CommitInit(n) ==
    IF WriterFree(n) /\ n.sync = "BlocksSuccess"
    THEN LET kept    == InChain(n)
             root    == Lowest(kept)
             updates == IF root \in n.best_chain
                        THEN extend_with_needed(n.updates,
                               {b \in n.best_chain : Height[b] =< Height[root]})
                        ELSE n.updates
         IN  [n EXCEPT !.writer = Commit(kept, updates), !.sync = "CommitPending"]
    ELSE n

ReconstructInit(n) ==
    IF WriterFree(n) /\ n.ledger.state = "PartsFetchSuccess"
    THEN [n EXCEPT !.writer = Reconstruct(n.ledger.staged),
                   !.ledger.state = "ReconstructPending"]
    ELSE n

StagedLedgerDiffCreateInit(n) ==
    IF WriterFree(n) /\ n.producer.state = "WonSlotTransactionsSuccess"
    THEN [n EXCEPT !.writer = DiffCreate(n.producer.pred),
                   !.producer.state = "StagedLedgerDiffCreatePending"]
    ELSE n

AfterWrite_NoReconstruct(n) ==
    CommitInit(BlocksNextApplyInit(StagedLedgerDiffCreateInit(n)))

(* What LedgerWriteAction::Success dispatches after the response itself. *)
AfterWrite(n) ==
    ReconstructInit(CommitInit(BlocksNextApplyInit(StagedLedgerDiffCreateInit(n))))

-----------------------------------------------------------------------------
(* The ledger service (node/src/ledger/ledger_service.rs). *)

Content_CompleteOnly(l, h) == l.snarked[h]

Content(l, h) == IF l.snarked[h] # "Absent" THEN l.snarked[h] ELSE l.sync_snarked[h]

(* copy_snarked_ledger_contents_for_sync: start the ledger target from the   *)
(* first of the origins that is complete, or else from the first one.        *)
CopyForSync(l, origins, target) ==
    LET complete == {i \in DOMAIN origins : l.snarked[origins[i]] # "Absent"}
        origin   == IF complete = {} THEN origins[1]
                    ELSE origins[CHOOSE i \in complete : \A j \in complete : i =< j]
    IN  IF l.sync_snarked[target] # "Absent" THEN l
        ELSE IF Content(l, origin) = "Absent" THEN [l EXCEPT !.panic = "copy"]
        ELSE [l EXCEPT !.sync_snarked[target] =
                 IF origin = target THEN Content(l, origin) ELSE "Partial"]

(* block_apply succeeds if the parent's staged ledger is there and accepts   *)
(* the block.                                                                *)
HasStaged(l, b)   == b \in l.staged \cup l.sync_staged
BlockApplyOk(l, b) == HasStaged(l, Pred[b]) /\ b \in Applies

(* recreate_snarked_ledger: the ledgers on the way from h down to one that   *)
(* needs no update are pushed one after the other.                           *)
RecreatePath(updates, h) ==
    LET path[d \in 0..Cardinality(Ledgers)] ==
            IF d = 0 THEN {h}
            ELSE path[d-1] \cup {updates[x][1].parent :
                                   x \in {y \in path[d-1] : updates[y] # <<>>}}
    IN  path[Cardinality(Ledgers)]

(* Every ledger of the path without an update must be complete, and every    *)
(* other one needs the scan state of its block.                              *)
RecreateOk(l, updates, h) ==
    \/ updates[h] = <<>>
    \/ \A x \in RecreatePath(updates, h) :
          IF updates[x] = <<>> THEN Content(l, x) = "Full"
          ELSE HasStaged(l, updates[x][1].block)

LedgersToKeep_NoStaking(blocks) ==
    {Snarked[b] : b \in blocks} \cup {NextEpoch[Highest(blocks)]}

LedgersToKeep_NoNextEpoch(blocks) ==
    {Snarked[b] : b \in blocks} \cup {Staking[Highest(blocks)]}

LedgersToKeep(blocks) ==
    {Snarked[b] : b \in blocks} \cup {Staking[Highest(blocks)], NextEpoch[Highest(blocks)]}

StagedToKeep_OldOnly(l, blocks) == l.staged \cap blocks

StagedToKeep(l, blocks) == (l.staged \cup l.sync_staged) \cap blocks

CommitLedgers(l, blocks, updates) ==
    LET root == Lowest(blocks)
        tip  == Highest(blocks)
        pushed == {x \in RecreatePath(updates, Snarked[root]) : updates[x] # <<>>}
        sync   == [h \in Ledgers |-> IF h \in pushed THEN "Full" ELSE l.sync_snarked[h]]
        keep   == LedgersToKeep(blocks)
        main   == [h \in Ledgers |-> IF h \notin keep THEN "Absent"
                                     ELSE IF sync[h] # "Absent" THEN sync[h]
                                     ELSE l.snarked[h]]
        staged == StagedToKeep(l, blocks)
    IN  [snarked |-> main,
         sync_snarked |-> [h \in Ledgers |-> "Absent"],
         staged |-> staged,
         sync_staged |-> {},
         panic |-> IF ~RecreateOk(l, updates, Snarked[root]) THEN "recreate"
                   ELSE IF /\ main[Staking[tip]] = "Full"
                           /\ main[Snarked[root]] = "Full"
                           /\ root \in staged
                   THEN l.panic ELSE "mask"]

-----------------------------------------------------------------------------
(* Ledger synchronization phases. *)

SnarkedTarget(h) == [state |-> "SnarkedPending", snarked |-> h, staged |-> NoBlock]
RootTarget(b)    == [state |-> "SnarkedPending", snarked |-> Snarked[b], staged |-> b]

update_target_KeepsSnarked(ledger, new) ==
    IF ledger.state = "SnarkedPending" THEN new
    ELSE IF ledger.staged = new.staged THEN ledger
    ELSE [new EXCEPT !.state = "PartsFetchPending"]

(* TransitionFrontierSyncLedgerState::update_target, with the dispatch that  *)
(* follows it when the snarked ledger is already there.                      *)
update_target(ledger, new) ==
    IF ledger.state = "SnarkedPending" THEN new
    ELSE IF ledger.staged = new.staged THEN ledger
    ELSE IF ledger.snarked = new.snarked THEN [new EXCEPT !.state = "PartsFetchPending"]
    ELSE new

(* BestTipUpdate while a ledger is being synchronized. *)
RetargetLedger(n, t) ==
    LET root == RootOf(t)
        m    == [n EXCEPT !.tip = t, !.root = root]
        next == next_epoch_needed(t, root)
    IN  CASE n.sync = "StakingLedgerPending" ->
                [m EXCEPT !.ledger = update_target(@, SnarkedTarget(Staking[t]))]
          [] n.sync # "StakingLedgerPending" /\ Staking[n.tip] # Staking[t] ->
                [m EXCEPT !.sync = "StakingLedgerPending",
                          !.ledger = SnarkedTarget(Staking[t])]
          [] n.sync = "NextEpochLedgerPending" /\ Staking[n.tip] = Staking[t] ->
                IF next
                THEN [m EXCEPT !.ledger = update_target(@, SnarkedTarget(NextEpoch[t]))]
                ELSE m
          [] OTHER ->
                IF next /\ NextEpoch[n.tip] # NextEpoch[t]
                THEN [m EXCEPT !.sync = "NextEpochLedgerPending",
                               !.ledger = SnarkedTarget(NextEpoch[t])]
                ELSE IF /\ n.ledger.state \in {"PartsFetchSuccess", "ReconstructPending"}
                        /\ root # Genesis /\ Pred[root] = n.root
                THEN [m EXCEPT !.root_updates = @ \cup {n.root}]
                ELSE [m EXCEPT !.root_updates = {},
                               !.ledger = update_target(@, RootTarget(root))]

(* The frontier blocks a decision may rely on: those of the store when the   *)
(* chain was being synchronized already, none right after Synced.            *)
next_required_ledger_to_sync(n, old_tip, old_root, cur, t) ==
    LET root == RootOf(t)
        m == [n EXCEPT !.tip = t, !.root = root, !.root_updates = {},
                       !.chain = NoChain, !.attempts = NoQueries, !.updates = NoUpdates]
        other_staking == cur = {} \/ Staking[Highest(cur)] # Staking[t]
    IN  CASE Staking[old_tip] # Staking[t] /\ other_staking ->
                [m EXCEPT !.sync = "StakingLedgerPending",
                          !.ledger = SnarkedTarget(Staking[t])]
          [] /\ ~(Staking[old_tip] # Staking[t] /\ other_staking)
             /\ NextEpoch[old_tip] # NextEpoch[t]
             /\ other_staking
             /\ next_epoch_needed(t, root) ->
                [m EXCEPT !.sync = "NextEpochLedgerPending",
                          !.ledger = SnarkedTarget(NextEpoch[t])]
          [] OTHER ->
                [m EXCEPT !.sync = "RootLedgerPending",
                          !.ledger = IF \/ Snarked[old_root] = Snarked[root]
                                        \/ cur # {} /\ Snarked[Lowest(cur)] = Snarked[root]
                                     THEN [RootTarget(root) EXCEPT !.state = "PartsFetchPending"]
                                     ELSE RootTarget(root)]

(* push_block: the state a block of the new chain starts with. *)
push_block(n, b, with_block) ==
    CASE n.chain[b] # "None" /\ ~(with_block /\ n.chain[b] = "FetchPending") -> n.chain[b]
      [] OTHER -> IF b \in n.best_chain THEN "ApplySuccess"
                  ELSE IF with_block THEN "FetchSuccess" ELSE "FetchPending"

(* BestTipUpdate while blocks are being fetched and applied. *)
RetargetBlocks(n, t) ==
    LET root        == RootOf(t)
        applied     == n.chain[root] = "ApplySuccess"
        below       == {b \in InChain(n) : /\ Height[b] =< Height[root]
                                           /\ n.chain[b] # "FetchPending"}
        chain       == [b \in Blocks |-> IF b \notin ChainOf(t) THEN "None"
                                         ELSE push_block(n, b, b \in {root, t})]
    IN  IF root \in n.best_chain \/ applied
        THEN [n EXCEPT !.chain = chain,
                       !.attempts = [b \in Blocks |-> IF chain[b] = "FetchPending" THEN @[b]
                                                      ELSE NoQueries[b]],
                       !.updates = IF applied THEN extend_with_needed(@, below) ELSE @]
        ELSE next_required_ledger_to_sync(n, Highest(InChain(n)), Lowest(InChain(n)),
                                          n.best_chain, t)

(* BestTipUpdate when in sync. *)
RetargetSynced(n, t) ==
    IF RootOf(t) \in n.best_chain
    THEN [n EXCEPT !.sync = "BlocksPending",
                   !.chain = [b \in Blocks |->
                                CASE b \notin ChainOf(t) -> "None"
                                  [] b \in ChainOf(t) \cap n.best_chain -> "ApplySuccess"
                                  [] b \in ChainOf(t) \ n.best_chain ->
                                        IF b = t THEN "FetchSuccess" ELSE "FetchPending"]]
    ELSE next_required_ledger_to_sync(n, best_tip(n), best_root(n), {}, t)

(* The reducer of BestTipUpdate.  BlocksSuccess is not matched by it. *)
Retarget(n, t) ==
    CASE n.sync \in LedgerPhases   -> RetargetLedger(n, t)
      [] n.sync = "BlocksPending"  -> RetargetBlocks(n, t)
      [] n.sync = "Synced"         -> RetargetSynced(n, t)
      [] OTHER                     -> n

-----------------------------------------------------------------------------
(* maybe_copy_ledgers_for_sync and the prepare_* functions it calls: the     *)
(* ledger to be synchronized starts as a copy of one that is close to it.    *)

RootOrigins(n) ==
    (IF next_epoch_needed(n.tip, n.root) THEN <<NextEpoch[n.tip]>> ELSE <<>>)
        \o <<Staking[n.tip]>>

Prepare(l, n, previous_root) ==
    CASE n.sync = "StakingLedgerPending" ->
            CopyForSync(l, <<GenesisLedger>>, Staking[n.tip])
      [] n.sync = "NextEpochLedgerPending" ->
            IF next_epoch_needed(n.tip, n.root)
            THEN CopyForSync(l, <<Staking[n.tip]>>, NextEpoch[n.tip])
            ELSE l
      [] n.sync = "RootLedgerPending" ->
            CopyForSync(l, previous_root \o RootOrigins(n), Snarked[n.root])
      [] OTHER -> l

-----------------------------------------------------------------------------
(* BlocksPeersQuery: missing blocks are asked for, those all of whose        *)
(* attempts failed first, lower ones first, each from another peer that has  *)
(* no request outstanding.  Which of these peers know the chain (have our    *)
(* sync target as their best tip) is their business: any may.                *)

is_retry(n, b) == /\ n.chain[b] = "FetchPending"
                  /\ \E p \in Peers : n.attempts[b][p] = "Error"
                  /\ \A p \in Peers : n.attempts[b][p] # "Pending"
is_next(n, b)  == /\ n.chain[b] = "FetchPending"
                  /\ \A p \in Peers : n.attempts[b][p] = "None"

AskedBefore(n, a, b) ==
    \/ is_retry(n, a) /\ is_next(n, b)
    \/ (is_retry(n, a) <=> is_retry(n, b)) /\ Height[a] < Height[b]

can_send_request_Always(r, p) == TRUE

can_send_request(r, p) == r[p] = NoBlock

(* The possible requests for the blocks of B, each from another free peer:   *)
(* functions from blocks to peers.                                           *)
RequestsFor(B, r) ==
    {q \in [B -> {p \in Peers : can_send_request(r, p)}] :
        \A a, b \in B : q[a] = q[b] => a = b}

Missing(n) == {b \in Blocks : is_retry(n, b) \/ is_next(n, b)}

Queries(n, r) ==
    LET wanted == Missing(n)
    IN  UNION {RequestsFor(B, r) :
                 B \in {C \in SUBSET wanted :
                          \A b \in C, a \in wanted \ C : ~AskedBefore(n, a, b)}}

QueryPending(n, q) ==
    [n EXCEPT !.attempts = [b \in Blocks |->
                               IF b \in DOMAIN q THEN [@[b] EXCEPT ![q[b]] = "Pending"]
                               ELSE @[b]]]

SendRequests(r, q) ==
    [p \in Peers |-> IF \E b \in DOMAIN q : q[b] = p
                     THEN CHOOSE b \in DOMAIN q : q[b] = p
                     ELSE r[p]]

-----------------------------------------------------------------------------
(* The node: one action per event. *)

(* TransitionFrontierAction::GenesisInject has made genesis the frontier. *)
Init ==
    /\ node = [best_chain |-> {Genesis}, blacklist |-> {},
               sync |-> "Synced", tip |-> NoBlock, root |-> NoBlock, root_updates |-> {},
               ledger |-> NoLedgerSync,
               chain |-> NoChain, attempts |-> NoQueries, updates |-> NoUpdates,
               writer |-> Idle,
               producer |-> [state |-> "Idle", pred |-> NoBlock]]
    /\ ledgers = [snarked |-> [l \in Ledgers |-> IF l = GenesisLedger THEN "Full" ELSE "Absent"],
                  sync_snarked |-> [l \in Ledgers |-> "Absent"],
                  staged |-> {Genesis}, sync_staged |-> {},
                  panic |-> "none"]
    /\ rpc = [p \in Peers |-> NoBlock]

(* A panic ends the process. *)
Running == ledgers.panic = "none"

sync_best_tip(n) ==
    IF n.sync \in LedgerPhases THEN n.tip ELSE Highest(InChain(n))

BestTipUpdateEnabled_NoBlacklist(n, t) ==
    /\ n.sync # "CommitPending"
    /\ t # best_tip(n)
    /\ consensus_take(IF is_pending(n) THEN sync_best_tip(n) ELSE best_tip(n), t)

(* A better tip has been verified, or has been produced here.  While this    *)
(* node produces a block the update may be refused: that depends on slots    *)
(* and VRF outputs, which are not modelled.                                  *)
BestTipUpdateEnabled(n, t) ==
    /\ n.sync # "CommitPending"
    /\ t # best_tip(n)
    /\ consensus_take(IF is_pending(n) THEN sync_best_tip(n) ELSE best_tip(n), t)
    /\ ChainOf(t) \cap n.blacklist = {}

BestTipUpdate(t) ==
    /\ Running
    /\ BestTipUpdateEnabled(node, t)
    /\ LET n == Retarget(node, t)
       IN  /\ ledgers' = Prepare(ledgers, n, <<Snarked[best_root(node)]>>)
           /\ \E q \in Queries(n, rpc) :
                 /\ node' = BlocksNextApplyInit(QueryPending(n, q))
                 /\ rpc' = SendRequests(rpc, q)

(* The merkle tree of the target snarked ledger is complete. *)
SnarkedLedgerSynced ==
    /\ Running
    /\ node.ledger.state = "SnarkedPending"
    /\ LET l    == [ledgers EXCEPT !.sync_snarked[node.ledger.snarked] = "Full"]
           Next(phase, target) ==
               [node EXCEPT !.sync = phase, !.root_updates = {}, !.ledger = target]
           n    == CASE /\ node.sync = "StakingLedgerPending"
                        /\ next_epoch_needed(node.tip, node.root) ->
                            Next("NextEpochLedgerPending", SnarkedTarget(NextEpoch[node.tip]))
                     [] \/ node.sync = "NextEpochLedgerPending"
                        \/ /\ node.sync = "StakingLedgerPending"
                           /\ ~next_epoch_needed(node.tip, node.root) ->
                            Next("RootLedgerPending", RootTarget(node.root))
                     [] OTHER ->
                            IF node.ledger.staged = Genesis
                            THEN ReconstructInit([node EXCEPT !.ledger.state = "PartsFetchSuccess"])
                            ELSE [node EXCEPT !.ledger.state = "PartsFetchPending"]
       IN  /\ node' = n
           /\ ledgers' = IF n.sync = node.sync THEN l ELSE Prepare(l, n, <<>>)
    /\ UNCHANGED rpc

(* A peer has sent valid parts (scan state, coinbases) for the root. *)
StagedLedgerPartsFetched ==
    /\ Running
    /\ node.ledger.state = "PartsFetchPending"
    /\ node' = ReconstructInit([node EXCEPT !.ledger.state = "PartsFetchSuccess"])
    /\ UNCHANGED <<ledgers, rpc>>

(* BlocksPeerQuerySuccess and BlocksFetchSuccess: an answer to an attempt    *)
(* that is not pending is ignored.                                           *)
BlocksFetchSuccess(n, p, b) ==
    IF n.chain[b] = "FetchPending" /\ n.attempts[b][p] = "Pending"
    THEN [n EXCEPT !.chain[b] = "FetchSuccess", !.attempts[b] = NoQueries[b]]
    ELSE n

BlockRpcSuccess(p) ==
    /\ Running
    /\ rpc[p] # NoBlock
    /\ LET n == BlocksFetchSuccess(node, p, rpc[p])
           r == [rpc EXCEPT ![p] = NoBlock]
       IN  \E q \in Queries(n, r) :
              /\ node' = IF n # node THEN BlocksNextApplyInit(QueryPending(n, q))
                         ELSE QueryPending(n, q)
              /\ rpc' = SendRequests(r, q)
    /\ UNCHANGED ledgers

BlocksPeerQueryError_Ignored(n, p, b) == n

(* The reducer marks the lowest block with an attempt pending at the peer.   *)
BlocksPeerQueryError(n, p, b) ==
    LET pending == {c \in Blocks : n.attempts[c][p] = "Pending"}
    IN  IF n.attempts[b][p] = "Pending"
        THEN [n EXCEPT !.attempts[Lowest(pending)][p] = "Error"]
        ELSE n

(* An error answer or a timeout. *)
BlockRpcError(p) ==
    /\ Running
    /\ rpc[p] # NoBlock
    /\ LET n == BlocksPeerQueryError(node, p, rpc[p])
           r == [rpc EXCEPT ![p] = NoBlock]
       IN  \E q \in Queries(n, r) :
              /\ node' = QueryPending(n, q)
              /\ rpc' = SendRequests(r, q)
    /\ UNCHANGED ledgers

(* An answer that cannot be hashed, or a block other than the one asked for: *)
(* no action is dispatched for it (or BlocksPeerQuerySuccess is not enabled),*)
(* so the attempt stays pending although the peer is free again.             *)
BlockRpcUnusable(p) ==
    /\ Running
    /\ rpc[p] # NoBlock
    /\ LET r == [rpc EXCEPT ![p] = NoBlock]
       IN  \E q \in Queries(node, r) :
              /\ node' = QueryPending(node, q)
              /\ rpc' = SendRequests(r, q)
    /\ UNCHANGED ledgers

(* BlocksPeerQueryError for every attempt pending at the peer. *)
QueriesDisconnected(n, p) ==
    [n EXCEPT !.attempts = [b \in Blocks |->
                               IF @[b][p] = "Pending" THEN [@[b] EXCEPT ![p] = "Error"]
                               ELSE @[b]]]

(* A peer is disconnected.  Each error is followed by a BlocksPeersQuery of  *)
(* its own, so the order of Queries is not that of the whole cascade: any    *)
(* missing blocks may have been asked for in the end, from the other peers.  *)
PeerDisconnected(p) ==
    /\ Running
    /\ rpc[p] # NoBlock \/ \E b \in Blocks : node.attempts[b][p] = "Pending"
    /\ LET n == QueriesDisconnected(node, p)
           r == [rpc EXCEPT ![p] = NoBlock]
       IN  \E B \in SUBSET Missing(n) : \E q \in RequestsFor(B, r) :
              /\ \A b \in B : q[b] # p
              /\ node' = QueryPending(n, q)
              /\ rpc' = SendRequests(r, q)
    /\ UNCHANGED ledgers

(* The rpc channel of a peer becomes ready, or a request of another kind     *)
(* has been answered by it.                                                  *)
PeerReady ==
    /\ Running
    /\ \E q \in Queries(node, rpc) :
          /\ DOMAIN q # {}
          /\ node' = QueryPending(node, q)
          /\ rpc' = SendRequests(rpc, q)
    /\ UNCHANGED ledgers

(* The block producer's slot has come: it chooses its parent and collects    *)
(* transactions.  With the slot of the best tip it replaces that block.      *)
WonSlotProduceInit ==
    /\ Running
    /\ node.producer.state = "Idle"
    /\ node.sync # "CommitPending"
    /\ \E b \in {best_tip(node)} \cup ({Pred[best_tip(node)]} \cap node.best_chain) :
          node' = StagedLedgerDiffCreateInit(
                    [node EXCEPT !.producer = [state |-> "WonSlotTransactionsSuccess",
                                               pred  |-> b]])
    /\ UNCHANGED <<ledgers, rpc>>

-----------------------------------------------------------------------------
(* The ledger service answers: LedgerWriteAction::Success. *)

Answered(n) == [n EXCEPT !.writer = Idle]

BlocksSuccess_ShortChain(n) ==
    IF \A b \in InChain(n) : n.chain[b] = "ApplySuccess"
    THEN LET low == Height[Highest(InChain(n))] - (K - 1)
         IN  CommitInit([n EXCEPT !.sync = "BlocksSuccess",
                                  !.chain = [b \in Blocks |-> IF Height[b] < low THEN "None"
                                                              ELSE @[b]]])
    ELSE n

BlocksSuccess(n) ==
    IF \A b \in InChain(n) : n.chain[b] = "ApplySuccess"
    THEN LET low == Height[Highest(InChain(n))] - K
         IN  CommitInit([n EXCEPT !.sync = "BlocksSuccess",
                                  !.chain = [b \in Blocks |-> IF Height[b] < low THEN "None"
                                                              ELSE @[b]]])
    ELSE n

BlocksNextApplySuccess(n, b) ==
    LET m == [n EXCEPT !.chain[b] = "ApplySuccess"]
    IN  IF b \notin blocks_apply_pending(n) THEN n
        ELSE IF blocks_apply_next(m) # {} THEN BlocksNextApplyInit(m)
        ELSE BlocksSuccess(m)

(* BlocksNextApplyError and SyncFailed *)
BlocksNextApplyError(n, b) ==
    IF b \notin blocks_apply_pending(n) THEN n
    ELSE [n EXCEPT !.blacklist = @ \cup {b}, !.sync = "Synced",
                   !.chain = NoChain, !.attempts = NoQueries, !.updates = NoUpdates]

BlockApplyDone ==
    /\ Running
    /\ node.writer.kind = "BlockApply"
    /\ LET b == node.writer.block
       IN  IF BlockApplyOk(ledgers, b)
           THEN /\ ledgers' = [ledgers EXCEPT !.sync_staged = @ \cup {b}]
                /\ node' = AfterWrite(BlocksNextApplySuccess(Answered(node), b))
           ELSE /\ node' = AfterWrite(BlocksNextApplyError(Answered(node), b))
                /\ UNCHANGED ledgers
    /\ UNCHANGED rpc

Synced_NotReset(n, discard) ==
    [n EXCEPT !.best_chain = InChain(n), !.sync = "CommitSuccess"]

(* CommitSuccess and Synced.  The producer is told of the new best tip; the  *)
(* slots decide whether it discards its own block.                           *)
Synced(n, discard) ==
    LET tip == Highest(InChain(n))
    IN  [n EXCEPT !.best_chain = InChain(n),
                  !.blacklist = {b \in @ : Height[b] + K > Height[tip]},
                  !.sync = "Synced", !.chain = NoChain, !.updates = NoUpdates,
                  !.producer = IF discard THEN [state |-> "Idle", pred |-> NoBlock] ELSE @]

CommitDone ==
    /\ Running
    /\ node.writer.kind = "Commit"
    /\ ledgers' = CommitLedgers(ledgers, node.writer.blocks, node.writer.updates)
    /\ \E discard \in BOOLEAN :
          node' = AfterWrite(
                    IF /\ node.sync = "CommitPending"
                       /\ Highest(InChain(node)) = Highest(node.writer.blocks)
                    THEN Synced(Answered(node), discard)
                    ELSE Answered(node))
    /\ UNCHANGED rpc

(* The reducer of BlocksPending, after LedgerRootSuccess. *)
BlocksPending(n) ==
    LET applied == Lowest(n.root_updates \cup {n.root})
        roots   == n.root_updates \cup {n.root}
        between == ChainOf(n.tip) \ {n.root, n.tip}
    IN  [n EXCEPT !.sync = "BlocksPending",
                  !.tip = NoBlock, !.root = NoBlock, !.root_updates = {},
                  !.ledger = NoLedgerSync,
                  !.chain = [b \in Blocks |->
                               CASE b = applied -> "ApplySuccess"
                                 [] b \in (roots \cup {n.tip}) \ {applied} -> "FetchSuccess"
                                 [] b \in between \ roots ->
                                      IF b \in n.best_chain THEN "ApplySuccess"
                                      ELSE "FetchPending"
                                 [] OTHER -> "None"],
                  !.updates = extend_with_needed(NoUpdates, roots)]

ReconstructDone ==
    /\ Running
    /\ node.writer.kind = "StagedLedgerReconstruct"
    /\ LET b       == node.writer.block
           ok      == ledgers.sync_snarked[Snarked[b]] = "Full"
           current == node.ledger.state = "ReconstructPending" /\ node.ledger.staged = b
           n       == IF current THEN BlocksPending(Answered(node)) ELSE Answered(node)
       IN  IF current /\ ~ok
           THEN /\ ledgers' = [ledgers EXCEPT !.panic = "reconstruct"]
                /\ UNCHANGED <<node, rpc>>
           ELSE /\ ledgers' = [ledgers EXCEPT !.staged = IF ok THEN @ \cup {b} ELSE @]
                /\ \E q \in IF current THEN Queries(n, rpc) ELSE {<<>>} :
                      /\ node' = AfterWrite(QueryPending(n, q))
                      /\ rpc' = SendRequests(rpc, q)

(* The answer is used only if the producer still builds on the same block.   *)
(* An error leaves it waiting.                                               *)
DiffCreateDone ==
    /\ Running
    /\ node.writer.kind = "StagedLedgerDiffCreate"
    /\ LET b == node.writer.block
       IN  node' = AfterWrite(
                     IF /\ node.producer = [state |-> "StagedLedgerDiffCreatePending", pred |-> b]
                        /\ HasStaged(ledgers, b)
                     THEN [Answered(node) EXCEPT !.producer = [state |-> "Idle", pred |-> NoBlock]]
                     ELSE Answered(node))
    /\ UNCHANGED <<ledgers, rpc>>

LedgerWriteSuccess == BlockApplyDone \/ CommitDone \/ ReconstructDone \/ DiffCreateDone

Next ==
    \/ \E t \in Tips : BestTipUpdate(t)
    \/ SnarkedLedgerSynced
    \/ StagedLedgerPartsFetched
    \/ \E p \in Peers : BlockRpcSuccess(p) \/ BlockRpcError(p) \/ PeerDisconnected(p)
    \/ \E p \in Faulty : BlockRpcUnusable(p)
    \/ PeerReady
    \/ WonSlotProduceInit
    \/ LedgerWriteSuccess

Spec == Init /\ [][Next]_vars

(* The ledger service answers every request, and the peers together          *)
(* eventually serve the ledgers.  While a block is missing and nobody has    *)
(* been asked for it some free peer has our target as its best tip (only     *)
(* those are asked), and a peer that is asked for blocks again and again     *)
(* answers with a block at last: a timeout turns a silent peer into an       *)
(* error, and the block is asked for again.                                  *)
Fairness ==
    /\ WF_vars(LedgerWriteSuccess)
    /\ WF_vars(SnarkedLedgerSynced)
    /\ WF_vars(StagedLedgerPartsFetched)
    /\ WF_vars(PeerReady)
    /\ \A p \in Peers \ Faulty : SF_vars(BlockRpcSuccess(p))
    /\ \A p \in Faulty : SF_vars(BlockRpcSuccess(p) \/ BlockRpcUnusable(p))

FairSpec == Spec /\ Fairness

-----------------------------------------------------------------------------
(* Properties. *)

Panics == {"none", "copy", "reconstruct", "recreate", "mask"}

Updates == [Ledgers -> Seq([parent : Ledgers, block : Blocks])]

Requests ==
    {Idle} \cup [kind : {"BlockApply", "StagedLedgerReconstruct", "StagedLedgerDiffCreate"},
                 block : Blocks]
           \cup [kind : {"Commit"}, blocks : SUBSET Blocks, updates : Updates]

Store ==
    [best_chain : SUBSET Blocks, blacklist : SUBSET Blocks,
     sync : SyncStates, tip : Blocks \cup {NoBlock}, root : Blocks \cup {NoBlock},
     root_updates : SUBSET Blocks,
     ledger : [state : LedgerSyncStates, snarked : Ledgers, staged : Blocks \cup {NoBlock}],
     chain : [Blocks -> BlockStates],
     attempts : [Blocks -> [Peers -> RpcStates]],
     updates : Updates,
     writer : Requests,
     producer : [state : ProducerStates, pred : Blocks \cup {NoBlock}]]

Service ==
    [snarked : [Ledgers -> Contents], sync_snarked : [Ledgers -> Contents],
     staged : SUBSET Blocks, sync_staged : SUBSET Blocks, panic : Panics]

(* The store and the services hold values of the types the code declares,    *)
(* and BlocksSuccess is left in the step that enters it: BestTipUpdate would *)
(* ignore a better tip there.                                                *)
TypeOK ==
    /\ node \in Store
    /\ node.sync # "BlocksSuccess"
    /\ ledgers \in Service
    /\ rpc \in [Peers -> Blocks \cup {NoBlock}]

(* A component that waits for the ledger service waits for the very request  *)
(* the service is executing, so no answer can be lost or taken for another's;*)
(* and a commit is one of the chain that is being synchronized.              *)
PendingHasRequest ==
    /\ \A b \in Blocks : node.chain[b] = "ApplyPending" => node.writer = BlockApply(b)
    /\ node.ledger.state = "ReconstructPending" =>
          node.writer = Reconstruct(node.ledger.staged)
    /\ node.sync = "CommitPending" <=> node.writer.kind = "Commit"
    /\ node.sync = "CommitPending" => node.writer.blocks = InChain(node)

(* Whenever the ledger service is idle, no component has work for it: every  *)
(* event that makes work ready, and every answer, starts the next request.   *)
NoLostWakeup ==
    WriterFree(node) =>
        /\ blocks_apply_next(node) = {}
        /\ node.sync # "BlocksSuccess"
        /\ node.ledger.state # "PartsFetchSuccess"
        /\ node.producer.state # "WonSlotTransactionsSuccess"

(* Every block the node considers applied (in the best chain, or ApplySuccess*)
(* in the chain being synchronized) has its staged ledger in the service,    *)
(* whatever commits and retargets happened since.                            *)
AppliedHaveLedgers ==
    \A b \in Blocks : b \in node.best_chain \/ node.chain[b] = "ApplySuccess" =>
        HasStaged(ledgers, b)

(* A pending attempt is one for a block that is still missing, and a request *)
(* its peer is really working on, unless the peer has answered it with       *)
(* something that is not the block: with peers that do not, every attempt    *)
(* ends, and an answer or an error hits the block it is about.               *)
PendingQueries ==
    \A b \in Blocks, p \in Peers :
        node.attempts[b][p] = "Pending" =>
            /\ node.chain[b] = "FetchPending"
            /\ rpc[p] = b \/ p \in Faulty

(* The chain being synchronized is better than the best chain and holds no   *)
(* block that has failed to apply.                                           *)
SyncTargetSound ==
    is_pending(node) =>
        /\ consensus_take(best_tip(node), sync_best_tip(node))
        /\ (ChainOf(sync_best_tip(node)) \cup InChain(node)) \cap node.blacklist = {}

(* The frontier implements its abstract specification: whatever is           *)
(* synchronized, the best chain changes in one step, to a better branch.     *)
F == INSTANCE Frontier WITH best_chain <- node.best_chain
FrontierRefinement == F!Spec

(* A ledger to be synchronized starts as a copy of one that is there: the    *)
(* node unwraps the result of copy_snarked_ledger_contents_for_sync.         *)
CopyOriginPresent == ledgers.panic # "copy"

(* A staged ledger is reconstructed on a complete snarked ledger: the reducer*)
(* panics on "Staged ledger reconstruct failure".                            *)
ReconstructSucceeds == ledgers.panic # "reconstruct"

(* A commit can recreate the snarked ledger of the new root from ledgers it  *)
(* has: LedgerCtx::commit unwraps the result of recreate_snarked_ledger.     *)
CommitRecreatesRoot == ledgers.panic # "recreate"

(* After a commit the staking ledger, the root's snarked ledger and its      *)
(* staged ledger are there and complete ("ledger mask is missing",           *)
(* "ledger mask hash mismatch").                                             *)
CommitKeepsLedgers == ledgers.panic # "mask"

(* Once the next epoch ledger of the best tip is final (it is the root's     *)
(* too), the node has it: it was synchronized or recreated on the way.       *)
NextEpochLedgerPresent ==
    node.sync = "Synced" /\ next_epoch_needed(best_tip(node), best_root(node)) =>
        ledgers.snarked[NextEpoch[best_tip(node)]] = "Full"

(* "Root block is always applied since we have reconstructed it in previous  *)
(* steps" (transition_frontier_sync_reducer.rs).                             *)
RootBlockApplied ==
    node.sync = "BlocksPending" => node.chain[Lowest(InChain(node))] = "ApplySuccess"

(* A block is only produced on a parent whose staged ledger is there.        *)
ProducerParentPresent ==
    node.writer.kind = "StagedLedgerDiffCreate" => HasStaged(ledgers, node.writer.block)

(* A missing block waits for a faulty peer that is not working on it any     *)
(* more: it is not asked for again until that peer is disconnected or fails  *)
(* to answer something else, or the node turns to another chain.             *)
Stalled ==
    \E b \in Blocks, p \in Faulty : node.attempts[b][p] = "Pending" /\ rpc[p] # b

(* A synchronization always ends, with a commit or with a block blacklisted, *)
(* unless a peer answers a block request with something else: this stalls it.*)
SyncCompletes == is_pending(node) ~> (~is_pending(node) \/ Stalled)
=============================================================================
