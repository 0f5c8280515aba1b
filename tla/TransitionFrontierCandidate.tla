---------------------- MODULE TransitionFrontierCandidate ----------------------
(***************************************************************************)
(* Candidate blocks (node/src/transition_frontier/candidate) on their way  *)
(* from the network to the synchronization: they are received, checked,    *)
(* sent to the block verifier (snark/src/block_verify), given a proof of   *)
(* their chain, and the best verified one becomes the target of the        *)
(* synchronization.                                                        *)
(*                                                                         *)
(* As in TransitionFrontierSync an event is one step with everything it    *)
(* dispatches.  The store is a record, node; verifying holds what the      *)
(* verifier's threads are working on.  The synchronization is abstracted   *)
(* to its target and whether it is committing; TransitionFrontierSync      *)
(* shows how it gets from one to the other.                                *)
(***************************************************************************)
EXTENDS Consensus, SequencesExt

CONSTANTS
    Blocks, Genesis,
    CS,            \* CS[b]: the consensus state of b
    Pred,          \* Pred[b]: its parent
    WellFormed,    \* blocks with our genesis, protocol version and constants
    ValidProof,    \* blocks whose proof the verifier accepts
    Applies,       \* blocks the ledger service can apply
    Delta,         \* slots a block may be late
    Times,         \* the slots at which something happens
    CounterSize,
    NoBlock

ASSUME CandidateAssumption ==
    /\ Genesis \in Blocks /\ NoBlock \notin Blocks
    /\ Pred \in [Blocks -> Blocks]
    /\ DOMAIN CS = Blocks
    /\ \A b \in Blocks : CS[b].hash \in Nat /\ CS[b].height \in Nat /\ CS[b].vrf \in Nat
    /\ \A a, b \in Blocks : CS[a].hash = CS[b].hash => a = b
    /\ WellFormed \subseteq Blocks /\ ValidProof \subseteq Blocks /\ Applies \subseteq Blocks
    /\ Delta \in Nat /\ CounterSize \in Nat \ {0}
    /\ Times \subseteq Nat /\ Times # {}

VARIABLES
    node,          \* the store
    verifying      \* requests the verifier has not answered
vars == <<node, verifying>>

Jobs == INSTANCE PendingRequests

(* Better[a]: the blocks that consensus_take takes over the tip a. *)
Better == [a \in Blocks |-> {b \in Blocks : consensus_take(CS[a], CS[b])}]

Slot(b) == CS[b].slot

(* The chain of b, from genesis on. *)
Chain == LET below[b \in Blocks] == IF b = Genesis THEN {b} ELSE below[Pred[b]] \cup {b}
         IN  below

-----------------------------------------------------------------------------
(* The BTreeSet of candidates: a leaf of at most Capacity entries, searched  *)
(* from the left with cmp.                                                   *)

Capacity == 11

Candidate(b, status, proof) ==
    [block |-> b, status |-> status, req |-> <<>>, chain_proof |-> proof]

IsGreater_ByHeight(b, other) == b # other /\ CS[b].height >= CS[other].height

(* cmp(self, other) = Greater: not Equal (same hash) and not Less. *)
IsGreater(b, other) == b # other /\ other \notin Better[b]

search(ordered, b) ==
    LET stops == {i \in DOMAIN ordered : ~IsGreater(b, ordered[i].block)}
    IN  IF stops = {} THEN Len(ordered) + 1 ELSE Min(stops)

found(ordered, b) ==
    LET i == search(ordered, b) IN i \in DOMAIN ordered /\ ordered[i].block = b

insert(ordered, c) ==
    IF found(ordered, c.block) THEN ordered
    ELSE InsertAt(ordered, search(ordered, c.block), c)

remove(ordered, b) ==
    IF found(ordered, b) THEN RemoveAt(ordered, search(ordered, b)) ELSE ordered

-----------------------------------------------------------------------------
(* TransitionFrontierCandidatesState. *)

Index(ordered, b) == SelectLastInSeq(ordered, LAMBDA c : c.block = b)

has(n, b) == Index(n.ordered, b) # 0
get(n, b) == n.ordered[Index(n.ordered, b)]

contains(n, b) == b \in n.invalid \/ has(n, b)

has_status(n, b, status) == has(n, b) /\ get(n, b).status = status

update(n, b, c) == [n EXCEPT !.ordered = insert(remove(@, b), c)]

set_status(n, b, status, req) ==
    update(n, b, [get(n, b) EXCEPT !.status = status, !.req = req])

(* retain of all entries but those of b. *)
without(ordered, b) ==
    LET kept[i \in 0..Len(ordered)] ==
            IF i = 0 THEN <<>>
            ELSE IF ordered[i].block = b THEN kept[i - 1]
            ELSE Append(kept[i - 1], ordered[i])
    IN  kept[Len(ordered)]

invalidate(n, b, is_forever_invalid) ==
    [n EXCEPT !.ordered = without(@, b),
              !.invalid = IF is_forever_invalid /\ has(n, b) THEN @ \cup {b} ELSE @]

VerifiedIndex_Last(n) == Len(n.ordered)

VerifiedIndex(n) ==
    SelectLastInSeq(n.ordered, LAMBDA c : c.status = "SnarkVerifySuccess")

has_verified(n)  == VerifiedIndex(n) # 0
best_verified(n) == n.ordered[VerifiedIndex(n)]

prune_ToBest(n) ==
    IF n.ordered = <<>> THEN n
    ELSE [n EXCEPT !.ordered = <<Last(@)>>,
                   !.invalid = {b \in @ : Slot(b) >= Slot(Last(n.ordered).block)}]

(* retain keeps everything from the first entry of the best verified block   *)
(* on.                                                                       *)
prune(n) ==
    LET best  == best_verified(n).block
        first == SelectInSeq(n.ordered, LAMBDA c : c.block = best)
    IN  IF ~has_verified(n) THEN n
        ELSE [n EXCEPT !.ordered = SubSeq(@, first, Len(@)),
                       !.invalid = {b \in @ : Slot(b) >= Slot(best)}]

(* block_chain_proof: the candidate has one, or the frontier provides it for *)
(* a child or a sibling of its best tip.                                     *)
has_chain_proof(n, c) ==
    \/ c.chain_proof
    \/ Pred[c.block] = n.best_tip
    \/ Pred[c.block] = Pred[n.best_tip] /\ n.best_tip # Genesis

-----------------------------------------------------------------------------
(* Actions of the candidates and of the block verification, as operators     *)
(* from stores to stores.                                                    *)

(* BestTipUpdate of the synchronization, with its enabling condition for a   *)
(* node that is not producing a block.                                       *)
BestTipUpdate(n, b) ==
    IF /\ ~n.committing
       /\ b # n.best_tip /\ b # n.target
       /\ LET tip == IF n.target # NoBlock THEN n.target ELSE n.best_tip
          IN  \/ b \in Better[tip]
              \/ tip = Genesis /\ CS[b].height > CS[tip].height
       /\ Chain[b] \cap n.blacklist = {}
    THEN [n EXCEPT !.target = b]
    ELSE n

TransitionFrontierSyncTargetUpdate(n) ==
    IF /\ has_verified(n)
       /\ LET b == best_verified(n).block
          IN  \A t \in {n.best_tip, n.target} \ {NoBlock} : b # t /\ b \in Better[t]
       /\ has_chain_proof(n, best_verified(n))
    THEN BestTipUpdate(n, best_verified(n).block)
    ELSE n

(* SnarkBlockVerifyAction::Init: a job is added, on_init makes the candidate *)
(* wait for it, the verifier gets the block and the job becomes Pending.     *)
BlockSnarkVerifyPending(n, b, id) ==
    IF has_status(n, b, "Prevalidated") /\ Jobs!contains(n.jobs, id)
    THEN set_status(n, b, "SnarkVerifyPending", <<id>>)
    ELSE n

SnarkBlockVerifyInit_IdAfterAdd(n, b) ==
    LET n1 == [n EXCEPT !.jobs = Jobs!add(@, [status |-> "Init", block |-> b])]
        id == Jobs!next_req_id(n1.jobs)
        n2 == BlockSnarkVerifyPending(n1, b, id)
    IN  [n2 EXCEPT !.jobs = Jobs!set(@, id, [status |-> "Pending", block |-> b])]

SnarkBlockVerifyInit(n, b) ==
    LET id == Jobs!next_req_id(n.jobs)
        n1 == [n EXCEPT !.jobs = Jobs!add(@, [status |-> "Init", block |-> b])]
        n2 == BlockSnarkVerifyPending(n1, b, id)
    IN  [n2 EXCEPT !.jobs = Jobs!set(@, id, [status |-> "Pending", block |-> b])]

(* prevalidate_block *)
TooEarly(n, b) == n.cur_slot < Slot(b)

allow_block_too_late(n, b) == Slot(b) > Slot(n.best_tip) + 2

TooLate(n, b) == ~allow_block_too_late(n, b) /\ n.cur_slot > Slot(b) + Delta

BlockPrevalidateError(n, b) ==
    IF has_status(n, b, "Received") THEN invalidate(n, b, ~TooEarly(n, b)) ELSE n

Prevalid(n, b) == ~TooEarly(n, b) /\ ~TooLate(n, b) /\ b \in WellFormed

(* Whether the event of receiving b starts a verification. *)
BlockReceivedEnabled(n, b) == b # Genesis /\ ~contains(n, b)

add(n, b) == [n EXCEPT !.ordered = insert(@, Candidate(b, "Received", FALSE))]

StartsVerification(n, b) ==
    /\ BlockReceivedEnabled(n, b)
    /\ Prevalid(n, b)
    /\ has_status(add(n, b), b, "Received")

BlockReceived(n, b) ==
    LET n1 == add(n, b)
    IN  IF StartsVerification(n, b)
        THEN SnarkBlockVerifyInit(set_status(n1, b, "Prevalidated", <<>>), b)
        ELSE BlockPrevalidateError(n1, b)

BlockSnarkVerifySuccess(n, b) ==
    IF has_status(n, b, "SnarkVerifyPending")
    THEN TransitionFrontierSyncTargetUpdate(set_status(n, b, "SnarkVerifySuccess", <<>>))
    ELSE n

BlockSnarkVerifyError_Ignored(n, b) == n

BlockSnarkVerifyError(n, b) ==
    IF has_status(n, b, "SnarkVerifyPending") THEN invalidate(n, b, TRUE) ELSE n

(* SnarkBlockVerifyAction::Success and Error: the job's callback, then       *)
(* Finish removes the job.                                                   *)
SnarkBlockVerifyDone(n, id, success) ==
    IF Jobs!contains(n.jobs, id) /\ Jobs!get(n.jobs, id).status = "Pending"
    THEN LET b  == Jobs!get(n.jobs, id).block
             n1 == IF success THEN BlockSnarkVerifySuccess(n, b)
                   ELSE BlockSnarkVerifyError(n, b)
         IN  [n1 EXCEPT !.jobs = Jobs!remove(@, id)]
    ELSE n

-----------------------------------------------------------------------------
Init ==
    /\ node = [ordered |-> <<>>, invalid |-> {}, jobs |-> Jobs!NewRequests,
               best_tip |-> Genesis, target |-> NoBlock, committing |-> FALSE,
               blacklist |-> {}, cur_slot |-> Min(Times)]
    /\ verifying = {}

(* A peer announces its best tip.  (The queries of the synchronization that  *)
(* are also dispatched belong to TransitionFrontierSync!PeerReady.)          *)
P2pBestTipUpdate(b) ==
    /\ Len(node.ordered) < Capacity
    /\ BlockReceivedEnabled(node, b)
    /\ node' = BlockReceived(node, b)
    /\ verifying' = IF StartsVerification(node, b)
                    THEN verifying \cup {[id |-> Jobs!next_req_id(node.jobs), block |-> b]}
                    ELSE verifying

(* The verifier answers one of its requests, in any order. *)
VerifierAnswer(v) ==
    /\ node' = SnarkBlockVerifyDone(node, v.id, v.block \in ValidProof)
    /\ verifying' = verifying \ {v}

(* A peer has answered with its best tip and the proof of its chain. *)
BlockChainProofUpdate(b) ==
    /\ has(node, b) /\ ~get(node, b).chain_proof
    /\ node' = TransitionFrontierSyncTargetUpdate(
                   update(node, b, [get(node, b) EXCEPT !.chain_proof = TRUE]))
    /\ UNCHANGED verifying

CheckTimeouts_NoUpdate == FALSE /\ UNCHANGED vars

(* CheckTimeouts dispatches the update periodically. *)
CheckTimeouts ==
    /\ node' = TransitionFrontierSyncTargetUpdate(node)
    /\ node' # node
    /\ UNCHANGED verifying

(* All blocks of the target are applied and the commit is requested. *)
CommitInit ==
    /\ node.target # NoBlock /\ Chain[node.target] \subseteq Applies
    /\ ~node.committing
    /\ node' = [node EXCEPT !.committing = TRUE]
    /\ UNCHANGED verifying

(* The commit is done: TransitionFrontierAction::Synced, then Prune.  (The   *)
(* blacklist forgets blocks k below the new tip; the trees are lower.)       *)
Synced ==
    /\ node.committing
    /\ node' = prune([node EXCEPT !.best_tip = node.target, !.target = NoBlock,
                                  !.committing = FALSE])
    /\ UNCHANGED verifying

(* The ledger service rejects a block of the target. *)
SyncFailed ==
    /\ node.target # NoBlock
    /\ \E b \in Chain[node.target] \ Applies :
          node' = [node EXCEPT !.blacklist = @ \cup {b}, !.target = NoBlock]
    /\ UNCHANGED verifying

(* The clock. *)
Tick ==
    /\ \E slot \in Times : /\ slot > node.cur_slot
                           /\ node' = [node EXCEPT !.cur_slot = slot]
    /\ UNCHANGED verifying

Next ==
    \/ \E b \in Blocks : P2pBestTipUpdate(b)
    \/ \E v \in verifying : VerifierAnswer(v)
    \/ \E b \in Blocks : BlockChainProofUpdate(b)
    \/ CheckTimeouts
    \/ CommitInit
    \/ Synced
    \/ SyncFailed
    \/ Tick

Spec == Init /\ [][Next]_vars

(* The blocks a node should end at: valid, and better than all valid ones. *)
BestBlocks ==
    {b \in WellFormed \cap ValidProof :
        /\ Chain[b] \subseteq Applies
        /\ \A c \in ((WellFormed \cap ValidProof) \ {b}) : b \in Better[c]}

(* p2p_request_best_tip_if_needed asks the peers for a chain proof. *)
ProofNeeded(b) ==
    /\ has_verified(node) /\ best_verified(node).block = b
    /\ b # node.best_tip /\ b # node.target
    /\ ~best_verified(node).chain_proof

(* The verifier's threads finish, the node's timer fires and the ledger      *)
(* service answers.  The peers are asked for the chain proof of the best     *)
(* verified candidate on every timer tick; nothing is assumed of their       *)
(* answers except that the proof of the best block of the network is not     *)
(* missing for ever: peers that follow the same rule have it as their tip.   *)
Fairness ==
    /\ \A b \in Blocks :
          WF_verifying(\E v \in verifying : v.block = b /\ verifying' = verifying \ {v})
    /\ \A b \in BestBlocks : []<>~ProofNeeded(b)
    /\ WF_vars(CheckTimeouts)
    /\ WF_vars(CommitInit)
    /\ WF_vars(Synced)
    /\ WF_vars(SyncFailed)

FairSpec == Spec /\ Fairness

-----------------------------------------------------------------------------
Ids == [locator : 1..Len(node.jobs.list), counter : 0..(CounterSize - 1)]

(* Types.  Between events no candidate is left Received or Prevalidated, and *)
(* no job in Init.                                                           *)
TypeOK ==
    /\ \A i \in DOMAIN node.ordered :
          /\ node.ordered[i].block \in Blocks \ {Genesis}
          /\ node.ordered[i].status \in {"SnarkVerifyPending", "SnarkVerifySuccess"}
    /\ node.invalid \subseteq Blocks
    /\ \A id \in Jobs!ids(node.jobs) : Jobs!get(node.jobs, id).status = "Pending"
    /\ node.best_tip \in Blocks /\ node.target \in Blocks \cup {NoBlock}
    /\ node.committing => node.target # NoBlock
    /\ node.cur_slot \in Times
    /\ \A v \in verifying : v.id \in Ids /\ v.block \in Blocks

(* A candidate that waits for the verifier has a job for its block that is   *)
(* still to be answered.  The job is found by an id that was taken when the  *)
(* block was received; jobs of pruned candidates are answered in between,    *)
(* their slots are reused, and the same block may be received again while a  *)
(* first job for it is running.                                              *)
PendingHasJob ==
    \A i \in DOMAIN node.ordered :
        LET c == node.ordered[i]
        IN  c.status = "SnarkVerifyPending" =>
                /\ Jobs!contains(node.jobs, c.req[1])
                /\ Jobs!get(node.jobs, c.req[1]).block = c.block
                /\ [id |-> c.req[1], block |-> c.block] \in verifying

(* An answer of the verifier finds the job of the block it was asked to      *)
(* verify, over reused slots and a counter that wraps around, and every job  *)
(* gets an answer.                                                           *)
AnswersReachJob ==
    /\ \A v, w \in verifying : v.id = w.id => v = w
    /\ {[id |-> id, block |-> Jobs!get(node.jobs, id).block] : id \in Jobs!ids(node.jobs)}
          = verifying

(* Only blocks that passed every check become a target, and so the best tip: *)
(* neither a late answer nor pruning and receiving a block again lets one    *)
(* through whose proof the verifier rejects.                                 *)
OnlyValidTargets ==
    \A b \in {node.target, node.best_tip} \ {NoBlock, Genesis} :
        b \in WellFormed \cap ValidProof

(* "Maintains an ordered list of transition frontier Candidates, ordered     *)
(* using consensus rules worst to best" (a BTreeSet, so without duplicates). *)
WorstToBest ==
    \A i, j \in DOMAIN node.ordered :
        i < j => node.ordered[j].block \in Better[node.ordered[i].block]

(* What the ordered list takes for granted: fork choice is an order.  For any *)
(* two blocks it decides (ForkChoice!NodesAgree), but it need not be          *)
(* transitive around the end of an epoch.                                     *)
TotalOrder(S, cs) ==
    /\ \A a, b \in S : consensus_take(cs[a], cs[b]) => ~consensus_take(cs[b], cs[a])
    /\ \A a, b \in S : a # b => consensus_take(cs[a], cs[b]) \/ consensus_take(cs[b], cs[a])
    /\ \A a, b, c \in S : consensus_take(cs[a], cs[b]) /\ consensus_take(cs[b], cs[c])
                              => consensus_take(cs[a], cs[c])

BlocksOrdered == TotalOrder(Blocks, CS)

(* It is one when any two of the blocks are a short range fork for the code: *)
(* they have the staking lock checkpoint of their epoch in common, or are    *)
(* one epoch apart with the checkpoint that the earlier one has fixed.       *)
ShortRange(S, cs) == \A a, b \in S : is_short_range_fork(cs[a], cs[b])

ShortRangeForks == ShortRange(Blocks, CS)

Held == {node.ordered[i].block : i \in DOMAIN node.ordered}
Verified == {node.ordered[i].block :
                i \in {j \in DOMAIN node.ordered :
                          node.ordered[j].status = "SnarkVerifySuccess"}}

(* A candidate with a valid proof leaves the list only in favour of a better *)
(* verified one that stays: pruning never drops a better block whose         *)
(* verification is still running.                                            *)
NothingBetterLost ==
    [][\A b \in (Held \ Held') \cap ValidProof : \E v \in Verified' : v \in Better[b]]_vars

(* If the best valid block of the network is received in time, the node gets *)
(* there: verification, the proof of its chain, the choice of the target     *)
(* (which is refused during a commit) and the synchronization end with it as *)
(* best tip, whatever else is received on the way.                           *)
BestBlockReached ==
    \A b \in BestBlocks : b \in Held ~> node.best_tip = b
=============================================================================
