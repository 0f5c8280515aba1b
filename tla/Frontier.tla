------------------------------- MODULE Frontier -------------------------------
(***************************************************************************)
(* What the transition frontier promises: the best chain is always the     *)
(* (K+1)-block suffix of a branch of the tree; it changes in one step, and *)
(* only to a branch whose tip is better under the consensus order and      *)
(* whose new blocks the ledger has accepted.  A block K below some tip may *)
(* instead have been taken as the root of a bootstrap, on the authority of *)
(* the K blocks above it.                                                  *)
(***************************************************************************)
EXTENDS BlockTree

VARIABLE best_chain

Init == best_chain = {Genesis}

Bootstrapped == {RootOf(t) : t \in Blocks}

Advance == \E t \in Blocks :
    /\ best_chain' = ChainOf(t)
    /\ consensus_take(Highest(best_chain), t)
    /\ ChainOf(t) \ best_chain \subseteq Applies \cup Bootstrapped

Spec == Init /\ [][Advance]_best_chain
=============================================================================
