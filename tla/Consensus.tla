------------------------------ MODULE Consensus ------------------------------
(***************************************************************************)
(* Fork choice (core/src/consensus.rs) and the consensus state a new block *)
(* gets from its parent (BlockUnprovenBuild of the block producer).        *)
(*                                                                         *)
(* A consensus state is a record of what fork choice reads:                *)
(*   hash, height (blockchain_length), slot (since the hard fork), vrf,    *)
(*   epoch_count, staking_lock and next_lock (the lock checkpoints of the  *)
(*   staking and next epoch data), min_window_density and, for each        *)
(*   relative sub-window, sub_window_densities.                            *)
(* Hashes and VRF outputs are numbers: only their order matters.           *)
(***************************************************************************)
EXTENDS Integers, FiniteSets, Functions

CONSTANTS
    slots_per_epoch,
    SUB_WINDOWS_PER_WINDOW,
    SLOTS_PER_SUB_WINDOW,
    GRACE_PERIOD_END,      \* up to which fork choice does not project windows
    grace_period_end       \* up to which blocks do not lower the density

(* in_seed_update_range asserts the first conjunct.  The second one, that a  *)
(* third of an epoch is longer than a window and the grace period, is        *)
(* asserted in part by assert_invariants and holds for the constants of all  *)
(* networks.                                                                 *)
ASSUME ConsensusAssumption ==
    /\ slots_per_epoch \in Nat \ {0} /\ slots_per_epoch % 3 = 0
    /\ SUB_WINDOWS_PER_WINDOW \in Nat \ {0}
    /\ SLOTS_PER_SUB_WINDOW \in Nat \ {0}
    /\ SUB_WINDOWS_PER_WINDOW * SLOTS_PER_SUB_WINDOW =< slots_per_epoch \div 3
    /\ GRACE_PERIOD_END \in Nat /\ grace_period_end \in Nat
    /\ GRACE_PERIOD_END =< slots_per_epoch /\ grace_period_end < slots_per_epoch

SubWindows == 0..(SUB_WINDOWS_PER_WINDOW - 1)

Smaller(m, n) == IF m < n THEN m ELSE n
Larger(m, n)  == IF m > n THEN m ELSE n

global_sub_window(slot)   == slot \div SLOTS_PER_SUB_WINDOW
relative_sub_window(slot) == global_sub_window(slot) % SUB_WINDOWS_PER_WINDOW

in_seed_update_range(slot) == slot < (slots_per_epoch \div 3) * 2

-----------------------------------------------------------------------------
(* Fork choice. *)

(* The closure check of is_short_range_fork: s1 is one epoch ahead of s2,    *)
(* which is past its seed update range.                                      *)
OneEpochAhead(s1, s2) ==
    /\ s1.epoch_count = s2.epoch_count + 1
    /\ s2.slot % slots_per_epoch >= (slots_per_epoch * 2) \div 3
    /\ s1.staking_lock = s2.next_lock

is_short_range_fork_OneWay(a, b) ==
    IF a.epoch_count = b.epoch_count THEN a.staking_lock = b.staking_lock
    ELSE OneEpochAhead(b, a)

is_short_range_fork(a, b) ==
    IF a.epoch_count = b.epoch_count THEN a.staking_lock = b.staking_lock
    ELSE OneEpochAhead(a, b) \/ OneEpochAhead(b, a)

relative_min_window_density_Own(b1, b2) == b1.min_window_density

(* The density of b1's window moved up to the later of the two slots.  One   *)
(* sub-window is cleared more than there are slots to move over.             *)
relative_min_window_density(b1, b2) ==
    LET max_slot    == Larger(b1.slot, b2.slot)
        shift_count == Smaller(Larger(max_slot - (b1.slot + 1), 0), SUB_WINDOWS_PER_WINDOW)
        cleared     == {(relative_sub_window(b1.slot) + d) % SUB_WINDOWS_PER_WINDOW :
                            d \in 1..(shift_count + 1)}
    IN  IF max_slot < GRACE_PERIOD_END THEN b1.min_window_density
        ELSE Smaller(b1.min_window_density,
                     SumFunctionOnSet(b1.sub_window_densities, SubWindows \ cleared))

(* The comparisons in the order in which they decide. *)
TakeByVrf(tip, candidate) ==
    \/ candidate.vrf > tip.vrf
    \/ candidate.vrf = tip.vrf /\ candidate.hash > tip.hash

short_range_fork_take(tip, candidate) ==
    \/ candidate.height > tip.height
    \/ candidate.height = tip.height /\ TakeByVrf(tip, candidate)

long_range_fork_take(tip, candidate) ==
    LET tip_density       == relative_min_window_density(tip, candidate)
        candidate_density == relative_min_window_density(candidate, tip)
    IN  \/ candidate_density > tip_density
        \/ candidate_density = tip_density /\ short_range_fork_take(tip, candidate)

consensus_take(tip, candidate) ==
    IF is_short_range_fork(tip, candidate) THEN short_range_fork_take(tip, candidate)
    ELSE long_range_fork_take(tip, candidate)

-----------------------------------------------------------------------------
(* Consensus states of new blocks. *)

(* genesis_and_negative_one_protocol_states; the hash of the block before    *)
(* genesis is -1, StateHash::zero() is 0.                                    *)
GenesisState ==
    [hash |-> 1, height |-> 1, slot |-> 0, vrf |-> 0, epoch_count |-> 0,
     staking_lock |-> 0, next_lock |-> -1,
     min_window_density   |-> SUB_WINDOWS_PER_WINDOW * SLOTS_PER_SUB_WINDOW,
     sub_window_densities |-> [i \in SubWindows |-> IF i = 0 THEN 1
                                                    ELSE SLOTS_PER_SUB_WINDOW]]

(* The windows of a block that follows pred in slot, its own block not       *)
(* counted: what lies between the two sub-windows is cleared.                *)
current_sub_window_densities(pred, slot) ==
    LET from == relative_sub_window(pred.slot)
        to   == relative_sub_window(slot)
        same == global_sub_window(pred.slot) = global_sub_window(slot)
        overlapping == global_sub_window(pred.slot) + SUB_WINDOWS_PER_WINDOW
                          >= global_sub_window(slot)
        within(i) == IF from < to THEN i > from /\ i < to ELSE i > from \/ i < to
    IN  [i \in SubWindows |->
            IF same \/ (overlapping /\ ~within(i)) THEN pred.sub_window_densities[i] ELSE 0]

next_min_window_density(pred, slot) ==
    IF \/ global_sub_window(pred.slot) = global_sub_window(slot)
       \/ slot < grace_period_end
    THEN pred.min_window_density
    ELSE Smaller(pred.min_window_density,
                 SumFunction(current_sub_window_densities(pred, slot)))

next_sub_window_densities(pred, slot) ==
    LET same == global_sub_window(pred.slot) = global_sub_window(slot)
    IN  [current_sub_window_densities(pred, slot) EXCEPT
            ![relative_sub_window(slot)] = IF same THEN @ + 1 ELSE 1]

(* The lock checkpoints: at the first block of an epoch the next epoch's     *)
(* becomes the staking one and StateHash::zero() takes its place; in the     *)
(* seed update range it is the hash of the parent.                           *)
next_epoch_data(pred, slot) ==
    LET new_epoch == slot \div slots_per_epoch > pred.slot \div slots_per_epoch
    IN  [staking_lock |-> IF new_epoch THEN pred.next_lock ELSE pred.staking_lock,
         next_lock    |-> IF in_seed_update_range(slot % slots_per_epoch) THEN pred.hash
                          ELSE IF new_epoch THEN 0 ELSE pred.next_lock]

BlockUnprovenBuild(pred, slot, vrf, hash) ==
    LET new_epoch == slot \div slots_per_epoch > pred.slot \div slots_per_epoch
        data      == next_epoch_data(pred, slot)
    IN  [hash |-> hash, height |-> pred.height + 1, slot |-> slot, vrf |-> vrf,
         epoch_count  |-> pred.epoch_count + (IF new_epoch THEN 1 ELSE 0),
         staking_lock |-> data.staking_lock, next_lock |-> data.next_lock,
         min_window_density   |-> next_min_window_density(pred, slot),
         sub_window_densities |-> next_sub_window_densities(pred, slot)]
=============================================================================
