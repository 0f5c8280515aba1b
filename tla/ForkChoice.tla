------------------------------ MODULE ForkChoice ------------------------------
(***************************************************************************)
(* The block tree of the network, grown block by block with the consensus  *)
(* states that block producers give to their blocks, and what fork choice  *)
(* has to promise about any blocks of such a tree.                         *)
(***************************************************************************)
EXTENDS Consensus, Sequences

CONSTANTS
    Slots,       \* the slots somebody produces blocks in
    Vrfs,        \* VRF outputs
    MaxBlocks    \* bound on the size of the tree

ASSUME ForkChoiceAssumption ==
    Slots \subseteq Nat /\ Vrfs \subseteq Nat /\ MaxBlocks \in Nat

VARIABLE
    tree         \* tree[i]: [cs, pred]; a block's hash is its index

(* A block is produced in its slot's time, so slots never decrease. *)
Now == tree[Len(tree)].cs.slot

Init == tree = <<[cs |-> GenesisState, pred |-> 0]>>

(* Some producer wins a slot and builds on a block it knows. *)
ProduceBlock(p, slot, vrf) ==
    /\ Len(tree) < MaxBlocks
    /\ slot >= Now
    /\ slot > tree[p].cs.slot
    /\ tree' = Append(tree, [cs   |-> BlockUnprovenBuild(tree[p].cs, slot, vrf, Len(tree) + 1),
                             pred |-> p])

Next == \E p \in DOMAIN tree, slot \in Slots, vrf \in Vrfs : ProduceBlock(p, slot, vrf)

Spec == Init /\ [][Next]_tree

-----------------------------------------------------------------------------
Take(i, j) == consensus_take(tree[i].cs, tree[j].cs)

(* The blocks below i. *)
ProperAncestors(i) ==
    LET below[j \in DOMAIN tree] ==
            IF tree[j].pred = 0 THEN {} ELSE below[tree[j].pred] \cup {tree[j].pred}
    IN  below[i]

(* Two nodes that compare the same two blocks take the same one, whichever   *)
(* of them is their tip: consensus_take decides for exactly one of (tip,     *)
(* candidate) and (candidate, tip), short or long range, whatever the epochs *)
(* and windows of the two.                                                   *)
NodesAgree ==
    \A i, j \in DOMAIN tree : i # j => (Take(i, j) <=> ~Take(j, i))

(* A node follows the chain it is on: every block is taken over each of its  *)
(* ancestors, over epoch boundaries and gaps without blocks too.  The models *)
(* of the frontier assume this of parents (BlockTree!OrderAssumption).       *)
ExtensionsTaken ==
    \A i \in DOMAIN tree : \A a \in ProperAncestors(i) : Take(a, i)
=============================================================================
