--------------------- MODULE MCTransitionFrontierCandidate ---------------------
(***************************************************************************)
(* Blocks for TransitionFrontierCandidate, with the consensus states their *)
(* producers give them.                                                    *)
(***************************************************************************)
EXTENDS TransitionFrontierCandidate

(* The consensus states of a tree: spec[b] is <<parent, slot, vrf, hash>>. *)
States(spec) ==
    LET cs[b \in DOMAIN spec] ==
            IF spec[b][1] = b THEN GenesisState
            ELSE BlockUnprovenBuild(cs[spec[b][1]], spec[b][2], spec[b][3], spec[b][4])
    IN  cs

Parents(spec) == [b \in DOMAIN spec |-> spec[b][1]]

(* Two branches; the proof of x3, the best block by its data, is not valid,  *)
(* and y2 is of another network.                                             *)
Branches == "g" :> <<"g", 0, 0, 1>> @@ "a2" :> <<"g", 1, 1, 2>> @@ "a3" :> <<"a2", 3, 1, 3>>
            @@ "b2" :> <<"g", 1, 2, 4>> @@ "x3" :> <<"b2", 3, 2, 5>> @@ "y2" :> <<"g", 3, 1, 6>>
BranchesBlocks == DOMAIN Branches
BranchesCS     == States(Branches)
BranchesPred   == Parents(Branches)

ASSUME BranchesAreOrdered ==
    TotalOrder(BranchesBlocks, BranchesCS) /\ ShortRange(BranchesBlocks, BranchesCS)

(* Two branches around the end of an epoch: b4 is better than a4, its        *)
(* sibling c4 in the next epoch is better than b4, and a4 better than c4.    *)
EpochEnd == "g" :> <<"g", 0, 0, 1>> @@ "a2" :> <<"g", 3, 1, 2>> @@ "a3" :> <<"a2", 7, 1, 3>>
            @@ "b3" :> <<"a2", 10, 1, 4>> @@ "a4" :> <<"a3", 11, 1, 5>>
            @@ "b4" :> <<"b3", 11, 1, 6>> @@ "c4" :> <<"b3", 12, 1, 7>>
EpochEndBlocks == DOMAIN EpochEnd
EpochEndCS     == States(EpochEnd)
EpochEndPred   == Parents(EpochEnd)

ASSUME EpochEndIsNotOrdered ==
    ~TotalOrder(EpochEndBlocks, EpochEndCS) /\ ~ShortRange(EpochEndBlocks, EpochEndCS)
=============================================================================
