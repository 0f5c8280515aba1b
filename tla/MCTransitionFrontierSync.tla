---------------------- MODULE MCTransitionFrontierSync ----------------------
(***************************************************************************)
(* Block trees for TransitionFrontierSync.  A tree is given by its parent  *)
(* function; its blocks are named by branch and height.                    *)
(***************************************************************************)
EXTENDS TransitionFrontierSync, TLC

HeightsOf(pred) ==
    LET h[b \in DOMAIN pred] == IF pred[b] = b THEN 1 ELSE h[pred[b]] + 1 IN h

AncestorsOf(pred) ==
    LET a[b \in DOMAIN pred] == IF pred[b] = b THEN {b} ELSE a[pred[b]] \cup {b} IN a

(* The rank of a block is its position in the order. *)
RanksOf(order) ==
    [b \in {order[i] : i \in DOMAIN order} |-> CHOOSE i \in DOMAIN order : order[i] = b]

At(default, special) == special @@ [b \in Blocks |-> default]

-----------------------------------------------------------------------------
AllGenesis == [b \in Blocks |-> GenesisLedger]

(* Forks: two branches from a3, the better tip of the shorter one does not   *)
(* apply; snarked ledgers stay behind the blocks.  With K = 3 two blocks are *)
(* fetched at a time and the root moves while they are.                      *)
ForksPred == "g" :> "g" @@ "a2" :> "g" @@ "a3" :> "a2" @@ "a4" :> "a3" @@ "a5" :> "a4"
             @@ "a6" :> "a5" @@ "b4" :> "a3" @@ "b5" :> "b4"
ForksBlocks    == DOMAIN ForksPred
ForksHeight    == HeightsOf(ForksPred)
ForksAncestors == AncestorsOf(ForksPred)
ForksRank      == RanksOf(<<"g", "a2", "a3", "a4", "b4", "a5", "b5", "a6">>)
ForksApplies   == ForksBlocks \ {"b5"}
ForksSnarked   == At("G", "a5" :> "L5" @@ "a6" :> "L5")

(* SmallForks: the same with branches from a2. *)
SmallForksPred == "g" :> "g" @@ "a2" :> "g" @@ "a3" :> "a2" @@ "a4" :> "a3" @@ "a5" :> "a4"
                  @@ "b3" :> "a2" @@ "b4" :> "b3"
SmallForksBlocks    == DOMAIN SmallForksPred
SmallForksHeight    == HeightsOf(SmallForksPred)
SmallForksAncestors == AncestorsOf(SmallForksPred)
SmallForksRank      == RanksOf(<<"g", "a2", "a3", "b3", "a4", "b4", "a5">>)
SmallForksApplies   == SmallForksBlocks \ {"b4"}
SmallForksSnarked   == At("G", "a4" :> "L4" @@ "a5" :> "L4")

-----------------------------------------------------------------------------
(* Epochs: one branch of twelve blocks in epochs of three.  Every block has  *)
(* a snarked ledger of its own; that of an epoch's last block is the next    *)
(* epoch ledger of the following epoch, and its staking ledger one later.    *)
Names == <<"g", "a2", "a3", "a4", "a5", "a6", "a7", "a8", "a9", "a10", "a11", "a12">>
Ledger == <<"G", "L2", "L3", "L4", "L5", "L6", "L7", "L8", "L9", "L10", "L11", "L12">>

EpochsPred      == [b \in {Names[i] : i \in 1..12} |->
                       LET i == CHOOSE j \in 1..12 : Names[j] = b
                       IN  IF i = 1 THEN b ELSE Names[i - 1]]
EpochsBlocks    == DOMAIN EpochsPred
EpochsHeight    == HeightsOf(EpochsPred)
EpochsAncestors == AncestorsOf(EpochsPred)
EpochsRank      == EpochsHeight
EpochsLedgers   == {Ledger[i] : i \in 1..12}
EpochsSnarked   == [b \in EpochsBlocks |-> Ledger[EpochsHeight[b]]]

EpochsNextEpoch == [b \in EpochsBlocks |-> IF EpochsHeight[b] < 4 THEN "G"
                                           ELSE Ledger[3 * ((EpochsHeight[b] - 1) \div 3)]]
EpochsStaking   == [b \in EpochsBlocks |-> IF EpochsHeight[b] < 7 THEN "G"
                                           ELSE Ledger[3 * ((EpochsHeight[b] - 1) \div 3) - 3]]

(* The same branch with snarked ledgers that stay for two blocks, starting   *)
(* with a3.                                                                  *)
SlowSnarked == [b \in EpochsBlocks |->
                   IF EpochsHeight[b] < 3 THEN "G"
                   ELSE Ledger[EpochsHeight[b] - ((EpochsHeight[b] + 1) % 2)]]

-----------------------------------------------------------------------------
(* LongRange: a better branch that is shorter than the best chain.           *)
LongRangePred == "g" :> "g" @@ "a2" :> "g" @@ "a3" :> "a2" @@ "a4" :> "a3" @@ "a5" :> "a4"
                 @@ "c4" :> "a3" @@ "c5" :> "c4" @@ "d5" :> "c4"
LongRangeBlocks    == DOMAIN LongRangePred
LongRangeHeight    == HeightsOf(LongRangePred)
LongRangeAncestors == AncestorsOf(LongRangePred)
LongRangeRank      == RanksOf(<<"g", "a2", "a3", "a4", "a5", "c4", "c5", "d5">>)
=============================================================================
