------------------------------- MODULE BlockTree ------------------------------
(***************************************************************************)
(* The block tree a node works on.                                         *)
(*                                                                         *)
(* A block is an opaque value.  What the code reads from its header is a   *)
(* function of it: the parent, the height.  Rank orders the tips: a        *)
(* candidate is taken over a tip when its rank is higher (consensus_take;  *)
(* module Consensus looks inside it).                                      *)
(***************************************************************************)
EXTENDS Integers, FiniteSets

CONSTANTS
    Blocks,       \* the blocks of the tree
    Genesis,      \* its root
    Pred,         \* Pred[b]: the parent of b (Genesis is its own)
    Height,       \* Height[b]: blockchain_length; 1 for Genesis
    MaxHeight,    \* the largest height: u32::MAX in the code
    Ancestors,    \* Ancestors[b]: b and all blocks below it
    Rank,         \* Rank[b]: position of b in the consensus order
    K,            \* the depth at which a block is final
    Applies       \* the blocks whose transactions the ledger accepts

ASSUME TreeAssumption ==
    /\ Genesis \in Blocks
    /\ Pred \in [Blocks -> Blocks]
    /\ MaxHeight \in Nat /\ Height \in [Blocks -> 1..MaxHeight]
    /\ Ancestors \in [Blocks -> SUBSET Blocks]
    /\ \A b \in Blocks : b \in Ancestors[b]
    /\ \A b \in Blocks : \A a \in Ancestors[b] : Ancestors[a] \subseteq Ancestors[b]
    /\ \A b \in Blocks : \A a, c \in Ancestors[b] : Height[a] = Height[c] => a = c
    /\ \A b \in Blocks : \A a \in Ancestors[b] : Height[a] =< Height[b]
    /\ \A b \in Blocks \ {Genesis} :
          /\ Pred[b] \in Ancestors[b]
          /\ Height[b] = Height[Pred[b]] + 1
    /\ Height[Genesis] = 1 /\ Ancestors[Genesis] = {Genesis}

ASSUME OrderAssumption ==
    /\ Rank \in [Blocks -> Nat]
    /\ \A a, b \in Blocks : Rank[a] = Rank[b] => a = b
    /\ \A b \in Blocks \ {Genesis} : Rank[Pred[b]] < Rank[b]

ASSUME ConstantsAssumption == K \in Nat \ {0} /\ Applies \subseteq Blocks

(* consensus_take(tip, candidate) *)
consensus_take(tip, candidate) == Rank[candidate] > Rank[tip]

(* The blocks of a chain proof of t: t, its root K blocks below (or genesis) *)
(* and the blocks in between.                                               *)
ChainOf(t) == {b \in Ancestors[t] : Height[b] >= Height[t] - K}

Lowest(S)  == CHOOSE b \in S : \A c \in S : Height[b] =< Height[c]
Highest(S) == CHOOSE b \in S : \A c \in S : Height[b] >= Height[c]

RootOf(t) == Lowest(ChainOf(t))
=============================================================================
